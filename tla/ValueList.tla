------------------------------ MODULE ValueList ------------------------------
(***************************************************************************)
(* What do_list promises of its transactions: a sequence of values that    *)
(* grows at the front, loses the first of the equal ones, and is printed   *)
(* as it is.  It knows of no nodes, no memory and no collector.            *)
(***************************************************************************)
EXTENDS Integers, Sequences

CONSTANT Values

VARIABLES values, \* the list
          answer  \* what the last transaction printed: <<>>, an error, or the list

First(v)   == CHOOSE i \in DOMAIN values :
                values[i] = v /\ \A j \in DOMAIN values : values[j] = v => i =< j
Without(i) == [j \in 1 .. Len(values) - 1 |-> values[IF j < i THEN j ELSE j + 1]]

Add(v) == values' = <<v>> \o values /\ answer' = <<>>

Remove(v) ==
  \/ /\ \E i \in DOMAIN values : values[i] = v
     /\ values' = Without(First(v))
     /\ answer' = <<>>
  \/ /\ \A i \in DOMAIN values : values[i] # v
     /\ answer' = <<"could not remove", v>>
     /\ UNCHANGED values

PrintList == answer' = <<"List is", values>> /\ UNCHANGED values

Other == answer' = <<>> /\ UNCHANGED values

(* The list is dropped at the end of the file.                             *)
Drop == values' = <<>> /\ answer' = <<>>

LInit == values = <<>> /\ answer = <<>>

LNext == (\E v \in Values : Add(v) \/ Remove(v)) \/ PrintList \/ Other \/ Drop

LSpec == LInit /\ [][LNext]_<<values, answer>>
=============================================================================
