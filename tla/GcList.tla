------------------------------- MODULE GcList --------------------------------
(***************************************************************************)
(* src/Assignment/A2: a file of transactions on a linked list, written by  *)
(* mktrans.c or by hand, and do_list.c, which executes it on the list of   *)
(* list.c.  Its nodes come from gc_malloc of gc.c and go when the          *)
(* collector finds them unmarked by mark_list of gc_list.c.                *)
(***************************************************************************)
EXTENDS Integers, Sequences, FiniteSets

CONSTANTS Values,   \* values of nodes
          Nodes,    \* addresses malloc may give to the nodes of do_list
          MaxLines  \* bound: transactions in the file

ASSUME MaxLinesAssumption == MaxLines \in Nat

ASSUME NodesAssumption == Nodes \subseteq Nat \ {0}

Null == 0
Wild == -1          \* what an uninitialized pointer may hold

VARIABLES
  origin, \* who writes the file: "mktrans" or "editor"
  state,  \* "writing"; "reading" by do_list; "done"; mktrans may have "crashed"
  file,   \* lines written and not read yet
  lines,  \* lines written, at most MaxLines
  ll,     \* mktrans: its list, as a pointer to a cell
  cells,  \* mktrans: nodes allocated, never freed
  count,  \* mktrans: length
  heap,   \* do_list: contents of the nodes, also of those that were freed
  head,   \* do_list: list_head
  memory, \* do_list: the addresses on memory_list_head
  inUse,  \* do_list: those with in_use set
  out,    \* do_list: what the last transaction printed
  log     \* gc.log: chunks freed and kept, if the last transaction collected

genVars  == <<ll, cells, count>>
listVars == <<heap, head, memory, inUse, out, log>>
vars     == <<origin, state, file, lines, genVars, listVars>>

-----------------------------------------------------------------------------
(* list.c, for a memory of nodes and a pointer into it.                    *)

(* The pointers met by following next from p: the n-th, and those that     *)
(* lead to a node.                                                         *)
Pointers(mem, p) ==
  LET at[n \in 0 .. MaxLines + 1] ==
        IF n = 0 THEN p
        ELSE IF at[n - 1] \in DOMAIN mem THEN mem[at[n - 1]].next ELSE at[n - 1]
  IN at
Positions(mem, p) == {n \in 0 .. MaxLines : Pointers(mem, p)[n] \in DOMAIN mem}
Length(mem, p)    == Cardinality(Positions(mem, p))
Last(mem, p)      == Pointers(mem, p)[Length(mem, p)]      \* NULL, or wild

ToString(mem, p) ==
  [i \in 1 .. Length(mem, p) |-> mem[Pointers(mem, p)[i - 1]].value]

(* find_nth: the value of the last node when the list has fewer than n.    *)
FindNth(mem, p, n) ==
  IF p = Null THEN -1
  ELSE LET at == IF n < Length(mem, p) THEN n ELSE Length(mem, p) - 1
       IN mem[Pointers(mem, p)[at]].value

Hits(mem, p, v)     == {n \in Positions(mem, p) : mem[Pointers(mem, p)[n]].value = v}
FirstHit(mem, p, v) == CHOOSE n \in Hits(mem, p, v) : \A k \in Hits(mem, p, v) : n =< k

(* remove_node for a value that is there: the new head and the new memory. *)
RemoveNode(mem, p, v) ==
  LET n == FirstHit(mem, p, v)
      at == Pointers(mem, p)
  IN IF n = 0 THEN [head |-> mem[p].next, mem |-> mem]
     ELSE [head |-> p, mem |-> [mem EXCEPT ![at[n - 1]].next = mem[at[n]].next]]

-----------------------------------------------------------------------------
(* mktrans.c.                                                              *)

Writes(line) ==
  /\ state = "writing" /\ lines < MaxLines
  /\ file' = Append(file, line) /\ lines' = lines + 1
  /\ UNCHANGED <<origin, listVars>>

(* add_node, with the value that is written to the file.                   *)
GenerateAdd ==
  /\ origin = "mktrans"
  /\ \E v \in Values :
       /\ Writes(<<"a", v>>)
       /\ cells' = Append(cells, [value |-> v, next |-> ll])
       /\ ll' = Len(cells) + 1
       /\ count' = count + 1
       /\ UNCHANGED state

ForgetsToCount == UNCHANGED count               \* mutant: no length--
CountsDown     == count' = count - 1

(* A node of the list is chosen, and its value removed.  The walks of      *)
(* find_nth and remove_node end the program if they follow a wild pointer. *)
GenerateRemove ==
  /\ origin = "mktrans" /\ count > 0
  /\ \E n \in 0 .. count - 1 :
       \/ /\ n >= Length(cells, ll) /\ Last(cells, ll) = Wild
          /\ state = "writing" /\ state' = "crashed"
          /\ UNCHANGED <<origin, file, lines, genVars, listVars>>
       \/ /\ n < Length(cells, ll) \/ Last(cells, ll) = Null
          /\ LET v == FindNth(cells, ll, n) IN
             /\ Writes(<<"r", v>>)
             /\ IF Hits(cells, ll, v) = {} THEN UNCHANGED <<ll, cells>>
                ELSE /\ ll' = RemoveNode(cells, ll, v).head
                     /\ cells' = RemoveNode(cells, ll, v).mem
          /\ CountsDown
          /\ UNCHANGED state

GenerateOther ==
  /\ \E kind \in {"p", "g"} : Writes(<<kind>>)
  /\ UNCHANGED <<state, genVars>>

(* A file made by hand has anything in it.                                 *)
Edit ==
  /\ origin = "editor"
  /\ \E kind \in {"a", "r"}, v \in Values : Writes(<<kind, v>>)
  /\ UNCHANGED <<state, genVars>>

FileWritten ==
  /\ state = "writing" /\ state' = "reading"
  /\ UNCHANGED <<origin, file, lines, genVars, listVars>>

-----------------------------------------------------------------------------
(* gc.c.                                                                   *)

KeepMarks(marks) == marks                       \* mutant: step 1 is missing
Unmarked(marks)  == {}

(* mark_list: mark_one for each node from obj on.                          *)
Reached(obj)  == {Pointers(heap, obj)[n] : n \in Positions(heap, obj)}
MarkNext(obj) ==                                \* mutant: marks curr->next, not curr
  memory \cap {Pointers(heap, obj)[n] : n \in Positions(heap, obj) \ {0}}
MarkList(obj) == memory \cap Reached(obj)

(* mark_and_sweep; without its log it returns at once.                     *)
MarkAndSweep(obj) ==
  \/ LET kept == memory \cap (Unmarked(inUse) \cup MarkList(obj))
     IN /\ memory' = kept /\ inUse' = kept
        /\ log' = <<Cardinality(memory \ kept), Cardinality(kept)>>
  \/ log' = <<>> /\ UNCHANGED <<memory, inUse>>

-----------------------------------------------------------------------------
(* do_list.c: the transaction on the next line.                            *)

ReadsLine(kind) ==
  /\ state = "reading" /\ file # <<>> /\ Head(file)[1] = kind
  /\ file' = Tail(file)
  /\ UNCHANGED <<origin, state, lines, genVars>>

(* malloc gives any address that is free.                                  *)
AddNode ==
  /\ ReadsLine("a")
  /\ \E node \in Nodes \ memory :
       /\ heap' = [heap EXCEPT ![node] = [value |-> Head(file)[2], next |-> head]]
       /\ head' = node
       /\ memory' = memory \cup {node} /\ inUse' = inUse \cup {node}
  /\ out' = <<>> /\ log' = <<>>

DeleteNode ==
  /\ ReadsLine("r")
  /\ LET v == Head(file)[2] IN
     IF Hits(heap, head, v) = {}
     THEN out' = <<"could not remove", v>> /\ UNCHANGED <<heap, head>>
     ELSE /\ head' = RemoveNode(heap, head, v).head
          /\ heap' = RemoveNode(heap, head, v).mem
          /\ out' = <<>>
  /\ log' = <<>> /\ UNCHANGED <<memory, inUse>>

PrintNodes ==
  /\ ReadsLine("p")
  /\ out' = <<"List is", ToString(heap, head)>> /\ log' = <<>>
  /\ UNCHANGED <<heap, head, memory, inUse>>

Collect ==
  /\ ReadsLine("g")
  /\ MarkAndSweep(head)
  /\ out' = <<>>
  /\ UNCHANGED <<heap, head>>

(* After the last line the list is dropped and collected.                  *)
Finish ==
  /\ state = "reading" /\ file = <<>>
  /\ head' = Null
  /\ MarkAndSweep(Null)
  /\ out' = <<>> /\ state' = "done"
  /\ UNCHANGED <<origin, file, lines, genVars, heap>>

-----------------------------------------------------------------------------
Init ==
  /\ origin \in {"mktrans", "editor"}
  /\ state = "writing" /\ file = <<>> /\ lines = 0
  /\ ll \in IF origin = "mktrans" THEN {Null, Wild} ELSE {Null}
  /\ cells = <<>> /\ count = 0
  /\ heap = [n \in Nodes |-> [value |-> 0, next |-> Null]]
  /\ head = Null /\ memory = {} /\ inUse = {} /\ out = <<>> /\ log = <<>>

Writer == GenerateAdd \/ GenerateRemove \/ GenerateOther \/ Edit \/ FileWritten
DoList == AddNode \/ DeleteNode \/ PrintNodes \/ Collect \/ Finish

Next == Writer \/ DoList

Spec == Init /\ [][Next]_vars
-----------------------------------------------------------------------------
(* The list behaves as a sequence of values: neither the collector, at     *)
(* whichever line it runs, nor an address used again changes what is in    *)
(* it, and a removal takes the first of the equal values and no other.     *)
List == INSTANCE ValueList WITH values <- ToString(heap, head), answer <- out
ImplementsList == List!LSpec

(* mktrans removes what do_list will find: its own list, whose pointer it  *)
(* never initializes, stays in step with the file, and its walks end       *)
(* before they follow that pointer.                                        *)
RemovalsFind ==
  /\ state # "crashed"
  /\ origin = "mktrans" => out = <<>> \/ out[1] # "could not remove"

(* A pass that writes the log leaves the nodes of the list allocated and   *)
(* nothing else, and counts them right, whatever earlier passes or marks   *)
(* were like: no node is freed in use, and none stays for good.            *)
CollectionExact ==
  log # <<>> =>
    /\ memory = Reached(head)
    /\ log[2] = Length(heap, head)
=============================================================================
