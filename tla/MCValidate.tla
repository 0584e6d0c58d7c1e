------------------------------ MODULE MCValidate ------------------------------
EXTENDS Validate

MCLetters == {"a", "b", ":"}
MCNames   == {<<>>, <<"a">>, <<"b">>, <<"a", "b">>, <<"b", "a">>, <<"a", "b", "b">>}
MCWords   == MCNames \cup {<<":", "b">>}

Ends == {<<"nl">>, <<"cr", "nl">>}
Entries(u, v, end) ==
  << [user |-> u[1], password |-> u[2], end |-> end], [user |-> v[1], password |-> v[2], end |-> end] >>

(* Two users, the name of one the beginning of the other's.                *)
MCUsers == {<< <<"a">>, <<"a", "b">> >>, << <<"a", "b", "b">>, <<"a", "b">> >>, << <<"b">>, <<>> >>}
WholeFiles ==
  {Entries(<<names[1], p>>, <<names[2], q>>, end) :
     names \in MCUsers, p \in {<<"a">>, <<"b", "a">>}, q \in {<<":", "b">>, <<"a", "b", "b">>}, end \in Ends}

(* A line that fgets returns in two parts, the second like a line of its   *)
(* own, and a last line without its newline.                               *)
Long(user, end) ==
  [user |-> user, password |-> <<"a", "a", "a", "a", "a", "a", "a", "a", ":", "b">>, end |-> end]
Other(end) == [user |-> <<"a", "b">>, password |-> <<"a", "b", "b">>, end |-> end]
OddFiles ==
  {<<Long(<<"b">>, end), Other(last)>> : end \in Ends, last \in Ends \cup {<<>>}}
    \cup {<<Long(<<"b">>, <<>>)>>, <<Other(<<>>)>>}

MCPasswords == WholeFiles \cup OddFiles
=============================================================================
