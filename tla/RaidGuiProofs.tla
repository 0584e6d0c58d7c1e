---------------------------- MODULE RaidGuiProofs ----------------------------
(***************************************************************************)
(* What the window shows follows what the shell printed, for any number of *)
(* disks and of rows, pipes of any size and any commands: however lines    *)
(* are cut into reads, handed over and interleaved with what the user      *)
(* does, the last one of a kind wins.                                      *)
(***************************************************************************)
EXTENDS RaidGui, ParityProofs, SequenceTheorems, TLAPS

Names     == {"ALIVE", "DEAD"}
Status(d) == {<<"status", d, s>> : s \in Names}
Accesses  == {<<"access", b>> : b \in Nat}
Lines     == (UNION {Status(d) : d \in ShellDisks}) \cup Accesses \cup {<<"bytes">>}
Events    == Lines \cup {<<"destroy">>}
Sends     == {<< [cmd |-> c, then |-> t] >> : c \in Commands, t \in {"return", "timer", "destroy"}}

TypeOK ==
  /\ window \in {"open", "closing", "gone"} /\ reader \in {"running", "failed", "ended"}
  /\ send \in {<<>>} \cup Sends /\ stdin \in Seq(Commands)
  /\ stdout \in Seq(Lines) /\ chunk \in Seq(Lines) /\ events \in Seq(Events)
  /\ states \in [ShellDisks -> Names \cup {"UNKNOWN"}]
  /\ reported \in [ShellDisks -> Names \cup {"UNKNOWN"}]
  /\ accessed \in {<<>>} \cup {<<b>> : b \in Nat}
  /\ window = "gone" => send = <<>>

(* No line of q is in K; the last line of q in K is x.                     *)
Free(q, K)    == \A i \in 1 .. Len(q) : q[i] \notin K
Ends(q, K, x) == \E i \in 1 .. Len(q) : /\ q[i] = x /\ x \in K
                                        /\ \A j \in 1 .. Len(q) : j > i => q[j] \notin K

(* When the lines on their way have arrived, the last of K is x: it is on  *)
(* its way, or none is and its effect is there.                            *)
Arrives(K, x, now) == Ends(InFlight, K, x) \/ (Free(InFlight, K) /\ now)

HeadersArrive ==
  \A d \in ShellDisks :
    Arrives(Status(d), <<"status", d, reported[d]>>, states[d] = reported[d])
HighlightArrives ==
  accessed # <<>> =>
    Arrives(Accesses, <<"access", accessed[1]>>, lit = Highlight({}, accessed[1]))

GuiInv ==
  /\ TypeOK
  /\ window # "gone" /\ reader # "failed" => HeadersArrive /\ HighlightArrives

-----------------------------------------------------------------------------
(* The last line of a kind in a sequence that is cut in two.               *)

LEMMA FreeConcat ==
  ASSUME NEW S, NEW a \in Seq(S), NEW b \in Seq(S), NEW K
  PROVE  Free(a \o b, K) <=> Free(a, K) /\ Free(b, K)
<1>1. /\ Len(a) \in Nat /\ Len(b) \in Nat /\ Len(a \o b) = Len(a) + Len(b)
      /\ \A i \in 1 .. Len(a) + Len(b) :
           (a \o b)[i] = IF i =< Len(a) THEN a[i] ELSE b[i - Len(a)]
  BY ConcatProperties, LenProperties
<1>2. ASSUME Free(a \o b, K) PROVE Free(a, K) /\ Free(b, K)
  <2>1. ASSUME NEW i \in 1 .. Len(a) PROVE a[i] \notin K
    BY <1>1, <1>2 DEF Free
  <2>2. ASSUME NEW i \in 1 .. Len(b) PROVE b[i] \notin K
    <3>1. i + Len(a) \in 1 .. Len(a) + Len(b) /\ ~(i + Len(a) =< Len(a)) /\ (i + Len(a)) - Len(a) = i
      BY <1>1
    <3>2. (a \o b)[i + Len(a)] = b[i]
      BY <1>1, <3>1
    <3> QED BY <1>1, <1>2, <3>1, <3>2 DEF Free
  <2> QED BY <2>1, <2>2 DEF Free
<1>3. ASSUME Free(a, K), Free(b, K) PROVE Free(a \o b, K)
  <2>1. ASSUME NEW i \in 1 .. Len(a) + Len(b) PROVE (a \o b)[i] \notin K
    <3>1. CASE i =< Len(a)
      BY <1>1, <1>3, <3>1 DEF Free
    <3>2. CASE ~(i =< Len(a))
      <4>1. i - Len(a) \in 1 .. Len(b)
        BY <1>1, <3>2
      <4> QED BY <1>1, <1>3, <3>2, <4>1 DEF Free
    <3> QED BY <3>1, <3>2
  <2> QED BY <1>1, <2>1 DEF Free
<1> QED BY <1>2, <1>3

LEMMA EndsConcat ==
  ASSUME NEW S, NEW a \in Seq(S), NEW b \in Seq(S), NEW K, NEW x
  PROVE  Ends(a \o b, K, x) <=> Ends(b, K, x) \/ (Free(b, K) /\ Ends(a, K, x))
<1>1. /\ Len(a) \in Nat /\ Len(b) \in Nat /\ Len(a \o b) = Len(a) + Len(b)
      /\ \A i \in 1 .. Len(a) + Len(b) :
           (a \o b)[i] = IF i =< Len(a) THEN a[i] ELSE b[i - Len(a)]
  BY ConcatProperties, LenProperties
<1>2. \A i \in 1 .. Len(b) : /\ i + Len(a) \in 1 .. Len(a) + Len(b)
                             /\ (a \o b)[i + Len(a)] = b[i]
  <2> TAKE i \in 1 .. Len(b)
  <2>1. i + Len(a) \in 1 .. Len(a) + Len(b) /\ ~(i + Len(a) =< Len(a)) /\ (i + Len(a)) - Len(a) = i
    BY <1>1
  <2> QED BY <1>1, <2>1
<1>3. \A i \in 1 .. Len(a) : i \in 1 .. Len(a) + Len(b) /\ (a \o b)[i] = a[i]
  BY <1>1
<1>4. ASSUME Ends(a \o b, K, x) PROVE Ends(b, K, x) \/ (Free(b, K) /\ Ends(a, K, x))
  <2>1. PICK i \in 1 .. Len(a) + Len(b) :
          /\ (a \o b)[i] = x /\ x \in K
          /\ \A j \in 1 .. Len(a) + Len(b) : j > i => (a \o b)[j] \notin K
    BY <1>1, <1>4 DEF Ends
  <2>2. CASE i =< Len(a)
    <3>1. ASSUME NEW j \in 1 .. Len(b) PROVE b[j] \notin K
      <4>1. j + Len(a) > i
        BY <1>1, <2>2
      <4> QED BY <1>2, <2>1, <4>1
    <3>2. i \in 1 .. Len(a) /\ a[i] = x
      BY <1>1, <2>1, <2>2
    <3>3. \A j \in 1 .. Len(a) : j > i => a[j] \notin K
      BY <1>3, <2>1
    <3> QED BY <2>1, <3>1, <3>2, <3>3 DEF Free, Ends
  <2>3. CASE ~(i =< Len(a))
    <3>1. i - Len(a) \in 1 .. Len(b) /\ b[i - Len(a)] = x
      BY <1>1, <2>1, <2>3
    <3>2. ASSUME NEW j \in 1 .. Len(b), j > i - Len(a) PROVE b[j] \notin K
      <4>1. j + Len(a) > i
        BY <1>1, <3>2
      <4> QED BY <1>2, <2>1, <4>1
    <3> QED BY <2>1, <3>1, <3>2 DEF Ends
  <2> QED BY <2>2, <2>3
<1>5. ASSUME Ends(b, K, x) PROVE Ends(a \o b, K, x)
  <2>1. PICK i \in 1 .. Len(b) : /\ b[i] = x /\ x \in K
                                 /\ \A j \in 1 .. Len(b) : j > i => b[j] \notin K
    BY <1>5 DEF Ends
  <2>2. ASSUME NEW j \in 1 .. Len(a) + Len(b), j > i + Len(a) PROVE (a \o b)[j] \notin K
    <3>1. ~(j =< Len(a)) /\ j - Len(a) \in 1 .. Len(b) /\ j - Len(a) > i
      BY <1>1, <2>2
    <3> QED BY <1>1, <2>1, <3>1
  <2> QED BY <1>1, <1>2, <2>1, <2>2 DEF Ends
<1>6. ASSUME Free(b, K), Ends(a, K, x) PROVE Ends(a \o b, K, x)
  <2>1. PICK i \in 1 .. Len(a) : /\ a[i] = x /\ x \in K
                                 /\ \A j \in 1 .. Len(a) : j > i => a[j] \notin K
    BY <1>6 DEF Ends
  <2>2. ASSUME NEW j \in 1 .. Len(a) + Len(b), j > i PROVE (a \o b)[j] \notin K
    <3>1. CASE j =< Len(a)
      BY <1>1, <2>1, <2>2, <3>1
    <3>2. CASE ~(j =< Len(a))
      <4>1. j - Len(a) \in 1 .. Len(b)
        BY <1>1, <3>2
      <4> QED BY <1>1, <1>6, <3>2, <4>1 DEF Free
    <3> QED BY <3>1, <3>2
  <2> QED BY <1>1, <1>3, <2>1, <2>2 DEF Ends
<1> QED BY <1>4, <1>5, <1>6

LEMMA OneLine ==
  ASSUME NEW S, NEW x \in S, NEW K, NEW y
  PROVE  /\ Free(<<x>>, K) <=> x \notin K
         /\ Ends(<<x>>, K, y) <=> x = y /\ x \in K
<1>1. Len(<<x>>) = 1 /\ <<x>>[1] = x
  OBVIOUS
<1>2. \A i \in 1 .. 1 : i = 1
  OBVIOUS
<1> QED BY <1>1, <1>2 DEF Free, Ends

LEMMA NoLine == ASSUME NEW K, NEW x PROVE Free(<<>>, K) /\ ~Ends(<<>>, K, x)
<1>1. Len(<<>>) = 0
  OBVIOUS
<1>2. \A i \in 1 .. 0 : FALSE
  OBVIOUS
<1> QED BY <1>1, <1>2 DEF Free, Ends

(* Which line is of which kind.                                            *)
LEMMA Kinds ==
  /\ \A x \in Events : x \in Accesses <=> x[1] = "access"
  /\ \A x \in Events, d \in ShellDisks : x \in Status(d) <=> (x[1] = "status" /\ x[2] = d)
  /\ \A d \in ShellDisks : \A x \in Status(d) : x[3] \in Names /\ x = <<"status", d, x[3]>>
  /\ \A x \in Accesses : x[2] \in Nat /\ x = <<"access", x[2]>>
<1>1. \A d \in ShellDisks : \A x \in Status(d) :
        x[1] = "status" /\ x[2] = d /\ x[3] \in Names /\ x = <<"status", d, x[3]>>
  BY DEF Status
<1>2. \A x \in Accesses : x[1] = "access" /\ x[2] \in Nat /\ x = <<"access", x[2]>>
  BY DEF Accesses
<1>3. <<"bytes">>[1] = "bytes" /\ <<"destroy">>[1] = "destroy"
  OBVIOUS
<1>4. \A x \in Events : \/ \E d \in ShellDisks : x \in Status(d)
                        \/ x \in Accesses \/ x = <<"bytes">> \/ x = <<"destroy">>
  <2>1. \A x \in UNION {Status(d) : d \in ShellDisks} : \E d \in ShellDisks : x \in Status(d)
    OBVIOUS
  <2>2. \A x \in Lines : \/ x \in UNION {Status(d) : d \in ShellDisks}
                         \/ x \in Accesses \/ x = <<"bytes">>
    BY DEF Lines
  <2>3. \A x \in Events : x \in Lines \/ x = <<"destroy">>
    BY DEF Events
  <2> QED BY <2>1, <2>2, <2>3
<1> QED BY <1>1, <1>2, <1>3, <1>4

LEMMA LineTypes ==
  /\ Lines \subseteq Events /\ <<"bytes">> \in Lines /\ <<"destroy">> \in Events
  /\ \A d \in ShellDisks, n \in Names : <<"status", d, n>> \in Lines /\ <<"status", d, n>> \in Status(d)
  /\ \A b \in Nat : <<"access", b>> \in Lines
<1>1. \A d \in ShellDisks : \A n \in Names : <<"status", d, n>> \in Status(d)
  BY DEF Status
<1>2. \A d \in ShellDisks : Status(d) \subseteq Lines
  BY DEF Lines
<1>3. \A b \in Nat : <<"access", b>> \in Accesses
  BY DEF Accesses
<1> QED BY <1>1, <1>2, <1>3 DEF Lines, Events

(* A command that names a block.                                           *)
LEMMA Blocks == \A cmd \in Commands : cmd[1] \in {"rb", "wb"} => cmd[2] \in Int
<1> SUFFICES ASSUME NEW cmd \in Commands, cmd[1] \in {"rb", "wb"} PROVE cmd[2] \in Int
  OBVIOUS
<1>1. cmd \notin {<<"status">>, <<"other">>, <<"exit">>}
  OBVIOUS
<1>2. cmd \notin {<<"kill", d>> : d \in ShellDisks}
  OBVIOUS
<1>3. cmd \in {<<kind, b>> : kind \in {"rb", "wb"}, b \in Arguments}
  BY <1>1, <1>2 DEF Commands
<1> QED BY <1>3, ArgumentsAssumption

-----------------------------------------------------------------------------
(* Types.                                                                  *)

LEMMA TakeType ==
  ASSUME TypeOK, NEW kind, Take(kind)
  PROVE  Head(stdin) \in Commands /\ Head(stdin)[1] = kind /\ stdin' \in Seq(Commands)
<1>1. stdin \in Seq(Commands) /\ stdin # <<>> /\ stdin' = Tail(stdin) /\ Head(stdin)[1] = kind
  BY DEF TypeOK, Take
<1> HIDE DEF Commands
<1> QED BY <1>1, HeadTailProperties

LEMMA PrintsType ==
  ASSUME TypeOK, NEW q \in Seq(Lines), Prints(q)
  PROVE  stdout' \in Seq(Lines) /\ (window # "gone" => stdout' = stdout \o q)
<1>1. stdout \in Seq(Lines)
  BY DEF TypeOK
<1>2. stdout \o q \in Seq(Lines) /\ <<>> \in Seq(Lines)
  BY <1>1, ConcatProperties, EmptySeq
<1> QED BY <1>2 DEF Prints

LEMMA StatusType == StatusLines \in Seq(Lines) /\ Len(StatusLines) = NumDisks + 1
<1> DEFINE e(i) == <<"status", i - 1, StateName(i - 1)>>
<1>1. NumDisks + 1 \in Nat
  BY DisksAssumption
<1>2. \A i \in 1 .. NumDisks + 1 : e(i) \in Lines
  <2> TAKE i \in 1 .. NumDisks + 1
  <2>1. i - 1 \in ShellDisks
    BY DisksAssumption
  <2>2. StateName(i - 1) \in Names
    BY DEF StateName, Names
  <2> QED BY <2>1, <2>2, LineTypes
<1>3. [i \in 1 .. NumDisks + 1 |-> e(i)] \in Seq(Lines)
  <2> HIDE DEF e
  <2> QED BY <1>1, <1>2, IsASeq
<1> QED BY <1>1, <1>3, LenProperties DEF StatusLines

LEMMA CmdLineType == ASSUME NEW b \in Int PROVE CmdLine(b) \in Seq(Lines)
<1>1. CASE b < 0
  BY <1>1, EmptySeq DEF CmdLine
<1>2. CASE ~(b < 0)
  <2>1. <<"access", b>> \in Lines
    BY <1>2, LineTypes
  <2>2. \A x \in Lines : <<x>> \in Seq(Lines)
    OBVIOUS
  <2> QED BY <1>2, <2>1, <2>2 DEF CmdLine
<1> QED BY <1>1, <1>2

LEMMA LeaveType ==
  ASSUME TypeOK, Leave, UNCHANGED <<states, reported, accessed>>, stdin' \in Seq(Commands)
  PROVE  TypeOK'
BY EmptySeq DEF TypeOK, Leave

LEMMA InitType == Init => TypeOK
BY EmptySeq DEF Init, TypeOK

(* What a step that moves no line of the pipes keeps.                      *)
LEMMA ViewType ==
  ASSUME TypeOK, UNCHANGED <<window, send, stdout, lineVars, viewVars>>, stdin' \in Seq(Commands),
         accessed' \in {<<>>} \cup {<<b>> : b \in Nat},
         reported' \in [ShellDisks -> Names \cup {"UNKNOWN"}]
  PROVE  TypeOK'
<1>1. UNCHANGED <<window, send, stdout, reader, chunk, events, states, lit>>
  BY DEF lineVars, viewVars
<1> HIDE DEF Sends, Commands
<1> QED BY <1>1 DEF TypeOK

LEMMA ShellType == TypeOK /\ ShellStep => TypeOK'
<1> SUFFICES ASSUME TypeOK, ShellStep PROVE TypeOK'
  OBVIOUS
<1> USE DEF mainVars, pipeVars, auxVars
<1>1. stdin \in Seq(Commands) /\ stdout \in Seq(Lines)
  BY DEF TypeOK
<1>2. /\ accessed \in {<<>>} \cup {<<b>> : b \in Nat}
      /\ reported \in [ShellDisks -> Names \cup {"UNKNOWN"}]
  BY DEF TypeOK
<1>3. CASE ShellStatus
  <2>1. reported' \in [ShellDisks -> Names \cup {"UNKNOWN"}]
    BY <1>3 DEF ShellStatus, StateName, Names
  <2>2. stdin' \in Seq(Commands) /\ stdout' \in Seq(Lines)
    BY <1>3, TakeType, PrintsType, StatusType DEF ShellStatus
  <2>3. UNCHANGED <<window, send, reader, chunk, events, states, lit, accessed>>
    BY <1>3 DEF ShellStatus, lineVars, viewVars
  <2> QED BY <2>1, <2>2, <2>3 DEF TypeOK
<1>4. CASE ShellKill \/ ShellRefuses
  <2>1. stdin' \in Seq(Commands)
    BY <1>4, TakeType DEF ShellKill, ShellRefuses
  <2> QED BY <1>2, <1>4, <2>1, ViewType DEF ShellKill, ShellRefuses
<1>5. CASE ShellAccess
  <2>1. PICK kind \in {"rb", "wb"} :
          /\ Take(kind)
          /\ Prints(CmdLine(Head(stdin)[2]))
          /\ accessed' = IF Head(stdin)[2] < 0 THEN accessed ELSE <<Head(stdin)[2]>>
          /\ UNCHANGED <<window, send, reader, chunk, events, states, lit, reported>>
    BY <1>5 DEF ShellAccess, lineVars, viewVars
  <2>2. Head(stdin)[2] \in Int
    BY <2>1, TakeType, Blocks
  <2>3. stdin' \in Seq(Commands) /\ stdout' \in Seq(Lines)
    BY <2>1, <2>2, TakeType, PrintsType, CmdLineType
  <2>4. accessed' \in {<<>>} \cup {<<b>> : b \in Nat}
    BY <1>2, <2>1, <2>2
  <2> QED BY <2>1, <2>3, <2>4 DEF TypeOK
<1>6. CASE ShellDone
  <2>1. << <<"bytes">> >> \in Seq(Lines)
    BY LineTypes
  <2>2. stdout' \in Seq(Lines)
    BY <1>1, <1>6, <2>1, PrintsType DEF ShellDone
  <2>3. UNCHANGED <<window, send, stdin, reader, chunk, events, states, lit, reported, accessed>>
    BY <1>6 DEF ShellDone, lineVars, viewVars
  <2> QED BY <2>2, <2>3 DEF TypeOK
<1>7. CASE ShellRestarts \/ ShellGivesUp \/ ShellEnds
  BY <1>1, <1>2, <1>7, ViewType DEF ShellRestarts, ShellGivesUp, ShellEnds
<1>8. CASE ShellExit
  <2>1. stdin' \in Seq(Commands)
    BY <1>1, <1>8, TakeType DEF ShellExit
  <2> QED BY <1>2, <1>8, <2>1, ViewType DEF ShellExit
<1> QED BY <1>3, <1>4, <1>5, <1>6, <1>7, <1>8 DEF ShellStep

(* What a read() takes off the pipe, and what it leaves.                   *)
LEMMA CutType ==
  ASSUME TypeOK, NEW k \in 1 .. Len(stdout)
  PROVE  /\ SubSeq(stdout, 1, k) \in Seq(Lines) /\ SubSeq(stdout, k + 1, Len(stdout)) \in Seq(Lines)
         /\ stdout = SubSeq(stdout, 1, k) \o SubSeq(stdout, k + 1, Len(stdout))
<1>1. stdout \in Seq(Lines) /\ Len(stdout) \in Nat
  BY LenProperties DEF TypeOK
<1>2. \A i \in 1 .. Len(stdout) : stdout[i] \in Lines
  BY <1>1, ElementOfSeq
<1>3. SubSeq(stdout, 1, k) \in Seq(Lines)
  BY <1>1, <1>2, SubSeqProperties
<1>4. SubSeq(stdout, k + 1, Len(stdout)) \in Seq(Lines)
  BY <1>1, <1>2, SubSeqProperties
<1>5. SubSeq(stdout, 1, k) \o SubSeq(stdout, k + 1, Len(stdout)) = SubSeq(stdout, 1, Len(stdout))
  BY <1>1, ConcatAdjacentSubSeq
<1> QED BY <1>1, <1>3, <1>4, <1>5, SubSeqFull

LEMMA ReaderType == TypeOK /\ Reader => TypeOK'
<1> SUFFICES ASSUME TypeOK, Reader PROVE TypeOK'
  OBVIOUS
<1>1. UNCHANGED <<window, send, stdin, states, lit, reported, accessed>>
  BY DEF Reader, ReadChunk, Post, ReaderEof, ReaderAlone, mainVars, viewVars, auxVars
<1>2. /\ stdout' \in Seq(Lines) /\ chunk' \in Seq(Lines) /\ events' \in Seq(Events)
      /\ reader' \in {"running", "failed", "ended"}
  <2>1. stdout \in Seq(Lines) /\ chunk \in Seq(Lines) /\ events \in Seq(Events)
    BY DEF TypeOK
  <2>2. CASE ReadChunk
    <3>1. PICK k \in 1 .. Len(stdout) :
            /\ stdout' = SubSeq(stdout, k + 1, Len(stdout))
            /\ chunk' \in {chunk, SubSeq(stdout, 1, k)}
            /\ reader' \in {reader, "failed"}
      BY <2>2 DEF ReadChunk
    <3>2. events' = events
      BY <2>2 DEF ReadChunk
    <3>3. SubSeq(stdout, 1, k) \in Seq(Lines) /\ SubSeq(stdout, k + 1, Len(stdout)) \in Seq(Lines)
      BY CutType
    <3> QED BY <2>1, <3>1, <3>2, <3>3 DEF TypeOK
  <2>3. CASE Post
    <3>1. Head(chunk) \in Lines /\ Tail(chunk) \in Seq(Lines)
      BY <2>1, <2>3, HeadTailProperties DEF Post
    <3>2. Append(events, Head(chunk)) \in Seq(Events)
      BY <2>1, <3>1, LineTypes, AppendProperties
    <3> QED BY <2>1, <2>3, <3>1, <3>2 DEF Post, TypeOK
  <2>4. CASE ReaderEof
    BY <2>1, <2>4 DEF ReaderEof, TypeOK
  <2> QED BY <2>2, <2>3, <2>4 DEF Reader
<1> HIDE DEF Sends, Commands
<1> QED BY <1>1, <1>2 DEF TypeOK

LEMMA SendParts ==
  ASSUME TypeOK, send # <<>>
  PROVE  send[1].cmd \in Commands /\ send[1].then \in {"return", "timer", "destroy"}
<1> HIDE DEF Commands
<1> QED BY DEF TypeOK, Sends

LEMMA GoesOnType ==
  ASSUME TypeOK, send # <<>>, NEW then \in {"return", "timer", "destroy"}, GoesOn(then),
         stdin' \in Seq(Commands), UNCHANGED <<states, reported, accessed>>
  PROVE  TypeOK'
<1> USE DEF lineVars
<1>1. CASE then = "destroy"
  BY <1>1, LeaveType DEF GoesOn, Terminate
<1>2. CASE then \in {"return", "timer"}
  <2>1. /\ send' = <<>> /\ window' \in {window, "closing"}
        /\ UNCHANGED <<stdout, reader, chunk, events>>
    BY <1>2 DEF GoesOn
  <2> HIDE DEF Sends, Commands
  <2> QED BY <2>1 DEF TypeOK
<1> QED BY <1>1, <1>2

LEMMA StartSendType ==
  ASSUME TypeOK, NEW cmd \in Commands, NEW then \in {"return", "timer", "destroy"},
         StartSend(cmd, then)
  PROVE  TypeOK'
<1> USE DEF lineVars, viewVars, auxVars
<1>1. stdin' = stdin /\ UNCHANGED <<states, reported, accessed>> /\ stdin \in Seq(Commands)
  BY DEF StartSend, TypeOK
<1>2. CASE send' = << [cmd |-> cmd, then |-> then] >> /\ UNCHANGED <<window, stdout, lineVars>>
  <2>1. send' \in Sends
    BY <1>2 DEF Sends
  <2>2. window # "gone"
    BY DEF StartSend, InLoop
  <2> HIDE DEF Sends, Commands
  <2> QED BY <1>1, <1>2, <2>1, <2>2 DEF TypeOK
<1>3. CASE UNCHANGED <<window, send, stdout, lineVars>>
  <2> HIDE DEF Sends, Commands
  <2> QED BY <1>1, <1>3 DEF TypeOK
<1>4. CASE Terminate
  BY <1>1, <1>4, LeaveType DEF Terminate
<1> QED BY <1>2, <1>3, <1>4 DEF StartSend

LEMMA MainType == TypeOK /\ (User \/ Main \/ TimerDue) => TypeOK'
<1> USE DEF mainVars, pipeVars, lineVars, viewVars, auxVars
<1>1. ASSUME TypeOK, User PROVE TypeOK'
  <2>1. <<"exit">> \in Commands
    BY DEF Commands
  <2> QED BY <1>1, <2>1, StartSendType DEF User, Command, ExitButton, CloseWindow
<1>2. ASSUME TypeOK, WriteLine PROVE TypeOK'
  <2>1. stdin' \in Seq(Commands)
    <3> HIDE DEF Commands
    <3> QED BY <1>2, SendParts, AppendProperties DEF WriteLine, TypeOK
  <2> QED BY <1>2, <2>1, SendParts, GoesOnType DEF WriteLine
<1>3. ASSUME TypeOK, WriteFails PROVE TypeOK'
  <2>1. stdin' \in Seq(Commands)
    BY <1>3 DEF WriteFails, TypeOK
  <2> QED BY <1>3, <2>1, GoesOnType DEF WriteFails
<1>4. ASSUME TypeOK, HandleEvent PROVE TypeOK'
  <2>1. UNCHANGED <<stdin, reported, accessed>> /\ stdin \in Seq(Commands)
    BY <1>4 DEF HandleEvent, TypeOK
  <2>2. CASE Leave /\ UNCHANGED viewVars
    BY <1>4, <2>1, <2>2, LeaveType
  <2>3. CASE /\ Head(events)[1] # "destroy" /\ events' = Tail(events)
             /\ states' = StatesAfter(Head(events), states)
             /\ UNCHANGED <<window, send, stdout, reader, chunk>>
    <3>1. Head(events) \in Events /\ Tail(events) \in Seq(Events)
      BY <1>4, HeadTailProperties DEF HandleEvent, TypeOK
    <3>2. states' \in [ShellDisks -> Names \cup {"UNKNOWN"}]
      <4>1. CASE Head(events)[1] = "status"
        <5>1. Head(events) \in Lines
          BY <3>1, <2>3 DEF Events
        <5>2. PICK d \in ShellDisks : Head(events) \in Status(d)
          <6>1. Head(events) \notin Accesses /\ Head(events) # <<"bytes">>
            BY <3>1, <4>1, Kinds
          <6>2. Head(events) \in UNION {Status(d) : d \in ShellDisks}
            BY <5>1, <6>1 DEF Lines
          <6> QED BY <6>2
        <5>3. Head(events)[3] \in Names
          BY <5>2, Kinds
        <5> QED BY <1>4, <2>3, <5>3 DEF StatesAfter, TypeOK
      <4>2. CASE Head(events)[1] # "status"
        BY <1>4, <2>3, <4>2 DEF StatesAfter, TypeOK
      <4> QED BY <4>1, <4>2
    <3> HIDE DEF Sends, Commands
    <3> QED BY <1>4, <2>1, <2>3, <3>1, <3>2 DEF TypeOK
  <2> QED BY <1>4, <2>2, <2>3 DEF HandleEvent
<1>5. ASSUME TypeOK, TimerDue PROVE TypeOK'
  <2>1. Append(events, <<"destroy">>) \in Seq(Events)
    BY <1>5, LineTypes, AppendProperties DEF TypeOK
  <2> HIDE DEF Sends, Commands
  <2> QED BY <1>5, <2>1 DEF TypeOK, TimerDue
<1> QED BY <1>1, <1>2, <1>3, <1>4, <1>5 DEF Main

LEMMA NextType == TypeOK /\ [Next]_vars => TypeOK'
<1>1. TypeOK /\ UNCHANGED vars => TypeOK'
  BY DEF vars, mainVars, pipeVars, lineVars, viewVars, auxVars, TypeOK
<1> QED BY <1>1, ShellType, ReaderType, MainType DEF Next

-----------------------------------------------------------------------------
(* The lines on their way.                                                 *)

(* The last line of a kind, by the part of the way it is on.               *)
LEMMA Parts ==
  ASSUME NEW e \in Seq(Events), NEW c \in Seq(Lines), NEW o \in Seq(Lines), NEW K, NEW x
  PROVE  /\ Free(e \o c \o o, K) <=> Free(e, K) /\ Free(c, K) /\ Free(o, K)
         /\ Ends(e \o c \o o, K, x) <=>
              \/ Ends(o, K, x)
              \/ Free(o, K) /\ Ends(c, K, x)
              \/ Free(o, K) /\ Free(c, K) /\ Ends(e, K, x)
<1>1. c \in Seq(Events) /\ o \in Seq(Events)
  BY SeqMonotonic, LineTypes
<1>2. e \o c \in Seq(Events)
  BY <1>1, ConcatProperties
<1>3. /\ Free((e \o c) \o o, K) <=> Free(e \o c, K) /\ Free(o, K)
      /\ Free(e \o c, K) <=> Free(e, K) /\ Free(c, K)
  BY <1>1, <1>2, FreeConcat
<1>4. /\ Ends((e \o c) \o o, K, x) <=> Ends(o, K, x) \/ (Free(o, K) /\ Ends(e \o c, K, x))
      /\ Ends(e \o c, K, x) <=> Ends(c, K, x) \/ (Free(c, K) /\ Ends(e, K, x))
  <2>1. Ends((e \o c) \o o, K, x) <=> Ends(o, K, x) \/ (Free(o, K) /\ Ends(e \o c, K, x))
    <3> DEFINE ec == e \o c
    <3>1. ec \in Seq(Events) /\ o \in Seq(Events)
      BY <1>1, <1>2
    <3> HIDE DEF ec
    <3>2. Ends(ec \o o, K, x) <=> Ends(o, K, x) \/ (Free(o, K) /\ Ends(ec, K, x))
      BY <3>1, EndsConcat
    <3> QED BY <3>2 DEF ec
  <2>2. Ends(e \o c, K, x) <=> Ends(c, K, x) \/ (Free(c, K) /\ Ends(e, K, x))
    BY <1>1, EndsConcat
  <2> QED BY <2>1, <2>2
<1> HIDE DEF Free, Ends
<1> QED BY <1>3, <1>4

LEMMA FrontLine ==
  ASSUME NEW S, NEW q \in Seq(S), q # <<>>
  PROVE  q = <<Head(q)>> \o Tail(q)
<1>1. Head(q) \in S /\ Tail(q) \in Seq(S) /\ Len(q) \in Nat \ {0} /\ Head(q) = q[1]
  BY HeadTailProperties, EmptySeq
<1>2. SubSeq(q, 1, Len(q)) = << q[1] >> \o SubSeq(q, 1 + 1, Len(q))
  BY <1>1, SubSeqRecursiveFirst
<1>3. SubSeq(q, 1, Len(q)) = q /\ Tail(q) = SubSeq(q, 2, Len(q))
  BY SubSeqFull, TailIsSubSeq
<1> QED BY <1>1, <1>2, <1>3

LEMMA LastLine ==
  ASSUME NEW S, NEW q \in Seq(S), NEW x \in S
  PROVE  Append(q, x) = q \o <<x>> /\ <<x>> \in Seq(S)
OBVIOUS

(* A step that neither adds nor takes a line of K, nor changes their order. *)
Unmoved(K) ==
  \A x : /\ Free(InFlight', K) <=> Free(InFlight, K)
         /\ Ends(InFlight', K, x) <=> Ends(InFlight, K, x)

LEMMA Standing == UNCHANGED <<stdout, lineVars>> => \A K : Unmoved(K)
BY DEF Unmoved, InFlight, lineVars

(* The shell prints behind all that is on its way.                         *)
LEMMA Printed ==
  ASSUME TypeOK, TypeOK', NEW q \in Seq(Lines), stdout' = stdout \o q, UNCHANGED lineVars, NEW K
  PROVE  /\ Free(q, K) => Unmoved(K)
         /\ \A x : Ends(q, K, x) => Ends(InFlight', K, x)
<1>1. events \in Seq(Events) /\ chunk \in Seq(Lines) /\ stdout \in Seq(Lines)
  BY DEF TypeOK
<1>2. stdout' \in Seq(Lines) /\ events' = events /\ chunk' = chunk
  BY DEF TypeOK, lineVars
<1>3. /\ Free(stdout', K) <=> Free(stdout, K) /\ Free(q, K)
      /\ \A x : Ends(stdout', K, x) <=> Ends(q, K, x) \/ (Free(q, K) /\ Ends(stdout, K, x))
  BY <1>1, FreeConcat, EndsConcat
<1>4. InFlight = events \o chunk \o stdout /\ InFlight' = events \o chunk \o stdout'
  BY <1>2 DEF InFlight
<1>5. ASSUME NEW x
      PROVE  /\ Ends(q, K, x) => Ends(InFlight', K, x)
             /\ Free(q, K) => /\ Free(InFlight', K) <=> Free(InFlight, K)
                              /\ Ends(InFlight', K, x) <=> Ends(InFlight, K, x)
  <2>1. /\ Free(InFlight, K) <=> Free(events, K) /\ Free(chunk, K) /\ Free(stdout, K)
        /\ Ends(InFlight, K, x) <=>
             \/ Ends(stdout, K, x)
             \/ Free(stdout, K) /\ Ends(chunk, K, x)
             \/ Free(stdout, K) /\ Free(chunk, K) /\ Ends(events, K, x)
    BY <1>1, <1>4, Parts
  <2>2. /\ Free(InFlight', K) <=> Free(events, K) /\ Free(chunk, K) /\ Free(stdout', K)
        /\ Ends(InFlight', K, x) <=>
             \/ Ends(stdout', K, x)
             \/ Free(stdout', K) /\ Ends(chunk, K, x)
             \/ Free(stdout', K) /\ Free(chunk, K) /\ Ends(events, K, x)
    BY <1>1, <1>2, <1>4, Parts
  <2>3. /\ Free(stdout', K) <=> Free(stdout, K) /\ Free(q, K)
        /\ Ends(stdout', K, x) <=> Ends(q, K, x) \/ (Free(q, K) /\ Ends(stdout, K, x))
    BY <1>3
  <2>4. Ends(q, K, x) => Ends(InFlight', K, x)
    BY <2>2, <2>3
  <2>5. Free(q, K) => (Free(InFlight', K) <=> Free(InFlight, K))
    BY <2>1, <2>2, <2>3
  <2>6. Free(q, K) => (Ends(InFlight', K, x) <=> Ends(InFlight, K, x))
    <3>1. ~(Free(q, K) /\ Ends(q, K, x))
      BY DEF Free, Ends
    <3> QED BY <2>1, <2>2, <2>3, <3>1
  <2> QED BY <2>4, <2>5, <2>6
<1> QED BY <1>5 DEF Unmoved

(* A read() and the hand-over keep the order of all lines.                 *)
LEMMA ReaderMoves ==
  ASSUME TypeOK, TypeOK', Reader, reader' # "failed"
  PROVE  InFlight' = InFlight
<1>1. events \in Seq(Events) /\ chunk \in Seq(Lines) /\ stdout \in Seq(Lines)
  BY DEF TypeOK
<1>2. CASE ReadChunk
  <2>1. PICK k \in 1 .. Len(stdout) :
          stdout' = SubSeq(stdout, k + 1, Len(stdout)) /\ chunk' = SubSeq(stdout, 1, k)
    BY <1>2 DEF ReadChunk
  <2>2. chunk' \o stdout' = stdout
    BY <2>1, CutType
  <2>3. chunk = <<>> /\ events' = events
    BY <1>2 DEF ReadChunk
  <2>4. chunk' \in Seq(Events) /\ stdout' \in Seq(Events)
    BY SeqMonotonic, LineTypes DEF TypeOK
  <2>5. (events \o chunk') \o stdout' = events \o (chunk' \o stdout')
    <3>1. \A a, b, c \in Seq(Events) : (a \o b) \o c = a \o (b \o c)
      BY ConcatAssociative
    <3> QED BY <1>1, <2>4, <3>1
  <2>6. events \o chunk = events
    BY <1>1, <2>3, ConcatEmptySeq
  <2> QED BY <2>2, <2>3, <2>5, <2>6 DEF InFlight
<1>3. CASE Post
  <2>1. /\ events' = Append(events, Head(chunk)) /\ chunk' = Tail(chunk) /\ stdout' = stdout
        /\ chunk # <<>>
    BY <1>3 DEF Post
  <2>2. chunk = <<Head(chunk)>> \o Tail(chunk) /\ Head(chunk) \in Lines /\ Tail(chunk) \in Seq(Lines)
    BY <1>1, <2>1, FrontLine, HeadTailProperties
  <2>3. Head(chunk) \in Events /\ Tail(chunk) \in Seq(Events)
    BY <2>2, SeqMonotonic, LineTypes
  <2>4. events' = events \o <<Head(chunk)>> /\ <<Head(chunk)>> \in Seq(Events)
    BY <1>1, <2>1, <2>3, LastLine
  <2>5. (events \o <<Head(chunk)>>) \o Tail(chunk) = events \o (<<Head(chunk)>> \o Tail(chunk))
    BY <1>1, <2>3, <2>4, ConcatAssociative
  <2>6. events' \o chunk' = events \o chunk
    BY <2>1, <2>2, <2>4, <2>5
  <2> QED BY <2>1, <2>6 DEF InFlight
<1>4. CASE ReaderEof
  BY <1>4 DEF ReaderEof, InFlight
<1> QED BY <1>2, <1>3, <1>4 DEF Reader

(* The timer's event waits in turn and shows nothing.                      *)
LEMMA TimerMoves ==
  ASSUME TypeOK, TypeOK', TimerDue, NEW K, <<"destroy">> \notin K
  PROVE  Unmoved(K)
<1> DEFINE t == << <<"destroy">> >>
<1>1. events \in Seq(Events) /\ chunk \in Seq(Lines) /\ stdout \in Seq(Lines)
  BY DEF TypeOK
<1>2. chunk' = chunk /\ stdout' = stdout /\ events' \in Seq(Events)
  BY DEF TimerDue, pipeVars, TypeOK
<1>3. events' = events \o t /\ t \in Seq(Events)
  BY <1>1, LastLine, LineTypes DEF TimerDue
<1>4. ASSUME NEW x
      PROVE  /\ Free(events', K) <=> Free(events, K)
             /\ Ends(events', K, x) <=> Ends(events, K, x)
  <2>1. Free(t, K) /\ ~Ends(t, K, x)
    BY OneLine, LineTypes
  <2>2. /\ Free(events', K) <=> Free(events, K) /\ Free(t, K)
        /\ Ends(events', K, x) <=> Ends(t, K, x) \/ (Free(t, K) /\ Ends(events, K, x))
    BY <1>1, <1>3, FreeConcat, EndsConcat
  <2> QED BY <2>1, <2>2
<1>5. ASSUME NEW x
      PROVE  /\ Free(InFlight', K) <=> Free(InFlight, K)
             /\ Ends(InFlight', K, x) <=> Ends(InFlight, K, x)
  <2>1. /\ Free(InFlight, K) <=> Free(events, K) /\ Free(chunk, K) /\ Free(stdout, K)
        /\ Ends(InFlight, K, x) <=>
             \/ Ends(stdout, K, x)
             \/ Free(stdout, K) /\ Ends(chunk, K, x)
             \/ Free(stdout, K) /\ Free(chunk, K) /\ Ends(events, K, x)
    BY <1>1, Parts DEF InFlight
  <2>2. InFlight' = events' \o chunk \o stdout
    BY <1>2 DEF InFlight
  <2>3. /\ Free(InFlight', K) <=> Free(events', K) /\ Free(chunk, K) /\ Free(stdout, K)
        /\ Ends(InFlight', K, x) <=>
             \/ Ends(stdout, K, x)
             \/ Free(stdout, K) /\ Ends(chunk, K, x)
             \/ Free(stdout, K) /\ Free(chunk, K) /\ Ends(events', K, x)
    BY <1>1, <1>2, <2>2, Parts
  <2> QED BY <1>4, <2>1, <2>3
<1> QED BY <1>5 DEF Unmoved

(* The oldest line is taken off.                                           *)
LEMMA EventTaken ==
  ASSUME TypeOK, events # <<>>, events' = Tail(events), UNCHANGED <<chunk, stdout>>, NEW K
  PROVE  /\ Free(InFlight, K) => Free(InFlight', K) /\ Head(events) \notin K
         /\ \A x : Ends(InFlight, K, x) =>
              \/ Ends(InFlight', K, x)
              \/ Free(InFlight', K) /\ Head(events) = x
         /\ Head(events) \notin K => Unmoved(K)
<1>1. events \in Seq(Events) /\ chunk \in Seq(Lines) /\ stdout \in Seq(Lines)
  BY DEF TypeOK
<1> DEFINE h == Head(events)
           t == Tail(events)
<1>2. h \in Events /\ t \in Seq(Events) /\ <<h>> \in Seq(Events)
  BY <1>1, HeadTailProperties
<1>3. events = <<h>> \o t
  BY <1>1, FrontLine
<1>4. InFlight = events \o chunk \o stdout /\ InFlight' = t \o chunk \o stdout
  BY DEF InFlight
<1> HIDE DEF h, t
<1>5. ASSUME NEW x
      PROVE  /\ Free(events, K) <=> h \notin K /\ Free(t, K)
             /\ Ends(events, K, x) <=> Ends(t, K, x) \/ (Free(t, K) /\ h = x /\ h \in K)
  <2>1. /\ Free(<<h>>, K) <=> h \notin K
        /\ Ends(<<h>>, K, x) <=> h = x /\ h \in K
    BY <1>2, OneLine
  <2>2. /\ Free(<<h>> \o t, K) <=> Free(<<h>>, K) /\ Free(t, K)
        /\ Ends(<<h>> \o t, K, x) <=> Ends(t, K, x) \/ (Free(t, K) /\ Ends(<<h>>, K, x))
    BY <1>2, FreeConcat, EndsConcat
  <2> QED BY <1>3, <2>1, <2>2
<1>6. ASSUME NEW x
      PROVE  /\ Free(InFlight, K) => Free(InFlight', K) /\ h \notin K
             /\ Ends(InFlight, K, x) =>
                  \/ Ends(InFlight', K, x)
                  \/ Free(InFlight', K) /\ h = x
             /\ h \notin K => /\ Free(InFlight', K) <=> Free(InFlight, K)
                              /\ Ends(InFlight', K, x) <=> Ends(InFlight, K, x)
  <2>1. /\ Free(InFlight, K) <=> Free(events, K) /\ Free(chunk, K) /\ Free(stdout, K)
        /\ Ends(InFlight, K, x) <=>
             \/ Ends(stdout, K, x)
             \/ Free(stdout, K) /\ Ends(chunk, K, x)
             \/ Free(stdout, K) /\ Free(chunk, K) /\ Ends(events, K, x)
    BY <1>1, <1>4, Parts
  <2>2. /\ Free(InFlight', K) <=> Free(t, K) /\ Free(chunk, K) /\ Free(stdout, K)
        /\ Ends(InFlight', K, x) <=>
             \/ Ends(stdout, K, x)
             \/ Free(stdout, K) /\ Ends(chunk, K, x)
             \/ Free(stdout, K) /\ Free(chunk, K) /\ Ends(t, K, x)
    BY <1>1, <1>2, <1>4, Parts
  <2> QED BY <1>5, <2>1, <2>2
<1> QED BY <1>6 DEF Unmoved, h

-----------------------------------------------------------------------------
(* What the lines on their way will show.                                  *)

LEMMA InitView == Init => HeadersArrive /\ HighlightArrives
<1> SUFFICES ASSUME Init PROVE HeadersArrive /\ HighlightArrives
  OBVIOUS
<1>1. InFlight = <<>>
  BY DEF Init, InFlight
<1> QED BY <1>1, NoLine DEF Init, HeadersArrive, HighlightArrives, Arrives

LEMMA HeadersKept ==
  ASSUME HeadersArrive, \A d \in ShellDisks : Unmoved(Status(d)), UNCHANGED <<states, reported>>
  PROVE  HeadersArrive'
<1>1. ASSUME NEW d \in ShellDisks
      PROVE  Arrives(Status(d), <<"status", d, reported[d]>>, states[d] = reported[d])'
  BY DEF HeadersArrive, Arrives, Unmoved
<1> QED BY <1>1 DEF HeadersArrive

LEMMA HighlightKept ==
  ASSUME HighlightArrives, Unmoved(Accesses), UNCHANGED <<lit, accessed>>
  PROVE  HighlightArrives'
BY DEF HighlightArrives, Arrives, Unmoved

(* A status prints one line of every disk, the parity disk included.       *)
LEMMA StatusPrinted ==
  /\ Free(StatusLines, Accesses)
  /\ \A d \in ShellDisks : Ends(StatusLines, Status(d), <<"status", d, StateName(d)>>)
<1>1. Len(StatusLines) = NumDisks + 1 /\ NumDisks \in Nat
  BY StatusType, DisksAssumption
<1>2. \A i \in 1 .. NumDisks + 1 :
        /\ StatusLines[i] = <<"status", i - 1, StateName(i - 1)>>
        /\ StatusLines[i][1] = "status" /\ StatusLines[i][2] = i - 1
        /\ StatusLines[i] \in Events
  <2> TAKE i \in 1 .. NumDisks + 1
  <2>1. StatusLines[i] = <<"status", i - 1, StateName(i - 1)>>
    BY DEF StatusLines
  <2>2. StatusLines[i] \in Events
    BY <1>1, StatusType, ElementOfSeq, LineTypes
  <2> QED BY <2>1, <2>2
<1>3. Free(StatusLines, Accesses)
  <2>1. \A i \in 1 .. NumDisks + 1 : StatusLines[i] \notin Accesses
    BY <1>2, Kinds
  <2> QED BY <1>1, <2>1 DEF Free
<1>4. ASSUME NEW d \in ShellDisks
      PROVE  Ends(StatusLines, Status(d), <<"status", d, StateName(d)>>)
  <2>1. d + 1 \in 1 .. NumDisks + 1 /\ (d + 1) - 1 = d
    BY <1>1, DisksAssumption
  <2>2. StatusLines[d + 1] = <<"status", d, StateName(d)>>
    BY <1>2, <2>1
  <2>3. StatusLines[d + 1] \in Status(d)
    BY <2>2, LineTypes DEF StateName, Names
  <2>4. \A j \in 1 .. NumDisks + 1 : j > d + 1 => StatusLines[j] \notin Status(d)
    <3> SUFFICES ASSUME NEW j \in 1 .. NumDisks + 1, j > d + 1 PROVE StatusLines[j] \notin Status(d)
      OBVIOUS
    <3>1. j - 1 # d
      BY <1>1, <2>1, DisksAssumption
    <3> QED BY <1>2, <3>1, Kinds
  <2> QED BY <1>1, <2>1, <2>2, <2>3, <2>4 DEF Ends
<1> QED BY <1>3, <1>4

LEMMA ShellView ==
  ASSUME TypeOK, TypeOK', ShellStep, window # "gone", HeadersArrive, HighlightArrives
  PROVE  HeadersArrive' /\ HighlightArrives'
<1> USE DEF mainVars, pipeVars, viewVars, auxVars
<1>1. CASE ShellStatus
  <2>1. /\ stdout' = stdout \o StatusLines /\ UNCHANGED <<lineVars, states, lit, accessed>>
        /\ \A d \in ShellDisks : reported'[d] = StateName(d)
    BY <1>1, PrintsType, StatusType DEF ShellStatus
  <2>2. HeadersArrive'
    <3>1. ASSUME NEW d \in ShellDisks
          PROVE  Ends(InFlight', Status(d), <<"status", d, reported'[d]>>)
      BY <2>1, Printed, StatusType, StatusPrinted
    <3> QED BY <3>1 DEF HeadersArrive, Arrives
  <2>3. HighlightArrives'
    BY <2>1, Printed, StatusType, StatusPrinted, HighlightKept
  <2> QED BY <2>2, <2>3
<1>2. CASE ShellAccess
  <2>1. PICK b \in Int :
          /\ stdout' = stdout \o CmdLine(b) /\ CmdLine(b) \in Seq(Lines)
          /\ accessed' = IF b < 0 THEN accessed ELSE <<b>>
    <3>1. PICK kind \in {"rb", "wb"} :
            /\ Take(kind)
            /\ Prints(CmdLine(Head(stdin)[2]))
            /\ accessed' = IF Head(stdin)[2] < 0 THEN accessed ELSE <<Head(stdin)[2]>>
      BY <1>2 DEF ShellAccess
    <3>2. Head(stdin)[2] \in Int
      BY <3>1, TakeType, Blocks
    <3> QED BY <3>1, <3>2, PrintsType, CmdLineType
  <2>2. UNCHANGED <<lineVars, states, lit, reported>>
    BY <1>2 DEF ShellAccess
  <2>3. CASE b < 0
    <3>1. \A K : Free(CmdLine(b), K)
      BY <2>3, NoLine DEF CmdLine
    <3>2. \A K : Unmoved(K)
      BY <2>1, <2>2, <3>1, Printed
    <3> QED BY <2>1, <2>2, <2>3, <3>2, HeadersKept, HighlightKept
  <2>4. CASE ~(b < 0)
    <3> DEFINE x == <<"access", b>>
    <3>1. CmdLine(b) = <<x>> /\ x \in Accesses /\ x \in Events /\ x[1] = "access"
      BY <2>4, LineTypes DEF CmdLine, Accesses
    <3>2. \A d \in ShellDisks : x \notin Status(d)
      BY <3>1, Kinds
    <3>3. \A d \in ShellDisks : Free(<<x>>, Status(d))
      BY <3>1, <3>2, OneLine
    <3>4. Ends(<<x>>, Accesses, x)
      BY <3>1, OneLine
    <3>5. \A d \in ShellDisks : Unmoved(Status(d))
      BY <2>1, <2>2, <3>1, <3>3, Printed
    <3>6. Ends(InFlight', Accesses, x)
      BY <2>1, <2>2, <3>1, <3>4, Printed
    <3>7. accessed' = <<b>>
      BY <2>1, <2>4
    <3>8. HighlightArrives'
      BY <3>6, <3>7 DEF HighlightArrives, Arrives
    <3> QED BY <2>2, <3>5, <3>8, HeadersKept
  <2> QED BY <2>3, <2>4
<1>3. CASE ShellDone
  <2>1. UNCHANGED <<lineVars, states, lit, reported, accessed>>
    BY <1>3 DEF ShellDone
  <2>2. CASE UNCHANGED stdout
    BY <2>1, <2>2, Standing, HeadersKept, HighlightKept
  <2>3. CASE Prints(<< <<"bytes">> >>)
    <3> DEFINE x == <<"bytes">>
    <3>1. x \in Lines /\ x \in Events /\ x[1] = "bytes" /\ <<x>> \in Seq(Lines)
      BY LineTypes
    <3>2. x \notin Accesses /\ \A d \in ShellDisks : x \notin Status(d)
      BY <3>1, Kinds
    <3>3. Free(<<x>>, Accesses) /\ \A d \in ShellDisks : Free(<<x>>, Status(d))
      BY <3>1, <3>2, OneLine
    <3>4. stdout' = stdout \o <<x>>
      BY <2>3, <3>1, PrintsType
    <3>5. Unmoved(Accesses) /\ \A d \in ShellDisks : Unmoved(Status(d))
      BY <2>1, <3>1, <3>3, <3>4, Printed
    <3> QED BY <2>1, <3>5, HeadersKept, HighlightKept
  <2> QED BY <1>3, <2>2, <2>3 DEF ShellDone
<1>4. CASE ShellKill \/ ShellRefuses \/ ShellRestarts \/ ShellGivesUp \/ ShellExit \/ ShellEnds
  <2>1. UNCHANGED <<stdout, lineVars, states, lit, reported, accessed>>
    BY <1>4 DEF ShellKill, ShellRefuses, ShellRestarts, ShellGivesUp, ShellExit, ShellEnds
  <2> QED BY <2>1, Standing, HeadersKept, HighlightKept
<1> QED BY <1>1, <1>2, <1>3, <1>4 DEF ShellStep

LEMMA EventView ==
  ASSUME TypeOK, TypeOK', HandleEvent, window' # "gone", HeadersArrive, HighlightArrives
  PROVE  HeadersArrive' /\ HighlightArrives'
<1> DEFINE h == Head(events)
<1>1. /\ events # <<>> /\ h[1] # "destroy" /\ events' = Tail(events)
      /\ states' = StatesAfter(h, states) /\ lit' = LitAfter(h, lit)
      /\ UNCHANGED <<stdout, chunk, reported, accessed>>
  BY DEF HandleEvent, Leave, auxVars
<1>2. h \in Events
  BY <1>1, HeadTailProperties DEF TypeOK
<1>3. ASSUME NEW d \in ShellDisks
      PROVE  Arrives(Status(d), <<"status", d, reported[d]>>, states[d] = reported[d])'
  <2> DEFINE x == <<"status", d, reported[d]>>
             A == Ends(InFlight, Status(d), x)
             F == Free(InFlight, Status(d))
  <2>1. A \/ (F /\ states[d] = reported[d])
    BY DEF HeadersArrive, Arrives
  <2>2. /\ F => Free(InFlight', Status(d)) /\ h \notin Status(d)
        /\ A => Ends(InFlight', Status(d), x) \/ (Free(InFlight', Status(d)) /\ h = x)
    BY <1>1, EventTaken
  <2>3. CASE Ends(InFlight', Status(d), x)
    BY <1>1, <2>3 DEF Arrives
  <2>4. CASE Free(InFlight', Status(d)) /\ h = x
    <3>1. states'[d] = reported[d]
      BY <1>1, <2>4 DEF StatesAfter, TypeOK
    <3> QED BY <1>1, <2>4, <3>1 DEF Arrives
  <2>5. CASE F /\ states[d] = reported[d]
    <3>1. Free(InFlight', Status(d)) /\ h \notin Status(d)
      BY <2>2, <2>5
    <3>2. ~(h[1] = "status" /\ h[2] = d)
      BY <1>2, <3>1, Kinds
    <3>3. states'[d] = states[d]
      BY <1>1, <3>2 DEF StatesAfter, TypeOK
    <3> QED BY <1>1, <2>5, <3>1, <3>3 DEF Arrives
  <2> QED BY <2>1, <2>2, <2>3, <2>4, <2>5
<1>4. HighlightArrives'
  <2> SUFFICES ASSUME accessed # <<>>
               PROVE  Arrives(Accesses, <<"access", accessed[1]>>,
                              lit = Highlight({}, accessed[1]))'
    BY <1>1 DEF HighlightArrives
  <2> DEFINE x == <<"access", accessed[1]>>
             A == Ends(InFlight, Accesses, x)
             F == Free(InFlight, Accesses)
  <2>1. A \/ (F /\ lit = Highlight({}, accessed[1]))
    BY DEF HighlightArrives, Arrives
  <2>2. /\ F => Free(InFlight', Accesses) /\ h \notin Accesses
        /\ A => Ends(InFlight', Accesses, x) \/ (Free(InFlight', Accesses) /\ h = x)
    BY <1>1, EventTaken
  <2>3. CASE Ends(InFlight', Accesses, x)
    BY <1>1, <2>3 DEF Arrives
  <2>4. CASE Free(InFlight', Accesses) /\ h = x
    <3>1. lit' = Highlight({}, accessed[1])
      BY <1>1, <2>4 DEF LitAfter, Highlight
    <3> QED BY <1>1, <2>4, <3>1 DEF Arrives
  <2>5. CASE F /\ lit = Highlight({}, accessed[1])
    <3>1. Free(InFlight', Accesses) /\ h \notin Accesses
      BY <2>2, <2>5
    <3>2. lit' = lit
      BY <1>1, <1>2, <3>1, Kinds DEF LitAfter
    <3> QED BY <1>1, <2>5, <3>1, <3>2 DEF Arrives
  <2> QED BY <2>1, <2>2, <2>3, <2>4, <2>5
<1> QED BY <1>3, <1>4 DEF HeadersArrive

LEMMA InvInit == Init => GuiInv
BY InitType, InitView DEF GuiInv

LEMMA InvNext == GuiInv /\ [Next]_vars => GuiInv'
<1> SUFFICES ASSUME GuiInv, [Next]_vars PROVE GuiInv'
  OBVIOUS
<1> USE DEF mainVars, pipeVars, lineVars, viewVars, auxVars
<1>1. TypeOK /\ TypeOK'
  BY NextType DEF GuiInv
<1>2. ASSUME window' # "gone", reader' # "failed" PROVE HeadersArrive' /\ HighlightArrives'
  <2>1. CASE ShellStep
    <3>1. UNCHANGED <<window, reader>>
      BY <2>1 DEF ShellStep, ShellStatus, ShellKill, ShellRefuses, ShellAccess, ShellRestarts,
                  ShellDone, ShellGivesUp, ShellExit, ShellEnds
    <3> QED BY <1>1, <1>2, <2>1, <3>1, ShellView DEF GuiInv
  <2>2. CASE Reader
    <3>1. window' = window /\ reader # "failed"
      BY <2>2 DEF Reader, ReadChunk, Post, ReaderEof, ReaderAlone
    <3>2. InFlight' = InFlight
      BY <1>1, <1>2, <2>2, ReaderMoves
    <3>3. UNCHANGED <<states, lit, reported, accessed>>
      BY <2>2 DEF Reader, ReadChunk, Post, ReaderEof, ReaderAlone
    <3>4. HeadersArrive /\ HighlightArrives
      BY <1>2, <3>1 DEF GuiInv
    <3>5. \A K : Unmoved(K)
      BY <3>2 DEF Unmoved
    <3> QED BY <3>3, <3>4, <3>5, HeadersKept, HighlightKept
  <2>3. CASE HandleEvent
    <3>1. window # "gone" /\ reader # "failed"
      BY <1>2, <2>3 DEF HandleEvent, InLoop, Leave
    <3> QED BY <1>1, <1>2, <2>3, <3>1, EventView DEF GuiInv
  <2>4. CASE TimerDue
    <3>1. window # "gone" /\ reader # "failed" /\ UNCHANGED <<states, lit, reported, accessed>>
      BY <1>2, <2>4 DEF TimerDue
    <3>2. <<"destroy">> \notin Accesses /\ \A d \in ShellDisks : <<"destroy">> \notin Status(d)
      <4>1. <<"destroy">>[1] = "destroy"
        OBVIOUS
      <4> QED BY <4>1, Kinds, LineTypes
    <3>3. Unmoved(Accesses) /\ \A d \in ShellDisks : Unmoved(Status(d))
      BY <1>1, <2>4, <3>2, TimerMoves
    <3> QED BY <3>1, <3>3, HeadersKept, HighlightKept DEF GuiInv
  <2>5. CASE User \/ WriteLine \/ WriteFails \/ UNCHANGED vars
    <3>1. /\ window # "gone" /\ reader # "failed"
          /\ UNCHANGED <<stdout, lineVars, states, lit, reported, accessed>>
      <4>1. CASE User
        <5>1. PICK cmd, then : StartSend(cmd, then)
          BY <4>1 DEF User, Command, ExitButton, CloseWindow
        <5> QED BY <1>2, <5>1 DEF StartSend, InLoop, Terminate, Leave
      <4>2. CASE WriteLine \/ WriteFails
        <5>1. PICK then : GoesOn(then)
          BY <4>2 DEF WriteLine, WriteFails
        <5>2. send # <<>> /\ UNCHANGED <<states, lit, reported, accessed>>
          BY <4>2 DEF WriteLine, WriteFails
        <5>3. window # "gone"
          BY <1>1, <5>2 DEF TypeOK
        <5> QED BY <1>2, <5>1, <5>2, <5>3 DEF GoesOn, Terminate, Leave
      <4>3. CASE UNCHANGED vars
        BY <1>2, <4>3 DEF vars
      <4> QED BY <2>5, <4>1, <4>2, <4>3
    <3> QED BY <3>1, Standing, HeadersKept, HighlightKept DEF GuiInv
  <2> QED BY <2>1, <2>2, <2>3, <2>4, <2>5 DEF Next, Main
<1> QED BY <1>1, <1>2 DEF GuiInv

-----------------------------------------------------------------------------
(* The labels of the window.                                               *)

LEMMA Less ==
  ASSUME NEW N \in Nat \ {0}, NEW q \in Nat, NEW r \in 0 .. N - 1,
         NEW s \in Nat, NEW d \in 0 .. N - 1
  PROVE  q * N + r < s * N + d <=> q < s \/ (q = s /\ r < d)
<1>1. ASSUME NEW x \in Nat, NEW y \in Nat, x < y PROVE x * N + N =< y * N
  <2>1. PICK z \in Nat : y = (x + 1) + z
    <3>1. y - (x + 1) \in Nat
      BY <1>1
    <3> QED BY <3>1
  <2>2. y * N = x * N + N + z * N
    BY <2>1
  <2>3. z * N \in Nat /\ x * N \in Nat
    OBVIOUS
  <2> QED BY <2>2, <2>3
<1>2. q * N \in Nat /\ s * N \in Nat
  OBVIOUS
<1>3. CASE q < s
  BY <1>1, <1>2, <1>3
<1>4. CASE s < q
  BY <1>1, <1>2, <1>4
<1>5. CASE q = s
  BY <1>2, <1>5
<1> QED BY <1>3, <1>4, <1>5

(* draw_layout counts the labels of the data disks row by row.             *)
LEMMA Numbered ==
  ASSUME NEW d \in 0 .. NumDisks - 1, NEW s \in 0 .. NumStripes - 1
  PROVE  NumberOn(d, s) = s * NumDisks + d
<1> DEFINE N == NumDisks
           n == s * N + d
           T == {c \in DataCells : c[2] < s \/ (c[2] = s /\ c[1] < d)}
           cell(k) == <<k % N, k \div N>>
           f == [k \in 0 .. n - 1 |-> cell(k)]
<1>0. N \in Nat \ {0} /\ NumStripes \in Nat /\ s \in Nat /\ d \in Nat /\ n \in Nat
  BY DisksAssumption, StripesAssumption
<1>1. \A k \in 0 .. n - 1 : k = (k \div N) * N + (k % N) /\ cell(k) \in T
  <2> TAKE k \in 0 .. n - 1
  <2> DEFINE q == k \div N
             r == k % N
  <2>1. k \in 0 .. N * (s + 1) - 1
    <3>1. n < N * (s + 1)
      BY <1>0
    <3> QED BY <1>0, <3>1
  <2>2. q \in 0 .. s /\ r \in 0 .. N - 1 /\ k = q * N + r
    <3>1. s + 1 \in Nat /\ (s + 1) - 1 = s
      BY <1>0
    <3> QED BY <1>0, <2>1, <3>1, DivSplit
  <2> HIDE DEF q, r
  <2>3. q * N + r < s * N + d
    BY <1>0, <2>2
  <2>4. q < s \/ (q = s /\ r < d)
    BY <1>0, <2>2, <2>3, Less
  <2>5. <<r, q>> \in DataCells
    BY <1>0, <2>2 DEF DataCells
  <2>6. <<r, q>> \in T
    BY <2>4, <2>5
  <2> QED BY <2>2, <2>6 DEF q, r
<1>2. \A c \in T : \E k \in 0 .. n - 1 : cell(k) = c
  <2> TAKE c \in T
  <2>1. PICK r \in 0 .. N - 1, q \in 0 .. NumStripes - 1 : c = <<r, q>>
    BY DEF DataCells
  <2>2. q < s \/ (q = s /\ r < d)
    BY <2>1
  <2>3. q * N + r < s * N + d
    BY <1>0, <2>1, <2>2, Less
  <2>4. (q * N + r) % N = r /\ (q * N + r) \div N = q
    <3>1. q \in Nat
      BY <1>0, <2>1
    <3>2. \A m \in Nat \ {0} : \A a \in Nat : \A b \in 0 .. m - 1 :
            (a * m + b) % m = b /\ (a * m + b) \div m = a
      BY DivMod
    <3>3. N \in Nat \ {0} /\ r \in 0 .. N - 1
      BY <1>0, <2>1
    <3> HIDE DEF N
    <3> QED BY <3>1, <3>2, <3>3
  <2>5. q * N + r \in 0 .. n - 1
    BY <1>0, <2>1, <2>3
  <2> QED BY <2>1, <2>4, <2>5
<1> HIDE DEF T
<1>3. f \in Bijection(0 .. n - 1, T)
  <2>1. f \in [0 .. n - 1 -> T]
    BY <1>1
  <2>2. \A j, k \in 0 .. n - 1 : f[j] = f[k] => j = k
    <3> SUFFICES ASSUME NEW j \in 0 .. n - 1, NEW k \in 0 .. n - 1, cell(j) = cell(k)
                 PROVE  j = k
      OBVIOUS
    <3>1. j % N = k % N /\ j \div N = k \div N
      OBVIOUS
    <3> QED BY <1>1, <3>1
  <2>3. \A c \in T : \E k \in 0 .. n - 1 : f[k] = c
    BY <1>2
  <2> QED BY <2>1, <2>2, <2>3 DEF Bijection, Injection, Surjection, IsInjective
<1>4. IsFiniteSet(0 .. n - 1) /\ Cardinality(0 .. n - 1) = n
  <2>1. n - 1 \in Int /\ (0 > n - 1 <=> n = 0) /\ n - 1 - 0 + 1 = n
    BY <1>0
  <2> QED BY <2>1, FS_Interval
<1>5. Cardinality(T) = n
  BY <1>3, <1>4, FS_Bijection DEF ExistsBijection
<1> QED BY <1>5 DEF NumberOn, T

(* highlight_logical_block lights the label that bears the number.         *)
LEMMA Lit == ASSUME NEW b \in Nat PROVE Highlight({}, b) = LabelsOf(b)
<1> DEFINE N == NumDisks
           M == NumStripes
           q == b \div N
           r == b % N
           E == {e \in DataCells : NumberOn(e[1], e[2]) = b}
<1>0. N \in Nat \ {0} /\ M \in Nat
  BY DisksAssumption, StripesAssumption
<1>1. q \in Nat /\ r \in 0 .. N - 1 /\ b = q * N + r
  <2>1. b + 1 \in Nat /\ b \in 0 .. N * (b + 1) - 1
    <3>1. N * (b + 1) = N * b + N /\ N * b >= b
      BY <1>0
    <3> QED BY <1>0, <3>1
  <2>2. b \div N \in 0 .. (b + 1) - 1 /\ b % N \in 0 .. N - 1 /\ b = (b \div N) * N + (b % N)
    BY <1>0, <2>1, DivSplit
  <2> QED BY <2>2
<1> HIDE DEF q, r
<1>2. \A e \in DataCells : NumberOn(e[1], e[2]) = b <=> e = <<r, q>>
  <2> TAKE e \in DataCells
  <2>1. PICK d \in 0 .. N - 1, s \in 0 .. M - 1 : e = <<d, s>>
    BY DEF DataCells
  <2>2. NumberOn(e[1], e[2]) = s * N + d
    BY <2>1, Numbered
  <2>3. s \in Nat
    BY <1>0, <2>1
  <2>4. s * N + d = q * N + r => s = q /\ d = r
    <3>1. s * N + d < q * N + r <=> s < q \/ (s = q /\ d < r)
      BY <1>0, <1>1, <2>1, <2>3, Less
    <3>2. q * N + r < s * N + d <=> q < s \/ (q = s /\ r < d)
      BY <1>0, <1>1, <2>1, <2>3, Less
    <3>3. s * N + d \in Int /\ q * N + r \in Int
      BY <1>0, <1>1, <2>1, <2>3
    <3> QED BY <1>0, <1>1, <2>1, <2>3, <3>1, <3>2, <3>3
  <2> QED BY <1>1, <2>1, <2>2, <2>4
<1>3. LabelsOf(b) = UNION {{c, <<ParityIndex, c[2]>>} : c \in E}
  BY DEF LabelsOf
<1>4. Highlight({}, b) = {<<r, q>>, <<N, q>>} \cap Labels
  BY DEF Highlight, ParityIndex, q, r
<1>5. CASE q \in 0 .. M - 1
  <2>1. <<r, q>> \in DataCells /\ <<r, q>> \in Labels /\ <<N, q>> \in Labels
    BY <1>0, <1>1, <1>5, DisksAssumption DEF DataCells, Labels
  <2>2. E = {<<r, q>>}
    BY <1>2, <2>1
  <2>3. LabelsOf(b) = {<<r, q>>, <<N, q>>}
    <3>1. <<r, q>>[2] = q /\ ParityIndex = N
      BY DEF ParityIndex
    <3> HIDE DEF E
    <3>2. {{c, <<ParityIndex, c[2]>>} : c \in E} = {{<<r, q>>, <<N, q>>}}
      BY <2>2, <3>1
    <3>3. \A X : UNION {X} = X
      OBVIOUS
    <3> QED BY <1>3, <3>2, <3>3
  <2> QED BY <1>4, <2>1, <2>3
<1>6. CASE q \notin 0 .. M - 1
  <2>1. <<r, q>> \notin DataCells /\ <<r, q>> \notin Labels /\ <<N, q>> \notin Labels
    BY <1>6 DEF DataCells, Labels
  <2>2. E = {}
    BY <1>2, <2>1
  <2>3. LabelsOf(b) = {}
    BY <1>3, <2>2
  <2> QED BY <1>4, <2>1, <2>3
<1> QED BY <1>5, <1>6

(* The last of a set of positions.                                         *)
LEMMA LastIs ==
  ASSUME NEW S \in SUBSET Nat, NEW i \in S, \A j \in S : j =< i
  PROVE  LastOf(S) = i
<1>1. LastOf(S) \in S /\ \A j \in S : j =< LastOf(S)
  BY DEF LastOf
<1>2. LastOf(S) =< i /\ i =< LastOf(S)
  BY <1>1
<1>3. LastOf(S) \in Nat /\ i \in Nat
  BY <1>1
<1> QED BY <1>2, <1>3

LEMMA FlightType ==
  ASSUME TypeOK
  PROVE  /\ InFlight \in Seq(Events) /\ Len(InFlight) \in Nat /\ DOMAIN InFlight = 1 .. Len(InFlight)
         /\ \A i \in 1 .. Len(InFlight) : InFlight[i] \in Events
<1>1. events \in Seq(Events) /\ chunk \in Seq(Events) /\ stdout \in Seq(Events)
  BY SeqMonotonic, LineTypes DEF TypeOK
<1>2. InFlight \in Seq(Events)
  <2>1. events \o chunk \in Seq(Events)
    BY <1>1, ConcatProperties
  <2> QED BY <1>1, <2>1, ConcatProperties DEF InFlight
<1> QED BY <1>2, LenProperties, ElementOfSeq

-----------------------------------------------------------------------------
(* Every reachable state satisfies the invariant of the window: its types, *)
(* and that the last status line of every disk and the last access line    *)
(* on their way, or the headers and labels when none is, agree with what   *)
(* the shell printed last.                                                 *)
THEOREM GuiInvariantCorrect == Spec => []GuiInv
BY InvInit, InvNext, PTL DEF Spec

(* Once the lines on their way have been handled, every header shows what  *)
(* the shell's last status found, in whatever pieces its output was read   *)
(* and whatever was handled in between.                                    *)
THEOREM HeadersCorrect == Spec => []HeadersFollowReports
<1>1. GuiInv => HeadersFollowReports
  <2> SUFFICES ASSUME GuiInv, window # "gone", reader # "failed", NEW d \in ShellDisks
               PROVE  HeaderToCome(d) = reported[d]
    BY DEF HeadersFollowReports
  <2> DEFINE K == Status(d)
             x == <<"status", d, reported[d]>>
             S == {i \in Coming("status") : InFlight[i][2] = d}
  <2>1. Ends(InFlight, K, x) \/ (Free(InFlight, K) /\ states[d] = reported[d])
    BY DEF GuiInv, HeadersArrive, Arrives
  <2>2. \A i \in 1 .. Len(InFlight) : i \in S <=> InFlight[i] \in K
    <3> TAKE i \in 1 .. Len(InFlight)
    <3>1. InFlight[i] \in Events /\ i \in DOMAIN InFlight
      BY FlightType DEF GuiInv
    <3> QED BY <3>1, Kinds DEF Coming
  <2>3. S \subseteq 1 .. Len(InFlight) /\ 1 .. Len(InFlight) \subseteq Nat
    BY FlightType DEF GuiInv, Coming
  <2>4. HeaderToCome(d) = IF S = {} THEN states[d] ELSE InFlight[LastOf(S)][3]
    BY DEF HeaderToCome
  <2> HIDE DEF S, K
  <2>5. CASE Free(InFlight, K) /\ states[d] = reported[d]
    <3>1. S = {}
      BY <2>2, <2>3, <2>5 DEF Free
    <3> QED BY <2>4, <2>5, <3>1
  <2>6. CASE Ends(InFlight, K, x)
    <3>1. PICK i \in 1 .. Len(InFlight) :
            /\ InFlight[i] = x /\ x \in K
            /\ \A j \in 1 .. Len(InFlight) : j > i => InFlight[j] \notin K
      BY <2>6 DEF Ends
    <3>2. i \in S
      BY <2>2, <3>1
    <3>3. \A j \in S : j =< i
      BY <2>2, <2>3, <3>1
    <3>4. LastOf(S) = i
      BY <2>3, <3>2, <3>3, LastIs
    <3> QED BY <2>4, <3>1, <3>2, <3>4
  <2> QED BY <2>1, <2>5, <2>6 DEF K
<1> QED BY <1>1, GuiInvariantCorrect, PTL

(* Once no access line is on its way, the labels lit are the one with the  *)
(* number of the block that the shell named last and the parity label of   *)
(* its row, for any number of disks and rows; none for a block without one. *)
THEOREM HighlightCorrect == Spec => []HighlightFollowsAccess
<1>1. GuiInv => HighlightFollowsAccess
  <2> SUFFICES ASSUME GuiInv, window # "gone", reader # "failed", accessed # <<>>,
                      Coming("access") = {}
               PROVE  lit = LabelsOf(accessed[1])
    BY DEF HighlightFollowsAccess
  <2>1. accessed[1] \in Nat
    BY DEF GuiInv, TypeOK
  <2>2. \A i \in 1 .. Len(InFlight) : InFlight[i] \notin Accesses
    BY FlightType, Kinds DEF GuiInv, Coming
  <2>3. ~Ends(InFlight, Accesses, <<"access", accessed[1]>>)
    BY <2>2 DEF Ends
  <2>4. lit = Highlight({}, accessed[1])
    BY <2>3 DEF GuiInv, HighlightArrives, Arrives
  <2> QED BY <2>1, <2>4, Lit
<1> QED BY <1>1, GuiInvariantCorrect, PTL
=============================================================================
