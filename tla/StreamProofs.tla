---------------------------- MODULE StreamProofs -----------------------------
(***************************************************************************)
(* What the programs at the two ends of pipes and sockets take for         *)
(* granted: the descriptor tables of PipeFds are what Raid assumes, for    *)
(* any number of disks, of descriptors and of restarts; the reads of       *)
(* validate stay in step with the records written to it; the line server   *)
(* finds again the lines that TCP has cut.                                 *)
(***************************************************************************)
EXTENDS PipeFds, LineServer, Validate, SequenceTheorems, FiniteSetTheorems, WellFoundedInduction, TLAPS

-----------------------------------------------------------------------------
(* PipeFds: the descriptor tables.                                         *)

(* An entry tells its use.                                                 *)
LEMMA Uses ==
  /\ Free.use = "free" /\ StdIo.use = "std" /\ File.use = "file"
  /\ \A a, b : /\ CmdR(a, b).use = "cmdR" /\ CmdW(a, b).use = "cmdW"
               /\ ReplyR(a, b).use = "replyR" /\ ReplyW(a, b).use = "replyW"
BY DEF Free, StdIo, File, CmdR, CmdW, ReplyR, ReplyW

(* The two pipes for the n-th start of d are in free places of the table.  *)
PipesMade(t, d, n, others, next, r, w, fr, fw) ==
  /\ r # w /\ r # fr /\ r # fw /\ w # fr /\ w # fw /\ fr # fw
  /\ \A x \in {r, w, fr, fw} : t[x] = Free
  /\ n \in Starts /\ parent' \in Table
  /\ Forked(d, others, next, parent', [cmdR |-> r, cmdW |-> w, replyR |-> fr, replyW |-> fw])
  /\ parent'[r] = CmdR(d, n) /\ parent'[w] = CmdW(d, n)
  /\ parent'[fr] = ReplyR(d, n) /\ parent'[fw] = ReplyW(d, n)
  /\ \A x \in Fds \ {r, w, fr, fw} : parent'[x] = t[x]

(* What fork() after two pipe() calls leaves behind.                       *)
LEMMA ForkResult ==
  ASSUME TypeOK, NEW t \in Table, NEW d \in Disks, NEW others, NEW next, Fork(t, d, others, next)
  PROVE  \E r, w, fr, fw \in Fds : PipesMade(t, d, starts[d] + 1, others, next, r, w, fr, fw)
<1> DEFINE n == starts[d] + 1
<1> DEFINE numbers(r, w, fr, fw) == [cmdR |-> r, cmdW |-> w, replyR |-> fr, replyW |-> fw]
<1>1. PICK r \in NextFd(t) : LET t1 == [t EXCEPT ![r] = CmdR(d, n)] IN
        \E w \in NextFd(t1) :  LET t2 == [t1 EXCEPT ![w] = CmdW(d, n)] IN
        \E fr \in NextFd(t2) : LET t3 == [t2 EXCEPT ![fr] = ReplyR(d, n)] IN
        \E fw \in NextFd(t3) :
          Forked(d, others, next, [t3 EXCEPT ![fw] = ReplyW(d, n)], numbers(r, w, fr, fw))
  BY DEF Fork
<1> DEFINE t1 == [t EXCEPT ![r] = CmdR(d, n)]
<1>2. PICK w \in NextFd(t1) :  LET t2 == [t1 EXCEPT ![w] = CmdW(d, n)] IN
        \E fr \in NextFd(t2) : LET t3 == [t2 EXCEPT ![fr] = ReplyR(d, n)] IN
        \E fw \in NextFd(t3) :
          Forked(d, others, next, [t3 EXCEPT ![fw] = ReplyW(d, n)], numbers(r, w, fr, fw))
  BY <1>1
<1> DEFINE t2 == [t1 EXCEPT ![w] = CmdW(d, n)]
<1>3. PICK fr \in NextFd(t2) : LET t3 == [t2 EXCEPT ![fr] = ReplyR(d, n)] IN
        \E fw \in NextFd(t3) :
          Forked(d, others, next, [t3 EXCEPT ![fw] = ReplyW(d, n)], numbers(r, w, fr, fw))
  BY <1>2
<1> DEFINE t3 == [t2 EXCEPT ![fr] = ReplyR(d, n)]
<1>4. PICK fw \in NextFd(t3) :
          Forked(d, others, next, [t3 EXCEPT ![fw] = ReplyW(d, n)], numbers(r, w, fr, fw))
  BY <1>3
<1> DEFINE t4 == [t3 EXCEPT ![fw] = ReplyW(d, n)]
<1>5. n \in Starts /\ d \in Disks
  BY <1>4, MaxStartsAssumption DEF Forked, Starts, TypeOK
<1>6. /\ CmdR(d, n) \in Entry /\ CmdR(d, n) # Free /\ CmdW(d, n) \in Entry /\ CmdW(d, n) # Free
      /\ ReplyR(d, n) \in Entry /\ ReplyR(d, n) # Free /\ ReplyW(d, n) \in Entry
  BY <1>5 DEF CmdR, CmdW, ReplyR, ReplyW, Entry, Free, PipeUses
<1> HIDE DEF n
<1>7. r \in Fds /\ t[r] = Free /\ t1 \in Table
  BY <1>6 DEF NextFd, Table
<1>8. w \in Fds /\ t1[w] = Free /\ w # r /\ t2 \in Table
  BY <1>6, <1>7 DEF NextFd, Table
<1>9. fr \in Fds /\ t2[fr] = Free /\ fr # w /\ fr # r /\ t3 \in Table
  BY <1>6, <1>7, <1>8 DEF NextFd, Table
<1>10. fw \in Fds /\ t3[fw] = Free /\ fw # fr /\ fw # w /\ fw # r /\ t4 \in Table
  BY <1>6, <1>7, <1>8, <1>9 DEF NextFd, Table
<1>11. parent' = t4 /\ child'[d] = t4
       /\ controllers'[d] = numbers(r, w, fr, fw)
  BY <1>4 DEF Forked, TypeOK
<1>12. /\ t4[r] = CmdR(d, n) /\ t4[w] = CmdW(d, n) /\ t4[fr] = ReplyR(d, n) /\ t4[fw] = ReplyW(d, n)
       /\ \A x \in Fds \ {r, w, fr, fw} : t4[x] = t[x]
       /\ \A x \in {r, w, fr, fw} : t[x] = Free
  BY <1>7, <1>8, <1>9, <1>10 DEF Table
<1>13. Forked(d, others, next, t4, numbers(r, w, fr, fw))
  BY <1>4
<1> HIDE DEF t1, t2, t3, t4
<1>14. PipesMade(t, d, n, others, next, r, w, fr, fw)
  BY <1>5, <1>7, <1>8, <1>9, <1>10, <1>11, <1>12, <1>13 DEF PipesMade
<1>15. r \in Fds /\ w \in Fds /\ fr \in Fds /\ fw \in Fds
  BY <1>7, <1>8, <1>9, <1>10
<1> HIDE DEF numbers
<1> QED BY <1>14, <1>15 DEF n

(* A new process has its two ends and will close the rest; nobody else's   *)
(* table or numbers change.                                                *)
LEMMA ForkInv ==
  ASSUME FdInv, NEW t \in Table, NEW d \in Disks, NEW others \in SUBSET Disks, NEW next \in Closing,
         Fork(t, d, others, next),
         d \notin others, d \notin alive, pc # "gone",
         Made \cup {d} = others \cup {d},
         next = "initClose" => others \cup {d} = 0 .. d,
         next = "restartClose" => others \cup {d} = Disks,
         \A n \in Std : t[n] = StdIo,
         fp # -1 => t[fp] = File,
         \A k \in others : /\ t[controllers[k].cmdW] = CmdW(k, starts[k])
                           /\ t[controllers[k].replyR] = ReplyR(k, starts[k]),
         \A n \in Fds : t[n].use \in PipeUses =>
           \E k \in others : n \in {controllers[k].cmdW, controllers[k].replyR}
  PROVE  FdInv'
<1> DEFINE n == starts[d] + 1
<1>2. TypeOK /\ ParentInv /\ ChildInv
  BY DEF FdInv
<1>17. PICK r, w, fr, fw \in Fds : PipesMade(t, d, n, others, next, r, w, fr, fw)
  BY <1>2, ForkResult
<1>1. /\ r \in Fds /\ w \in Fds /\ fr \in Fds /\ fw \in Fds
      /\ r # w /\ r # fr /\ r # fw /\ w # fr /\ w # fw /\ fr # fw
      /\ \A x \in {r, w, fr, fw} : t[x] = Free
      /\ n \in Starts /\ parent' \in Table
      /\ Forked(d, others, next, parent', [cmdR |-> r, cmdW |-> w, replyR |-> fr, replyW |-> fw])
      /\ parent'[r] = CmdR(d, n) /\ parent'[w] = CmdW(d, n)
      /\ parent'[fr] = ReplyR(d, n) /\ parent'[fw] = ReplyW(d, n)
      /\ \A x \in Fds \ {r, w, fr, fw} : parent'[x] = t[x]
  BY <1>17 DEF PipesMade
<1> DEFINE c == [cmdR |-> r, cmdW |-> w, replyR |-> fr, replyW |-> fw]
<1>3. c \in Numbers
  BY <1>1 DEF Numbers
<1>4. /\ starts' = [starts EXCEPT ![d] = n] /\ controllers' = [controllers EXCEPT ![d] = c]
      /\ child' = [child EXCEPT ![d] = parent'] /\ copy' = [copy EXCEPT ![d] = controllers']
      /\ left' = [left EXCEPT ![d] = {d} \cup others] /\ alive' = alive \cup {d}
      /\ pc' = next /\ cur' = d /\ fp' = fp
  BY <1>1 DEF Forked
<1> HIDE DEF c, n
<1>5. TypeOK'
  BY <1>1, <1>2, <1>3, <1>4 DEF TypeOK
<1>6. /\ starts'[d] = n /\ controllers'[d] = c /\ child'[d] = parent' /\ copy'[d] = controllers'
      /\ left'[d] = {d} \cup others
      /\ \A k \in Disks \ {d} : /\ starts'[k] = starts[k] /\ controllers'[k] = controllers[k]
                                /\ child'[k] = child[k] /\ copy'[k] = copy[k] /\ left'[k] = left[k]
  BY <1>2, <1>4 DEF TypeOK
<1>7. c.cmdR = r /\ c.cmdW = w /\ c.replyR = fr /\ c.replyW = fw
  BY DEF c
<1>8. Made' = others \cup {d} /\ others \subseteq Made
  <2>1. n > 0
    BY <1>1, <1>2 DEF n, TypeOK, Starts
  <2>2. Made' = Made \cup {d}
    BY <1>6, <2>1 DEF Made
  <2> QED BY <2>2
<1>9. NumbersApart(c)
  <2>1. \A x \in {r, w, fr, fw} : x \notin Std
    BY <1>1, Uses
  <2> QED BY <1>1, <1>7, <2>1 DEF NumbersApart, NumbersOf
<1>10. \A k \in Made' : NumbersApart(controllers'[k])
  BY <1>2, <1>6, <1>8, <1>9 DEF ParentInv, Made
<1>11. \A x \in Std : parent'[x] = StdIo
  BY <1>1, FdsAssumption, Uses
<1>12. ParentInv'
  <2>1. fp' # -1 => parent'[fp'] = File
    <3>1. SUFFICES ASSUME fp # -1 PROVE parent'[fp] = File
      BY <1>4
    <3>2. fp \in Fds /\ t[fp] = File
      BY <1>2, <3>1 DEF TypeOK
    <3>3. File # Free
      BY Uses
    <3> QED BY <1>1, <3>2, <3>3
  <2>2. \A k \in Made' : /\ parent'[controllers'[k].cmdW] = CmdW(k, starts'[k])
                        /\ parent'[controllers'[k].replyR] = ReplyR(k, starts'[k])
    <3> SUFFICES ASSUME NEW k \in others
                 PROVE  /\ parent'[controllers[k].cmdW] = CmdW(k, starts[k])
                        /\ parent'[controllers[k].replyR] = ReplyR(k, starts[k])
      BY <1>1, <1>6, <1>7, <1>8
    <3>1. controllers[k].cmdW \in Fds /\ controllers[k].replyR \in Fds
      BY <1>2 DEF TypeOK, Numbers
    <3>2. t[controllers[k].cmdW] # Free /\ t[controllers[k].replyR] # Free
      BY Uses
    <3> QED BY <1>1, <3>1, <3>2
  <2>3. parent'[controllers'[cur'].cmdR] = CmdR(cur', starts'[cur'])
        /\ parent'[controllers'[cur'].replyW] = ReplyW(cur', starts'[cur'])
    BY <1>1, <1>4, <1>6, <1>7
  <2>4. ASSUME NEW x \in Fds, parent'[x].use \in PipeUses
        PROVE  \E k \in Made' :
                 \/ x \in {controllers'[k].cmdW, controllers'[k].replyR}
                 \/ pc' \in Closing /\ k = cur' /\ x \in {controllers'[k].cmdR, controllers'[k].replyW}
    <3>1. CASE x \in {r, w, fr, fw}
      BY <1>4, <1>6, <1>7, <1>8, <3>1
    <3>2. CASE x \notin {r, w, fr, fw}
      BY <1>1, <1>6, <1>8, <2>4, <3>2
    <3> QED BY <3>1, <3>2
  <2> QED BY <1>4, <1>8, <1>10, <1>11, <2>1, <2>2, <2>3, <2>4 DEF ParentInv, Closing
<1>13. ASSUME NEW k \in alive
       PROVE  k # d /\ k \in Made' /\ copy'[k][k] = controllers'[k]
  BY <1>2, <1>6, <1>8, <1>13 DEF ChildInv, Made
<1>14. ASSUME NEW k \in others
       PROVE  NumbersApart(controllers'[k]) /\ {controllers[k].cmdW, controllers[k].replyR} \cap {r, fw} = {}
              /\ controllers'[k] = controllers[k]
  <2>1. t[controllers[k].cmdW] # Free /\ t[controllers[k].replyR] # Free
    BY Uses
  <2> QED BY <1>1, <1>6, <1>8, <1>10, <2>1
<1>15. ASSUME NEW x \in Fds \ {r, fw}
       PROVE  /\ parent'[x].use \notin {"cmdR", "replyW"}
              /\ parent'[x].use \in PipeUses => \E k \in left'[d] : x \in Round(copy'[d], d, k)
  <2>1. CASE x \in {w, fr}
    <3>1. x \in Round(copy'[d], d, d) /\ d \in left'[d]
      BY <1>6, <1>7, <2>1 DEF Round
    <3> QED BY <1>1, <2>1, <3>1, Uses
  <2>2. CASE x \notin {w, fr} /\ parent'[x].use \in PipeUses
    <3>1. PICK k \in others : x \in {controllers[k].cmdW, controllers[k].replyR}
      BY <1>1, <2>2
    <3>2. parent'[x].use \notin {"cmdR", "replyW"}
      BY <1>1, <2>2, <3>1, Uses
    <3>3. x \in Round(copy'[d], d, k) /\ k \in left'[d]
      BY <1>6, <1>7, <1>14, <3>1 DEF Round, NumbersOf
    <3> QED BY <3>2, <3>3
  <2>3. CASE parent'[x].use \notin PipeUses
    BY <2>3 DEF PipeUses
  <2> QED BY <2>1, <2>2, <2>3
<1>16. ChildInv'
  <2> SUFFICES ASSUME NEW k \in alive'
      PROVE  (/\ k \in Made
              /\ copy[k][k] = controllers[k]
              /\ child[k][controllers[k].cmdR] = CmdR(k, starts[k])
              /\ child[k][controllers[k].replyW] = ReplyW(k, starts[k])
              /\ \A x \in Std : child[k][x] = StdIo
              /\ \A x \in Fds \ {controllers[k].cmdR, controllers[k].replyW} :
                   /\ child[k][x].use \notin {"cmdR", "replyW"}
                   /\ child[k][x].use \in PipeUses => \E j \in left[k] : x \in Round(copy[k], k, j)
              /\ \A j \in left[k] : NumbersApart(copy[k][j]))'
    BY DEF ChildInv
  <2>1. CASE k = d
    <3>1. \A j \in left'[d] : NumbersApart(copy'[d][j])
      BY <1>6, <1>9, <1>14
    <3> QED BY <1>1, <1>6, <1>7, <1>8, <1>11, <1>15, <2>1, <3>1
  <2>2. CASE k # d
    <3>1. k \in alive
      BY <1>4, <2>2
    <3> QED BY <1>2, <1>6, <1>13, <2>2, <3>1 DEF ChildInv, TypeOK
  <2> QED BY <2>1, <2>2
<1> QED BY <1>5, <1>12, <1>16 DEF FdInv
(* The first tables: the standard descriptors only.                        *)
LEMMA InitInv == Init => FdInv
<1> SUFFICES ASSUME Init PROVE FdInv
  OBVIOUS
<1> USE FdsAssumption, NumDisksAssumption, MaxStartsAssumption
<1>1. Free \in Entry /\ StdIo \in Entry /\ [cmdR |-> 0, cmdW |-> 0, replyR |-> 0, replyW |-> 0] \in Numbers
  BY DEF Free, StdIo, Entry, Numbers, Std, Disks, Starts
<1>2. TypeOK
  BY <1>1 DEF Init, TypeOK, Table, Empty, Zeroed, Disks, Starts
<1>3. Made = {} /\ 0 .. cur - 1 = {}
  BY DEF Made, Init, Disks
<1>4. ParentInv
  <2>1. \A n \in Fds : parent[n] = IF n \in Std THEN StdIo ELSE Free
    BY DEF Init
  <2> QED BY <1>3, <2>1, Uses DEF Init, ParentInv, Closing, PipeUses
<1>5. ChildInv
  BY DEF Init, ChildInv
<1> QED BY <1>2, <1>4, <1>5 DEF FdInv

LEMMA InitDiskInv == ASSUME FdInv, InitDisk PROVE FdInv'
<1>1. PICK d \in Disks, t \in Table : d = cur /\ t = parent
  BY DEF FdInv, TypeOK
<1>2. TypeOK /\ ParentInv /\ ChildInv
  BY DEF FdInv
<1>3. Fork(t, d, InitOthers(d), "initClose") /\ pc = "init"
  BY <1>1 DEF InitDisk
<1>4. /\ Made = InitOthers(d) /\ d \notin InitOthers(d) /\ InitOthers(d) \cup {d} = 0 .. d
      /\ InitOthers(d) \in SUBSET Disks
  BY <1>1, <1>2, <1>3 DEF ParentInv, InitOthers, Disks, Made
<1>5. d \notin alive
  BY <1>2, <1>4 DEF ChildInv
<1>6. /\ \A n \in Std : t[n] = StdIo
      /\ fp # -1 => t[fp] = File
      /\ \A k \in InitOthers(d) : /\ t[controllers[k].cmdW] = CmdW(k, starts[k])
                                  /\ t[controllers[k].replyR] = ReplyR(k, starts[k])
      /\ \A n \in Fds : t[n].use \in PipeUses =>
           \E k \in InitOthers(d) : n \in {controllers[k].cmdW, controllers[k].replyR}
  BY <1>1, <1>2, <1>3, <1>4 DEF ParentInv, Closing
<1>7. "initClose" \in Closing /\ pc # "gone" /\ Made \cup {d} = InitOthers(d) \cup {d}
  BY <1>3, <1>4 DEF Closing
<1> HIDE DEF InitOthers
<1> QED BY <1>3, <1>4, <1>5, <1>6, <1>7, ForkInv

(* EPIPE says that the disk is dead: a live one holds its reading end.     *)
LEMMA EpipeMeansDead ==
  ASSUME FdInv, NEW d \in Disks, pc = "idle", NoHolder("cmdR", parent[controllers[d].cmdW])
  PROVE  d \notin alive
<1> SUFFICES ASSUME d \in alive PROVE FALSE
  OBVIOUS
<1>1. TypeOK /\ ParentInv /\ ChildInv
  BY DEF FdInv
<1>2. parent[controllers[d].cmdW] = CmdW(d, starts[d])
  BY <1>1 DEF ParentInv
<1>3. child[d][controllers[d].cmdR] = CmdR(d, starts[d]) /\ controllers[d].cmdR \in Fds
  BY <1>1 DEF ChildInv, TypeOK, Numbers
<1>4. [CmdW(d, starts[d]) EXCEPT !.use = "cmdR"] = CmdR(d, starts[d])
  BY DEF CmdW, CmdR
<1> QED BY <1>2, <1>3, <1>4 DEF NoHolder

LEMMA RestoreInv == ASSUME FdInv, NEW d \in Disks, Restore(d) PROVE FdInv'
<1>1. TypeOK /\ ParentInv /\ ChildInv /\ pc = "idle" /\ Made = Disks
  BY DEF FdInv, Restore, ParentInv
<1> DEFINE others == Disks \ {d}
           w == controllers[d].cmdW
           fr == controllers[d].replyR
<1>2. w \in Fds /\ fr \in Fds /\ parent[w] = CmdW(d, starts[d]) /\ parent[fr] = ReplyR(d, starts[d])
  BY <1>1 DEF TypeOK, ParentInv, Numbers
<1>3. Free \in Entry
  BY NumDisksAssumption, MaxStartsAssumption DEF Free, Entry, Disks, Starts
<1>4. PICK t \in Table : t = CloseOldEnds(d)
  BY <1>1, <1>2, <1>3 DEF TypeOK, CloseOldEnds, Table
<1>5. /\ t[w] = Free /\ t[fr] = Free
      /\ \A n \in Fds \ {w, fr} : t[n] = parent[n]
  BY <1>1, <1>2, <1>4 DEF CloseOldEnds, TypeOK, Table
<1>6. Fork(t, d, others, "restartClose")
  BY <1>4 DEF Restore, RestartOthers
<1> HIDE DEF w, fr
<1>7. d \notin alive
  BY <1>1, EpipeMeansDead DEF Restore
<1>8. \A n \in Std : t[n] = StdIo
  BY <1>1, <1>2, <1>5, Uses, FdsAssumption DEF ParentInv
<1>9. fp # -1 => t[fp] = File
  <2> SUFFICES ASSUME fp # -1 PROVE t[fp] = File
    OBVIOUS
  <2>1. fp \in Fds /\ parent[fp] = File
    BY <1>1 DEF TypeOK, ParentInv
  <2>2. fp # w /\ fp # fr
    BY <1>2, <2>1, Uses
  <2> QED BY <1>5, <2>1, <2>2
<1>10. ASSUME NEW k \in others
       PROVE  /\ t[controllers[k].cmdW] = CmdW(k, starts[k])
              /\ t[controllers[k].replyR] = ReplyR(k, starts[k])
  <2>1. /\ controllers[k].cmdW \in Fds /\ controllers[k].replyR \in Fds
        /\ parent[controllers[k].cmdW] = CmdW(k, starts[k])
        /\ parent[controllers[k].replyR] = ReplyR(k, starts[k])
    BY <1>1 DEF TypeOK, ParentInv, Numbers
  <2>2. CmdW(k, starts[k]).disk = k /\ ReplyR(k, starts[k]).disk = k
        /\ CmdW(d, starts[d]).disk = d /\ ReplyR(d, starts[d]).disk = d
    BY DEF CmdW, ReplyR
  <2> QED BY <1>2, <1>5, <2>1, <2>2
<1>11. ASSUME NEW n \in Fds, t[n].use \in PipeUses
       PROVE  \E k \in others : n \in {controllers[k].cmdW, controllers[k].replyR}
  <2>1. n # w /\ n # fr /\ t[n] = parent[n]
    BY <1>5, <1>11, Uses DEF PipeUses
  <2>2. PICK k \in Made : n \in {controllers[k].cmdW, controllers[k].replyR}
    BY <1>1, <1>11, <2>1 DEF ParentInv, Closing
  <2>3. k # d
    BY <2>1, <2>2 DEF w, fr
  <2> QED BY <1>1, <2>2, <2>3
<1>12. /\ "restartClose" \in Closing /\ pc # "gone" /\ d \notin others /\ others \in SUBSET Disks
       /\ Made \cup {d} = others \cup {d} /\ others \cup {d} = Disks
  BY <1>1 DEF Closing
<1> HIDE DEF others
<1> QED BY <1>6, <1>7, <1>8, <1>9, <1>10, <1>11, <1>12, ForkInv

LEMMA CloseChildEndsInv == ASSUME FdInv, CloseChildEnds PROVE FdInv'
<1> DEFINE r == controllers[cur].cmdR
           fw == controllers[cur].replyW
<1>1. TypeOK /\ ParentInv /\ ChildInv /\ pc \in Closing
  BY DEF FdInv, CloseChildEnds
<1>2. UNCHANGED <<controllers, fp, starts, alive, child, copy, left>>
  BY DEF CloseChildEnds, childVars
<1>3. /\ r \in Fds /\ fw \in Fds
      /\ parent[r] = CmdR(cur, starts[cur]) /\ parent[fw] = ReplyW(cur, starts[cur])
  BY <1>1 DEF TypeOK, ParentInv, Numbers, Closing
<1>4. Free \in Entry
  BY NumDisksAssumption, MaxStartsAssumption DEF Free, Entry, Disks, Starts
<1>5. /\ parent' \in Table /\ parent'[r] = Free /\ parent'[fw] = Free
      /\ \A n \in Fds \ {r, fw} : parent'[n] = parent[n]
  BY <1>1, <1>3, <1>4 DEF CloseChildEnds, TypeOK, Table
<1> HIDE DEF r, fw
<1>6. \/ pc = "initClose" /\ cur < NumDisks /\ pc' = "init" /\ cur' = cur + 1
      \/ (pc = "restartClose" \/ cur = NumDisks) /\ pc' = "idle" /\ cur' = cur
  BY <1>1, NumDisksAssumption DEF CloseChildEnds, LastDisk, TypeOK, Disks
<1>7. pc' \in {"init", "idle"} /\ cur' \in Disks
  BY <1>1, <1>6, NumDisksAssumption DEF TypeOK, Disks
<1>8. TypeOK'
  BY <1>1, <1>2, <1>5, <1>7 DEF TypeOK
<1>9. Made' = Made
  BY <1>2 DEF Made
<1>10. (pc' = "init" => Made' = 0 .. cur' - 1) /\ (pc' = "idle" => Made' = Disks)
  BY <1>1, <1>6, <1>9, NumDisksAssumption DEF ParentInv, Disks, TypeOK, Closing
<1>11. \A n \in Std : parent'[n] = StdIo
  BY <1>1, <1>3, <1>5, Uses, FdsAssumption DEF ParentInv, Closing
<1>12. fp' # -1 => parent'[fp'] = File
  <2> SUFFICES ASSUME fp # -1 PROVE parent'[fp] = File
    BY <1>2
  <2>1. fp \in Fds /\ parent[fp] = File
    BY <1>1 DEF TypeOK, ParentInv, Closing
  <2>2. fp # r /\ fp # fw
    BY <1>3, <2>1, Uses
  <2> QED BY <1>5, <2>1, <2>2
<1>13. ASSUME NEW d \in Made
       PROVE  /\ parent'[controllers[d].cmdW] = CmdW(d, starts[d])
              /\ parent'[controllers[d].replyR] = ReplyR(d, starts[d])
  <2>1. /\ controllers[d].cmdW \in Fds /\ controllers[d].replyR \in Fds
        /\ parent[controllers[d].cmdW] = CmdW(d, starts[d])
        /\ parent[controllers[d].replyR] = ReplyR(d, starts[d])
    BY <1>1 DEF TypeOK, ParentInv, Numbers, Closing, Made
  <2> QED BY <1>3, <1>5, <2>1, Uses
<1>14. ASSUME NEW n \in Fds, parent'[n].use \in PipeUses
       PROVE  \E d \in Made : n \in {controllers[d].cmdW, controllers[d].replyR}
  <2>1. n # r /\ n # fw /\ parent'[n] = parent[n]
    BY <1>5, <1>14, Uses DEF PipeUses
  <2> QED BY <1>1, <1>14, <2>1 DEF ParentInv, Closing, r, fw
<1>15. ParentInv'
  BY <1>1, <1>2, <1>7, <1>9, <1>10, <1>11, <1>12, <1>13, <1>14 DEF ParentInv, Closing
<1>16. ChildInv'
  BY <1>1, <1>2, <1>9 DEF ChildInv
<1> QED BY <1>8, <1>15, <1>16 DEF FdInv
(* wb's file takes a number no pipe has, and gives it back.                *)
LEMMA FileInv == ASSUME FdInv, OpenFile \/ CloseFile PROVE FdInv'
<1>1. TypeOK /\ ParentInv /\ ChildInv /\ pc = "idle" /\ Made = Disks
  BY DEF FdInv, OpenFile, CloseFile, ParentInv
<1>2. UNCHANGED <<pc, cur, controllers, starts, alive, child, copy, left>>
  BY DEF OpenFile, CloseFile, childVars
<1>3. Free \in Entry /\ File \in Entry
  BY NumDisksAssumption, MaxStartsAssumption DEF Free, File, Entry, Disks, Starts
<1>4. PICK n \in Fds, e \in {Free, File} :
        /\ parent[n] \in {Free, File}
        /\ parent' = [parent EXCEPT ![n] = e]
        /\ \/ fp' = n /\ e = File
           \/ fp' = -1
  <2>1. CASE OpenFile
    BY <2>1 DEF OpenFile, NextFd
  <2>2. CASE CloseFile
    BY <1>1, <2>2 DEF CloseFile, ParentInv, TypeOK
  <2> QED BY <2>1, <2>2
<1>5. /\ parent' \in Table /\ parent'[n] = e
      /\ \A m \in Fds \ {n} : parent'[m] = parent[m]
  BY <1>1, <1>3, <1>4 DEF TypeOK, Table
<1>6. TypeOK'
  BY <1>1, <1>2, <1>4, <1>5 DEF TypeOK
<1>7. parent[n].use \in {"free", "file"} /\ parent'[n].use \in {"free", "file"}
  BY <1>4, <1>5, Uses
<1>8. \A m \in Std : parent'[m] = StdIo
  BY <1>1, <1>5, <1>7, Uses, FdsAssumption DEF ParentInv
<1>9. ASSUME NEW d \in Disks
      PROVE  /\ parent'[controllers[d].cmdW] = CmdW(d, starts[d])
             /\ parent'[controllers[d].replyR] = ReplyR(d, starts[d])
  <2>1. /\ controllers[d].cmdW \in Fds /\ controllers[d].replyR \in Fds
        /\ parent[controllers[d].cmdW] = CmdW(d, starts[d])
        /\ parent[controllers[d].replyR] = ReplyR(d, starts[d])
    BY <1>1 DEF TypeOK, ParentInv, Numbers
  <2> QED BY <1>5, <1>7, <2>1, Uses
<1>10. \A m \in Fds : parent'[m].use \in PipeUses =>
         \E d \in Disks : m \in {controllers[d].cmdW, controllers[d].replyR}
  BY <1>1, <1>5, <1>7 DEF ParentInv, Closing, PipeUses
<1>11. ParentInv'
  BY <1>1, <1>2, <1>4, <1>5, <1>8, <1>9, <1>10 DEF ParentInv, Closing, Made
<1>12. ChildInv'
  BY <1>1, <1>2 DEF ChildInv, Made
<1> QED BY <1>6, <1>11, <1>12 DEF FdInv

LEMMA ParentEndsInv == ASSUME FdInv, ParentEnds PROVE FdInv'
<1>1. TypeOK /\ ParentInv /\ ChildInv
  BY DEF FdInv
<1>2. /\ UNCHANGED <<cur, controllers, starts, alive, child, copy, left>>
      /\ pc' = "gone" /\ parent' = Empty /\ fp' = -1
  BY DEF ParentEnds, childVars
<1>3. Free \in Entry
  BY NumDisksAssumption, MaxStartsAssumption DEF Free, Entry, Disks, Starts
<1>4. TypeOK'
  BY <1>1, <1>2, <1>3 DEF TypeOK, Empty, Table
<1>5. ParentInv'
  BY <1>1, <1>2 DEF ParentInv, Made, Closing
<1>6. ChildInv'
  BY <1>1, <1>2 DEF ChildInv, Made
<1> QED BY <1>4, <1>5, <1>6 DEF FdInv

(* A round of closes frees what it should and nothing the child keeps.     *)
LEMMA CloseInheritedInv == ASSUME FdInv, NEW d \in Disks, CloseInherited(d) PROVE FdInv'
<1>1. TypeOK /\ ParentInv /\ ChildInv /\ d \in alive
  BY DEF FdInv, CloseInherited
<1>2. PICK k \in left[d] :
        /\ child' = [child EXCEPT ![d] =
                       [n \in Fds |-> IF n \in Round(copy[d], d, k) THEN Free ELSE @[n]]]
        /\ left' = [left EXCEPT ![d] = @ \ {k}]
  BY DEF CloseInherited
<1>3. UNCHANGED <<pc, cur, parent, controllers, fp, starts, alive, copy>>
  BY DEF CloseInherited, parentVars
<1>4. Free \in Entry
  BY NumDisksAssumption, MaxStartsAssumption DEF Free, Entry, Disks, Starts
<1>5. /\ left' \in [Disks -> SUBSET Disks] /\ left'[d] = left[d] \ {k}
      /\ \A j \in Disks \ {d} : left'[j] = left[j]
  BY <1>1, <1>2 DEF TypeOK
<1>6. /\ \A n \in Fds : child'[d][n] = IF n \in Round(copy[d], d, k) THEN Free ELSE child[d][n]
      /\ \A j \in Disks \ {d} : child'[j] = child[j]
      /\ child' \in [Disks -> Table]
  <2> DEFINE t == [n \in Fds |-> IF n \in Round(copy[d], d, k) THEN Free ELSE child[d][n]]
  <2>1. t \in Table
    BY <1>1, <1>4 DEF TypeOK, Table
  <2>2. child' = [child EXCEPT ![d] = t]
    BY <1>2
  <2>3. child'[d] = t
    BY <1>1, <2>2 DEF TypeOK
  <2>4. \A j \in Disks \ {d} : child'[j] = child[j]
    BY <1>1, <2>2 DEF TypeOK
  <2>5. child' \in [Disks -> Table]
    BY <1>1, <2>1, <2>2 DEF TypeOK
  <2> QED BY <2>3, <2>4, <2>5
<1>7. TypeOK'
  BY <1>1, <1>3, <1>5, <1>6 DEF TypeOK
<1>8. Round(copy[d], d, k) \cap ({controllers[d].cmdR, controllers[d].replyW} \cup Std) = {}
  <2>1. NumbersApart(controllers[d]) /\ NumbersApart(copy[d][k]) /\ copy[d][d] = controllers[d]
    BY <1>1 DEF ParentInv, ChildInv
  <2> QED BY <2>1 DEF Round, NumbersApart, NumbersOf
<1>9. controllers[d].cmdR \in Fds /\ controllers[d].replyW \in Fds
  BY <1>1 DEF TypeOK, Numbers
<1>10. ASSUME NEW n \in Fds \ {controllers[d].cmdR, controllers[d].replyW}
       PROVE  /\ child'[d][n].use \notin {"cmdR", "replyW"}
              /\ child'[d][n].use \in PipeUses => \E j \in left'[d] : n \in Round(copy'[d], d, j)
  <2>1. CASE n \in Round(copy[d], d, k)
    BY <1>6, <2>1, Uses DEF PipeUses
  <2>2. CASE n \notin Round(copy[d], d, k)
    BY <1>1, <1>3, <1>5, <1>6, <2>2 DEF ChildInv
  <2> QED BY <2>1, <2>2
<1>11. ChildInv'
  <2> SUFFICES ASSUME NEW j \in alive
      PROVE  (/\ j \in Made
              /\ copy[j][j] = controllers[j]
              /\ child[j][controllers[j].cmdR] = CmdR(j, starts[j])
              /\ child[j][controllers[j].replyW] = ReplyW(j, starts[j])
              /\ \A n \in Std : child[j][n] = StdIo
              /\ \A n \in Fds \ {controllers[j].cmdR, controllers[j].replyW} :
                   /\ child[j][n].use \notin {"cmdR", "replyW"}
                   /\ child[j][n].use \in PipeUses => \E i \in left[j] : n \in Round(copy[j], j, i)
              /\ \A i \in left[j] : NumbersApart(copy[j][i]))'
    BY <1>3 DEF ChildInv
  <2>1. CASE j = d
    <3>1. /\ d \in Made /\ d \in Disks /\ copy[d][d] = controllers[d]
          /\ child[d][controllers[d].cmdR] = CmdR(d, starts[d])
          /\ child[d][controllers[d].replyW] = ReplyW(d, starts[d])
          /\ \A n \in Std : child[d][n] = StdIo
          /\ \A i \in left[d] : NumbersApart(copy[d][i])
      BY <1>1, <2>1 DEF ChildInv
    <3>2. \A n \in Fds : n \in Std \cup {controllers[d].cmdR, controllers[d].replyW} =>
            child'[d][n] = child[d][n]
      BY <1>6, <1>8
    <3>3. /\ child'[d][controllers[d].cmdR] = CmdR(d, starts[d])
          /\ child'[d][controllers[d].replyW] = ReplyW(d, starts[d])
          /\ \A n \in Std : child'[d][n] = StdIo
      BY <1>9, <3>1, <3>2, FdsAssumption
    <3>4. \A i \in left'[d] : NumbersApart(copy[d][i])
      BY <1>5, <3>1
    <3>5. Made' = Made /\ controllers' = controllers /\ starts' = starts /\ copy' = copy
      BY <1>3 DEF Made
    <3> QED BY <1>10, <2>1, <3>1, <3>3, <3>4, <3>5 DEF CmdR, ReplyW, NumbersApart, NumbersOf, Round
  <2>2. CASE j # d
    <3>1. j \in Disks /\ child'[j] = child[j] /\ left'[j] = left[j]
      BY <1>1, <1>5, <1>6, <2>2 DEF TypeOK
    <3> QED BY <1>1, <1>3, <3>1 DEF ChildInv, Made
  <2> QED BY <2>1, <2>2
<1>12. ParentInv'
  BY <1>1, <1>3 DEF ParentInv, Made
<1> QED BY <1>7, <1>11, <1>12 DEF FdInv

LEMMA EndInv == ASSUME FdInv, NEW d \in Disks, End(d) PROVE FdInv'
<1>1. TypeOK /\ ParentInv /\ ChildInv
  BY DEF FdInv
<1>2. UNCHANGED <<pc, cur, parent, controllers, fp, starts, copy>> /\ alive' = alive \ {d}
  BY DEF End, parentVars
<1>3. Free \in Entry
  BY NumDisksAssumption, MaxStartsAssumption DEF Free, Entry, Disks, Starts
<1>4. TypeOK'
  BY <1>1, <1>2, <1>3 DEF End, TypeOK, Table, Empty
<1>5. \A j \in alive' : j \in Disks /\ j # d /\ child'[j] = child[j] /\ left'[j] = left[j]
  BY <1>1, <1>2 DEF End, TypeOK
<1>6. ChildInv'
  BY <1>1, <1>2, <1>5 DEF ChildInv, Made
<1>7. ParentInv'
  BY <1>1, <1>2 DEF ParentInv, Made
<1> QED BY <1>4, <1>6, <1>7 DEF FdInv

LEMMA StepInv == FdInv /\ [Next]_vars => FdInv'
<1> SUFFICES ASSUME FdInv, [Next]_vars PROVE FdInv'
  OBVIOUS
<1>1. CASE Parent
  BY <1>1, InitDiskInv, RestoreInv, CloseChildEndsInv, FileInv, ParentEndsInv DEF Parent
<1>2. ASSUME NEW d \in Disks, DiskProcess(d) \/ DiskDies(d) PROVE FdInv'
  BY <1>2, CloseInheritedInv, EndInv DEF DiskProcess, DiskDies, DiskEof
<1>3. CASE UNCHANGED vars
  <2>1. UNCHANGED <<pc, cur, parent, controllers, fp, starts, alive, child, copy, left>>
    BY <1>3 DEF vars, parentVars, childVars
  <2> QED BY <2>1 DEF FdInv, TypeOK, ParentInv, ChildInv, Made
<1> QED BY <1>1, <1>2, <1>3 DEF Next, Terminated

(* The inductive invariant of the descriptor tables.                       *)
THEOREM FdsCorrect == Spec => []FdInv
BY InitInv, StepInv, PTL DEF Spec

(* Between commands the parent has its ends of all pipes and no other.     *)
THEOREM ParentTableCorrect == Spec => []ParentTableExact
<1>1. FdInv => ParentTableExact
  BY DEF FdInv, ParentInv, ParentTableExact, Closing
<1> QED BY <1>1, FdsCorrect, PTL

(* A disk that reads commands has its own two pipe ends and no other.      *)
THEOREM ChildTableCorrect == Spec => []ChildTableExact
<1>1. FdInv => ChildTableExact
  BY DEF FdInv, ChildInv, ChildTableExact
<1> QED BY <1>1, FdsCorrect, PTL

(* When a disk is dead, nobody holds its ends: what Writable and RecvEof   *)
(* of Raid take for granted.                                               *)
THEOREM DeathNoticedCorrect == Spec => []DeathNoticed
<1>1. ASSUME FdInv, pc = "idle", NEW d \in Disks \ alive
      PROVE  NoHolder("cmdR", CmdW(d, starts[d])) /\ NoHolder("replyW", ReplyR(d, starts[d]))
  <2>1. TypeOK /\ ParentInv /\ ChildInv
    BY <1>1 DEF FdInv
  <2>2. /\ [CmdW(d, starts[d]) EXCEPT !.use = "cmdR"] = CmdR(d, starts[d])
        /\ [ReplyR(d, starts[d]) EXCEPT !.use = "replyW"] = ReplyW(d, starts[d])
    BY DEF CmdW, CmdR, ReplyR, ReplyW
  <2>3. \A n \in Fds : parent[n].use \notin {"cmdR", "replyW"}
    <3> SUFFICES ASSUME NEW n \in Fds, parent[n].use \in {"cmdR", "replyW"} PROVE FALSE
      OBVIOUS
    <3>1. PICK k \in Made : n \in {controllers[k].cmdW, controllers[k].replyR}
      BY <1>1, <2>1 DEF ParentInv, Closing, PipeUses
    <3>2. parent[n] \in {CmdW(k, starts[k]), ReplyR(k, starts[k])}
      BY <1>1, <2>1, <3>1 DEF ParentInv
    <3> QED BY <3>2, Uses
  <2>4. ASSUME NEW k \in alive, NEW n \in Fds
        PROVE  child[k][n] \notin {CmdR(d, starts[d]), ReplyW(d, starts[d])}
    <3>1. CASE n \in {controllers[k].cmdR, controllers[k].replyW}
      <4>1. \A i, s : CmdR(i, s).disk = i /\ ReplyW(i, s).disk = i
        BY DEF CmdR, ReplyW
      <4>2. child[k][n] \in {CmdR(k, starts[k]), ReplyW(k, starts[k])}
        BY <2>1, <3>1 DEF ChildInv
      <4> QED BY <4>1, <4>2
    <3>2. CASE n \notin {controllers[k].cmdR, controllers[k].replyW}
      BY <2>1, <3>2, Uses DEF ChildInv
    <3> QED BY <3>1, <3>2
  <2> QED BY <2>2, <2>3, <2>4, Uses DEF NoHolder
<1>2. FdInv => DeathNoticed
  BY <1>1 DEF DeathNoticed
<1> QED BY <1>2, FdsCorrect, PTL

(* A disk is started again only after its process has ended.               *)
THEOREM OneProcessCorrect == Spec => OneProcessPerDisk
<1> DEFINE A == \A d \in Disks : starts'[d] # starts[d] => d \notin alive
<1>1. ASSUME FdInv, Next PROVE A
  <2> SUFFICES ASSUME NEW d \in Disks, starts'[d] # starts[d] PROVE d \notin alive
    OBVIOUS
  <2>1. TypeOK /\ ParentInv /\ ChildInv
    BY <1>1 DEF FdInv
  <2>2. ~ \E k \in Disks : DiskProcess(k) \/ DiskDies(k)
    BY DEF DiskProcess, DiskDies, DiskEof, CloseInherited, End
  <2>3. InitDisk \/ \E k \in Disks : Restore(k)
    BY <1>1, <2>2 DEF Next, Parent, CloseChildEnds, OpenFile, CloseFile, ParentEnds, Terminated, vars
  <2>4. CASE InitDisk
    <3>1. PICK k \in Disks, t \in Table : k = cur /\ t = parent
      BY <2>1 DEF TypeOK
    <3>2. Fork(t, k, InitOthers(k), "initClose") /\ pc = "init"
      BY <2>4, <3>1 DEF InitDisk
    <3>3. starts' = [starts EXCEPT ![k] = @ + 1]
      BY <2>1, <3>2, ForkResult DEF Forked, PipesMade
    <3>4. d = k
      BY <2>1, <3>3 DEF TypeOK
    <3> QED BY <2>1, <3>1, <3>2, <3>4 DEF ParentInv, ChildInv, Made, Disks
  <2>5. CASE \E k \in Disks : Restore(k)
    <3>1. PICK k \in Disks : Restore(k)
      BY <2>5
    <3>2. PICK t \in Table : t = CloseOldEnds(k)
      <4>1. Free \in Entry
        BY NumDisksAssumption, MaxStartsAssumption DEF Free, Entry, Disks, Starts
      <4> QED BY <2>1, <4>1 DEF TypeOK, CloseOldEnds, Table, Numbers
    <3>3. Fork(t, k, RestartOthers(k), "restartClose")
      BY <3>1, <3>2 DEF Restore
    <3>4. starts' = [starts EXCEPT ![k] = @ + 1]
      BY <2>1, <3>3, ForkResult DEF Forked, PipesMade
    <3>5. d = k
      BY <2>1, <3>4 DEF TypeOK
    <3> QED BY <1>1, <3>1, <3>5, EpipeMeansDead DEF Restore
  <2> QED BY <2>3, <2>4, <2>5
<1>2. FdInv /\ [Next]_vars => [A]_vars
  BY <1>1
<1> QED BY <1>2, FdsCorrect, PTL DEF Spec, OneProcessPerDisk

-----------------------------------------------------------------------------
(* Sequences and sets of numbers, for both kinds of bytes.                 *)

(* The first n elements of a sequence.                                     *)
LEMMA FirstBytes ==
  ASSUME NEW S, NEW s \in Seq(S), NEW n \in 0 .. Len(s)
  PROVE  /\ SubSeq(s, 1, n) \in Seq(S) /\ Len(SubSeq(s, 1, n)) = n
         /\ \A i \in 1 .. n : SubSeq(s, 1, n)[i] = s[i]
<1>1. Len(s) \in Nat /\ n \in Nat
  BY LenProperties
<1>2. \A i \in 1 .. n : s[i] \in S
  BY <1>1, ElementOfSeq
<1>3. /\ SubSeq(s, 1, n) \in Seq(S)
      /\ Len(SubSeq(s, 1, n)) = IF 1 =< n THEN n - 1 + 1 ELSE 0
      /\ \A i \in 1 .. n - 1 + 1 : SubSeq(s, 1, n)[i] = s[1 + i - 1]
  BY <1>1, <1>2, SubSeqProperties
<1> QED BY <1>1, <1>3

(* The elements behind the first m, up to the n-th.                        *)
LEMMA MiddleBytes ==
  ASSUME NEW S, NEW s \in Seq(S), NEW m \in Nat, NEW n \in Nat, m =< n, n =< Len(s)
  PROVE  /\ SubSeq(s, m + 1, n) \in Seq(S) /\ Len(SubSeq(s, m + 1, n)) = n - m
         /\ \A i \in 1 .. n - m : SubSeq(s, m + 1, n)[i] = s[m + i]
<1>1. Len(s) \in Nat
  BY LenProperties
<1>2. \A i \in m + 1 .. n : s[i] \in S
  <2> TAKE i \in m + 1 .. n
  <2>1. i \in 1 .. Len(s)
    BY <1>1
  <2> QED BY <2>1, ElementOfSeq
<1> DEFINE a == m + 1
<1>3. a \in Int /\ n \in Int /\ (IF a =< n THEN n - a + 1 ELSE 0) = n - m
      /\ n - a + 1 = n - m /\ \A i \in Int : a + i - 1 = m + i
  OBVIOUS
<1>4. \A i \in a .. n : s[i] \in S
  BY <1>2
<1> HIDE DEF a
<1>5. /\ SubSeq(s, a, n) \in Seq(S)
      /\ Len(SubSeq(s, a, n)) = IF a =< n THEN n - a + 1 ELSE 0
      /\ \A i \in 1 .. n - a + 1 : SubSeq(s, a, n)[i] = s[a + i - 1]
  <2>1. a \in Int /\ n \in Int
    BY <1>3
  <2> QED BY <1>4, <2>1, SubSeqProperties
<1>6. \A i \in 1 .. n - m : SubSeq(s, a, n)[i] = s[m + i]
  <2> TAKE i \in 1 .. n - m
  <2>1. i \in Int /\ i \in 1 .. n - a + 1
    BY <1>3
  <2>2. a + i - 1 = m + i
    BY <1>3, <2>1
  <2> QED BY <1>5, <2>1, <2>2
<1>7. SubSeq(s, a, n) \in Seq(S) /\ Len(SubSeq(s, a, n)) = n - m
  BY <1>3, <1>5
<1> QED BY <1>6, <1>7 DEF a

(* A part of the beginning is a part of the whole.                         *)
LEMMA SubSeqOfFirst ==
  ASSUME NEW S, NEW s \in Seq(S), NEW n \in 0 .. Len(s), NEW a \in Nat \ {0}, NEW b \in Int, b =< n
  PROVE  SubSeq(SubSeq(s, 1, n), a, b) = SubSeq(s, a, b)
<1>1. CASE b < a
  <2>1. SubSeq(SubSeq(s, 1, n), a, b) = <<>>
    BY <1>1, SubSeqEmpty
  <2>2. SubSeq(s, a, b) = <<>>
    BY <1>1, SubSeqEmpty
  <2> QED BY <2>1, <2>2
<1>2. CASE a =< b
  <2>1. Len(s) \in Nat
    BY LenProperties
  <2>2. /\ 1 \in 1 .. Len(s) /\ n \in 1 .. Len(s) /\ a \in 1 .. n - 1 + 1 /\ b \in 1 .. n - 1 + 1
        /\ 1 + a - 1 = a /\ 1 + b - 1 = b
    BY <1>2, <2>1
  <2>3. SubSeq(SubSeq(s, 1, n), a, b) = SubSeq(s, 1 + a - 1, 1 + b - 1)
    BY <2>2, SubSeqOfSubSeq
  <2> QED BY <2>2, <2>3
<1> QED BY <1>1, <1>2

(* A set of natural numbers has a least element, and Min is it.            *)
LEMMA LeastOf ==
  ASSUME NEW S \in SUBSET Nat, S # {}
  PROVE  \E x \in S : \A y \in S : x =< y
<1> DEFINE R == OpToRel(<, Nat)
<1>1. \E x \in S : \A y \in S : ~(<<y, x>> \in R)
  BY NatLessThanWellFounded, WFMin
<1>2. \A x, y \in Nat : <<y, x>> \in R <=> y < x
  BY DEF OpToRel
<1> HIDE DEF R
<1>3. PICK x \in S : \A y \in S : ~(<<y, x>> \in R)
  BY <1>1
<1>4. \A y \in S : x =< y
  <2> TAKE y \in S
  <2>1. x \in Nat /\ y \in Nat
    OBVIOUS
  <2>2. <<y, x>> \notin R
    BY <1>3
  <2>3. ~(y < x)
    BY <1>2, <2>1, <2>2
  <2> QED BY <2>1, <2>3
<1> QED BY <1>4

LEMMA MinOf ==
  ASSUME NEW S \in SUBSET Nat, S # {}
  PROVE  Min(S) \in S /\ \A y \in S : Min(S) =< y
BY LeastOf DEF Min

-----------------------------------------------------------------------------
(* Validate: two records, two reads.                                       *)

(* All that may be in a record or a line.                                  *)
Bytes == Letters \cup {":", "nul", "cr", "nl"}

(* w is what comes before the first c in s, or all of s.                   *)
CutAt(s, c, w) ==
  /\ s \in Seq(Bytes) /\ w \in Seq(Bytes) /\ Len(w) =< Len(s)
  /\ \A i \in 1 .. Len(w) : s[i] = w[i] /\ w[i] # c
  /\ Len(s) = Len(w) \/ s[Len(w) + 1] = c

LEMMA UptoIs ==
  ASSUME NEW s, NEW c, NEW w, CutAt(s, c, w)
  PROVE  Upto(s, c) = w
<1>1. /\ s \in Seq(Bytes) /\ w \in Seq(Bytes) /\ Len(s) \in Nat /\ Len(w) \in Nat
      /\ DOMAIN s = 1 .. Len(s) /\ Len(w) =< Len(s)
      /\ \A i \in 1 .. Len(w) : s[i] = w[i] /\ w[i] # c
  BY LenProperties DEF CutAt
<1>2. CASE Len(s) = Len(w)
  <2>1. ~Has(s, c)
    BY <1>1, <1>2 DEF Has
  <2>2. s = w
    BY <1>1, <1>2, SeqEqual
  <2> QED BY <2>1, <2>2 DEF Upto
<1>3. CASE Len(s) # Len(w)
  <2>1. s[Len(w) + 1] = c /\ Len(w) + 1 \in DOMAIN s
    BY <1>1, <1>3 DEF CutAt
  <2> DEFINE first == CHOOSE i \in DOMAIN s : s[i] = c /\ \A j \in DOMAIN s : s[j] = c => i =< j
  <2>2. first = Len(w) + 1
    <3>1. \A j \in DOMAIN s : s[j] = c => Len(w) + 1 =< j
      BY <1>1
    <3>2. \A i \in DOMAIN s : s[i] = c /\ (\A j \in DOMAIN s : s[j] = c => i =< j) => i = Len(w) + 1
      BY <1>1, <2>1, <3>1
    <3>3. \E i \in DOMAIN s : s[i] = c /\ \A j \in DOMAIN s : s[j] = c => i =< j
      BY <2>1, <3>1
    <3> QED BY <3>2, <3>3
  <2>3. Upto(s, c) = SubSeq(s, 1, first - 1)
    BY <2>1 DEF Upto, Has
  <2> HIDE DEF first
  <2>4. first - 1 = Len(w)
    BY <1>1, <2>2
  <2>7. /\ SubSeq(s, 1, Len(w)) \in Seq(Bytes) /\ Len(SubSeq(s, 1, Len(w))) = Len(w)
        /\ \A i \in 1 .. Len(w) : SubSeq(s, 1, Len(w))[i] = w[i]
    <3>1. Len(w) \in 0 .. Len(s)
      BY <1>1
    <3>2. /\ SubSeq(s, 1, Len(w)) \in Seq(Bytes) /\ Len(SubSeq(s, 1, Len(w))) = Len(w)
          /\ \A i \in 1 .. Len(w) : SubSeq(s, 1, Len(w))[i] = s[i]
      BY <1>1, <3>1, FirstBytes
    <3> QED BY <1>1, <3>2
  <2>8. SubSeq(s, 1, Len(w)) = w
    BY <1>1, <2>7, SeqEqual
  <2> QED BY <2>3, <2>4, <2>8
<1> QED BY <1>2, <1>3

(* A word that is typed: no byte of it ends a string or a line.            *)
Typed(w) == w \in Seq(Letters) /\ Len(w) =< Size

(* The newline that a read leaves behind a word as long as the read.       *)
Rest(w) == IF source = "terminal" /\ Len(w) = Size THEN Record(<<>>) ELSE <<>>

LEMMA LetterBytes ==
  ASSUME NEW w \in Seq(Letters)
  PROVE  /\ w \in Seq(Bytes) /\ Len(w) \in Nat
         /\ \A i \in 1 .. Len(w) : w[i] \in Letters /\ w[i] \notin {"nul", "cr", "nl"}
<1>1. Letters \subseteq Bytes
  BY DEF Bytes
<1>2. w \in Seq(Bytes)
  BY <1>1, SeqMonotonic
<1>3. Len(w) \in Nat /\ \A i \in 1 .. Len(w) : w[i] \in Letters
  BY LenProperties, ElementOfSeq
<1> QED BY <1>2, <1>3, LettersAssumption

(* What is read of a record is the word in it, in both kinds of input.     *)
LEMMA RecordString ==
  ASSUME source \in {"pipe", "terminal"}, NEW w, Typed(w)
  PROVE  /\ Record(w) \in Seq(Bytes) /\ Len(w) \in Nat
         /\ Len(Record(w)) = IF source = "terminal" THEN Len(w) + 1 ELSE Size
         /\ \A i \in 1 .. Len(w) : Record(w)[i] = w[i]
         /\ source = "terminal" => Record(w)[Len(w) + 1] = "nl"
         /\ UserString(Record(w)) = w /\ PasswordString(Record(w)) = w
<1>1. /\ w \in Seq(Bytes) /\ Len(w) \in Nat /\ Len(w) =< Size /\ DOMAIN w = 1 .. Len(w)
      /\ \A i \in 1 .. Len(w) : w[i] \in Bytes /\ w[i] \notin {"nul", "cr", "nl"}
  BY LetterBytes, LenProperties, ElementOfSeq DEF Typed
<1>2. ~Has(w, "cr")
  BY <1>1 DEF Has
<1>3. CutAt(w, "nl", w)
  BY <1>1 DEF CutAt
<1>4. Upto(w, "nl") = w
  BY <1>3, UptoIs
<1>5. CASE source = "terminal"
  <2> DEFINE r == w \o <<"nl">>
  <2>1. Record(w) = r
    BY <1>5 DEF Record
  <2>2. <<"nl">> \in Seq(Bytes) /\ Len(<<"nl">>) = 1 /\ <<"nl">>[1] = "nl"
    BY DEF Bytes
  <2>3. /\ r \in Seq(Bytes) /\ Len(r) = Len(w) + Len(<<"nl">>)
        /\ \A i \in 1 .. Len(w) + Len(<<"nl">>) :
             r[i] = IF i =< Len(w) THEN w[i] ELSE <<"nl">>[i - Len(w)]
    BY <1>1, <2>2, ConcatProperties
  <2>4. r \in Seq(Bytes) /\ Len(r) = Len(w) + 1 /\ DOMAIN r = 1 .. Len(w) + 1
    BY <1>1, <2>2, <2>3, LenProperties
  <2>5. (\A i \in 1 .. Len(w) : r[i] = w[i]) /\ r[Len(w) + 1] = "nl"
    BY <1>1, <2>2, <2>3
  <2> HIDE DEF r
  <2>6. \A i \in 1 .. Len(r) : r[i] \notin {"nul", "cr"}
    BY <1>1, <2>4, <2>5
  <2>7. CutAt(r, "nul", r)
    BY <1>1, <2>4, <2>6 DEF CutAt
  <2>8. CutAt(r, "nl", w)
    BY <1>1, <2>4, <2>5 DEF CutAt
  <2>9. Upto(r, "nul") = r /\ Upto(r, "nl") = w
    BY <2>7, <2>8, UptoIs
  <2>10. ~Has(r, "cr")
    BY <2>4, <2>6 DEF Has
  <2>11. UserString(r) = w /\ PasswordString(r) = w
    BY <2>9, <2>10 DEF UserString, PasswordString
  <2> QED BY <1>1, <1>5, <2>1, <2>4, <2>5, <2>11
<1>6. CASE source = "pipe"
  <2> DEFINE r == [i \in 1 .. Size |-> IF i =< Len(w) THEN w[i] ELSE "nul"]
  <2>1. Record(w) = r
    BY <1>6 DEF Record
  <2>2. \A i \in 1 .. Size : r[i] \in Bytes
    BY <1>1 DEF Bytes
  <2>3. r \in Seq(Bytes) /\ Len(r) = Size
    BY <2>2, SizeAssumption
  <2>4. \A i \in 1 .. Len(w) : r[i] = w[i]
    BY <1>1, SizeAssumption
  <2>5. Len(w) = Size \/ r[Len(w) + 1] = "nul"
    <3>1. SUFFICES ASSUME Len(w) # Size PROVE r[Len(w) + 1] = "nul"
      OBVIOUS
    <3>2. Len(w) + 1 \in 1 .. Size /\ ~(Len(w) + 1 =< Len(w))
      <4>1. Len(w) \in Nat /\ Size \in Nat /\ Len(w) =< Size
        BY <1>1, SizeAssumption
      <4> QED BY <3>1, <4>1
    <3> QED BY <3>2
  <2> HIDE DEF r
  <2>6. CutAt(r, "nul", w)
    <3>1. Len(w) =< Len(r) /\ (Len(r) = Len(w) \/ r[Len(w) + 1] = "nul")
      <4>1. Len(w) =< Len(r)
        BY <1>1, <2>3
      <4>2. Len(r) = Len(w) \/ r[Len(w) + 1] = "nul"
        BY <2>3, <2>5
      <4> QED BY <4>1, <4>2
    <3> QED BY <1>1, <2>3, <2>4, <3>1 DEF CutAt
  <2>7. Upto(r, "nul") = w
    BY <2>6, UptoIs
  <2>8. UserString(r) = w /\ PasswordString(r) = w
    BY <1>2, <1>4, <2>7 DEF UserString, PasswordString
  <2> QED BY <1>1, <1>6, <2>1, <2>3, <2>4, <2>8
<1> QED BY <1>5, <1>6

(* A read() takes one record, whatever has come behind it, unless that is  *)
(* longer than the read.                                                   *)
LEMMA ReadTakesRecord ==
  ASSUME source \in {"pipe", "terminal"}, NEW w, Typed(w), NEW t \in Seq(Bytes),
         input = Record(w) \o t, source = "terminal" => Len(w) # Size
  PROVE  /\ SubSeq(input, 1, BytesThere) = Record(w)
         /\ SubSeq(input, BytesThere + 1, Len(input)) = t
<1> DEFINE r == Record(w)
<1>1. /\ r \in Seq(Bytes) /\ Len(w) \in Nat
      /\ Len(r) = IF source = "terminal" THEN Len(w) + 1 ELSE Size
      /\ \A i \in 1 .. Len(w) : r[i] = w[i]
      /\ source = "terminal" => r[Len(w) + 1] = "nl"
  BY RecordString
<1>2. Len(w) =< Size /\ (source = "terminal" => Len(w) < Size)
  BY <1>1, SizeAssumption DEF Typed
<1>3. /\ w \in Seq(Bytes)
      /\ \A i \in 1 .. Len(w) : w[i] \notin {"nul", "cr", "nl"}
  BY LetterBytes DEF Typed
<1> HIDE DEF r
<1>4. Len(r) \in 1 .. Size /\ Len(t) \in Nat
  BY <1>1, <1>2, SizeAssumption, LenProperties
<1>5. /\ input \in Seq(Bytes) /\ Len(input) = Len(r) + Len(t)
      /\ \A i \in 1 .. Len(r) + Len(t) : input[i] = IF i =< Len(r) THEN r[i] ELSE t[i - Len(r)]
  BY <1>1, ConcatProperties DEF r
<1>6. BytesThere = Len(r)
  <2>1. CASE source = "terminal"
    <3>1. CutAt(input, "nl", w)
      BY <1>1, <1>3, <1>4, <1>5, <2>1 DEF CutAt
    <3>2. Upto(input, "nl") = w
      BY <3>1, UptoIs
    <3> QED BY <1>1, <1>2, <2>1, <3>2, SizeAssumption DEF BytesThere
  <2>2. CASE source # "terminal"
    BY <1>1, <1>4, <1>5, <2>2, SizeAssumption DEF BytesThere
  <2> QED BY <2>1, <2>2
<1>7. SubSeq(input, 1, Len(r)) = r
  <2>1. Len(r) \in 0 .. Len(input)
    BY <1>4, <1>5
  <2>2. /\ SubSeq(input, 1, Len(r)) \in Seq(Bytes) /\ Len(SubSeq(input, 1, Len(r))) = Len(r)
        /\ \A i \in 1 .. Len(r) : SubSeq(input, 1, Len(r))[i] = input[i]
    BY <1>5, <2>1, FirstBytes
  <2>3. \A i \in 1 .. Len(r) : input[i] = r[i]
    BY <1>4, <1>5
  <2>4. \A i \in 1 .. Len(r) : SubSeq(input, 1, Len(r))[i] = r[i]
    BY <2>2, <2>3
  <2> QED BY <1>1, <2>2, <2>4, SeqEqual
<1>8. SubSeq(input, Len(r) + 1, Len(input)) = t
  <2> DEFINE m == Len(r) + 1
             n == Len(input)
  <2>1. \A i \in m .. n : input[i] \in Bytes
    BY <1>4, <1>5, ElementOfSeq
  <2>2. m \in Int /\ n \in Int /\ n - m + 1 = Len(t) /\ (m =< n <=> Len(t) > 0)
    BY <1>4, <1>5
  <2>3. /\ SubSeq(input, m, n) \in Seq(Bytes)
        /\ Len(SubSeq(input, m, n)) = IF m =< n THEN n - m + 1 ELSE 0
        /\ \A i \in 1 .. n - m + 1 : SubSeq(input, m, n)[i] = input[m + i - 1]
    BY <2>1, <2>2, SubSeqProperties
  <2>4. \A i \in 1 .. Len(t) : input[m + i - 1] = t[i]
    <3> TAKE i \in 1 .. Len(t)
    <3> DEFINE j == m + i - 1
    <3>1. j \in 1 .. Len(r) + Len(t) /\ ~(j =< Len(r)) /\ j - Len(r) = i
      BY <1>4, <1>5
    <3> HIDE DEF j, m
    <3>2. input[j] = t[i]
      BY <1>4, <1>5, <3>1
    <3> QED BY <3>2 DEF j
  <2>5. /\ Len(SubSeq(input, m, n)) = Len(t)
        /\ \A i \in 1 .. Len(t) : SubSeq(input, m, n)[i] = t[i]
    BY <1>4, <2>2, <2>3, <2>4
  <2> QED BY <2>3, <2>5, SeqEqual
<1> QED BY <1>6, <1>7, <1>8 DEF r

(* The empty word is typed as a newline, and is not as long as a read.     *)
LEMMA EmptyWord ==
  ASSUME source = "terminal"
  PROVE  Record(<<>>) = <<"nl">> /\ Typed(<<>>) /\ Len(<<>>) # Size /\ <<"nl">> \in Seq(Bytes)
<1>1. <<"nl">> \in Seq(Bytes)
  BY DEF Bytes
<1>2. <<>> \o <<"nl">> = <<"nl">>
  BY <1>1, ConcatEmptySeq
<1>3. <<>> \in Seq(Letters) /\ Len(<<>>) = 0
  BY EmptySeq
<1> QED BY <1>1, <1>2, <1>3, SizeAssumption DEF Record, Typed

(* Of a word as long as the read it takes the word, and not the newline.   *)
LEMMA ReadTakesWord ==
  ASSUME source = "terminal", NEW w, Typed(w), Len(w) = Size, NEW t \in Seq(Bytes),
         input = Record(w) \o t
  PROVE  /\ SubSeq(input, 1, BytesThere) = w
         /\ SubSeq(input, BytesThere + 1, Len(input)) = <<"nl">> \o t
<1> DEFINE r == Record(w)
           x == <<"nl">> \o t
<1>1. /\ r \in Seq(Bytes) /\ Len(w) \in Nat /\ Len(r) = Size + 1
      /\ (\A i \in 1 .. Size : r[i] = w[i]) /\ r[Size + 1] = "nl"
  BY RecordString
<1>2. w \in Seq(Bytes) /\ \A i \in 1 .. Len(w) : w[i] \notin {"nul", "cr", "nl"}
  BY LetterBytes DEF Typed
<1>3. Size \in Nat /\ Size > 0 /\ Len(t) \in Nat
  BY SizeAssumption, LenProperties
<1> HIDE DEF r
<1>4. /\ input \in Seq(Bytes) /\ Len(input) = Size + 1 + Len(t)
      /\ \A i \in 1 .. Size + 1 + Len(t) : input[i] = IF i =< Size + 1 THEN r[i] ELSE t[i - (Size + 1)]
  <2>1. input = r \o t
    BY DEF r
  <2>2. /\ r \o t \in Seq(Bytes) /\ Len(r \o t) = Len(r) + Len(t)
        /\ \A i \in 1 .. Len(r) + Len(t) : (r \o t)[i] = IF i =< Len(r) THEN r[i] ELSE t[i - Len(r)]
    BY <1>1, ConcatProperties
  <2> QED BY <1>1, <2>1, <2>2
<1>5. (\A i \in 1 .. Size : input[i] = w[i]) /\ input[Size + 1] = "nl"
  BY <1>1, <1>3, <1>4
<1>6. BytesThere = Size
  <2>1. CutAt(input, "nl", w)
    BY <1>1, <1>2, <1>3, <1>4, <1>5 DEF CutAt
  <2>2. Len(Upto(input, "nl")) = Size
    BY <2>1, UptoIs
  <2> QED BY <1>3, <2>2 DEF BytesThere
<1>7. SubSeq(input, 1, Size) = w
  <2>1. Size \in 0 .. Len(input)
    BY <1>3, <1>4
  <2>2. /\ SubSeq(input, 1, Size) \in Seq(Bytes) /\ Len(SubSeq(input, 1, Size)) = Size
        /\ \A i \in 1 .. Size : SubSeq(input, 1, Size)[i] = input[i]
    BY <1>4, <2>1, FirstBytes
  <2>3. \A i \in 1 .. Size : SubSeq(input, 1, Size)[i] = w[i]
    BY <1>5, <2>2
  <2> QED BY <1>2, <2>2, <2>3, SeqEqual
<1>8. SubSeq(input, Size + 1, Len(input)) = x
  <2> DEFINE n == Len(input)
             z == SubSeq(input, Size + 1, n)
  <2>1. <<"nl">> \in Seq(Bytes) /\ Len(<<"nl">>) = 1 /\ <<"nl">>[1] = "nl"
    BY DEF Bytes
  <2>2. /\ x \in Seq(Bytes) /\ Len(x) = 1 + Len(t)
        /\ \A i \in 1 .. 1 + Len(t) : x[i] = IF i =< 1 THEN <<"nl">>[i] ELSE t[i - 1]
    BY <2>1, ConcatProperties
  <2> HIDE DEF x
  <2>3. Size =< n /\ n =< Len(input) /\ n \in Nat /\ n - Size = 1 + Len(t)
    BY <1>3, <1>4
  <2>4. /\ z \in Seq(Bytes) /\ Len(z) = 1 + Len(t)
        /\ \A i \in 1 .. 1 + Len(t) : z[i] = input[Size + i]
    <3> HIDE DEF n
    <3>1. /\ z \in Seq(Bytes) /\ Len(z) = n - Size
          /\ \A i \in 1 .. n - Size : z[i] = input[Size + i]
      <4>1. /\ input \in Seq(Bytes) /\ Size \in Nat
            /\ n \in Nat /\ Size =< n /\ n =< Len(input)
        BY <1>3, <1>4, <2>3
      <4> QED BY <4>1, MiddleBytes
    <3> QED BY <2>3, <3>1
  <2> HIDE DEF z
  <2>5. \A i \in 1 .. 1 + Len(t) : input[Size + i] = x[i]
    <3> TAKE i \in 1 .. 1 + Len(t)
    <3> DEFINE j == Size + i
    <3>1. CASE i = 1
      <4>1. j = Size + 1 /\ i =< 1
        BY <1>3, <3>1
      <4>2. x[i] = "nl"
        BY <2>1, <2>2, <3>1, <4>1
      <4> QED BY <1>5, <4>1, <4>2
    <3>2. CASE i # 1
      <4>1. /\ j \in 1 .. Size + 1 + Len(t) /\ ~(j =< Size + 1)
            /\ j - (Size + 1) = i - 1 /\ ~(i =< 1)
        BY <1>3, <3>2
      <4> HIDE DEF j
      <4>2. input[j] = t[i - 1]
        BY <1>4, <4>1
      <4>3. x[i] = t[i - 1]
        BY <2>2, <4>1
      <4> QED BY <4>2, <4>3 DEF j
    <3> QED BY <3>1, <3>2
  <2>6. \A i \in 1 .. Len(x) : z[i] = x[i]
    BY <2>2, <2>4, <2>5
  <2> QED BY <2>2, <2>4, <2>6, SeqEqual DEF n, z
<1> QED BY <1>6, <1>7, <1>8

(* What a read makes of a record, and what it leaves.                      *)
LEMMA ReadString ==
  ASSUME source \in {"pipe", "terminal"}, NEW w, Typed(w), NEW t \in Seq(Bytes),
         input = Record(w) \o t
  PROVE  /\ UserString(SubSeq(input, 1, BytesThere)) = w
         /\ PasswordString(SubSeq(input, 1, BytesThere)) = w
         /\ SubSeq(input, BytesThere + 1, Len(input)) = Rest(w) \o t
<1>1. CASE source = "terminal" /\ Len(w) = Size
  <2>1. w \in Seq(Bytes) /\ Len(w) \in Nat /\ \A i \in 1 .. Len(w) : w[i] \notin {"nul", "cr", "nl"}
    BY LetterBytes DEF Typed
  <2>2. CutAt(w, "nul", w) /\ CutAt(w, "nl", w) /\ ~Has(w, "cr")
    BY <2>1, LenProperties DEF CutAt, Has
  <2>3. Upto(w, "nul") = w /\ Upto(w, "nl") = w
    BY <2>2, UptoIs
  <2>4. UserString(w) = w /\ PasswordString(w) = w
    BY <2>2, <2>3 DEF UserString, PasswordString
  <2>5. Rest(w) = <<"nl">>
    BY <1>1, EmptyWord DEF Rest
  <2> QED BY <1>1, <2>4, <2>5, ReadTakesWord
<1>2. CASE ~(source = "terminal" /\ Len(w) = Size)
  <2>1. /\ SubSeq(input, 1, BytesThere) = Record(w)
        /\ SubSeq(input, BytesThere + 1, Len(input)) = t
    BY <1>2, ReadTakesRecord
  <2>2. Rest(w) \o t = t
    BY <1>2, ConcatEmptySeq DEF Rest
  <2> QED BY <2>1, <2>2, RecordString
<1> QED BY <1>1, <1>2

Joined(u, p) == u \o <<":">> \o p

LEMMA JoinedBytes ==
  ASSUME NEW u \in Seq(NameLetters), NEW p \in Seq(Letters)
  PROVE  /\ u \in Seq(Bytes) /\ p \in Seq(Bytes) /\ Len(u) \in Nat /\ Len(p) \in Nat
         /\ u \o <<":">> \in Seq(Bytes) /\ Len(u \o <<":">>) = Len(u) + 1
         /\ Joined(u, p) \in Seq(Bytes) /\ Len(Joined(u, p)) = Len(u) + 1 + Len(p)
         /\ \A i \in 1 .. Len(u) : Joined(u, p)[i] = u[i] /\ u[i] # ":"
         /\ \A i \in 1 .. Len(u) : (u \o <<":">>)[i] = u[i]
         /\ Joined(u, p)[Len(u) + 1] = ":" /\ (u \o <<":">>)[Len(u) + 1] = ":"
         /\ \A i \in 1 .. Len(p) : Joined(u, p)[Len(u) + 1 + i] = p[i]
         /\ \A i \in 1 .. Len(u) + 1 + Len(p) : Joined(u, p)[i] \notin {"nul", "cr", "nl"}
<1> DEFINE c  == <<":">>
           uc == u \o c
<1>1. u \in Seq(Letters)
  BY SeqMonotonic DEF NameLetters
<1>2. /\ u \in Seq(Bytes) /\ Len(u) \in Nat
      /\ \A i \in 1 .. Len(u) : u[i] \notin {"nul", "cr", "nl"}
  BY <1>1, LetterBytes
<1>3. /\ p \in Seq(Bytes) /\ Len(p) \in Nat
      /\ \A i \in 1 .. Len(p) : p[i] \notin {"nul", "cr", "nl"}
  BY LetterBytes
<1>4. \A i \in 1 .. Len(u) : u[i] # ":"
  BY ElementOfSeq DEF NameLetters
<1>5. c \in Seq(Bytes) /\ Len(c) = 1 /\ c[1] = ":"
  BY DEF Bytes
<1>6. /\ uc \in Seq(Bytes) /\ Len(uc) = Len(u) + Len(c)
      /\ \A i \in 1 .. Len(u) + Len(c) : uc[i] = IF i =< Len(u) THEN u[i] ELSE c[i - Len(u)]
  BY <1>2, <1>5, ConcatProperties
<1> HIDE DEF c
<1>7. /\ Len(uc) = Len(u) + 1 /\ uc[Len(u) + 1] = ":"
      /\ \A i \in 1 .. Len(u) : uc[i] = u[i]
  BY <1>2, <1>5, <1>6
<1> HIDE DEF uc
<1>8. /\ uc \o p \in Seq(Bytes) /\ Len(uc \o p) = Len(uc) + Len(p)
      /\ \A i \in 1 .. Len(uc) + Len(p) :
           (uc \o p)[i] = IF i =< Len(uc) THEN uc[i] ELSE p[i - Len(uc)]
  <2>1. uc \in Seq(Bytes) /\ p \in Seq(Bytes)
    BY <1>3, <1>6
  <2> QED BY <2>1, ConcatProperties
<1>9. Joined(u, p) = uc \o p
  BY DEF Joined, uc, c
<1> DEFINE v == Joined(u, p)
<1> HIDE DEF v
<1>10. /\ v \in Seq(Bytes) /\ Len(v) = Len(u) + 1 + Len(p)
       /\ \A i \in 1 .. Len(u) + 1 + Len(p) :
            v[i] = IF i =< Len(u) + 1 THEN uc[i] ELSE p[i - (Len(u) + 1)]
  BY <1>2, <1>3, <1>7, <1>8, <1>9 DEF v
<1>11. (\A i \in 1 .. Len(u) : v[i] = u[i]) /\ v[Len(u) + 1] = ":"
  BY <1>2, <1>3, <1>7, <1>10
<1>12. \A i \in 1 .. Len(p) : v[Len(u) + 1 + i] = p[i]
  <2> TAKE i \in 1 .. Len(p)
  <2> DEFINE j == Len(u) + 1 + i
  <2>1. j \in 1 .. Len(u) + 1 + Len(p) /\ ~(j =< Len(u) + 1) /\ j - (Len(u) + 1) = i
    BY <1>2, <1>3
  <2> HIDE DEF j
  <2>2. v[j] = p[i]
    BY <1>10, <2>1
  <2> QED BY <2>2 DEF j
<1>13. \A i \in 1 .. Len(u) + 1 + Len(p) : v[i] \notin {"nul", "cr", "nl"}
  <2> TAKE i \in 1 .. Len(u) + 1 + Len(p)
  <2>1. CASE i \in 1 .. Len(u)
    BY <1>2, <1>11, <2>1
  <2>2. CASE i = Len(u) + 1
    BY <1>11, <2>2
  <2>3. CASE i > Len(u) + 1
    <3>1. i - (Len(u) + 1) \in 1 .. Len(p) /\ v[i] = p[i - (Len(u) + 1)]
      BY <1>2, <1>3, <1>10, <2>3
    <3> QED BY <1>3, <3>1
  <2> QED BY <1>2, <2>1, <2>2, <2>3
<1> QED BY <1>2, <1>3, <1>4, <1>6, <1>7, <1>10, <1>11, <1>12, <1>13 DEF v, uc, c

(* A line that begins with a name and a colon is that user's.              *)
LEMMA NameOfLine ==
  ASSUME NEW u \in Seq(NameLetters), NEW x \in Seq(NameLetters), NEW q \in Seq(Letters)
  PROVE  StartsWith(Joined(x, q), u \o <<":">>) <=> u = x
<1> DEFINE v  == Joined(x, q)
           uc == u \o <<":">>
<1>1. /\ u \in Seq(Bytes) /\ Len(u) \in Nat /\ uc \in Seq(Bytes) /\ Len(uc) = Len(u) + 1
      /\ \A i \in 1 .. Len(u) : u[i] # ":" /\ uc[i] = u[i]
      /\ uc[Len(u) + 1] = ":"
  BY JoinedBytes
<1>2. /\ x \in Seq(Bytes) /\ Len(x) \in Nat /\ Len(q) \in Nat
      /\ v \in Seq(Bytes) /\ Len(v) = Len(x) + 1 + Len(q)
      /\ \A i \in 1 .. Len(x) : v[i] = x[i] /\ x[i] # ":"
      /\ v[Len(x) + 1] = ":"
  BY JoinedBytes
<1> HIDE DEF v, uc
<1>3. Len(v) >= Len(uc) =>
        /\ SubSeq(v, 1, Len(uc)) \in Seq(Bytes) /\ Len(SubSeq(v, 1, Len(uc))) = Len(uc)
        /\ \A i \in 1 .. Len(uc) : SubSeq(v, 1, Len(uc))[i] = v[i]
  <2>1. SUFFICES ASSUME Len(v) >= Len(uc)
        PROVE  /\ SubSeq(v, 1, Len(uc)) \in Seq(Bytes) /\ Len(SubSeq(v, 1, Len(uc))) = Len(uc)
               /\ \A i \in 1 .. Len(uc) : SubSeq(v, 1, Len(uc))[i] = v[i]
    OBVIOUS
  <2>2. Len(uc) \in 0 .. Len(v)
    BY <1>1, <1>2, <2>1
  <2> QED BY <1>2, <2>2, FirstBytes
<1>4. ASSUME StartsWith(v, uc) PROVE u = x
  <2>1. Len(v) >= Len(uc) /\ SubSeq(v, 1, Len(uc)) = uc
    BY <1>4 DEF StartsWith
  <2>2. \A i \in 1 .. Len(u) + 1 : v[i] = uc[i]
    BY <1>1, <1>3, <2>1
  <2>3. ~(Len(u) < Len(x))
    <3>1. SUFFICES ASSUME Len(u) < Len(x) PROVE FALSE
      OBVIOUS
    <3>2. Len(u) + 1 \in 1 .. Len(x) /\ Len(u) + 1 \in 1 .. Len(u) + 1
      BY <1>1, <1>2, <3>1
    <3> QED BY <1>1, <1>2, <2>2, <3>2
  <2>4. ~(Len(x) < Len(u))
    <3>1. SUFFICES ASSUME Len(x) < Len(u) PROVE FALSE
      OBVIOUS
    <3>2. Len(x) + 1 \in 1 .. Len(u) /\ Len(x) + 1 \in 1 .. Len(u) + 1
      BY <1>1, <1>2, <3>1
    <3> QED BY <1>1, <1>2, <2>2, <3>2
  <2>5. Len(u) = Len(x)
    BY <1>1, <1>2, <2>3, <2>4
  <2>6. \A i \in 1 .. Len(u) : u[i] = x[i]
    BY <1>1, <1>2, <2>2, <2>5
  <2> QED BY <1>1, <1>2, <2>5, <2>6, SeqEqual
<1>5. ASSUME u = x PROVE StartsWith(v, uc)
  <2>1. Len(v) >= Len(uc)
    BY <1>1, <1>2, <1>5
  <2>2. \A i \in 1 .. Len(uc) : v[i] = uc[i]
    BY <1>1, <1>2, <1>5
  <2>3. \A i \in 1 .. Len(uc) : SubSeq(v, 1, Len(uc))[i] = uc[i]
    BY <1>3, <2>1, <2>2
  <2>4. Len(SubSeq(v, 1, Len(uc))) = Len(uc) /\ SubSeq(v, 1, Len(uc)) \in Seq(Bytes)
    BY <1>3, <2>1
  <2>5. SubSeq(v, 1, Len(uc)) = uc
    BY <1>1, <2>3, <2>4, SeqEqual
  <2> QED BY <2>1, <2>5 DEF StartsWith
<1> QED BY <1>4, <1>5 DEF v, uc

(* The pair is on a line only if it is the user and the password there.    *)
LEMMA PairOfLine ==
  ASSUME NEW u \in Seq(NameLetters), NEW p \in Seq(Letters),
         NEW x \in Seq(NameLetters), NEW q \in Seq(Letters)
  PROVE  Joined(x, q) = Joined(u, p) <=> u = x /\ p = q
<1> SUFFICES ASSUME Joined(x, q) = Joined(u, p) PROVE u = x /\ p = q
  OBVIOUS
<1> DEFINE v  == Joined(u, p)
           uc == u \o <<":">>
<1>1. /\ p \in Seq(Bytes) /\ Len(u) \in Nat /\ Len(p) \in Nat
      /\ v \in Seq(Bytes) /\ Len(v) = Len(u) + 1 + Len(p)
      /\ \A i \in 1 .. Len(p) : v[Len(u) + 1 + i] = p[i]
  BY JoinedBytes
<1>2. /\ q \in Seq(Bytes) /\ Len(q) \in Nat
      /\ Len(v) = Len(x) + 1 + Len(q)
      /\ \A i \in 1 .. Len(q) : v[Len(x) + 1 + i] = q[i]
  <2>1. /\ q \in Seq(Bytes) /\ Len(q) \in Nat
        /\ Len(Joined(x, q)) = Len(x) + 1 + Len(q)
        /\ \A i \in 1 .. Len(q) : Joined(x, q)[Len(x) + 1 + i] = q[i]
    BY JoinedBytes
  <2>2. v = Joined(x, q)
    OBVIOUS
  <2> HIDE DEF v
  <2> QED BY <2>1, <2>2
<1>3. StartsWith(v, uc)
  BY NameOfLine
<1> HIDE DEF v, uc
<1>4. u = x
  BY <1>3, NameOfLine DEF v, uc
<1>5. Len(p) = Len(q)
  BY <1>1, <1>2, <1>4
<1>6. \A i \in 1 .. Len(p) : p[i] = q[i]
  BY <1>1, <1>2, <1>4, <1>5
<1>7. p = q
  BY <1>1, <1>2, <1>5, <1>6, SeqEqual
<1> QED BY <1>4, <1>7

LEMMA LineOfEntry ==
  ASSUME NEW u \in Seq(NameLetters), NEW p \in Seq(Letters),
         NEW end \in {<<"nl">>, <<"cr", "nl">>}
  PROVE  Stripped(LineBytes([user |-> u, password |-> p, end |-> end])) = Joined(u, p)
<1> DEFINE v == Joined(u, p)
           b == v \o end
           n == Len(b) - 1
           s == SubSeq(b, 1, n)
<1>1. /\ v \in Seq(Bytes) /\ Len(v) \in Nat
      /\ \A i \in 1 .. Len(v) : v[i] \notin {"nul", "cr", "nl"}
  BY JoinedBytes
<1>2. LineBytes([user |-> u, password |-> p, end |-> end]) = b
  BY DEF LineBytes, Joined
<1> HIDE DEF v
<1>3. end \in Seq(Bytes) /\ Len(end) \in {1, 2} /\ (Len(end) = 2 => end[1] = "cr")
  <2>1. CASE end = <<"nl">>
    BY <2>1 DEF Bytes
  <2>2. CASE end = <<"cr", "nl">>
    BY <2>2 DEF Bytes
  <2> QED BY <2>1, <2>2
<1>4. /\ b \in Seq(Bytes) /\ Len(b) = Len(v) + Len(end)
      /\ \A i \in 1 .. Len(v) + Len(end) : b[i] = IF i =< Len(v) THEN v[i] ELSE end[i - Len(v)]
  BY <1>1, <1>3, ConcatProperties
<1> HIDE DEF b
<1>5. n \in 0 .. Len(b) /\ n = Len(v) + Len(end) - 1
  <2>1. \A a \in Nat, e \in {1, 2} : a + e - 1 \in 0 .. a + e
    OBVIOUS
  <2>2. Len(v) + Len(end) - 1 \in 0 .. Len(v) + Len(end)
    BY <1>1, <1>3, <2>1
  <2> QED BY <1>4, <2>2
<1>6. s \in Seq(Bytes) /\ Len(s) = n /\ \A i \in 1 .. n : s[i] = b[i]
  BY <1>4, <1>5, FirstBytes
<1> HIDE DEF n, s
<1>7. CutAt(s, "cr", v)
  <2>1. Len(v) =< Len(s) /\ (Len(s) = Len(v) \/ Len(end) = 2)
    <3>1. Len(v) \in Nat /\ Len(s) = Len(v) + Len(end) - 1
      BY <1>1, <1>5, <1>6
    <3>2. CASE Len(end) = 1
      BY <3>1, <3>2
    <3>3. CASE Len(end) = 2
      BY <3>1, <3>3
    <3> QED BY <1>3, <3>2, <3>3
  <2>2. \A i \in 1 .. Len(v) : s[i] = v[i] /\ v[i] # "cr"
    <3>1. TAKE i \in 1 .. Len(v)
    <3>2. i \in 1 .. n /\ i \in 1 .. Len(v) + Len(end) /\ i =< Len(v)
      <4>1. Len(v) \in Nat /\ n = Len(v) + Len(end) - 1
        BY <1>1, <1>5
      <4>2. CASE Len(end) = 1
        BY <4>1, <4>2
      <4>3. CASE Len(end) = 2
        BY <4>1, <4>3
      <4> QED BY <1>3, <4>2, <4>3
    <3> QED BY <1>1, <1>4, <1>6, <3>2
  <2>3. Len(end) = 2 => s[Len(v) + 1] = "cr"
    BY <1>1, <1>3, <1>4, <1>5, <1>6
  <2> QED BY <1>1, <1>6, <2>1, <2>2, <2>3 DEF CutAt
<1>8. Upto(s, "cr") = v
  BY <1>7, UptoIs
<1> QED BY <1>2, <1>8 DEF Stripped, s, n, v

-----------------------------------------------------------------------------
(* The password that the line of the file is compared with.                *)
PasswordTaken == IF OutOfStep THEN <<>> ELSE typed[2]

(* What is in the input is the records written and not read, behind the    *)
(* newline that a long name may have left; what was read is what was typed *)
(* or, behind that newline, an empty password.                             *)
AtUser ==
  at = "user" => input = IF written = 0 THEN <<>>
                         ELSE IF written = 1 THEN Record(typed[1])
                         ELSE Record(typed[1]) \o Record(typed[2])

AtPassword ==
  at = "password" =>
    /\ written \in {1, 2}
    /\ input = Rest(typed[1]) \o IF written = 1 THEN <<>> ELSE Record(typed[2])

AtFile ==
  at = "file" =>
    /\ password = PasswordTaken /\ (OutOfStep \/ written = 2)
    /\ LinesWhole => \A i \in 1 .. lineno : file[i].user # typed[1]

AtExit ==
  at = "exited" =>
    \/ /\ OutOfStep \/ written = 2
       /\ LinesWhole => status = Verdict(typed[1], PasswordTaken)
    \/ status = 1 /\ written # 2 /\ closed

CheckTypes ==
  /\ source \in {"pipe", "terminal"} /\ typed \in Names \X Words
  /\ Typed(typed[1]) /\ Typed(typed[2])
  /\ file \in Passwords /\ lineno \in 0 .. Len(file)
  /\ written \in {0, 1, 2} /\ closed \in BOOLEAN
  /\ at \in {"user", "password", "file", "exited", "no file"}
  /\ LinesWhole => taken = 0
  /\ at \in {"user", "password"} => lineno = 0
  /\ at \in {"password", "file"} => userid = typed[1]

CheckInv == CheckTypes /\ AtUser /\ AtPassword /\ AtFile /\ AtExit

LEMMA CheckInitial == CheckInit => CheckInv
<1> SUFFICES ASSUME CheckInit PROVE CheckInv
  OBVIOUS
<1>1. typed[1] \in Names /\ typed[2] \in Words /\ typed \in Names \X Words
  BY DEF CheckInit
<1>2. /\ typed[1] \in Seq(Letters) /\ Len(typed[1]) =< Size
      /\ typed[2] \in Seq(Letters) /\ Len(typed[2]) =< Size
  BY <1>1, NamesAssumption, WordsAssumption, SeqMonotonic DEF NameLetters
<1>3. Typed(typed[1]) /\ Typed(typed[2])
  BY <1>2 DEF Typed, CheckInit
<1>4. file \in Passwords /\ lineno = 0 /\ Len(file) \in Nat
  BY PasswordsAssumption, LenProperties DEF CheckInit
<1>5. lineno \in 0 .. Len(file)
  BY <1>4
<1>6. /\ source \in {"pipe", "terminal"} /\ written = 0 /\ closed = FALSE /\ input = <<>>
      /\ at = "user" /\ lineno = 0 /\ taken = 0
  BY DEF CheckInit
<1> QED
  BY <1>1, <1>3, <1>4, <1>5, <1>6 DEF CheckInv, CheckTypes, AtUser, AtPassword, AtFile, AtExit

(* The file is a sequence of entries, one for each user; a whole line is   *)
(* one part, and loses its end only.                                       *)
LEMMA Entries ==
  ASSUME CheckInv
  PROVE  /\ Len(file) \in Nat /\ DOMAIN file = 1 .. Len(file)
         /\ typed[1] \in Seq(NameLetters) /\ typed[2] \in Seq(Letters)
         /\ PasswordTaken \in Seq(Letters)
         /\ \A i \in 1 .. Len(file) :
              /\ file[i].user \in Seq(NameLetters) /\ file[i].password \in Seq(Letters)
              /\ LineBytes(file[i]) \in Seq(Bytes)
              /\ LinesWhole => Stripped(LineBytes(file[i])) = Joined(file[i].user, file[i].password)
         /\ \A i, j \in 1 .. Len(file) : file[i].user = file[j].user => i = j
<1> DEFINE OneEntry == [user : Seq(NameLetters), password : Seq(Letters),
                     end : {<<>>, <<"nl">>, <<"cr", "nl">>}]
<1>1. file \in Seq(OneEntry) /\ \A i, j \in DOMAIN file : file[i].user = file[j].user => i = j
  BY PasswordsAssumption DEF CheckInv, CheckTypes
<1>2. typed[1] \in Seq(NameLetters) /\ typed[2] \in Seq(Letters) /\ PasswordTaken \in Seq(Letters)
  BY NamesAssumption, WordsAssumption, EmptySeq DEF CheckInv, CheckTypes, PasswordTaken
<1>3. ASSUME NEW e \in OneEntry
      PROVE  /\ e.user \in Seq(NameLetters) /\ e.password \in Seq(Letters)
             /\ LineBytes(e) \in Seq(Bytes)
             /\ e.end # <<>> => Stripped(LineBytes(e)) = Joined(e.user, e.password)
  <2>1. /\ e.user \in Seq(NameLetters) /\ e.password \in Seq(Letters)
        /\ e.end \in {<<>>, <<"nl">>, <<"cr", "nl">>}
        /\ e = [user |-> e.user, password |-> e.password, end |-> e.end]
    OBVIOUS
  <2>2. Joined(e.user, e.password) \in Seq(Bytes) /\ e.end \in Seq(Bytes)
    <3>1. <<>> \in Seq(Bytes) /\ <<"nl">> \in Seq(Bytes) /\ <<"cr", "nl">> \in Seq(Bytes)
      BY EmptySeq DEF Bytes
    <3> QED BY <2>1, <3>1, JoinedBytes
  <2>3. Joined(e.user, e.password) \o e.end \in Seq(Bytes)
    BY <2>2, ConcatProperties
  <2> QED BY <2>1, <2>3, LineOfEntry DEF LineBytes, Joined
<1> HIDE DEF OneEntry
<1>4. Len(file) \in Nat /\ DOMAIN file = 1 .. Len(file) /\ \A i \in 1 .. Len(file) : file[i] \in OneEntry
  BY <1>1, LenProperties, ElementOfSeq
<1> QED BY <1>1, <1>2, <1>3, <1>4 DEF LinesWhole

(* A whole line is returned at once.                                       *)
LEMMA WholePart ==
  ASSUME CheckInv, LinesWhole, lineno < Len(file)
  PROVE  Part = LineBytes(file[lineno + 1]) /\ PartEnd = Len(LineBytes(file[lineno + 1]))
<1> DEFINE b == LineBytes(file[lineno + 1])
<1>1. lineno + 1 \in 1 .. Len(file) /\ DOMAIN file = 1 .. Len(file)
  <2>1. Len(file) \in Nat /\ DOMAIN file = 1 .. Len(file)
    BY Entries
  <2>2. lineno \in 0 .. Len(file)
    BY DEF CheckInv, CheckTypes
  <2> QED BY <2>1, <2>2
<1>2. b \in Seq(Bytes) /\ Len(b) \in Nat /\ Len(b) < MaxLine /\ taken = 0
  BY <1>1, Entries, LenProperties DEF CheckInv, CheckTypes, LinesWhole
<1>3. PartEnd = Len(b)
  <2>1. Len(b) - taken < MaxLine
    BY <1>2
  <2> QED BY <2>1 DEF PartEnd
<1> HIDE DEF b
<1>4. SubSeq(b, 1, Len(b)) = b
  <2>1. Len(b) \in 0 .. Len(b)
    BY <1>2
  <2>2. /\ SubSeq(b, 1, Len(b)) \in Seq(Bytes) /\ Len(SubSeq(b, 1, Len(b))) = Len(b)
        /\ \A i \in 1 .. Len(b) : SubSeq(b, 1, Len(b))[i] = b[i]
    BY <1>2, <2>1, FirstBytes
  <2> QED BY <1>2, <2>2, SeqEqual
<1>5. Part = SubSeq(b, 1, Len(b))
  BY <1>2, <1>3 DEF Part, b
<1> QED BY <1>3, <1>4, <1>5 DEF b

LEMMA RecordNotEmpty ==
  ASSUME source \in {"pipe", "terminal"}, NEW w, Typed(w)
  PROVE  Record(w) # <<>> /\ Record(w) \in Seq(Bytes)
<1>1. /\ Record(w) \in Seq(Bytes) /\ Len(w) \in Nat
      /\ Len(Record(w)) = IF source = "terminal" THEN Len(w) + 1 ELSE Size
  BY RecordString
<1>2. Len(Record(w)) # 0
  BY <1>1, SizeAssumption
<1> QED BY <1>1, <1>2

(* A step that leaves the pair and the line alone keeps the types.         *)
LEMMA TypesKept ==
  ASSUME CheckTypes, UNCHANGED <<source, typed, lineno, taken, file>>,
         written' \in {0, 1, 2}, closed' \in BOOLEAN,
         at' \in {"user", "password", "file", "exited", "no file"},
         at' \in {"user", "password"} => at \in {"user", "password"},
         at' \in {"password", "file"} => userid' = typed[1]
  PROVE  CheckTypes'
<1>1. Typed(typed[1])' /\ Typed(typed[2])'
  BY DEF CheckTypes, Typed
<1>2. (LinesWhole => taken = 0)'
  BY DEF CheckTypes, LinesWhole, LineBytes
<1>3. /\ (source \in {"pipe", "terminal"} /\ typed \in Names \X Words)'
      /\ (file \in Passwords /\ lineno \in 0 .. Len(file))'
  BY DEF CheckTypes
<1>4. /\ (at \in {"user", "password"} => lineno = 0)'
      /\ (at \in {"password", "file"} => userid = typed[1])'
  BY DEF CheckTypes
<1> QED BY <1>1, <1>2, <1>3, <1>4 DEF CheckTypes

LEMMA CheckInductive == CheckInv /\ [CheckNext]_checkVars => CheckInv'
<1> SUFFICES ASSUME CheckInv, [CheckNext]_checkVars PROVE CheckInv'
  OBVIOUS
<1>1. /\ source \in {"pipe", "terminal"} /\ Typed(typed[1]) /\ Typed(typed[2])
      /\ written \in {0, 1, 2} /\ lineno \in 0 .. Len(file)
  BY DEF CheckInv, CheckTypes
<1>2. /\ Record(typed[1]) # <<>> /\ Record(typed[1]) \in Seq(Bytes)
      /\ Record(typed[2]) # <<>> /\ Record(typed[2]) \in Seq(Bytes)
  BY <1>1, RecordNotEmpty
<1>3. ASSUME source' = source, typed' = typed, file' = file
      PROVE  /\ Typed(typed[1])' /\ Typed(typed[2])'
             /\ Record(typed[1])' = Record(typed[1]) /\ Record(typed[2])' = Record(typed[2])
             /\ Rest(typed[1])' = Rest(typed[1])
             /\ OutOfStep' = OutOfStep /\ PasswordTaken' = PasswordTaken
             /\ LinesWhole' = LinesWhole
             /\ Verdict(typed[1], PasswordTaken)' = Verdict(typed[1], PasswordTaken)
  <2>1. /\ Typed(typed[1])' /\ Typed(typed[2])'
        /\ Record(typed[1])' = Record(typed[1]) /\ Record(typed[2])' = Record(typed[2])
        /\ Record(<<>>)' = Record(<<>>)
    BY <1>1, <1>3 DEF Record, Typed
  <2>2. OutOfStep' = OutOfStep /\ LinesWhole' = LinesWhole
    BY <1>3 DEF OutOfStep, LinesWhole, LineBytes
  <2>3. Rest(typed[1])' = Rest(typed[1])
    BY <1>3, <2>1 DEF Rest
  <2>4. PasswordTaken' = PasswordTaken
    BY <1>3, <2>2 DEF PasswordTaken
  <2> HIDE DEF PasswordTaken
  <2> QED BY <1>3, <2>1, <2>2, <2>3, <2>4 DEF Verdict
<1>0. Rest(typed[1]) \in Seq(Bytes)
  BY <1>1, EmptyWord, EmptySeq DEF Rest
<1>4. CASE WriteRecord
  <2>1. /\ written < 2 /\ ~closed /\ written' = written + 1
        /\ input' = input \o Record(typed[written + 1])
        /\ UNCHANGED <<source, typed, closed, at, userid, password, lineno, taken, file, status>>
    BY <1>4 DEF WriteRecord, buffers
  <2> DEFINE r1 == Record(typed[1])
             r2 == Record(typed[2])
             x  == Rest(typed[1])
  <2>2. r1' = r1 /\ r2' = r2 /\ x' = x
    BY <1>3, <2>1
  <2>3. /\ r1 \in Seq(Bytes) /\ r2 \in Seq(Bytes) /\ x \in Seq(Bytes)
        /\ <<>> \o r1 = r1 /\ x \o <<>> = x
    BY <1>0, <1>2, ConcatEmptySeq
  <2>4. /\ at = "user" => input = IF written = 0 THEN <<>> ELSE IF written = 1 THEN r1 ELSE r1 \o r2
        /\ at = "password" => written \in {1, 2} /\ input = x \o IF written = 1 THEN <<>> ELSE r2
    BY DEF CheckInv, AtUser, AtPassword
  <2>5. \/ written = 0 /\ written' = 1 /\ input' = input \o r1
        \/ written = 1 /\ written' = 2 /\ input' = input \o r2
    <3>1. written = 0 \/ written = 1
      BY <1>1, <2>1
    <3>2. CASE written = 0
      BY <2>1, <3>2
    <3>3. CASE written = 1
      BY <2>1, <3>3
    <3> QED BY <3>1, <3>2, <3>3
  <2> HIDE DEF r1, r2, x
  <2>6. at = "user" => input' = IF written' = 0 THEN <<>> ELSE IF written' = 1 THEN r1 ELSE r1 \o r2
    <3>1. CASE written = 0
      <4>1. written' = 1 /\ input' = input \o r1
        BY <2>5, <3>1
      <4>2. at = "user" => input = <<>>
        BY <2>4, <3>1
      <4>3. at = "user" => input' = r1
        BY <2>3, <4>1, <4>2
      <4> QED BY <4>1, <4>3
    <3>2. CASE written = 1
      BY <2>4, <2>5, <3>2
    <3> QED BY <2>5, <3>1, <3>2
  <2>7. at = "password" => input' = x \o IF written' = 1 THEN <<>> ELSE r2
    <3>1. SUFFICES ASSUME at = "password" PROVE input' = x \o IF written' = 1 THEN <<>> ELSE r2
      OBVIOUS
    <3>2. written = 1 /\ input = x
      BY <2>3, <2>4, <2>5, <3>1
    <3>3. written' = 2 /\ input' = input \o r2
      BY <2>5, <3>2
    <3> QED BY <3>2, <3>3
  <2>8. AtUser'
    BY <2>1, <2>2, <2>6 DEF r1, r2, AtUser
  <2>9. AtPassword'
    BY <2>1, <2>2, <2>5, <2>7 DEF r2, x, AtPassword
  <2>10. written \in {0, 1} /\ written' \in {0, 1, 2} /\ ~closed
    BY <2>1, <2>5
  <2>11. (at = "file" => OutOfStep) /\ AtFile
    BY <2>10 DEF CheckInv, AtFile
  <2>12. AtFile'
    BY <1>3, <2>1, <2>11 DEF AtFile
  <2>13. at = "exited" => OutOfStep /\ (LinesWhole => status = Verdict(typed[1], PasswordTaken))
    BY <2>10 DEF CheckInv, AtExit
  <2>14. AtExit'
    BY <1>3, <2>1, <2>13 DEF AtExit
  <2>15. CheckTypes'
    <3>1. /\ CheckTypes /\ closed' \in BOOLEAN
          /\ at' \in {"user", "password", "file", "exited", "no file"}
          /\ at' \in {"password", "file"} => userid' = typed[1]
      BY <2>1 DEF CheckInv, CheckTypes
    <3> QED BY <2>1, <2>10, <3>1, TypesKept
  <2> QED BY <2>8, <2>9, <2>12, <2>14, <2>15 DEF CheckInv
<1>5. CASE CloseInput
  <2>1. /\ ~closed /\ closed' = TRUE
        /\ UNCHANGED <<source, typed, written, input, at, userid, password, lineno, taken, file, status>>
    BY <1>5 DEF CloseInput, buffers
  <2>2. CheckTypes'
    <3>1. /\ CheckTypes /\ written' \in {0, 1, 2} /\ closed' \in BOOLEAN
          /\ at' \in {"user", "password", "file", "exited", "no file"}
          /\ at' \in {"password", "file"} => userid' = typed[1]
      BY <2>1 DEF CheckInv, CheckTypes
    <3> QED BY <2>1, <3>1, TypesKept
  <2>3. AtUser' /\ AtPassword'
    BY <1>3, <2>1 DEF CheckInv, AtUser, AtPassword
  <2>4. AtFile'
    BY <1>3, <2>1 DEF CheckInv, AtFile
  <2>5. AtExit'
    BY <1>3, <2>1 DEF CheckInv, AtExit
  <2> QED BY <2>2, <2>3, <2>4, <2>5 DEF CheckInv
<1>6. CASE \E from \in {"user", "password"} : ReadFails(from)
  <2>1. /\ at \in {"user", "password"} /\ input = <<>> /\ closed /\ at' = "exited" /\ status' = 1
        /\ UNCHANGED <<source, typed, written, closed, lineno, taken, file>>
    BY <1>6 DEF ReadFails, Exit, writerVars
  <2>2. written # 2
    <3>1. CASE at = "user"
      <4>1. Record(typed[1]) \o Record(typed[2]) # <<>>
        BY <1>2, ConcatEqualIffEmpty
      <4>2. input = IF written = 0 THEN <<>> ELSE IF written = 1 THEN Record(typed[1])
                    ELSE Record(typed[1]) \o Record(typed[2])
        BY <3>1 DEF CheckInv, AtUser
      <4>3. SUFFICES ASSUME written = 2 PROVE FALSE
        OBVIOUS
      <4>4. input = Record(typed[1]) \o Record(typed[2])
        BY <4>2, <4>3
      <4> QED BY <2>1, <4>1, <4>4
    <3>2. CASE at = "password"
      <4>1. SUFFICES ASSUME written = 2 PROVE FALSE
        OBVIOUS
      <4>2. input = Rest(typed[1]) \o Record(typed[2])
        BY <3>2, <4>1 DEF CheckInv, AtPassword
      <4>3. Rest(typed[1]) \o Record(typed[2]) # <<>>
        BY <1>0, <1>2, ConcatEqualIffEmpty
      <4> QED BY <2>1, <4>2, <4>3
    <3> QED BY <2>1, <3>1, <3>2
  <2>3. CheckTypes'
    <3>1. CheckTypes /\ written' \in {0, 1, 2} /\ closed' \in BOOLEAN
      BY <2>1 DEF CheckInv, CheckTypes
    <3> QED BY <2>1, <3>1, TypesKept
  <2>4. AtExit'
    BY <1>3, <2>1, <2>2 DEF AtExit
  <2> QED BY <2>1, <2>3, <2>4 DEF CheckInv, AtUser, AtPassword, AtFile
<1>7. CASE ReadUser
  <2>1. /\ at = "user" /\ input # <<>> /\ at' = "password"
        /\ userid' = UserString(SubSeq(input, 1, BytesThere))
        /\ input' = SubSeq(input, BytesThere + 1, Len(input))
        /\ UNCHANGED <<source, typed, written, closed, lineno, taken, file, status>>
    BY <1>7 DEF ReadUser, writerVars
  <2> DEFINE t == IF written = 1 THEN <<>> ELSE Record(typed[2])
  <2>2. t \in Seq(Bytes) /\ written \in {1, 2} /\ input = Record(typed[1]) \o t
    <3>1. written \in {1, 2} /\ t \in Seq(Bytes)
      BY <1>1, <1>2, <2>1, EmptySeq DEF CheckInv, AtUser
    <3>2. Record(typed[1]) \o <<>> = Record(typed[1])
      BY <1>2, ConcatEmptySeq
    <3> QED BY <2>1, <3>1, <3>2 DEF CheckInv, AtUser
  <2> HIDE DEF t
  <2>3. userid' = typed[1] /\ input' = Rest(typed[1]) \o t
    BY <1>1, <2>1, <2>2, ReadString
  <2>4. AtPassword'
    BY <1>3, <2>1, <2>2, <2>3 DEF t, AtPassword
  <2>5. CheckTypes'
    BY <1>1, <1>3, <2>1, <2>3 DEF CheckInv, CheckTypes
  <2> QED BY <2>1, <2>4, <2>5 DEF CheckInv, AtUser, AtFile, AtExit
<1>8. CASE ReadPassword
  <2>1. /\ at = "password" /\ input # <<>> /\ at' = "file"
        /\ password' = PasswordString(SubSeq(input, 1, BytesThere))
        /\ UNCHANGED <<source, typed, written, closed, userid, lineno, taken, file, status>>
    BY <1>8 DEF ReadPassword, writerVars
  <2> DEFINE t == IF written = 1 THEN <<>> ELSE Record(typed[2])
           string == PasswordString(SubSeq(input, 1, BytesThere))
  <2>2. written \in {1, 2} /\ input = Rest(typed[1]) \o t
    BY <2>1 DEF CheckInv, AtPassword
  <2>3. t \in Seq(Bytes) /\ (t # <<>> => written # 1 /\ t = Record(typed[2]))
    BY <1>2, EmptySeq
  <2> HIDE DEF t
  <2>4. ASSUME OutOfStep PROVE string = PasswordTaken
    <3>1. source = "terminal" /\ Rest(typed[1]) = Record(<<>>) /\ Typed(<<>>)
      BY <2>4, EmptyWord DEF OutOfStep, Rest
    <3>2. input = Record(<<>>) \o t
      BY <2>2, <3>1
    <3>3. string = <<>>
      BY <2>3, <3>1, <3>2, ReadString
    <3> QED BY <2>4, <3>3 DEF PasswordTaken
  <2>5. ASSUME ~OutOfStep PROVE string = PasswordTaken /\ written = 2
    <3>1. Rest(typed[1]) = <<>>
      BY <2>5 DEF OutOfStep, Rest
    <3>2. input = t
      BY <2>2, <2>3, <3>1, ConcatEmptySeq
    <3>3. written = 2 /\ t = Record(typed[2])
      BY <2>1, <2>2, <2>3, <3>2
    <3>4. <<>> \in Seq(Bytes) /\ input = Record(typed[2]) \o <<>>
      BY <1>2, <3>2, <3>3, ConcatEmptySeq, EmptySeq
    <3>5. string = typed[2]
      BY <1>1, <3>4, ReadString
    <3> QED BY <2>5, <3>3, <3>5 DEF PasswordTaken
  <2>6. password' = string
    BY <2>1
  <2> HIDE DEF string
  <2>7. password' = PasswordTaken /\ (OutOfStep \/ written = 2)
    BY <2>4, <2>5, <2>6
  <2>8. lineno = 0
    BY <2>1 DEF CheckInv, CheckTypes
  <2>9. AtFile'
    BY <1>3, <2>1, <2>7, <2>8 DEF AtFile
  <2>10. CheckTypes'
    BY <1>1, <1>3, <2>1 DEF CheckInv, CheckTypes
  <2> QED BY <2>1, <2>9, <2>10 DEF CheckInv, AtUser, AtPassword, AtExit
<1>9. CASE CompareLine
  <2> DEFINE e    == file[lineno + 1]
             line == Stripped(Part)
             u    == typed[1]
             p    == PasswordTaken
  <2>1. /\ at = "file" /\ lineno < Len(file)
        /\ IF PartEnd = Len(LineBytes(e)) THEN lineno' = lineno + 1 /\ taken' = 0
           ELSE taken' = PartEnd /\ lineno' = lineno
        /\ UNCHANGED <<source, typed, written, closed, input, userid, password, file>>
        /\ IF line = userid \o <<":">> \o password THEN at' = "exited" /\ status' = 0
           ELSE IF StartsWith(line, userid \o <<":">>) THEN at' = "exited" /\ status' = 2
           ELSE UNCHANGED <<at, status>>
    BY <1>9 DEF CompareLine, Exit, UserPart, writerVars, buffers
  <2>2. userid = u /\ password = p /\ (OutOfStep \/ written = 2)
    BY <2>1 DEF CheckInv, CheckTypes, AtFile
  <2>3. lineno + 1 \in 1 .. Len(file) /\ DOMAIN file = 1 .. Len(file) /\ lineno' \in 0 .. Len(file)
    <3>1. Len(file) \in Nat /\ DOMAIN file = 1 .. Len(file)
      BY Entries
    <3> QED BY <1>1, <2>1, <3>1
  <2>4. at' \in {"file", "exited"}
    BY <2>1
  <2>5. CASE ~LinesWhole
    <3>1. ~LinesWhole'
      BY <1>3, <2>1, <2>5
    <3> HIDE DEF e, line, u, p
    <3>2. AtFile'
      BY <1>3, <2>1, <2>2, <3>1 DEF p, AtFile
    <3>3. AtExit'
      BY <1>3, <2>1, <2>2, <3>1 DEF AtExit
    <3>4. userid' = typed'[1] /\ typed' = typed
      BY <2>1, <2>2 DEF u
    <3>5. CheckTypes'
      BY <1>1, <1>3, <2>1, <2>3, <2>4, <3>1, <3>4 DEF CheckInv, CheckTypes
    <3> QED BY <2>4, <3>2, <3>3, <3>5 DEF CheckInv, AtUser, AtPassword
  <2>6. CASE LinesWhole
    <3>1. lineno' = lineno + 1 /\ taken' = 0 /\ Part = LineBytes(e)
      BY <2>1, <2>6, WholePart
    <3>2. \A i \in 1 .. lineno : file[i].user # u
      BY <2>1, <2>6 DEF CheckInv, AtFile
    <3>3. /\ u \in Seq(NameLetters) /\ p \in Seq(Letters)
          /\ e.user \in Seq(NameLetters) /\ e.password \in Seq(Letters)
          /\ line = Joined(e.user, e.password)
          /\ \A i \in 1 .. Len(file) : file[i].user = e.user => i = lineno + 1
      BY <2>3, <2>6, <3>1, Entries
    <3> HIDE DEF e, line, u, p
    <3>4. line = Joined(u, p) <=> u = e.user /\ p = e.password
      BY <3>3, PairOfLine
    <3>5. StartsWith(line, u \o <<":">>) <=> u = e.user
      BY <3>3, NameOfLine
    <3>6. ASSUME u = e.user
          PROVE  at' = "exited" /\ status' = Verdict(u, p)
      <4>1. CASE p = e.password
        <5>1. at' = "exited" /\ status' = 0
          BY <2>1, <2>2, <3>4, <3>6, <4>1 DEF Joined
        <5>2. file[lineno + 1].user = u /\ file[lineno + 1].password = p
          BY <3>6, <4>1 DEF e
        <5> QED BY <2>3, <5>1, <5>2 DEF Verdict
      <4>2. CASE p # e.password
        <5>1. at' = "exited" /\ status' = 2
          BY <2>1, <2>2, <3>4, <3>5, <3>6, <4>2 DEF Joined
        <5>2. \A i \in DOMAIN file : file[i].user = u => file[i] = e
          BY <2>3, <3>3, <3>6 DEF e
        <5>3. ~ \E i \in DOMAIN file : file[i].user = u /\ file[i].password = p
          BY <4>2, <5>2
        <5>4. file[lineno + 1].user = u
          BY <3>6 DEF e
        <5> QED BY <2>3, <5>1, <5>3, <5>4 DEF Verdict
      <4> QED BY <4>1, <4>2
    <3>7. ASSUME u # e.user
          PROVE  /\ UNCHANGED <<at, status>>
                 /\ \A i \in 1 .. lineno + 1 : file[i].user # u
      <4>1. UNCHANGED <<at, status>>
        BY <2>1, <2>2, <3>4, <3>5, <3>7 DEF Joined
      <4>2. \A i \in 1 .. lineno + 1 : i \in 1 .. lineno \/ i = lineno + 1
        BY <1>1
      <4> QED BY <3>2, <3>7, <4>1, <4>2 DEF e
    <3>8. userid' = typed'[1] /\ typed' = typed /\ taken' = 0 /\ (OutOfStep \/ written = 2)'
      BY <1>3, <2>1, <2>2, <3>1 DEF u
    <3>9. CheckTypes'
      BY <1>1, <1>3, <2>1, <2>3, <2>4, <3>8 DEF CheckInv, CheckTypes
    <3>10. CASE u = e.user
      <4>1. at' = "exited" /\ status' = Verdict(typed[1], PasswordTaken)'
        BY <1>3, <2>1, <3>6, <3>10 DEF u, p
      <4>2. AtExit'
        BY <3>8, <4>1 DEF AtExit
      <4> QED BY <3>9, <4>1, <4>2 DEF CheckInv, AtUser, AtPassword, AtFile
    <3>11. CASE u # e.user
      <4>1. at' = "file" /\ \A i \in 1 .. lineno' : file'[i].user # typed'[1]
        BY <2>1, <3>1, <3>7, <3>11 DEF u
      <4>2. password' = PasswordTaken'
        BY <1>3, <2>1, <2>2 DEF p
      <4>3. AtFile'
        BY <3>8, <4>1, <4>2 DEF AtFile
      <4> QED BY <3>9, <4>1, <4>3 DEF CheckInv, AtUser, AtPassword, AtExit
    <3> QED BY <3>10, <3>11
  <2> QED BY <2>5, <2>6
<1>10. CASE NoSuchUser
  <2>1. /\ at = "file" /\ lineno = Len(file) /\ at' = "exited" /\ status' = 3
        /\ UNCHANGED <<source, typed, written, closed, input, lineno, taken, file>>
    BY <1>10 DEF NoSuchUser, Exit, writerVars
  <2>2. /\ OutOfStep \/ written = 2
        /\ LinesWhole => taken = 0 /\ \A i \in DOMAIN file : file[i].user # typed[1]
    <3>1. DOMAIN file = 1 .. Len(file)
      BY Entries
    <3> QED BY <2>1, <3>1 DEF CheckInv, CheckTypes, AtFile
  <2>3. LinesWhole => status' = Verdict(typed[1], PasswordTaken)
    BY <2>1, <2>2 DEF Verdict
  <2>4. AtExit'
    BY <1>3, <2>1, <2>2, <2>3 DEF AtExit
  <2>5. CheckTypes'
    <3>1. CheckTypes /\ written' \in {0, 1, 2} /\ closed' \in BOOLEAN
      BY <2>1 DEF CheckInv, CheckTypes
    <3> QED BY <2>1, <3>1, TypesKept
  <2> QED BY <2>1, <2>4, <2>5 DEF CheckInv, AtUser, AtPassword, AtFile
<1>11. CASE NoFile
  <2>1. /\ at' = "no file"
        /\ UNCHANGED <<source, typed, written, closed, input, lineno, taken, file>>
    BY <1>11 DEF NoFile, writerVars
  <2>2. CheckTypes'
    <3>1. CheckTypes /\ written' \in {0, 1, 2} /\ closed' \in BOOLEAN
      BY <2>1 DEF CheckInv, CheckTypes
    <3> QED BY <2>1, <3>1, TypesKept
  <2> QED BY <2>1, <2>2 DEF CheckInv, AtUser, AtPassword, AtFile, AtExit
<1>12. CASE UNCHANGED checkVars
  <2>1. UNCHANGED <<source, typed, written, closed, input, at, userid, password, lineno, taken, file, status>>
    BY <1>12 DEF checkVars, writerVars, buffers
  <2>2. CheckTypes'
    <3>1. /\ CheckTypes /\ written' \in {0, 1, 2} /\ closed' \in BOOLEAN
          /\ at' \in {"user", "password", "file", "exited", "no file"}
          /\ at' \in {"password", "file"} => userid' = typed[1]
      BY <2>1 DEF CheckInv, CheckTypes
    <3> QED BY <2>1, <3>1, TypesKept
  <2>3. AtUser' /\ AtPassword'
    BY <1>3, <2>1 DEF CheckInv, AtUser, AtPassword
  <2>4. AtFile'
    BY <1>3, <2>1 DEF CheckInv, AtFile
  <2>5. AtExit'
    BY <1>3, <2>1 DEF CheckInv, AtExit
  <2> QED BY <2>2, <2>3, <2>4, <2>5 DEF CheckInv
<1> QED
  BY <1>4, <1>5, <1>6, <1>7, <1>8, <1>9, <1>10, <1>11, <1>12 DEF CheckNext, Writer, Main

(* The inductive invariant of the two programs at the pipe.                *)
THEOREM CheckInvariantCorrect == CheckSpec => []CheckInv
BY CheckInitial, CheckInductive, PTL DEF CheckSpec

(* The exit status is the verdict on what was typed, for every password    *)
(* file of whole lines, every name and password of MAX_PASSWORD letters at *)
(* most, from a pipe or a terminal, and every interleaving of the writes,  *)
(* the reads and the close; of a name as long as MAX_PASSWORD typed at a   *)
(* terminal it is the verdict on an empty password.                        *)
THEOREM VerdictCorrect == CheckSpec => []VerdictRight
<1>1. CheckInv => VerdictRight
  BY DEF CheckInv, CheckTypes, AtExit, VerdictRight, PasswordTaken
<1> QED BY <1>1, CheckInvariantCorrect, PTL

-----------------------------------------------------------------------------
(* LineServer: the lines of the streams.                                   *)

(* The bytes of the streams, and those of c's stream from place m + 1 to n. *)
Chars == UNION {{Stream(c)[i] : i \in 1 .. Total(c)} : c \in Clients}
Piece(c, m, n) == SubSeq(Stream(c), m + 1, n)

(* Bytes of c that have been read, and those of them in printed lines.     *)
Got(c) == sent[c] - Len(wire[c])
Done   == Got(clientfd) - inbuf

NoEnd(c, m, n) == \A e \in Ends(Stream(c)) : ~(m < e /\ e =< n)
EndsListed(s)  == \A k \in 1 .. Cardinality(Ends(s)) : LineEnd(s, k) \in Ends(s)

LineTypes ==
  /\ step \in {"accept", "read", "scan"} /\ inbuf \in 0 .. BufSize
  /\ conn \in [Clients -> {"none", "queued", "open", "closed"}]
  /\ client \in [Clients -> {"new", "writing", "done", "killed"}]
  /\ sent \in [Clients -> Nat]
  /\ wire \in [Clients -> Seq(Chars)]
  /\ printed \in [Clients -> Seq(Seq(Chars))]

(* TCP: what is on the wire is what was sent and not read, in order.       *)
WireInv(c) ==
  /\ sent[c] \in 0 .. Total(c) /\ Got(c) \in 0 .. sent[c]
  /\ wire[c] = Piece(c, Got(c), sent[c])

ConnInv(c) ==
  /\ conn[c] = "none" <=> client[c] = "new"
  /\ client[c] = "killed" => conn[c] = "closed"
  /\ client[c] = "done" => sent[c] = Total(c)
  /\ conn[c] \in {"none", "queued"} => Got(c) = 0 /\ printed[c] = <<>>
  /\ conn[c] = "closed" =>
       /\ wire[c] = <<>>
       /\ LinesFit(c) => client[c] = "done" /\ printed[c] = Lines(Stream(c))

(* The buffer holds the bytes read since the end of the last printed line; *)
(* in read() no newline ends among them.                                   *)
BufferInv ==
  step # "accept" =>
    /\ clientfd \in Clients /\ conn[clientfd] = "open"
    /\ Done \in {0} \cup Ends(Stream(clientfd))
    /\ \A i \in 0 .. inbuf - 1 : buf[i] = Stream(clientfd)[Done + i + 1]
    /\ printed[clientfd] = Lines(Piece(clientfd, 0, Done))
    /\ EndsListed(Piece(clientfd, 0, Done))
    /\ step = "read" => NoEnd(clientfd, Done, Got(clientfd))

LineInv ==
  /\ LineTypes /\ BufferInv
  /\ \A c \in Clients : WireInv(c) /\ ConnInv(c)

-----------------------------------------------------------------------------
LEMMA EndsOfFirst ==
  ASSUME NEW S, NEW s \in Seq(S), NEW n \in 0 .. Len(s)
  PROVE  /\ Ends(SubSeq(s, 1, n)) = {d \in Ends(s) : d =< n}
         /\ IsFiniteSet(Ends(SubSeq(s, 1, n)))
         /\ \A d \in Ends(s) : d \in 2 .. Len(s)
<1>1. Len(s) \in Nat /\ n \in Nat /\ n =< Len(s)
  BY LenProperties
<1>2. Len(SubSeq(s, 1, n)) = n /\ \A i \in 1 .. n : SubSeq(s, 1, n)[i] = s[i]
  BY FirstBytes
<1> DEFINE t == SubSeq(s, 1, n)
<1> HIDE DEF t
<1>3. Len(t) = n /\ \A i \in 1 .. n : t[i] = s[i]
  BY <1>2 DEF t
<1>4. Ends(t) = {d \in Ends(s) : d =< n}
  <2>1. \A d \in 2 .. n : d \in 2 .. Len(s) /\ t[d - 1] = s[d - 1] /\ t[d] = s[d]
    BY <1>1, <1>3
  <2>2. \A d \in 2 .. Len(s) : d =< n => d \in 2 .. n
    BY <1>1
  <2>3. \A d \in 2 .. n : d =< n
    BY <1>1
  <2> QED BY <1>3, <2>1, <2>2, <2>3 DEF Ends
<1>5. IsFiniteSet(2 .. n)
  BY <1>1, FS_Interval
<1>6. Ends(t) \in SUBSET (2 .. n)
  BY <1>3 DEF Ends
<1>7. IsFiniteSet(Ends(t))
  BY <1>5, <1>6, FS_Subset
<1>8. \A d \in Ends(s) : d \in 2 .. Len(s)
  BY DEF Ends
<1> QED BY <1>4, <1>7, <1>8 DEF t

LEMMA LinesType ==
  ASSUME NEW S, NEW s \in Seq(S), IsFiniteSet(Ends(s)), EndsListed(s)
  PROVE  /\ Lines(s) \in Seq(Seq(S)) /\ Len(Lines(s)) = Cardinality(Ends(s))
         /\ Cardinality(Ends(s)) \in Nat
<1> DEFINE n == Cardinality(Ends(s))
           from(k) == IF k = 1 THEN 1 ELSE LineEnd(s, k - 1) + 1
<1>1. n \in Nat /\ Len(s) \in Nat
  BY FS_CardinalityType, LenProperties
<1>2. \A k \in 1 .. n : LineEnd(s, k) \in 2 .. Len(s)
  BY DEF EndsListed, Ends
<1>3. ASSUME NEW k \in 1 .. n PROVE SubSeq(s, from(k), LineEnd(s, k) - 2) \in Seq(S)
  <2>1. from(k) \in Nat \ {0}
    <3>1. CASE k = 1
      BY <3>1
    <3>2. CASE k # 1
      <4>1. k - 1 \in 1 .. n
        BY <1>1, <3>2
      <4> QED BY <1>1, <1>2, <3>2, <4>1
    <3> QED BY <3>1, <3>2
  <2> DEFINE a == from(k)
             b == LineEnd(s, k) - 2
  <2>2. b \in Int /\ b =< Len(s)
    BY <1>1, <1>2
  <2> HIDE DEF a, b, from
  <2>3. a \in Int /\ \A i \in a .. b : i \in 1 .. Len(s)
    BY <1>1, <2>1, <2>2 DEF a
  <2>4. \A i \in a .. b : s[i] \in S
    BY <2>3, ElementOfSeq
  <2>5. SubSeq(s, a, b) \in Seq(S)
    BY <2>2, <2>3, <2>4, SubSeqProperties
  <2> QED BY <2>5 DEF a, b
<1>4. Lines(s) = [k \in 1 .. n |-> SubSeq(s, from(k), LineEnd(s, k) - 2)]
  BY DEF Lines
<1> HIDE DEF n, from
<1>5. Lines(s) \in [1 .. n -> Seq(S)]
  BY <1>3, <1>4
<1>6. Lines(s) \in Seq(Seq(S)) /\ Len(Lines(s)) = n
  BY <1>1, <1>5
<1> QED BY <1>1, <1>6 DEF n

(* p begins the stream or ends a line of it.                               *)
LineStart(s, p) == p \in {0} \cup Ends(s) /\ p \in 0 .. Len(s) /\ EndsListed(SubSeq(s, 1, p))

(* Bytes behind the last newline do not make a line.                       *)
LEMMA LinesSame ==
  ASSUME NEW S, NEW s \in Seq(S), NEW p, LineStart(s, p), NEW n \in p .. Len(s),
         \A e \in Ends(s) : ~(p < e /\ e =< n)
  PROVE  Lines(SubSeq(s, 1, n)) = Lines(SubSeq(s, 1, p))
<1> DEFINE P == SubSeq(s, 1, p)
           N == SubSeq(s, 1, n)
<1>1. Len(s) \in Nat /\ p \in 0 .. Len(s) /\ n \in 0 .. Len(s) /\ p =< n
  BY LenProperties DEF LineStart
<1>2. /\ Ends(P) = {d \in Ends(s) : d =< p} /\ IsFiniteSet(Ends(P))
      /\ \A d \in Ends(s) : d \in 2 .. Len(s)
  BY <1>1, EndsOfFirst
<1>3. Ends(N) = {d \in Ends(s) : d =< n}
  BY <1>1, EndsOfFirst
<1>4. Ends(N) = Ends(P)
  <2>1. \A d \in Ends(s) : d =< n <=> d =< p
    BY <1>1, <1>2
  <2> QED BY <1>2, <1>3, <2>1
<1>5. EndsListed(P)
  BY DEF LineStart
<1>6. \A k : LineEnd(N, k) = LineEnd(P, k)
  BY <1>4 DEF LineEnd
<1> DEFINE from(k) == IF k = 1 THEN 1 ELSE LineEnd(P, k - 1) + 1
<1>7. ASSUME NEW k \in 1 .. Cardinality(Ends(P))
      PROVE  SubSeq(N, from(k), LineEnd(P, k) - 2) = SubSeq(P, from(k), LineEnd(P, k) - 2)
  <2>1. from(k) \in Nat \ {0} /\ LineEnd(P, k) - 2 \in Int /\ LineEnd(P, k) - 2 =< p
    <3>1. Cardinality(Ends(P)) \in Nat
      BY <1>2, FS_CardinalityType
    <3>2. \A j \in 1 .. Cardinality(Ends(P)) : LineEnd(P, j) \in Ends(s) /\ LineEnd(P, j) =< p
      BY <1>2, <1>5 DEF EndsListed
    <3>3. \A j \in 1 .. Cardinality(Ends(P)) : LineEnd(P, j) \in Nat /\ LineEnd(P, j) =< p
      BY <1>1, <1>2, <3>2
    <3>4. k = 1 \/ k - 1 \in 1 .. Cardinality(Ends(P))
      BY <3>1
    <3> HIDE DEF P
    <3>5. from(k) \in Nat \ {0}
      BY <3>3, <3>4
    <3>6. LineEnd(P, k) - 2 \in Int /\ LineEnd(P, k) - 2 =< p
      BY <1>1, <3>3
    <3> QED BY <3>5, <3>6
  <2> DEFINE a == from(k)
             b == LineEnd(P, k) - 2
  <2>2. a \in Nat \ {0} /\ b \in Int /\ b =< p /\ b =< n
    BY <1>1, <2>1
  <2> HIDE DEF a, b
  <2>3. SubSeq(N, a, b) = SubSeq(s, a, b)
    BY <1>1, <2>2, SubSeqOfFirst
  <2>4. SubSeq(P, a, b) = SubSeq(s, a, b)
    BY <1>1, <2>2, SubSeqOfFirst
  <2> QED BY <2>3, <2>4 DEF a, b
<1>8. /\ Lines(P) = [k \in 1 .. Cardinality(Ends(P)) |-> SubSeq(P, from(k), LineEnd(P, k) - 2)]
      /\ Lines(N) = [k \in 1 .. Cardinality(Ends(P)) |-> SubSeq(N, from(k), LineEnd(P, k) - 2)]
  <2> DEFINE lines(t, k) == SubSeq(t, IF k = 1 THEN 1 ELSE LineEnd(t, k - 1) + 1, LineEnd(t, k) - 2)
  <2>1. \A t : Lines(t) = [k \in 1 .. Cardinality(Ends(t)) |-> lines(t, k)]
    BY DEF Lines
  <2>2. \A k : lines(N, k) = SubSeq(N, from(k), LineEnd(P, k) - 2)
    <3> HIDE DEF P, N
    <3> TAKE k
    <3>1. LineEnd(N, k) = LineEnd(P, k) /\ LineEnd(N, k - 1) = LineEnd(P, k - 1)
      BY <1>6
    <3> QED BY <3>1
  <2>3. \A k : lines(P, k) = SubSeq(P, from(k), LineEnd(P, k) - 2)
    OBVIOUS
  <2> HIDE DEF P, N, lines
  <2>4. Lines(P) = [k \in 1 .. Cardinality(Ends(P)) |-> lines(P, k)]
    BY <2>1
  <2>5. Lines(N) = [k \in 1 .. Cardinality(Ends(P)) |-> lines(N, k)]
    BY <1>4, <2>1
  <2> QED BY <2>2, <2>3, <2>4, <2>5
<1> HIDE DEF P, N, from
<1>9. Lines(N) = Lines(P)
  BY <1>7, <1>8
<1> QED BY <1>9 DEF P, N

(* The next newline makes one line of the bytes before it.                 *)
LEMMA LinesStep ==
  ASSUME NEW S, NEW s \in Seq(S), NEW p, LineStart(s, p), NEW e \in Ends(s), p < e,
         \A d \in Ends(s) : ~(p < d /\ d < e)
  PROVE  /\ LineStart(s, e)
         /\ Lines(SubSeq(s, 1, e)) = Append(Lines(SubSeq(s, 1, p)), SubSeq(s, p + 1, e - 2))
<1> DEFINE P == SubSeq(s, 1, p)
           E == SubSeq(s, 1, e)
           n == Cardinality(Ends(P))
           before(t, d) == {m \in Ends(t) : m =< d}
<1>1. /\ Len(s) \in Nat /\ p \in 0 .. Len(s) /\ e \in 2 .. Len(s) /\ e \in 0 .. Len(s)
      /\ p \in {0} \cup Ends(s) /\ EndsListed(P)
  BY LenProperties DEF LineStart, Ends
<1>2. /\ Ends(P) = {d \in Ends(s) : d =< p} /\ IsFiniteSet(Ends(P))
      /\ \A d \in Ends(s) : d \in 2 .. Len(s)
  BY <1>1, EndsOfFirst
<1>3. Ends(E) = {d \in Ends(s) : d =< e}
  BY <1>1, EndsOfFirst
<1> HIDE DEF P, E
<1>4. Ends(E) = Ends(P) \cup {e} /\ e \notin Ends(P)
  <2>1. \A d \in Ends(s) : d =< e <=> d =< p \/ d = e
    BY <1>1, <1>2
  <2>2. ~(e =< p)
    BY <1>1
  <2> QED BY <1>2, <1>3, <2>1, <2>2
<1>5. n \in Nat /\ Cardinality(Ends(E)) = n + 1 /\ IsFiniteSet(Ends(E))
  <2>1. n \in Nat
    BY <1>2, FS_CardinalityType
  <2>2. /\ IsFiniteSet(Ends(P) \cup {e})
        /\ Cardinality(Ends(P) \cup {e}) = IF e \in Ends(P) THEN n ELSE n + 1
    BY <1>2, FS_AddElement
  <2> QED BY <1>4, <2>1, <2>2
<1>6. \A d \in Ends(P) : d \in Nat /\ d =< p /\ d =< e
  BY <1>1, <1>2
(* The number of a newline is the same in both, and the new one is the last. *)
<1>7. \A d \in Ends(P) : before(E, d) = before(P, d)
  <2> TAKE d \in Ends(P)
  <2>1. ~(e =< d)
    BY <1>1, <1>6
  <2> QED BY <1>4, <2>1
<1>8. \A d \in Ends(P) : Cardinality(before(P, d)) =< n /\ Cardinality(before(P, d)) \in Nat
  <2> TAKE d \in Ends(P)
  <2>1. before(P, d) \in SUBSET Ends(P)
    OBVIOUS
  <2> HIDE DEF before
  <2> QED BY <1>2, <2>1, FS_Subset, FS_CardinalityType
<1>9. before(E, e) = Ends(E)
  <2>1. \A m \in Ends(E) : m =< e
    <3>1. e =< e
      BY <1>1
    <3> QED BY <1>4, <1>6, <3>1
  <2> QED BY <2>1
<1> DEFINE numbered(t, k) == {d \in Ends(t) : Cardinality(before(t, d)) = k}
<1>10. \A t, k : LineEnd(t, k) = CHOOSE d \in numbered(t, k) : TRUE
  BY DEF LineEnd
<1> HIDE DEF before
<1>11. \A k \in 1 .. n : numbered(E, k) = numbered(P, k)
  <2> TAKE k \in 1 .. n
  <2>1. Cardinality(before(E, e)) # k
    BY <1>5, <1>9
  <2> QED BY <1>4, <1>7, <2>1
<1>12. numbered(E, n + 1) = {e}
  <2>1. Cardinality(before(E, e)) = n + 1
    BY <1>5, <1>9
  <2>2. \A d \in Ends(P) : Cardinality(before(E, d)) # n + 1
    BY <1>5, <1>7, <1>8
  <2> QED BY <1>4, <2>1, <2>2
<1>13. n > 0 => numbered(P, n) = {p}
  <2> SUFFICES ASSUME n > 0 PROVE numbered(P, n) = {p}
    OBVIOUS
  <2>1. p \in Ends(P)
    <3>1. Ends(P) # {}
      <4>1. Ends(P) = {} => n = 0
        BY FS_EmptySet
      <4> QED BY <4>1
    <3>2. PICK d \in Ends(P) : d \in 2 .. Len(s) /\ d =< p
      BY <1>2, <3>1
    <3>3. p # 0
      BY <1>1, <3>2
    <3> QED BY <1>1, <1>2, <3>3
  <2>2. before(P, p) = Ends(P)
    BY <1>6 DEF before
  <2>3. ASSUME NEW d \in Ends(P), Cardinality(before(P, d)) = n PROVE d = p
    <3>1. before(P, d) \in SUBSET Ends(P)
      BY DEF before
    <3>2. before(P, d) = Ends(P)
      BY <1>2, <2>3, <3>1, FS_Subset
    <3>3. p =< d
      BY <2>1, <3>2 DEF before
    <3> QED BY <1>1, <1>6, <3>3
  <2> QED BY <2>1, <2>2, <2>3
<1> HIDE DEF numbered
<1>14. \A k \in 1 .. n : LineEnd(E, k) = LineEnd(P, k)
  BY <1>10, <1>11
<1>15. LineEnd(E, n + 1) = e
  BY <1>10, <1>12
<1>16. n > 0 => LineEnd(P, n) = p
  BY <1>10, <1>13
<1>17. \A k \in 1 .. n : LineEnd(P, k) \in Ends(P)
  BY <1>1 DEF EndsListed
<1>18. EndsListed(E)
  <2>1. \A k \in 1 .. n + 1 : k \in 1 .. n \/ k = n + 1
    BY <1>5
  <2> QED BY <1>4, <1>5, <1>14, <1>15, <1>17, <2>1 DEF EndsListed
<1>19. LineStart(s, e)
  BY <1>1, <1>18 DEF LineStart, E
(* Every line but the last is the same in both; the last ends with e.      *)
<1> DEFINE x == SubSeq(s, p + 1, e - 2)
           from(t, k) == IF k = 1 THEN 1 ELSE LineEnd(t, k - 1) + 1
<1>20. P \in Seq(S) /\ E \in Seq(S)
  BY <1>1, FirstBytes DEF P, E
<1>21. /\ Lines(P) \in Seq(Seq(S)) /\ Len(Lines(P)) = n
       /\ Lines(E) \in Seq(Seq(S)) /\ Len(Lines(E)) = n + 1
  BY <1>1, <1>2, <1>5, <1>18, <1>20, LinesType
<1>22. x \in Seq(S)
  <2>1. p + 1 \in Int /\ e - 2 \in Int /\ \A i \in p + 1 .. e - 2 : i \in 1 .. Len(s)
    BY <1>1
  <2>2. \A i \in p + 1 .. e - 2 : s[i] \in S
    BY <2>1, ElementOfSeq
  <2> QED BY <2>1, <2>2, SubSeqProperties
<1> HIDE DEF x
<1>23. /\ Append(Lines(P), x) \in Seq(Seq(S)) /\ Len(Append(Lines(P), x)) = n + 1
       /\ \A k \in 1 .. n : Append(Lines(P), x)[k] = Lines(P)[k]
       /\ Append(Lines(P), x)[n + 1] = x
  BY <1>21, <1>22, AppendProperties
<1>24. /\ \A k \in 1 .. n : Lines(P)[k] = SubSeq(P, from(P, k), LineEnd(P, k) - 2)
       /\ \A k \in 1 .. n + 1 : Lines(E)[k] = SubSeq(E, from(E, k), LineEnd(E, k) - 2)
  BY <1>5 DEF Lines
<1>25. \A k \in 1 .. n : LineEnd(P, k) \in Nat /\ LineEnd(P, k) =< p
  BY <1>6, <1>17
<1>26. ASSUME NEW k \in 1 .. n PROVE Lines(E)[k] = Lines(P)[k]
  <2> DEFINE a == from(P, k)
             b == LineEnd(P, k) - 2
  <2>1. k \in 1 .. n + 1 /\ (k = 1 \/ k - 1 \in 1 .. n)
    BY <1>5
  <2>2. from(E, k) = a
    BY <1>14, <2>1
  <2>3. a \in Nat \ {0}
    BY <1>25, <2>1
  <2>4. b \in Int /\ b =< p /\ b =< e
    BY <1>1, <1>25
  <2>5. Lines(P)[k] = SubSeq(P, a, b) /\ Lines(E)[k] = SubSeq(E, a, b)
    <3>1. LineEnd(E, k) - 2 = b
      BY <1>14
    <3>2. Lines(E)[k] = SubSeq(E, from(E, k), LineEnd(E, k) - 2)
      BY <1>24, <2>1
    <3>3. Lines(P)[k] = SubSeq(P, a, b)
      BY <1>24
    <3> QED BY <2>2, <3>1, <3>2, <3>3
  <2> HIDE DEF a, b, from
  <2>6. SubSeq(P, a, b) = SubSeq(s, a, b)
    BY <1>1, <2>3, <2>4, SubSeqOfFirst DEF P
  <2>7. SubSeq(E, a, b) = SubSeq(s, a, b)
    BY <1>1, <2>3, <2>4, SubSeqOfFirst DEF E
  <2> QED BY <2>5, <2>6, <2>7
<1>27. Lines(E)[n + 1] = x
  <2>1. n + 1 \in 1 .. n + 1 /\ (n = 0 \/ n \in 1 .. n) /\ n + 1 - 1 = n
    BY <1>5
  <2>2. ASSUME n = 0 PROVE p = 0
    <3>1. Ends(P) = {}
      BY <1>2, <2>2, FS_EmptySet
    <3>2. p \notin Ends(s)
      <4>1. p =< p
        BY <1>1
      <4> QED BY <1>2, <3>1, <4>1
    <3>3. p = 0
      BY <1>1, <3>2
    <3> QED BY <3>3
  <2>3. from(E, n + 1) = p + 1
    <3>1. CASE n = 0
      <4>1. p = 0
        BY <2>2, <3>1
      <4> QED BY <3>1, <4>1
    <3>2. CASE n # 0
      <4>1. n \in 1 .. n /\ n > 0 /\ n + 1 # 1
        BY <1>5, <3>2
      <4>2. LineEnd(E, n) = p
        BY <1>14, <1>16, <4>1
      <4> QED BY <2>1, <4>1, <4>2
    <3> QED BY <3>1, <3>2
  <2>4. Lines(E)[n + 1] = SubSeq(E, p + 1, e - 2)
    BY <1>15, <1>24, <2>1, <2>3
  <2>5. p + 1 \in Nat \ {0} /\ e - 2 \in Int /\ e - 2 =< e
    BY <1>1
  <2>6. SubSeq(E, p + 1, e - 2) = SubSeq(s, p + 1, e - 2)
    BY <1>1, <2>5, SubSeqOfFirst DEF E
  <2> QED BY <2>4, <2>6 DEF x
<1> HIDE DEF n
<1>28. Lines(E) = Append(Lines(P), x)
  <2>1. \A k \in 1 .. n + 1 : k \in 1 .. n \/ k = n + 1
    BY <1>5
  <2>2. \A k \in 1 .. n + 1 : Lines(E)[k] = Append(Lines(P), x)[k]
    BY <1>23, <1>26, <1>27, <2>1
  <2> QED BY <1>21, <1>23, <2>2, SeqEqual
<1> QED BY <1>19, <1>28 DEF P, E, x

-----------------------------------------------------------------------------
LEMMA StreamIs ==
  ASSUME NEW c \in Clients
  PROVE  /\ Total(c) \in Nat /\ Stream(c) \in Seq(Chars) /\ Len(Stream(c)) = Total(c)
<1> DEFINE n == Total(c)
<1>1. n \in Nat
  BY MessageAssumption, SizesAssumption DEF Total
<1>2. \A i \in 1 .. n : Stream(c)[i] \in Chars
  BY DEF Chars
<1>3. Stream(c) = [i \in 1 .. n |-> Stream(c)[i]]
  BY DEF Stream
<1> HIDE DEF n
<1>4. Stream(c) \in [1 .. n -> Chars]
  BY <1>2, <1>3
<1>5. Stream(c) \in Seq(Chars) /\ Len(Stream(c)) = n
  BY <1>1, <1>4
<1> QED BY <1>1, <1>5 DEF n

LEMMA PieceIs ==
  ASSUME NEW c \in Clients, NEW m \in Nat, NEW n \in Nat, m =< n, n =< Total(c)
  PROVE  /\ Piece(c, m, n) \in Seq(Chars) /\ Len(Piece(c, m, n)) = n - m
         /\ \A i \in 1 .. n - m : Piece(c, m, n)[i] = Stream(c)[m + i]
<1>1. Stream(c) \in Seq(Chars) /\ n =< Len(Stream(c))
  BY StreamIs
<1> QED BY <1>1, MiddleBytes DEF Piece

LEMMA NoBytes == ASSUME NEW c, NEW n \in Nat PROVE Piece(c, n, n) = <<>>
<1>1. n + 1 \in Int /\ n \in Int /\ n < n + 1
  OBVIOUS
<1> QED BY <1>1, SubSeqEmpty DEF Piece

(* What is written comes behind what is there.                             *)
LEMMA PieceJoin ==
  ASSUME NEW c \in Clients, NEW m \in Nat, NEW k \in Nat, NEW n \in Nat,
         m =< k, k =< n, n =< Total(c)
  PROVE  Piece(c, m, k) \o SubSeq(Stream(c), k + 1, n) = Piece(c, m, n)
<1>1. Stream(c) \in Seq(Chars) /\ Len(Stream(c)) = Total(c) /\ Total(c) \in Nat
  BY StreamIs
<1>2. /\ m + 1 \in 1 .. Len(Stream(c)) + 1 /\ k \in m + 1 - 1 .. Len(Stream(c))
      /\ n \in k .. Len(Stream(c))
  BY <1>1
<1> DEFINE s == Stream(c)
           a == m + 1
<1>3. a \in 1 .. Len(s) + 1 /\ k \in a - 1 .. Len(s) /\ n \in k .. Len(s) /\ s \in Seq(Chars)
  BY <1>1, <1>2
<1> HIDE DEF s, a
<1>4. SubSeq(s, a, k) \o SubSeq(s, k + 1, n) = SubSeq(s, a, n)
  BY <1>3, ConcatAdjacentSubSeq
<1> QED BY <1>4 DEF s, a, Piece

(* What is read is the beginning of what is there, the rest stays.         *)
LEMMA PieceCut ==
  ASSUME NEW c \in Clients, NEW m \in Nat, NEW n \in Nat, m =< n, n =< Total(c),
         NEW j \in 0 .. n - m
  PROVE  /\ SubSeq(Piece(c, m, n), j + 1, Len(Piece(c, m, n))) = Piece(c, m + j, n)
         /\ \A i \in 1 .. j : SubSeq(Piece(c, m, n), 1, j)[i] = Stream(c)[m + i]
         /\ Len(SubSeq(Piece(c, m, n), 1, j)) = j
<1> DEFINE s == Piece(c, m, n)
<1>1. /\ s \in Seq(Chars) /\ Len(s) = n - m /\ n - m \in Nat
      /\ \A i \in 1 .. n - m : s[i] = Stream(c)[m + i]
  <2>1. n - m \in Nat
    OBVIOUS
  <2> QED BY <2>1, PieceIs
<1>2. /\ Piece(c, m + j, n) \in Seq(Chars) /\ Len(Piece(c, m + j, n)) = n - (m + j)
      /\ \A i \in 1 .. n - (m + j) : Piece(c, m + j, n)[i] = Stream(c)[m + j + i]
  <2>1. m + j \in Nat /\ m + j =< n
    BY <1>1
  <2> QED BY <2>1, PieceIs
<1> HIDE DEF s
<1>3. /\ SubSeq(s, j + 1, Len(s)) \in Seq(Chars) /\ Len(SubSeq(s, j + 1, Len(s))) = Len(s) - j
      /\ \A i \in 1 .. Len(s) - j : SubSeq(s, j + 1, Len(s))[i] = s[j + i]
  <2>1. j \in Nat /\ Len(s) \in Nat /\ j =< Len(s) /\ Len(s) =< Len(s)
    BY <1>1
  <2> QED BY <1>1, <2>1, MiddleBytes
<1>4. SubSeq(s, j + 1, Len(s)) = Piece(c, m + j, n)
  <2> DEFINE t == SubSeq(s, j + 1, Len(s))
             u == Piece(c, m + j, n)
  <2>1. Len(t) = Len(u)
    BY <1>1, <1>2, <1>3
  <2>2. \A i \in 1 .. Len(t) : t[i] = u[i]
    <3> TAKE i \in 1 .. Len(t)
    <3>1. i \in 1 .. Len(s) - j /\ j + i \in 1 .. n - m /\ i \in 1 .. n - (m + j)
          /\ m + (j + i) = m + j + i
      BY <1>1, <1>3
    <3> HIDE DEF t, u
    <3>2. t[i] = s[j + i]
      BY <1>3, <3>1 DEF t
    <3>3. s[j + i] = Stream(c)[m + (j + i)]
      BY <1>1, <3>1
    <3>4. u[i] = Stream(c)[m + j + i]
      BY <1>2, <3>1 DEF u
    <3> QED BY <3>1, <3>2, <3>3, <3>4
  <2> QED BY <1>2, <1>3, <2>1, <2>2, SeqEqual
<1>5. /\ Len(SubSeq(s, 1, j)) = j
      /\ \A i \in 1 .. j : SubSeq(s, 1, j)[i] = s[i]
  BY <1>1, FirstBytes
<1>6. \A i \in 1 .. j : SubSeq(s, 1, j)[i] = Stream(c)[m + i]
  <2>1. \A i \in 1 .. j : i \in 1 .. n - m
    BY <1>1
  <2> QED BY <1>1, <1>5, <2>1
<1> QED BY <1>4, <1>5, <1>6 DEF s

LEMMA NoLines == ASSUME NEW c PROVE Lines(Piece(c, 0, 0)) = <<>> /\ EndsListed(Piece(c, 0, 0))
<1>1. Piece(c, 0, 0) = <<>>
  BY NoBytes
<1>2. Ends(<<>>) = {}
  BY DEF Ends
<1>3. Cardinality(Ends(<<>>)) = 0
  BY <1>2, FS_EmptySet
<1>4. 1 .. 0 = {}
  OBVIOUS
<1>5. Lines(<<>>) = <<>>
  <2> DEFINE lines(k) == SubSeq(<<>>, IF k = 1 THEN 1 ELSE LineEnd(<<>>, k - 1) + 1, LineEnd(<<>>, k) - 2)
  <2>1. Lines(<<>>) = [k \in 1 .. 0 |-> lines(k)]
    BY <1>3 DEF Lines
  <2> HIDE DEF lines
  <2> QED BY <1>4, <2>1
<1>6. EndsListed(<<>>)
  BY <1>3, <1>4 DEF EndsListed
<1> QED BY <1>1, <1>5, <1>6
-----------------------------------------------------------------------------
LEMMA LineInitial == LineInit => LineInv
<1> SUFFICES ASSUME LineInit PROVE LineInv
  OBVIOUS
<1>1. /\ step = "accept" /\ inbuf = 0
      /\ conn = [c \in Clients |-> "none"] /\ client = [c \in Clients |-> "new"]
      /\ sent = [c \in Clients |-> 0] /\ wire = [c \in Clients |-> <<>>]
      /\ printed = [c \in Clients |-> <<>>]
  BY DEF LineInit
<1>2. LineTypes
  <2>1. <<>> \in Seq(Chars) /\ <<>> \in Seq(Seq(Chars))
    BY EmptySeq
  <2>2. inbuf \in 0 .. BufSize
    BY <1>1, SizesAssumption
  <2> QED BY <1>1, <2>1, <2>2 DEF LineTypes
<1>3. ASSUME NEW c \in Clients PROVE WireInv(c) /\ ConnInv(c)
  <2>1. Got(c) = 0
    BY <1>1, EmptySeq DEF Got
  <2>2. Piece(c, 0, 0) = <<>> /\ 0 \in 0 .. Total(c)
    BY NoBytes, StreamIs
  <2>3. sent[c] = 0 /\ wire[c] = <<>> /\ conn[c] = "none" /\ client[c] = "new" /\ printed[c] = <<>>
    BY <1>1
  <2>4. WireInv(c)
    BY <2>1, <2>2, <2>3 DEF WireInv
  <2>5. ConnInv(c)
    BY <2>1, <2>3 DEF ConnInv
  <2> QED BY <2>4, <2>5
<1> QED BY <1>1, <1>2, <1>3 DEF LineInv, BufferInv

(* A step that leaves a connection alone.                                  *)
LEMMA OthersKept ==
  ASSUME NEW d, WireInv(d), ConnInv(d),
         sent'[d] = sent[d], wire'[d] = wire[d], conn'[d] = conn[d],
         client'[d] = client[d], printed'[d] = printed[d]
  PROVE  WireInv(d)' /\ ConnInv(d)'
<1>1. Got(d)' = Got(d)
  BY DEF Got
<1>2. WireInv(d)'
  BY <1>1 DEF WireInv
<1>3. ConnInv(d)'
  BY <1>1 DEF ConnInv
<1> QED BY <1>2, <1>3

(* A step of a client leaves the server's buffer alone.                    *)
LEMMA BufferKept ==
  ASSUME LineInv, UNCHANGED serverVars,
         step # "accept" => sent'[clientfd] - Len(wire'[clientfd]) = Got(clientfd)
                            /\ conn'[clientfd] = conn[clientfd]
  PROVE  BufferInv'
<1> SUFFICES ASSUME step' # "accept" PROVE BufferInv'
  BY DEF BufferInv
<1>1. UNCHANGED <<step, clientfd, buf, inbuf, printed>> /\ BufferInv /\ step # "accept"
  BY DEF serverVars, LineInv
<1>2. Got(clientfd)' = Got(clientfd) /\ Done' = Done
  BY <1>1 DEF Got, Done
<1> QED BY <1>1, <1>2 DEF BufferInv

LEMMA ClientInv ==
  ASSUME LineInv, NEW c \in Clients, Connect(c) \/ SigPipe(c) \/ CloseClient(c)
  PROVE  LineInv'
<1>1. LineTypes /\ BufferInv /\ \A d \in Clients : WireInv(d) /\ ConnInv(d)
  BY DEF LineInv
<1>2. UNCHANGED <<serverVars, sent, wire>>
  BY DEF Connect, SigPipe, CloseClient
<1>3. UNCHANGED <<step, clientfd, buf, inbuf, printed>>
  BY <1>2 DEF serverVars
<1>4. PICK a \in {"queued", conn[c]}, b \in {"writing", "killed", "done"} :
        conn' = [conn EXCEPT ![c] = a] /\ client' = [client EXCEPT ![c] = b]
  <2>1. CASE Connect(c)
    BY <2>1 DEF Connect
  <2>2. conn = [conn EXCEPT ![c] = conn[c]]
    BY <1>1 DEF LineTypes
  <2>3. CASE SigPipe(c) \/ CloseClient(c)
    BY <2>2, <2>3 DEF SigPipe, CloseClient
  <2> QED BY <2>1, <2>3
<1>5. /\ conn'[c] = a /\ client'[c] = b
      /\ \A d \in Clients \ {c} : conn'[d] = conn[d] /\ client'[d] = client[d]
  BY <1>1, <1>4 DEF LineTypes
<1>6. LineTypes'
  BY <1>1, <1>2, <1>3, <1>4 DEF LineTypes
<1>7. ASSUME NEW d \in Clients \ {c} PROVE WireInv(d)' /\ ConnInv(d)'
  BY <1>1, <1>2, <1>3, <1>5, OthersKept
<1>8. Got(c)' = Got(c)
  BY <1>2 DEF Got
<1>9. WireInv(c)'
  BY <1>1, <1>2, <1>8 DEF WireInv
<1>10. ConnInv(c)'
  <2>1. ConnInv(c)
    BY <1>1
  <2>2. CASE Connect(c)
    <3>1. client[c] = "new" /\ conn'[c] = "queued" /\ client'[c] = "writing"
      BY <1>1, <2>2 DEF Connect, LineTypes
    <3> QED BY <1>3, <1>8, <2>1, <3>1 DEF ConnInv
  <2>3. CASE SigPipe(c)
    <3>1. client[c] = "writing" /\ conn[c] = "closed" /\ conn' = conn /\ client'[c] = "killed"
      BY <1>1, <2>3 DEF SigPipe, LineTypes
    <3> QED BY <1>2, <1>3, <2>1, <3>1 DEF ConnInv
  <2>4. CASE CloseClient(c)
    <3>1. client[c] = "writing" /\ sent[c] = Total(c) /\ conn' = conn /\ client'[c] = "done"
      BY <1>1, <2>4 DEF CloseClient, LineTypes
    <3> QED BY <1>2, <1>3, <1>8, <2>1, <3>1 DEF ConnInv
  <2> QED BY <2>2, <2>3, <2>4
<1>11. step # "accept" => sent'[clientfd] - Len(wire'[clientfd]) = Got(clientfd)
                          /\ conn'[clientfd] = conn[clientfd]
  <2> SUFFICES ASSUME step # "accept" PROVE conn'[clientfd] = conn[clientfd]
    BY <1>2 DEF Got
  <2>1. clientfd \in Clients /\ conn[clientfd] = "open"
    BY <1>1 DEF BufferInv
  <2>2. CASE Connect(c)
    <3>1. conn[c] = "none"
      BY <1>1, <2>2 DEF Connect, ConnInv
    <3> QED BY <1>5, <2>1, <3>1
  <2>3. CASE SigPipe(c) \/ CloseClient(c)
    BY <2>3 DEF SigPipe, CloseClient
  <2> QED BY <2>2, <2>3
<1>12. BufferInv'
  BY <1>2, <1>11, BufferKept
<1> QED BY <1>6, <1>7, <1>9, <1>10, <1>12 DEF LineInv

LEMMA WritePieceInv == ASSUME LineInv, NEW c \in Clients, WritePiece(c) PROVE LineInv'
<1>1. LineTypes /\ BufferInv /\ \A d \in Clients : WireInv(d) /\ ConnInv(d)
  BY DEF LineInv
<1>2. PICK size \in MinChars .. MaxChars :
        LET n == PieceSize(c, size) IN
        /\ sent' = [sent EXCEPT ![c] = @ + n]
        /\ wire' = IF conn[c] = "closed" THEN wire
                   ELSE [wire EXCEPT ![c] = @ \o SubSeq(Stream(c), sent[c] + 1, sent[c] + n)]
  BY DEF WritePiece
<1> DEFINE n == PieceSize(c, size)
           g == Got(c)
<1>3. /\ sent' = [sent EXCEPT ![c] = @ + n]
      /\ wire' = IF conn[c] = "closed" THEN wire
                 ELSE [wire EXCEPT ![c] = @ \o SubSeq(Stream(c), sent[c] + 1, sent[c] + n)]
      /\ client[c] = "writing" /\ sent[c] < Total(c)
      /\ UNCHANGED <<serverVars, conn, client>>
  BY <1>2 DEF WritePiece
<1>4. UNCHANGED <<step, clientfd, buf, inbuf, printed>>
  BY <1>3 DEF serverVars
<1>5. /\ sent[c] \in Nat /\ Total(c) \in Nat /\ g \in Nat /\ g =< sent[c]
      /\ wire[c] = Piece(c, g, sent[c])
  BY <1>1, StreamIs DEF WireInv
<1>6. n \in Nat /\ sent[c] + n =< Total(c)
  <2>1. size \in Nat
    BY SizesAssumption
  <2>2. sent[c] \in Nat /\ Total(c) \in Nat /\ sent[c] < Total(c)
    BY <1>3, <1>5
  <2> QED BY <2>1, <2>2 DEF PieceSize
<1> DEFINE k == sent[c] + n
<1>12. k \in Nat /\ sent[c] =< k /\ g =< k /\ k =< Total(c)
  <2> HIDE DEF n, g
  <2> QED BY <1>5, <1>6
<1>13. /\ sent' = [sent EXCEPT ![c] = k]
       /\ wire' = IF conn[c] = "closed" THEN wire
                  ELSE [wire EXCEPT ![c] = @ \o SubSeq(Stream(c), sent[c] + 1, k)]
  BY <1>3
<1> HIDE DEF n, g, k
<1>7. /\ sent'[c] = k /\ sent' \in [Clients -> Nat]
      /\ \A d \in Clients \ {c} : sent'[d] = sent[d]
  BY <1>1, <1>12, <1>13 DEF LineTypes
<1>8. /\ Piece(c, g, k) \in Seq(Chars) /\ Len(Piece(c, g, k)) = k - g
      /\ Piece(c, g, sent[c]) \o SubSeq(Stream(c), sent[c] + 1, k) = Piece(c, g, k)
  <2>1. Piece(c, g, k) \in Seq(Chars) /\ Len(Piece(c, g, k)) = k - g
    BY <1>5, <1>12, PieceIs
  <2>2. Piece(c, g, sent[c]) \o SubSeq(Stream(c), sent[c] + 1, k) = Piece(c, g, k)
    BY <1>5, <1>12, PieceJoin
  <2> QED BY <2>1, <2>2
<1>9. ASSUME NEW d \in Clients \ {c} PROVE wire'[d] = wire[d]
  BY <1>1, <1>13 DEF LineTypes
<1>10. CASE conn[c] = "closed"
  <2>1. wire' = wire /\ wire[c] = <<>>
    BY <1>1, <1>10, <1>13 DEF ConnInv
  <2>2. Got(c)' = k
    BY <1>5, <1>12, <1>7, <2>1, EmptySeq DEF Got
  <2>3. WireInv(c)'
    <3>1. Piece(c, k, k) = <<>> /\ k \in 0 .. Total(c)
          /\ k \in 0 .. k
      BY <1>5, <1>12, NoBytes
    <3> QED BY <1>7, <2>1, <2>2, <3>1 DEF WireInv
  <2>4. ConnInv(c)'
    <3>1. ConnInv(c) /\ conn'[c] = "closed" /\ client'[c] = "writing" /\ client[c] = "writing"
          /\ printed' = printed /\ conn' = conn /\ client' = client
      BY <1>1, <1>3, <1>4, <1>10
    <3> QED BY <2>1, <3>1 DEF ConnInv
  <2>5. LineTypes'
    BY <1>1, <1>3, <1>4, <1>7, <2>1 DEF LineTypes
  <2>6. ASSUME NEW d \in Clients \ {c} PROVE WireInv(d)' /\ ConnInv(d)'
    BY <1>1, <1>3, <1>4, <1>7, <1>9, OthersKept
  <2>7. step # "accept" => sent'[clientfd] - Len(wire'[clientfd]) = Got(clientfd)
                           /\ conn'[clientfd] = conn[clientfd]
    <3> SUFFICES ASSUME step # "accept" PROVE sent'[clientfd] = sent[clientfd]
      BY <1>3, <2>1 DEF Got
    <3>1. clientfd \in Clients /\ clientfd # c
      BY <1>1, <1>10 DEF BufferInv
    <3> QED BY <1>7, <3>1
  <2>8. BufferInv'
    BY <1>3, <2>7, BufferKept
  <2> QED BY <2>3, <2>4, <2>5, <2>6, <2>8 DEF LineInv
<1>11. CASE conn[c] # "closed"
  <2>1. /\ wire'[c] = Piece(c, g, k)
        /\ wire' \in [Clients -> Seq(Chars)]
    BY <1>1, <1>5, <1>8, <1>11, <1>13 DEF LineTypes
  <2>2. Got(c)' = g
    <3>1. k - (k - g) = g
      BY <1>5, <1>12
    <3>2. Len(wire'[c]) = k - g
      BY <1>8, <2>1
    <3>3. Got(c)' = sent'[c] - Len(wire'[c])
      BY DEF Got
    <3> QED BY <1>7, <3>1, <3>2, <3>3
  <2>3. WireInv(c)'
    <3>1. k \in 0 .. Total(c) /\ g \in 0 .. k
      BY <1>5, <1>12
    <3> QED BY <1>7, <2>1, <2>2, <3>1 DEF WireInv
  <2>4. ConnInv(c)'
    <3>1. ConnInv(c) /\ conn'[c] # "closed" /\ client'[c] = "writing" /\ client[c] = "writing"
          /\ printed' = printed /\ conn' = conn /\ client' = client
      BY <1>1, <1>3, <1>4, <1>11
    <3> QED BY <2>2, <3>1 DEF ConnInv, g
  <2>5. LineTypes'
    BY <1>1, <1>3, <1>4, <1>7, <2>1 DEF LineTypes
  <2>6. ASSUME NEW d \in Clients \ {c} PROVE WireInv(d)' /\ ConnInv(d)'
    BY <1>1, <1>3, <1>4, <1>7, <1>9, OthersKept
  <2>7. step # "accept" => sent'[clientfd] - Len(wire'[clientfd]) = Got(clientfd)
                           /\ conn'[clientfd] = conn[clientfd]
    <3> SUFFICES ASSUME step # "accept" PROVE sent'[clientfd] - Len(wire'[clientfd]) = Got(clientfd)
      BY <1>3
    <3>1. CASE clientfd = c
      BY <2>2, <3>1 DEF Got, g
    <3>2. CASE clientfd # c
      <4>1. clientfd \in Clients \ {c}
        BY <1>1, <3>2 DEF BufferInv
      <4> QED BY <1>7, <1>9, <4>1 DEF Got
    <3> QED BY <3>1, <3>2
  <2>8. BufferInv'
    BY <1>3, <2>7, BufferKept
  <2> QED BY <2>3, <2>4, <2>5, <2>6, <2>8 DEF LineInv
<1> QED BY <1>10, <1>11

LEMMA AcceptInv == ASSUME LineInv, NEW c \in Clients, Accept(c) PROVE LineInv'
<1>1. LineTypes /\ \A d \in Clients : WireInv(d) /\ ConnInv(d)
  BY DEF LineInv
<1>2. /\ conn[c] = "queued" /\ step' = "read" /\ clientfd' = c /\ inbuf' = 0
      /\ conn' = [conn EXCEPT ![c] = "open"]
      /\ UNCHANGED <<client, sent, wire, printed>>
  BY DEF Accept
<1>3. conn'[c] = "open" /\ \A d \in Clients \ {c} : conn'[d] = conn[d]
  BY <1>1, <1>2 DEF LineTypes
<1>4. LineTypes'
  BY <1>1, <1>2, SizesAssumption DEF LineTypes
<1>5. ASSUME NEW d \in Clients \ {c} PROVE WireInv(d)' /\ ConnInv(d)'
  BY <1>1, <1>2, <1>3, OthersKept
<1>6. Got(c)' = 0 /\ Got(c) = 0 /\ printed'[c] = <<>>
  BY <1>1, <1>2 DEF ConnInv, Got
<1>7. WireInv(c)' /\ ConnInv(c)'
  <2>1. WireInv(c) /\ ConnInv(c)
    BY <1>1
  <2>2. WireInv(c)'
    BY <1>2, <1>6, <2>1 DEF WireInv
  <2>3. ConnInv(c)'
    BY <1>2, <1>3, <2>1 DEF ConnInv
  <2> QED BY <2>2, <2>3
<1>8. BufferInv'
  <2>1. Done' = 0 /\ Got(clientfd)' = 0
    BY <1>2, <1>6 DEF Done, Got
  <2>2. Lines(Piece(c, 0, 0)) = <<>> /\ EndsListed(Piece(c, 0, 0))
    BY NoLines
  <2>3. NoEnd(c, 0, 0)
    BY DEF NoEnd, Ends
  <2>4. \A i \in 0 .. inbuf' - 1 : FALSE
    BY <1>2
  <2> QED BY <1>2, <1>3, <1>6, <2>1, <2>2, <2>3, <2>4 DEF BufferInv
<1> QED BY <1>4, <1>5, <1>7, <1>8 DEF LineInv

(* What the buffer holds is a part of the stream.                          *)
LEMMA ServedClient ==
  ASSUME LineInv, step # "accept"
  PROVE  LET c == clientfd IN
         /\ c \in Clients /\ conn[c] = "open" /\ WireInv(c) /\ ConnInv(c)
         /\ Stream(c) \in Seq(Chars) /\ Len(Stream(c)) = Total(c)
         /\ sent[c] \in Nat /\ Total(c) \in Nat /\ sent[c] =< Total(c)
         /\ inbuf \in Nat /\ inbuf =< BufSize /\ BufSize \in Nat
         /\ Done \in Nat /\ Got(c) = Done + inbuf /\ Got(c) =< sent[c]
         /\ LineStart(Stream(c), Done)
<1> DEFINE c == clientfd
<1>1. c \in Clients /\ conn[c] = "open" /\ WireInv(c) /\ ConnInv(c)
  BY DEF LineInv, BufferInv
<1>2. Stream(c) \in Seq(Chars) /\ Len(Stream(c)) = Total(c) /\ Total(c) \in Nat
  BY <1>1, StreamIs
<1>3. sent[c] \in Nat /\ sent[c] =< Total(c) /\ Got(c) \in Nat /\ Got(c) =< sent[c]
  BY <1>1, <1>2 DEF WireInv
<1>4. inbuf \in Nat /\ inbuf =< BufSize /\ BufSize \in Nat
  BY SizesAssumption DEF LineInv, LineTypes
<1>5. Done \in {0} \cup Ends(Stream(c)) /\ EndsListed(Piece(c, 0, Done))
  BY DEF LineInv, BufferInv
<1>6. Done \in Nat
  BY <1>2, <1>5 DEF Ends
<1>7. Done = Got(c) - inbuf
  BY DEF Done
<1> HIDE DEF c
<1>8. Got(c) = Done + inbuf
  BY <1>3, <1>4, <1>6, <1>7
<1>9. Done \in 0 .. Len(Stream(c))
  BY <1>2, <1>3, <1>4, <1>6, <1>8
<1>10. LineStart(Stream(c), Done)
  BY <1>5, <1>9 DEF LineStart, Piece
<1> QED BY <1>1, <1>2, <1>3, <1>4, <1>6, <1>8, <1>10 DEF c

LEMMA ReadInv == ASSUME LineInv, Read PROVE LineInv'
<1>1. LineTypes /\ BufferInv /\ (\A d \in Clients : WireInv(d) /\ ConnInv(d)) /\ step # "accept"
  BY DEF LineInv, Read
<1>19. PICK c \in Clients : c = clientfd
  BY <1>1 DEF BufferInv
<1>2. PICK n \in 1 .. Room(inbuf) :
        /\ n =< Len(wire[c])
        /\ buf' = Put(inbuf, SubSeq(wire[c], 1, n))
        /\ inbuf' = inbuf + n
        /\ wire' = [wire EXCEPT ![c] = SubSeq(@, n + 1, Len(@))]
  BY <1>19 DEF Read
<1>3. step' = "scan" /\ UNCHANGED <<clientfd, conn, client, sent, printed>>
  BY DEF Read
<1> DEFINE g == Got(c)
<1>4. /\ c \in Clients /\ conn[c] = "open" /\ WireInv(c) /\ ConnInv(c)
      /\ sent[c] \in Nat /\ Total(c) \in Nat /\ sent[c] =< Total(c)
      /\ inbuf \in Nat /\ BufSize \in Nat /\ Done \in Nat /\ g = Done + inbuf /\ g =< sent[c]
  BY <1>1, <1>19, ServedClient
<1>5. wire[c] = Piece(c, g, sent[c]) /\ g \in Nat
  BY <1>4 DEF WireInv
<1> DEFINE k == sent[c]
<1> HIDE DEF g
<1>17. g \in Nat /\ k \in Nat /\ g =< k /\ k =< Total(c) /\ c \in Clients /\ wire[c] = Piece(c, g, k)
  BY <1>4, <1>5
<1> HIDE DEF k
<1>6. Len(wire[c]) = k - g
  BY <1>17, PieceIs
<1>7. n \in Nat /\ n \in 0 .. k - g /\ g + n \in Nat /\ g + n =< k
      /\ inbuf + n \in 0 .. BufSize
  <2>1. n \in Int /\ 1 =< n /\ n =< BufSize - inbuf /\ n =< k - g
    BY <1>2, <1>4, <1>6 DEF Room
  <2>2. g \in Nat /\ k \in Nat /\ inbuf \in Nat /\ BufSize \in Nat
    BY <1>4, <1>17
  <2> QED BY <2>1, <2>2
<1>8. /\ SubSeq(wire[c], n + 1, Len(wire[c])) = Piece(c, g + n, k)
      /\ \A i \in 1 .. n : SubSeq(wire[c], 1, n)[i] = Stream(c)[g + i]
      /\ Len(SubSeq(wire[c], 1, n)) = n
  <2>1. g \in Nat /\ k \in Nat /\ g =< k /\ k =< Total(c) /\ n \in 0 .. k - g
    BY <1>7, <1>17
  <2>2. /\ SubSeq(Piece(c, g, k), n + 1, Len(Piece(c, g, k))) = Piece(c, g + n, k)
        /\ \A i \in 1 .. n : SubSeq(Piece(c, g, k), 1, n)[i] = Stream(c)[g + i]
        /\ Len(SubSeq(Piece(c, g, k), 1, n)) = n
    BY <2>1, PieceCut, Zenon
  <2> QED BY <1>17, <2>2
<1>9. /\ Piece(c, g + n, k) \in Seq(Chars)
      /\ Len(Piece(c, g + n, k)) = k - (g + n)
  BY <1>7, <1>17, PieceIs
<1>10. /\ wire'[c] = Piece(c, g + n, k) /\ wire' \in [Clients -> Seq(Chars)]
       /\ \A d \in Clients \ {c} : wire'[d] = wire[d]
  BY <1>1, <1>2, <1>4, <1>8, <1>9 DEF LineTypes
<1>11. Got(c)' = g + n
  <2>1. Got(c)' = k - Len(wire'[c])
    BY <1>3 DEF Got, k
  <2>2. k - (k - (g + n)) = g + n
    BY <1>7, <1>17
  <2> QED BY <1>9, <1>10, <2>1, <2>2
<1>12. LineTypes'
  BY <1>1, <1>2, <1>3, <1>7, <1>10 DEF LineTypes
<1>13. ASSUME NEW d \in Clients \ {c} PROVE WireInv(d)' /\ ConnInv(d)'
  BY <1>1, <1>3, <1>10, OthersKept
<1>14. WireInv(c)'
  <2>1. g + n \in 0 .. k /\ k \in 0 .. Total(c)
    BY <1>4, <1>7, <1>17
  <2>2. sent'[c] = k
    BY <1>3 DEF k
  <2>3. sent'[c] \in 0 .. Total(c) /\ Got(c)' \in 0 .. sent'[c]
    BY <1>11, <2>1, <2>2
  <2>4. wire'[c] = Piece(c, Got(c)', sent'[c])
    BY <1>10, <1>11, <2>2
  <2> QED BY <1>3, <2>3, <2>4 DEF WireInv
<1>15. ConnInv(c)'
  BY <1>3, <1>4 DEF ConnInv
<1>16. BufferInv'
  <2>1. Done' = Done
    <3>1. Done' = Got(c)' - inbuf'
      BY <1>3, <1>19 DEF Done, Got
    <3>2. (g + n) - (inbuf + n) = Done
      BY <1>4, <1>7
    <3> QED BY <1>2, <1>11, <3>1, <3>2
  <2>2. \A i \in 0 .. inbuf' - 1 : buf'[i] = Stream(c)[Done + i + 1]
    <3>6. inbuf' = inbuf + n
      BY <1>2
    <3>7. 0 .. inbuf' - 1 = 0 .. inbuf + n - 1
      BY <1>4, <1>7, <3>6
    <3> SUFFICES ASSUME NEW i \in 0 .. inbuf + n - 1 PROVE buf'[i] = Stream(c)[Done + i + 1]
      BY <3>7
    <3>1. i \in Index /\ i \in Nat /\ (i < inbuf \/ i - inbuf + 1 \in 1 .. n)
      BY <1>4, <1>7 DEF Index
    <3> DEFINE s == SubSeq(wire[c], 1, n)
    <3>2. Len(s) = n /\ \A j \in 1 .. n : s[j] = Stream(c)[g + j]
      BY <1>8
    <3> HIDE DEF s
    <3>3. buf'[i] = IF inbuf =< i /\ i < inbuf + n THEN s[i - inbuf + 1] ELSE buf[i]
      BY <1>2, <3>1, <3>2 DEF Put, s
    <3>4. CASE i < inbuf
      <4>1. buf'[i] = buf[i] /\ i \in 0 .. inbuf - 1
        BY <1>4, <3>1, <3>3, <3>4
      <4> QED BY <1>1, <1>19, <4>1 DEF BufferInv
    <3>5. CASE ~(i < inbuf)
      <4>1. inbuf =< i /\ i < inbuf + n /\ i - inbuf + 1 \in 1 .. n /\ g + (i - inbuf + 1) = Done + i + 1
        BY <1>4, <1>7, <3>1, <3>5
      <4>2. buf'[i] = s[i - inbuf + 1]
        BY <3>3, <4>1
      <4>3. s[i - inbuf + 1] = Stream(c)[g + (i - inbuf + 1)]
        BY <3>2, <4>1
      <4> QED BY <4>1, <4>2, <4>3
    <3> QED BY <3>4, <3>5
  <2> QED BY <1>1, <1>3, <1>19, <2>1, <2>2 DEF BufferInv
<1>18. \A d \in Clients : d = c \/ d \in Clients \ {c}
  OBVIOUS
<1> QED BY <1>12, <1>13, <1>14, <1>15, <1>16, <1>18 DEF LineInv

(* Before the server waits it has printed the lines of all it has read.    *)
LEMMA PrintedInRead ==
  ASSUME LineInv, step = "read" PROVE printed[clientfd] = Lines(Received(clientfd))
<1>1. PICK c \in Clients : c = clientfd
  BY DEF LineInv, BufferInv
<1>2. /\ Stream(c) \in Seq(Chars) /\ Len(Stream(c)) = Total(c)
      /\ sent[c] \in Nat /\ Total(c) \in Nat /\ sent[c] =< Total(c)
      /\ inbuf \in Nat /\ Done \in Nat /\ Got(c) = Done + inbuf /\ Got(c) =< sent[c]
      /\ LineStart(Stream(c), Done)
  BY <1>1, ServedClient
<1>3. printed[c] = Lines(Piece(c, 0, Done)) /\ NoEnd(c, Done, Got(c))
  BY <1>1 DEF LineInv, BufferInv
<1>4. Got(c) \in Done .. Len(Stream(c))
  BY <1>2
<1> DEFINE s == Stream(c)
           p == Done
           n == Got(c)
<1>5. \A e \in Ends(s) : ~(p < e /\ e =< n)
  BY <1>3 DEF NoEnd
<1>6. s \in Seq(Chars) /\ LineStart(s, p) /\ n \in p .. Len(s)
  BY <1>2, <1>4
<1> HIDE DEF s, p, n
<1>7. Lines(SubSeq(s, 1, n)) = Lines(SubSeq(s, 1, p))
  BY <1>5, <1>6, LinesSame
<1> QED BY <1>1, <1>3, <1>7 DEF s, p, n, Piece, Received, Got

LEMMA CloseConnectionInv == ASSUME LineInv, CloseConnection PROVE LineInv'
<1>1. /\ LineTypes /\ BufferInv /\ (\A d \in Clients : WireInv(d) /\ ConnInv(d))
      /\ step = "read" /\ ReadsNothing
  BY DEF LineInv, CloseConnection
<1>2. PICK c \in Clients : c = clientfd
  BY <1>1 DEF BufferInv
<1>3. /\ step' = "accept" /\ conn' = [conn EXCEPT ![c] = "closed"]
      /\ wire' = [wire EXCEPT ![c] = <<>>] /\ UNCHANGED <<buf, inbuf, client, sent, printed>>
  BY <1>2 DEF CloseConnection
<1>4. /\ conn[c] = "open" /\ WireInv(c) /\ ConnInv(c)
      /\ Stream(c) \in Seq(Chars) /\ Len(Stream(c)) = Total(c)
      /\ sent[c] \in Nat /\ Total(c) \in Nat /\ sent[c] =< Total(c)
      /\ inbuf \in Nat /\ BufSize \in Nat
      /\ Done \in Nat /\ Got(c) = Done + inbuf /\ Got(c) =< sent[c]
  BY <1>1, <1>2, ServedClient
<1>5. /\ conn'[c] = "closed" /\ wire'[c] = <<>>
      /\ \A d \in Clients \ {c} : conn'[d] = conn[d] /\ wire'[d] = wire[d]
  BY <1>1, <1>3 DEF LineTypes
<1>6. LineTypes'
  <2>1. <<>> \in Seq(Chars)
    BY EmptySeq
  <2> QED BY <1>1, <1>3, <2>1 DEF LineTypes
<1>7. ASSUME NEW d \in Clients \ {c} PROVE WireInv(d)' /\ ConnInv(d)'
  BY <1>1, <1>3, <1>5, OthersKept
<1>8. WireInv(c)'
  <2>1. Got(c)' = sent[c]
    <3>1. Got(c)' = sent[c] - 0
      BY <1>3, <1>5, EmptySeq DEF Got
    <3> QED BY <1>4, <3>1
  <2>2. Piece(c, sent[c], sent[c]) = <<>> /\ sent[c] \in 0 .. Total(c) /\ sent[c] \in 0 .. sent[c]
    BY <1>4, NoBytes
  <2>3. sent' = sent
    BY <1>3
  <2> QED BY <1>5, <2>1, <2>2, <2>3 DEF WireInv
<1>9. ASSUME LinesFit(c) PROVE client[c] = "done" /\ printed[c] = Lines(Stream(c))
  <2>1. Done \in {0} \cup Ends(Stream(c)) /\ NoEnd(c, Done, Got(c))
    BY <1>1, <1>2 DEF BufferInv
  <2>2. Room(inbuf) # 0
    <3> SUFFICES ASSUME Room(inbuf) = 0 PROVE FALSE
      OBVIOUS
    <3>1. BufSize = inbuf
      BY <1>4 DEF Room
    <3>2. Got(c) = Done + BufSize /\ ~(Total(c) - Done < BufSize)
      <4>1. Got(c) = Done + BufSize /\ Done + BufSize =< Total(c)
        BY <1>4, <3>1
      <4> QED BY <1>4, <4>1
    <3>3. PICK e \in Ends(Stream(c)) : Done < e /\ e =< Done + BufSize
      BY <1>9, <2>1, <3>2 DEF LinesFit
    <3> QED BY <2>1, <3>2, <3>3 DEF NoEnd
  <2>3. wire[c] = <<>> /\ client[c] \in {"done", "killed"}
    BY <1>1, <1>2, <2>2 DEF ReadsNothing
  <2>4. client[c] = "done" /\ sent[c] = Total(c)
    BY <1>4, <2>3 DEF ConnInv
  <2>5. Received(c) = Stream(c)
    <3>1. sent[c] - Len(wire[c]) = Len(Stream(c))
      BY <1>4, <2>3, <2>4, EmptySeq
    <3>2. SubSeq(Stream(c), 1, Len(Stream(c))) = Stream(c)
      BY <1>4, SubSeqFull
    <3> QED BY <3>1, <3>2 DEF Received
  <2> QED BY <1>1, <1>2, <2>4, <2>5, PrintedInRead
<1>10. ConnInv(c)'
  <2>1. client' = client /\ sent' = sent /\ printed' = printed
    BY <1>3
  <2>2. client[c] # "new" /\ (client[c] = "done" => sent[c] = Total(c))
    BY <1>4 DEF ConnInv
  <2> QED BY <1>5, <1>9, <2>1, <2>2 DEF ConnInv
<1>11. BufferInv'
  BY <1>3 DEF BufferInv
<1>12. \A d \in Clients : d = c \/ d \in Clients \ {c}
  OBVIOUS
<1> QED BY <1>6, <1>7, <1>8, <1>10, <1>11, <1>12 DEF LineInv

(* A newline that has arrived and is not printed is in the buffer: its two *)
(* bytes are not divided by the end of the last line.                      *)
NewlineAt(i) == i \in 0 .. inbuf - 2 /\ buf[i] = CR /\ buf[i + 1] = LF

LEMMA EndInBuffer ==
  ASSUME LineInv, step # "accept", NEW d \in Ends(Stream(clientfd)), Done < d, d =< Got(clientfd)
  PROVE  NewlineAt(d - Done - 2)
<1>1. PICK c \in Clients : c = clientfd
  BY DEF LineInv, BufferInv
<1> DEFINE s == Stream(c)
           p == Done
           i == d - p - 2
<1>2. /\ Len(s) \in Nat /\ inbuf \in Nat /\ p \in Nat /\ Got(c) = p + inbuf
      /\ p \in {0} \cup Ends(s) /\ \A j \in 0 .. inbuf - 1 : buf[j] = s[p + j + 1]
  <2>1. /\ Len(s) = Total(c) /\ Total(c) \in Nat /\ inbuf \in Nat /\ p \in Nat /\ Got(c) = p + inbuf
    BY <1>1, ServedClient
  <2>2. p \in {0} \cup Ends(s) /\ \A j \in 0 .. inbuf - 1 : buf[j] = s[p + j + 1]
    BY <1>1 DEF LineInv, BufferInv
  <2> QED BY <2>1, <2>2
<1>3. p < d /\ d =< p + inbuf /\ d \in Ends(s)
  BY <1>1, <1>2
<1> HIDE DEF s, p
<1>4. d \in 2 .. Len(s) /\ s[d - 1] = CR /\ s[d] = LF
  BY <1>3 DEF Ends
<1>5. d # p + 1
  <2> SUFFICES ASSUME d = p + 1 PROVE FALSE
    OBVIOUS
  <2>1. p # 0 /\ d - 1 = p
    BY <1>2, <1>4
  <2>2. s[p] = LF
    BY <1>2, <2>1 DEF Ends
  <2> QED BY <1>4, <2>1, <2>2 DEF CR, LF
<1>6. /\ i \in 0 .. inbuf - 2 /\ i \in 0 .. inbuf - 1 /\ i + 1 \in 0 .. inbuf - 1
      /\ p + i + 1 = d - 1 /\ p + (i + 1) + 1 = d
  BY <1>2, <1>3, <1>4, <1>5
<1> HIDE DEF i
<1>7. buf[i] = CR /\ buf[i + 1] = LF
  BY <1>2, <1>4, <1>6
<1> QED BY <1>6, <1>7 DEF NewlineAt, i, p

LEMMA ReadMoreInv == ASSUME LineInv, ReadMore PROVE LineInv'
<1>1. /\ LineTypes /\ BufferInv /\ (\A d \in Clients : WireInv(d) /\ ConnInv(d))
      /\ step = "scan" /\ FindNetworkNewline(inbuf) =< 0
  BY DEF LineInv, ReadMore
<1>2. PICK c \in Clients : c = clientfd
  BY <1>1 DEF BufferInv
<1>3. step' = "read" /\ UNCHANGED <<clientfd, buf, inbuf, conn, client, sent, wire, printed>>
  BY DEF ReadMore
<1>4. \A i : ~NewlineAt(i)
  <2> DEFINE found == {i \in 0 .. inbuf - 2 : buf[i] = CR /\ buf[i + 1] = LF}
  <2>1. FindNetworkNewline(inbuf) = IF found = {} THEN -1 ELSE Min(found) + 2
    BY DEF FindNetworkNewline
  <2>2. found \in SUBSET Nat
    OBVIOUS
  <2>3. \A i : NewlineAt(i) => i \in found
    BY DEF NewlineAt
  <2> HIDE DEF found
  <2>4. found = {}
    <3> SUFFICES ASSUME found # {} PROVE FALSE
      OBVIOUS
    <3>1. Min(found) \in Nat
      BY <2>2, MinOf
    <3> QED BY <1>1, <2>1, <3>1
  <2> QED BY <2>3, <2>4
<1>5. NoEnd(c, Done, Got(c))
  BY <1>1, <1>2, <1>4, EndInBuffer DEF NoEnd
<1>6. UNCHANGED <<Got(c), Done>>
  BY <1>3 DEF Got, Done
<1>7. LineTypes'
  BY <1>1, <1>3 DEF LineTypes
<1>8. ASSUME NEW d \in Clients PROVE WireInv(d)' /\ ConnInv(d)'
  BY <1>1, <1>3, OthersKept
<1>9. BufferInv'
  BY <1>1, <1>2, <1>3, <1>5, <1>6 DEF BufferInv
<1> QED BY <1>7, <1>8, <1>9 DEF LineInv

(* A printed line is the bytes from the end of the one before it to the    *)
(* first newline in the buffer.                                            *)
LEMMA PrintLineInv == ASSUME LineInv, PrintLine PROVE LineInv'
<1>1. /\ LineTypes /\ BufferInv /\ (\A d \in Clients : WireInv(d) /\ ConnInv(d)) /\ step = "scan"
  BY DEF LineInv, PrintLine
<1>2. PICK c \in Clients : c = clientfd
  BY <1>1 DEF BufferInv
<1> DEFINE where == FindNetworkNewline(inbuf)
           leftover == inbuf - where
           line == [i \in 1 .. where - 2 |-> buf[i - 1]]
           m == where - 2
           s == Stream(c)
           p == Done
           e == p + where
<1>3. /\ where > 0 /\ inbuf' = leftover
      /\ printed' = [printed EXCEPT ![c] = Append(@, line)]
      /\ buf' = [j \in Index |-> IF j < leftover THEN buf[where + j]
                                 ELSE IF j = where - 2 THEN NUL ELSE buf[j]]
      /\ UNCHANGED <<step, clientfd, conn, client, sent, wire>>
  BY <1>2 DEF PrintLine, TakeLine
<1>4. /\ s \in Seq(Chars) /\ Len(s) \in Nat /\ inbuf \in Nat /\ BufSize \in Nat /\ inbuf =< BufSize
      /\ p \in Nat /\ Got(c) = p + inbuf /\ Got(c) =< Len(s) /\ LineStart(s, p)
  <2>1. /\ s \in Seq(Chars) /\ Len(s) = Total(c) /\ Total(c) \in Nat
        /\ sent[c] \in Nat /\ sent[c] =< Total(c)
        /\ inbuf \in Nat /\ BufSize \in Nat /\ inbuf =< BufSize
        /\ p \in Nat /\ Got(c) = p + inbuf /\ Got(c) =< sent[c] /\ LineStart(s, p)
    BY <1>1, <1>2, ServedClient
  <2> QED BY <2>1
<1>5. /\ \A j \in 0 .. inbuf - 1 : buf[j] = s[p + j + 1]
      /\ printed[c] = Lines(Piece(c, 0, p))
  BY <1>1, <1>2 DEF BufferInv
<1>6. where \in Int /\ NewlineAt(m) /\ \A i : NewlineAt(i) => m =< i
  <2> DEFINE found == {i \in 0 .. inbuf - 2 : buf[i] = CR /\ buf[i + 1] = LF}
  <2>1. where = IF found = {} THEN -1 ELSE Min(found) + 2
    BY DEF FindNetworkNewline
  <2>2. found \in SUBSET Nat
    OBVIOUS
  <2>3. \A i : NewlineAt(i) <=> i \in found
    BY DEF NewlineAt
  <2> HIDE DEF found, where
  <2>4. found # {}
    BY <1>3, <2>1
  <2>5. Min(found) \in found /\ \A i \in found : Min(found) =< i
    BY <2>2, <2>4, MinOf
  <2>6. m = Min(found) /\ where \in Int
    <3>1. where = Min(found) + 2 /\ Min(found) \in Nat
      BY <2>1, <2>2, <2>4, <2>5
    <3> QED BY <3>1
  <2> HIDE DEF m
  <2> QED BY <2>3, <2>5, <2>6
<1>7. m \in 0 .. inbuf - 2 /\ buf[m] = CR /\ buf[m + 1] = LF
  BY <1>6 DEF NewlineAt
<1> HIDE DEF where, s, p
<1>8. /\ m \in Nat /\ where = m + 2 /\ m + 2 =< inbuf /\ leftover \in Nat /\ leftover + where = inbuf
      /\ e \in Nat /\ e =< Got(c) /\ e = p + m + 2 /\ e - 2 = p + m /\ p =< e - 2 /\ p < e
  BY <1>4, <1>6, <1>7
(* The stream has a newline there, the first after p.                      *)
<1>9. e \in Ends(s)
  <2>1. m \in 0 .. inbuf - 1 /\ m + 1 \in 0 .. inbuf - 1 /\ p + (m + 1) + 1 = e /\ p + m + 1 = e - 1
    <3>1. m \in Nat /\ inbuf \in Nat /\ p \in Nat /\ m + 2 =< inbuf /\ e = p + m + 2
      BY <1>4, <1>8
    <3> HIDE DEF e, m
    <3> QED BY <3>1
  <2>2. s[e - 1] = CR /\ s[e] = LF
    BY <1>5, <1>7, <2>1
  <2>3. e \in 2 .. Len(s)
    BY <1>4, <1>8
  <2> QED BY <2>2, <2>3 DEF Ends
<1>10. \A d \in Ends(s) : ~(p < d /\ d < e)
  <2> SUFFICES ASSUME NEW d \in Ends(s), p < d, d < e PROVE FALSE
    OBVIOUS
  <2>1. d \in Nat
    BY <1>4 DEF Ends
  <2>2. d =< Got(c)
    BY <1>4, <1>8, <2>1
  <2>3. NewlineAt(d - p - 2)
    BY <1>1, <1>2, <2>2, EndInBuffer DEF s, p
  <2>4. m =< d - p - 2
    BY <1>6, <2>3
  <2> QED BY <1>4, <1>8, <2>1, <2>4
<1> HIDE DEF e, m, line, leftover
<1>11. /\ LineStart(s, e)
       /\ Lines(SubSeq(s, 1, e)) = Append(Lines(SubSeq(s, 1, p)), SubSeq(s, p + 1, e - 2))
  BY <1>4, <1>8, <1>9, <1>10, LinesStep
<1>12. line = SubSeq(s, p + 1, e - 2) /\ line \in Seq(Chars)
  <2> DEFINE k == e - 2
  <2>1. k \in Nat /\ p =< k /\ k =< Len(s) /\ k - p = m
    BY <1>4, <1>8
  <2> HIDE DEF k
  <2>2. /\ SubSeq(s, p + 1, k) \in Seq(Chars) /\ Len(SubSeq(s, p + 1, k)) = k - p
        /\ \A i \in 1 .. k - p : SubSeq(s, p + 1, k)[i] = s[p + i]
    BY <1>4, <2>1, MiddleBytes
  <2>3. line = [i \in 1 .. m |-> buf[i - 1]]
    BY DEF line, m
  <2>4. \A i \in 1 .. m : buf[i - 1] = s[p + i]
    <3> TAKE i \in 1 .. m
    <3>1. i - 1 \in 0 .. inbuf - 1 /\ p + (i - 1) + 1 = p + i
      BY <1>4, <1>8
    <3> QED BY <1>5, <3>1
  <2> DEFINE t == SubSeq(s, p + 1, k)
  <2>5. t \in Seq(Chars) /\ Len(t) = m /\ \A i \in 1 .. m : t[i] = buf[i - 1]
    BY <2>1, <2>2, <2>4
  <2> HIDE DEF t
  <2>6. t = [i \in 1 .. m |-> t[i]]
    BY <2>5, LenProperties
  <2>7. t = line
    BY <2>3, <2>5, <2>6
  <2> QED BY <2>5, <2>7 DEF t, k
<1>13. /\ printed'[c] = Append(printed[c], line)
       /\ printed' \in [Clients -> Seq(Seq(Chars))]
       /\ \A d \in Clients \ {c} : printed'[d] = printed[d]
  <2>1. Append(printed[c], line) \in Seq(Seq(Chars))
    BY <1>1, <1>12, AppendProperties DEF LineTypes
  <2> QED BY <1>1, <1>3, <2>1 DEF LineTypes
<1>14. printed'[c] = Lines(Piece(c, 0, e)) /\ EndsListed(Piece(c, 0, e))
  <2>1. Piece(c, 0, e) = SubSeq(s, 1, e) /\ Piece(c, 0, p) = SubSeq(s, 1, p)
    BY DEF Piece, s
  <2>2. EndsListed(SubSeq(s, 1, e))
    BY <1>11 DEF LineStart
  <2> QED BY <1>5, <1>11, <1>12, <1>13, <2>1, <2>2
<1>15. Got(c)' = Got(c) /\ Done' = e
  <2>1. Got(c)' = Got(c)
    BY <1>3 DEF Got
  <2>2. Done' = Got(c)' - inbuf'
    BY <1>2, <1>3 DEF Done, Got
  <2>3. Got(c) - leftover = e
    BY <1>4, <1>8 DEF e
  <2> QED BY <1>3, <2>1, <2>2, <2>3
<1>16. \A i \in 0 .. inbuf' - 1 : buf'[i] = s[e + i + 1]
  <2> SUFFICES ASSUME NEW i \in 0 .. leftover - 1 PROVE buf'[i] = s[e + i + 1]
    BY <1>3
  <2>1. i \in 0 .. BufSize - 1 /\ i < leftover /\ where + i \in 0 .. inbuf - 1
        /\ p + (where + i) + 1 = e + i + 1
    BY <1>4, <1>8 DEF e
  <2>2. buf'[i] = buf[where + i]
    BY <1>3, <2>1 DEF Index
  <2> QED BY <1>5, <2>1, <2>2
<1>17. LineTypes'
  <2>1. inbuf' \in 0 .. BufSize
    BY <1>3, <1>4, <1>8
  <2> QED BY <1>1, <1>3, <1>13, <2>1 DEF LineTypes
<1>18. ASSUME NEW d \in Clients \ {c} PROVE WireInv(d)' /\ ConnInv(d)'
  BY <1>1, <1>3, <1>13, OthersKept
<1>19. WireInv(c)' /\ ConnInv(c)'
  <2>1. WireInv(c)'
    BY <1>1, <1>3, <1>15 DEF WireInv
  <2>2. conn[c] = "open"
    BY <1>1, <1>2 DEF BufferInv
  <2>3. ConnInv(c)'
    BY <1>1, <1>3, <1>15, <2>2 DEF ConnInv
  <2> QED BY <2>1, <2>3
<1>20. BufferInv'
  <2>1. Done' \in Ends(Stream(c)) /\ conn[c] = "open"
    BY <1>1, <1>2, <1>9, <1>15 DEF BufferInv, s
  <2>2. clientfd' = c /\ step' = "scan" /\ conn' = conn
    BY <1>1, <1>2, <1>3
  <2>3. \A i \in 0 .. inbuf' - 1 : buf'[i] = Stream(c)[Done' + i + 1]
    BY <1>15, <1>16 DEF s
  <2>4. printed'[c] = Lines(Piece(c, 0, Done')) /\ EndsListed(Piece(c, 0, Done'))
    BY <1>14, <1>15
  <2> QED BY <2>1, <2>2, <2>3, <2>4 DEF BufferInv
<1>21. \A d \in Clients : d = c \/ d \in Clients \ {c}
  OBVIOUS
<1> QED BY <1>17, <1>18, <1>19, <1>20, <1>21 DEF LineInv

LEMMA LineInductive == LineInv /\ [LineNext]_lineVars => LineInv'
<1> SUFFICES ASSUME LineInv, [LineNext]_lineVars PROVE LineInv'
  OBVIOUS
<1>1. CASE Server
  BY <1>1, AcceptInv, ReadInv, CloseConnectionInv, PrintLineInv, ReadMoreInv DEF Server
<1>2. ASSUME NEW c \in Clients, Client(c) PROVE LineInv'
  BY <1>2, ClientInv, WritePieceInv DEF Client
<1>3. CASE UNCHANGED lineVars
  <2>1. UNCHANGED <<step, clientfd, buf, inbuf, printed, conn, client, sent, wire>>
    BY <1>3 DEF lineVars, serverVars
  <2>2. LineTypes /\ BufferInv /\ \A d \in Clients : WireInv(d) /\ ConnInv(d)
    BY DEF LineInv
  <2>3. LineTypes'
    BY <2>1, <2>2 DEF LineTypes
  <2>4. UNCHANGED <<Done, Got(clientfd)>>
    BY <2>1 DEF Done, Got
  <2>5. BufferInv'
    BY <2>1, <2>2, <2>4 DEF BufferInv
  <2>6. ASSUME NEW d \in Clients PROVE WireInv(d)' /\ ConnInv(d)'
    BY <2>1, <2>2, OthersKept
  <2> QED BY <2>3, <2>5, <2>6 DEF LineInv
<1> QED BY <1>1, <1>2, <1>3 DEF LineNext, Quiet

(* The inductive invariant of the line server and its clients: where the   *)
(* bytes of a client's stream are, on the wire, in the buffer, printed.    *)
THEOREM LineInvariantCorrect == LineSpec => []LineInv
BY LineInitial, LineInductive, PTL DEF LineSpec

(* Before the server waits in read() it has printed exactly the lines that *)
(* have arrived, for every message, every cutting of the bytes into pieces *)
(* and reads, every size of the buffer and any number of clients.          *)
THEOREM LinesPrintedCorrect == LineSpec => []LinesPrinted
<1>1. LineInv => LinesPrinted
  BY PrintedInRead DEF LinesPrinted
<1> QED BY <1>1, LineInvariantCorrect, PTL

(* A client whose lines fit in the buffer is served to its end: no         *)
(* connection is closed before its last line is printed.                   *)
THEOREM ClosedAfterLastLineCorrect == LineSpec => []ClosedAfterLastLine
<1>1. LineInv => ClosedAfterLastLine
  BY DEF LineInv, ConnInv, ClosedAfterLastLine
<1> QED BY <1>1, LineInvariantCorrect, PTL
=============================================================================
