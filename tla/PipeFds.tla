------------------------------- MODULE PipeFds -------------------------------
(***************************************************************************)
(* The descriptor tables of the RAID's processes (src/FinalProject).  Each *)
(* disk has a command pipe and a reply pipe; fork() gives a child every    *)
(* descriptor its parent has, and init_disk and restart_disk close what    *)
(* the child must not keep, by the numbers found in controllers[], some of *)
(* which the parent has closed and the kernel has given out again.  The    *)
(* parent notices a dead disk, and a disk the end of its parent, only when *)
(* no process holds the other end of the pipe any more: what module Raid   *)
(* takes for granted.                                                      *)
(***************************************************************************)
EXTENDS Integers, FiniteSets

CONSTANTS NumDisks,   \* num_disks: data disks; the parity disk comes after them
          Fds,        \* descriptor numbers, 0 to 2 are the standard ones
          MaxStarts   \* bound: times one disk is started

Std   == 0 .. 2
Disks == 0 .. NumDisks

ASSUME NumDisksAssumption == NumDisks \in Nat \ {0}
ASSUME FdsAssumption == Fds \subseteq Nat /\ Std \subseteq Fds
ASSUME MaxStartsAssumption == MaxStarts \in Nat

Starts == 0 .. MaxStarts
Free   == [use |-> "free", disk |-> 0, start |-> 0]
StdIo  == [use |-> "std", disk |-> 0, start |-> 0]
File   == [use |-> "file", disk |-> 0, start |-> 0]

(* The ends of the pipes made for the n-th start of disk d.                *)
CmdR(d, n)   == [use |-> "cmdR", disk |-> d, start |-> n]
CmdW(d, n)   == [use |-> "cmdW", disk |-> d, start |-> n]
ReplyR(d, n) == [use |-> "replyR", disk |-> d, start |-> n]
ReplyW(d, n) == [use |-> "replyW", disk |-> d, start |-> n]

PipeUses == {"cmdR", "cmdW", "replyR", "replyW"}
Entry == [use : {"free", "std", "file"} \cup PipeUses, disk : Disks, start : Starts]
Table == [Fds -> Entry]
Numbers == [cmdR : Fds, cmdW : Fds, replyR : Fds, replyW : Fds]

VARIABLES
  pc,        \* the parent: in init_all_controllers or restart_disk, before ("init") or
             \* after fork() ("initClose", "restartClose"), "idle", or "gone"
  cur,       \* the disk it initialises or restarts
  parent,    \* its descriptor table
  controllers, \* to_disk and from_disk of each disk
  fp,        \* the descriptor of wb's data file, or -1
  starts,    \* how often each disk was started
  alive,     \* the disks with a live process
  child,     \* the descriptor table of each disk process
  copy,      \* its copy of controllers[], made by fork()
  left       \* the disks whose numbers it has still to close before it runs start_disk

parentVars == <<pc, cur, parent, controllers, fp>>
childVars  == <<alive, child, copy, left>>
vars == <<parentVars, starts, childVars>>

Closing == {"initClose", "restartClose"}
Empty == [n \in Fds |-> Free]

TypeOK ==
  /\ pc \in {"init", "idle", "gone"} \cup Closing
  /\ cur \in Disks
  /\ parent \in Table
  /\ controllers \in [Disks -> Numbers]
  /\ fp \in Fds \cup {-1}
  /\ starts \in [Disks -> Starts]
  /\ alive \subseteq Disks
  /\ child \in [Disks -> Table]
  /\ copy \in [Disks -> [Disks -> Numbers]]
  /\ left \in [Disks -> SUBSET Disks]

-----------------------------------------------------------------------------
(* The number the kernel gives out next, if there is one: the lowest free. *)
NextFd(t) == {n \in Fds : t[n] = Free /\ \A k \in Fds : k < n => t[k] # Free}

NumbersOf(c) == {c.cmdR, c.cmdW, c.replyR, c.replyW}

(* The disks whose numbers the child of init_disk and restart_disk closes. *)
InitOthers(d) == 0 .. d - 1
RestartOthersBelow(d) == 0 .. d - 1              \* mutant: the loop of init_disk
RestartOthers(d) == Disks \ {d}

RoundKeepsOwn(c, d, k) ==            \* mutant: its parent's ends of its own pipes stay open
  IF k = d THEN {} ELSE NumbersOf(c[k]) \ {c[d].cmdR, c[d].replyW}

(* What a child closes by controllers[k], c being its copy: of its own     *)
(* pipes the ends of its parent, of another disk's every number that is    *)
(* not now one of its own two.                                             *)
Round(c, d, k) ==
  IF k = d THEN {c[d].cmdW, c[d].replyR}
  ELSE NumbersOf(c[k]) \ {c[d].cmdR, c[d].replyW}

(* fork(), in a parent with this table and these numbers for disk d.       *)
Forked(d, others, next, table, numbers) ==
  /\ starts[d] < MaxStarts
  /\ starts' = [starts EXCEPT ![d] = @ + 1]
  /\ controllers' = [controllers EXCEPT ![d] = numbers]
  /\ parent' = table
  /\ child' = [child EXCEPT ![d] = table]
  /\ copy' = [copy EXCEPT ![d] = controllers']
  /\ left' = [left EXCEPT ![d] = {d} \cup others]
  /\ alive' = alive \cup {d}
  /\ pc' = next /\ cur' = d
  /\ UNCHANGED fp

(* pipe(), pipe(), fork(), in a parent whose table is t.                   *)
Fork(t, d, others, next) ==
  LET n == starts[d] + 1 IN
  \E r \in NextFd(t) :   LET t1 == [t EXCEPT ![r] = CmdR(d, n)] IN
  \E w \in NextFd(t1) :  LET t2 == [t1 EXCEPT ![w] = CmdW(d, n)] IN
  \E fr \in NextFd(t2) : LET t3 == [t2 EXCEPT ![fr] = ReplyR(d, n)] IN
  \E fw \in NextFd(t3) :
    Forked(d, others, next, [t3 EXCEPT ![fw] = ReplyW(d, n)],
           [cmdR |-> r, cmdW |-> w, replyR |-> fr, replyW |-> fw])

InitDisk == pc = "init" /\ Fork(parent, cur, InitOthers(cur), "initClose")

LastDisk(i) == i = NumDisks

CloseChildEndsReplyOnly ==                      \* mutant: to_disk[0] stays open in the parent
  /\ pc \in Closing
  /\ parent' = [parent EXCEPT ![controllers[cur].replyW] = Free]
  /\ \/ pc = "initClose" /\ ~LastDisk(cur) /\ pc' = "init" /\ cur' = cur + 1
     \/ (pc = "restartClose" \/ LastDisk(cur)) /\ pc' = "idle" /\ cur' = cur
  /\ UNCHANGED <<controllers, fp, starts, childVars>>

(* The rest of init_disk and restart_disk in the parent.                   *)
CloseChildEnds ==
  /\ pc \in Closing
  /\ parent' = [parent EXCEPT ![controllers[cur].cmdR] = Free,
                              ![controllers[cur].replyW] = Free]
  /\ \/ pc = "initClose" /\ ~LastDisk(cur) /\ pc' = "init" /\ cur' = cur + 1
     \/ (pc = "restartClose" \/ LastDisk(cur)) /\ pc' = "idle" /\ cur' = cur
  /\ UNCHANGED <<controllers, fp, starts, childVars>>

(* No process holds an end of the kind use of the pipe e is an end of.     *)
NoHolder(use, e) ==
  LET other == [e EXCEPT !.use = use] IN
  /\ \A n \in Fds : parent[n] # other
  /\ \A d \in alive, n \in Fds : child[d][n] # other

KeepOldEnds(d) == parent                        \* mutant: the old ends stay open
CloseOldEnds(d) ==
  [parent EXCEPT ![controllers[d].cmdW] = Free, ![controllers[d].replyR] = Free]

(* A write to the command pipe of d meets EPIPE: restore_disk_process, up  *)
(* to the fork of restart_disk.                                            *)
Restore(d) ==
  /\ pc = "idle"
  /\ NoHolder("cmdR", parent[controllers[d].cmdW])
  /\ Fork(CloseOldEnds(d), d, RestartOthers(d), "restartClose")

(* wb's file is open for as long as write_block runs, a restore included.  *)
OpenFile ==
  /\ pc = "idle" /\ fp = -1
  /\ \E n \in NextFd(parent) : fp' = n /\ parent' = [parent EXCEPT ![n] = File]
  /\ UNCHANGED <<pc, cur, controllers, starts, childVars>>

CloseFile ==
  /\ pc = "idle" /\ fp # -1
  /\ parent' = [parent EXCEPT ![fp] = Free]
  /\ fp' = -1
  /\ UNCHANGED <<pc, cur, controllers, starts, childVars>>

(* The controller ends: after exit, by a fatal error, or by a signal.      *)
ParentEnds ==
  /\ pc # "gone"
  /\ pc' = "gone" /\ parent' = Empty /\ fp' = -1
  /\ UNCHANGED <<cur, controllers, starts, childVars>>

-----------------------------------------------------------------------------
(* One round of the child's close() loop: its own pipes first, then the    *)
(* other disks in order.                                                   *)
CloseInherited(d) ==
  /\ d \in alive
  /\ \E k \in left[d] :
       /\ k = d \/ (d \notin left[d] /\ \A j \in left[d] : k =< j)
       /\ child' = [child EXCEPT ![d] =
                      [n \in Fds |-> IF n \in Round(copy[d], d, k) THEN Free ELSE @[n]]]
       /\ left' = [left EXCEPT ![d] = @ \ {k}]
  /\ UNCHANGED <<parentVars, starts, alive, copy>>

End(d) ==
  /\ alive' = alive \ {d}
  /\ child' = [child EXCEPT ![d] = Empty]
  /\ left' = [left EXCEPT ![d] = {}]
  /\ UNCHANGED <<parentVars, starts, copy>>

(* End of file on the command pipe.                                        *)
DiskEof(d) ==
  /\ d \in alive /\ left[d] = {}
  /\ NoHolder("cmdW", child[d][copy[d][d].cmdR])
  /\ End(d)

(* kill, exit, or a death of any other cause, the loop of closes included. *)
DiskDies(d) == d \in alive /\ End(d)

-----------------------------------------------------------------------------
(* controllers[] after its memset.                                         *)
Zeroed == [d \in Disks |-> [cmdR |-> 0, cmdW |-> 0, replyR |-> 0, replyW |-> 0]]

Init ==
  /\ pc = "init" /\ cur = 0 /\ fp = -1
  /\ parent = [n \in Fds |-> IF n \in Std THEN StdIo ELSE Free]
  /\ controllers = Zeroed
  /\ starts = [d \in Disks |-> 0]
  /\ alive = {}
  /\ child = [d \in Disks |-> Empty]
  /\ copy = [d \in Disks |-> Zeroed]
  /\ left = [d \in Disks |-> {}]

Parent == InitDisk \/ CloseChildEnds \/ (\E d \in Disks : Restore(d)) \/ OpenFile \/ CloseFile \/ ParentEnds
DiskProcess(d) == CloseInherited(d) \/ DiskEof(d)

(* Every process has ended.                                                *)
Terminated == pc = "gone" /\ alive = {} /\ UNCHANGED vars

Next ==
  \/ Parent
  \/ \E d \in Disks : DiskProcess(d) \/ DiskDies(d)
  \/ Terminated

Spec == Init /\ [][Next]_vars

(* Disk processes run; the controller need not go on and no disk need die. *)
FairSpec == Spec /\ \A d \in Disks : WF_vars(DiskProcess(d))

-----------------------------------------------------------------------------
(* Between commands the parent has, at the numbers in controllers[], its   *)
(* ends of every disk's pipes, dead disks' included, and no other end: it  *)
(* writes to the disk it means, and restarts do not use up descriptors.    *)
ParentTableExact ==
  pc = "idle" =>
    /\ \A d \in Disks : /\ parent[controllers[d].cmdW] = CmdW(d, starts[d])
                        /\ parent[controllers[d].replyR] = ReplyR(d, starts[d])
    /\ \A n \in Fds : parent[n].use \in PipeUses =>
         \E d \in Disks : n \in {controllers[d].cmdW, controllers[d].replyR}
    /\ \A n \in Std : parent[n] = StdIo

(* A disk that has closed what it had to has its own two ends, at the      *)
(* numbers it was given, no other pipe end, and its standard streams.      *)
ChildTableExact ==
  \A d \in alive : left[d] = {} =>
    /\ child[d][controllers[d].cmdR] = CmdR(d, starts[d])
    /\ child[d][controllers[d].replyW] = ReplyW(d, starts[d])
    /\ \A n \in Fds \ {controllers[d].cmdR, controllers[d].replyW} :
         child[d][n].use \notin PipeUses
    /\ \A n \in Std : child[d][n] = StdIo

(* A death is noticed at once: when a disk is dead, and its parent does    *)
(* not just start it, EPIPE and end of file are what the parent gets.      *)
DeathNoticed ==
  pc = "idle" =>
    \A d \in Disks \ alive :
      /\ NoHolder("cmdR", CmdW(d, starts[d]))
      /\ NoHolder("replyW", ReplyR(d, starts[d]))

(* A disk is restarted only when its process has ended: no two processes   *)
(* serve one disk or write one checkpoint file.                            *)
OneProcessPerDisk ==
  [][\A d \in Disks : starts'[d] # starts[d] => d \notin alive]_vars

(* When the controller has gone, end of file reaches every disk, through   *)
(* whatever copies of its command pipe other disks have inherited.         *)
EofReachesDisks == pc = "gone" ~> alive = {}
-----------------------------------------------------------------------------
(* The inductive invariant of the tables.                                  *)

Made == {d \in Disks : starts[d] > 0}

(* The four numbers of a disk are not standard ones, and what a child      *)
(* keeps is not what it closes.                                            *)
NumbersApart(c) ==
  /\ NumbersOf(c) \cap Std = {}
  /\ {c.cmdW, c.replyR} \cap {c.cmdR, c.replyW} = {}

(* The parent's table, at any point of init_disk and restart_disk.         *)
ParentInv ==
  /\ pc = "init" => Made = 0 .. cur - 1
  /\ pc = "initClose" => Made = 0 .. cur
  /\ pc \in {"idle", "restartClose"} => Made = Disks
  /\ \A d \in Made : NumbersApart(controllers[d])
  /\ pc = "gone" => parent = Empty
  /\ pc # "gone" =>
       /\ \A n \in Std : parent[n] = StdIo
       /\ fp # -1 => parent[fp] = File
       /\ \A d \in Made : /\ parent[controllers[d].cmdW] = CmdW(d, starts[d])
                          /\ parent[controllers[d].replyR] = ReplyR(d, starts[d])
       /\ pc \in Closing => /\ parent[controllers[cur].cmdR] = CmdR(cur, starts[cur])
                            /\ parent[controllers[cur].replyW] = ReplyW(cur, starts[cur])
       /\ \A n \in Fds : parent[n].use \in PipeUses =>
            \E d \in Made :
              \/ n \in {controllers[d].cmdW, controllers[d].replyR}
              \/ pc \in Closing /\ d = cur /\ n \in {controllers[d].cmdR, controllers[d].replyW}

(* The table of a disk process: what it has beside its own two ends it     *)
(* will close, and it never had a reading end of another disk's commands   *)
(* or a writing end of another disk's replies.                             *)
ChildInv ==
  \A d \in alive :
    /\ d \in Made
    /\ copy[d][d] = controllers[d]
    /\ child[d][controllers[d].cmdR] = CmdR(d, starts[d])
    /\ child[d][controllers[d].replyW] = ReplyW(d, starts[d])
    /\ \A n \in Std : child[d][n] = StdIo
    /\ \A n \in Fds \ {controllers[d].cmdR, controllers[d].replyW} :
         /\ child[d][n].use \notin {"cmdR", "replyW"}
         /\ child[d][n].use \in PipeUses => \E k \in left[d] : n \in Round(copy[d], d, k)
    /\ \A k \in left[d] : NumbersApart(copy[d][k])

FdInv == TypeOK /\ ParentInv /\ ChildInv

=============================================================================
