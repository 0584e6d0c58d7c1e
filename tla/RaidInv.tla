------------------------------ MODULE RaidInv -------------------------------
(***************************************************************************)
(* The inductive invariants behind the safety properties of Raid.  They    *)
(* are model-checked here and proved in RaidProofs.                        *)
(***************************************************************************)
EXTENDS Raid

(* At most one restore is under way, and the controller has not given up.  *)
(* A second restore, started within the first, always ends in the fatal    *)
(* exit, so nothing need hold of the disks from there on; nor when the     *)
(* controller was killed in the middle of a command.                       *)
Healthy == pc \notin {"fatal", "killed"} /\ Len(rst) =< 1

(* The disk and the slot of the command's current step.                    *)
ReqDisk == DiskOf(req.blk, CommandAccess.parity)

Row(s) == [d \in Disks |-> Logical(d, s)]

(* The blocks allowed to differ from the layout: the data block between    *)
(* the two writes of write_block, and what a restore has not reached.      *)
Exempt(d, s) ==
  \/ rst = <<>> /\ pc = "newData" /\ d = ReqDisk /\ s = SlotOf(req.blk)
  \/ rst # <<>> /\ d = Head(rst).disk /\ s >= Head(rst).stripe

DisksHold ==
  \A d \in Disks : proc[d] = "running" =>
    \A s \in Stripes : Exempt(d, s) \/ Holds(d, s, Logical(d, s))

(* A restore is of the disk the command was accessing, and has accumulated *)
(* the blocks it read.                                                     *)
RestoreSums ==
  rst # <<>> =>
    LET f == Head(rst) IN
    /\ pc \in Accessing
    /\ f.disk = ReqDisk
    /\ f.left \subseteq Sources(f.disk)
    /\ f.stripe < BlocksPerDisk => f.acc = XorOver(Sources(f.disk) \ f.left, Row(f.stripe))

(* What write_block has in its buffers is what the volume says.            *)
BuffersMatch ==
  /\ pc \in {"oldParity", "newParity"} => reg.data = vol[req.blk]
  /\ pc = "newParity" => reg.parity = Logical(ParityDisk, SlotOf(req.blk))
  /\ pc = "newData" => vol[req.blk] = req.data

(* One request is outstanding at most: a read command is the last message  *)
(* of the pipe of the disk the controller waits for, and its answer is the *)
(* block of the layout.                                                    *)
Waiting(d) == phase = "recv" /\ Ready /\ Access.op = "read" /\ d = Target

RepliesRight ==
  \A d \in Disks : fromDisk[d] # <<>> => Waiting(d) /\ fromDisk[d] = <<Logical(d, Slot)>>

ReadsLast ==
  \A d \in Disks : \A i \in DOMAIN toDisk[d] :
    toDisk[d][i].op = "read" =>
      /\ Waiting(d) /\ fromDisk[d] = <<>>
      /\ i = Len(toDisk[d]) /\ toDisk[d][i].stripe = Slot

(* Nothing is sent to a disk after its exit command.                       *)
ExitsLast ==
  \A d \in Disks : \A i \in DOMAIN toDisk[d] :
    toDisk[d][i].op = "exit" =>
      /\ i = Len(toDisk[d])
      /\ pc \in {"wait", "done"} \/ (pc = "exit" /\ d < idx)

(* Only disks told to exit have checkpoint files, and these are right.     *)
FilesRight ==
  /\ pc \notin {"exit", "wait", "done"} => \A d \in Disks : file[d] = NoFile
  /\ \A d \in Disks : file[d] = NoFile \/ file[d] = [s \in Stripes |-> Logical(d, s)]

DeadPipesEmpty == \A d \in Disks : proc[d] # "running" => toDisk[d] = <<>>

RecvIsRead == phase = "recv" => Ready /\ Access.op = "read"

(* A command under way has no result yet.                                  *)
OutReset == pc \in Accessing => out = NoOut

Array ==
  /\ DisksHold /\ RestoreSums /\ BuffersMatch
  /\ RepliesRight /\ ReadsLast /\ ExitsLast /\ FilesRight

IInv ==
  /\ TypeOK
  /\ DeadPipesEmpty /\ RecvIsRead /\ OutReset
  /\ Healthy => Array
  /\ ReadsSeeVolume

(* Every restore and every dead disk is paid for by a loss.                *)
DeadDisks == {d \in Disks : proc[d] # "running"}

(* No disk is told to exit before the command loop has ended.              *)
NoEarlyExit ==
  pc \in Accessing \cup {"idle"} =>
    \A d \in Disks : \A i \in DOMAIN toDisk[d] : toDisk[d][i].op # "exit"

LossInv ==
  /\ TypeOK
  /\ pc \in Accessing \cup {"idle"} => Len(rst) + Cardinality(DeadDisks) =< losses
  /\ pc \notin Accessing \cup {"killed"} => rst = <<>>
  /\ NoEarlyExit
  /\ SingleLossSurvived

(* After a SIGTERM every disk checkpoints what its pipe still holds.       *)
TornInv ==
  pc = "killed" /\ Len(rst) =< 1 =>
    \A d \in Disks :
      /\ \A i \in DOMAIN toDisk[d] : toDisk[d][i].op = "exit" => i = Len(toDisk[d])
      /\ proc[d] = "running" => \A s \in Stripes : Torn(d, s) \/ Holds(d, s, Logical(d, s))
      /\ file[d] = NoFile \/ \A s \in Stripes : Torn(d, s) \/ file[d][s] = Logical(d, s)

(* While no disk has died on its own, only `kill' leaves a disk dead, and   *)
(* that between commands: the disk that is being restored runs, and so     *)
(* does the one whose answer is waited for.                                *)
HealInv ==
  crashes = 0 /\ pc \in Accessing =>
    /\ rst # <<>> => proc[Head(rst).disk] = "running"
    /\ phase = "recv" => proc[Target] = "running"

(* The child processes wait() would find: the current process of a disk    *)
(* until it is reaped, and the zombies whose pid was overwritten.          *)
Children == Cardinality({d \in Disks : proc[d] # "reaped"}) + orphans
Zombies  == Cardinality({d \in Disks : proc[d] = "zombie"})

(* Until `exit' every dead child died on its own; from there on each       *)
(* wait() takes one child, as long as there is one.                        *)
WaitInv ==
  /\ pc \in Accessing \cup {"idle"} => Zombies + orphans =< crashes
  /\ pc = "exit" => orphans =< crashes
  /\ pc = "wait" => Children = 0 \/ Children + idx =< NumDisks + 1 + crashes
  /\ pc = "done" => Children =< crashes
=============================================================================
