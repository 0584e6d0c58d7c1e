-------------------------------- MODULE Raid --------------------------------
(***************************************************************************)
(* The RAID-4 simulator of src/FinalProject: one controller process        *)
(* (raid_sim.c, controller.c), NumDisks data disks and one parity disk,    *)
(* each a child process (disk_sim.c) behind a pair of pipes.  Disk         *)
(* processes run concurrently with the controller; writes are sent without *)
(* an acknowledgement; a disk may be killed by the `kill' command (and is  *)
(* then reaped) or may die on its own at any time (and stays a zombie).    *)
(***************************************************************************)
EXTENDS Integers, Sequences, FiniteSets, Parity

CONSTANTS NumDisks,      \* num_disks: data disks; the parity disk comes after them
          BlocksPerDisk, \* disk_size / block_size
          PipeCap,       \* messages a command pipe holds before write() blocks
          MaxCmds,       \* bound: shell commands issued
          MaxCrashes,    \* bound: disk processes that die on their own
          UnderGui       \* the shell was started by RAID-GUI.py, which may end it

ASSUME NumDisksAssumption == NumDisks \in Nat \ {0}
ASSUME BlocksPerDiskAssumption == BlocksPerDisk \in Nat
ASSUME PipeCapAssumption == PipeCap \in Nat \ {0}
ASSUME BoundsAssumption == MaxCmds \in Nat /\ MaxCrashes \in Nat
ASSUME UnderGuiAssumption == UnderGui \in BOOLEAN

DataDisks  == 0 .. NumDisks - 1
ParityDisk == NumDisks
Disks      == 0 .. NumDisks
Stripes    == 0 .. BlocksPerDisk - 1
Blocks     == 0 .. NumDisks * BlocksPerDisk - 1    \* logical block numbers

ZeroDisk == [s \in Stripes |-> Zero]
NoFile   == [s \in {} |-> Zero]      \* no checkpoint file written by this run

Exit  == [op |-> "exit", stripe |-> 0, data |-> Zero]
Msg   == [op : {"read", "write"}, stripe : Stripes, data : Block] \cup {Exit}
Outcome == [cmd : {"none", "read", "write"}, blk : Int, ok : BOOLEAN,
            code : -1 .. NumDisks, data : Block]
Frame == [disk : Disks, stripe : 0 .. BlocksPerDisk, left : SUBSET Disks, acc : Block]

VARIABLES
  pc,        \* where the controller is: the command loop, a step of rb or wb, or the exit
  phase,     \* within a disk access: "send" the command or "recv" the block
  req,       \* block number and data of the rb or wb under way
  reg,       \* old_data and old_parity of write_block
  rst,       \* restore_disk_process activations, innermost first
  idx,       \* loop index of checkpoint_and_wait
  out,       \* what the last rb or wb returned: a code, and a block for rb;
             \* ok is history: it did what it was asked
  shown,     \* disks the last `status' reported ALIVE
  proc,      \* per disk: its current process is "running", "zombie" or "reaped"
  orphans,   \* zombies whose pid the controller has overwritten
  mem,       \* disk_data of each disk process
  toDisk,    \* messages in each command pipe
  fromDisk,  \* blocks in each reply pipe
  file,      \* disk_<id>.dat of each disk
  vol,       \* history: the contents of the logical volume
  losses,    \* history: disk deaths since all disks last ran restored
  cmds,      \* commands issued, at most MaxCmds
  crashes    \* disks that died on their own, at most MaxCrashes

ctlVars  == <<pc, phase, req, reg, rst, idx, out, shown>>
diskVars == <<proc, orphans, mem, toDisk, fromDisk, file>>
auxVars  == <<vol, losses, cmds, crashes>>
vars     == <<ctlVars, diskVars, auxVars>>

Accessing == {"read", "oldData", "oldParity", "newParity", "newData"}
Gone      == {"done", "fatal", "killed"}        \* the controller process has ended

NoOut == [cmd |-> "none", blk |-> 0, ok |-> FALSE, code |-> 0, data |-> Zero]

TypeOK ==
  /\ pc \in {"idle", "exit", "wait"} \cup Accessing \cup Gone
  /\ phase \in {"send", "recv"}
  /\ req \in [blk : Nat, data : Block]
  /\ pc \in Accessing => req.blk \in Blocks
  /\ reg \in [data : Block, parity : Block]
  /\ rst \in Seq(Frame)
  /\ idx \in Disks
  /\ out \in Outcome
  /\ shown \in SUBSET Disks
  /\ proc \in [Disks -> {"running", "zombie", "reaped"}]
  /\ orphans \in Nat
  /\ mem \in [Disks -> [Stripes -> Block]]
  /\ toDisk \in [Disks -> Seq(Msg)]
  /\ fromDisk \in [Disks -> Seq(Block)]
  /\ file \in [Disks -> {NoFile} \cup [Stripes -> Block]]
  /\ vol \in [Blocks -> Block]
  /\ losses \in Nat
  /\ cmds \in 0 .. MaxCmds
  /\ crashes \in 0 .. MaxCrashes

-----------------------------------------------------------------------------
(* What the controller is about to send, or waits for.                     *)

(* Where read_block_from_disk and write_block_to_disk find a block: the    *)
(* disk by parity_flag, and the slot within the disk.                      *)
DiskOf(blk, parity) == IF parity THEN ParityDisk ELSE blk % NumDisks
SlotOf(blk) == blk \div NumDisks

(* The logical block number restore_disk_process computes for a disk.      *)
BlockAt(stripe, d) == stripe * NumDisks + d

(* The blocks a stripe of disk d is rebuilt from, and the order in which   *)
(* they are read: the parity disk first, then the data disks ascending.    *)
Sources(d) == Disks \ {d}
NextSource(left) ==
  IF ParityDisk \in left THEN ParityDisk
  ELSE CHOOSE k \in left : \A j \in left : k =< j

(* One call of read_block_from_disk or write_block_to_disk.                *)
FrameAccess(f) ==
  IF f.left = {}
  THEN [op |-> "write", parity |-> f.disk = ParityDisk, data |-> f.acc,
        blk |-> BlockAt(f.stripe, IF f.disk = ParityDisk THEN 0 ELSE f.disk)]
  ELSE LET k == NextSource(f.left) IN
       [op |-> "read", parity |-> k = ParityDisk, data |-> Zero,
        blk |-> BlockAt(f.stripe, IF k # ParityDisk THEN k
                                  ELSE IF f.disk = ParityDisk THEN 0 ELSE f.disk)]

NewParityNoOldData(old_parity, old_data, data) ==
  Xor(old_parity, data)                        \* mutant: one ^= is missing

(* Steps 3 and 4 of write_block.                                           *)
NewParity(old_parity, old_data, data) == Xor(Xor(old_parity, old_data), data)

CommandAccess ==
  [op     |-> IF pc \in {"newParity", "newData"} THEN "write" ELSE "read",
   parity |-> pc \in {"oldParity", "newParity"},
   data   |-> IF pc = "newParity" THEN NewParity(reg.parity, reg.data, req.data)
              ELSE IF pc = "newData" THEN req.data ELSE Zero,
   blk    |-> req.blk]

Access == IF rst = <<>> THEN CommandAccess ELSE FrameAccess(Head(rst))
Target == DiskOf(Access.blk, Access.parity)
Slot   == SlotOf(Access.blk)

(* A restore loop that has stripes left, or a command outside a restore.   *)
Ready == pc \in Accessing /\ (rst # <<>> => Head(rst).stripe < BlocksPerDisk)

Send(d, m) == toDisk' = [toDisk EXCEPT ![d] = Append(@, m)]

(* write() to the command pipe of d succeeds: its reader is there, and the *)
(* pipe has room; with no room it blocks, with no reader it is EPIPE.      *)
Writable(d) == proc[d] = "running" /\ Len(toDisk[d]) < PipeCap

-----------------------------------------------------------------------------
(* The command loop.                                                       *)

Idle == pc = "idle" /\ cmds < MaxCmds

InRange(b) == 0 =< b /\ b < NumDisks * BlocksPerDisk

Begin(cmd, b, v, first) ==
  /\ Idle
  /\ cmds' = cmds + 1
  /\ IF InRange(b)
     THEN /\ pc' = first
          /\ req' = [blk |-> b, data |-> v]
          /\ out' = NoOut
     ELSE /\ out' = [cmd |-> cmd, blk |-> b, ok |-> FALSE, code |-> -1, data |-> Zero]
          /\ UNCHANGED <<pc, req>>
  /\ UNCHANGED <<phase, reg, rst, idx, shown, diskVars, vol, losses, crashes>>

ReadCmd(b)     == Begin("read", b, Zero, "read")
WriteCmd(b, v) == Begin("write", b, v, "oldData")

(* kill <d>: SIGINT ends the disk without a checkpoint and waitpid reaps   *)
(* it; on a pid already reaped kill() fails.                               *)
KillCmd(d) ==
  /\ Idle
  /\ cmds' = cmds + 1
  /\ losses' = IF proc[d] = "running" THEN losses + 1 ELSE losses
  /\ proc' = [proc EXCEPT ![d] = "reaped"]
  /\ toDisk' = [toDisk EXCEPT ![d] = <<>>]
  /\ UNCHANGED <<ctlVars, orphans, mem, fromDisk, file, vol, crashes>>

(* kill(pid, 0) succeeds on a zombie.                                      *)
IsDiskAlive(d) == proc[d] \in {"running", "zombie"}

StatusCmd ==
  /\ Idle
  /\ cmds' = cmds + 1
  /\ shown' = {d \in Disks : IsDiskAlive(d)}
  /\ UNCHANGED <<pc, phase, req, reg, rst, idx, out, diskVars, vol, losses, crashes>>

(* exit, or the end of the input.                                          *)
ExitCmd ==
  /\ pc = "idle"
  /\ pc' = "exit"
  /\ idx' = 0
  /\ UNCHANGED <<phase, req, reg, rst, out, shown, diskVars, auxVars>>

-----------------------------------------------------------------------------
(* rb and wb, and the restores they set off.                               *)

FailureCodeOfData(d) ==                        \* mutant: the parity disk's failure is passed over
  IF d = ParityDisk THEN 0 ELSE d

(* The value write_block returns for a failed step, by the disk accessed.  *)
FailureCode(d) == d

(* restore_disk_process never returns success to its caller: the access    *)
(* that found the disk dead fails, and fails the command; a failed access  *)
(* within a restore ends the program.                                      *)
Fail(callers) ==
  /\ phase' = "send"
  /\ rst' = <<>>
  /\ IF callers = <<>>
     THEN /\ pc' = "idle"
          /\ out' = [cmd |-> IF pc = "read" THEN "read" ELSE "write",
                     blk |-> req.blk, ok |-> FALSE, data |-> Zero,
                     code |-> IF pc = "read" THEN -1
                              ELSE FailureCode(DiskOf(req.blk, CommandAccess.parity))]
     ELSE pc' = "fatal" /\ UNCHANGED out

SendRead ==
  /\ Ready /\ phase = "send" /\ Access.op = "read" /\ Writable(Target)
  /\ Send(Target, [op |-> "read", stripe |-> Slot, data |-> Zero])
  /\ phase' = "recv"
  /\ UNCHANGED <<pc, req, reg, rst, idx, out, shown, proc, orphans, mem, fromDisk, file, auxVars>>

AbsorbOverwrites(f, v) == [f EXCEPT !.left = @ \ {NextSource(f.left)}, !.acc = v] \* mutant: = for ^=

(* A block read within a restore is folded into the accumulator.           *)
Absorb(f, v) == [f EXCEPT !.left = @ \ {NextSource(f.left)}, !.acc = Xor(@, v)]

(* The block that was asked for arrives.                                   *)
RecvBlock ==
  /\ Ready /\ phase = "recv" /\ fromDisk[Target] # <<>>
  /\ fromDisk' = [fromDisk EXCEPT ![Target] = Tail(@)]
  /\ phase' = "send"
  /\ LET v == Head(fromDisk[Target]) IN
     \/ /\ rst # <<>>
        /\ rst' = <<Absorb(Head(rst), v)>> \o Tail(rst)
        /\ UNCHANGED <<pc, reg, out>>
     \/ /\ rst = <<>> /\ pc = "read"
        /\ pc' = "idle"
        /\ out' = [cmd |-> "read", blk |-> req.blk, ok |-> TRUE, code |-> 0, data |-> v]
        /\ UNCHANGED <<rst, reg>>
     \/ /\ rst = <<>> /\ pc = "oldData"
        /\ pc' = "oldParity"
        /\ reg' = [reg EXCEPT !.data = v]
        /\ UNCHANGED <<rst, out>>
     \/ /\ rst = <<>> /\ pc = "oldParity"
        /\ pc' = "newParity"
        /\ reg' = [reg EXCEPT !.parity = v]
        /\ UNCHANGED <<rst, out>>
  /\ UNCHANGED <<req, idx, shown, proc, orphans, mem, toDisk, file, auxVars>>

RecvEofRetries ==                              \* mutant: only n < 0 ends the read loop
  /\ Ready /\ phase = "recv" /\ fromDisk[Target] = <<>> /\ proc[Target] # "running"
  /\ UNCHANGED vars

(* The disk dies before it answers: end of file on its reply pipe.  The    *)
(* read fails, and nothing restores the disk.                              *)
RecvEof ==
  /\ Ready /\ phase = "recv" /\ fromDisk[Target] = <<>> /\ proc[Target] # "running"
  /\ Fail(rst)
  /\ UNCHANGED <<req, reg, idx, shown, diskVars, auxVars>>

NextStripeNoMemset(f) ==                       \* mutant: recovered is not cleared for parity
  [f EXCEPT !.stripe = @ + 1, !.left = Sources(f.disk),
            !.acc = IF f.disk = ParityDisk THEN @ ELSE Zero]

NextStripe(f) == [f EXCEPT !.stripe = @ + 1, !.left = Sources(f.disk), !.acc = Zero]

SendWrite ==
  /\ Ready /\ phase = "send" /\ Access.op = "write" /\ Writable(Target)
  /\ Send(Target, [op |-> "write", stripe |-> Slot, data |-> Access.data])
  /\ \/ /\ rst # <<>>
        /\ rst' = <<NextStripe(Head(rst))>> \o Tail(rst)
        /\ UNCHANGED <<pc, out, vol>>
     \/ /\ rst = <<>> /\ pc = "newParity"
        /\ pc' = "newData"
        /\ vol' = [vol EXCEPT ![req.blk] = req.data]
        /\ UNCHANGED <<rst, out>>
     \/ /\ rst = <<>> /\ pc = "newData"
        /\ pc' = "idle"
        /\ out' = [cmd |-> "write", blk |-> req.blk, ok |-> TRUE, code |-> 0, data |-> Zero]
        /\ UNCHANGED <<rst, vol>>
  /\ UNCHANGED <<phase, req, reg, idx, shown, proc, orphans, mem, fromDisk, file, losses, cmds, crashes>>

SendFailsUnrestored ==                         \* mutant: no restore_disk_process
  /\ Ready /\ phase = "send" /\ proc[Target] # "running"
  /\ Fail(rst)
  /\ UNCHANGED <<req, reg, idx, shown, diskVars, auxVars>>

(* write() returns EPIPE: restore_disk_process gives the disk new pipes    *)
(* and a new process, whose disk_data is calloc'ed, and starts its loop.   *)
(* A process the disk had left as a zombie is not waited for.              *)
SendFails ==
  /\ Ready /\ phase = "send" /\ proc[Target] # "running"
  /\ LET d == Target IN
     /\ proc' = [proc EXCEPT ![d] = "running"]
     /\ orphans' = IF proc[d] = "zombie" THEN orphans + 1 ELSE orphans
     /\ mem' = [mem EXCEPT ![d] = ZeroDisk]
     /\ toDisk' = [toDisk EXCEPT ![d] = <<>>]
     /\ fromDisk' = [fromDisk EXCEPT ![d] = <<>>]
     /\ rst' = <<[disk |-> d, stripe |-> 0, left |-> Sources(d), acc |-> Zero]>> \o rst
  /\ UNCHANGED <<pc, phase, req, reg, idx, out, shown, file, auxVars>>

RestoreDoneGivesUp ==                          \* mutant: exit() after any restore
  /\ pc \in Accessing /\ rst # <<>> /\ Head(rst).stripe = BlocksPerDisk
  /\ Fail(rst)
  /\ UNCHANGED <<req, reg, idx, shown, diskVars, auxVars>>

(* The restore loop ends.                                                  *)
RestoreDone ==
  /\ pc \in Accessing /\ rst # <<>> /\ Head(rst).stripe = BlocksPerDisk
  /\ Fail(Tail(rst))
  /\ losses' = IF Tail(rst) = <<>> /\ \A d \in Disks : proc[d] = "running"
               THEN 0 ELSE losses
  /\ UNCHANGED <<req, reg, idx, shown, diskVars, vol, cmds, crashes>>

-----------------------------------------------------------------------------
(* checkpoint_and_wait.                                                    *)

(* Both loops of checkpoint_and_wait run over num_disks + 1 disks.         *)
LastDataDisk(i) == i = NumDisks - 1            \* mutant: < num_disks
LastDisk(i) == i = NumDisks

(* CMD_EXIT to disk idx; a failed write is only warned about.              *)
SendExit ==
  /\ pc = "exit"
  /\ \/ /\ Writable(idx)
        /\ Send(idx, Exit)
     \/ /\ proc[idx] # "running"
        /\ UNCHANGED toDisk
  /\ IF LastDisk(idx)
     THEN pc' = "wait" /\ idx' = 0
     ELSE pc' = pc /\ idx' = idx + 1
  /\ UNCHANGED <<phase, req, reg, rst, out, shown, proc, orphans, mem, fromDisk, file, auxVars>>

(* wait(NULL) reaps any dead child, one whose pid was overwritten as well  *)
(* as any other, and returns at once when no child is left.                *)
Reap ==
  \/ \E d \in Disks : /\ proc[d] = "zombie"
                      /\ proc' = [proc EXCEPT ![d] = "reaped"]
                      /\ UNCHANGED orphans
  \/ /\ orphans > 0
     /\ orphans' = orphans - 1
     /\ UNCHANGED proc

NoChild == orphans = 0 /\ \A d \in Disks : proc[d] = "reaped"

WaitChildRetries ==                            \* mutant: a failed wait() is repeated
  /\ pc = "wait"
  /\ \/ Reap /\ IF LastDisk(idx) THEN pc' = "done" /\ UNCHANGED idx
                                 ELSE pc' = pc /\ idx' = idx + 1
     \/ NoChild /\ UNCHANGED <<pc, idx, proc, orphans>>
  /\ UNCHANGED <<phase, req, reg, rst, out, shown, mem, toDisk, fromDisk, file, auxVars>>

WaitChild ==
  /\ pc = "wait"
  /\ \/ Reap
     \/ NoChild /\ UNCHANGED <<proc, orphans>>
  /\ IF LastDisk(idx)
     THEN pc' = "done" /\ UNCHANGED idx
     ELSE pc' = pc /\ idx' = idx + 1
  /\ UNCHANGED <<phase, req, reg, rst, out, shown, mem, toDisk, fromDisk, file, auxVars>>

-----------------------------------------------------------------------------
SigtermCaught ==                               \* mutant: a handler calls checkpoint_and_wait
  /\ UnderGui /\ pc \notin Gone
  /\ pc' = "exit" /\ idx' = 0 /\ phase' = "send" /\ rst' = <<>>
  /\ UNCHANGED <<req, reg, out, shown, diskVars, auxVars>>

(* The GUI's on_close sends SIGTERM: the controller ends between any two   *)
(* of its steps, and the disks are left to their command pipes.  From here *)
(* on rst is history: the restores that were cut short.                    *)
Sigterm ==
  /\ UnderGui /\ pc \notin Gone
  /\ pc' = "killed" /\ phase' = "send"
  /\ UNCHANGED <<req, reg, rst, idx, out, shown, diskVars, auxVars>>

-----------------------------------------------------------------------------
(* The disk processes.                                                     *)

Pending(d, op) == proc[d] = "running" /\ toDisk[d] # <<>> /\ Head(toDisk[d]).op = op
Consume(d) == toDisk' = [toDisk EXCEPT ![d] = Tail(@)]

DiskRead(d) ==
  /\ Pending(d, "read")
  /\ fromDisk' = [fromDisk EXCEPT ![d] = Append(@, mem[d][Head(toDisk[d]).stripe])]
  /\ Consume(d)
  /\ UNCHANGED <<ctlVars, proc, orphans, mem, file, auxVars>>

DiskWrite(d) ==
  /\ Pending(d, "write")
  /\ LET m == Head(toDisk[d]) IN mem' = [mem EXCEPT ![d][m.stripe] = m.data]
  /\ Consume(d)
  /\ UNCHANGED <<ctlVars, proc, orphans, fromDisk, file, auxVars>>

(* The end of start_disk: checkpoint_disk, then exit.                      *)
Checkpoint(d) ==
  /\ file' = [file EXCEPT ![d] = mem[d]]
  /\ proc' = [proc EXCEPT ![d] = "zombie"]
  /\ toDisk' = [toDisk EXCEPT ![d] = <<>>]
  /\ UNCHANGED <<ctlVars, orphans, mem, fromDisk, auxVars>>

DiskExit(d) == Pending(d, "exit") /\ Checkpoint(d)

DiskEofRetries(d) ==                           \* mutant: n == 0 does not end the loop
  /\ proc[d] = "running" /\ toDisk[d] = <<>> /\ pc \in Gone
  /\ UNCHANGED vars

DiskEofUndrained(d) ==                         \* mutant: end of file is taken before the messages
  /\ proc[d] = "running" /\ pc \in Gone
  /\ Checkpoint(d)

(* The controller is gone and the pipe is drained: read() returns 0.       *)
DiskEof(d) ==
  /\ proc[d] = "running" /\ toDisk[d] = <<>> /\ pc \in Gone
  /\ Checkpoint(d)

(* A disk process dies on its own.  What it had not read is lost; a reply  *)
(* it had written stays in the pipe.                                       *)
Crash(d) ==
  /\ proc[d] = "running" /\ crashes < MaxCrashes
  /\ crashes' = crashes + 1
  /\ losses' = losses + 1
  /\ proc' = [proc EXCEPT ![d] = "zombie"]
  /\ toDisk' = [toDisk EXCEPT ![d] = <<>>]
  /\ UNCHANGED <<ctlVars, orphans, mem, fromDisk, file, vol, cmds>>

-----------------------------------------------------------------------------
Init ==
  /\ pc = "idle" /\ phase = "send" /\ rst = <<>> /\ idx = 0
  /\ req = [blk |-> 0, data |-> Zero]
  /\ reg = [data |-> Zero, parity |-> Zero]
  /\ out = NoOut /\ shown = {}
  /\ proc = [d \in Disks |-> "running"]
  /\ orphans = 0
  /\ mem = [d \in Disks |-> ZeroDisk]
  /\ toDisk = [d \in Disks |-> <<>>]
  /\ fromDisk = [d \in Disks |-> <<>>]
  /\ file = [d \in Disks |-> NoFile]
  /\ vol = [b \in Blocks |-> Zero]
  /\ losses = 0 /\ cmds = 0 /\ crashes = 0

(* The numbers a user may type: those in range, and the first ones out.    *)
BlockArgs == -1 .. NumDisks * BlocksPerDisk

Command ==
  \/ \E b \in BlockArgs : ReadCmd(b)
  \/ \E b \in BlockArgs, v \in Block : WriteCmd(b, v)
  \/ \E d \in Disks : KillCmd(d)
  \/ StatusCmd

Controller ==
  \/ SendRead \/ RecvBlock \/ RecvEof \/ SendWrite \/ SendFails \/ RestoreDone
  \/ SendExit \/ WaitChild

DiskStep(d) == DiskRead(d) \/ DiskWrite(d) \/ DiskExit(d) \/ DiskEof(d)

(* Both sides have ended.                                                  *)
Terminated ==
  /\ pc \in Gone /\ \A d \in Disks : proc[d] # "running"
  /\ UNCHANGED vars

Next ==
  \/ Command \/ ExitCmd \/ Controller \/ Sigterm
  \/ \E d \in Disks : DiskStep(d) \/ Crash(d)
  \/ Terminated

Spec == Init /\ [][Next]_vars

(* The kernel runs every process that can run; the user may stop typing,   *)
(* and no disk has to die.                                                 *)
Fairness == WF_vars(Controller) /\ \A d \in Disks : WF_vars(DiskStep(d))
FairSpec == Spec /\ Fairness
-----------------------------------------------------------------------------
(* What the disks hold.                                                    *)

(* Positions of the writes to block s among the messages q.                *)
Writes(q, s) == {i \in DOMAIN q : q[i].op = "write" /\ q[i].stripe = s}

(* A disk with contents blocks has v as its block s once it has read q:    *)
(* the last write to s says so, or there is none and v is there already.   *)
Settles(q, blocks, s, v) ==
  \/ Writes(q, s) = {} /\ blocks[s] = v
  \/ \E i \in Writes(q, s) : q[i].data = v /\ \A j \in Writes(q, s) : j =< i

Holds(d, s, v) == Settles(toDisk[d], mem[d], s, v)

(* Block s of disk d by the layout of RAID-4.                              *)
Logical(d, s) ==
  IF d = ParityDisk THEN XorOver(DataDisks, [k \in DataDisks |-> vol[BlockAt(s, k)]])
  ELSE vol[BlockAt(s, d)]

-----------------------------------------------------------------------------
(* Safety.                                                                 *)

(* rb prints the block last written, whatever disks were lost and restored *)
(* since: read_block never returns a buffer that parity, a restore or an   *)
(* unread pipe left wrong.                                                 *)
ReadsSeeVolume ==
  out.cmd = "read" /\ out.ok => out.data = vol[out.blk]

(* Between commands every disk that runs holds, or has in its pipe, what   *)
(* the layout gives it: any one other disk can be rebuilt.  write_block    *)
(* and restore_disk_process both have to leave every stripe so.            *)
ArrayConsistent ==
  pc \in {"idle", "exit", "wait", "done"} =>
    \A d \in Disks : proc[d] = "running" =>
      \A s \in Stripes : Holds(d, s, Logical(d, s))

(* The files checkpoint_disk writes after `exit' are a consistent image of *)
(* the volume: no disk checkpoints before it has applied its writes.       *)
CheckpointsMatchVolume ==
  pc \in {"exit", "wait", "done"} =>
    \A d \in Disks : file[d] = NoFile \/ file[d] = [s \in Stripes |-> Logical(d, s)]

(* What a SIGTERM in the middle of a command may leave wrong: the data     *)
(* block of a wb whose parity had been sent, or, when it cuts a restore    *)
(* short, the stripes of the restored disk that were still to come.        *)
Torn(d, s) ==
  \/ rst = <<>> /\ out.cmd = "none" /\ d = DiskOf(req.blk, FALSE) /\ s = SlotOf(req.blk)
  \/ rst # <<>> /\ d = Head(rst).disk /\ s >= Head(rst).stripe

(* When the window is closed, at any step of any command, the files that   *)
(* the disks still write are those of the volume but for the blocks of one *)
(* disk: the block of the wb under way when no restore is, else what the   *)
(* restore had not reached.  So every stripe has one wrong block at most   *)
(* among its files.  A disk that is dead writes none.  Left out: a close   *)
(* within a restore that a second dead disk has interrupted, which would   *)
(* have ended the program anyway.                                          *)
ClosingTearsOneDisk ==
  pc = "killed" /\ Len(rst) =< 1 =>
    \A d \in Disks, s \in Stripes :
      file[d] = NoFile \/ file[d][s] = Logical(d, s) \/ Torn(d, s)

(* The program gives up only when a second disk dies before the first is   *)
(* restored: one dead disk is survived wherever the controller meets it.   *)
SingleLossSurvived == pc = "fatal" => losses >= 2

(* checkpoint_and_wait calls wait() once per disk, and each call takes any *)
(* dead child: a disk that died on its own may use up the call of one that *)
(* has not finished.  No more disks than that outlive the program.         *)
ExitWaitsForDisks ==
  pc = "done" => Cardinality({d \in Disks : proc[d] = "running"}) =< crashes

(* write_block: "Returns 0 on success and the disk number we tried to read *)
(* from on failure"; copy_block_to_raid reports 0 as a block written.      *)
AckedWriteStored ==
  out.cmd = "write" /\ out.code = 0 => vol[req.blk] = req.data

-----------------------------------------------------------------------------
(* Action properties.                                                      *)

(* A command that fails because its disk was killed leaves that disk       *)
(* running again: a retry is not met by the same dead disk.                *)
FailureHealsDisk ==
  [][(pc \in Accessing /\ pc' = "idle" /\ ~out'.ok) =>
       \/ (proc')[DiskOf(req.blk, CommandAccess.parity)] = "running"
       \/ crashes > 0]_vars

-----------------------------------------------------------------------------
(* Liveness.                                                               *)

(* A command returns or ends the program, whatever dies during it.         *)
CommandsReturn == pc \in Accessing ~> pc \in {"idle"} \cup Gone

(* checkpoint_and_wait returns: no wait() is left without a child to reap. *)
ExitReturns == pc = "exit" ~> pc \in {"done", "killed"}

(* When the controller ends, also by the fatal exit, no disk runs on.      *)
DisksStop == pc \in Gone ~> \A d \in Disks : proc[d] # "running"

-----------------------------------------------------------------------------
(* Refinement: the simulator implements a volume of blocks.                *)

(* The command under way, and the last result as raid_sim shows it: a      *)
(* write is committed once the parity block has been sent, and it is said  *)
(* to be written when write_block returned 0.                              *)
VolOp ==
  IF pc \in Accessing
  THEN [cmd |-> IF pc = "read" THEN "read" ELSE "write", blk |-> req.blk,
        data |-> req.data, stage |-> IF pc = "newData" THEN "committed" ELSE "begun"]
  ELSE [cmd |-> IF pc = "idle" THEN "none" ELSE "stopped", blk |-> 0,
        data |-> Zero, stage |-> "begun"]
VolRes == [cmd |-> out.cmd, blk |-> out.blk, data |-> out.data,
           ok |-> out.cmd # "none" /\ out.code = 0]

(* write_block returns the number of the disk that failed, and 0 is both   *)
(* the first data disk and success.                                        *)
Misreported == {b \in Blocks : DiskOf(b, FALSE) = 0}

RaidVolume == INSTANCE Volume WITH
  Addresses <- Blocks, Arguments <- BlockArgs, Value <- Block, Initial <- Zero,
  Misreported <- Misreported,
  vol <- vol, op <- VolOp, res <- VolRes

(* Every behaviour of the simulator is one of the volume, by the results   *)
(* its shell shows: a failed wb has taken effect or not, once for all; a   *)
(* read agrees with it; and a wb that is said to be written has taken      *)
(* effect, but for the blocks of disk 0, whose failures read as success.   *)
ImplementsVolume == RaidVolume!VSpec

-----------------------------------------------------------------------------
(* Refinement: what RAID-GUI.py may rely on.                               *)

ShellRun ==
  IF pc \in Accessing THEN "access"
  ELSE IF pc \in Gone THEN "ended" ELSE IF pc = "idle" THEN "prompt" ELSE "exit"

ShellAlive == IF pc \in {"idle"} \cup Accessing THEN {d \in Disks : IsDiskAlive(d)} ELSE {}

(* Disks were started with the shell's own ends of the window's pipes.     *)
ShellHeld == pc \notin Gone \/ \E d \in Disks : proc[d] = "running"

ShellView == INSTANCE RaidShell WITH
  ShellDisks <- Disks, run <- ShellRun, alive <- ShellAlive, held <- ShellHeld

(* The simulator behaves as the shell that RaidGui is checked with: disks  *)
(* come back only during an rb or wb and go only by `kill', `exit' ends    *)
(* only after its wait, and the last disk closes the pipes.                *)
ImplementsShell == ShellView!ShellSpec
=============================================================================
