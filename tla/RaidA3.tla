------------------------------- MODULE RaidA3 -------------------------------
(***************************************************************************)
(* The earlier simulator of src/Assignment/A3.  Against Raid: a read that  *)
(* fails is answered from the other disks; a restarted parity disk is left *)
(* zero; and a parity block is looked up by the stripe, divided once more. *)
(*                                                                         *)
(* An access to a disk is one step here.  A write is in mem as soon as it  *)
(* is sent: a disk shows its memory in its answers and its checkpoint      *)
(* only, after the writes sent before them, and a disk that dies loses the *)
(* writes it has applied with the others.                                  *)
(***************************************************************************)
EXTENDS Integers, FiniteSets, Sequences, Parity

CONSTANTS NumDisks,      \* num_disks: data disks; the parity disk comes after them
          BlocksPerDisk, \* disk_size / block_size
          MaxCmds,       \* bound: shell commands issued
          MaxCrashes     \* bound: disk processes that die on their own

ASSUME NumDisksAssumption == NumDisks \in Nat \ {0}
ASSUME BlocksPerDiskAssumption == BlocksPerDisk \in Nat
ASSUME BoundsAssumption == MaxCmds \in Nat /\ MaxCrashes \in Nat

DataDisks  == 0 .. NumDisks - 1
ParityDisk == NumDisks
Disks      == 0 .. NumDisks
Stripes    == 0 .. BlocksPerDisk - 1
Blocks     == 0 .. NumDisks * BlocksPerDisk - 1
ZeroDisk   == [s \in Stripes |-> Zero]
EmptyVolume == [b \in Blocks |-> Zero]
NoFile     == [s \in {} |-> Zero]
NoRestore  == [disk |-> ParityDisk, stripe |-> 0]
NoOut      == [cmd |-> "none", blk |-> 0, code |-> 0, data |-> Zero]

VARIABLES
  pc,       \* the command loop, or the access a command is about to make
  req,      \* block number and data of the rb or wb under way
  reg,      \* old_data and parity of write_block
  left,     \* disks read_block has still to read a lost block from
  acc,      \* data of read_block in recovery mode
  rst,      \* the data disk being restored, and the stripe to come
  out,      \* what the last command returned
  proc,     \* per disk: its process is "running", "zombie" or "reaped"
  mem,      \* disk_data
  file,     \* disk_<id>.dat
  vol,      \* history: the contents of the volume
  base,     \* history: the contents when the parity disk was last started
  deaths,   \* history: the disks that died, in order
  spread,   \* history: a stripe other than the first was written
  stale,    \* history: the parity disk was started with something on the volume
  cmds, crashes

ctlVars == <<req, reg, left, acc, rst>>
diskVars == <<proc, mem, file>>
history == <<vol, base, deaths, spread, stale>>
vars == <<pc, ctlVars, out, diskVars, history, cmds, crashes>>

Reading == {"read", "oldData", "oldParity", "recover"}
Writing == {"newParity", "newData"}

-----------------------------------------------------------------------------
(* The access to come: its disk, and the slot in it.  The accesses with    *)
(* parity_flag pass stripe_index where a block number is divided.          *)
StripeOf(blk) == blk \div NumDisks
ParitySlot(blk) == StripeOf(blk) \div NumDisks

(* The recovery reads the other data disks in order, and parity last.      *)
Least(S) == CHOOSE k \in S : \A j \in S : k =< j

Target == IF pc = "recover" THEN Least(left)
          ELSE IF pc \in {"oldParity", "newParity"} THEN ParityDisk
          ELSE req.blk % NumDisks
Slot   == IF Target = ParityDisk THEN ParitySlot(req.blk) ELSE StripeOf(req.blk)

Restoring == rst.disk # ParityDisk
Accessing == pc \in Reading \cup Writing /\ ~Restoring

-----------------------------------------------------------------------------
(* The disks: what start_disk does with a command.                         *)

CmdRead(d, slot)     == mem[d][slot]
CmdWrite(d, slot, v) == [mem EXCEPT ![d][slot] = v]
CheckpointDisk(d)    == mem[d]

-----------------------------------------------------------------------------
(* The shell.                                                              *)

Idle == pc = "idle" /\ cmds < MaxCmds /\ cmds' = cmds + 1

InRange(b) == 0 =< b /\ b < NumDisks * BlocksPerDisk

Begin(cmd, b, v, first) ==
  /\ Idle
  /\ IF InRange(b)
     THEN pc' = first /\ req' = [blk |-> b, data |-> v] /\ out' = NoOut
     ELSE out' = [cmd |-> cmd, blk |-> b, code |-> -1, data |-> Zero] /\ UNCHANGED <<pc, req>>
  /\ UNCHANGED <<reg, left, acc, rst, diskVars, history, crashes>>

ReadCmd(b)     == Begin("read", b, Zero, "read")
WriteCmd(b, v) == Begin("write", b, v, "oldData")

Dies(d, how) == proc' = [proc EXCEPT ![d] = how] /\ deaths' = Append(deaths, d)

(* kill, and waitpid; exit(1) for a pid that was waited for already, and   *)
(* the disks then meet end of file and write no checkpoint.                *)
KillCmd(d) ==
  /\ Idle
  /\ \/ proc[d] = "running" /\ Dies(d, "reaped") /\ UNCHANGED pc
     \/ proc[d] = "zombie" /\ proc' = [proc EXCEPT ![d] = "reaped"] /\ UNCHANGED <<pc, deaths>>
     \/ proc[d] = "reaped" /\ pc' = "fatal" /\ UNCHANGED <<proc, deaths>>
  /\ out' = NoOut
  /\ UNCHANGED <<ctlVars, mem, file, vol, base, spread, stale, crashes>>

(* checkpoint_and_wait, at exit or at the end of the input.                *)
ExitCmd ==
  /\ pc = "idle"
  /\ pc' = "done"
  /\ file' = [d \in Disks |-> IF proc[d] = "running" THEN CheckpointDisk(d) ELSE file[d]]
  /\ proc' = [d \in Disks |-> "reaped"]
  /\ UNCHANGED <<ctlVars, out, mem, history, cmds, crashes>>

-----------------------------------------------------------------------------
(* rb and wb.                                                              *)

Return(cmd, code, data) ==
  pc' = "idle" /\ out' = [cmd |-> cmd, blk |-> req.blk, code |-> code, data |-> data]

\* mutant: read_block does not recover the block it could not read
FailWithoutRecovery(d) ==
  /\ IF pc \in {"read", "recover"} THEN Return("read", -1, Zero) ELSE Return("write", d, Zero)
  /\ left' = {} /\ UNCHANGED acc

(* An access that fails.  read_block goes on to recover the block, when    *)
(* there is another data disk; the rest fail with their command, and       *)
(* write_block returns the number of the disk.                             *)
Fail(d) ==
  IF pc = "read" /\ NumDisks > 1
  THEN pc' = "recover" /\ left' = Disks \ {d} /\ acc' = Zero /\ UNCHANGED out
  ELSE /\ IF pc \in {"read", "recover"} THEN Return("read", -1, Zero) ELSE Return("write", d, Zero)
       /\ left' = {} /\ UNCHANGED acc

(* The next block of the recovery, and its end.                            *)
RecoverBlock(v) ==
  /\ acc' = Xor(acc, v) /\ left' = left \ {Target}
  /\ IF left' = {} THEN Return("read", 0, acc') ELSE UNCHANGED <<pc, out>>

NewParity == Xor(Xor(reg.parity, reg.data), req.data)

(* The disk answers.                                                       *)
ReadBlockFromDisk ==
  /\ Accessing /\ pc \in Reading /\ proc[Target] = "running"
  /\ LET v == CmdRead(Target, Slot) IN
     \/ /\ pc = "read"
        /\ Return("read", 0, v) /\ UNCHANGED <<reg, left, acc>>
     \/ /\ pc = "oldData"
        /\ pc' = "oldParity" /\ reg' = [reg EXCEPT !.data = v] /\ UNCHANGED <<out, left, acc>>
     \/ /\ pc = "oldParity"
        /\ pc' = "newParity" /\ reg' = [reg EXCEPT !.parity = v] /\ UNCHANGED <<out, left, acc>>
     \/ /\ pc = "recover"
        /\ RecoverBlock(v) /\ UNCHANGED reg
  /\ UNCHANGED <<req, rst, diskVars, history, cmds, crashes>>

\* mutant: the old data is not taken out of the parity
WriteBlockOverOld ==
  /\ Accessing /\ pc \in Writing /\ proc[Target] = "running"
  /\ \/ /\ pc = "newParity"
        /\ mem' = CmdWrite(Target, Slot, Xor(reg.parity, req.data))
        /\ vol' = [vol EXCEPT ![req.blk] = req.data]
        /\ spread' = (spread \/ StripeOf(req.blk) # 0)
        /\ pc' = "newData" /\ UNCHANGED out
     \/ /\ pc = "newData"
        /\ mem' = CmdWrite(Target, Slot, req.data)
        /\ Return("write", 0, req.data) /\ UNCHANGED <<vol, spread>>
  /\ UNCHANGED <<ctlVars, proc, file, base, deaths, stale, cmds, crashes>>

WriteBlockToDisk ==
  /\ Accessing /\ pc \in Writing /\ proc[Target] = "running"
  /\ \/ /\ pc = "newParity"
        /\ mem' = CmdWrite(Target, Slot, NewParity)
        /\ vol' = [vol EXCEPT ![req.blk] = req.data]
        /\ spread' = (spread \/ StripeOf(req.blk) # 0)
        /\ pc' = "newData" /\ UNCHANGED out
     \/ /\ pc = "newData"
        /\ mem' = CmdWrite(Target, Slot, req.data)
        /\ Return("write", 0, req.data) /\ UNCHANGED <<vol, spread>>
  /\ UNCHANGED <<ctlVars, proc, file, base, deaths, stale, cmds, crashes>>

(* The disk dies between the command and its answer: no restore.           *)
ReadFails ==
  /\ Accessing /\ pc \in Reading /\ proc[Target] = "running"
  /\ crashes < MaxCrashes /\ crashes' = crashes + 1
  /\ Dies(Target, "zombie")
  /\ Fail(Target)
  /\ UNCHANGED <<req, reg, rst, mem, file, vol, base, spread, stale, cmds>>

(* EPIPE: restore_disk_process restarts the disk, zeroed, and begins to    *)
(* restore it when it is a data disk; a parity disk is left as it is.      *)
SendFails ==
  /\ Accessing /\ proc[Target] # "running"
  /\ proc' = [proc EXCEPT ![Target] = "running"]
  /\ mem' = [mem EXCEPT ![Target] = ZeroDisk]
  /\ \/ /\ Target # ParityDisk
        /\ rst' = [disk |-> Target, stripe |-> 0]
        /\ UNCHANGED <<pc, out, left, acc, base, stale>>
     \/ /\ Target = ParityDisk
        /\ Fail(Target)
        /\ base' = vol /\ stale' = (stale \/ vol # EmptyVolume) /\ UNCHANGED rst
  /\ UNCHANGED <<req, reg, file, vol, deaths, spread, cmds, crashes>>

\* mutant: the parity block is not in what a stripe is restored from
RestoreWithoutParity ==
  /\ Restoring /\ rst.stripe < BlocksPerDisk
  /\ \/ /\ \A d \in Disks : proc[d] = "running"
        /\ mem' = [mem EXCEPT ![rst.disk][rst.stripe] =
                     XorOver(DataDisks \ {rst.disk}, [d \in Disks |-> mem[d][rst.stripe]])]
        /\ rst' = [rst EXCEPT !.stripe = @ + 1]
        /\ UNCHANGED pc
     \/ /\ \E d \in Disks : proc[d] # "running"
        /\ pc' = "fatal" /\ rst' = NoRestore /\ UNCHANGED mem
  /\ UNCHANGED <<req, reg, left, acc, out, proc, file, history, cmds, crashes>>

(* One stripe of a restore.  An access that fails, after a restore of its  *)
(* own or not, ends the program.                                           *)
RestoreStripe ==
  /\ Restoring /\ rst.stripe < BlocksPerDisk
  /\ \/ /\ \A d \in Disks : proc[d] = "running"
        /\ mem' = [mem EXCEPT ![rst.disk][rst.stripe] =
                     XorOver(Disks \ {rst.disk}, [d \in Disks |-> mem[d][rst.stripe]])]
        /\ rst' = [rst EXCEPT !.stripe = @ + 1]
        /\ UNCHANGED pc
     \/ /\ \E d \in Disks : proc[d] # "running"
        /\ pc' = "fatal" /\ rst' = NoRestore /\ UNCHANGED mem
  /\ UNCHANGED <<req, reg, left, acc, out, proc, file, history, cmds, crashes>>

(* restore_disk_process returns, and the access that called it fails.      *)
RestoreDone ==
  /\ Restoring /\ rst.stripe = BlocksPerDisk
  /\ rst' = NoRestore
  /\ Fail(rst.disk)
  /\ UNCHANGED <<req, reg, diskVars, history, cmds, crashes>>

(* A disk dies on its own between two steps of the controller.             *)
Crash(d) ==
  /\ pc \notin {"done", "fatal"} /\ proc[d] = "running"
  /\ crashes < MaxCrashes /\ crashes' = crashes + 1
  /\ Dies(d, "zombie")
  /\ UNCHANGED <<pc, ctlVars, out, mem, file, vol, base, spread, stale, cmds>>

-----------------------------------------------------------------------------
Init ==
  /\ pc = "idle" /\ req = [blk |-> 0, data |-> Zero] /\ reg = [data |-> Zero, parity |-> Zero]
  /\ left = {} /\ acc = Zero /\ rst = NoRestore /\ out = NoOut
  /\ proc = [d \in Disks |-> "running"]
  /\ mem = [d \in Disks |-> ZeroDisk]
  /\ file = [d \in Disks |-> NoFile]
  /\ vol = EmptyVolume /\ base = vol /\ deaths = <<>> /\ spread = FALSE /\ stale = FALSE
  /\ cmds = 0 /\ crashes = 0

Arguments == -1 .. NumDisks * BlocksPerDisk      \* block numbers a command may give

Shell ==
  \/ \E b \in Arguments : ReadCmd(b) \/ \E v \in Block : WriteCmd(b, v)
  \/ \E d \in Disks : KillCmd(d)
  \/ ExitCmd

Controller ==
  ReadBlockFromDisk \/ WriteBlockToDisk \/ ReadFails \/ SendFails \/ RestoreStripe \/ RestoreDone

Terminated == pc \in {"done", "fatal"} /\ UNCHANGED vars

Next == Shell \/ Controller \/ (\E d \in Disks : Crash(d)) \/ Terminated

Spec == Init /\ [][Next]_vars

-----------------------------------------------------------------------------
(* A volume of one stripe: a read of the first stripe returns what was last *)
(* written, through every loss, if no other stripe was written and the     *)
(* parity disk never restarted with something on the volume, were it only  *)
(* once and since overwritten.                                             *)
ReadsRight ==
  out.cmd = "read" /\ out.code = 0 /\ StripeOf(out.blk) = 0 =>
    spread \/ stale \/ out.data = vol[out.blk]

(* The loss of one disk, at any step of a command or between two, fails no *)
(* rb, the one that finds it included, and ends the program in no rb or    *)
(* wb: with two data disks and more, as one has nothing to recover from.   *)
(* A second kill of a disk that was reaped does end it, and is left out.   *)
OneLossServed ==
  [][pc # "idle" /\ Len(deaths') < 2 =>
       /\ pc' # "fatal"
       /\ NumDisks > 1 /\ pc' = "idle" /\ out'.cmd = "read" => out'.code = 0]_vars

(* While no data disk has died, a parity block is the parity, over the     *)
(* NumDisks stripes that share it, of what was written since the parity    *)
(* disk was last started.                                                  *)
ParityTracksChanges ==
  pc = "idle" /\ (\A i \in DOMAIN deaths : deaths[i] = ParityDisk) =>
    \A p \in Stripes :
      mem[ParityDisk][p] = XorOver({b \in Blocks : ParitySlot(b) = p},
                                   [b \in Blocks |-> Xor(vol[b], base[b])])

(* A read returns what was last written: read_block is to "rebuild block   *)
(* using XOR if the data disk has failed".                                 *)
ReadsSeeVolume == out.cmd = "read" /\ out.code = 0 => out.data = vol[out.blk]
=============================================================================
