------------------------------- MODULE Volume -------------------------------
(***************************************************************************)
(* What the RAID simulator promises its user: a volume of blocks with one  *)
(* command at a time.  A read returns the block or fails.  A write that    *)
(* completes has taken effect; a write that fails may or may not have, and *)
(* no later read can disagree with what it did.  A failure is reported as  *)
(* one, except that a write to a misreported address may fail and be       *)
(* reported as done.  The volume may stop at any time.                     *)
(***************************************************************************)
EXTENDS Integers

CONSTANTS Addresses,     \* block numbers in range
          Arguments,     \* block numbers a command may give
          Misreported,   \* addresses a failed write to which may be reported as done
          Value,         \* contents of a block
          Initial        \* contents of a new volume

VARIABLES vol,   \* the contents
          op,    \* the command under way
          res    \* what the last command reported

vvars == <<vol, op, res>>

NoOp      == [cmd |-> "none", blk |-> 0, data |-> Initial, stage |-> "begun"]
Stopped   == [cmd |-> "stopped", blk |-> 0, data |-> Initial, stage |-> "begun"]
NoRes     == [cmd |-> "none", blk |-> 0, ok |-> FALSE, data |-> Initial]
Result(cmd, b, ok, v) == [cmd |-> cmd, blk |-> b, ok |-> ok, data |-> v]

VInit == vol = [a \in Addresses |-> Initial] /\ op = NoOp /\ res = NoRes

BeginRead(a) ==
  /\ op = NoOp
  /\ op' = [cmd |-> "read", blk |-> a, data |-> Initial, stage |-> "begun"]
  /\ res' = NoRes /\ UNCHANGED vol

BeginWrite(a, v) ==
  /\ op = NoOp
  /\ op' = [cmd |-> "write", blk |-> a, data |-> v, stage |-> "begun"]
  /\ res' = NoRes /\ UNCHANGED vol

Reject(cmd, b) ==
  /\ op = NoOp /\ b \notin Addresses
  /\ res' = Result(cmd, b, FALSE, Initial)
  /\ UNCHANGED <<vol, op>>

Commit ==
  /\ op.cmd = "write" /\ op.stage = "begun"
  /\ vol' = [vol EXCEPT ![op.blk] = op.data]
  /\ op' = [op EXCEPT !.stage = "committed"]
  /\ UNCHANGED res

Succeed ==
  /\ \/ op.cmd = "read" /\ res' = Result("read", op.blk, TRUE, vol[op.blk])
     \/ op.cmd = "write" /\ op.stage = "committed" /\ res' = Result("write", op.blk, TRUE, Initial)
  /\ op' = NoOp /\ UNCHANGED vol

FailOp ==
  /\ op.cmd \in {"read", "write"}
  /\ res' = Result(op.cmd, op.blk, FALSE, Initial)
  /\ op' = NoOp /\ UNCHANGED vol

(* The caller of a write to a misreported address is told it was done,     *)
(* committed or not.                                                       *)
FailUnnoticed ==
  /\ op.cmd = "write" /\ op.blk \in Misreported
  /\ res' = Result("write", op.blk, TRUE, Initial)
  /\ op' = NoOp /\ UNCHANGED vol

Stop == op' = Stopped /\ UNCHANGED <<vol, res>>

VNext ==
  \/ \E a \in Addresses : BeginRead(a)
  \/ \E a \in Addresses, v \in Value : BeginWrite(a, v)
  \/ \E cmd \in {"read", "write"}, b \in Arguments : Reject(cmd, b)
  \/ Commit \/ Succeed \/ FailOp \/ FailUnnoticed \/ Stop

VSpec == VInit /\ [][VNext]_vvars
=============================================================================
