----------------------------- MODULE RaidProofs -----------------------------
(***************************************************************************)
(* The proofs about the array.  First its safety: the type invariant of    *)
(* Raid and the inductive invariant IInv of RaidInv, step by step, and     *)
(* with them that reads see the volume, that any disk can be rebuilt       *)
(* between commands, and that the files written at the end are the         *)
(* volume's.  Then what the array owes to those who use it: what the loss  *)
(* of disks and of the controller costs, which disks run after a failure,  *)
(* which outlive `exit', and that the simulator implements the abstract    *)
(* specifications of RaidVolume and ShellView.                             *)
(***************************************************************************)
EXTENDS RaidInv, ParityProofs, SequenceTheorems, TLAPS

-----------------------------------------------------------------------------
(* The addressing of controller.c is sound, and the type invariant holds,  *)
(* for any number of disks and blocks.                                     *)

(* The loop of restore_disk_process has a next disk to read as long as one *)
(* is left.                                                                *)
LEMMA NextSourceType ==
  ASSUME NEW left \in SUBSET Disks, left # {}
  PROVE  NextSource(left) \in left
<1>1. CASE ParityDisk \in left
  BY <1>1 DEF NextSource
<1>2. CASE ParityDisk \notin left
  <2>1. \E m \in left : \A j \in left : m =< j
    BY MinExists, NumDisksAssumption DEF Disks
  <2> QED BY <1>2, <2>1 DEF NextSource
<1> QED BY <1>1, <1>2

(* The block number restore_disk_process computes from a stripe and a disk *)
(* leads read_block_from_disk back to that stripe of that disk.            *)
LEMMA BlockAtInverse ==
  ASSUME NEW s \in Stripes, NEW d \in DataDisks
  PROVE  /\ BlockAt(s, d) \in Blocks
         /\ BlockAt(s, d) % NumDisks = d
         /\ SlotOf(BlockAt(s, d)) = s
<1> USE NumDisksAssumption, BlocksPerDiskAssumption DEF Stripes, DataDisks
<1>1. s \in Nat /\ d \in 0 .. NumDisks - 1 /\ s + 1 =< BlocksPerDisk
  OBVIOUS
<1>2. (s + 1) * NumDisks =< BlocksPerDisk * NumDisks
  BY <1>1
<1>3. s * NumDisks + d =< NumDisks * BlocksPerDisk - 1 /\ s * NumDisks + d \in Nat
  BY <1>1, <1>2
<1> QED BY <1>1, <1>3, DivMod DEF BlockAt, Blocks, SlotOf

(* The disk and the slot of a block number in range exist, and determine   *)
(* it: no two blocks of the volume share a place.                          *)
LEMMA BlockPlace ==
  ASSUME NEW b \in Blocks
  PROVE  /\ b % NumDisks \in DataDisks
         /\ SlotOf(b) \in Stripes
         /\ BlockAt(SlotOf(b), b % NumDisks) = b
BY DivSplit, NumDisksAssumption, BlocksPerDiskAssumption
   DEF Blocks, SlotOf, BlockAt, DataDisks, Stripes

-----------------------------------------------------------------------------
(* Accesses.                                                               *)

LEMMA DiskFacts ==
  /\ DataDisks \subseteq Disks /\ ParityDisk \in Disks /\ ParityDisk \notin DataDisks
  /\ Disks = DataDisks \cup {ParityDisk}
  /\ IsFiniteSet(Disks) /\ IsFiniteSet(DataDisks)
  /\ Disks \subseteq Nat /\ 0 \in DataDisks
BY NumDisksAssumption, FS_Interval DEF Disks, DataDisks, ParityDisk

(* The command under way addresses a block of the array.                   *)
LEMMA CommandAccessType ==
  ASSUME TypeOK, pc \in Accessing
  PROVE  /\ CommandAccess.blk = req.blk /\ CommandAccess.parity \in BOOLEAN
         /\ CommandAccess.op \in {"read", "write"} /\ CommandAccess.data \in Block
         /\ ReqDisk \in Disks /\ SlotOf(req.blk) \in Stripes
<1>1. req.blk \in Blocks /\ req.data \in Block /\ reg.data \in Block /\ reg.parity \in Block
  BY DEF TypeOK
<1>2. Zero \in Block /\ \A a, b, c \in Block : NewParity(a, b, c) \in Block
  BY DEF Zero, Block, NewParity, Xor
<1>3. req.blk % NumDisks \in Disks /\ SlotOf(req.blk) \in Stripes
  BY <1>1, BlockPlace, DiskFacts
<1> QED BY <1>1, <1>2, <1>3, DiskFacts DEF CommandAccess, ReqDisk, DiskOf

(* Within a restore the disk and slot reached are those meant.             *)
LEMMA FrameAccessType ==
  ASSUME NEW f \in Frame, f.stripe < BlocksPerDisk
  PROVE  LET a == FrameAccess(f) IN
         /\ a.blk \in Blocks /\ a.parity \in BOOLEAN /\ a.data \in Block
         /\ SlotOf(a.blk) = f.stripe /\ f.stripe \in Stripes
         /\ f.left = {} => a.op = "write" /\ a.data = f.acc /\ DiskOf(a.blk, a.parity) = f.disk
         /\ f.left # {} => a.op = "read" /\ DiskOf(a.blk, a.parity) = NextSource(f.left)
<1> USE DiskFacts
<1>1. /\ f.disk \in Disks /\ f.stripe \in Stripes /\ f.acc \in Block /\ f.left \in SUBSET Disks
  BY BlocksPerDiskAssumption DEF Frame, Stripes
<1>2. Zero \in Block
  BY DEF Zero, Block
<1>3. CASE f.left = {}
  <2> DEFINE d == IF f.disk = ParityDisk THEN 0 ELSE f.disk
  <2>1. d \in DataDisks
    BY <1>1
  <2>2. FrameAccess(f) = [op |-> "write", parity |-> f.disk = ParityDisk, data |-> f.acc,
                          blk |-> BlockAt(f.stripe, d)]
    BY <1>3 DEF FrameAccess
  <2> HIDE DEF d
  <2>3. /\ BlockAt(f.stripe, d) \in Blocks /\ BlockAt(f.stripe, d) % NumDisks = d
        /\ SlotOf(BlockAt(f.stripe, d)) = f.stripe
    BY <1>1, <2>1, BlockAtInverse
  <2>4. DiskOf(BlockAt(f.stripe, d), f.disk = ParityDisk) = f.disk
    BY <2>3 DEF DiskOf, d
  <2> QED BY <1>1, <1>3, <2>2, <2>3, <2>4
<1>4. CASE f.left # {}
  <2> DEFINE k == NextSource(f.left)
             d == IF k # ParityDisk THEN k ELSE IF f.disk = ParityDisk THEN 0 ELSE f.disk
  <2>0. k \in Disks
    BY <1>1, <1>4, NextSourceType
  <2>1. d \in DataDisks
    BY <1>1, <2>0
  <2>2. FrameAccess(f) = [op |-> "read", parity |-> k = ParityDisk, data |-> Zero,
                          blk |-> BlockAt(f.stripe, d)]
    BY <1>4 DEF FrameAccess
  <2> HIDE DEF d
  <2>3. /\ BlockAt(f.stripe, d) \in Blocks /\ BlockAt(f.stripe, d) % NumDisks = d
        /\ SlotOf(BlockAt(f.stripe, d)) = f.stripe
    BY <1>1, <2>1, BlockAtInverse
  <2>4. DiskOf(BlockAt(f.stripe, d), k = ParityDisk) = k
    BY <2>3 DEF DiskOf, d
  <2> QED BY <1>1, <1>2, <1>4, <2>2, <2>3, <2>4
<1> QED BY <1>3, <1>4

(* Every access reaches a slot of a disk.                                  *)
LEMMA AccessType ==
  ASSUME TypeOK, Ready
  PROVE  /\ Access.blk \in Blocks /\ Access.op \in {"read", "write"} /\ Access.data \in Block
         /\ Target \in Disks /\ Slot \in Stripes
<1>1. CASE rst = <<>>
  <2>1. Access = CommandAccess
    BY <1>1 DEF Access
  <2>2. req.blk \in Blocks
    BY DEF TypeOK, Ready
  <2> QED BY <2>1, <2>2, CommandAccessType DEF Ready, Target, Slot, ReqDisk
<1>2. CASE rst # <<>>
  <2>1. Head(rst) \in Frame /\ Head(rst).stripe < BlocksPerDisk
    BY <1>2, HeadTailProperties DEF TypeOK, Ready
  <2>2. Access = FrameAccess(Head(rst))
    BY <1>2 DEF Access
  <2>3. Head(rst).disk \in Disks /\ Head(rst).left \in SUBSET Disks
    BY <2>1 DEF Frame
  <2> QED BY <2>1, <2>2, <2>3, FrameAccessType, NextSourceType DEF Target, Slot
<1> QED BY <1>1, <1>2

-----------------------------------------------------------------------------
(* Types.                                                                  *)

LEMMA InitType == Init => TypeOK
<1> SUFFICES ASSUME Init PROVE TypeOK
  OBVIOUS
<1> USE NumDisksAssumption, BoundsAssumption, EmptySeq DEF Init
<1>1. Zero \in Block /\ ZeroDisk \in [Stripes -> Block]
  BY DEF Zero, Block, ZeroDisk
<1>2. out \in Outcome
  BY <1>1 DEF NoOut, Outcome
<1>3. /\ rst \in Seq(Frame) /\ toDisk \in [Disks -> Seq(Msg)]
      /\ fromDisk \in [Disks -> Seq(Block)]
  OBVIOUS
<1>4. mem \in [Disks -> [Stripes -> Block]] /\ vol \in [Blocks -> Block]
  BY <1>1
<1>5. pc \notin Accessing
  BY DEF Accessing
<1> QED BY <1>1, <1>2, <1>3, <1>4, <1>5 DEF TypeOK, Disks

LEMMA OutcomeType ==
  ASSUME NEW cmd \in {"none", "read", "write"}, NEW b \in Int, NEW ok \in BOOLEAN,
         NEW code \in -1 .. NumDisks, NEW v \in Block
  PROVE  [cmd |-> cmd, blk |-> b, ok |-> ok, code |-> code, data |-> v] \in Outcome
BY DEF Outcome

(* Fail leaves the shell's outcome well formed.                            *)
LEMMA FailType ==
  ASSUME TypeOK, pc \in Accessing, NEW callers, Fail(callers)
  PROVE  /\ pc' \in {"idle", "fatal"} /\ phase' = "send" /\ rst' = <<>>
         /\ out' \in Outcome
<1>1. ReqDisk \in 0 .. NumDisks
  BY CommandAccessType DEF Disks
<1>2. DiskOf(req.blk, CommandAccess.parity) \in -1 .. NumDisks
  BY <1>1, NumDisksAssumption DEF ReqDisk
<1>3. Zero \in Block /\ req.blk \in Int /\ -1 \in -1 .. NumDisks
  BY NumDisksAssumption DEF Zero, Block, TypeOK
<1>4. CASE callers = <<>>
  <2> DEFINE cmd == IF pc = "read" THEN "read" ELSE "write"
             code == IF pc = "read" THEN -1 ELSE DiskOf(req.blk, CommandAccess.parity)
  <2>1. cmd \in {"none", "read", "write"} /\ code \in -1 .. NumDisks
    BY <1>2, <1>3
  <2>2. out' = [cmd |-> cmd, blk |-> req.blk, ok |-> FALSE, data |-> Zero, code |-> code]
    BY <1>4 DEF Fail, FailureCode
  <2> HIDE DEF cmd, code
  <2>3. out' \in Outcome
    BY <1>3, <2>1, <2>2 DEF Outcome
  <2> QED BY <1>4, <2>3 DEF Fail
<1>5. CASE callers # <<>>
  BY <1>5 DEF Fail, TypeOK
<1> QED BY <1>4, <1>5

(* The messages the controller sends are commands of the disks.            *)
LEMMA SendType ==
  ASSUME TypeOK, NEW d \in Disks, NEW m \in Msg, Send(d, m)
  PROVE  toDisk' \in [Disks -> Seq(Msg)]
<1>1. toDisk[d] \in Seq(Msg) /\ Append(toDisk[d], m) \in Seq(Msg)
  BY AppendProperties DEF TypeOK
<1> QED BY <1>1 DEF Send, TypeOK

LEMMA ConsumeType ==
  ASSUME TypeOK, NEW d \in Disks, toDisk[d] # <<>>
  PROVE  /\ Consume(d) => toDisk' \in [Disks -> Seq(Msg)]
         /\ Head(toDisk[d]) \in Msg
<1>1. toDisk[d] \in Seq(Msg) /\ Tail(toDisk[d]) \in Seq(Msg) /\ Head(toDisk[d]) \in Msg
  BY HeadTailProperties DEF TypeOK
<1>2. toDisk \in [Disks -> Seq(Msg)]
  BY DEF TypeOK
<1> QED BY <1>1, <1>2 DEF Consume

LEMMA FrameStepType ==
  ASSUME NEW f \in Frame, f.stripe < BlocksPerDisk, NEW v \in Block
  PROVE  Absorb(f, v) \in Frame /\ NextStripe(f) \in Frame
<1>1. Xor(f.acc, v) \in Block /\ Zero \in Block
  BY DEF Frame, Block, Xor, Zero
<1>2. f.stripe + 1 \in 0 .. BlocksPerDisk
  BY BlocksPerDiskAssumption DEF Frame
<1>3. Absorb(f, v) \in Frame
  BY <1>1 DEF Frame, Absorb
<1>4. NextStripe(f) \in Frame
  BY <1>1, <1>2 DEF Frame, NextStripe, Sources
<1> QED BY <1>3, <1>4

LEMMA ReplaceTop ==
  ASSUME NEW S, NEW q \in Seq(S), q # <<>>, NEW f \in S
  PROVE  /\ <<f>> \o Tail(q) \in Seq(S)
         /\ Len(<<f>> \o Tail(q)) = Len(q)
         /\ Head(<<f>> \o Tail(q)) = f
         /\ <<f>> \o Tail(q) # <<>>
<1>1. Tail(q) \in Seq(S) /\ Len(Tail(q)) = Len(q) - 1 /\ Len(q) \in Nat
  BY HeadTailProperties, LenProperties
<1>2. <<f>> \in Seq(S) /\ Len(<<f>>) = 1
  OBVIOUS
<1>3. /\ <<f>> \o Tail(q) \in Seq(S) /\ Len(<<f>> \o Tail(q)) = Len(q)
      /\ (<<f>> \o Tail(q))[1] = f
  BY <1>1, <1>2, ConcatProperties
<1> QED BY <1>1, <1>3, EmptySeq

LEMMA PushTop ==
  ASSUME NEW S, NEW q \in Seq(S), NEW f \in S
  PROVE  /\ <<f>> \o q \in Seq(S)
         /\ Len(<<f>> \o q) = Len(q) + 1
         /\ Head(<<f>> \o q) = f
         /\ <<f>> \o q # <<>>
<1>1. <<f>> \in Seq(S) /\ Len(<<f>>) = 1 /\ Len(q) \in Nat
  BY LenProperties
<1>2. <<f>> \o q \in Seq(S) /\ Len(<<f>> \o q) = Len(q) + 1 /\ (<<f>> \o q)[1] = f
  BY <1>1, ConcatProperties
<1> QED BY <1>1, <1>2, EmptySeq

(* Every step of the controller and of the disks keeps the types.          *)
LEMMA NextType == TypeOK /\ [Next]_vars => TypeOK'
<1> SUFFICES ASSUME TypeOK, [Next]_vars PROVE TypeOK'
  OBVIOUS
<1> USE DEF ctlVars, diskVars, auxVars
<1>z. Zero \in Block /\ ZeroDisk \in [Stripes -> Block] /\ Exit \in Msg
  BY DEF Zero, Block, ZeroDisk, Msg, Exit
<1>1. ASSUME NEW cmd \in {"read", "write"}, NEW b \in BlockArgs, NEW v \in Block,
             NEW first \in Accessing, Begin(cmd, b, v, first)
      PROVE  TypeOK'
  <2>1. b \in Int
    BY NumDisksAssumption, BlocksPerDiskAssumption DEF BlockArgs
  <2>2. InRange(b) => b \in Blocks /\ b \in Nat
    BY <2>1, NumDisksAssumption, BlocksPerDiskAssumption DEF InRange, Blocks
  <2>3. cmds' \in 0 .. MaxCmds
    BY <1>1, BoundsAssumption DEF Begin, Idle, TypeOK
  <2>4. -1 \in -1 .. NumDisks /\ 0 \in -1 .. NumDisks
    BY NumDisksAssumption
  <2>5. CASE InRange(b)
    <3>1. out' \in Outcome
      <4>1. out' = [cmd |-> "none", blk |-> 0, ok |-> FALSE, code |-> 0, data |-> Zero]
        BY <1>1, <2>5 DEF Begin, NoOut
      <4>2. "none" \in {"none", "read", "write"} /\ 0 \in Int /\ FALSE \in BOOLEAN
        OBVIOUS
      <4> QED BY <1>z, <2>4, <4>1, <4>2, OutcomeType
    <3>2. req' \in [blk : Nat, data : Block] /\ req'.blk \in Blocks /\ pc' \in Accessing
      BY <1>1, <2>2, <2>5 DEF Begin
    <3> QED BY <1>1, <2>3, <2>5, <3>1, <3>2 DEF Begin, TypeOK
  <2>6. CASE ~InRange(b)
    <3>1. out' \in Outcome
      <4>1. out' = [cmd |-> cmd, blk |-> b, ok |-> FALSE, code |-> -1, data |-> Zero]
        BY <1>1, <2>6 DEF Begin
      <4> QED BY <1>z, <2>1, <2>4, <4>1, OutcomeType
    <3> QED BY <1>1, <2>3, <2>6, <3>1 DEF Begin, TypeOK
  <2> QED BY <2>5, <2>6
<1>2. ASSUME NEW d \in Disks, KillCmd(d) PROVE TypeOK'
  <2>1. cmds' \in 0 .. MaxCmds /\ losses' \in Nat
    BY <1>2, BoundsAssumption DEF KillCmd, Idle, TypeOK
  <2> QED BY <1>2, <2>1, EmptySeq DEF KillCmd, TypeOK
<1>3. CASE StatusCmd
  BY <1>3, BoundsAssumption DEF StatusCmd, Idle, TypeOK
<1>4. CASE ExitCmd
  BY <1>4, DiskFacts DEF ExitCmd, TypeOK, Accessing
<1>5. CASE SendRead
  <2>1. Target \in Disks /\ [op |-> "read", stripe |-> Slot, data |-> Zero] \in Msg
    BY <1>5, <1>z, AccessType DEF SendRead, Msg
  <2>2. toDisk' \in [Disks -> Seq(Msg)]
    BY <1>5, <2>1, SendType DEF SendRead
  <2> QED BY <1>5, <2>2 DEF SendRead, TypeOK
<1>6. CASE RecvBlock
  <2>1. Target \in Disks
    BY <1>6, AccessType DEF RecvBlock
  <2> DEFINE v == Head(fromDisk[Target])
  <2>2. v \in Block /\ Tail(fromDisk[Target]) \in Seq(Block)
    BY <1>6, <2>1, HeadTailProperties DEF RecvBlock, TypeOK
  <2>3. fromDisk' \in [Disks -> Seq(Block)]
    BY <1>6, <2>1, <2>2 DEF RecvBlock, TypeOK
  <2>4. ASSUME rst # <<>>, rst' = <<Absorb(Head(rst), v)>> \o Tail(rst)
        PROVE  rst' \in Seq(Frame)
    <3>1. Head(rst) \in Frame /\ Head(rst).stripe < BlocksPerDisk
      BY <1>6, <2>4, HeadTailProperties DEF RecvBlock, Ready, TypeOK
    <3>2. Absorb(Head(rst), v) \in Frame
      BY <3>1, <2>2, FrameStepType
    <3> QED BY <2>4, <3>2, ReplaceTop DEF TypeOK
  <2>5. CASE rst # <<>>
    BY <1>6, <2>3, <2>4, <2>5 DEF RecvBlock, TypeOK
  <2>6. CASE rst = <<>> /\ pc = "read"
    <3>1. 0 \in -1 .. NumDisks /\ req.blk \in Int
      BY NumDisksAssumption DEF TypeOK
    <3>2. out' \in Outcome
      <4>1. out' = [cmd |-> "read", blk |-> req.blk, ok |-> TRUE, code |-> 0, data |-> v]
        BY <1>6, <2>6 DEF RecvBlock
      <4> QED BY <2>2, <3>1, <4>1, OutcomeType
    <3> QED BY <1>6, <2>3, <2>6, <3>2 DEF RecvBlock, TypeOK, Accessing
  <2>7. CASE rst = <<>> /\ pc \in {"oldData", "oldParity"}
    BY <1>6, <2>2, <2>3, <2>7 DEF RecvBlock, TypeOK, Accessing
  <2> QED BY <1>6, <2>5, <2>6, <2>7 DEF RecvBlock
<1>7. CASE RecvEof
  <2>1. /\ pc' \in {"idle", "fatal"} /\ phase' = "send" /\ rst' = <<>>
        /\ out' \in Outcome
    BY <1>7, FailType DEF RecvEof, Ready
  <2> QED BY <1>7, <2>1, EmptySeq DEF RecvEof, TypeOK, Accessing, Gone
<1>8. CASE SendWrite
  <2>1. Target \in Disks /\ [op |-> "write", stripe |-> Slot, data |-> Access.data] \in Msg
    BY <1>8, AccessType DEF SendWrite, Msg
  <2>2. toDisk' \in [Disks -> Seq(Msg)]
    BY <1>8, <2>1, SendType DEF SendWrite
  <2>3. CASE rst # <<>>
    <3>1. Head(rst) \in Frame /\ Head(rst).stripe < BlocksPerDisk
      BY <1>8, <2>3, HeadTailProperties DEF SendWrite, Ready, TypeOK
    <3>2. NextStripe(Head(rst)) \in Frame
      BY <3>1, <1>z, FrameStepType
    <3>3. rst' \in Seq(Frame)
      <4>1. rst' = <<NextStripe(Head(rst))>> \o Tail(rst) /\ rst \in Seq(Frame)
        BY <1>8, <2>3 DEF SendWrite, TypeOK
      <4> QED BY <2>3, <3>2, <4>1, ReplaceTop
    <3> QED BY <1>8, <2>2, <2>3, <3>3 DEF SendWrite, TypeOK
  <2>4. CASE rst = <<>> /\ pc = "newParity"
    <3>1. vol' \in [Blocks -> Block] /\ pc' = "newData" /\ req.blk \in Blocks
      BY <1>8, <2>4 DEF SendWrite, TypeOK, Accessing
    <3> QED BY <1>8, <2>2, <2>4, <3>1 DEF SendWrite, TypeOK, Accessing
  <2>5. CASE rst = <<>> /\ pc = "newData"
    <3>1. 0 \in -1 .. NumDisks /\ req.blk \in Int /\ Zero \in Block
      BY NumDisksAssumption DEF TypeOK, Zero, Block
    <3>2. out' \in Outcome
      <4>1. out' = [cmd |-> "write", blk |-> req.blk, ok |-> TRUE, code |-> 0, data |-> Zero]
        BY <1>8, <2>5 DEF SendWrite
      <4> QED BY <3>1, <4>1, OutcomeType
    <3> QED BY <1>8, <2>2, <2>5, <3>2 DEF SendWrite, TypeOK, Accessing
  <2> QED BY <1>8, <2>3, <2>4, <2>5 DEF SendWrite
<1>9. CASE SendFails
  <2> DEFINE f == [disk |-> Target, stripe |-> 0, left |-> Sources(Target), acc |-> Zero]
  <2>1. Target \in Disks /\ f \in Frame
    BY <1>9, <1>z, AccessType, BlocksPerDiskAssumption DEF SendFails, Frame, Sources
  <2>2. rst' \in Seq(Frame)
    BY <1>9, <2>1, PushTop DEF SendFails, TypeOK
  <2>3. /\ proc' \in [Disks -> {"running", "zombie", "reaped"}]
        /\ mem' \in [Disks -> [Stripes -> Block]] /\ orphans' \in Nat
    <3>1. orphans \in Nat /\ mem \in [Disks -> [Stripes -> Block]]
      BY DEF TypeOK
    <3>2. orphans' \in Nat
      BY <1>9, <3>1 DEF SendFails
    <3>3. mem' \in [Disks -> [Stripes -> Block]]
      BY <1>9, <1>z, <3>1 DEF SendFails
    <3> QED BY <1>9, <3>2, <3>3 DEF SendFails, TypeOK
  <2>4. toDisk' \in [Disks -> Seq(Msg)] /\ fromDisk' \in [Disks -> Seq(Block)]
    BY <1>9, EmptySeq DEF SendFails, TypeOK
  <2> QED BY <1>9, <2>2, <2>3, <2>4 DEF SendFails, TypeOK
<1>10. CASE RestoreDone
  <2>1. losses' \in Nat
    BY <1>10 DEF RestoreDone, TypeOK
  <2>2. /\ pc' \in {"idle", "fatal"} /\ phase' = "send" /\ rst' = <<>>
        /\ out' \in Outcome
    BY <1>10, FailType DEF RestoreDone
  <2> QED BY <1>10, <2>1, <2>2, EmptySeq DEF RestoreDone, TypeOK, Accessing, Gone
<1>11. CASE SendExit
  <2>1. toDisk' \in [Disks -> Seq(Msg)]
    BY <1>11, <1>z, SendType DEF SendExit, TypeOK
  <2>2. idx' \in Disks /\ pc' \in {"exit", "wait"}
    <3>1. idx \in 0 .. NumDisks
      BY DEF TypeOK, Disks
    <3> QED BY <1>11, <3>1, NumDisksAssumption DEF SendExit, LastDisk, Disks
  <2> QED BY <1>11, <2>1, <2>2 DEF SendExit, TypeOK, Accessing
<1>12. CASE WaitChild
  <2>1. idx' \in Disks /\ pc' \in {"wait", "done"}
    <3>1. idx \in 0 .. NumDisks
      BY DEF TypeOK, Disks
    <3> QED BY <1>12, <3>1, NumDisksAssumption DEF WaitChild, LastDisk, Disks
  <2>2. proc' \in [Disks -> {"running", "zombie", "reaped"}] /\ orphans' \in Nat
    <3>1. orphans \in Nat /\ proc \in [Disks -> {"running", "zombie", "reaped"}]
      BY DEF TypeOK
    <3> QED BY <1>12, <3>1 DEF WaitChild, Reap
  <2> QED BY <1>12, <2>1, <2>2 DEF WaitChild, TypeOK, Accessing, Gone
<1>13. ASSUME NEW d \in Disks, DiskRead(d) PROVE TypeOK'
  <2>1. toDisk' \in [Disks -> Seq(Msg)] /\ Head(toDisk[d]) \in Msg
    BY <1>13, ConsumeType DEF DiskRead, Pending
  <2>2. Head(toDisk[d]).stripe \in Stripes
    BY <1>13, <2>1 DEF DiskRead, Pending, Msg, Exit
  <2>3. mem[d][Head(toDisk[d]).stripe] \in Block /\ fromDisk[d] \in Seq(Block)
    BY <2>2 DEF TypeOK
  <2>4. fromDisk' \in [Disks -> Seq(Block)]
    BY <1>13, <2>3, AppendProperties DEF DiskRead, TypeOK
  <2> QED BY <1>13, <2>1, <2>4 DEF DiskRead, TypeOK
<1>14. ASSUME NEW d \in Disks, DiskWrite(d) PROVE TypeOK'
  <2>1. toDisk' \in [Disks -> Seq(Msg)] /\ Head(toDisk[d]) \in Msg
    BY <1>14, ConsumeType DEF DiskWrite, Pending
  <2>2. Head(toDisk[d]).stripe \in Stripes /\ Head(toDisk[d]).data \in Block
    BY <1>14, <2>1 DEF DiskWrite, Pending, Msg, Exit
  <2>3. mem' \in [Disks -> [Stripes -> Block]]
    BY <1>14, <2>2 DEF DiskWrite, TypeOK
  <2> QED BY <1>14, <2>1, <2>3 DEF DiskWrite, TypeOK
<1>15. ASSUME NEW d \in Disks, Checkpoint(d) PROVE TypeOK'
  <2>1. /\ file' \in [Disks -> {NoFile} \cup [Stripes -> Block]]
        /\ proc' \in [Disks -> {"running", "zombie", "reaped"}]
        /\ toDisk' \in [Disks -> Seq(Msg)]
    BY <1>15, EmptySeq DEF Checkpoint, TypeOK
  <2> QED BY <1>15, <2>1 DEF Checkpoint, TypeOK
<1>16. ASSUME NEW d \in Disks, Crash(d) PROVE TypeOK'
  <2>1. /\ crashes' \in 0 .. MaxCrashes /\ losses' \in Nat
        /\ proc' \in [Disks -> {"running", "zombie", "reaped"}]
        /\ toDisk' \in [Disks -> Seq(Msg)]
    BY <1>16, EmptySeq, BoundsAssumption DEF Crash, TypeOK
  <2> QED BY <1>16, <2>1 DEF Crash, TypeOK
<1>17. CASE UNCHANGED vars
  BY <1>17 DEF vars, TypeOK
<1>18. CASE Command
  BY <1>18, <1>1, <1>2, <1>3, <1>z DEF Command, ReadCmd, WriteCmd, Accessing
<1>19. CASE Sigterm
  BY <1>19, EmptySeq DEF Sigterm, TypeOK, Accessing, Gone
<1> QED BY <1>4, <1>5, <1>6, <1>7, <1>8, <1>9, <1>10, <1>11, <1>12, <1>13, <1>14, <1>15,
           <1>16, <1>17, <1>18, <1>19
        DEF Next, Controller, DiskStep, DiskExit, DiskEof, Terminated

(* Every reachable state of the simulator is well typed: no block number   *)
(* leaves the array, no access a disk, no message the command protocol.    *)
THEOREM TypeCorrect == Spec => []TypeOK
BY InitType, NextType, PTL DEF Spec

-----------------------------------------------------------------------------
(* What a disk settles to, as its pipe is filled and read.                 *)

LEMMA SettlesAppend ==
  ASSUME NEW q \in Seq(Msg), NEW m \in Msg, NEW blocks, NEW s, NEW v
  PROVE  /\ (m.op # "write" \/ m.stripe # s) /\ Settles(q, blocks, s, v)
              => Settles(Append(q, m), blocks, s, v)
         /\ m.op = "write" /\ m.stripe = s => Settles(Append(q, m), blocks, s, m.data)
<1> DEFINE p == Append(q, m)
           n == Len(q)
<1>1. /\ n \in Nat /\ DOMAIN q = 1 .. n /\ DOMAIN p = 1 .. n + 1
      /\ p[n + 1] = m /\ \A i \in 1 .. n : p[i] = q[i]
  BY AppendProperties, LenProperties
<1> HIDE DEF p, n
<1>2. CASE m.op # "write" \/ m.stripe # s
  <2>1. Writes(p, s) = Writes(q, s)
    BY <1>1, <1>2 DEF Writes
  <2>2. \A i \in Writes(q, s) : p[i] = q[i]
    BY <1>1 DEF Writes
  <2> QED BY <1>2, <2>1, <2>2 DEF Settles, p
<1>3. CASE m.op = "write" /\ m.stripe = s
  <2>1. n + 1 \in Writes(p, s) /\ \A j \in Writes(p, s) : j =< n + 1
    BY <1>1, <1>3 DEF Writes
  <2> QED BY <1>1, <1>3, <2>1 DEF Settles, p
<1> QED BY <1>2, <1>3

LEMMA SettlesTail ==
  ASSUME NEW q \in Seq(Msg), q # <<>>, NEW blocks \in [Stripes -> Block], NEW s \in Stripes,
         NEW v, Settles(q, blocks, s, v)
  PROVE  /\ Head(q).op # "write" => Settles(Tail(q), blocks, s, v)
         /\ Head(q).op = "write"
              => Settles(Tail(q), [blocks EXCEPT ![Head(q).stripe] = Head(q).data], s, v)
<1> DEFINE n == Len(q)
           t == Tail(q)
           b == IF Head(q).op = "write" THEN [blocks EXCEPT ![Head(q).stripe] = Head(q).data]
                ELSE blocks
<1>1. /\ n \in Nat \ {0} /\ DOMAIN q = 1 .. n /\ DOMAIN t = 1 .. n - 1
      /\ Head(q) = q[1] /\ \A i \in 1 .. n - 1 : t[i] = q[i + 1]
  BY HeadTailProperties, LenProperties, EmptySeq
<1> HIDE DEF n, t
<1>2. \A i \in 1 .. n - 1 : i \in Writes(t, s) <=> i + 1 \in Writes(q, s)
  BY <1>1 DEF Writes
<1>3. Writes(t, s) \subseteq 1 .. n - 1 /\ Writes(q, s) \subseteq 1 .. n
  BY <1>1 DEF Writes
<1>4. 1 \in Writes(q, s) => Head(q).op = "write" /\ Head(q).stripe = s
  BY <1>1 DEF Writes
<1>5. 1 \notin Writes(q, s) => b[s] = blocks[s]
  BY <1>1 DEF Writes
<1>6. CASE Writes(q, s) = {}
  <2>1. Writes(t, s) = {}
    BY <1>2, <1>3, <1>6
  <2> QED BY <1>5, <1>6, <2>1 DEF Settles, t
<1>7. CASE Writes(q, s) # {}
  <2>1. PICK i \in Writes(q, s) : q[i].data = v /\ \A j \in Writes(q, s) : j =< i
    BY <1>7 DEF Settles
  <2>2. CASE i = 1
    <3>1. Writes(t, s) = {}
      BY <1>1, <1>2, <1>3, <2>1, <2>2
    <3>2. b[s] = v
      BY <1>1, <1>4, <2>1, <2>2
    <3> QED BY <3>1, <3>2 DEF Settles, t
  <2>3. CASE i # 1
    <3>1. i - 1 \in Writes(t, s) /\ t[i - 1] = q[i]
      BY <1>1, <1>2, <1>3, <2>3
    <3>2. \A j \in Writes(t, s) : j =< i - 1
      BY <1>1, <1>2, <1>3, <2>1
    <3> QED BY <2>1, <3>1, <3>2 DEF Settles, t
  <2> QED BY <2>2, <2>3
<1> QED BY <1>6, <1>7

(* A disk with no write to read has already settled.                       *)
LEMMA SettlesNow ==
  ASSUME NEW q, NEW blocks, NEW s, NEW v, Settles(q, blocks, s, v),
         \A i \in DOMAIN q : q[i].op # "write"
  PROVE  blocks[s] = v
BY DEF Settles, Writes

-----------------------------------------------------------------------------
(* The layout.                                                             *)

LEMMA RowType ==
  ASSUME TypeOK, NEW s \in Stripes
  PROVE  /\ Row(s) \in [DataDisks \cup {ParityDisk} -> Block]
         /\ Row(s)[ParityDisk] = XorOver(DataDisks, Row(s))
         /\ \A d \in Disks : Row(s)[d] = Logical(d, s) /\ Logical(d, s) \in Block
<1> DEFINE data == [k \in DataDisks |-> vol[BlockAt(s, k)]]
<1>1. \A d \in DataDisks : Logical(d, s) = data[d] /\ data[d] \in Block
  BY BlockAtInverse, DiskFacts DEF Logical, TypeOK
<1>2. Logical(ParityDisk, s) = XorOver(DataDisks, data) /\ XorOver(DataDisks, data) \in Block
  BY XorOverType DEF Logical
<1> HIDE DEF data
<1>3. \A d \in Disks : Row(s)[d] = Logical(d, s) /\ Logical(d, s) \in Block
  BY <1>1, <1>2, DiskFacts DEF Row
<1>4. \A d \in DataDisks : Row(s)[d] = data[d]
  BY <1>1, <1>3, DiskFacts
<1>5. XorOver(DataDisks, Row(s)) = XorOver(DataDisks, data)
  BY <1>4, XorOverSame
<1>6. Row(s) \in [DataDisks \cup {ParityDisk} -> Block]
  BY <1>3, DiskFacts DEF Row
<1> QED BY <1>2, <1>3, <1>5, <1>6, DiskFacts

(* What restore_disk_process writes to a disk once it has read the others. *)
LEMMA RestoredBlock ==
  ASSUME TypeOK, NEW s \in Stripes, NEW d \in Disks
  PROVE  XorOver(Sources(d), Row(s)) = Logical(d, s)
<1> DEFINE row == Row(s)
<1>1. /\ row \in [DataDisks \cup {ParityDisk} -> Block]
      /\ row[ParityDisk] = XorOver(DataDisks, row) /\ row[d] = Logical(d, s)
  BY RowType
<1> HIDE DEF row
<1>2. IsFiniteSet(DataDisks) /\ ParityDisk \notin DataDisks /\ d \in DataDisks \cup {ParityDisk}
  BY DiskFacts
<1>3. XorOver((DataDisks \cup {ParityDisk}) \ {d}, row) = row[d]
  BY <1>1, <1>2, RebuildAnyBlock
<1>4. Sources(d) = (DataDisks \cup {ParityDisk}) \ {d}
  BY DiskFacts DEF Sources
<1> QED BY <1>1, <1>3, <1>4 DEF row

(* The block of a logical block number is that of its disk and slot.       *)
LEMMA LogicalBlock ==
  ASSUME NEW b \in Blocks
  PROVE  Logical(b % NumDisks, SlotOf(b)) = vol[b]
BY BlockPlace, DiskFacts DEF Logical

(* The disks and slots other than those of a changed block and its parity  *)
(* keep what the layout gives them; the parity block becomes NewParity.    *)
LEMMA LogicalUpdate ==
  ASSUME TypeOK, NEW b \in Blocks, NEW v \in Block, vol' = [vol EXCEPT ![b] = v]
  PROVE  /\ \A d \in Disks, s \in Stripes :
              s # SlotOf(b) \/ d \notin {b % NumDisks, ParityDisk} => Logical(d, s)' = Logical(d, s)
         /\ Logical(b % NumDisks, SlotOf(b))' = v
         /\ Logical(ParityDisk, SlotOf(b))' = NewParity(Logical(ParityDisk, SlotOf(b)), vol[b], v)
<1> DEFINE t == SlotOf(b)
           k == b % NumDisks
<1>1. t \in Stripes /\ k \in DataDisks /\ BlockAt(t, k) = b
  BY BlockPlace
<1>2. \A d \in DataDisks, s \in Stripes : BlockAt(s, d) \in Blocks /\ (BlockAt(s, d) = b <=> s = t /\ d = k)
  BY <1>1, BlockAtInverse
<1> HIDE DEF t, k
<1>3. \A d \in DataDisks, s \in Stripes :
        /\ vol'[BlockAt(s, d)] = IF s = t /\ d = k THEN v ELSE vol[BlockAt(s, d)]
        /\ vol[BlockAt(s, d)] \in Block
  BY <1>2 DEF TypeOK
<1>4. \A d \in DataDisks, s \in Stripes :
        /\ Logical(d, s) = vol[BlockAt(s, d)]
        /\ Logical(d, s)' = vol'[BlockAt(s, d)]
  BY DiskFacts DEF Logical
<1> DEFINE data(s) == [d \in DataDisks |-> vol[BlockAt(s, d)]]
           data2(s) == [d \in DataDisks |-> vol'[BlockAt(s, d)]]
<1>5. \A s : /\ Logical(ParityDisk, s) = XorOver(DataDisks, data(s))
             /\ Logical(ParityDisk, s)' = XorOver(DataDisks, data2(s))
  BY DEF Logical
<1>6. ASSUME NEW s \in Stripes, s # t PROVE Logical(ParityDisk, s)' = Logical(ParityDisk, s)
  <2>1. \A d \in DataDisks : data2(s)[d] = data(s)[d]
    BY <1>3, <1>6
  <2> DEFINE r == data(s)
             r2 == data2(s)
  <2>2. Logical(ParityDisk, s) = XorOver(DataDisks, r) /\ Logical(ParityDisk, s)' = XorOver(DataDisks, r2)
    BY <1>5
  <2>3. \A d \in DataDisks : r2[d] = r[d]
    BY <2>1
  <2> HIDE DEF r, r2
  <2>4. XorOver(DataDisks, r2) = XorOver(DataDisks, r)
    BY <2>3, XorOverSame
  <2> QED BY <2>2, <2>4
<1>7. Logical(ParityDisk, t)' = NewParity(Logical(ParityDisk, t), vol[b], v)
  <2> DEFINE r == data(t)
             r2 == data2(t)
  <2>1. r[k] = vol[b] /\ r2[k] = v /\ vol[b] \in Block
    BY <1>1, <1>3
  <2>2. \A d \in DataDisks \ {k} : r2[d] = r[d]
    BY <1>1, <1>3
  <2>3. Logical(ParityDisk, t) = XorOver(DataDisks, r) /\ Logical(ParityDisk, t)' = XorOver(DataDisks, r2)
    BY <1>5
  <2>4. IsFiniteSet(DataDisks) /\ k \in DataDisks
    BY <1>1, DiskFacts
  <2> HIDE DEF r, r2
  <2>5. XorOver(DataDisks, r2) = Xor(Xor(XorOver(DataDisks, r), r[k]), r2[k])
    BY <2>1, <2>2, <2>4, XorOverUpdate
  <2> QED BY <2>1, <2>3, <2>5 DEF NewParity
<1> HIDE DEF data, data2
<1>8. ASSUME NEW d \in Disks, NEW s \in Stripes, s # t \/ d \notin {k, ParityDisk}
      PROVE  Logical(d, s)' = Logical(d, s)
  <2>1. CASE d = ParityDisk
    BY <1>6, <1>8, <2>1
  <2>2. CASE d \in DataDisks
    BY <1>3, <1>4, <1>8, <2>2
  <2> QED BY <2>1, <2>2, DiskFacts
<1>9. Logical(k, t)' = v
  BY <1>1, <1>3, <1>4
<1> QED BY <1>7, <1>8, <1>9 DEF t, k

-----------------------------------------------------------------------------
(* Facts common to the steps.                                              *)

(* Without a change of the controller or the volume, what the invariant    *)
(* says of them stays.                                                     *)
LEMMA SameControl ==
  ASSUME UNCHANGED <<pc, phase, req, reg, rst, idx, out, vol>>
  PROVE  /\ Healthy' <=> Healthy
         /\ Target' = Target /\ Slot' = Slot
         /\ \A d \in Disks : Waiting(d)' <=> Waiting(d)
         /\ \A d, s : (Exempt(d, s)' <=> Exempt(d, s)) /\ Logical(d, s)' = Logical(d, s)
         /\ RestoreSums => RestoreSums'
         /\ BuffersMatch => BuffersMatch'
         /\ RecvIsRead => RecvIsRead'
         /\ OutReset => OutReset'
         /\ ReadsSeeVolume => ReadsSeeVolume'
<1>1. CommandAccess' = CommandAccess
  BY DEF CommandAccess
<1>2. Access' = Access
  BY <1>1 DEF Access
<1>3. Target' = Target /\ Slot' = Slot /\ (Ready' <=> Ready) /\ ReqDisk' = ReqDisk
  BY <1>1, <1>2 DEF Target, Slot, Ready, ReqDisk
<1>4. \A d, s : Logical(d, s)' = Logical(d, s)
  BY DEF Logical
<1>5. \A s : Row(s)' = Row(s)
  BY <1>4 DEF Row
<1>6. RestoreSums => RestoreSums'
  BY <1>3, <1>5 DEF RestoreSums
<1>7. BuffersMatch => BuffersMatch'
  BY <1>4 DEF BuffersMatch
<1>8. \A d, s : Exempt(d, s)' <=> Exempt(d, s)
  BY <1>3 DEF Exempt
<1>9. \A d : Waiting(d)' <=> Waiting(d)
  BY <1>2, <1>3 DEF Waiting
<1>10. RecvIsRead => RecvIsRead'
  BY <1>2, <1>3 DEF RecvIsRead
<1> QED BY <1>3, <1>4, <1>6, <1>7, <1>8, <1>9, <1>10
        DEF Healthy, OutReset, ReadsSeeVolume

LEMMA PipeTypes ==
  ASSUME TypeOK, NEW d \in Disks
  PROVE  /\ toDisk[d] \in Seq(Msg) /\ DOMAIN toDisk[d] = 1 .. Len(toDisk[d]) /\ Len(toDisk[d]) \in Nat
         /\ fromDisk[d] \in Seq(Block) /\ mem[d] \in [Stripes -> Block]
         /\ toDisk[d] # <<>> => Len(toDisk[d]) > 0 /\ Head(toDisk[d]) = toDisk[d][1]
<1>1. toDisk[d] \in Seq(Msg) /\ fromDisk[d] \in Seq(Block) /\ mem[d] \in [Stripes -> Block]
  BY DEF TypeOK
<1> QED BY <1>1, LenProperties, EmptySeq, HeadTailProperties

(* Before a request is sent no pipe holds a request or an answer.          *)
LEMMA QuietPipes ==
  ASSUME TypeOK, Array, phase = "send"
  PROVE  \A d \in Disks : /\ fromDisk[d] = <<>>
                          /\ \A i \in DOMAIN toDisk[d] : toDisk[d][i].op # "read"
BY DEF Array, RepliesRight, ReadsLast, Waiting

(* The controller waits for no disk it is restoring, nor between the two   *)
(* writes of wb.                                                           *)
LEMMA WaitedIsHeld ==
  ASSUME TypeOK, RecvIsRead, phase = "recv", RestoreSums
  PROVE  /\ Target \in Disks /\ Slot \in Stripes /\ Ready /\ Access.op = "read"
         /\ \A d \in Disks, s \in Stripes : Exempt(d, s) => d # Target
         /\ rst # <<>> => LET f == Head(rst) IN
                          /\ f \in Frame /\ f.stripe \in Stripes /\ f.stripe < BlocksPerDisk
                          /\ f.left # {} /\ Target = NextSource(f.left)
                          /\ Target \in f.left /\ Slot = f.stripe
<1>1. Ready /\ Access.op = "read" /\ Target \in Disks /\ Slot \in Stripes
  BY AccessType DEF RecvIsRead
<1>2. CASE rst = <<>>
  <2>1. pc # "newData"
    BY <1>1, <1>2 DEF Access, CommandAccess
  <2> QED BY <1>1, <1>2, <2>1 DEF Exempt
<1>3. CASE rst # <<>>
  <2> DEFINE f == Head(rst)
  <2>1. f \in Frame /\ f.stripe < BlocksPerDisk
    BY <1>1, <1>3, HeadTailProperties DEF Ready, TypeOK
  <2>2. Access = FrameAccess(f)
    BY <1>3 DEF Access
  <2>3. f.left # {} /\ f.left \in SUBSET Disks
    BY <1>1, <2>1, <2>2, FrameAccessType DEF Frame
  <2>4. Target = NextSource(f.left) /\ Slot = f.stripe /\ f.stripe \in Stripes
    BY <2>1, <2>2, <2>3, FrameAccessType DEF Target, Slot
  <2>5. Target \in f.left
    BY <2>3, <2>4, NextSourceType
  <2>6. f.left \subseteq Sources(f.disk)
    BY <1>3 DEF RestoreSums
  <2>7. Target # f.disk
    BY <2>5, <2>6 DEF Sources
  <2> QED BY <1>1, <1>3, <2>1, <2>3, <2>4, <2>5, <2>7 DEF Exempt
<1> QED BY <1>2, <1>3

-----------------------------------------------------------------------------
(* Steps of the disks.                                                     *)

LEMMA DiskReadInv ==
  ASSUME IInv, TypeOK', NEW d \in Disks, DiskRead(d)
  PROVE  IInv'
<1> USE DEF ctlVars, auxVars
<1>1. UNCHANGED <<pc, phase, req, reg, rst, idx, out, vol>>
  BY DEF DiskRead
<1>2. DeadPipesEmpty'
  BY DEF DiskRead, Consume, Pending, DeadPipesEmpty, IInv, TypeOK
<1>3. ASSUME Healthy PROVE Array'
  <2>1. Array /\ TypeOK /\ RecvIsRead
    BY <1>3 DEF IInv
  <2>2. /\ toDisk[d] # <<>> /\ Head(toDisk[d]).op = "read" /\ proc[d] = "running"
        /\ toDisk[d] \in Seq(Msg) /\ mem[d] \in [Stripes -> Block]
        /\ 1 \in DOMAIN toDisk[d] /\ Head(toDisk[d]) = toDisk[d][1]
    BY <2>1, PipeTypes DEF DiskRead, Pending
  <2>3. /\ Waiting(d) /\ fromDisk[d] = <<>> /\ Len(toDisk[d]) = 1 /\ toDisk[d][1].stripe = Slot
    BY <2>1, <2>2 DEF Array, ReadsLast
  <2>4. phase = "recv" /\ d = Target
    BY <2>3 DEF Waiting
  <2>5. Slot \in Stripes /\ ~Exempt(d, Slot)
    BY <2>1, <2>4, WaitedIsHeld DEF Array
  <2>6. Holds(d, Slot, Logical(d, Slot))
    BY <2>1, <2>2, <2>5 DEF Array, DisksHold
  <2>7. \A i \in DOMAIN toDisk[d] : toDisk[d][i].op # "write"
    BY <2>1, <2>2, <2>3, PipeTypes
  <2>8. mem[d][Slot] = Logical(d, Slot)
    BY <2>6, <2>7, SettlesNow DEF Holds
  <2>9. fromDisk' = [fromDisk EXCEPT ![d] = <<Logical(d, Slot)>>]
    <3>1. Append(fromDisk[d], mem[d][Slot]) = <<Logical(d, Slot)>>
      BY <2>3, <2>8
    <3>2. Head(toDisk[d]).stripe = Slot
      BY <2>2, <2>3
    <3> QED BY <3>1, <3>2 DEF DiskRead
  <2>10. Tail(toDisk[d]) = <<>>
    <3>1. Tail(toDisk[d]) \in Seq(Msg) /\ Len(Tail(toDisk[d])) = 0
      BY <2>2, <2>3, HeadTailProperties
    <3> QED BY <3>1, EmptySeq
  <2>11. toDisk' = [toDisk EXCEPT ![d] = <<>>] /\ mem' = mem /\ proc' = proc /\ file' = file
    BY <2>10 DEF DiskRead, Consume
  <2>12. toDisk \in [Disks -> Seq(Msg)] /\ fromDisk \in [Disks -> Seq(Block)]
    BY <2>1 DEF TypeOK
  <2>13. RepliesRight'
    BY <1>1, <2>1, <2>3, <2>9, <2>12, SameControl DEF Array, RepliesRight
  <2>14. ReadsLast'
    <3> SUFFICES ASSUME NEW e \in Disks, NEW i \in DOMAIN toDisk'[e], toDisk'[e][i].op = "read"
                 PROVE  FALSE
      BY DEF ReadsLast
    <3>1. e # d /\ toDisk'[e] = toDisk[e]
      BY <2>11, <2>12
    <3>2. Waiting(e)
      BY <2>1, <3>1 DEF Array, ReadsLast
    <3> QED BY <2>4, <3>1, <3>2 DEF Waiting
  <2>15. ExitsLast'
    BY <1>1, <2>1, <2>11, <2>12 DEF Array, ExitsLast
  <2>16. DisksHold'
    <3> SUFFICES ASSUME NEW e \in Disks, proc[e] = "running", NEW s \in Stripes, ~Exempt(e, s)
                 PROVE  Settles(toDisk'[e], mem[e], s, Logical(e, s))
      BY <1>1, <2>11, SameControl DEF DisksHold, Holds
    <3>1. Settles(toDisk[e], mem[e], s, Logical(e, s))
      BY <2>1 DEF Array, DisksHold, Holds
    <3>2. CASE e = d
      BY <2>2, <2>10, <2>11, <2>12, <3>1, <3>2, SettlesTail
    <3>3. CASE e # d
      BY <2>11, <2>12, <3>1, <3>3
    <3> QED BY <3>2, <3>3
  <2>17. FilesRight'
    BY <1>1, <2>1, <2>11, SameControl DEF Array, FilesRight
  <2> QED BY <1>1, <2>1, <2>13, <2>14, <2>15, <2>16, <2>17, SameControl DEF Array
<1> QED BY <1>1, <1>2, <1>3, SameControl DEF IInv

LEMMA DiskWriteInv ==
  ASSUME IInv, TypeOK', NEW d \in Disks, DiskWrite(d)
  PROVE  IInv'
<1> USE DEF ctlVars, auxVars
<1>1. UNCHANGED <<pc, phase, req, reg, rst, idx, out, vol, proc, fromDisk, file>>
  BY DEF DiskWrite
<1>2. DeadPipesEmpty'
  BY DEF DiskWrite, Consume, Pending, DeadPipesEmpty, IInv, TypeOK
<1>3. ASSUME Healthy PROVE Array'
  <2> DEFINE q == toDisk[d]
             m == Head(q)
  <2>1. Array /\ TypeOK
    BY <1>3 DEF IInv
  <2>2. q # <<>> /\ m.op = "write" /\ q \in Seq(Msg) /\ mem[d] \in [Stripes -> Block]
    BY <2>1, PipeTypes DEF DiskWrite, Pending
  <2>3. /\ toDisk' = [toDisk EXCEPT ![d] = Tail(q)]
        /\ mem' = [mem EXCEPT ![d] = [mem[d] EXCEPT ![m.stripe] = m.data]]
    BY DEF DiskWrite, Consume
  <2>4. /\ toDisk \in [Disks -> Seq(Msg)] /\ mem \in [Disks -> [Stripes -> Block]]
    BY <2>1 DEF TypeOK
  <2>5. /\ Len(q) \in Nat /\ DOMAIN q = 1 .. Len(q) /\ DOMAIN Tail(q) = 1 .. Len(q) - 1
        /\ Len(Tail(q)) = Len(q) - 1 /\ \A i \in 1 .. Len(q) - 1 : Tail(q)[i] = q[i + 1]
    BY <2>2, HeadTailProperties, LenProperties
  <2> HIDE DEF q, m
  (* every message left in a pipe was there before, as far from its end    *)
  <2>6. ASSUME NEW e \in Disks, NEW i \in DOMAIN toDisk'[e]
        PROVE  \E j \in DOMAIN toDisk[e] :
                 /\ toDisk'[e][i] = toDisk[e][j]
                 /\ j = Len(toDisk[e]) => i = Len(toDisk'[e])
    <3>1. CASE e = d
      <4>1. toDisk'[e] = Tail(q) /\ toDisk[e] = q
        BY <2>3, <2>4, <3>1 DEF q
      <4> QED BY <2>5, <2>6, <4>1
    <3>2. CASE e # d
      BY <2>3, <2>4, <2>6, <3>2
    <3> QED BY <3>1, <3>2
  <2>7. RepliesRight'
    BY <1>1, <2>1, SameControl DEF Array, RepliesRight
  <2>8. ReadsLast'
    <3> SUFFICES ASSUME NEW e \in Disks, NEW i \in DOMAIN toDisk'[e], toDisk'[e][i].op = "read"
                 PROVE  /\ Waiting(e) /\ fromDisk[e] = <<>>
                        /\ i = Len(toDisk'[e]) /\ toDisk'[e][i].stripe = Slot
      BY <1>1, SameControl DEF ReadsLast
    <3>1. PICK j \in DOMAIN toDisk[e] : toDisk'[e][i] = toDisk[e][j]
                                        /\ (j = Len(toDisk[e]) => i = Len(toDisk'[e]))
      BY <2>6
    <3> QED BY <2>1, <3>1 DEF Array, ReadsLast
  <2>9. ExitsLast'
    <3> SUFFICES ASSUME NEW e \in Disks, NEW i \in DOMAIN toDisk'[e], toDisk'[e][i].op = "exit"
                 PROVE  /\ i = Len(toDisk'[e])
                        /\ pc \in {"wait", "done"} \/ (pc = "exit" /\ e < idx)
      BY <1>1 DEF ExitsLast
    <3>1. PICK j \in DOMAIN toDisk[e] : toDisk'[e][i] = toDisk[e][j]
                                        /\ (j = Len(toDisk[e]) => i = Len(toDisk'[e]))
      BY <2>6
    <3> QED BY <2>1, <3>1 DEF Array, ExitsLast
  <2>10. DisksHold'
    <3> SUFFICES ASSUME NEW e \in Disks, proc[e] = "running", NEW s \in Stripes, ~Exempt(e, s)
                 PROVE  Settles(toDisk'[e], mem'[e], s, Logical(e, s))
      BY <1>1, SameControl DEF DisksHold, Holds
    <3>1. Settles(toDisk[e], mem[e], s, Logical(e, s))
      BY <2>1 DEF Array, DisksHold, Holds
    <3>2. CASE e = d
      <4>1. /\ toDisk'[e] = Tail(q) /\ toDisk[e] = q
            /\ mem'[e] = [mem[d] EXCEPT ![Head(q).stripe] = Head(q).data]
        BY <2>3, <2>4, <3>2 DEF q, m
      <4> QED BY <2>2, <3>1, <3>2, <4>1, SettlesTail DEF q, m
    <3>3. CASE e # d
      BY <2>3, <2>4, <3>1, <3>3
    <3> QED BY <3>2, <3>3
  <2>11. FilesRight'
    BY <1>1, <2>1, SameControl DEF Array, FilesRight
  <2> QED BY <1>1, <2>1, <2>7, <2>8, <2>9, <2>10, <2>11, SameControl DEF Array
<1> QED BY <1>1, <1>2, <1>3, SameControl DEF IInv

(* Emptying the pipe of a disk that has died.                              *)
LEMMA EmptiedPipe ==
  ASSUME TypeOK, NEW d \in Disks, toDisk' = [toDisk EXCEPT ![d] = <<>>]
  PROVE  /\ \A e \in Disks : e # d => toDisk'[e] = toDisk[e]
         /\ toDisk'[d] = <<>> /\ DOMAIN toDisk'[d] = {}
BY DEF TypeOK

LEMMA CheckpointInv ==
  ASSUME IInv, TypeOK', NEW d \in Disks, DiskExit(d) \/ DiskEof(d)
  PROVE  IInv'
<1> USE DEF ctlVars, auxVars
<1>0. Checkpoint(d) /\ proc[d] = "running" /\ TypeOK
  BY DEF DiskExit, DiskEof, Pending, IInv
<1>1. UNCHANGED <<pc, phase, req, reg, rst, idx, out, vol, mem, fromDisk>>
  BY <1>0 DEF Checkpoint
<1>2. /\ toDisk' = [toDisk EXCEPT ![d] = <<>>] /\ proc' = [proc EXCEPT ![d] = "zombie"]
      /\ file' = [file EXCEPT ![d] = mem[d]]
  BY <1>0 DEF Checkpoint
<1>3. DeadPipesEmpty'
  BY <1>0, <1>2, EmptiedPipe DEF DeadPipesEmpty, IInv, TypeOK
<1>4. ASSUME Healthy PROVE Array'
  <2>1. Array
    BY <1>4 DEF IInv
  <2>2. /\ pc \in {"exit", "wait", "done"}
        /\ \A i \in DOMAIN toDisk[d] : toDisk[d][i].op # "write"
    <3>1. CASE DiskExit(d)
      <4>1. toDisk[d] # <<>> /\ Head(toDisk[d]).op = "exit"
        BY <3>1 DEF DiskExit, Pending
      <4>2. /\ toDisk[d][1].op = "exit" /\ 1 \in DOMAIN toDisk[d]
            /\ DOMAIN toDisk[d] = 1 .. Len(toDisk[d])
        BY <1>0, <4>1, PipeTypes
      <4>3. Len(toDisk[d]) = 1 /\ pc \in {"exit", "wait", "done"}
        BY <2>1, <4>2 DEF Array, ExitsLast
      <4> QED BY <4>2, <4>3
    <3>2. CASE DiskEof(d)
      <4>1. DOMAIN toDisk[d] = {} /\ pc = "done"
        BY <1>4, <3>2 DEF DiskEof, Gone, Healthy
      <4> QED BY <4>1
    <3> QED BY <3>1, <3>2
  <2>3. rst = <<>>
    BY <2>1, <2>2 DEF Array, RestoreSums, Accessing
  <2>4. ASSUME NEW s \in Stripes PROVE mem[d][s] = Logical(d, s)
    <3>1. ~Exempt(d, s)
      BY <2>2, <2>3 DEF Exempt
    <3>2. Settles(toDisk[d], mem[d], s, Logical(d, s))
      BY <1>0, <2>1, <3>1 DEF Array, DisksHold, Holds
    <3> QED BY <2>2, <3>2, SettlesNow
  <2>5. mem[d] = [s \in Stripes |-> Logical(d, s)]
    BY <1>0, <2>4 DEF TypeOK
  <2>6. FilesRight'
    <3>1. \A e \in Disks : file'[e] = IF e = d THEN mem[d] ELSE file[e]
      BY <1>0, <1>2 DEF TypeOK
    <3> QED BY <1>1, <2>1, <2>2, <2>5, <3>1, SameControl DEF Array, FilesRight
  <2>7. RepliesRight'
    BY <1>1, <2>1, SameControl DEF Array, RepliesRight
  <2>8. ReadsLast' /\ ExitsLast'
    BY <1>0, <1>1, <1>2, <2>1, SameControl, EmptiedPipe DEF Array, ReadsLast, ExitsLast
  <2>9. DisksHold'
    <3>1. \A e \in Disks : proc'[e] = "running" => e # d /\ proc[e] = "running"
      BY <1>0, <1>2 DEF TypeOK
    <3> QED BY <1>0, <1>1, <1>2, <2>1, <3>1, SameControl, EmptiedPipe DEF Array, DisksHold, Holds
  <2> QED BY <1>1, <2>1, <2>6, <2>7, <2>8, <2>9, SameControl DEF Array
<1> QED BY <1>1, <1>3, <1>4, SameControl DEF IInv

(* A disk dies: its unread commands are lost, the rest of the array is as  *)
(* it was.                                                                 *)
LEMMA DeathInv ==
  ASSUME IInv, TypeOK', NEW d \in Disks,
         UNCHANGED <<pc, phase, req, reg, rst, idx, out, vol, mem, fromDisk, file>>,
         toDisk' = [toDisk EXCEPT ![d] = <<>>],
         NEW x, x # "running", proc' = [proc EXCEPT ![d] = x]
  PROVE  IInv'
<1>1. TypeOK
  BY DEF IInv
<1>2. DeadPipesEmpty'
  BY <1>1, EmptiedPipe DEF DeadPipesEmpty, IInv, TypeOK
<1>3. ASSUME Healthy PROVE Array'
  <2>1. Array
    BY <1>3 DEF IInv
  <2>2. FilesRight' /\ RepliesRight'
    BY <2>1, SameControl DEF Array, FilesRight, RepliesRight
  <2>3. ReadsLast' /\ ExitsLast'
    BY <1>1, <2>1, SameControl, EmptiedPipe DEF Array, ReadsLast, ExitsLast
  <2>4. DisksHold'
    <3>1. \A e \in Disks : proc'[e] = "running" => e # d /\ proc[e] = "running"
      BY <1>1 DEF TypeOK
    <3> QED BY <1>1, <2>1, <3>1, SameControl, EmptiedPipe DEF Array, DisksHold, Holds
  <2> QED BY <2>1, <2>2, <2>3, <2>4, SameControl DEF Array
<1> QED BY <1>2, <1>3, SameControl DEF IInv

LEMMA CrashInv ==
  ASSUME IInv, TypeOK', NEW d \in Disks, Crash(d)
  PROVE  IInv'
BY DeathInv DEF Crash, ctlVars

LEMMA KillInv ==
  ASSUME IInv, TypeOK', NEW d \in Disks, KillCmd(d)
  PROVE  IInv'
BY DeathInv DEF KillCmd, ctlVars

(* A step that touches neither the controller's state nor the disks.       *)
LEMMA SameState ==
  ASSUME IInv, TypeOK',
         UNCHANGED <<pc, phase, req, reg, rst, idx, out, vol>>,
         UNCHANGED <<proc, mem, toDisk, fromDisk, file>>
  PROVE  IInv'
<1>1. DeadPipesEmpty'
  BY DEF DeadPipesEmpty, IInv
<1>2. ASSUME Healthy PROVE Array'
  <2>1. Array
    BY <1>2 DEF IInv
  <2>2. FilesRight' /\ RepliesRight' /\ ReadsLast' /\ ExitsLast'
    BY <2>1, SameControl DEF Array, FilesRight, RepliesRight, ReadsLast, ExitsLast
  <2>3. DisksHold'
    BY <2>1, SameControl DEF Array, DisksHold, Holds
  <2> QED BY <2>1, <2>2, <2>3, SameControl DEF Array
<1> QED BY <1>1, <1>2, SameControl DEF IInv

-----------------------------------------------------------------------------
(* Steps of the controller.                                                *)

(* What sending one message does to the pipes.                             *)
LEMMA SendEffect ==
  ASSUME TypeOK, NEW t \in Disks, NEW m \in Msg, Send(t, m), mem' = mem
  PROVE  /\ \A e \in Disks : \A s, v :
              (e # t \/ m.op # "write" \/ m.stripe # s) /\ Holds(e, s, v)
                 => Settles(toDisk'[e], mem'[e], s, v)
         /\ m.op = "write" => Settles(toDisk'[t], mem'[t], m.stripe, m.data)
         /\ \A e \in Disks : \A i \in DOMAIN toDisk'[e] :
              \/ i \in DOMAIN toDisk[e] /\ toDisk'[e][i] = toDisk[e][i]
              \/ e = t /\ i = Len(toDisk'[e]) /\ toDisk'[e][i] = m
         /\ \A e \in Disks : e # t => toDisk'[e] = toDisk[e]
<1>1. \A e \in Disks : toDisk'[e] = IF e = t THEN Append(toDisk[t], m) ELSE toDisk[e]
  BY DEF Send, TypeOK
<1>2. toDisk[t] \in Seq(Msg)
  BY PipeTypes
<1>3. /\ DOMAIN toDisk[t] = 1 .. Len(toDisk[t]) /\ Len(toDisk[t]) \in Nat
      /\ DOMAIN Append(toDisk[t], m) = 1 .. Len(toDisk[t]) + 1
      /\ Len(Append(toDisk[t], m)) = Len(toDisk[t]) + 1
      /\ Append(toDisk[t], m)[Len(toDisk[t]) + 1] = m
      /\ \A i \in 1 .. Len(toDisk[t]) : Append(toDisk[t], m)[i] = toDisk[t][i]
  BY <1>2, AppendProperties, LenProperties
<1>4. ASSUME NEW e \in Disks, NEW s, NEW v,
             e # t \/ m.op # "write" \/ m.stripe # s, Holds(e, s, v)
      PROVE  Settles(toDisk'[e], mem'[e], s, v)
  <2>1. CASE e # t
    BY <1>1, <1>4, <2>1 DEF Holds
  <2>2. CASE e = t
    BY <1>1, <1>2, <1>4, <2>2, SettlesAppend DEF Holds
  <2> QED BY <2>1, <2>2
<1>5. m.op = "write" => Settles(toDisk'[t], mem'[t], m.stripe, m.data)
  BY <1>1, <1>2, SettlesAppend
<1>6. ASSUME NEW e \in Disks, NEW i \in DOMAIN toDisk'[e]
      PROVE  \/ i \in DOMAIN toDisk[e] /\ toDisk'[e][i] = toDisk[e][i]
             \/ e = t /\ i = Len(toDisk'[e]) /\ toDisk'[e][i] = m
  <2>1. CASE e # t
    BY <1>1, <1>6, <2>1
  <2>2. CASE e = t
    <3> DEFINE p == Append(toDisk[t], m)
               q == toDisk[t]
    <3>1. toDisk'[e] = p /\ toDisk[e] = q
      BY <1>1, <2>2
    <3>2. i \in 1 .. Len(q) + 1 /\ Len(q) \in Nat
      BY <1>3, <1>6, <3>1
    <3>3. i \in 1 .. Len(q) => i \in DOMAIN q /\ p[i] = q[i]
      BY <1>3
    <3>4. i = Len(q) + 1 => i = Len(p) /\ p[i] = m
      BY <1>3
    <3> HIDE DEF p, q
    <3> QED BY <2>2, <3>1, <3>2, <3>3, <3>4
  <2> QED BY <2>1, <2>2
<1> QED BY <1>1, <1>4, <1>5, <1>6

(* While a command is under way no disk has been told to exit, and no file *)
(* is there.                                                               *)
LEMMA NoExits ==
  ASSUME TypeOK, Array, pc \notin {"exit", "wait", "done"}
  PROVE  /\ \A d \in Disks : file[d] = NoFile
         /\ \A d \in Disks : \A i \in DOMAIN toDisk[d] : toDisk[d][i].op # "exit"
BY DEF Array, FilesRight, ExitsLast

(* The request for a block.                                                *)
LEMMA SendReadInv ==
  ASSUME IInv, TypeOK', SendRead
  PROVE  IInv'
<1> USE DEF auxVars
<1>1. /\ UNCHANGED <<pc, req, reg, rst, idx, out, vol, proc, mem, fromDisk, file>>
      /\ phase = "send" /\ phase' = "recv" /\ Ready /\ Access.op = "read" /\ TypeOK
  BY DEF SendRead, IInv
<1> DEFINE m == [op |-> "read", stripe |-> Slot, data |-> Zero]
<1>2. Target \in Disks /\ Slot \in Stripes /\ m \in Msg /\ Send(Target, m) /\ proc[Target] = "running"
  BY <1>1, AccessType DEF SendRead, Msg, Zero, Block, Writable
<1>3. CommandAccess' = CommandAccess
  BY <1>1 DEF CommandAccess
<1>4. Access' = Access
  BY <1>1, <1>3 DEF Access
<1>5. /\ Target' = Target /\ Slot' = Slot /\ (Ready' <=> Ready) /\ ReqDisk' = ReqDisk
      /\ \A d, s : Logical(d, s)' = Logical(d, s)
  BY <1>1, <1>3, <1>4 DEF Target, Slot, Ready, ReqDisk, Logical
<1>6. \A s : Row(s)' = Row(s)
  BY <1>5 DEF Row
<1>7. DeadPipesEmpty'
  <2>1. \A e \in Disks : e # Target => toDisk'[e] = toDisk[e]
    BY <1>1, <1>2, SendEffect
  <2> QED BY <1>1, <1>2, <2>1 DEF DeadPipesEmpty, IInv
<1>8. RecvIsRead' /\ OutReset' /\ ReadsSeeVolume'
  BY <1>1, <1>4, <1>5 DEF RecvIsRead, OutReset, ReadsSeeVolume, IInv
<1>9. ASSUME Healthy PROVE Array'
  <2>1. Array
    BY <1>9 DEF IInv
  <2>2. RestoreSums' /\ BuffersMatch' /\ FilesRight'
    BY <1>1, <1>5, <1>6, <2>1 DEF Array, RestoreSums, BuffersMatch, FilesRight
  <2>3. /\ \A d \in Disks : fromDisk[d] = <<>>
        /\ \A d \in Disks : \A i \in DOMAIN toDisk[d] : toDisk[d][i].op \notin {"read", "exit"}
    BY <1>1, <2>1, QuietPipes, NoExits DEF Ready, Accessing
  <2>4. Waiting(Target)'
    BY <1>1, <1>4, <1>5 DEF Waiting
  <2>5. \A e \in Disks : \A i \in DOMAIN toDisk'[e] :
          \/ i \in DOMAIN toDisk[e] /\ toDisk'[e][i] = toDisk[e][i]
          \/ e = Target /\ i = Len(toDisk'[e]) /\ toDisk'[e][i] = m
    BY <1>1, <1>2, SendEffect
  <2>6. RepliesRight'
    BY <1>1, <2>3 DEF RepliesRight
  <2>7. ReadsLast'
    <3> SUFFICES ASSUME NEW e \in Disks, NEW i \in DOMAIN toDisk'[e], toDisk'[e][i].op = "read"
                 PROVE  /\ Waiting(e)' /\ fromDisk'[e] = <<>>
                        /\ i = Len(toDisk'[e]) /\ toDisk'[e][i].stripe = Slot'
      BY DEF ReadsLast
    <3> QED BY <1>1, <1>5, <2>3, <2>4, <2>5
  <2>8. ExitsLast'
    BY <2>3, <2>5 DEF ExitsLast
  <2>9. DisksHold'
    <3> SUFFICES ASSUME NEW e \in Disks, proc[e] = "running", NEW s \in Stripes, ~Exempt(e, s)
                 PROVE  Settles(toDisk'[e], mem'[e], s, Logical(e, s))
      BY <1>1, <1>5 DEF DisksHold, Holds, Exempt
    <3>1. Holds(e, s, Logical(e, s))
      BY <2>1 DEF Array, DisksHold
    <3> QED BY <1>1, <1>2, <3>1, SendEffect
  <2> QED BY <2>2, <2>6, <2>7, <2>8, <2>9 DEF Array
<1> QED BY <1>1, <1>7, <1>8, <1>9 DEF IInv, Healthy

(* After a block has been received, or a read has failed on a dead disk,   *)
(* the pipes are quiet again.                                              *)
LEMMA QuietAgain ==
  ASSUME TypeOK, Array, phase' = "send", toDisk' = toDisk, pc \in Accessing,
         \A d \in Disks : fromDisk'[d] = <<>>,
         \A i \in DOMAIN toDisk[Target] : toDisk[Target][i].op # "read"
  PROVE  RepliesRight' /\ ReadsLast' /\ ExitsLast'
<1>1. \A d \in Disks : \A i \in DOMAIN toDisk[d] : toDisk[d][i].op # "read"
  BY DEF Array, ReadsLast, Waiting
<1>2. \A d \in Disks : \A i \in DOMAIN toDisk[d] : toDisk[d][i].op # "exit"
  BY NoExits DEF Accessing
<1> QED BY <1>1, <1>2 DEF RepliesRight, ReadsLast, ExitsLast

(* The answer arrives: it is the block of the layout.                      *)
LEMMA RecvBlockInv ==
  ASSUME IInv, TypeOK', RecvBlock
  PROVE  IInv'
<1> USE DEF auxVars
<1> DEFINE t == Target
           v == Head(fromDisk[t])
<1>1. /\ UNCHANGED <<req, idx, vol, proc, mem, toDisk, file>>
      /\ phase = "recv" /\ phase' = "send" /\ Ready /\ TypeOK /\ RecvIsRead /\ pc \in Accessing
      /\ fromDisk[t] # <<>> /\ fromDisk' = [fromDisk EXCEPT ![t] = Tail(@)]
  BY DEF RecvBlock, IInv, Ready
<1>2. RecvIsRead' /\ DeadPipesEmpty'
  BY <1>1 DEF RecvIsRead, DeadPipesEmpty, IInv
<1>3. \A d, s : Logical(d, s)' = Logical(d, s)
  BY <1>1 DEF Logical
<1>4. \A s : Row(s)' = Row(s)
  BY <1>3 DEF Row
<1>5. t \in Disks /\ Slot \in Stripes
  BY <1>1, AccessType
<1>6. rst = <<>> => Healthy
  BY <1>1 DEF Healthy, Accessing
<1>7. Healthy' => Healthy
  <2>1. rst # <<>> => Len(rst') = Len(rst) /\ pc' = pc
    <3> SUFFICES ASSUME rst # <<>> PROVE Len(rst') = Len(rst) /\ pc' = pc
      OBVIOUS
    <3>1. rst' = <<Absorb(Head(rst), v)>> \o Tail(rst) /\ pc' = pc /\ rst \in Seq(Frame)
      BY <1>1 DEF RecvBlock, TypeOK
    <3>2. Head(rst) \in Frame /\ Head(rst).stripe < BlocksPerDisk
      BY <1>1, <3>1, HeadTailProperties DEF Ready
    <3>3. v \in Block
      BY <1>1, <1>5, HeadTailProperties DEF TypeOK
    <3>4. Absorb(Head(rst), v) \in Frame
      BY <3>2, <3>3, FrameStepType
    <3> QED BY <3>1, <3>4, ReplaceTop
  <2> QED BY <1>6, <2>1 DEF Healthy
<1>8. ASSUME Healthy
      PROVE  /\ Array /\ v = Logical(t, Slot)
             /\ RepliesRight' /\ ReadsLast' /\ ExitsLast' /\ FilesRight'
  <2>1. Array
    BY <1>8 DEF IInv
  <2>2. fromDisk[t] = <<Logical(t, Slot)>> /\ \A d \in Disks : d # t => fromDisk[d] = <<>>
    BY <1>1, <1>5, <2>1 DEF Array, RepliesRight, Waiting
  <2>3. v = Logical(t, Slot) /\ Tail(fromDisk[t]) = <<>>
    BY <2>2
  <2>4. \A d \in Disks : fromDisk'[d] = <<>>
    BY <1>1, <1>5, <2>2, <2>3 DEF TypeOK
  <2>5. \A i \in DOMAIN toDisk[t] : toDisk[t][i].op # "read"
    BY <1>1, <1>5, <2>1 DEF Array, ReadsLast
  <2>6. RepliesRight' /\ ReadsLast' /\ ExitsLast'
    BY <1>1, <2>1, <2>4, <2>5, QuietAgain
  <2>7. FilesRight'
    BY <1>1, <1>3, <2>1, NoExits DEF FilesRight, Accessing
  <2> QED BY <2>1, <2>3, <2>6, <2>7
<1> HIDE DEF v
<1>9. CASE rst # <<>>
  <2> DEFINE f == Head(rst)
             g == Absorb(f, v)
  <2>1. rst' = <<g>> \o Tail(rst) /\ UNCHANGED <<pc, reg, out>> /\ rst \in Seq(Frame)
    BY <1>1, <1>9 DEF RecvBlock, TypeOK, v
  <2>2. OutReset' /\ ReadsSeeVolume'
    BY <1>1, <2>1 DEF OutReset, ReadsSeeVolume, IInv
  <2>3. ASSUME Healthy PROVE Array'
    <3>1. Array /\ v = Logical(t, Slot)
      BY <1>8, <2>3
    <3>2. /\ f \in Frame /\ f.stripe \in Stripes /\ f.stripe < BlocksPerDisk
          /\ f.left # {} /\ t = NextSource(f.left) /\ t \in f.left /\ Slot = f.stripe
      BY <1>1, <1>9, <3>1, WaitedIsHeld DEF Array
    <3>3. v \in Block
      BY <1>1, <1>5, <3>1, RowType
    <3>4. g \in Frame /\ g.disk = f.disk /\ g.stripe = f.stripe
          /\ g.left = f.left \ {t} /\ g.acc = Xor(f.acc, v)
      BY <3>2, <3>3, FrameStepType DEF Absorb, Frame
    <3> HIDE DEF g
    <3>5. Head(rst') = g /\ rst' # <<>>
      BY <1>9, <2>1, <3>4, ReplaceTop
    <3>6. f.left \subseteq Sources(f.disk) /\ f.disk = ReqDisk
          /\ f.acc = XorOver(Sources(f.disk) \ f.left, Row(f.stripe))
      BY <1>9, <3>1, <3>2 DEF Array, RestoreSums
    <3>7. g.acc = XorOver(Sources(g.disk) \ g.left, Row(g.stripe))
      <4> DEFINE D == Sources(f.disk) \ f.left
                 row == Row(f.stripe)
      <4>1. IsFiniteSet(D) /\ t \notin D /\ Sources(g.disk) \ g.left = D \cup {t}
        BY <3>2, <3>4, <3>6, DiskFacts, FS_Subset DEF Sources
      <4>2. row[t] = v /\ row[t] \in Block
        BY <1>1, <1>5, <3>1, <3>2, <3>3, RowType
      <4> HIDE DEF D, row
      <4>3. XorOver(D \cup {t}, row) = Xor(XorOver(D, row), row[t])
        BY <4>1, <4>2, XorOverAdd
      <4> QED BY <3>4, <3>6, <4>1, <4>2, <4>3 DEF D, row
    <3>8. ReqDisk' = ReqDisk
      BY <1>1, <2>1 DEF ReqDisk, CommandAccess
    <3>9. RestoreSums'
      <4>1. g.left \subseteq Sources(g.disk)
        BY <3>4, <3>6
      <4> QED BY <1>1, <1>4, <2>1, <3>4, <3>5, <3>6, <3>7, <3>8, <4>1 DEF RestoreSums
    <3>10. \A d, s : Exempt(d, s)' <=> Exempt(d, s)
      BY <1>9, <3>4, <3>5 DEF Exempt
    <3>11. DisksHold'
      BY <1>1, <1>3, <3>1, <3>10 DEF Array, DisksHold, Holds
    <3>12. BuffersMatch'
      BY <1>1, <1>3, <2>1, <3>1 DEF Array, BuffersMatch
    <3> QED BY <1>8, <2>3, <3>9, <3>11, <3>12 DEF Array
  <2> QED BY <1>2, <1>7, <2>2, <2>3 DEF IInv
<1>10. CASE rst = <<>>
  <2>1. /\ Array /\ v = Logical(t, Slot)
        /\ RepliesRight' /\ ReadsLast' /\ ExitsLast' /\ FilesRight'
    BY <1>6, <1>8, <1>10
  <2>2. /\ Access = CommandAccess /\ CommandAccess.blk = req.blk /\ req.blk \in Blocks
        /\ pc \in {"read", "oldData", "oldParity"} /\ rst' = <<>>
    BY <1>1, <1>10 DEF Access, CommandAccess, RecvBlock, TypeOK
  <2>3. pc # "oldParity" => v = vol[req.blk]
    <3>1. pc # "oldParity" => t = req.blk % NumDisks /\ Slot = SlotOf(req.blk)
      BY <2>2 DEF Target, Slot, DiskOf, CommandAccess
    <3> QED BY <2>1, <2>2, <3>1, LogicalBlock
  <2>4. pc = "oldParity" => v = Logical(ParityDisk, SlotOf(req.blk))
    BY <2>1, <2>2 DEF Target, Slot, DiskOf, CommandAccess
  <2>5. RestoreSums'
    BY <2>2 DEF RestoreSums
  <2>6. DisksHold'
    BY <1>1, <1>3, <1>10, <2>1, <2>2 DEF Array, DisksHold, Holds, Exempt
  <2>7. CASE pc = "read"
    <3>1. /\ pc' = "idle" /\ reg' = reg
          /\ out' = [cmd |-> "read", blk |-> req.blk, ok |-> TRUE, code |-> 0, data |-> v]
      BY <1>10, <2>7 DEF RecvBlock, v
    <3>2. ReadsSeeVolume' /\ OutReset'
      BY <1>1, <2>3, <2>7, <3>1 DEF ReadsSeeVolume, OutReset, Accessing
    <3>3. BuffersMatch'
      BY <3>1 DEF BuffersMatch
    <3> QED BY <1>2, <2>1, <2>5, <2>6, <3>2, <3>3 DEF IInv, Array
  <2>8. CASE pc = "oldData"
    <3>1. pc' = "oldParity" /\ out' = out /\ reg' = [reg EXCEPT !.data = v]
      BY <1>10, <2>8 DEF RecvBlock, v
    <3>2. ReadsSeeVolume' /\ OutReset'
      BY <1>1, <3>1 DEF ReadsSeeVolume, OutReset, IInv
    <3>3. reg'.data = v
      BY <1>1, <3>1 DEF TypeOK
    <3>4. BuffersMatch'
      BY <1>1, <2>3, <2>8, <3>1, <3>3 DEF BuffersMatch
    <3> QED BY <1>2, <2>1, <2>5, <2>6, <3>2, <3>4 DEF IInv, Array
  <2>9. CASE pc = "oldParity"
    <3>1. pc' = "newParity" /\ out' = out /\ reg' = [reg EXCEPT !.parity = v]
      BY <1>10, <2>9 DEF RecvBlock, v
    <3>2. ReadsSeeVolume' /\ OutReset'
      BY <1>1, <3>1 DEF ReadsSeeVolume, OutReset, IInv
    <3>3. reg'.parity = v /\ reg'.data = reg.data
      BY <1>1, <3>1 DEF TypeOK
    <3>4. reg.data = vol[req.blk]
      BY <2>1, <2>9 DEF Array, BuffersMatch
    <3>5. BuffersMatch'
      BY <1>1, <1>3, <2>4, <2>9, <3>1, <3>3, <3>4 DEF BuffersMatch
    <3> QED BY <1>2, <2>1, <2>5, <2>6, <3>2, <3>5 DEF IInv, Array
  <2> QED BY <2>2, <2>7, <2>8, <2>9
<1> QED BY <1>9, <1>10

(* A write is sent: a restored block, the new parity, or the new data.     *)
LEMMA SendWriteInv ==
  ASSUME IInv, TypeOK', SendWrite
  PROVE  IInv'
<1> DEFINE t == Target
           m == [op |-> "write", stripe |-> Slot, data |-> Access.data]
<1>1. /\ UNCHANGED <<phase, req, reg, idx, proc, mem, fromDisk, file>>
      /\ phase = "send" /\ Ready /\ Access.op = "write" /\ TypeOK /\ pc \in Accessing
      /\ DeadPipesEmpty /\ OutReset /\ ReadsSeeVolume
  BY DEF SendWrite, IInv, Ready
<1>2. t \in Disks /\ Slot \in Stripes /\ m \in Msg /\ Send(t, m) /\ proc[t] = "running"
  BY <1>1, AccessType DEF SendWrite, Msg, Writable
<1>3. /\ \A e \in Disks : \A s, v : (e # t \/ Slot # s) /\ Holds(e, s, v)
             => Settles(toDisk'[e], mem'[e], s, v)
      /\ Settles(toDisk'[t], mem'[t], Slot, Access.data)
      /\ \A e \in Disks : \A i \in DOMAIN toDisk'[e] :
           \/ i \in DOMAIN toDisk[e] /\ toDisk'[e][i] = toDisk[e][i]
           \/ e = t /\ i = Len(toDisk'[e]) /\ toDisk'[e][i] = m
      /\ \A e \in Disks : e # t => toDisk'[e] = toDisk[e]
  BY <1>1, <1>2, SendEffect
<1>4. RecvIsRead' /\ DeadPipesEmpty'
  BY <1>1, <1>2, <1>3 DEF RecvIsRead, DeadPipesEmpty
<1>5. ASSUME Array PROVE RepliesRight' /\ ReadsLast' /\ ExitsLast'
  <2>1. /\ \A d \in Disks : fromDisk[d] = <<>>
        /\ \A d \in Disks : \A i \in DOMAIN toDisk[d] : toDisk[d][i].op \notin {"read", "exit"}
    BY <1>1, <1>5, QuietPipes, NoExits DEF Accessing
  <2>2. \A d \in Disks : \A i \in DOMAIN toDisk'[d] : toDisk'[d][i].op \notin {"read", "exit"}
    BY <1>3, <2>1
  <2> QED BY <1>1, <2>1, <2>2 DEF RepliesRight, ReadsLast, ExitsLast
<1> HIDE DEF m
<1>6. CASE rst # <<>>
  <2> DEFINE f == Head(rst)
             g == NextStripe(f)
  <2>1. rst' = <<g>> \o Tail(rst) /\ UNCHANGED <<pc, out, vol>> /\ rst \in Seq(Frame)
    BY <1>1, <1>6 DEF SendWrite, TypeOK
  <2>2. f \in Frame /\ f.stripe < BlocksPerDisk /\ Access = FrameAccess(f)
    BY <1>1, <1>6, <2>1, HeadTailProperties DEF Ready, Access
  <2>3. /\ f.left = {} /\ Access.data = f.acc /\ t = f.disk /\ Slot = f.stripe
        /\ f.stripe \in Stripes /\ f.stripe \in Nat
    <3>1. f.left = {}
      BY <1>1, <2>2, FrameAccessType
    <3>2. f.stripe \in Nat
      BY <2>2, BlocksPerDiskAssumption DEF Frame
    <3> QED BY <2>2, <3>1, <3>2, FrameAccessType DEF Target, Slot
  <2>4. g \in Frame /\ g.disk = f.disk /\ g.stripe = f.stripe + 1
        /\ g.left = Sources(f.disk) /\ g.acc = Zero
    BY <2>2, FrameStepType DEF NextStripe, Frame, Zero, Block
  <2> HIDE DEF g
  <2>5. Head(rst') = g /\ rst' # <<>> /\ Len(rst') = Len(rst)
    BY <1>6, <2>1, <2>4, ReplaceTop
  <2>6. \A d, s : Logical(d, s)' = Logical(d, s)
    BY <2>1 DEF Logical
  <2>7. OutReset' /\ ReadsSeeVolume'
    BY <1>1, <2>1 DEF OutReset, ReadsSeeVolume
  <2>8. ASSUME Healthy PROVE Array'
    <3>1. Array
      BY <2>8 DEF IInv
    <3>2. f.disk = ReqDisk /\ f.acc = XorOver(Sources(f.disk) \ {}, Row(f.stripe))
      BY <1>6, <2>2, <2>3, <3>1 DEF Array, RestoreSums
    <3>3. Access.data = Logical(t, Slot)
      <4>1. Sources(t) \ {} = Sources(t)
        OBVIOUS
      <4> QED BY <1>1, <1>2, <2>3, <3>2, <4>1, RestoredBlock
    <3>4. RestoreSums'
      <4>1. ReqDisk' = ReqDisk
        BY <1>1, <2>1 DEF ReqDisk, CommandAccess
      <4>2. Sources(g.disk) \ g.left = {}
        BY <2>4
      <4>3. \A row : g.acc = XorOver(Sources(g.disk) \ g.left, row)
        BY <2>4, <4>2, XorOverEmpty
      <4> QED BY <1>1, <2>1, <2>4, <2>5, <3>2, <4>1, <4>3 DEF RestoreSums
    <3>5. DisksHold'
      <4> SUFFICES ASSUME NEW e \in Disks, proc[e] = "running", NEW s \in Stripes, ~Exempt(e, s)'
                   PROVE  Settles(toDisk'[e], mem'[e], s, Logical(e, s))
        BY <1>1, <2>6 DEF DisksHold, Holds
      <4>1. CASE e = t /\ s = Slot
        BY <1>3, <3>3, <4>1
      <4>2. CASE ~(e = t /\ s = Slot)
        <5>1. s \in Int
          BY DEF Stripes
        <5>2. ~Exempt(e, s)
          BY <1>6, <2>3, <2>4, <2>5, <4>2, <5>1 DEF Exempt
        <5>3. Holds(e, s, Logical(e, s))
          BY <3>1, <5>2 DEF Array, DisksHold
        <5> QED BY <1>3, <4>2, <5>3
      <4> QED BY <4>1, <4>2
    <3>6. BuffersMatch' /\ FilesRight'
      BY <1>1, <2>1, <2>6, <3>1 DEF Array, BuffersMatch, FilesRight
    <3> QED BY <1>5, <3>1, <3>4, <3>5, <3>6 DEF Array
  <2> QED BY <1>4, <2>1, <2>5, <2>7, <2>8 DEF IInv, Healthy
<1>7. ASSUME rst = <<>>
      PROVE  /\ Array /\ Access = CommandAccess /\ CommandAccess.blk = req.blk
             /\ req.blk \in Blocks /\ req.data \in Block
             /\ pc \in {"newParity", "newData"}
             /\ Slot = SlotOf(req.blk) /\ rst' = <<>> /\ RestoreSums'
             /\ \A d \in Disks : file[d] = NoFile
  <2>1. Array
    BY <1>1, <1>7 DEF IInv, Healthy, Accessing
  <2>2. Access = CommandAccess /\ rst' = <<>> /\ pc \in {"newParity", "newData"}
    BY <1>1, <1>7 DEF Access, SendWrite, CommandAccess
  <2>3. \A d \in Disks : file[d] = NoFile
    BY <1>1, <2>1, NoExits DEF Accessing
  <2> QED BY <1>1, <2>1, <2>2, <2>3 DEF CommandAccess, TypeOK, Slot, RestoreSums
<1>8. CASE rst = <<>> /\ pc = "newParity"
  <2> DEFINE b == req.blk
             k == b % NumDisks
             j == SlotOf(b)
  <2>1. pc' = "newData" /\ out' = out /\ vol' = [vol EXCEPT ![b] = req.data]
    BY <1>8 DEF SendWrite
  <2>2. /\ t = ParityDisk /\ Slot = j
        /\ Access.data = NewParity(reg.parity, reg.data, req.data)
    <3>1. Access = CommandAccess /\ Slot = j
      BY <1>7, <1>8
    <3> QED BY <1>8, <3>1 DEF Target, DiskOf, CommandAccess
  <2>3. reg.data = vol[b] /\ reg.parity = Logical(ParityDisk, j)
    BY <1>7, <1>8 DEF Array, BuffersMatch
  <2>4. b \in Blocks /\ req.data \in Block
    BY <1>7, <1>8
  <2>5. k \in DataDisks /\ k \in Disks /\ k # ParityDisk /\ j \in Stripes
    BY <2>4, BlockPlace, DiskFacts
  <2>a. /\ \A d \in Disks, s \in Stripes :
             s # j \/ d \notin {k, ParityDisk} => Logical(d, s)' = Logical(d, s)
        /\ Logical(ParityDisk, j)' = Access.data
    <3>1. /\ \A d \in Disks, s \in Stripes :
               s # SlotOf(b) \/ d \notin {b % NumDisks, ParityDisk} => Logical(d, s)' = Logical(d, s)
          /\ Logical(ParityDisk, SlotOf(b))' = NewParity(Logical(ParityDisk, SlotOf(b)), vol[b], req.data)
      BY <1>1, <2>1, <2>4, LogicalUpdate
    <3> QED BY <1>1, <2>2, <2>3, <3>1
  <2>6. ReqDisk' = k
    BY <1>1, <2>1 DEF ReqDisk, DiskOf, CommandAccess
  <2> HIDE DEF k
  <2>7. DisksHold'
    <3> SUFFICES ASSUME NEW e \in Disks, proc[e] = "running", NEW s \in Stripes, ~Exempt(e, s)'
                 PROVE  Settles(toDisk'[e], mem'[e], s, Logical(e, s)')
      BY <1>1 DEF DisksHold, Holds
    <3>1. ~(e = k /\ s = SlotOf(b))
      BY <1>1, <1>7, <1>8, <2>1, <2>6 DEF Exempt
    <3>2. CASE e = t /\ s = Slot
      <4>1. e = ParityDisk /\ s = j /\ j' = j
        BY <1>1, <2>2, <3>2
      <4>2. Logical(e, s)' = Access.data
        BY <2>a, <4>1
      <4> QED BY <1>3, <3>2, <4>2
    <3>3. CASE ~(e = t /\ s = Slot)
      <4>1. Logical(e, s)' = Logical(e, s)
        BY <2>2, <2>a, <3>1, <3>3
      <4>2. Holds(e, s, Logical(e, s))
        BY <1>7, <1>8 DEF Array, DisksHold, Exempt
      <4> QED BY <1>3, <3>3, <4>1, <4>2
    <3> QED BY <3>2, <3>3
  <2>8. BuffersMatch'
    <3>1. vol'[b] = req.data
      BY <1>1, <1>7, <2>1 DEF TypeOK
    <3> QED BY <1>1, <2>1, <3>1 DEF BuffersMatch
  <2>9. FilesRight'
    BY <1>1, <1>7, <1>8 DEF FilesRight
  <2>10. OutReset' /\ ReadsSeeVolume'
    <3>1. out' = NoOut
      BY <1>1, <2>1 DEF OutReset
    <3> QED BY <3>1 DEF OutReset, ReadsSeeVolume, NoOut
  <2> QED BY <1>4, <1>5, <1>7, <1>8, <2>7, <2>8, <2>9, <2>10 DEF IInv, Array
<1>9. CASE rst = <<>> /\ pc = "newData"
  <2> DEFINE b == req.blk
             k == b % NumDisks
  <2>1. /\ pc' = "idle" /\ vol' = vol
        /\ out' = [cmd |-> "write", blk |-> b, ok |-> TRUE, code |-> 0, data |-> Zero]
    BY <1>9 DEF SendWrite
  <2>2. t = k /\ Slot = SlotOf(b) /\ Access.data = req.data /\ ReqDisk = k
    <3>1. Access = CommandAccess /\ Slot = SlotOf(b)
      BY <1>7, <1>9
    <3> QED BY <1>9, <3>1 DEF Target, DiskOf, CommandAccess, ReqDisk
  <2>3. vol[b] = req.data
    BY <1>7, <1>9 DEF Array, BuffersMatch
  <2>4. Logical(t, Slot) = Access.data
    <3>1. b \in Blocks
      BY <1>7, <1>9
    <3>2. Logical(b % NumDisks, SlotOf(b)) = vol[b]
      BY <3>1, LogicalBlock
    <3> QED BY <2>2, <2>3, <3>2
  <2>5. \A d, s : Logical(d, s)' = Logical(d, s)
    BY <2>1 DEF Logical
  <2>6. DisksHold'
    <3> SUFFICES ASSUME NEW e \in Disks, proc[e] = "running", NEW s \in Stripes
                 PROVE  Settles(toDisk'[e], mem'[e], s, Logical(e, s))
      BY <1>1, <2>5 DEF DisksHold, Holds
    <3>1. CASE e = t /\ s = Slot
      BY <1>3, <2>4, <3>1
    <3>2. CASE ~(e = t /\ s = Slot)
      <4>1. ~Exempt(e, s)
        BY <1>9, <2>2, <3>2 DEF Exempt
      <4>2. Holds(e, s, Logical(e, s))
        BY <1>7, <1>9, <4>1 DEF Array, DisksHold
      <4> QED BY <1>3, <3>2, <4>2
    <3> QED BY <3>1, <3>2
  <2>7. BuffersMatch' /\ FilesRight'
    BY <1>1, <1>7, <1>9, <2>1 DEF BuffersMatch, FilesRight
  <2>8. OutReset' /\ ReadsSeeVolume'
    BY <2>1 DEF OutReset, ReadsSeeVolume, Accessing
  <2> QED BY <1>4, <1>5, <1>7, <1>9, <2>6, <2>7, <2>8 DEF IInv, Array
<1> QED BY <1>6, <1>7, <1>8, <1>9

(* A dead disk is found by a failed write(): it is restarted empty.        *)
LEMMA SendFailsInv ==
  ASSUME IInv, TypeOK', SendFails
  PROVE  IInv'
<1> USE DEF auxVars
<1> DEFINE t == Target
           f == [disk |-> t, stripe |-> 0, left |-> Sources(t), acc |-> Zero]
<1>1. /\ UNCHANGED <<pc, phase, req, reg, idx, out, vol, file>>
      /\ phase = "send" /\ Ready /\ TypeOK /\ pc \in Accessing /\ rst' = <<f>> \o rst
      /\ proc' = [proc EXCEPT ![t] = "running"] /\ mem' = [mem EXCEPT ![t] = ZeroDisk]
      /\ toDisk' = [toDisk EXCEPT ![t] = <<>>] /\ fromDisk' = [fromDisk EXCEPT ![t] = <<>>]
  BY DEF SendFails, IInv, Ready
<1>2. t \in Disks /\ f \in Frame /\ rst \in Seq(Frame)
  BY <1>1, AccessType, BlocksPerDiskAssumption DEF Frame, Sources, Zero, Block, TypeOK
<1> HIDE DEF f
<1>3. Head(rst') = f /\ rst' # <<>> /\ Len(rst') = Len(rst) + 1
  BY <1>1, <1>2, PushTop
<1>4. RecvIsRead' /\ OutReset' /\ ReadsSeeVolume'
  BY <1>1 DEF RecvIsRead, OutReset, ReadsSeeVolume, IInv
<1>5. /\ \A e \in Disks : e # t => /\ proc'[e] = proc[e] /\ mem'[e] = mem[e]
                                   /\ toDisk'[e] = toDisk[e] /\ fromDisk'[e] = fromDisk[e]
      /\ toDisk'[t] = <<>> /\ fromDisk'[t] = <<>> /\ proc'[t] = "running" /\ DOMAIN toDisk'[t] = {}
  BY <1>1, <1>2 DEF TypeOK
<1>6. DeadPipesEmpty'
  BY <1>5 DEF DeadPipesEmpty, IInv
<1>7. ASSUME Healthy' PROVE Array'
  <2>1. rst = <<>> /\ Array
    <3>1. rst = <<>>
      BY <1>2, <1>3, <1>7, EmptySeq, LenProperties DEF Healthy
    <3> QED BY <1>1, <3>1 DEF IInv, Healthy, Accessing
  <2>2. ReqDisk' = ReqDisk /\ t = ReqDisk
    BY <1>1, <2>1 DEF ReqDisk, CommandAccess, Target, Access
  <2>3. \A d, s : Logical(d, s)' = Logical(d, s)
    BY <1>1 DEF Logical
  <2>4. RestoreSums'
    <3>1. f.disk = t /\ f.left = Sources(t) /\ f.acc = Zero
      BY DEF f
    <3>2. Sources(f.disk) \ f.left = {} /\ f.left \subseteq Sources(f.disk)
      BY <3>1
    <3>3. \A row : f.acc = XorOver(Sources(f.disk) \ f.left, row)
      BY <3>1, <3>2, XorOverEmpty
    <3> QED BY <1>1, <1>3, <2>2, <3>1, <3>2, <3>3 DEF RestoreSums
  <2>5. DisksHold'
    <3> SUFFICES ASSUME NEW e \in Disks, proc'[e] = "running", NEW s \in Stripes, ~Exempt(e, s)'
                 PROVE  Settles(toDisk'[e], mem'[e], s, Logical(e, s))
      BY <2>3 DEF DisksHold, Holds
    <3>1. s >= 0
      BY DEF Stripes
    <3>2. e # t
      BY <1>3, <3>1 DEF Exempt, f
    <3>3. ~Exempt(e, s)
      BY <2>1, <2>2, <3>2 DEF Exempt
    <3> QED BY <1>5, <2>1, <3>2, <3>3 DEF Array, DisksHold, Holds
  <2>6. BuffersMatch' /\ FilesRight'
    BY <1>1, <2>1, <2>3 DEF Array, BuffersMatch, FilesRight
  <2>7. RepliesRight' /\ ReadsLast' /\ ExitsLast'
    <3>1. /\ \A d \in Disks : fromDisk[d] = <<>>
          /\ \A d \in Disks : \A i \in DOMAIN toDisk[d] : toDisk[d][i].op \notin {"read", "exit"}
      BY <1>1, <2>1, QuietPipes, NoExits DEF Accessing
    <3>2. /\ \A d \in Disks : fromDisk'[d] = <<>>
          /\ \A d \in Disks : \A i \in DOMAIN toDisk'[d] : toDisk'[d][i].op \notin {"read", "exit"}
      BY <1>5, <3>1
    <3> QED BY <3>2 DEF RepliesRight, ReadsLast, ExitsLast
  <2> QED BY <2>4, <2>5, <2>6, <2>7 DEF Array
<1> QED BY <1>4, <1>6, <1>7 DEF IInv

(* With no command under way and no restore, the whole array is the        *)
(* layout's, and only exit commands are in the pipes.                      *)
LEMMA AtRest ==
  ASSUME IInv, pc \notin Accessing, pc \notin {"fatal", "killed"}, Len(rst) =< 1
  PROVE  /\ Array /\ TypeOK /\ rst = <<>> /\ phase = "send"
         /\ \A d, s : ~Exempt(d, s)
         /\ \A d \in Disks : fromDisk[d] = <<>>
         /\ \A d \in Disks : \A i \in DOMAIN toDisk[d] : toDisk[d][i].op # "read"
         /\ \A d \in Disks : proc[d] = "running" =>
              \A s \in Stripes : Settles(toDisk[d], mem[d], s, Logical(d, s))
<1>1. Array /\ TypeOK /\ RecvIsRead
  BY DEF IInv, Healthy
<1>2. rst = <<>>
  BY <1>1 DEF Array, RestoreSums
<1>3. phase = "send"
  BY <1>1 DEF RecvIsRead, Ready, TypeOK
<1>4. \A d, s : ~Exempt(d, s)
  BY <1>2 DEF Exempt, Accessing
<1>5. \A d \in Disks : proc[d] = "running" =>
        \A s \in Stripes : Settles(toDisk[d], mem[d], s, Logical(d, s))
  BY <1>1, <1>4 DEF Array, DisksHold, Holds
<1> QED BY <1>1, <1>2, <1>3, <1>4, <1>5, QuietPipes

(* The other way: what it takes for the invariant to hold at rest.         *)
LEMMA RestInv ==
  ASSUME TypeOK', DeadPipesEmpty', ReadsSeeVolume', OutReset',
         phase' = "send",
         Healthy' => /\ rst' = <<>> /\ pc' \notin {"oldParity", "newParity", "newData"}
                     /\ \A d \in Disks : fromDisk'[d] = <<>>
                     /\ \A d \in Disks : \A i \in DOMAIN toDisk'[d] : toDisk'[d][i].op # "read"
                     /\ \A d \in Disks : proc'[d] = "running" =>
                          \A s \in Stripes : Settles(toDisk'[d], mem'[d], s, Logical(d, s)')
                     /\ ExitsLast' /\ FilesRight'
  PROVE  IInv'
<1>1. RecvIsRead'
  BY DEF RecvIsRead
<1>2. ASSUME Healthy' PROVE Array'
  <2>1. DisksHold'
    BY <1>2 DEF DisksHold, Holds
  <2>2. RestoreSums' /\ BuffersMatch'
    BY <1>2 DEF RestoreSums, BuffersMatch
  <2>3. RepliesRight' /\ ReadsLast'
    BY <1>2 DEF RepliesRight, ReadsLast
  <2> QED BY <1>2, <2>1, <2>2, <2>3 DEF Array
<1> QED BY <1>1, <1>2 DEF IInv

(* A command starts, or is rejected for its block number.                  *)
LEMMA BeginInv ==
  ASSUME IInv, TypeOK', NEW cmd, NEW b, NEW v, NEW first \in {"read", "oldData"},
         Begin(cmd, b, v, first)
  PROVE  IInv'
<1> USE DEF diskVars
<1>1. /\ UNCHANGED <<phase, rst, idx, proc, mem, toDisk, fromDisk, file, vol>>
      /\ pc = "idle" /\ pc' \in {"idle", "read", "oldData"} /\ out'.ok = FALSE
      /\ pc' # "idle" => out' = NoOut
  BY DEF Begin, Idle, NoOut
<1>2. DeadPipesEmpty' /\ ReadsSeeVolume' /\ OutReset'
  BY <1>1 DEF DeadPipesEmpty, ReadsSeeVolume, OutReset, Accessing, IInv
<1>3. phase' = "send"
  BY <1>1 DEF IInv, RecvIsRead, Ready, Accessing, TypeOK
<1>4. \A d, s : Logical(d, s)' = Logical(d, s)
  BY <1>1 DEF Logical
<1>5. ASSUME Healthy'
      PROVE  /\ rst' = <<>>
             /\ \A d \in Disks : fromDisk'[d] = <<>>
             /\ \A d \in Disks : \A i \in DOMAIN toDisk'[d] : toDisk'[d][i].op # "read"
             /\ \A d \in Disks : proc'[d] = "running" =>
                  \A s \in Stripes : Settles(toDisk'[d], mem'[d], s, Logical(d, s)')
             /\ ExitsLast' /\ FilesRight'
  <2>1. pc \notin Accessing /\ pc \notin {"fatal", "killed"} /\ Len(rst) =< 1
    BY <1>1, <1>5 DEF Healthy, Accessing
  <2>2. ExitsLast' /\ FilesRight'
    BY <1>1, <1>4, <2>1, AtRest, NoExits DEF ExitsLast, FilesRight, Array
  <2> QED BY <1>1, <1>4, <2>1, <2>2, AtRest
<1> QED BY <1>1, <1>2, <1>3, <1>5, RestInv

LEMMA ExitCmdInv ==
  ASSUME IInv, TypeOK', ExitCmd
  PROVE  IInv'
<1> USE DEF diskVars, auxVars
<1>1. /\ UNCHANGED <<phase, rst, out, proc, mem, toDisk, fromDisk, file, vol>>
      /\ pc = "idle" /\ pc' = "exit"
  BY DEF ExitCmd
<1>2. DeadPipesEmpty' /\ ReadsSeeVolume' /\ OutReset'
  BY <1>1 DEF DeadPipesEmpty, ReadsSeeVolume, OutReset, Accessing, IInv
<1>3. phase' = "send"
  BY <1>1 DEF IInv, RecvIsRead, Ready, Accessing, TypeOK
<1>4. \A d, s : Logical(d, s)' = Logical(d, s)
  BY <1>1 DEF Logical
<1>5. ASSUME Healthy'
      PROVE  /\ rst' = <<>>
             /\ \A d \in Disks : fromDisk'[d] = <<>>
             /\ \A d \in Disks : \A i \in DOMAIN toDisk'[d] : toDisk'[d][i].op # "read"
             /\ \A d \in Disks : proc'[d] = "running" =>
                  \A s \in Stripes : Settles(toDisk'[d], mem'[d], s, Logical(d, s)')
             /\ ExitsLast' /\ FilesRight'
  <2>1. pc \notin Accessing /\ pc \notin {"fatal", "killed"} /\ Len(rst) =< 1
    BY <1>1, <1>5 DEF Healthy, Accessing
  <2>2. ExitsLast' /\ FilesRight'
    BY <1>1, <1>4, <2>1, AtRest, NoExits DEF ExitsLast, FilesRight, Array
  <2> QED BY <1>1, <1>4, <2>1, <2>2, AtRest
<1> QED BY <1>1, <1>2, <1>3, <1>5, RestInv

(* The exit command goes to a disk that was not told yet, after all its    *)
(* writes.                                                                 *)
LEMMA SendExitInv ==
  ASSUME IInv, TypeOK', SendExit
  PROVE  IInv'
<1> USE DEF auxVars
<1>1. /\ UNCHANGED <<phase, rst, out, proc, mem, fromDisk, file, vol>> /\ TypeOK
      /\ pc = "exit" /\ idx \in Disks
      /\ pc' = "wait" \/ (pc' = "exit" /\ idx' = idx + 1)
  BY DEF SendExit, IInv, TypeOK
<1>2. CASE Writable(idx) /\ Send(idx, Exit)
  <2>1. Exit \in Msg /\ Exit.op = "exit"
    BY DEF Exit, Msg
  <2>2. /\ \A e \in Disks : \A s, v : Holds(e, s, v) => Settles(toDisk'[e], mem'[e], s, v)
        /\ \A e \in Disks : \A i \in DOMAIN toDisk'[e] :
             \/ i \in DOMAIN toDisk[e] /\ toDisk'[e][i] = toDisk[e][i]
             \/ e = idx /\ i = Len(toDisk'[e]) /\ toDisk'[e][i] = Exit
        /\ \A e \in Disks : e # idx => toDisk'[e] = toDisk[e]
    BY <1>1, <1>2, <2>1, SendEffect
  <2>3. DeadPipesEmpty' /\ ReadsSeeVolume' /\ OutReset'
    BY <1>1, <1>2, <2>2
    DEF DeadPipesEmpty, ReadsSeeVolume, OutReset, Accessing, IInv, Writable
  <2>4. phase' = "send"
    BY <1>1 DEF IInv, RecvIsRead, Ready, Accessing, TypeOK
  <2>5. \A d, s : Logical(d, s)' = Logical(d, s)
    BY <1>1 DEF Logical
  <2>6. ASSUME Healthy'
        PROVE  /\ rst' = <<>>
               /\ \A d \in Disks : fromDisk'[d] = <<>>
               /\ \A d \in Disks : \A i \in DOMAIN toDisk'[d] : toDisk'[d][i].op # "read"
               /\ \A d \in Disks : proc'[d] = "running" =>
                    \A s \in Stripes : Settles(toDisk'[d], mem'[d], s, Logical(d, s)')
               /\ ExitsLast' /\ FilesRight'
    <3>1. pc \notin Accessing /\ pc \notin {"fatal", "killed"} /\ Len(rst) =< 1
      BY <1>1, <2>6 DEF Healthy, Accessing
    <3>2. FilesRight'
      BY <1>1, <2>5, <3>1, AtRest DEF FilesRight, Array
    <3>3. ExitsLast'
      <4> SUFFICES ASSUME NEW e \in Disks, NEW i \in DOMAIN toDisk'[e], toDisk'[e][i].op = "exit"
                   PROVE  /\ i = Len(toDisk'[e])
                          /\ pc' \in {"wait", "done"} \/ (pc' = "exit" /\ e < idx')
        BY DEF ExitsLast
      <4>1. e \in Nat /\ idx \in Nat
        BY <1>1, DiskFacts
      <4>2. CASE i \in DOMAIN toDisk[e] /\ toDisk'[e][i] = toDisk[e][i]
        <5>1. i = Len(toDisk[e]) /\ e < idx
          BY <1>1, <3>1, <4>2, AtRest DEF Array, ExitsLast
        <5>2. toDisk'[e] = toDisk[e]
          BY <2>2, <4>1, <5>1
        <5> QED BY <1>1, <4>1, <5>1, <5>2
      <4>3. CASE e = idx /\ i = Len(toDisk'[e])
        BY <1>1, <4>1, <4>3
      <4> QED BY <2>2, <4>2, <4>3
    <3>4. \A d \in Disks : \A i \in DOMAIN toDisk'[d] : toDisk'[d][i].op # "read"
      BY <2>1, <2>2, <3>1, AtRest
    <3> QED BY <1>1, <2>2, <2>5, <3>1, <3>2, <3>3, <3>4, AtRest DEF Holds
  <2> QED BY <1>1, <2>3, <2>4, <2>6, RestInv
<1>3. CASE toDisk' = toDisk
  <2>1. DeadPipesEmpty' /\ ReadsSeeVolume' /\ OutReset'
    BY <1>1, <1>3 DEF DeadPipesEmpty, ReadsSeeVolume, OutReset, Accessing, IInv
  <2>2. phase' = "send"
    BY <1>1 DEF IInv, RecvIsRead, Ready, Accessing, TypeOK
  <2>3. \A d, s : Logical(d, s)' = Logical(d, s)
    BY <1>1 DEF Logical
  <2>4. ASSUME Healthy'
        PROVE  /\ rst' = <<>>
               /\ \A d \in Disks : fromDisk'[d] = <<>>
               /\ \A d \in Disks : \A i \in DOMAIN toDisk'[d] : toDisk'[d][i].op # "read"
               /\ \A d \in Disks : proc'[d] = "running" =>
                    \A s \in Stripes : Settles(toDisk'[d], mem'[d], s, Logical(d, s)')
               /\ ExitsLast' /\ FilesRight'
    <3>1. pc \notin Accessing /\ pc \notin {"fatal", "killed"} /\ Len(rst) =< 1
      BY <1>1, <2>4 DEF Healthy, Accessing
    <3>2. FilesRight'
      BY <1>1, <2>3, <3>1, AtRest DEF FilesRight, Array
    <3>3. \A d \in Disks : d \in Nat
      BY DiskFacts
    <3>4. ExitsLast'
      BY <1>1, <1>3, <3>1, <3>3, AtRest DEF Array, ExitsLast
    <3> QED BY <1>1, <1>3, <2>3, <3>1, <3>2, <3>4, AtRest
  <2> QED BY <1>1, <2>1, <2>2, <2>4, RestInv
<1> QED BY <1>2, <1>3 DEF SendExit

LEMMA WaitChildInv ==
  ASSUME IInv, TypeOK', WaitChild
  PROVE  IInv'
<1> USE DEF auxVars
<1>1. /\ UNCHANGED <<phase, rst, out, mem, toDisk, fromDisk, file, vol>>
      /\ pc = "wait" /\ pc' \in {"wait", "done"}
  BY DEF WaitChild
<1>2. \A d \in Disks : proc'[d] = "running" <=> proc[d] = "running"
  BY DEF WaitChild, Reap, NoChild, IInv, TypeOK
<1>3. DeadPipesEmpty' /\ ReadsSeeVolume' /\ OutReset'
  BY <1>1, <1>2 DEF DeadPipesEmpty, ReadsSeeVolume, OutReset, Accessing, IInv
<1>4. phase' = "send"
  BY <1>1 DEF IInv, RecvIsRead, Ready, Accessing, TypeOK
<1>5. \A d, s : Logical(d, s)' = Logical(d, s)
  BY <1>1 DEF Logical
<1>6. ASSUME Healthy'
      PROVE  /\ rst' = <<>>
             /\ \A d \in Disks : fromDisk'[d] = <<>>
             /\ \A d \in Disks : \A i \in DOMAIN toDisk'[d] : toDisk'[d][i].op # "read"
             /\ \A d \in Disks : proc'[d] = "running" =>
                  \A s \in Stripes : Settles(toDisk'[d], mem'[d], s, Logical(d, s)')
             /\ ExitsLast' /\ FilesRight'
  <2>1. pc \notin Accessing /\ pc \notin {"fatal", "killed"} /\ Len(rst) =< 1
    BY <1>1, <1>6 DEF Healthy, Accessing
  <2>2. ExitsLast' /\ FilesRight'
    BY <1>1, <1>5, <2>1, AtRest DEF ExitsLast, FilesRight, Array
  <2> QED BY <1>1, <1>2, <1>5, <2>1, <2>2, AtRest
<1> QED BY <1>1, <1>3, <1>4, <1>6, RestInv

(* A command fails: as far as it has come, the array is whole.             *)
LEMMA FailInv ==
  ASSUME IInv, TypeOK', pc \in Accessing, NEW callers, Fail(callers),
         UNCHANGED <<proc, mem, toDisk, fromDisk, file, vol>>,
         callers = <<>> =>
           /\ Healthy
           /\ \A d \in Disks, s \in Stripes : ~Exempt(d, s)
           /\ \A d \in Disks : fromDisk[d] = <<>>
           /\ \A d \in Disks : \A i \in DOMAIN toDisk[d] : toDisk[d][i].op # "read"
  PROVE  IInv'
<1>1. /\ phase' = "send" /\ rst' = <<>>
      /\ callers = <<>> => pc' = "idle" /\ out'.ok = FALSE
      /\ callers # <<>> => pc' = "fatal" /\ out' = out
  BY DEF Fail
<1>2. DeadPipesEmpty' /\ ReadsSeeVolume' /\ OutReset'
  BY <1>1 DEF DeadPipesEmpty, ReadsSeeVolume, OutReset, Accessing, IInv
<1>3. \A d, s : Logical(d, s)' = Logical(d, s)
  BY DEF Logical
<1>4. ASSUME Healthy'
      PROVE  /\ pc' = "idle"
             /\ \A d \in Disks : fromDisk'[d] = <<>>
             /\ \A d \in Disks : \A i \in DOMAIN toDisk'[d] : toDisk'[d][i].op # "read"
             /\ \A d \in Disks : proc'[d] = "running" =>
                  \A s \in Stripes : Settles(toDisk'[d], mem'[d], s, Logical(d, s)')
             /\ ExitsLast' /\ FilesRight'
  <2>1. callers = <<>>
    BY <1>1, <1>4 DEF Healthy
  <2>2. Array /\ TypeOK
    BY <2>1 DEF IInv
  <2>3. ExitsLast' /\ FilesRight'
    BY <1>1, <1>3, <2>2, NoExits DEF ExitsLast, FilesRight, Array, Accessing
  <2>4. \A d \in Disks : proc'[d] = "running" =>
          \A s \in Stripes : Settles(toDisk'[d], mem'[d], s, Logical(d, s)')
    BY <1>3, <2>1, <2>2 DEF Array, DisksHold, Holds
  <2> QED BY <1>1, <2>1, <2>3, <2>4
<1> QED BY <1>1, <1>2, <1>4, RestInv

LEMMA RecvEofInv ==
  ASSUME IInv, TypeOK', RecvEof
  PROVE  IInv'
<1>1. /\ UNCHANGED <<proc, mem, toDisk, fromDisk, file, vol>> /\ Fail(rst)
      /\ phase = "recv" /\ Ready /\ fromDisk[Target] = <<>> /\ proc[Target] # "running"
      /\ TypeOK /\ DeadPipesEmpty /\ RecvIsRead /\ pc \in Accessing
  BY DEF RecvEof, diskVars, auxVars, IInv, Ready
<1>2. ASSUME rst = <<>>
      PROVE  /\ Healthy
             /\ \A d \in Disks, s \in Stripes : ~Exempt(d, s)
             /\ \A d \in Disks : fromDisk[d] = <<>>
             /\ \A d \in Disks : \A i \in DOMAIN toDisk[d] : toDisk[d][i].op # "read"
  <2>1. Healthy
    BY <1>1, <1>2 DEF Healthy, Accessing
  <2>2. Array
    BY <2>1 DEF IInv
  <2>3. pc # "newData"
    BY <1>1, <1>2 DEF RecvIsRead, Access, CommandAccess
  <2>4. \A d \in Disks, s \in Stripes : ~Exempt(d, s)
    BY <1>2, <2>3 DEF Exempt
  <2>5. \A d \in Disks : fromDisk[d] = <<>>
    BY <1>1, <2>2 DEF Array, RepliesRight, Waiting
  <2>6. Target \in Disks
    BY <1>1, AccessType
  <2>7. DOMAIN toDisk[Target] = {}
    BY <1>1, <2>6 DEF DeadPipesEmpty
  <2>8. \A d \in Disks : \A i \in DOMAIN toDisk[d] : toDisk[d][i].op # "read"
    BY <2>2, <2>7 DEF Array, ReadsLast, Waiting
  <2> QED BY <2>1, <2>4, <2>5, <2>8
<1> QED BY <1>1, <1>2, FailInv

LEMMA RestoreDoneInv ==
  ASSUME IInv, TypeOK', RestoreDone
  PROVE  IInv'
<1>1. /\ UNCHANGED <<proc, mem, toDisk, fromDisk, file, vol>> /\ Fail(Tail(rst))
      /\ rst # <<>> /\ Head(rst).stripe = BlocksPerDisk /\ TypeOK /\ RecvIsRead
      /\ pc \in Accessing /\ rst \in Seq(Frame)
  BY DEF RestoreDone, diskVars, IInv, TypeOK
<1>2. ASSUME Tail(rst) = <<>>
      PROVE  /\ Healthy
             /\ \A d \in Disks, s \in Stripes : ~Exempt(d, s)
             /\ \A d \in Disks : fromDisk[d] = <<>>
             /\ \A d \in Disks : \A i \in DOMAIN toDisk[d] : toDisk[d][i].op # "read"
  <2>1. Healthy
    <3>1. Len(Tail(rst)) = Len(rst) - 1 /\ Len(rst) \in Nat
      BY <1>1, HeadTailProperties, LenProperties
    <3> DEFINE n == Len(rst)
    <3>2. n - 1 = 0 /\ n \in Nat
      BY <1>2, <3>1
    <3> HIDE DEF n
    <3>4. n =< 1
      BY <3>2
    <3>5. Len(rst) =< 1
      BY <3>4 DEF n
    <3>3. pc \notin {"fatal", "killed"}
      BY <1>1 DEF Accessing
    <3> QED BY <3>3, <3>5 DEF Healthy
  <2>2. Array
    BY <2>1 DEF IInv
  <2>3. ~(BlocksPerDisk < BlocksPerDisk) /\ \A s \in Stripes : ~(s >= BlocksPerDisk)
    BY BlocksPerDiskAssumption DEF Stripes
  <2>4. phase = "send"
    BY <1>1, <2>3 DEF RecvIsRead, Ready, TypeOK
  <2>5. \A d \in Disks, s \in Stripes : ~Exempt(d, s)
    BY <1>1, <2>3 DEF Exempt
  <2> QED BY <1>1, <2>1, <2>2, <2>4, <2>5, QuietPipes
<1> QED BY <1>1, <1>2, FailInv

-----------------------------------------------------------------------------
(* The theorems.                                                           *)

(* New disks are zero, and so is their parity.                             *)
LEMMA SigtermInv ==
  ASSUME IInv, TypeOK', Sigterm
  PROVE  IInv'
<1>1. /\ pc' = "killed" /\ phase' = "send"
      /\ UNCHANGED <<out, proc, toDisk, vol>>
  BY DEF Sigterm, diskVars, auxVars
<1>2. DeadPipesEmpty' /\ RecvIsRead' /\ OutReset' /\ ReadsSeeVolume'
  BY <1>1 DEF DeadPipesEmpty, RecvIsRead, OutReset, ReadsSeeVolume, Accessing, IInv
<1> QED BY <1>1, <1>2 DEF IInv, Healthy

LEMMA InitInv == Init => IInv
<1> SUFFICES ASSUME Init PROVE IInv
  OBVIOUS
<1>1. TypeOK
  BY InitType
<1>2. \A d \in Disks, s \in Stripes : Logical(d, s) = Zero
  <2> SUFFICES ASSUME NEW d \in Disks, NEW s \in Stripes PROVE Logical(d, s) = Zero
    OBVIOUS
  <2>1. \A k \in DataDisks : vol[BlockAt(s, k)] = Zero
    BY BlockAtInverse DEF Init
  <2>2. CASE d = ParityDisk
    <3> DEFINE row == [k \in DataDisks |-> vol[BlockAt(s, k)]]
    <3>1. \A b : Holders(DataDisks, row, b) = {}
      BY <2>1 DEF Holders, Zero
    <3> HIDE DEF row
    <3>2. XorOver(DataDisks, row) = Zero
      BY <3>1, FS_EmptySet DEF XorOver, Zero
    <3> QED BY <2>2, <3>2 DEF Logical, row
  <2>3. CASE d \in DataDisks
    BY <2>1, <2>3, DiskFacts DEF Logical
  <2> QED BY <2>2, <2>3, DiskFacts
<1>3. \A d \in Disks : /\ fromDisk[d] = <<>> /\ toDisk[d] = <<>> /\ DOMAIN toDisk[d] = {}
                       /\ file[d] = NoFile /\ mem[d] = ZeroDisk
  BY DEF Init
<1>4. \A d \in Disks, s \in Stripes : Holds(d, s, Logical(d, s))
  <2>1. \A s \in Stripes : ZeroDisk[s] = Zero
    BY DEF ZeroDisk
  <2> QED BY <1>2, <1>3, <2>1 DEF Holds, Settles, Writes
<1>5. Array
  BY <1>3, <1>4
  DEF Init, Array, DisksHold, RestoreSums, BuffersMatch, RepliesRight, ReadsLast, ExitsLast,
      FilesRight
<1>6. DeadPipesEmpty /\ RecvIsRead /\ OutReset /\ ReadsSeeVolume
  BY <1>3 DEF Init, DeadPipesEmpty, RecvIsRead, OutReset, ReadsSeeVolume, NoOut
<1> QED BY <1>1, <1>5, <1>6 DEF IInv

LEMMA NextInv == IInv /\ [Next]_vars => IInv'
<1> SUFFICES ASSUME IInv, [Next]_vars PROVE IInv'
  OBVIOUS
<1>1. TypeOK'
  BY NextType DEF IInv
<1>2. CASE Command
  <2>1. ASSUME NEW b \in BlockArgs, ReadCmd(b) PROVE IInv'
    BY <1>1, <2>1, BeginInv DEF ReadCmd
  <2>2. ASSUME NEW b \in BlockArgs, NEW v \in Block, WriteCmd(b, v) PROVE IInv'
    BY <1>1, <2>2, BeginInv DEF WriteCmd
  <2>3. CASE StatusCmd
    BY <1>1, <2>3, SameState DEF StatusCmd, diskVars
  <2> QED BY <1>1, <1>2, <2>1, <2>2, <2>3, KillInv DEF Command
<1>3. CASE ExitCmd
  BY <1>1, <1>3, ExitCmdInv
<1>4. CASE Controller \/ Sigterm
  BY <1>1, <1>4, SendReadInv, RecvBlockInv, RecvEofInv, SendWriteInv, SendFailsInv,
     RestoreDoneInv, SendExitInv, WaitChildInv, SigtermInv DEF Controller
<1>5. ASSUME NEW d \in Disks, DiskStep(d) \/ Crash(d) PROVE IInv'
  BY <1>1, <1>5, DiskReadInv, DiskWriteInv, CheckpointInv, CrashInv DEF DiskStep
<1>6. CASE UNCHANGED vars
  BY <1>1, <1>6, SameState DEF vars, ctlVars, diskVars, auxVars
<1> QED BY <1>2, <1>3, <1>4, <1>5, <1>6 DEF Next, Terminated

(* The layout, the pipes, the buffers of write_block and the restores are  *)
(* as IInv says in every reachable state, whatever died and when.          *)
THEOREM InvariantCorrect == Spec => []IInv
BY InitInv, NextInv, PTL DEF Spec

(* Restores happen only within a command, or were cut short in one.        *)
LEMMA RestoresInCommands == Spec => [](rst # <<>> => pc \in Accessing \cup {"killed"})
<1> DEFINE R == rst # <<>> => pc \in Accessing \cup {"killed"}
<1>1. Init => R
  BY DEF Init
<1>2. R /\ [Next]_vars => R'
  <2> SUFFICES ASSUME R, [Next]_vars PROVE R'
    OBVIOUS
  <2> USE DEF ctlVars, diskVars, auxVars, Accessing
  <2>1. CASE Command
    BY <2>1 DEF Command, ReadCmd, WriteCmd, KillCmd, StatusCmd, Begin, Idle
  <2>2. CASE ExitCmd \/ Sigterm
    BY <2>2 DEF ExitCmd, Sigterm
  <2>3. CASE RecvEof \/ RestoreDone
    BY <2>3 DEF RecvEof, RestoreDone, Fail
  <2>4. CASE SendRead \/ SendFails
    BY <2>4 DEF SendRead, SendFails, Ready
  <2>5. CASE RecvBlock
    BY <2>5 DEF RecvBlock, Ready
  <2>6. CASE SendWrite
    BY <2>6 DEF SendWrite, Ready
  <2>7. CASE SendExit \/ WaitChild
    BY <2>7 DEF SendExit, WaitChild
  <2>8. ASSUME NEW d \in Disks, DiskStep(d) \/ Crash(d) PROVE R'
    BY <2>8 DEF DiskStep, DiskRead, DiskWrite, DiskExit, DiskEof, Checkpoint, Crash
  <2>9. CASE UNCHANGED vars
    BY <2>9 DEF vars
  <2> QED BY <2>1, <2>2, <2>3, <2>4, <2>5, <2>6, <2>7, <2>8, <2>9
          DEF Next, Controller, Terminated
<1> QED BY <1>1, <1>2, PTL DEF Spec

(* rb prints the block last written, for any number of disks, commands and *)
(* deaths, at whatever step of a command or of a restore they strike.      *)
THEOREM ReadsCorrect == Spec => []ReadsSeeVolume
<1>1. IInv => ReadsSeeVolume
  BY DEF IInv
<1> QED BY <1>1, InvariantCorrect, PTL

(* Between commands every running disk holds, or is about to hold, its     *)
(* blocks of the layout: any one disk can be rebuilt from the others.      *)
THEOREM ArrayCorrect == Spec => []ArrayConsistent
<1>1. IInv /\ (rst # <<>> => pc \in Accessing \cup {"killed"}) => ArrayConsistent
  <2> SUFFICES ASSUME IInv, rst # <<>> => pc \in Accessing \cup {"killed"},
                      pc \in {"idle", "exit", "wait", "done"}
               PROVE  \A d \in Disks : proc[d] = "running" =>
                        \A s \in Stripes : Holds(d, s, Logical(d, s))
    BY DEF ArrayConsistent
  <2>1. rst = <<>> /\ pc \notin Accessing
    BY DEF Accessing
  <2>2. Len(rst) =< 1
    BY <2>1
  <2> QED BY <2>1, <2>2, AtRest DEF Holds
<1> QED BY <1>1, InvariantCorrect, RestoresInCommands, PTL

(* The files written at the end are the volume's blocks and their parity.  *)
THEOREM CheckpointsCorrect == Spec => []CheckpointsMatchVolume
<1>1. IInv /\ (rst # <<>> => pc \in Accessing \cup {"killed"}) => CheckpointsMatchVolume
  <2> SUFFICES ASSUME IInv, rst # <<>> => pc \in Accessing \cup {"killed"},
                      pc \in {"exit", "wait", "done"}
               PROVE  \A d \in Disks : file[d] = NoFile
                                         \/ file[d] = [s \in Stripes |-> Logical(d, s)]
    BY DEF CheckpointsMatchVolume
  <2>1. rst = <<>> /\ pc \notin Accessing
    BY DEF Accessing
  <2>2. Len(rst) =< 1
    BY <2>1
  <2> QED BY <2>1, <2>2, AtRest DEF Array, FilesRight
<1> QED BY <1>1, InvariantCorrect, RestoresInCommands, PTL

-----------------------------------------------------------------------------
(* Counting the dead disks.                                                *)

LEMMA DiskSets ==
  ASSUME NEW S \in SUBSET Disks, NEW d \in Disks
  PROVE  /\ Cardinality(S) \in Nat /\ Cardinality(S \cup {d}) \in Nat
         /\ Cardinality(S \ {d}) \in Nat
         /\ d \in S => Cardinality(S) >= 1 /\ Cardinality(S \ {d}) = Cardinality(S) - 1
         /\ Cardinality(S \cup {d}) =< Cardinality(S) + 1
<1>1. IsFiniteSet(Disks)
  BY NumDisksAssumption, FS_Interval DEF Disks
<1>2. IsFiniteSet(S)
  BY <1>1, FS_Subset
<1>3. /\ IsFiniteSet(S \ {d}) /\ IsFiniteSet(S \cup {d})
      /\ Cardinality(S \ {d}) = IF d \in S THEN Cardinality(S) - 1 ELSE Cardinality(S)
      /\ Cardinality(S \cup {d}) = IF d \in S THEN Cardinality(S) ELSE Cardinality(S) + 1
  BY <1>2, FS_AddElement, FS_RemoveElement
<1>4. /\ Cardinality(S) \in Nat /\ Cardinality(S \ {d}) \in Nat /\ Cardinality(S \cup {d}) \in Nat
  BY <1>2, <1>3, FS_CardinalityType
<1> QED BY <1>3, <1>4

Counted == Accessing \cup {"idle"}

(* A step that leaves the restores and the disks alone, or ends both.      *)
LEMMA LossSame ==
  ASSUME LossInv, TypeOK', UNCHANGED <<proc, losses>>, pc' = "fatal" => pc = "fatal",
         pc' \in Counted => pc \in Counted /\ Len(rst') = Len(rst),
         pc' \notin Accessing => rst' = <<>>, NoEarlyExit'
  PROVE  LossInv'
<1>1. DeadDisks' = DeadDisks
  BY DEF DeadDisks
<1> QED BY <1>1 DEF LossInv, SingleLossSurvived, Counted

(* A disk dies: one more loss pays for it.                                 *)
LEMMA LossDeath ==
  ASSUME LossInv, TypeOK', NEW d \in Disks, NEW x, x # "running",
         proc' = [proc EXCEPT ![d] = x], UNCHANGED <<pc, rst>>,
         losses' = IF proc[d] = "running" THEN losses + 1 ELSE losses,
         toDisk' = [toDisk EXCEPT ![d] = <<>>]
  PROVE  LossInv'
<1>1. DeadDisks' = DeadDisks \cup {d} /\ (proc[d] # "running" => DeadDisks' = DeadDisks)
  <2>1. proc \in [Disks -> {"running", "zombie", "reaped"}]
    BY DEF LossInv, TypeOK
  <2>2. proc'[d] = x /\ \A k \in Disks \ {d} : proc'[k] = proc[k]
    BY <2>1
  <2> QED BY <2>2 DEF DeadDisks
<1>2. DeadDisks \in SUBSET Disks
  BY DEF DeadDisks
<1>3. /\ Cardinality(DeadDisks) \in Nat /\ Cardinality(DeadDisks') \in Nat
      /\ Cardinality(DeadDisks') =< Cardinality(DeadDisks) + 1
  BY <1>1, <1>2, DiskSets
<1>4. losses \in Nat /\ Len(rst) \in Nat
  BY LenProperties DEF LossInv, TypeOK
<1>5. pc \in Counted => Len(rst) + Cardinality(DeadDisks') =< losses'
  <2>1. pc \in Counted => Len(rst) + Cardinality(DeadDisks) =< losses
    BY DEF LossInv, Counted
  <2>2. CASE proc[d] = "running"
    <3>1. losses' = losses + 1
      BY <2>2
    <3> HIDE DEF DeadDisks
    <3> QED BY <1>3, <1>4, <2>1, <3>1
  <2>3. CASE proc[d] # "running"
    BY <1>1, <2>1, <2>3
  <2> QED BY <2>2, <2>3
<1>6. NoEarlyExit'
  BY EmptiedPipe DEF NoEarlyExit, LossInv
<1>7. SingleLossSurvived'
  BY <1>4 DEF LossInv, SingleLossSurvived
<1> QED BY <1>5, <1>6, <1>7 DEF LossInv, Counted

(* A failed access ends the command, or within a restore the program.      *)
LEMMA LossFail ==
  ASSUME LossInv, TypeOK', NEW callers, Fail(callers), UNCHANGED <<proc, toDisk>>,
         pc \in Accessing,
         callers # <<>> => losses' >= 2,
         losses' = losses \/ DeadDisks = {}
  PROVE  LossInv'
<1>1. rst' = <<>> /\ Len(rst') = 0 /\ pc' \in {"idle", "fatal"} /\ (pc' = "fatal" => losses' >= 2)
  BY EmptySeq DEF Fail
<1>2. DeadDisks' = DeadDisks /\ DeadDisks \in SUBSET Disks
  BY DEF DeadDisks
<1>3. Cardinality(DeadDisks) \in Nat /\ (DeadDisks = {} => Cardinality(DeadDisks) = 0)
  BY <1>2, DiskSets, DiskFacts, FS_EmptySet
<1>4. losses' \in Nat /\ Len(rst) \in Nat
  BY LenProperties DEF LossInv, TypeOK
<1>5. 0 + Cardinality(DeadDisks') =< losses'
  BY <1>2, <1>3, <1>4 DEF LossInv
<1>6. NoEarlyExit'
  BY <1>1 DEF LossInv, NoEarlyExit
<1> QED BY <1>1, <1>5, <1>6 DEF LossInv, SingleLossSurvived, Accessing

LEMMA LossNext == LossInv /\ [Next]_vars => LossInv'
<1> SUFFICES ASSUME LossInv, [Next]_vars PROVE LossInv'
  OBVIOUS
<1> USE DEF ctlVars, diskVars, auxVars
<1>0. TypeOK /\ TypeOK'
  BY NextType DEF LossInv
<1>1. ASSUME NEW cmd, NEW b, NEW v, NEW first \in {"read", "oldData"}, Begin(cmd, b, v, first)
      PROVE  LossInv'
  <2>1. /\ pc = "idle" /\ pc' \in Accessing \cup {"idle"} /\ pc' # "fatal"
        /\ UNCHANGED <<proc, losses, rst, toDisk>>
    BY <1>1 DEF Begin, Idle, Accessing
  <2>2. NoEarlyExit' /\ rst' = <<>>
    BY <2>1 DEF NoEarlyExit, LossInv, Accessing
  <2> QED BY <1>0, <2>1, <2>2, LossSame DEF Counted
<1>2. ASSUME NEW d \in Disks, KillCmd(d) \/ Crash(d) PROVE LossInv'
  <2>1. PICK x \in {"zombie", "reaped"} : proc' = [proc EXCEPT ![d] = x]
    BY <1>2 DEF KillCmd, Crash
  <2>2. /\ UNCHANGED <<pc, rst>> /\ toDisk' = [toDisk EXCEPT ![d] = <<>>]
        /\ losses' = IF proc[d] = "running" THEN losses + 1 ELSE losses
    BY <1>2 DEF KillCmd, Crash
  <2> QED BY <1>0, <2>1, <2>2, LossDeath
<1>3. CASE StatusCmd \/ ExitCmd \/ Sigterm \/ SendExit \/ WaitChild
  <2>1. pc' # "fatal" /\ losses' = losses
    BY <1>3 DEF StatusCmd, Idle, ExitCmd, Sigterm, SendExit, WaitChild
  <2>2. rst' = <<>> \/ pc' = "killed"
    BY <1>3 DEF StatusCmd, Idle, ExitCmd, Sigterm, SendExit, WaitChild, LossInv, Accessing
  <2>3. CASE StatusCmd
    <3>1. NoEarlyExit'
      BY <2>3 DEF StatusCmd, Idle, NoEarlyExit, LossInv
    <3> QED BY <1>0, <2>1, <2>2, <2>3, <3>1, LossSame DEF StatusCmd, Idle, Counted
  <2>4. CASE ~StatusCmd
    <3>1. pc' \notin Counted
      BY <1>3, <2>4 DEF ExitCmd, Sigterm, SendExit, WaitChild, Counted, Accessing
    <3> QED BY <1>0, <2>1, <2>2, <3>1 DEF LossInv, SingleLossSurvived, NoEarlyExit, Counted
  <2> QED BY <2>3, <2>4
<1>4. CASE SendRead \/ SendWrite
  <2>1. /\ pc \in Accessing /\ Target \in Disks /\ UNCHANGED <<proc, losses>>
        /\ \E m \in Msg : m.op # "exit" /\ Send(Target, m) /\ mem' = mem
    <3>1. pc \in Accessing /\ Target \in Disks /\ Slot \in Stripes /\ Access.data \in Block
      BY <1>0, <1>4, AccessType DEF SendRead, SendWrite, Ready
    <3>2. CASE SendRead
      BY <3>1, <3>2 DEF SendRead, Msg, Zero, Block
    <3>3. CASE SendWrite
      BY <3>1, <3>3 DEF SendWrite, Msg
    <3> QED BY <1>4, <3>1, <3>2, <3>3
  <2>2. pc' \in Counted /\ pc' # "fatal" /\ (pc' \notin Accessing => rst' = <<>>)
    BY <1>4, <2>1 DEF SendRead, SendWrite, Counted, Accessing, LossInv
  <2>3. Len(rst') = Len(rst)
    BY <1>0, <1>4, ReplaceTop DEF SendRead, SendWrite
  <2>4. NoEarlyExit'
    BY <1>0, <2>1, SendEffect DEF NoEarlyExit, LossInv
  <2> QED BY <1>0, <2>1, <2>2, <2>3, <2>4, LossSame DEF Counted
<1>5. CASE RecvBlock
  <2>1. pc \in Accessing /\ UNCHANGED <<proc, losses, toDisk>>
    BY <1>5 DEF RecvBlock, Ready
  <2>2. pc' \in Counted /\ pc' # "fatal" /\ (pc' \notin Accessing => rst' = <<>>)
    BY <1>5, <2>1 DEF RecvBlock, Counted, Accessing
  <2>3. Len(rst') = Len(rst)
    BY <1>0, <1>5, ReplaceTop DEF RecvBlock
  <2>4. NoEarlyExit'
    BY <2>1 DEF NoEarlyExit, LossInv
  <2> QED BY <1>0, <2>1, <2>2, <2>3, <2>4, LossSame DEF Counted
<1>6. CASE SendFails
  <2> DEFINE d == Target
             S == DeadDisks
  <2>1. /\ pc \in Accessing /\ pc' = pc /\ losses' = losses
        /\ d \in Disks /\ d \in S /\ S \in SUBSET Disks
    BY <1>0, <1>6, AccessType DEF SendFails, Ready, DeadDisks
  <2>2. DeadDisks' = S \ {d}
    BY <1>0, <1>6, <2>1 DEF SendFails, DeadDisks, TypeOK
  <2>3. Len(rst') = Len(rst) + 1 /\ Len(rst) \in Nat /\ losses \in Nat
    <3>1. rst' \in Seq(Frame) /\ rst \in Seq(Frame) /\ losses \in Nat
      BY <1>0 DEF TypeOK
    <3>2. \E f : rst' = <<f>> \o rst
      BY <1>6 DEF SendFails
    <3>3. PICK f : rst' = <<f>> \o rst
      BY <3>2
    <3>4. rst \in Seq(Frame \cup {f})
      BY <3>1
    <3> QED BY <3>1, <3>3, <3>4, PushTop, LenProperties
  <2>4. NoEarlyExit'
    BY <1>0, <1>6, <2>1, EmptiedPipe DEF NoEarlyExit, LossInv, SendFails
  <2> HIDE DEF d, S
  <2>5. /\ Cardinality(S) \in Nat /\ Cardinality(S \ {d}) = Cardinality(S) - 1
        /\ Len(rst) + Cardinality(S) =< losses
    BY <2>1, DiskSets DEF LossInv, S
  <2>6. Len(rst') + Cardinality(DeadDisks') =< losses'
    BY <2>1, <2>2, <2>3, <2>5
  <2> QED BY <1>0, <2>1, <2>4, <2>6 DEF LossInv, SingleLossSurvived, Accessing
<1>7. CASE RecvEof \/ RestoreDone
  <2>1. pc \in Accessing /\ UNCHANGED <<proc, toDisk>>
    BY <1>7 DEF RecvEof, RestoreDone, Ready
  <2>2. Len(rst) + Cardinality(DeadDisks) =< losses /\ losses \in Nat /\ Len(rst) \in Nat
    BY <1>0, <2>1, LenProperties DEF LossInv, TypeOK
  <2>3. CASE RecvEof
    <3>1. Target \in DeadDisks /\ DeadDisks \in SUBSET Disks /\ Target \in Disks
      BY <1>0, <2>3, AccessType DEF RecvEof, DeadDisks
    <3>2. Cardinality(DeadDisks) >= 1 /\ Cardinality(DeadDisks) \in Nat
      BY <3>1, DiskSets
    <3>3. rst # <<>> => Len(rst) >= 1
      BY <1>0, <2>2, EmptySeq DEF TypeOK
    <3>4. Fail(rst) /\ losses' = losses
      BY <2>3 DEF RecvEof
    <3>5. rst # <<>> => losses' >= 2
      BY <2>2, <3>2, <3>3, <3>4
    <3> QED BY <1>0, <2>1, <3>4, <3>5, LossFail
  <2>4. CASE RestoreDone
    <3>1. Fail(Tail(rst)) /\ rst # <<>>
      BY <2>4 DEF RestoreDone
    <3>2. losses' = losses \/ (Tail(rst) = <<>> /\ DeadDisks = {})
      BY <2>4 DEF RestoreDone, DeadDisks
    <3>3. Tail(rst) # <<>> => Len(rst) >= 2
      <4>1. Tail(rst) \in Seq(Frame) /\ Len(Tail(rst)) = Len(rst) - 1
        BY <1>0, <3>1, HeadTailProperties DEF TypeOK
      <4>2. Tail(rst) # <<>> => Len(Tail(rst)) # 0 /\ Len(Tail(rst)) \in Nat
        BY <4>1, EmptySeq, LenProperties
      <4> QED BY <2>2, <4>1, <4>2
    <3>4. Cardinality(DeadDisks) \in Nat
      BY DiskSets, DiskFacts DEF DeadDisks
    <3>5. Tail(rst) # <<>> => losses' >= 2
      BY <2>2, <3>2, <3>3, <3>4
    <3> QED BY <1>0, <2>1, <3>1, <3>2, <3>5, LossFail
  <2> QED BY <1>7, <2>3, <2>4
<1>8. CASE UNCHANGED vars
  <2>1. NoEarlyExit' /\ rst' = rst /\ pc' = pc /\ UNCHANGED <<proc, losses>>
    BY <1>8 DEF vars, NoEarlyExit, LossInv
  <2> QED BY <1>0, <2>1, LossSame DEF LossInv, SingleLossSurvived
<1>9. ASSUME NEW d \in Disks, DiskRead(d) \/ DiskWrite(d) PROVE LossInv'
  <2>1. UNCHANGED <<pc, rst, proc, losses>>
    BY <1>9 DEF DiskRead, DiskWrite
  <2>2. toDisk[d] # <<>> /\ toDisk' = [toDisk EXCEPT ![d] = Tail(toDisk[d])]
    BY <1>9 DEF DiskRead, DiskWrite, Pending, Consume
  <2>3. \A i \in DOMAIN Tail(toDisk[d]) :
          i + 1 \in DOMAIN toDisk[d] /\ Tail(toDisk[d])[i] = toDisk[d][i + 1]
    <3>1. toDisk[d] \in Seq(Msg)
      BY <1>0 DEF TypeOK
    <3> QED BY <2>2, <3>1, HeadTailProperties, LenProperties
  <2>4. NoEarlyExit'
    <3>1. \A e \in Disks : toDisk'[e] = IF e = d THEN Tail(toDisk[d]) ELSE toDisk[e]
      BY <1>0, <2>2 DEF TypeOK
    <3> QED BY <2>1, <2>3, <3>1 DEF NoEarlyExit, LossInv
  <2> QED BY <1>0, <2>1, <2>4, LossSame DEF LossInv, SingleLossSurvived
<1>10. ASSUME NEW d \in Disks, DiskExit(d) \/ DiskEof(d) PROVE LossInv'
  <2>1. UNCHANGED <<pc, rst, losses>>
    BY <1>10 DEF DiskExit, DiskEof, Checkpoint
  <2>2. pc \notin Counted
    <3>1. CASE DiskEof(d)
      BY <3>1 DEF DiskEof, Gone, Counted, Accessing
    <3>2. CASE DiskExit(d)
      <4>1. 1 \in DOMAIN toDisk[d] /\ toDisk[d][1].op = "exit"
        BY <1>0, <3>2, PipeTypes DEF DiskExit, Pending
      <4> QED BY <4>1 DEF LossInv, NoEarlyExit, Counted
    <3> QED BY <1>10, <3>1, <3>2
  <2> QED BY <1>0, <2>1, <2>2 DEF LossInv, SingleLossSurvived, NoEarlyExit, Counted
<1>11. CASE Command
  BY <1>1, <1>2, <1>3, <1>11 DEF Command, ReadCmd, WriteCmd
<1> QED BY <1>2, <1>3, <1>4, <1>5, <1>6, <1>7, <1>8, <1>9, <1>10, <1>11
        DEF Next, Controller, DiskStep, Terminated

LEMMA LossInit == Init => LossInv
<1> SUFFICES ASSUME Init PROVE LossInv
  OBVIOUS
<1>1. DeadDisks = {} /\ Cardinality({}) = 0
  BY FS_EmptySet DEF Init, DeadDisks
<1>2. Len(rst) + Cardinality(DeadDisks) =< losses
  BY <1>1 DEF Init
<1> QED BY <1>2, InitType DEF Init, LossInv, NoEarlyExit, SingleLossSurvived, Accessing

(* Every restore under way and every dead disk is one of the losses        *)
(* counted since all disks last ran restored.                              *)
THEOREM LossesCorrect == Spec => []LossInv
BY LossInit, LossNext, PTL DEF Spec

(* However many disks die in turn, the simulator gives up only when a      *)
(* second one is lost before the first is restored.                        *)
THEOREM SingleLossCorrect == Spec => []SingleLossSurvived
<1>1. LossInv => SingleLossSurvived
  BY DEF LossInv
<1> QED BY <1>1, LossesCorrect, PTL

-----------------------------------------------------------------------------
(* A SIGTERM in the middle of a command.                                   *)

LEMMA TornSame ==
  ASSUME UNCHANGED <<req, rst, out, vol>>
  PROVE  \A d, s : (Torn(d, s)' <=> Torn(d, s)) /\ Logical(d, s)' = Logical(d, s)
BY DEF Torn, Logical

(* The only step that kills the controller finds the array in order.       *)
LEMMA TornSigterm ==
  ASSUME IInv, Sigterm, Len(rst) =< 1
  PROVE  TornInv'
<1>1. /\ pc \notin Gone /\ UNCHANGED <<req, rst, out, vol, toDisk, proc, file, mem>>
      /\ TypeOK /\ OutReset
  BY DEF Sigterm, diskVars, auxVars, IInv
<1>3. Array
  <2>1. Healthy
    BY <1>1 DEF Healthy, Gone
  <2> QED BY <2>1 DEF IInv
<1>4. \A d \in Disks, s \in Stripes : Exempt(d, s) => Torn(d, s)
  <2>1. pc = "newData" => ReqDisk = DiskOf(req.blk, FALSE) /\ out.cmd = "none"
    <3>1. pc = "newData" => out = NoOut
      BY <1>1 DEF OutReset, Accessing
    <3>2. pc = "newData" => ReqDisk = DiskOf(req.blk, FALSE)
      BY DEF ReqDisk, CommandAccess, DiskOf
    <3> QED BY <3>1, <3>2 DEF NoOut
  <2> QED BY <2>1 DEF Exempt, Torn
<1>5. \A d \in Disks : proc[d] = "running" =>
        \A s \in Stripes : Torn(d, s) \/ Holds(d, s, Logical(d, s))
  BY <1>3, <1>4 DEF Array, DisksHold
<1>6. \A d \in Disks : file[d] = NoFile \/ \A s \in Stripes : file[d][s] = Logical(d, s)
  BY <1>3 DEF Array, FilesRight
<1>7. \A d, s, v : Holds(d, s, v)' <=> Holds(d, s, v)
  BY <1>1 DEF Holds
<1>8. \A d \in Disks : \A i \in DOMAIN toDisk[d] :
        toDisk[d][i].op = "exit" => i = Len(toDisk[d])
  BY <1>3 DEF Array, ExitsLast
<1> QED BY <1>1, <1>5, <1>6, <1>7, <1>8, TornSame DEF TornInv

(* The disks drain their pipes, and write what they then hold.             *)
LEMMA TornDisk ==
  ASSUME TypeOK, TornInv, pc = "killed", Len(rst) =< 1, NEW d \in Disks, DiskStep(d)
  PROVE  TornInv'
<1> USE DEF ctlVars, auxVars
<1> DEFINE q == toDisk[d]
<1>1. /\ \A e \in Disks :
           /\ \A i \in DOMAIN toDisk[e] : toDisk[e][i].op = "exit" => i = Len(toDisk[e])
           /\ proc[e] = "running" => \A s \in Stripes : Torn(e, s) \/ Holds(e, s, Logical(e, s))
           /\ file[e] = NoFile \/ \A s \in Stripes : Torn(e, s) \/ file[e][s] = Logical(e, s)
      /\ proc[d] = "running"
  BY DEF TornInv, DiskStep, DiskRead, DiskWrite, DiskExit, DiskEof, Pending
<1>2. UNCHANGED <<req, rst, out, vol, pc>>
  BY DEF DiskStep, DiskRead, DiskWrite, DiskExit, DiskEof, Checkpoint
<1>3. q \in Seq(Msg) /\ DOMAIN q = 1 .. Len(q) /\ Len(q) \in Nat /\ mem[d] \in [Stripes -> Block]
  BY PipeTypes
<1>4. CASE DiskRead(d) \/ DiskWrite(d)
  <2>1. /\ q # <<>> /\ UNCHANGED <<proc, file>>
        /\ \A e \in Disks : toDisk'[e] = IF e = d THEN Tail(q) ELSE toDisk[e]
    BY <1>4 DEF DiskRead, DiskWrite, Pending, Consume, TypeOK
  <2>2. \A e \in Disks : e # d => mem'[e] = mem[e]
    BY <1>4 DEF DiskRead, DiskWrite, TypeOK
  <2>3. ASSUME NEW s \in Stripes, NEW v, Holds(d, s, v) PROVE Settles(toDisk'[d], mem'[d], s, v)
    <3>1. CASE DiskRead(d)
      <4>1. Head(q).op # "write" /\ mem'[d] = mem[d]
        BY <3>1 DEF DiskRead, Pending
      <4> QED BY <1>3, <2>1, <2>3, <4>1, SettlesTail DEF Holds
    <3>2. CASE DiskWrite(d)
      <4>1. Head(q).op = "write" /\ mem'[d] = [mem[d] EXCEPT ![Head(q).stripe] = Head(q).data]
        BY <3>2 DEF DiskWrite, Pending, TypeOK
      <4> QED BY <1>3, <2>1, <2>3, <4>1, SettlesTail DEF Holds
    <3> QED BY <1>4, <3>1, <3>2
  <2>4. \A e \in Disks : proc'[e] = "running" =>
          \A s \in Stripes : Torn(e, s)' \/ Settles(toDisk'[e], mem'[e], s, Logical(e, s)')
    BY <1>1, <1>2, <2>1, <2>2, <2>3, TornSame DEF Holds
  <2>5. \A i \in DOMAIN Tail(q) : Tail(q)[i].op = "exit" => i = Len(Tail(q))
    <3>1. Len(Tail(q)) = Len(q) - 1 /\ DOMAIN Tail(q) = 1 .. Len(q) - 1
      BY <1>3, <2>1, HeadTailProperties, LenProperties
    <3>2. \A i \in 1 .. Len(q) - 1 : Tail(q)[i] = q[i + 1] /\ i + 1 \in DOMAIN q
      BY <1>3, <2>1, HeadTailProperties
    <3> QED BY <1>1, <1>3, <3>1, <3>2
  <2>6. \A e \in Disks : \A i \in DOMAIN toDisk'[e] :
          toDisk'[e][i].op = "exit" => i = Len(toDisk'[e])
    BY <1>1, <2>1, <2>5
  <2> QED BY <1>1, <1>2, <2>1, <2>4, <2>6, TornSame DEF TornInv, Holds
<1>5. CASE DiskExit(d) \/ DiskEof(d)
  <2>1. Checkpoint(d)
    BY <1>5 DEF DiskExit, DiskEof
  <2>2. /\ mem' = mem /\ proc' = [proc EXCEPT ![d] = "zombie"]
        /\ toDisk' = [toDisk EXCEPT ![d] = <<>>] /\ file' = [file EXCEPT ![d] = mem[d]]
    BY <2>1 DEF Checkpoint
  <2>3. \A i \in DOMAIN q : q[i].op # "write"
    <3>1. CASE DiskExit(d)
      <4>1. q # <<>> /\ q[1].op = "exit" /\ 1 \in DOMAIN q
        BY <1>3, <3>1, PipeTypes DEF DiskExit, Pending
      <4>2. Len(q) = 1
        BY <1>1, <4>1
      <4> QED BY <1>3, <4>1, <4>2
    <3>2. CASE DiskEof(d)
      BY <3>2 DEF DiskEof
    <3> QED BY <1>5, <3>1, <3>2
  <2>4. \A s \in Stripes : Torn(d, s) \/ mem[d][s] = Logical(d, s)
    BY <1>1, <2>3, SettlesNow DEF Holds
  <2>5. \A e \in Disks : /\ e # d => /\ toDisk'[e] = toDisk[e] /\ file'[e] = file[e]
                                     /\ proc'[e] = proc[e]
                         /\ e = d => /\ toDisk'[e] = <<>> /\ file'[e] = mem[d]
                                     /\ proc'[e] # "running" /\ DOMAIN toDisk'[e] = {}
    BY <2>2, EmptiedPipe DEF TypeOK
  <2> QED BY <1>1, <1>2, <2>2, <2>4, <2>5, TornSame DEF TornInv, Holds
<1> QED BY <1>4, <1>5 DEF DiskStep

LEMMA TornNext == IInv /\ TornInv /\ [Next]_vars => TornInv'
<1> SUFFICES ASSUME IInv, TornInv, [Next]_vars, pc' = "killed", Len(rst') =< 1
             PROVE  TornInv'
  BY DEF TornInv
<1> USE DEF ctlVars, diskVars, auxVars
<1>0. TypeOK
  BY DEF IInv
<1>1. CASE Sigterm
  BY <1>1, TornSigterm DEF Sigterm
<1>2. ASSUME NEW d \in Disks, DiskStep(d) PROVE TornInv'
  <2>1. pc = "killed" /\ rst' = rst
    BY <1>2 DEF DiskStep, DiskRead, DiskWrite, DiskExit, DiskEof, Checkpoint
  <2> QED BY <1>0, <1>2, <2>1, TornDisk
<1>3. ASSUME NEW d \in Disks, Crash(d) PROVE TornInv'
  <2>1. /\ UNCHANGED <<pc, req, rst, out, vol, mem, file>>
        /\ \A e \in Disks : /\ e # d => toDisk'[e] = toDisk[e] /\ proc'[e] = proc[e]
                            /\ e = d => toDisk'[e] = <<>> /\ proc'[e] # "running"
    BY <1>0, <1>3 DEF Crash, TypeOK
  <2>2. \A e \in Disks : \A i \in DOMAIN toDisk'[e] :
          toDisk'[e][i].op = "exit" => i = Len(toDisk'[e])
    BY <2>1, EmptiedPipe DEF TornInv
  <2> QED BY <2>1, <2>2, TornSame DEF TornInv, Holds
<1>4. CASE Command
  BY <1>4 DEF Command, ReadCmd, WriteCmd, KillCmd, StatusCmd, Begin, Idle
<1>5. CASE ExitCmd \/ SendRead \/ SendFails \/ SendExit \/ WaitChild
  BY <1>5 DEF ExitCmd, SendRead, SendFails, SendExit, WaitChild, Ready, Accessing
<1>6. CASE RecvBlock \/ SendWrite
  BY <1>6 DEF RecvBlock, SendWrite, Ready, Accessing
<1>7. CASE RecvEof \/ RestoreDone
  BY <1>7 DEF RecvEof, RestoreDone, Fail
<1>8. CASE UNCHANGED vars
  <2>1. UNCHANGED <<req, rst, out, vol, pc, proc, toDisk, mem, file>>
    BY <1>8 DEF vars
  <2>2. \A d, s, v : Holds(d, s, v)' <=> Holds(d, s, v)
    BY <2>1 DEF Holds
  <2> QED BY <2>1, <2>2, TornSame DEF TornInv
<1> QED BY <1>1, <1>2, <1>3, <1>4, <1>5, <1>6, <1>7, <1>8 DEF Next, Controller, Terminated

(* When the GUI ends the shell, at whatever step of whatever command, with *)
(* disks dead or not, the files that the disks then write differ from the  *)
(* volume on one disk at most: in the data block of an unfinished wb, or   *)
(* in the stripes that an unfinished restore had not reached.              *)
THEOREM ClosingCorrect == Spec => []ClosingTearsOneDisk
<1>1. Init => TornInv
  BY DEF Init, TornInv
<1>2. TornInv => ClosingTearsOneDisk
  BY DEF TornInv, ClosingTearsOneDisk
<1> QED BY <1>1, <1>2, TornNext, InvariantCorrect, PTL DEF Spec

-----------------------------------------------------------------------------
(* Which disks run after a failure.                                        *)

(* A disk writes its checkpoint only after the command loop has ended.     *)
LEMMA NoEarlyCheckpoint ==
  ASSUME LossInv, NEW d \in Disks, DiskExit(d) \/ DiskEof(d)
  PROVE  pc \notin Counted
<1>1. CASE DiskEof(d)
  BY <1>1 DEF DiskEof, Gone, Counted, Accessing
<1>2. CASE DiskExit(d)
  <2>1. 1 \in DOMAIN toDisk[d] /\ toDisk[d][1].op = "exit"
    BY <1>2, PipeTypes DEF DiskExit, Pending, LossInv
  <2> QED BY <2>1 DEF LossInv, NoEarlyExit, Counted
<1> QED BY <1>1, <1>2

(* What the controller accesses depends on its own variables.              *)
LEMMA SameTarget == UNCHANGED <<pc, req, reg, rst>> => Target' = Target
BY DEF Target, Access, CommandAccess, FrameAccess, DiskOf, NextSource, NewParity

LEMMA LastFrame == \A S : \A q \in Seq(S) : q # <<>> /\ Tail(q) = <<>> => Len(q) =< 1
<1> SUFFICES ASSUME NEW S, NEW q \in Seq(S), q # <<>>, Tail(q) = <<>> PROVE Len(q) =< 1
  OBVIOUS
<1>1. Len(Tail(q)) = Len(q) - 1 /\ Len(Tail(q)) = 0
  BY HeadTailProperties, EmptySeq
<1>2. Len(q) - 1 = 0
  BY <1>1
<1>3. Len(q) = 1
  BY <1>2
<1> QED BY <1>3

LEMMA HealNext == IInv /\ LossInv /\ HealInv /\ [Next]_vars => HealInv'
<1> SUFFICES ASSUME IInv, LossInv, HealInv, [Next]_vars, crashes' = 0, pc' \in Accessing
             PROVE  /\ rst' # <<>> => proc'[Head(rst').disk] = "running"
                    /\ phase' = "recv" => proc'[Target'] = "running"
  BY DEF HealInv
<1> USE DEF ctlVars, diskVars, auxVars
<1>0. TypeOK /\ crashes \in Nat
  BY DEF IInv, TypeOK
<1>1. ASSUME NEW cmd, NEW b, NEW v, NEW first, Begin(cmd, b, v, first)
      PROVE  rst' = <<>> /\ phase' # "recv"
  BY <1>1 DEF Begin, Idle, LossInv, IInv, RecvIsRead, Ready, Accessing
<1>2. ~StatusCmd /\ ~ExitCmd /\ ~Sigterm /\ ~SendExit /\ ~WaitChild /\ \A d \in Disks : ~KillCmd(d)
  BY DEF StatusCmd, KillCmd, Idle, ExitCmd, Sigterm, SendExit, WaitChild, Accessing
<1>3. CASE SendRead
  BY <1>3, SameTarget DEF SendRead, Writable, HealInv
<1>4. ASSUME RecvBlock \/ SendWrite
      PROVE  /\ phase' = "send" /\ UNCHANGED <<proc, crashes>> /\ pc \in Accessing
             /\ rst' # <<>> => rst # <<>> /\ Head(rst').disk = Head(rst).disk
  <2>1. phase' = "send" /\ UNCHANGED <<proc, crashes>> /\ pc \in Accessing
    BY <1>4 DEF RecvBlock, SendWrite, Ready
  <2>2. CASE rst = <<>>
    <3>1. rst' = rst
      BY <1>4, <2>2 DEF RecvBlock, SendWrite
    <3> QED BY <2>1, <2>2, <3>1
  <2>3. CASE rst # <<>>
    <3>1. rst \in Seq(Frame) /\ Head(rst) \in Frame
      BY <1>0, <2>3, HeadTailProperties DEF TypeOK
    <3>2. \A v : Absorb(Head(rst), v).disk = Head(rst).disk
      BY <3>1 DEF Absorb, Frame
    <3>3. NextStripe(Head(rst)).disk = Head(rst).disk
      BY <3>1 DEF NextStripe, Frame
    <3>4. \E g : rst' = <<g>> \o Tail(rst) /\ g.disk = Head(rst).disk
      <4>1. CASE RecvBlock
        <5>1. rst' = <<Absorb(Head(rst), Head(fromDisk[Target]))>> \o Tail(rst)
          BY <2>3, <4>1 DEF RecvBlock
        <5>2. Absorb(Head(rst), Head(fromDisk[Target])).disk = Head(rst).disk
          BY <3>2
        <5> QED BY <5>1, <5>2
      <4>2. CASE SendWrite
        <5>1. rst' = <<NextStripe(Head(rst))>> \o Tail(rst)
          BY <2>3, <4>2 DEF SendWrite
        <5> QED BY <3>3, <5>1
      <4> QED BY <1>4, <4>1, <4>2
    <3>5. PICK g : rst' = <<g>> \o Tail(rst) /\ g.disk = Head(rst).disk
      BY <3>4
    <3>6. rst \in Seq(Frame \cup {g})
      BY <3>1
    <3>7. Head(rst') = g
      BY <2>3, <3>5, <3>6, ReplaceTop
    <3> QED BY <2>1, <2>3, <3>5, <3>7
  <2> QED BY <2>1, <2>2, <2>3
<1>5. CASE RecvEof \/ RestoreDone
  BY <1>5 DEF RecvEof, RestoreDone, Fail
<1>6. CASE SendFails
  <2>1. Target \in Disks /\ proc' = [proc EXCEPT ![Target] = "running"] /\ phase' = "send"
    BY <1>0, <1>6, AccessType DEF SendFails
  <2> DEFINE g == [disk |-> Target, stripe |-> 0, left |-> Sources(Target), acc |-> Zero]
  <2>2. rst' = <<g>> \o rst /\ g.disk = Target
    BY <1>6 DEF SendFails
  <2> HIDE DEF g
  <2>3. rst \in Seq(Frame \cup {g})
    BY <1>0 DEF TypeOK
  <2>4. Head(rst') = g
    BY <2>2, <2>3, PushTop
  <2> QED BY <1>0, <2>1, <2>2, <2>4 DEF TypeOK
<1>7. ASSUME NEW d \in Disks, DiskStep(d)
      PROVE  UNCHANGED <<pc, phase, req, reg, rst, proc, crashes>>
  <2>1. pc' = pc
    BY <1>7 DEF DiskStep, DiskRead, DiskWrite, DiskExit, DiskEof, Checkpoint
  <2>2. ~DiskExit(d) /\ ~DiskEof(d)
    BY <2>1, NoEarlyCheckpoint DEF Counted
  <2> QED BY <1>7, <2>2 DEF DiskStep, DiskRead, DiskWrite
<1>8. \A d \in Disks : ~Crash(d)
  BY <1>0 DEF Crash
<1>9. CASE UNCHANGED <<pc, phase, req, reg, rst, proc, crashes>>
  BY <1>9, SameTarget DEF HealInv
<1>10. CASE RecvBlock \/ SendWrite
  BY <1>4, <1>10 DEF HealInv
<1>11. CASE Command
  BY <1>1, <1>2, <1>11 DEF Command, ReadCmd, WriteCmd
<1> QED BY <1>2, <1>3, <1>5, <1>6, <1>7, <1>8, <1>9, <1>10, <1>11
        DEF Next, Controller, Terminated, vars

LEMMA HealInit == Init => HealInv
BY DEF Init, HealInv, Accessing

(* Only a kill leaves a disk dead as long as none dies on its own: in a    *)
(* command, the disk under restore and the disk waited for both run.       *)
THEOREM HealCorrect == Spec => []HealInv
BY HealInit, HealNext, InvariantCorrect, LossesCorrect, PTL DEF Spec

(* A command that fails because its disk was killed leaves that disk       *)
(* running again: the access that found it dead has restored it before it  *)
(* failed, and the retry is not met by the same dead disk.                 *)
THEOREM FailuresHeal == Spec => FailureHealsDisk
<1> DEFINE Heals == (pc \in Accessing /\ pc' = "idle" /\ ~out'.ok) =>
                      \/ (proc')[DiskOf(req.blk, CommandAccess.parity)] = "running"
                      \/ crashes > 0
<1>1. IInv /\ LossInv /\ HealInv /\ [Next]_vars => [Heals]_vars
  <2> SUFFICES ASSUME IInv, LossInv, HealInv, Next,
                      pc \in Accessing, pc' = "idle", ~out'.ok, crashes = 0
               PROVE  proc'[ReqDisk] = "running"
    BY DEF ReqDisk, IInv, TypeOK
  <2> HIDE DEF Heals
  <2> USE DEF ctlVars, diskVars, auxVars
  <2>1. CASE RecvEof
    <3>1. proc[Target] # "running" /\ phase = "recv"
      BY <2>1 DEF RecvEof
    <3> QED BY <3>1 DEF HealInv
  <2>2. CASE RestoreDone
    <3>1. rst # <<>> /\ Tail(rst) = <<>> /\ proc' = proc
      BY <2>2 DEF RestoreDone, Fail
    <3>2. Len(rst) =< 1
      <4>1. rst \in Seq(Frame)
        BY DEF IInv, TypeOK
      <4> QED BY <3>1, <4>1, LastFrame
    <3>3. Head(rst).disk = ReqDisk
      BY <3>1, <3>2 DEF IInv, Healthy, Array, RestoreSums, Accessing
    <3> QED BY <3>1, <3>3 DEF HealInv
  <2>3. CASE RecvBlock \/ SendWrite
    <3>1. out'.ok = TRUE
      BY <2>3 DEF RecvBlock, SendWrite, Accessing
    <3> QED BY <3>1
  <2>4. ~Command /\ ~ExitCmd /\ ~SendExit /\ ~WaitChild /\ ~Sigterm /\ ~Terminated
    BY DEF Command, ReadCmd, WriteCmd, Begin, KillCmd, StatusCmd, Idle, ExitCmd, SendExit,
           WaitChild, Sigterm, Terminated, Accessing, Gone
  <2>5. ~SendRead /\ ~SendFails /\ \A d \in Disks : ~DiskStep(d) /\ ~Crash(d)
    BY DEF SendRead, SendFails, DiskStep, DiskRead, DiskWrite, DiskExit, DiskEof, Checkpoint,
           Crash, Accessing
  <2> QED BY <2>1, <2>2, <2>3, <2>4, <2>5 DEF Next, Controller
<1> QED BY <1>1, InvariantCorrect, LossesCorrect, HealCorrect, PTL DEF Spec, FailureHealsDisk

-----------------------------------------------------------------------------
(* Counting the children.                                                  *)

Unreaped == {d \in Disks : proc[d] # "reaped"}
Bit01(p) == IF p THEN 1 ELSE 0

LEMMA ChildCounts ==
  ASSUME TypeOK
  PROVE  /\ Zombies \in Nat /\ orphans \in Nat /\ crashes \in Nat /\ idx \in 0 .. NumDisks
         /\ Cardinality(Unreaped) \in Nat /\ Cardinality(Unreaped) =< NumDisks + 1
         /\ Children = Cardinality(Unreaped) + orphans
<1>1. IsFiniteSet(Disks) /\ Cardinality(Disks) = NumDisks + 1
  BY NumDisksAssumption, FS_Interval DEF Disks
<1>2. Cardinality(Unreaped) \in Nat /\ Cardinality(Unreaped) =< NumDisks + 1
  BY <1>1, FS_Subset, FS_CardinalityType DEF Unreaped
<1>3. Zombies \in Nat
  BY <1>1, FS_Subset, FS_CardinalityType DEF Zombies
<1> QED BY <1>2, <1>3 DEF TypeOK, Children, Unreaped, Disks

(* One disk changes its state.                                             *)
LEMMA ChildStep ==
  ASSUME TypeOK, NEW d \in Disks, NEW x \in {"running", "zombie", "reaped"},
         proc' = [proc EXCEPT ![d] = x]
  PROVE  /\ Zombies' = Zombies - Bit01(proc[d] = "zombie") + Bit01(x = "zombie")
         /\ Cardinality(Unreaped') =
              Cardinality(Unreaped) - Bit01(proc[d] # "reaped") + Bit01(x # "reaped")
<1> DEFINE Z == {k \in Disks : proc[k] = "zombie"}
<1>1. /\ \A k \in Disks : proc'[k] = IF k = d THEN x ELSE proc[k]
  BY DEF TypeOK
<1>2. /\ Unreaped \in SUBSET Disks /\ Z \in SUBSET Disks
      /\ d \in Unreaped <=> proc[d] # "reaped"
      /\ d \in Z <=> proc[d] = "zombie"
  BY DEF Unreaped
<1>3. /\ Unreaped' = IF x # "reaped" THEN Unreaped \cup {d} ELSE Unreaped \ {d}
      /\ Z' = IF x = "zombie" THEN Z \cup {d} ELSE Z \ {d}
  BY <1>1 DEF Unreaped
<1>4. \A S \in SUBSET Disks :
        /\ Cardinality(S) \in Nat
        /\ Cardinality(S \cup {d}) = Cardinality(S) - Bit01(d \in S) + 1
        /\ Cardinality(S \ {d}) = Cardinality(S) - Bit01(d \in S) + 0
  <2> SUFFICES ASSUME NEW S \in SUBSET Disks
               PROVE  /\ Cardinality(S) \in Nat
                      /\ Cardinality(S \cup {d}) = Cardinality(S) - Bit01(d \in S) + 1
                      /\ Cardinality(S \ {d}) = Cardinality(S) - Bit01(d \in S) + 0
    OBVIOUS
  <2>0. IsFiniteSet(Disks)
    BY NumDisksAssumption, FS_Interval DEF Disks
  <2>1. IsFiniteSet(S)
    BY <2>0, FS_Subset
  <2>2. /\ Cardinality(S) \in Nat
        /\ Cardinality(S \cup {d}) = IF d \in S THEN Cardinality(S) ELSE Cardinality(S) + 1
        /\ Cardinality(S \ {d}) = IF d \in S THEN Cardinality(S) - 1 ELSE Cardinality(S)
    BY <2>1, FS_AddElement, FS_RemoveElement, FS_CardinalityType
  <2> QED BY <2>2 DEF Bit01
<1>5. Zombies = Cardinality(Z) /\ Zombies' = Cardinality(Z')
  BY DEF Zombies
<1> HIDE DEF Z
<1>6. Cardinality(Z') = Cardinality(Z) - Bit01(d \in Z) + Bit01(x = "zombie")
  BY <1>2, <1>3, <1>4 DEF Bit01
<1>7. Cardinality(Unreaped') = Cardinality(Unreaped) - Bit01(d \in Unreaped) + Bit01(x # "reaped")
  BY <1>2, <1>3, <1>4 DEF Bit01
<1> QED BY <1>2, <1>5, <1>6, <1>7 DEF Bit01

(* A step that touches no process, within the command loop or out of it.   *)
LEMMA WaitSame ==
  ASSUME WaitInv, UNCHANGED <<proc, orphans, crashes>>,
         \/ UNCHANGED <<pc, idx>>
         \/ pc \in Counted /\ pc' \in Counted
         \/ pc' \in {"fatal", "killed"}
  PROVE  WaitInv'
BY DEF WaitInv, Zombies, Children, Counted, Accessing

LEMMA WaitNext == IInv /\ LossInv /\ WaitInv /\ [Next]_vars => WaitInv'
<1> SUFFICES ASSUME IInv, LossInv, WaitInv, [Next]_vars PROVE WaitInv'
  OBVIOUS
<1> USE DEF ctlVars, diskVars, auxVars
<1>0. TypeOK /\ TypeOK'
  BY NextType DEF IInv
<1>n. NumDisks \in Nat
  BY NumDisksAssumption
<1>1. ASSUME NEW cmd, NEW b, NEW v, NEW first \in {"read", "oldData"}, Begin(cmd, b, v, first)
      PROVE  WaitInv'
  BY <1>1, WaitSame DEF Begin, Idle, Counted, Accessing
<1>2. ASSUME NEW d \in Disks, KillCmd(d) PROVE WaitInv'
  <2>1. /\ pc = "idle" /\ pc' = "idle" /\ UNCHANGED <<orphans, crashes>>
        /\ proc' = [proc EXCEPT ![d] = "reaped"]
    BY <1>2 DEF KillCmd, Idle
  <2>2. Zombies' = Zombies - Bit01(proc[d] = "zombie") + 0
    BY <1>0, <2>1, ChildStep DEF Bit01
  <2> QED BY <1>0, <2>1, <2>2, ChildCounts DEF WaitInv, Bit01
<1>3. CASE StatusCmd \/ Sigterm
  BY <1>3, WaitSame DEF StatusCmd, Sigterm, Idle
<1>4. CASE ExitCmd
  <2>1. pc = "idle" /\ pc' = "exit" /\ UNCHANGED <<orphans, crashes>>
    BY <1>4 DEF ExitCmd
  <2> QED BY <1>0, <2>1, ChildCounts DEF WaitInv, Accessing
<1>5. CASE SendRead \/ RecvBlock \/ SendWrite
  <2>1. UNCHANGED <<proc, orphans, crashes>> /\ pc \in Counted
    BY <1>5 DEF SendRead, RecvBlock, SendWrite, Ready, Counted
  <2>2. pc' \in Counted
    BY <1>5, <2>1 DEF SendRead, RecvBlock, SendWrite, Counted, Accessing
  <2> QED BY <2>1, <2>2, WaitSame
<1>6. CASE RecvEof \/ RestoreDone
  <2>1. UNCHANGED <<proc, orphans, crashes>> /\ pc \in Counted /\ pc' \in {"idle", "fatal"}
    BY <1>6 DEF RecvEof, RestoreDone, Ready, Counted, Fail
  <2> QED BY <2>1, WaitSame DEF Counted
<1>7. CASE SendFails
  <2>1. /\ Target \in Disks /\ pc \in Accessing /\ pc' = pc /\ crashes' = crashes
        /\ proc' = [proc EXCEPT ![Target] = "running"]
        /\ orphans' = orphans + Bit01(proc[Target] = "zombie")
    BY <1>0, <1>7, AccessType DEF SendFails, Ready, Bit01, TypeOK
  <2>2. Zombies' = Zombies - Bit01(proc[Target] = "zombie") + 0
    BY <1>0, <2>1, ChildStep DEF Bit01
  <2>3. Zombies' + orphans' = Zombies + orphans
    BY <1>0, <2>1, <2>2, ChildCounts DEF Bit01
  <2> QED BY <2>1, <2>3 DEF WaitInv, Accessing
<1>8. CASE SendExit
  <2>1. /\ UNCHANGED <<proc, orphans, crashes>> /\ pc = "exit"
        /\ pc' = "exit" \/ (pc' = "wait" /\ idx' = 0)
    BY <1>8 DEF SendExit
  <2>2. Children' = Children /\ orphans =< crashes
    BY <2>1 DEF Children, WaitInv
  <2> QED BY <1>0, <1>n, <2>1, <2>2, ChildCounts DEF WaitInv, Accessing
<1>9. CASE WaitChild
  <2>1. /\ pc = "wait" /\ crashes' = crashes
        /\ (Children = 0 /\ Children' = 0) \/ Children' = Children - 1
    <3>1. pc = "wait" /\ crashes' = crashes /\ (Reap \/ (NoChild /\ UNCHANGED <<proc, orphans>>))
      BY <1>9 DEF WaitChild
    <3>2. ASSUME NEW d \in Disks, proc[d] = "zombie", proc' = [proc EXCEPT ![d] = "reaped"],
                 orphans' = orphans
          PROVE  Children' = Children - 1
      <4>1. Cardinality(Unreaped') = Cardinality(Unreaped) - 1 + 0
        BY <1>0, <3>2, ChildStep DEF Bit01
      <4> QED BY <1>0, <3>2, <4>1, ChildCounts DEF Children, Unreaped
    <3>3. ASSUME orphans' = orphans - 1, proc' = proc PROVE Children' = Children - 1
      <4>1. Unreaped' = Unreaped
        BY <3>3 DEF Unreaped
      <4>2. Children' = Cardinality(Unreaped) + (orphans - 1)
        BY <3>3, <4>1 DEF Children, Unreaped
      <4> QED BY <1>0, <4>2, ChildCounts
    <3>4. ASSUME NoChild, UNCHANGED <<proc, orphans>> PROVE Children = 0 /\ Children' = 0
      <4>1. Unreaped = {} /\ orphans = 0
        BY <3>4 DEF NoChild, Unreaped
      <4>2. Children = 0
        BY <4>1, FS_EmptySet DEF Children, Unreaped
      <4> QED BY <3>4, <4>2 DEF Children
    <3> QED BY <3>1, <3>2, <3>3, <3>4 DEF Reap
  <2>2. \/ idx = NumDisks /\ pc' = "done" /\ idx' = idx
        \/ pc' = "wait" /\ idx' = idx + 1
    BY <1>9 DEF WaitChild, LastDisk
  <2>3. Children \in Nat /\ Children' \in Int
    BY <1>0, <2>1, ChildCounts
  <2>4. Children = 0 \/ Children + idx =< NumDisks + 1 + crashes
    BY <2>1 DEF WaitInv
  <2>5. \/ Children' = 0
        \/ Children' + idx + 1 =< NumDisks + 1 + crashes
    BY <1>0, <1>n, <2>1, <2>3, <2>4, ChildCounts
  <2> QED BY <1>0, <1>n, <2>1, <2>2, <2>3, <2>5, ChildCounts DEF WaitInv, Accessing
<1>10. ASSUME NEW d \in Disks, DiskStep(d) \/ Crash(d) PROVE WaitInv'
  <2>1. CASE DiskRead(d) \/ DiskWrite(d)
    BY <2>1, WaitSame DEF DiskRead, DiskWrite
  <2>2. CASE DiskExit(d) \/ DiskEof(d) \/ Crash(d)
    <3>1. /\ UNCHANGED <<pc, idx, orphans>> /\ proc[d] = "running"
          /\ proc' = [proc EXCEPT ![d] = "zombie"]
          /\ crashes' = crashes \/ crashes' = crashes + 1
      BY <2>2 DEF DiskExit, DiskEof, Checkpoint, Crash, Pending
    <3>2. pc \in Counted => crashes' = crashes + 1
      BY <2>2, NoEarlyCheckpoint DEF Crash
    <3>3. Cardinality(Unreaped') = Cardinality(Unreaped) - 1 + 1
      BY <1>0, <3>1, ChildStep DEF Bit01
    <3>4. Children' = Children
      BY <1>0, <3>1, <3>3, ChildCounts DEF Children, Unreaped
    <3>5. Zombies' = Zombies - 0 + 1
      BY <1>0, <3>1, ChildStep DEF Bit01
    <3>6. Children \in Nat
      BY <1>0, ChildCounts
    <3>7. pc \in Counted => Zombies' + orphans' =< crashes'
      BY <1>0, <3>1, <3>2, <3>5, ChildCounts DEF WaitInv, Counted
    <3> QED BY <1>0, <1>n, <3>1, <3>4, <3>6, <3>7, ChildCounts DEF WaitInv, Counted
  <2> QED BY <1>10, <2>1, <2>2 DEF DiskStep
<1>11. CASE UNCHANGED vars
  BY <1>11, WaitSame DEF vars
<1>12. CASE Command
  BY <1>1, <1>2, <1>3, <1>12 DEF Command, ReadCmd, WriteCmd
<1> QED BY <1>3, <1>4, <1>5, <1>6, <1>7, <1>8, <1>9, <1>10, <1>11, <1>12
        DEF Next, Controller, Terminated

LEMMA WaitInit == Init => WaitInv
<1> SUFFICES ASSUME Init PROVE WaitInv
  OBVIOUS
<1>1. {d \in Disks : proc[d] = "zombie"} = {}
  BY DEF Init
<1>2. Zombies = 0
  BY <1>1, FS_EmptySet DEF Zombies
<1> QED BY <1>2 DEF Init, WaitInv

(* checkpoint_and_wait leaves no more children unreaped than died on their *)
(* own: every other call of wait(NULL) took a disk it had told to exit.    *)
THEOREM WaitsCorrect == Spec => []WaitInv
BY WaitInit, WaitNext, InvariantCorrect, LossesCorrect, PTL DEF Spec

(* No more disks outlive the program after `exit' than died on their own:  *)
(* only a zombie that was left before can use up a call of wait().         *)
THEOREM ExitWaitsCorrect == Spec => []ExitWaitsForDisks
<1>1. ASSUME TypeOK, WaitInv PROVE ExitWaitsForDisks
  <2> SUFFICES ASSUME pc = "done"
               PROVE  Cardinality({d \in Disks : proc[d] = "running"}) =< crashes
    BY DEF ExitWaitsForDisks
  <2> DEFINE R == {d \in Disks : proc[d] = "running"}
  <2>1. IsFiniteSet(Unreaped) /\ R \subseteq Unreaped
    <3>1. IsFiniteSet(Disks)
      BY NumDisksAssumption, FS_Interval DEF Disks
    <3> QED BY <3>1, FS_Subset DEF Unreaped
  <2>2. Cardinality(R) =< Cardinality(Unreaped) /\ Cardinality(R) \in Nat
    BY <2>1, FS_Subset, FS_CardinalityType
  <2>3. Cardinality(Unreaped) + orphans =< crashes
    BY <1>1, ChildCounts DEF WaitInv
  <2> HIDE DEF R
  <2>4. Cardinality(R) =< crashes
    BY <1>1, <2>2, <2>3, ChildCounts
  <2> QED BY <2>4 DEF R
<1>2. IInv => TypeOK
  BY DEF IInv
<1> QED BY <1>1, <1>2, InvariantCorrect, WaitsCorrect, PTL

-----------------------------------------------------------------------------
(* The volume: every step of Raid is, under the mapping of RaidVolume, a   *)
(* step of Volume or no step at all.                                       *)

LEMMA VolOpCases ==
  /\ pc = "idle" => VolOp = RaidVolume!NoOp
  /\ pc \notin Accessing /\ pc # "idle" => VolOp = RaidVolume!Stopped
  /\ pc = "read" => VolOp = [cmd |-> "read", blk |-> req.blk, data |-> req.data, stage |-> "begun"]
  /\ pc \in {"oldData", "oldParity", "newParity"} =>
       VolOp = [cmd |-> "write", blk |-> req.blk, data |-> req.data, stage |-> "begun"]
  /\ pc = "newData" =>
       VolOp = [cmd |-> "write", blk |-> req.blk, data |-> req.data, stage |-> "committed"]
BY DEF VolOp, Accessing, RaidVolume!NoOp, RaidVolume!Stopped

(* The same, of the next state.                                            *)
LEMMA VolOpNext ==
  /\ pc' = "idle" => VolOp' = RaidVolume!NoOp
  /\ pc' \notin Accessing /\ pc' # "idle" => VolOp' = RaidVolume!Stopped
  /\ pc' = "read" =>
       VolOp' = [cmd |-> "read", blk |-> req'.blk, data |-> req'.data, stage |-> "begun"]
  /\ pc' = "oldData" =>
       VolOp' = [cmd |-> "write", blk |-> req'.blk, data |-> req'.data, stage |-> "begun"]
  /\ pc' = "newData" =>
       VolOp' = [cmd |-> "write", blk |-> req'.blk, data |-> req'.data, stage |-> "committed"]
BY DEF VolOp, Accessing, RaidVolume!NoOp, RaidVolume!Stopped

LEMMA VolInit == Init => RaidVolume!VInit
<1> SUFFICES ASSUME Init PROVE RaidVolume!VInit
  OBVIOUS
<1>1. VolOp = RaidVolume!NoOp
  BY VolOpCases DEF Init
<1>2. out.cmd = "none" /\ out.blk = 0 /\ out.data = Zero
  BY DEF Init, NoOut
<1>3. VolRes = RaidVolume!NoRes
  BY <1>2 DEF VolRes, RaidVolume!NoRes
<1> QED BY <1>1, <1>3 DEF Init, RaidVolume!VInit

(* A step that changes neither the volume nor where the command is.        *)
LEMMA VolStutter ==
  ASSUME UNCHANGED <<vol, out, req>>,
         \/ pc' = pc
         \/ {pc, pc'} \subseteq {"oldData", "oldParity", "newParity"}
         \/ {pc, pc'} \cap (Accessing \cup {"idle"}) = {}
  PROVE  UNCHANGED RaidVolume!vvars
BY DEF VolOp, VolRes, Accessing, RaidVolume!vvars

(* A command that fails, or takes the program with it.  Only a failing     *)
(* disk 0 makes write_block return 0, and disk 0 holds data.               *)
LEMMA VolFail ==
  ASSUME TypeOK, pc \in Accessing, NEW callers, Fail(callers), vol' = vol
  PROVE  RaidVolume!FailOp \/ RaidVolume!FailUnnoticed \/ RaidVolume!Stop
<1>1. CASE callers = <<>>
  <2> DEFINE code == FailureCode(DiskOf(req.blk, CommandAccess.parity))
  <2>1. /\ pc' = "idle" /\ out'.cmd = VolOp.cmd /\ out'.blk = VolOp.blk
        /\ out'.data = Zero /\ VolOp.cmd \in {"read", "write"}
        /\ out'.code = IF pc = "read" THEN -1 ELSE code
    BY <1>1 DEF Fail, VolOp
  <2>2. VolOp.cmd = (IF pc = "read" THEN "read" ELSE "write") /\ VolOp.blk = req.blk
    BY DEF VolOp
  <2>3. code = 0 => req.blk \in Misreported
    <3>1. req.blk \in Blocks
      BY DEF TypeOK
    <3>2. DiskOf(req.blk, TRUE) # 0
      BY NumDisksAssumption DEF DiskOf, ParityDisk
    <3>3. code = 0 => DiskOf(req.blk, FALSE) = 0
      BY <3>2 DEF FailureCode, CommandAccess, DiskOf
    <3> QED BY <3>1, <3>3 DEF Misreported
  <2> HIDE DEF code
  <2>4. CASE pc # "read" /\ code = 0
    <3>1. VolRes' = RaidVolume!Result("write", VolOp.blk, TRUE, Zero)
      BY <2>1, <2>2, <2>4 DEF VolRes, RaidVolume!Result
    <3> QED BY <2>1, <2>2, <2>3, <2>4, <3>1, VolOpNext DEF RaidVolume!FailUnnoticed
  <2>5. CASE pc = "read" \/ code # 0
    <3>1. out'.code # 0
      BY <2>1, <2>5
    <3>2. VolRes' = RaidVolume!Result(VolOp.cmd, VolOp.blk, FALSE, Zero)
      BY <2>1, <3>1 DEF VolRes, RaidVolume!Result
    <3> QED BY <2>1, <3>2, VolOpNext DEF RaidVolume!FailOp
  <2> QED BY <2>4, <2>5
<1>2. CASE callers # <<>>
  BY <1>2, VolOpNext DEF Fail, RaidVolume!Stop, VolRes, Accessing
<1> QED BY <1>1, <1>2

LEMMA VolBegin ==
  ASSUME NEW cmd \in {"read", "write"}, NEW b \in BlockArgs, NEW v \in Block,
         NEW first, Begin(cmd, b, v, first),
         cmd = "read" => first = "read" /\ v = Zero,
         cmd = "write" => first = "oldData"
  PROVE  RaidVolume!VNext
<1>1. pc = "idle" /\ vol' = vol /\ VolOp = RaidVolume!NoOp
  BY VolOpCases DEF Begin, Idle
<1>2. InRange(b) <=> b \in Blocks
  BY NumDisksAssumption, BlocksPerDiskAssumption DEF InRange, Blocks, BlockArgs
<1>3. CASE InRange(b)
  <2>0. out' = [cmd |-> "none", blk |-> 0, ok |-> FALSE, code |-> 0, data |-> Zero]
    BY <1>3 DEF Begin, NoOut
  <2>1. /\ pc' = first /\ req' = [blk |-> b, data |-> v]
        /\ VolRes' = RaidVolume!NoRes
    <3>1. out'.cmd = "none" /\ out'.blk = 0 /\ out'.data = Zero
      BY <2>0
    <3> QED BY <1>3, <3>1 DEF Begin, VolRes, RaidVolume!NoRes
  <2>2. CASE cmd = "read"
    <3>1. RaidVolume!BeginRead(b)
      BY <1>1, <2>1, <2>2, VolOpNext DEF RaidVolume!BeginRead
    <3> QED BY <1>2, <1>3, <3>1 DEF RaidVolume!VNext
  <2>3. CASE cmd = "write"
    <3>1. RaidVolume!BeginWrite(b, v)
      BY <1>1, <2>1, <2>3, VolOpNext DEF RaidVolume!BeginWrite
    <3> QED BY <1>2, <1>3, <3>1 DEF RaidVolume!VNext
  <2> QED BY <2>2, <2>3
<1>4. CASE ~InRange(b)
  <2>1. VolRes' = RaidVolume!Result(cmd, b, FALSE, Zero)
    <3>1. out' = [cmd |-> cmd, blk |-> b, ok |-> FALSE, code |-> -1, data |-> Zero]
      BY <1>4 DEF Begin
    <3>2. out'.cmd = cmd /\ out'.blk = b /\ out'.code # 0 /\ out'.data = Zero
      BY <3>1
    <3> QED BY <3>2 DEF VolRes, RaidVolume!Result
  <2>2. VolOp' = VolOp
    BY <1>1, <1>4, VolOpNext DEF Begin
  <2>3. RaidVolume!Reject(cmd, b)
    BY <1>1, <1>2, <1>4, <2>1, <2>2 DEF RaidVolume!Reject
  <2> QED BY <2>3 DEF RaidVolume!VNext
<1> QED BY <1>3, <1>4

(* A block arrives: for the user, it ends a read or it is not seen.        *)
LEMMA VolRecv ==
  ASSUME RecvBlock, ReadsSeeVolume'
  PROVE  RaidVolume!VNext \/ UNCHANGED RaidVolume!vvars
<1>1. UNCHANGED <<vol, req>> /\ pc \in Accessing
  BY DEF RecvBlock, auxVars, Ready
<1>2. CASE rst = <<>> /\ pc = "read"
  <2>1. /\ pc' = "idle" /\ out'.cmd = "read" /\ out'.blk = req.blk
        /\ out'.ok = TRUE /\ out'.code = 0
    BY <1>2 DEF RecvBlock
  <2>2. out'.data = vol[req.blk]
    BY <1>1, <2>1 DEF ReadsSeeVolume
  <2>3. VolRes' = RaidVolume!Result("read", VolOp.blk, TRUE, vol[VolOp.blk]) /\ VolOp.cmd = "read"
    <3>1. VolOp.blk = req.blk /\ VolOp.cmd = "read"
      BY <1>2, VolOpCases
    <3> QED BY <2>1, <2>2, <3>1 DEF VolRes, RaidVolume!Result
  <2>4. RaidVolume!Succeed
    BY <1>1, <2>1, <2>3, VolOpNext DEF RaidVolume!Succeed
  <2> QED BY <2>4 DEF RaidVolume!VNext
<1>3. CASE ~(rst = <<>> /\ pc = "read")
  <2>1. out' = out /\ (pc' = pc \/ {pc, pc'} \subseteq {"oldData", "oldParity", "newParity"})
    BY <1>3 DEF RecvBlock
  <2> QED BY <1>1, <2>1, VolStutter
<1> QED BY <1>2, <1>3

(* A block is sent: the new parity commits the write, the new data ends it.*)
LEMMA VolSend ==
  ASSUME SendWrite
  PROVE  RaidVolume!VNext \/ UNCHANGED RaidVolume!vvars
<1>1. req' = req /\ pc \in Accessing
  BY DEF SendWrite, Ready
<1>2. CASE rst # <<>>
  BY <1>1, <1>2, VolStutter DEF SendWrite
<1>3. CASE rst = <<>> /\ pc = "newParity"
  <2>1. pc' = "newData" /\ vol' = [vol EXCEPT ![req.blk] = req.data] /\ out' = out
    BY <1>3 DEF SendWrite
  <2>2. VolOp = [cmd |-> "write", blk |-> req.blk, data |-> req.data, stage |-> "begun"]
    BY <1>3, VolOpCases
  <2>3. VolOp' = [cmd |-> "write", blk |-> req.blk, data |-> req.data, stage |-> "committed"]
    BY <1>1, <2>1, VolOpNext
  <2>4. RaidVolume!Commit
    <3>1. /\ VolOp.cmd = "write" /\ VolOp.stage = "begun"
          /\ VolOp.blk = req.blk /\ VolOp.data = req.data
      BY <2>2
    <3>2. \A o, b, v, c, e : o = [cmd |-> "write", blk |-> b, data |-> v, stage |-> c] =>
            [o EXCEPT !.stage = e]
              = [cmd |-> "write", blk |-> b, data |-> v, stage |-> e]
      OBVIOUS
    <3>3. VolOp' = [VolOp EXCEPT !.stage = "committed"]
      BY <2>2, <2>3, <3>2
    <3>4. VolRes' = VolRes
      BY <2>1 DEF VolRes
    <3> QED BY <2>1, <3>1, <3>3, <3>4 DEF RaidVolume!Commit
  <2> QED BY <2>4 DEF RaidVolume!VNext
<1>4. CASE rst = <<>> /\ pc = "newData"
  <2>1. /\ pc' = "idle" /\ vol' = vol
        /\ out'.cmd = "write" /\ out'.blk = req.blk /\ out'.code = 0 /\ out'.data = Zero
    BY <1>4 DEF SendWrite
  <2>2. VolOp = [cmd |-> "write", blk |-> req.blk, data |-> req.data, stage |-> "committed"]
    BY <1>4, VolOpCases
  <2>3. VolRes' = RaidVolume!Result("write", VolOp.blk, TRUE, Zero)
    BY <2>1, <2>2 DEF VolRes, RaidVolume!Result
  <2>4. RaidVolume!Succeed
    BY <2>1, <2>2, <2>3, VolOpNext DEF RaidVolume!Succeed
  <2> QED BY <2>4 DEF RaidVolume!VNext
<1> QED BY <1>2, <1>3, <1>4 DEF SendWrite

LEMMA VolStep == TypeOK /\ ReadsSeeVolume' /\ [Next]_vars => [RaidVolume!VNext]_(RaidVolume!vvars)
<1> SUFFICES ASSUME TypeOK, ReadsSeeVolume', [Next]_vars
             PROVE  RaidVolume!VNext \/ UNCHANGED RaidVolume!vvars
  OBVIOUS
<1> USE DEF ctlVars, diskVars, auxVars
<1>1. CASE Command
  <2>1. ASSUME NEW b \in BlockArgs, ReadCmd(b) PROVE RaidVolume!VNext
    BY <2>1, VolBegin DEF ReadCmd, Zero, Block
  <2>2. ASSUME NEW b \in BlockArgs, NEW v \in Block, WriteCmd(b, v) PROVE RaidVolume!VNext
    BY <2>2, VolBegin DEF WriteCmd
  <2>3. ASSUME (\E d \in Disks : KillCmd(d)) \/ StatusCmd PROVE UNCHANGED RaidVolume!vvars
    BY <2>3, VolStutter DEF KillCmd, StatusCmd
  <2> QED BY <1>1, <2>1, <2>2, <2>3 DEF Command
<1>2. CASE ExitCmd \/ Sigterm
  <2>1. VolOp' = RaidVolume!Stopped /\ UNCHANGED <<vol, out>>
    BY <1>2, VolOpNext DEF ExitCmd, Sigterm, Accessing
  <2>2. RaidVolume!Stop
    BY <2>1 DEF RaidVolume!Stop, VolRes
  <2> QED BY <2>2 DEF RaidVolume!VNext
<1>3. CASE RecvEof \/ RestoreDone
  <2>1. pc \in Accessing /\ vol' = vol /\ \E callers : Fail(callers)
    BY <1>3 DEF RecvEof, RestoreDone, Ready
  <2> QED BY <2>1, VolFail DEF RaidVolume!VNext
<1>4. CASE SendRead \/ SendFails
  BY <1>4, VolStutter DEF SendRead, SendFails
<1>5. CASE SendExit \/ WaitChild
  BY <1>5, VolStutter DEF SendExit, WaitChild, Accessing
<1>6. ASSUME NEW d \in Disks, DiskStep(d) \/ Crash(d) PROVE UNCHANGED RaidVolume!vvars
  BY <1>6, VolStutter DEF DiskStep, DiskRead, DiskWrite, DiskExit, DiskEof, Checkpoint, Crash
<1>7. CASE UNCHANGED vars
  BY <1>7, VolStutter DEF vars
<1> QED BY <1>1, <1>2, <1>3, <1>4, <1>5, <1>6, <1>7, VolRecv, VolSend
        DEF Next, Controller, Terminated

(* For any number of disks, blocks, commands and deaths, the simulator is, *)
(* by what its shell says, a volume of blocks whose failed writes have     *)
(* happened or not, once for all, whose reads agree with them, and which   *)
(* calls a failed write done only for the blocks of disk 0.                *)
THEOREM VolumeImplemented == Spec => ImplementsVolume
<1>1. (IInv => TypeOK) /\ (IInv' => ReadsSeeVolume')
  BY DEF IInv
<1> QED BY <1>1, VolInit, VolStep, InvariantCorrect, PTL
        DEF Spec, ImplementsVolume, RaidVolume!VSpec

-----------------------------------------------------------------------------
(* The shell as the window sees it: every step of Raid is, under the       *)
(* mapping of ShellView, one of RaidShell.                                 *)

(* The shell as the window sees it, by where the controller is.            *)
LEMMA ShellRunCases ==
  /\ pc \in Accessing => ShellRun = "access"
  /\ pc \in Gone => ShellRun = "ended"
  /\ pc = "idle" => ShellRun = "prompt"
  /\ pc \in {"exit", "wait"} => ShellRun = "exit"
BY DEF ShellRun, Accessing, Gone

LEMMA ShellRunNext ==
  /\ pc' \in Accessing => ShellRun' = "access"
  /\ pc' \in Gone => ShellRun' = "ended"
  /\ pc' = "idle" => ShellRun' = "prompt"
  /\ pc' \in {"exit", "wait"} => ShellRun' = "exit"
BY DEF ShellRun, Accessing, Gone

LEMMA ShellInitial == Init => ShellView!ShellInit
BY ShellRunCases
   DEF Init, ShellView!ShellInit, ShellAlive, ShellHeld, IsDiskAlive, Gone

(* A step that moves the controller within a stage, and keeps the disks    *)
(* that `status' would call alive as they are.                             *)
LEMMA ShellStutter ==
  ASSUME ShellRun' = ShellRun, pc \notin Gone, pc' \notin Gone,
         pc \in {"idle"} \cup Accessing <=> pc' \in {"idle"} \cup Accessing,
         pc \in {"idle"} \cup Accessing => \A d \in Disks : (IsDiskAlive(d))' = IsDiskAlive(d)
  PROVE  UNCHANGED ShellView!shellVars
BY DEF ShellView!shellVars, ShellAlive, ShellHeld

(* The controller ends.                                                    *)
LEMMA ShellEnd ==
  ASSUME pc' \in Gone
  PROVE  ShellRun' = "ended" /\ ShellAlive' = {} /\ ShellHeld' \in BOOLEAN
BY ShellRunNext DEF ShellAlive, ShellHeld, Accessing, Gone

(* A failed access ends the command, or within a restore the program.      *)
LEMMA ShellFail ==
  ASSUME pc \in Accessing, NEW callers, Fail(callers), proc' = proc
  PROVE  ShellView!FinishAccess \/ ShellView!GiveUp
<1>1. ShellRun = "access"
  BY ShellRunCases
<1>2. CASE callers = <<>>
  <2>1. pc' = "idle"
    BY <1>2 DEF Fail
  <2>2. ShellAlive' = ShellAlive /\ ShellHeld' = ShellHeld
    BY <2>1 DEF ShellAlive, ShellHeld, IsDiskAlive, Gone, Accessing
  <2> QED BY <1>1, <2>1, <2>2, ShellRunNext DEF ShellView!FinishAccess
<1>3. CASE callers # <<>>
  <2>1. pc' \in Gone
    BY <1>3 DEF Fail, Gone
  <2> QED BY <1>1, <2>1, ShellEnd DEF ShellView!GiveUp, ShellView!End
<1> QED BY <1>2, <1>3

LEMMA ShellKill ==
  ASSUME TypeOK, NEW d \in Disks, KillCmd(d)
  PROVE  ShellView!KillDisk(d)
<1>1. pc = "idle" /\ pc' = "idle" /\ proc' = [proc EXCEPT ![d] = "reaped"]
  BY DEF KillCmd, Idle, ctlVars
<1>2. ShellAlive' = ShellAlive \ {d}
  BY <1>1 DEF ShellAlive, IsDiskAlive, TypeOK
<1>3. ShellHeld' = ShellHeld
  BY <1>1 DEF ShellHeld, Gone
<1> QED BY <1>1, <1>2, <1>3, ShellRunCases, ShellRunNext DEF ShellView!KillDisk

(* The disk that is restarted is alive again, or still, if it had become a *)
(* zombie.                                                                 *)
LEMMA ShellRestart ==
  ASSUME TypeOK, SendFails
  PROVE  \E d \in Disks : ShellView!RestartDisk(d)
<1>1. Target \in Disks /\ pc \in Accessing /\ pc' = pc
  BY AccessType DEF SendFails, Ready
<1>2. proc' = [proc EXCEPT ![Target] = "running"]
  BY DEF SendFails
<1>3. ShellAlive' = ShellAlive \cup {Target}
  BY <1>1, <1>2 DEF ShellAlive, IsDiskAlive, TypeOK
<1>4. ShellHeld' = ShellHeld
  BY <1>1 DEF ShellHeld, Accessing, Gone
<1>5. ShellView!RestartDisk(Target)
  BY <1>1, <1>3, <1>4, ShellRunCases, ShellRunNext DEF ShellView!RestartDisk
<1> QED BY <1>1, <1>5

(* A step of a disk, or its death: alive or a zombie, it is the same to    *)
(* `status'; when the controller is gone, the last disk closes the pipes.  *)
LEMMA ShellDisk ==
  ASSUME TypeOK, pc' = pc, NEW d \in Disks, proc[d] = "running",
         proc' = proc \/ proc' = [proc EXCEPT ![d] = "zombie"]
  PROVE  ShellView!DisksStop \/ UNCHANGED ShellView!shellVars
<1>1. \A k \in Disks : (IsDiskAlive(k))' = IsDiskAlive(k)
  BY DEF IsDiskAlive, TypeOK
<1>2. UNCHANGED <<ShellRun, ShellAlive>>
  BY <1>1 DEF ShellRun, ShellAlive
<1>3. CASE ShellHeld' = ShellHeld
  BY <1>2, <1>3 DEF ShellView!shellVars
<1>4. CASE ShellHeld' # ShellHeld
  <2>1. pc \in Gone /\ ShellHeld = TRUE /\ ShellHeld' = FALSE
    BY <1>4 DEF ShellHeld
  <2> QED BY <1>2, <2>1, ShellRunCases DEF ShellView!DisksStop
<1> QED BY <1>3, <1>4

LEMMA ShellStep == TypeOK /\ [Next]_vars => [ShellView!ShellNext]_(ShellView!shellVars)
<1> SUFFICES ASSUME TypeOK, [Next]_vars
             PROVE  ShellView!ShellNext \/ UNCHANGED ShellView!shellVars
  OBVIOUS
<1> USE DEF ctlVars, diskVars, auxVars
<1>1. ASSUME NEW cmd, NEW b, NEW v, NEW first \in {"read", "oldData"}, Begin(cmd, b, v, first)
      PROVE  ShellView!StartAccess \/ UNCHANGED ShellView!shellVars
  <2>1. pc = "idle" /\ proc' = proc /\ (pc' = first \/ pc' = pc)
    BY <1>1 DEF Begin, Idle
  <2>2. UNCHANGED <<ShellAlive, ShellHeld>>
    BY <2>1 DEF ShellAlive, ShellHeld, IsDiskAlive, Gone, Accessing
  <2>3. CASE pc' = first
    <3>1. pc' \in Accessing
      BY <2>3 DEF Accessing
    <3> QED BY <2>1, <2>2, <3>1, ShellRunCases, ShellRunNext DEF ShellView!StartAccess
  <2>4. CASE pc' = pc
    BY <2>1, <2>4, ShellStutter DEF ShellRun, IsDiskAlive, Gone
  <2> QED BY <2>1, <2>3, <2>4
<1>2. CASE Command
  <2>1. CASE StatusCmd
    BY <2>1, ShellStutter DEF StatusCmd, Idle, ShellRun, IsDiskAlive, Gone
  <2> QED BY <1>1, <1>2, <2>1, ShellKill
          DEF Command, ReadCmd, WriteCmd, ShellView!ShellNext
<1>3. CASE ExitCmd
  <2>1. pc = "idle" /\ pc' = "exit"
    BY <1>3 DEF ExitCmd
  <2>2. ShellAlive' = {} /\ ShellHeld' = ShellHeld
    BY <2>1 DEF ShellAlive, ShellHeld, Gone, Accessing
  <2>3. ShellView!StartExit
    BY <2>1, <2>2, ShellRunCases, ShellRunNext DEF ShellView!StartExit
  <2> QED BY <2>3 DEF ShellView!ShellNext
<1>4. CASE RecvEof \/ RestoreDone
  <2>1. pc \in Accessing /\ proc' = proc /\ \E callers : Fail(callers)
    BY <1>4 DEF RecvEof, RestoreDone, Ready
  <2> QED BY <2>1, ShellFail DEF ShellView!ShellNext
<1>5. CASE SendFails
  BY <1>5, ShellRestart DEF ShellView!ShellNext
<1>6. CASE SendRead \/ RecvBlock \/ SendWrite
  <2>1. /\ pc \in Accessing /\ pc' \in {"idle"} \cup Accessing /\ proc' = proc
    BY <1>6 DEF SendRead, RecvBlock, SendWrite, Ready, Accessing
  <2>2. UNCHANGED <<ShellAlive, ShellHeld>>
    BY <2>1 DEF ShellAlive, ShellHeld, IsDiskAlive, Gone, Accessing
  <2>3. CASE pc' = "idle"
    <3>1. ShellView!FinishAccess
      BY <2>1, <2>2, <2>3, ShellRunCases, ShellRunNext DEF ShellView!FinishAccess
    <3> QED BY <3>1 DEF ShellView!ShellNext
  <2>4. CASE pc' \in Accessing
    BY <2>1, <2>2, <2>4, ShellRunCases, ShellRunNext DEF ShellView!shellVars
  <2> QED BY <2>1, <2>3, <2>4
<1>7. CASE SendExit \/ WaitChild
  <2>1. /\ pc \in {"exit", "wait"}
        /\ pc' \in {"exit", "wait", "done"}
    BY <1>7 DEF SendExit, WaitChild
  <2>2. CASE pc' = "done"
    <3>1. ShellView!ExitReturns
      BY <2>1, <2>2, ShellRunCases, ShellEnd DEF ShellView!ExitReturns, ShellView!End, Gone
    <3> QED BY <3>1 DEF ShellView!ShellNext
  <2>3. CASE pc' # "done"
    BY <2>1, <2>3, ShellRunCases, ShellRunNext, ShellStutter DEF Gone, Accessing
  <2> QED BY <2>2, <2>3
<1>8. CASE Sigterm
  <2>1. pc \notin Gone /\ pc' \in Gone /\ pc \in {"idle", "exit", "wait"} \cup Accessing
    BY <1>8 DEF Sigterm, Gone, TypeOK
  <2>2. ShellView!SigTerm
    BY <2>1, ShellRunCases, ShellEnd DEF ShellView!SigTerm, ShellView!End
  <2> QED BY <2>2 DEF ShellView!ShellNext
<1>9. ASSUME NEW d \in Disks, DiskStep(d) \/ Crash(d)
      PROVE  ShellView!DisksStop \/ UNCHANGED ShellView!shellVars
  <2>1. /\ pc' = pc /\ proc[d] = "running"
        /\ proc' = proc \/ proc' = [proc EXCEPT ![d] = "zombie"]
    BY <1>9 DEF DiskStep, DiskRead, DiskWrite, DiskExit, DiskEof, Checkpoint, Crash, Pending
  <2> QED BY <2>1, ShellDisk
<1>10. CASE UNCHANGED vars
  <2>1. pc' = pc /\ proc' = proc
    BY <1>10 DEF vars
  <2> QED BY <2>1 DEF ShellView!shellVars, ShellRun, ShellAlive, ShellHeld, IsDiskAlive
<1> QED BY <1>2, <1>3, <1>4, <1>5, <1>6, <1>7, <1>8, <1>9, <1>10
        DEF Next, Controller, Terminated, ShellView!ShellNext

(* RAID-GUI.py may take the simulator for the shell it was checked with,   *)
(* for any number of disks, blocks, commands and deaths.                   *)
THEOREM ShellImplemented == Spec => ImplementsShell
BY ShellInitial, ShellStep, TypeCorrect, PTL
   DEF Spec, ImplementsShell, ShellView!ShellSpec
=============================================================================
