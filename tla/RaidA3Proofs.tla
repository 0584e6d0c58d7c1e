---------------------------- MODULE RaidA3Proofs ----------------------------
(***************************************************************************)
(* The earlier simulator, for any number of disks, blocks, commands and    *)
(* deaths: one loss fails no read, the first stripe reads right, and the   *)
(* parity disk holds the sum of what changed since it was started.         *)
(***************************************************************************)
EXTENDS RaidA3, ParityProofs, SequenceTheorems

Ended == {"done", "fatal"}

TypeOK ==
  /\ pc \in {"idle"} \cup Reading \cup Writing \cup Ended
  /\ req.blk \in Nat /\ req.data \in Block
  /\ pc \in Reading \cup Writing => req.blk \in Blocks
  /\ reg \in [data : Block, parity : Block]
  /\ left \in SUBSET Disks /\ acc \in Block
  /\ pc = "recover" => left # {} /\ req.blk % NumDisks \notin left
  /\ rst \in [disk : Disks, stripe : 0 .. BlocksPerDisk]
  /\ Restoring => pc \in Reading \cup Writing /\ rst.disk = Target
  /\ proc \in [Disks -> {"running", "zombie", "reaped"}]
  /\ mem \in [Disks -> [Stripes -> Block]]
  /\ vol \in [Blocks -> Block] /\ base \in [Blocks -> Block]
  /\ deaths \in Seq(Disks)
  /\ spread \in BOOLEAN /\ stale \in BOOLEAN

(* After one death every other disk runs.  The one that died runs too once *)
(* it is being restored, and a read that recovers its block leaves it out. *)
ServedInv ==
  pc \notin Ended /\ Len(deaths) < 2 =>
    /\ \A d \in Disks : proc[d] = "running" \/ deaths = <<d>>
    /\ Restoring => deaths = <<rst.disk>> /\ proc[rst.disk] = "running" /\ pc # "recover"
    /\ pc = "recover" => \E d \in Disks \ left : deaths = <<d>>

(* The first stripe, its parity block included, as it should be.           *)
FirstRow == [d \in Disks |-> IF d = ParityDisk THEN XorOver(DataDisks, vol) ELSE vol[d]]

(* The block between the two writes of write_block, and the one a restore  *)
(* has not reached.                                                        *)
Pending(d) ==
  IF Restoring THEN rst.disk = d /\ rst.stripe = 0 ELSE pc = "newData" /\ d = req.blk

FirstStripe == StripeOf(req.blk) = 0

StripeData == \A d \in Disks : proc[d] = "running" => Pending(d) \/ mem[d][0] = FirstRow[d]

(* What write_block and the recovery of read_block hold of it.             *)
StripeRegs ==
  /\ pc = "newData" => FirstStripe /\ vol[req.blk] = req.data
  /\ pc \in {"oldParity", "newParity"} /\ FirstStripe => reg.data = vol[req.blk]
  /\ pc = "newParity" /\ FirstStripe => reg.parity = FirstRow[ParityDisk]
  /\ pc = "recover" /\ FirstStripe => acc = XorOver((Disks \ {req.blk}) \ left, FirstRow)

Calm == ~spread /\ ~stale /\ pc \notin Ended /\ 0 \in Stripes

StripeInv ==
  /\ pc \in Reading \cup Writing => out = NoOut
  /\ ReadsRight
  /\ Calm => StripeData /\ StripeRegs

(* The blocks whose parity is at p, and what they changed by.              *)
Sharing(p) == {b \in Blocks : ParitySlot(b) = p}
Change     == [b \in Blocks |-> Xor(vol[b], base[b])]

OnlyParityDied == \A i \in DOMAIN deaths : deaths[i] = ParityDisk

Tracked ==
  /\ ~Restoring /\ pc # "recover"
  /\ \A d \in DataDisks : proc[d] = "running"
  /\ \A b \in Blocks : (pc = "newData" /\ b = req.blk) \/ mem[b % NumDisks][StripeOf(b)] = vol[b]
  /\ \A p \in Stripes : mem[ParityDisk][p] = XorOver(Sharing(p), Change)
  /\ pc = "newData" => vol[req.blk] = req.data
  /\ pc \in {"oldParity", "newParity"} => reg.data = vol[req.blk]
  /\ pc = "newParity" => reg.parity = mem[ParityDisk][ParitySlot(req.blk)]

TrackInv == pc \notin Ended /\ OnlyParityDied => Tracked

-----------------------------------------------------------------------------
(* Places.                                                                 *)

LEMMA DiskFacts ==
  /\ DataDisks \subseteq Disks /\ ParityDisk \in Disks /\ ParityDisk \notin DataDisks
  /\ Disks = DataDisks \cup {ParityDisk}
  /\ IsFiniteSet(Disks) /\ IsFiniteSet(DataDisks)
BY NumDisksAssumption, FS_Interval DEF Disks, DataDisks, ParityDisk

(* The disk and the stripe of a block number exist and determine it.       *)
LEMMA BlockPlace ==
  ASSUME NEW b \in Blocks
  PROVE  /\ b \in Nat /\ b % NumDisks \in DataDisks /\ StripeOf(b) \in Stripes
         /\ b = StripeOf(b) * NumDisks + (b % NumDisks)
<1>1. b \in 0 .. NumDisks * BlocksPerDisk - 1
  BY DEF Blocks
<1>2. b \in Nat
  BY <1>1
<1>3. /\ b \div NumDisks \in 0 .. BlocksPerDisk - 1 /\ b % NumDisks \in 0 .. NumDisks - 1
      /\ b = (b \div NumDisks) * NumDisks + (b % NumDisks)
  BY <1>1, DivSplit, NumDisksAssumption, BlocksPerDiskAssumption
<1> QED BY <1>2, <1>3 DEF StripeOf, DataDisks, Stripes

(* Dividing the stripe once more stays on the parity disk.                 *)
LEMMA ParityPlace ==
  ASSUME NEW b \in Blocks
  PROVE  ParitySlot(b) \in Stripes /\ (StripeOf(b) = 0 => ParitySlot(b) = 0)
<1> DEFINE s == StripeOf(b)
           q == s \div NumDisks
<1>1. s \in Stripes /\ s \in Nat /\ s < BlocksPerDisk
  BY BlockPlace, BlocksPerDiskAssumption DEF Stripes
<1> HIDE DEF s
<1>2. q \in Int /\ s % NumDisks \in 0 .. NumDisks - 1 /\ s = NumDisks * q + (s % NumDisks)
  BY <1>1, NumDisksAssumption
<1> HIDE DEF q
<1>3. q >= 0
  <2>1. CASE q < 0
    <3>1. NumDisks * q =< -NumDisks
      BY <1>2, <2>1, NumDisksAssumption
    <3> QED BY <1>1, <1>2, <3>1, NumDisksAssumption
  <2> QED BY <1>2, <2>1
<1>4. q =< NumDisks * q
  BY <1>2, <1>3, NumDisksAssumption
<1>5. q =< s
  BY <1>1, <1>2, <1>4, NumDisksAssumption
<1>6. q \in Stripes /\ (s = 0 => q = 0)
  BY <1>1, <1>2, <1>3, <1>5, BlocksPerDiskAssumption DEF Stripes
<1> QED BY <1>6 DEF ParitySlot, s, q

(* The first stripe holds the first NumDisks blocks, in order.             *)
LEMMA FirstBlocks ==
  /\ \A b \in Blocks : StripeOf(b) = 0 => b % NumDisks = b /\ b \in DataDisks
  /\ 0 \in Stripes => DataDisks \subseteq Blocks
<1>1. ASSUME NEW b \in Blocks, StripeOf(b) = 0
      PROVE  b % NumDisks = b /\ b \in DataDisks
  <2>1. b = 0 * NumDisks + (b % NumDisks) /\ b % NumDisks \in DataDisks
    BY <1>1, BlockPlace
  <2> QED BY <2>1, NumDisksAssumption DEF DataDisks
<1>2. ASSUME 0 \in Stripes PROVE DataDisks \subseteq Blocks
  <2>1. BlocksPerDisk >= 1
    BY <1>2, BlocksPerDiskAssumption DEF Stripes
  <2>2. NumDisks * BlocksPerDisk >= NumDisks
    BY <2>1, NumDisksAssumption, BlocksPerDiskAssumption
  <2> QED BY <2>2, NumDisksAssumption, BlocksPerDiskAssumption DEF DataDisks, Blocks
<1> QED BY <1>1, <1>2

LEMMA LeastIn == ASSUME NEW S \in SUBSET Disks, S # {} PROVE Least(S) \in S
<1>1. \E m \in S : \A j \in S : m =< j
  BY MinExists, NumDisksAssumption DEF Disks
<1> QED BY <1>1 DEF Least

(* Where the access under way goes.                                        *)
LEMMA TargetPlace ==
  ASSUME TypeOK, pc \in Reading \cup Writing
  PROVE  /\ pc \in {"read", "oldData", "newData"} =>
              Target = req.blk % NumDisks /\ Target \in DataDisks /\ Slot = StripeOf(req.blk)
         /\ pc \in {"oldParity", "newParity"} => Target = ParityDisk /\ Slot = ParitySlot(req.blk)
         /\ pc = "recover" => Target \in left
         /\ Target \in Disks /\ Slot \in Stripes /\ (FirstStripe => Slot = 0)
<1>1. req.blk \in Blocks /\ left \subseteq Disks /\ (pc = "recover" => left # {})
  BY DEF TypeOK
<1>2. /\ req.blk % NumDisks \in DataDisks /\ StripeOf(req.blk) \in Stripes
      /\ ParitySlot(req.blk) \in Stripes /\ (FirstStripe => ParitySlot(req.blk) = 0)
  BY <1>1, BlockPlace, ParityPlace DEF FirstStripe
<1>3. pc = "recover" => Least(left) \in left
  BY <1>1, LeastIn
<1>4. Slot \in Stripes /\ (FirstStripe => Slot = 0)
  BY <1>2 DEF Slot, FirstStripe
<1>5. pc = "recover" => Target \in left
  BY <1>3 DEF Target
<1>6. pc \in {"read", "oldData", "newData"} =>
              Target = req.blk % NumDisks /\ Target \in DataDisks /\ Slot = StripeOf(req.blk)
  BY <1>2, DiskFacts DEF Target, Slot
<1>7. pc \in {"oldParity", "newParity"} => Target = ParityDisk /\ Slot = ParitySlot(req.blk)
  BY DEF Target, Slot
<1>8. Target \in Disks
  BY <1>1, <1>5, <1>6, <1>7, DiskFacts DEF Reading, Writing
<1> QED BY <1>4, <1>5, <1>6, <1>7, <1>8

(* The target depends on the controller's variables.                       *)
LEMMA SameTarget == UNCHANGED <<pc, left, req>> => Target' = Target /\ Slot' = Slot
BY DEF Target, Slot, ParitySlot, StripeOf

(* What an access that fails leaves.                                       *)
LEMMA FailEffect ==
  ASSUME NEW d, Fail(d), pc \in Reading \cup Writing
  PROVE  /\ pc' \in {"idle", "recover"}
         /\ pc' = "recover" => /\ pc = "read" /\ NumDisks > 1 /\ out' = out
                               /\ left' = Disks \ {d} /\ acc' = Zero
         /\ pc' = "idle" => left' = {} /\ acc' = acc /\ out'.data = Zero
         /\ pc' = "idle" /\ out'.cmd = "read" => out'.code = -1 /\ (NumDisks > 1 => pc = "recover")
BY DEF Fail, Return, Reading, Writing

-----------------------------------------------------------------------------
(* Types.                                                                  *)

LEMMA InitType == Init => TypeOK
<1> SUFFICES ASSUME Init PROVE TypeOK
  OBVIOUS
<1>1. Zero \in Block
  BY DEF Zero, Block
<1>2. ~Restoring
  BY DEF Init, NoRestore, Restoring
<1>3. rst \in [disk : Disks, stripe : 0 .. BlocksPerDisk]
  BY DiskFacts, BlocksPerDiskAssumption DEF Init, NoRestore
<1>4. deaths \in Seq(Disks)
  BY EmptySeq DEF Init
<1>5. mem \in [Disks -> [Stripes -> Block]] /\ vol \in [Blocks -> Block] /\ base \in [Blocks -> Block]
  BY <1>1 DEF Init, ZeroDisk, EmptyVolume
<1> QED BY <1>1, <1>2, <1>3, <1>4, <1>5 DEF Init, TypeOK, Reading, Writing


LEMMA Types ==
  ASSUME TypeOK
  PROVE  /\ Zero \in Block /\ ZeroDisk \in [Stripes -> Block]
         /\ NewParity \in Block /\ req.data \in Block
         /\ \A a, b \in Block : Xor(a, b) \in Block
         /\ NoRestore \in [disk : Disks, stripe : 0 .. BlocksPerDisk]
         /\ \A d \in Disks : Append(deaths, d) \in Seq(Disks)
<1>1. Zero \in Block /\ \A a, b \in Block : Xor(a, b) \in Block
  BY DEF Zero, Block, Xor
<1>2. NewParity \in Block /\ req.data \in Block
  BY <1>1 DEF TypeOK, NewParity
<1>3. NoRestore \in [disk : Disks, stripe : 0 .. BlocksPerDisk]
  BY DiskFacts, BlocksPerDiskAssumption DEF NoRestore
<1>4. \A d \in Disks : Append(deaths, d) \in Seq(Disks)
  BY AppendProperties DEF TypeOK
<1> QED BY <1>1, <1>2, <1>3, <1>4 DEF ZeroDisk

LEMMA NextType == TypeOK /\ [Next]_vars => TypeOK'
<1> SUFFICES ASSUME TypeOK, [Next]_vars PROVE TypeOK'
  OBVIOUS
<1> USE Types, DiskFacts DEF ctlVars, diskVars, history
<1>1. ASSUME NEW cmd, NEW b \in Int, NEW v \in Block, NEW first \in {"read", "oldData"},
             Begin(cmd, b, v, first)
      PROVE  TypeOK'
  <2>1. /\ ~Restoring /\ rst' = rst
        /\ UNCHANGED <<reg, left, acc, rst, proc, mem, vol, base, deaths, spread, stale>>
    BY <1>1 DEF Begin, Idle, TypeOK, Reading, Writing
  <2>2. CASE InRange(b)
    <3>1. b \in Blocks /\ b \in Nat
      BY <2>2, NumDisksAssumption, BlocksPerDiskAssumption DEF InRange, Blocks
    <3>2. pc' = first /\ req' = [blk |-> b, data |-> v]
      BY <1>1, <2>2 DEF Begin
    <3> QED BY <2>1, <3>1, <3>2 DEF TypeOK, Reading, Writing, Restoring
  <2>3. CASE ~InRange(b)
    BY <1>1, <2>1, <2>3 DEF Begin, Idle, TypeOK, Reading, Writing, Restoring
  <2> QED BY <2>2, <2>3
<1>2. ASSUME NEW d \in Disks, KillCmd(d) PROVE TypeOK'
  <2>1. /\ ~Restoring /\ pc' \in {"idle", "fatal"}
        /\ UNCHANGED <<ctlVars, mem, vol, base, spread, stale>>
    BY <1>2 DEF KillCmd, Idle, TypeOK, Reading, Writing
  <2>2. proc' \in [Disks -> {"running", "zombie", "reaped"}] /\ deaths' \in Seq(Disks)
    <3>1. proc' = proc \/ proc' = [proc EXCEPT ![d] = "reaped"]
      BY <1>2 DEF KillCmd, Dies
    <3>2. proc' \in [Disks -> {"running", "zombie", "reaped"}]
      BY <3>1 DEF TypeOK
    <3>3. deaths' \in Seq(Disks)
      <4>1. deaths' = deaths \/ deaths' = Append(deaths, d)
        BY <1>2 DEF KillCmd, Dies
      <4>2. deaths \in Seq(Disks) /\ Append(deaths, d) \in Seq(Disks)
        BY DEF TypeOK
      <4> QED BY <4>1, <4>2
    <3> QED BY <3>2, <3>3
  <2> QED BY <2>1, <2>2 DEF TypeOK, Reading, Writing, Ended, Restoring
<1>3. CASE ExitCmd
  BY <1>3 DEF ExitCmd, TypeOK, Reading, Writing, Ended, Restoring
<1>4. CASE ReadBlockFromDisk
  <2>1. /\ Target \in Disks /\ Slot \in Stripes /\ pc \in Reading /\ ~Restoring
        /\ UNCHANGED <<req, rst, diskVars, history>>
    BY <1>4, TargetPlace DEF ReadBlockFromDisk, Accessing
  <2>2. mem[Target][Slot] \in Block
    BY <2>1 DEF TypeOK
  <2>3. CASE pc \in {"read", "oldData", "oldParity"}
    <3>1. pc' \in {"idle", "oldParity", "newParity"} /\ left' = left /\ acc' = acc
      BY <1>4, <2>3 DEF ReadBlockFromDisk, Return
    <3>2. reg' \in [data : Block, parity : Block]
      <4>1. reg' = reg \/ reg' = [reg EXCEPT !.data = mem[Target][Slot]]
            \/ reg' = [reg EXCEPT !.parity = mem[Target][Slot]]
        BY <1>4 DEF ReadBlockFromDisk, CmdRead
      <4> QED BY <2>2, <4>1 DEF TypeOK
    <3> QED BY <2>1, <3>1, <3>2 DEF TypeOK, Reading, Writing, Restoring
  <2>4. CASE pc = "recover"
    <3>1. /\ reg' = reg /\ acc' = Xor(acc, mem[Target][Slot]) /\ left' = left \ {Target}
          /\ left' # {} => pc' = pc
          /\ left' = {} => pc' = "idle"
      BY <1>4, <2>4 DEF ReadBlockFromDisk, RecoverBlock, CmdRead, Return
    <3>2. acc' \in Block
      BY <2>2, <3>1 DEF TypeOK
    <3> QED BY <2>1, <2>4, <3>1, <3>2 DEF TypeOK, Reading, Writing, Restoring
  <2> QED BY <2>1, <2>3, <2>4 DEF Reading
<1>5. CASE WriteBlockToDisk
  <2>1. /\ Target \in Disks /\ Slot \in Stripes /\ pc \in Writing /\ ~Restoring
        /\ UNCHANGED <<ctlVars, proc, file, base, deaths, stale>>
    BY <1>5, TargetPlace DEF WriteBlockToDisk, Accessing
  <2>2. \A v \in Block : CmdWrite(Target, Slot, v) \in [Disks -> [Stripes -> Block]]
    BY <2>1 DEF TypeOK, CmdWrite
  <2>3. mem' \in [Disks -> [Stripes -> Block]] /\ vol' \in [Blocks -> Block] /\ spread' \in BOOLEAN
    <3>1. \E v \in Block : mem' = CmdWrite(Target, Slot, v)
      BY <1>5 DEF WriteBlockToDisk
    <3>2. vol' = vol \/ vol' = [vol EXCEPT ![req.blk] = req.data]
      BY <1>5 DEF WriteBlockToDisk
    <3>3. spread' = spread \/ spread' = (spread \/ StripeOf(req.blk) # 0)
      BY <1>5 DEF WriteBlockToDisk
    <3>4. mem' \in [Disks -> [Stripes -> Block]]
      BY <2>2, <3>1
    <3>5. vol' \in [Blocks -> Block]
      BY <3>2 DEF TypeOK
    <3>6. spread' \in BOOLEAN
      BY <3>3 DEF TypeOK
    <3> QED BY <3>4, <3>5, <3>6
  <2>4. pc' \in {"idle", "newData"}
    BY <1>5 DEF WriteBlockToDisk, Return
  <2> QED BY <2>1, <2>3, <2>4 DEF TypeOK, Reading, Writing, Restoring
<1>6. CASE ReadFails
  <2>1. /\ Target \in Disks /\ pc \in Reading /\ ~Restoring /\ Fail(Target) /\ Dies(Target, "zombie")
        /\ UNCHANGED <<req, reg, rst, mem, file, vol, base, spread, stale>>
    BY <1>6, TargetPlace DEF ReadFails, Accessing
  <2>2. proc' \in [Disks -> {"running", "zombie", "reaped"}] /\ deaths' \in Seq(Disks)
    BY <2>1 DEF TypeOK, Dies
  <2>3. acc' \in Block /\ left' \in SUBSET Disks /\ pc' \in {"idle", "recover"}
    BY <2>1, FailEffect DEF TypeOK
  <2>4. pc' = "recover" => left' # {} /\ req.blk % NumDisks \notin left' /\ req.blk \in Blocks
    <3> SUFFICES ASSUME pc' = "recover"
                 PROVE  left' # {} /\ req.blk % NumDisks \notin left' /\ req.blk \in Blocks
      OBVIOUS
    <3>1. pc = "read" /\ left' = Disks \ {Target} /\ req.blk \in Blocks
      BY <2>1, FailEffect DEF TypeOK
    <3>2. Target = req.blk % NumDisks /\ Target \in DataDisks
      BY <3>1, TargetPlace DEF Reading
    <3> QED BY <3>1, <3>2
  <2> QED BY <2>1, <2>2, <2>3, <2>4 DEF TypeOK, Reading, Writing, Restoring
<1>7. CASE SendFails
  <2>1. /\ Target \in Disks /\ pc \in Reading \cup Writing /\ ~Restoring
        /\ UNCHANGED <<req, reg, vol, deaths, spread>>
    BY <1>7, TargetPlace DEF SendFails, Accessing
  <2>2. /\ proc' \in [Disks -> {"running", "zombie", "reaped"}]
        /\ mem' \in [Disks -> [Stripes -> Block]]
    BY <1>7, <2>1 DEF SendFails, TypeOK
  <2>3. CASE Target # ParityDisk
    <3>1. rst' = [disk |-> Target, stripe |-> 0] /\ UNCHANGED <<pc, out, left, acc, base, stale>>
      BY <1>7, <2>3 DEF SendFails
    <3>2. rst' \in [disk : Disks, stripe : 0 .. BlocksPerDisk] /\ rst'.disk = Target'
      BY <2>1, <3>1, SameTarget, BlocksPerDiskAssumption
    <3> QED BY <2>1, <2>2, <3>1, <3>2 DEF TypeOK
  <2>4. CASE Target = ParityDisk
    <3>1. rst' = rst /\ base' = vol /\ stale' \in BOOLEAN /\ Fail(Target)
      BY <1>7, <2>4 DEF SendFails, TypeOK
    <3>2. pc # "read"
      BY <2>1, <2>4, TargetPlace
    <3>3. pc' = "idle" /\ left' = {} /\ acc' = acc
      BY <2>1, <3>1, <3>2, FailEffect
    <3> QED BY <2>1, <2>2, <3>1, <3>3 DEF TypeOK, Reading, Writing, Restoring
  <2> QED BY <2>3, <2>4
<1>8. CASE RestoreStripe
  <2>1. /\ pc \in Reading \cup Writing /\ rst.disk = Target
        /\ UNCHANGED <<req, reg, left, acc, proc, history>>
    BY <1>8 DEF RestoreStripe, TypeOK
  <2>2. CASE pc' = pc /\ rst' = [rst EXCEPT !.stripe = @ + 1]
             /\ mem' = [mem EXCEPT ![rst.disk][rst.stripe] =
                     XorOver(Disks \ {rst.disk}, [d \in Disks |-> mem[d][rst.stripe]])]
    <3>1. rst' \in [disk : Disks, stripe : 0 .. BlocksPerDisk] /\ rst'.disk = rst.disk
      BY <1>8, <2>2, BlocksPerDiskAssumption DEF TypeOK, RestoreStripe
    <3>2. mem' \in [Disks -> [Stripes -> Block]]
      BY <1>8, <2>2, XorOverType, BlocksPerDiskAssumption DEF TypeOK, RestoreStripe, Stripes
    <3>3. Restoring' => rst'.disk = Target'
      BY <2>1, <2>2, <3>1, SameTarget
    <3> QED BY <2>1, <2>2, <3>1, <3>2, <3>3 DEF TypeOK
  <2>3. CASE pc' = "fatal" /\ rst' = NoRestore /\ mem' = mem
    <3>1. ~Restoring'
      BY <2>3 DEF Restoring, NoRestore
    <3> QED BY <2>1, <2>3, <3>1 DEF TypeOK, Reading, Writing, Ended
  <2> QED BY <1>8, <2>2, <2>3 DEF RestoreStripe
<1>9. CASE RestoreDone
  <2>1. /\ pc \in Reading \cup Writing /\ rst.disk = Target /\ Fail(rst.disk) /\ rst' = NoRestore
        /\ Target # ParityDisk
        /\ UNCHANGED <<req, reg, diskVars, history>>
    BY <1>9 DEF RestoreDone, TypeOK, Restoring
  <2>2. ~Restoring'
    BY <2>1 DEF Restoring, NoRestore
  <2>3. acc' \in Block /\ left' \in SUBSET Disks /\ pc' \in {"idle", "recover"}
    BY <2>1, FailEffect DEF TypeOK
  <2>4. pc' = "recover" => left' # {} /\ req.blk % NumDisks \notin left' /\ req.blk \in Blocks
    <3> SUFFICES ASSUME pc' = "recover"
                 PROVE  left' # {} /\ req.blk % NumDisks \notin left' /\ req.blk \in Blocks
      OBVIOUS
    <3>1. pc = "read" /\ left' = Disks \ {Target} /\ req.blk \in Blocks
      BY <2>1, FailEffect DEF TypeOK
    <3>2. Target = req.blk % NumDisks
      BY <2>1, <3>1, TargetPlace
    <3> QED BY <2>1, <3>1, <3>2
  <2> QED BY <2>1, <2>2, <2>3, <2>4 DEF TypeOK, Reading, Writing
<1>10. ASSUME NEW d \in Disks, Crash(d) PROVE TypeOK'
  <2>1. proc' \in [Disks -> {"running", "zombie", "reaped"}] /\ deaths' \in Seq(Disks)
        /\ UNCHANGED <<pc, ctlVars, out, mem, file, vol, base, spread, stale>>
    BY <1>10 DEF Crash, Dies, TypeOK
  <2> QED BY <2>1, SameTarget DEF TypeOK, Restoring
<1>11. CASE UNCHANGED vars
  BY <1>11, SameTarget DEF vars, TypeOK, Restoring
<1>12. CASE Shell
  <2>1. Arguments \subseteq Int
    BY NumDisksAssumption, BlocksPerDiskAssumption DEF Arguments
  <2> QED BY <1>1, <1>2, <1>3, <1>12, <2>1 DEF Shell, ReadCmd, WriteCmd
<1> QED BY <1>4, <1>5, <1>6, <1>7, <1>8, <1>9, <1>10, <1>11, <1>12
        DEF Next, Controller, Terminated

(* Every access that a command, a recovery or a restore computes is to a   *)
(* slot of a disk, and a restore is of the disk that the command accesses. *)
THEOREM TypeCorrect == Spec => []TypeOK
BY InitType, NextType, PTL DEF Spec

-----------------------------------------------------------------------------
(* One loss.                                                               *)

LEMMA FirstDeath ==
  ASSUME NEW q \in Seq(Disks), NEW d \in Disks
  PROVE  /\ Len(<<d>>) = 1 /\ Len(q) \in Nat
         /\ Len(Append(q, d)) < 2 => Append(q, d) = <<d>> /\ Len(q) < 2 /\ \A e \in Disks : q # <<e>>
<1>1. Len(q) \in Nat /\ Len(Append(q, d)) = Len(q) + 1
  BY AppendProperties, LenProperties
<1>2. ASSUME Len(q) = 0 PROVE q = <<>>
  BY <1>2, EmptySeq
<1>3. Len(<<d>>) = 1 /\ Append(<<>>, d) = <<d>> /\ \A e \in Disks : <<e>> # <<>>
  OBVIOUS
<1>4. ASSUME Len(Append(q, d)) < 2 PROVE Len(q) = 0
  BY <1>1, <1>4
<1>5. Len(q) = 0 => Append(q, d) = <<d>> /\ Len(q) < 2 /\ \A e \in Disks : q # <<e>>
  BY <1>2, <1>3
<1> QED BY <1>1, <1>3, <1>4, <1>5

(* The death of one more disk.                                             *)
LEMMA ServedDeath ==
  ASSUME TypeOK, ServedInv, NEW d \in Disks, NEW how, Dies(d, how), pc \notin Ended, Len(deaths') < 2
  PROVE  /\ deaths' = <<d>> /\ Len(deaths) < 2
         /\ \A e \in Disks : proc'[e] = "running" \/ deaths' = <<e>>
         /\ ~Restoring /\ pc # "recover"
<1>1. /\ deaths' = <<d>> /\ Len(deaths) < 2 /\ \A e \in Disks : deaths # <<e>>
  BY FirstDeath DEF Dies, TypeOK
<1>2. \A e \in Disks : proc[e] = "running"
  BY <1>1 DEF ServedInv
<1>3. proc' = [proc EXCEPT ![d] = how]
  BY DEF Dies
<1>4. \A e \in Disks : e # d => proc'[e] = "running"
  BY <1>2, <1>3 DEF TypeOK
<1>5. ~Restoring /\ pc # "recover"
  BY <1>1 DEF ServedInv, TypeOK
<1> QED BY <1>1, <1>4, <1>5

(* A restore under way has all its sources as long as one disk died.       *)
LEMMA ServedSources ==
  ASSUME TypeOK, ServedInv, Restoring, Len(deaths) < 2
  PROVE  \A d \in Disks : proc[d] = "running"
<1>1. /\ pc \notin Ended /\ rst.disk \in Disks
  BY DEF TypeOK, Reading, Writing, Ended
<1>2. /\ deaths = <<rst.disk>> /\ proc[rst.disk] = "running"
      /\ \A d \in Disks : proc[d] = "running" \/ deaths = <<d>>
  BY <1>1 DEF ServedInv
<1> QED BY <1>1, <1>2

LEMMA ServedNext == TypeOK /\ ServedInv /\ [Next]_vars => ServedInv'
<1> SUFFICES ASSUME TypeOK, ServedInv, [Next]_vars, pc' \notin Ended, Len(deaths') < 2
             PROVE  /\ \A d \in Disks : proc'[d] = "running" \/ deaths' = <<d>>
                    /\ Restoring' => /\ deaths' = <<rst'.disk>> /\ proc'[rst'.disk] = "running"
                                     /\ pc' # "recover"
                    /\ pc' = "recover" => \E d \in Disks \ left' : deaths' = <<d>>
  BY DEF ServedInv
<1> DEFINE G == /\ \A d \in Disks : proc'[d] = "running" \/ deaths' = <<d>>
                /\ Restoring' => /\ deaths' = <<rst'.disk>> /\ proc'[rst'.disk] = "running"
                                 /\ pc' # "recover"
                /\ pc' = "recover" => \E d \in Disks \ left' : deaths' = <<d>>
<1> USE DEF ctlVars, diskVars, history
<1>1. ASSUME NEW cmd, NEW b, NEW v, NEW first \in {"read", "oldData"}, Begin(cmd, b, v, first)
      PROVE  G
  <2>1. UNCHANGED <<rst, proc, deaths>> /\ pc = "idle" /\ pc' \in {"idle", "read", "oldData"}
    BY <1>1 DEF Begin, Idle
  <2> QED BY <2>1 DEF ServedInv, Ended, Restoring, TypeOK, Reading, Writing
<1>2. ASSUME NEW d \in Disks, KillCmd(d) PROVE G
  <2>1. /\ pc = "idle" /\ pc' = "idle" /\ rst' = rst
        /\ Dies(d, "reaped") \/ (proc[d] = "zombie" /\ proc' = [proc EXCEPT ![d] = "reaped"]
                                 /\ deaths' = deaths)
    BY <1>2 DEF KillCmd, Idle, Ended
  <2>2. ~Restoring'
    BY <2>1 DEF Restoring, TypeOK, Reading, Writing
  <2>3. CASE Dies(d, "reaped")
    BY <2>1, <2>2, <2>3, ServedDeath DEF Ended
  <2>4. CASE ~Dies(d, "reaped")
    <3>1. \A e \in Disks : e # d => proc'[e] = proc[e]
      BY <2>1, <2>4 DEF TypeOK
    <3> QED BY <2>1, <2>2, <2>4, <3>1 DEF ServedInv, Ended
  <2> QED BY <2>3, <2>4
<1>3. CASE ReadBlockFromDisk
  <2>1. /\ pc \notin Ended /\ ~Restoring /\ UNCHANGED <<rst, proc, deaths>>
        /\ pc' = "recover" => pc = "recover" /\ left' = left \ {Target}
    BY <1>3 DEF ReadBlockFromDisk, RecoverBlock, Return, Accessing, Reading, Ended
  <2> QED BY <2>1 DEF ServedInv, Restoring
<1>4. CASE WriteBlockToDisk
  <2>1. /\ pc \notin Ended /\ ~Restoring /\ UNCHANGED <<rst, proc, deaths>> /\ pc' # "recover"
    BY <1>4 DEF WriteBlockToDisk, Return, Accessing, Writing, Ended
  <2> QED BY <2>1 DEF ServedInv, Restoring
<1>5. CASE ReadFails
  <2>1. /\ Target \in Disks /\ pc \in Reading /\ ~Restoring /\ Fail(Target) /\ Dies(Target, "zombie")
        /\ rst' = rst
    BY <1>5, TargetPlace DEF ReadFails, Accessing
  <2>2. pc' = "recover" => left' = Disks \ {Target}
    BY <2>1, FailEffect
  <2> QED BY <2>1, <2>2, ServedDeath DEF Restoring, Ended, Reading
<1>6. CASE SendFails
  <2>1. /\ Target \in Disks /\ pc \in Reading \cup Writing /\ ~Restoring /\ proc[Target] # "running"
        /\ proc' = [proc EXCEPT ![Target] = "running"] /\ deaths' = deaths /\ pc \notin Ended
    BY <1>6, TargetPlace DEF SendFails, Accessing, Ended, Reading, Writing
  <2>2. deaths = <<Target>>
    BY <2>1 DEF ServedInv
  <2>3. \A d \in Disks : proc'[d] = "running"
    BY <2>1, <2>2 DEF ServedInv, TypeOK
  <2>4. pc # "recover"
    BY <2>1, <2>2, TargetPlace DEF ServedInv
  <2>5. pc' # "recover"
    <3>1. CASE Target # ParityDisk
      BY <1>6, <2>4, <3>1 DEF SendFails
    <3>2. CASE Target = ParityDisk
      <4>1. Fail(Target) /\ pc # "read"
        BY <1>6, <2>1, <3>2, TargetPlace, DiskFacts DEF SendFails
      <4> QED BY <2>1, <4>1, FailEffect
    <3> QED BY <3>1, <3>2
  <2>6. Restoring' => rst'.disk = Target
    BY <1>6, <2>1 DEF SendFails, Restoring
  <2> QED BY <2>1, <2>2, <2>3, <2>5, <2>6
<1>7. CASE RestoreStripe
  <2>1. /\ UNCHANGED <<pc, proc, deaths>> /\ rst' = [rst EXCEPT !.stripe = @ + 1] /\ Restoring
    BY <1>7 DEF RestoreStripe, Ended
  <2>2. rst'.disk = rst.disk
    BY <2>1 DEF TypeOK
  <2> QED BY <2>1, <2>2 DEF ServedInv, Restoring
<1>8. CASE RestoreDone
  <2>1. /\ pc \in Reading \cup Writing /\ rst.disk \in Disks /\ Fail(rst.disk) /\ rst' = NoRestore
        /\ UNCHANGED <<proc, deaths>> /\ Restoring /\ pc \notin Ended
    BY <1>8 DEF RestoreDone, TypeOK, Ended, Reading, Writing
  <2>2. ~Restoring' /\ deaths = <<rst.disk>>
    BY <2>1 DEF Restoring, NoRestore, ServedInv
  <2>3. pc' = "recover" => left' = Disks \ {rst.disk}
    BY <2>1, FailEffect
  <2> QED BY <2>1, <2>2, <2>3 DEF ServedInv
<1>9. ASSUME NEW d \in Disks, Crash(d) PROVE G
  BY <1>9, ServedDeath DEF Crash, Restoring, Ended
<1>10. CASE UNCHANGED vars
  BY <1>10 DEF vars, ServedInv, Restoring
<1>11. CASE Shell
  BY <1>1, <1>2, <1>11 DEF Shell, ReadCmd, WriteCmd, ExitCmd, Ended
<1> QED BY <1>3, <1>4, <1>5, <1>6, <1>7, <1>8, <1>9, <1>10, <1>11
        DEF Next, Controller, Terminated

LEMMA ServedInit == Init => ServedInv
BY DEF Init, ServedInv, NoRestore, Restoring, Ended

(* After one death every other disk runs, and a recovery does without it.  *)
THEOREM ServedCorrect == Spec => []ServedInv
BY ServedInit, ServedNext, TypeCorrect, PTL DEF Spec

(* The first death, at any step, fails no rb and ends the program in no    *)
(* command, however many disks and blocks there are.                       *)
THEOREM OneLossCorrect == Spec => OneLossServed
<1> DEFINE Served == pc # "idle" /\ Len(deaths') < 2 =>
                       /\ pc' # "fatal"
                       /\ NumDisks > 1 /\ pc' = "idle" /\ out'.cmd = "read" => out'.code = 0
<1>1. TypeOK /\ ServedInv /\ [Next]_vars => [Served]_vars
  <2> SUFFICES ASSUME TypeOK, ServedInv, Next, vars' # vars, pc # "idle", Len(deaths') < 2
               PROVE  /\ pc' # "fatal"
                      /\ NumDisks > 1 /\ pc' = "idle" /\ out'.cmd = "read" => out'.code = 0
    OBVIOUS
  <2> DEFINE G == /\ pc' # "fatal"
                  /\ NumDisks > 1 /\ pc' = "idle" /\ out'.cmd = "read" => out'.code = 0
  <2> USE DEF ctlVars, diskVars, history
  <2>1. CASE ReadBlockFromDisk
    BY <2>1 DEF ReadBlockFromDisk, RecoverBlock, Return, Accessing, Reading
  <2>2. CASE WriteBlockToDisk
    BY <2>2 DEF WriteBlockToDisk, Return
  <2>3. CASE ReadFails
    <3>1. /\ Target \in Disks /\ pc \in Reading /\ Fail(Target) /\ Dies(Target, "zombie")
      BY <2>3, TargetPlace DEF ReadFails, Accessing
    <3>2. pc # "recover"
      BY <3>1, ServedDeath DEF Reading, Ended
    <3> QED BY <3>1, <3>2, FailEffect
  <2>4. CASE SendFails
    <3>1. /\ Target \in Disks /\ pc \in Reading \cup Writing /\ proc[Target] # "running"
          /\ deaths' = deaths /\ pc \notin Ended
      BY <2>4, TargetPlace DEF SendFails, Accessing, Ended, Reading, Writing
    <3>2. deaths = <<Target>>
      BY <3>1 DEF ServedInv
    <3>3. pc # "recover"
      BY <3>1, <3>2, TargetPlace DEF ServedInv
    <3>4. CASE Target # ParityDisk
      BY <2>4, <3>1, <3>4 DEF SendFails, Reading, Writing
    <3>5. CASE Target = ParityDisk
      BY <2>4, <3>1, <3>3, <3>5, FailEffect DEF SendFails
    <3> QED BY <3>4, <3>5
  <2>5. CASE RestoreStripe
    BY <2>5, ServedSources DEF RestoreStripe, TypeOK, Reading, Writing
  <2>6. CASE RestoreDone
    <3>1. /\ pc \in Reading \cup Writing /\ Fail(rst.disk) /\ Restoring /\ deaths' = deaths
          /\ pc \notin Ended
      BY <2>6 DEF RestoreDone, TypeOK, Reading, Writing, Ended
    <3>2. pc # "recover"
      BY <3>1 DEF ServedInv
    <3> QED BY <3>1, <3>2, FailEffect
  <2>7. ASSUME NEW d \in Disks, Crash(d) PROVE G
    BY <2>7 DEF Crash
  <2>8. ~Shell /\ ~Terminated
    BY DEF Shell, ReadCmd, WriteCmd, Begin, KillCmd, Idle, ExitCmd, Terminated
  <2> QED BY <2>1, <2>2, <2>3, <2>4, <2>5, <2>6, <2>7, <2>8 DEF Next, Controller
<1> QED BY <1>1, TypeCorrect, ServedCorrect, PTL DEF Spec, OneLossServed

-----------------------------------------------------------------------------
(* The first stripe.                                                       *)

(* Any block of the first stripe is the parity of the others.              *)
LEMMA RowFacts ==
  ASSUME TypeOK, 0 \in Stripes
  PROVE  /\ FirstRow \in [Disks -> Block]
         /\ \A d \in DataDisks : FirstRow[d] = vol[d]
         /\ FirstRow[ParityDisk] = XorOver(DataDisks, vol)
         /\ \A d \in Disks : XorOver(Disks \ {d}, FirstRow) = FirstRow[d]
<1> USE DiskFacts
<1>1. \A d \in DataDisks : vol[d] \in Block
  BY FirstBlocks DEF TypeOK
<1>2. FirstRow \in [Disks -> Block]
  BY <1>1, XorOverType DEF FirstRow
<1>3. FirstRow[ParityDisk] = XorOver(DataDisks, vol) /\ \A d \in DataDisks : FirstRow[d] = vol[d]
  BY DEF FirstRow
<1>4. XorOver(DataDisks, FirstRow) = XorOver(DataDisks, vol)
  BY <1>3, XorOverSame
<1>5. ASSUME NEW d \in Disks PROVE XorOver(Disks \ {d}, FirstRow) = FirstRow[d]
  <2> DEFINE R == FirstRow
  <2>1. R \in [DataDisks \cup {ParityDisk} -> Block] /\ R[ParityDisk] = XorOver(DataDisks, R)
    BY <1>2, <1>3, <1>4
  <2> HIDE DEF R
  <2>2. XorOver((DataDisks \cup {ParityDisk}) \ {d}, R) = R[d]
    BY <2>1, RebuildAnyBlock
  <2> QED BY <2>2 DEF R
<1> QED BY <1>2, <1>3, <1>5

(* The small write: the parity block after a block of the stripe changed.  *)
LEMMA RowUpdate ==
  ASSUME TypeOK, 0 \in Stripes, NEW b \in DataDisks, vol' = [vol EXCEPT ![b] = req.data]
  PROVE  /\ FirstRow'[ParityDisk] = Xor(Xor(FirstRow[ParityDisk], vol[b]), req.data)
         /\ \A d \in DataDisks : FirstRow'[d] = vol'[d]
<1>1. /\ \A d \in DataDisks : d \in Blocks /\ vol[d] \in Block
      /\ req.data \in Block
  BY FirstBlocks DEF TypeOK
<1>2. vol'[b] = req.data /\ \A d \in DataDisks \ {b} : vol'[d] = vol[d]
  BY <1>1 DEF TypeOK
<1>3. XorOver(DataDisks, vol') = Xor(Xor(XorOver(DataDisks, vol), vol[b]), vol'[b])
  <2> DEFINE w == vol'
  <2>1. /\ IsFiniteSet(DataDisks) /\ vol[b] \in Block /\ w[b] \in Block
        /\ \A d \in DataDisks \ {b} : w[d] = vol[d]
    BY <1>1, <1>2, DiskFacts
  <2> HIDE DEF w
  <2>2. XorOver(DataDisks, w) = Xor(Xor(XorOver(DataDisks, vol), vol[b]), w[b])
    BY <2>1, XorOverUpdate
  <2> QED BY <2>2 DEF w
<1>4. FirstRow'[ParityDisk] = XorOver(DataDisks, vol') /\ \A d \in DataDisks : FirstRow'[d] = vol'[d]
  BY DiskFacts DEF FirstRow
<1> QED BY <1>2, <1>3, <1>4, RowFacts

LEMMA SameRow == vol' = vol => FirstRow' = FirstRow
BY DEF FirstRow

(* The command's disk, in the first stripe, has the number of the block.   *)
LEMMA FirstTarget ==
  ASSUME TypeOK, pc \in Reading \cup Writing, FirstStripe
  PROVE  /\ req.blk \in DataDisks /\ req.blk \in Disks /\ Slot = 0 /\ 0 \in Stripes
         /\ pc \in {"read", "oldData", "newData"} => Target = req.blk
         /\ pc = "recover" => Target \in left /\ Target # req.blk /\ left \subseteq Disks
<1>1. req.blk % NumDisks = req.blk /\ req.blk \in DataDisks
  BY FirstBlocks DEF TypeOK, FirstStripe
<1>2. pc = "recover" => req.blk \notin left /\ left \subseteq Disks
  BY <1>1 DEF TypeOK
<1> QED BY <1>1, <1>2, TargetPlace, DiskFacts

(* What the disk of an access answers, in the first stripe.                *)
LEMMA AnswerRight ==
  ASSUME TypeOK, StripeInv, Calm, ReadBlockFromDisk, FirstStripe
  PROVE  /\ mem[Target][Slot] = FirstRow[Target]
         /\ pc \in {"read", "oldData"} => mem[Target][Slot] = vol[req.blk]
         /\ pc = "oldParity" => mem[Target][Slot] = FirstRow[ParityDisk]
         /\ pc = "recover" => acc' = XorOver((Disks \ {req.blk}) \ left', FirstRow)
<1>1. /\ pc \in Reading /\ ~Restoring /\ proc[Target] = "running" /\ Target \in Disks
  BY TargetPlace DEF ReadBlockFromDisk, Accessing
<1>2. mem[Target][Slot] = FirstRow[Target]
  BY <1>1, FirstTarget DEF StripeInv, StripeData, Pending, Reading
<1>3. pc \in {"read", "oldData"} => FirstRow[Target] = vol[req.blk]
  BY <1>1, FirstTarget, RowFacts
<1>4. pc = "oldParity" => Target = ParityDisk
  BY <1>1, TargetPlace
<1>5. ASSUME pc = "recover" PROVE acc' = XorOver((Disks \ {req.blk}) \ left', FirstRow)
  <2> DEFINE D == (Disks \ {req.blk}) \ left
  <2>1. /\ Target \in left /\ Target # req.blk /\ left \subseteq Disks
        /\ acc' = Xor(acc, FirstRow[Target]) /\ left' = left \ {Target}
    BY <1>1, <1>2, <1>5, FirstTarget DEF ReadBlockFromDisk, RecoverBlock, CmdRead
  <2>2. (Disks \ {req.blk}) \ left' = D \cup {Target} /\ Target \notin D
    BY <2>1
  <2>3. IsFiniteSet(D) /\ FirstRow[Target] \in Block
    <3>1. D \subseteq Disks
      OBVIOUS
    <3> QED BY <1>1, <3>1, FS_Subset, DiskFacts, RowFacts, FirstTarget
  <2>4. acc = XorOver(D, FirstRow)
    BY <1>5 DEF StripeInv, StripeRegs
  <2>5. XorOver(D \cup {Target}, FirstRow) = Xor(XorOver(D, FirstRow), FirstRow[Target])
    BY <2>2, <2>3, XorOverAdd
  <2> QED BY <2>1, <2>2, <2>4, <2>5
<1> QED BY <1>2, <1>3, <1>4, <1>5

(* A read that fails begins its recovery with no block.                    *)
LEMMA RecoveryStarts ==
  ASSUME TypeOK, pc \in Reading \cup Writing, Fail(Target), req' = req, pc' = "recover"
  PROVE  pc = "read" /\ (FirstStripe => acc' = XorOver((Disks \ {req.blk}) \ left', FirstRow'))
<1>1. pc = "read" /\ left' = Disks \ {Target} /\ acc' = Zero
  BY FailEffect
<1>2. FirstStripe => (Disks \ {req.blk}) \ left' = {}
  BY <1>1, FirstTarget
<1> QED BY <1>1, <1>2, XorOverEmpty

LEMMA StripeInit == Init => StripeInv
<1> SUFFICES ASSUME Init PROVE StripeInv
  OBVIOUS
<1>1. TypeOK /\ pc = "idle" /\ out = NoOut /\ vol = EmptyVolume /\ mem = [d \in Disks |-> ZeroDisk]
  BY InitType DEF Init
<1>2. ASSUME 0 \in Stripes PROVE StripeData
  <2>1. \A d \in DataDisks : vol[d] = Zero
    BY <1>1, <1>2, FirstBlocks DEF EmptyVolume
  <2>2. XorOver(DataDisks, vol) = Zero
    BY <2>1, XorOverZero
  <2>3. \A d \in Disks : mem[d][0] = Zero /\ FirstRow[d] = Zero
    BY <1>1, <1>2, <2>1, <2>2, RowFacts, DiskFacts DEF ZeroDisk
  <2> QED BY <2>3 DEF StripeData
<1>3. StripeRegs
  BY <1>1 DEF StripeRegs
<1>4. ReadsRight
  BY <1>1 DEF ReadsRight, NoOut
<1> QED BY <1>1, <1>2, <1>3, <1>4 DEF StripeInv, Calm, Reading, Writing

LEMMA OutNext ==
  ASSUME TypeOK, StripeInv, [Next]_vars
  PROVE  pc' \in Reading \cup Writing => out' = NoOut
<1> SUFFICES ASSUME pc' \in Reading \cup Writing PROVE out' = NoOut
  OBVIOUS
<1> USE DEF Reading, Writing
<1>1. ASSUME NEW cmd, NEW b, NEW v, NEW first, Begin(cmd, b, v, first) PROVE out' = NoOut
  BY <1>1 DEF Begin, Idle
<1>2. ASSUME NEW d \in Disks, KillCmd(d) PROVE out' = NoOut
  BY <1>2 DEF KillCmd
<1>3. ReadBlockFromDisk => out' = NoOut
  BY DEF ReadBlockFromDisk, RecoverBlock, Return, StripeInv
<1>4. WriteBlockToDisk => out' = NoOut
  BY DEF WriteBlockToDisk, Return, StripeInv
<1>5. ASSUME NEW d, Fail(d), pc \in Reading \cup Writing PROVE out' = NoOut
  BY <1>5, FailEffect DEF StripeInv
<1>6. ReadFails \/ RestoreDone => out' = NoOut
  BY <1>5 DEF ReadFails, RestoreDone, Accessing, TypeOK
<1>7. SendFails => out' = NoOut
  BY <1>5 DEF SendFails, Accessing, StripeInv
<1>8. RestoreStripe => out' = NoOut
  BY DEF RestoreStripe, StripeInv
<1>9. ASSUME NEW d \in Disks, Crash(d) PROVE out' = NoOut
  BY <1>9 DEF Crash, StripeInv
<1>10. UNCHANGED vars => out' = NoOut
  BY DEF vars, StripeInv
<1>11. Shell => out' = NoOut
  BY <1>1, <1>2 DEF Shell, ReadCmd, WriteCmd, ExitCmd
<1> QED BY <1>3, <1>4, <1>6, <1>7, <1>8, <1>9, <1>10, <1>11 DEF Next, Controller, Terminated

LEMMA ReadsNext ==
  ASSUME TypeOK, StripeInv, [Next]_vars
  PROVE  ReadsRight'
<1> USE DEF ctlVars, diskVars, history
<1>1. ASSUME out' = out, vol' = vol, spread' = spread, stale' \in {stale, TRUE} PROVE ReadsRight'
  BY <1>1 DEF StripeInv, ReadsRight, StripeOf
<1>2. ASSUME out'.cmd # "read" \/ out'.code # 0 PROVE ReadsRight'
  BY <1>2 DEF ReadsRight
<1>3. NoOut.cmd # "read"
  BY DEF NoOut
<1>4. ASSUME NEW cmd, NEW b, NEW v, NEW first, Begin(cmd, b, v, first) PROVE ReadsRight'
  BY <1>2, <1>3, <1>4 DEF Begin
<1>5. ASSUME NEW d \in Disks, KillCmd(d) PROVE ReadsRight'
  BY <1>2, <1>3, <1>5 DEF KillCmd
<1>6. CASE ReadBlockFromDisk
  <2>1. pc \in Reading /\ UNCHANGED <<vol, spread, stale, req>>
    BY <1>6 DEF ReadBlockFromDisk, Accessing
  <2>2. CASE pc' # "idle" \/ pc \in {"oldData", "oldParity"}
    BY <1>1, <1>6, <2>1, <2>2 DEF ReadBlockFromDisk, RecoverBlock, Return
  <2>3. CASE pc' = "idle" /\ pc \in {"read", "recover"}
    <3>1. /\ out'.blk = req.blk /\ out'.data \in {mem[Target][Slot], acc'}
          /\ pc = "read" => out'.data = mem[Target][Slot]
          /\ pc = "recover" => out'.data = acc' /\ left' = {}
      BY <1>6, <2>3 DEF ReadBlockFromDisk, RecoverBlock, Return, CmdRead
    <3>2. ASSUME FirstStripe, ~spread, ~stale PROVE out'.data = vol[req.blk]
      <4>1. Calm
        BY <2>1, <3>2, FirstTarget DEF Calm, Reading, Ended
      <4>2. CASE pc = "read"
        BY <1>6, <3>1, <3>2, <4>1, <4>2, AnswerRight
      <4>3. CASE pc = "recover"
        <5>1. acc' = XorOver(Disks \ {req.blk}, FirstRow)
          BY <1>6, <3>1, <3>2, <4>1, <4>3, AnswerRight
        <5>2. req.blk \in DataDisks /\ req.blk \in Disks
          BY <2>1, <3>2, FirstTarget
        <5> QED BY <3>1, <4>1, <4>3, <5>1, <5>2, RowFacts DEF Calm
      <4> QED BY <2>3, <4>2, <4>3
    <3> QED BY <2>1, <3>1, <3>2 DEF ReadsRight, FirstStripe, StripeOf
  <2> QED BY <2>1, <2>2, <2>3 DEF Reading
<1>7. CASE WriteBlockToDisk
  <2>1. out'.cmd # "read"
    BY <1>3, <1>7 DEF WriteBlockToDisk, Return, StripeInv
  <2> QED BY <1>2, <2>1
<1>8. ASSUME NEW d, Fail(d), pc \in Reading \cup Writing PROVE ReadsRight'
  <2>1. pc' = "recover" => out'.cmd # "read"
    BY <1>3, <1>8, FailEffect DEF StripeInv
  <2>2. pc' = "idle" => out'.cmd # "read" \/ out'.code # 0
    BY <1>8, FailEffect
  <2> QED BY <1>2, <1>8, <2>1, <2>2, FailEffect
<1>9. CASE ReadFails \/ RestoreDone
  BY <1>8, <1>9 DEF ReadFails, RestoreDone, Accessing, TypeOK
<1>10. CASE SendFails
  BY <1>1, <1>8, <1>10 DEF SendFails, Accessing
<1>11. CASE RestoreStripe \/ ExitCmd
  BY <1>1, <1>11 DEF RestoreStripe, ExitCmd
<1>12. ASSUME NEW d \in Disks, Crash(d) PROVE ReadsRight'
  BY <1>1, <1>12 DEF Crash
<1>13. CASE UNCHANGED vars
  BY <1>1, <1>13 DEF vars
<1> QED BY <1>4, <1>5, <1>6, <1>7, <1>9, <1>10, <1>11, <1>12, <1>13
        DEF Next, Shell, ReadCmd, WriteCmd, Controller, Terminated

(* Disks that die, and a controller that goes on without touching memory.  *)
LEMMA StripeKept ==
  ASSUME StripeData, UNCHANGED <<mem, vol>>,
         \A d \in Disks : proc'[d] = "running" => proc[d] = "running",
         \A d \in Disks : Pending(d) => Pending(d)'
  PROVE  StripeData'
BY SameRow DEF StripeData

LEMMA StripeWrite ==
  ASSUME TypeOK, StripeInv, WriteBlockToDisk, Calm, Calm'
  PROVE  StripeData' /\ StripeRegs'
<1>1. /\ pc \in Writing /\ ~Restoring /\ proc[Target] = "running" /\ UNCHANGED <<ctlVars, proc>>
      /\ StripeData /\ StripeRegs /\ 0 \in Stripes /\ ~Restoring'
  BY DEF WriteBlockToDisk, Accessing, StripeInv, Calm, ctlVars, Restoring
<1>2. CASE pc = "newParity"
  <2>1. /\ mem' = CmdWrite(Target, Slot, NewParity) /\ pc' = "newData"
        /\ vol' = [vol EXCEPT ![req.blk] = req.data] /\ FirstStripe
    BY <1>2 DEF WriteBlockToDisk, Calm, FirstStripe
  <2>2. Target = ParityDisk /\ Slot = 0 /\ req.blk \in DataDisks /\ req.blk \in Blocks
    BY <1>1, <1>2, <2>1, FirstTarget, TargetPlace DEF TypeOK
  <2>3. NewParity = FirstRow'[ParityDisk] /\ \A d \in DataDisks : FirstRow'[d] = vol'[d]
    BY <1>1, <1>2, <2>1, <2>2, RowUpdate DEF StripeRegs, NewParity
  <2>4. mem'[ParityDisk][0] = NewParity /\ \A d \in DataDisks : mem'[d] = mem[d]
    BY <1>1, <2>1, <2>2, DiskFacts DEF CmdWrite, TypeOK
  <2>5. \A d \in DataDisks : d # req.blk => vol'[d] = FirstRow[d] /\ ~Pending(d)
    <3>1. \A d \in DataDisks : d # req.blk => vol'[d] = vol[d]
      BY <1>1, <2>1, FirstBlocks DEF TypeOK
    <3> QED BY <1>1, <1>2, <3>1, RowFacts DEF Pending
  <2>6. StripeData'
    <3> SUFFICES ASSUME NEW d \in Disks, proc'[d] = "running"
                 PROVE  Pending(d)' \/ mem'[d][0] = FirstRow'[d]
      BY DEF StripeData
    <3>1. CASE d = ParityDisk
      BY <2>3, <2>4, <3>1
    <3>2. CASE d = req.blk
      BY <1>1, <2>1, <3>2 DEF Pending, ctlVars
    <3>3. CASE d # ParityDisk /\ d # req.blk
      BY <1>1, <2>3, <2>4, <2>5, <3>3, DiskFacts DEF StripeData
    <3> QED BY <3>1, <3>2, <3>3
  <2>7. vol'[req.blk] = req.data
    BY <2>1, <2>2 DEF TypeOK
  <2> QED BY <1>1, <2>1, <2>6, <2>7 DEF StripeRegs, FirstStripe, StripeOf, ctlVars
<1>3. CASE pc = "newData"
  <2>1. /\ mem' = CmdWrite(Target, Slot, req.data) /\ pc' = "idle" /\ vol' = vol /\ FirstStripe
        /\ vol[req.blk] = req.data
    BY <1>1, <1>3 DEF WriteBlockToDisk, Return, StripeRegs
  <2>2. Target = req.blk /\ Slot = 0 /\ req.blk \in DataDisks /\ req.blk \in Disks
    BY <1>1, <1>3, <2>1, FirstTarget
  <2>3. mem'[req.blk][0] = req.data /\ \A d \in Disks : d # req.blk => mem'[d] = mem[d]
    BY <1>1, <2>1, <2>2 DEF CmdWrite, TypeOK
  <2>4. StripeData'
    <3> SUFFICES ASSUME NEW d \in Disks, proc'[d] = "running" PROVE mem'[d][0] = FirstRow[d]
      BY <2>1, SameRow DEF StripeData
    <3>1. CASE d = req.blk
      BY <1>1, <2>1, <2>2, <2>3, <3>1, RowFacts
    <3>2. CASE d # req.blk
      BY <1>1, <2>3, <3>2 DEF StripeData, Pending
    <3> QED BY <3>1, <3>2
  <2> QED BY <2>1, <2>4 DEF StripeRegs
<1> QED BY <1>1, <1>2, <1>3 DEF Writing

LEMMA StripeRead ==
  ASSUME TypeOK, StripeInv, ReadBlockFromDisk, Calm
  PROVE  StripeData' /\ StripeRegs'
<1>1. /\ pc \in Reading /\ ~Restoring /\ StripeData /\ StripeRegs
      /\ UNCHANGED <<req, rst, proc, mem, vol>>
  BY DEF ReadBlockFromDisk, Accessing, StripeInv, diskVars, history
<1>2. FirstRow' = FirstRow /\ FirstStripe' = FirstStripe
  BY <1>1, SameRow DEF FirstStripe, StripeOf
<1>3. StripeData'
  BY <1>1, StripeKept DEF Pending, Reading
<1>4. pc' # "newData" /\ (pc' = "oldParity" => pc = "oldData") /\ (pc' = "newParity" => pc = "oldParity")
      /\ (pc' = "recover" => pc = "recover")
  BY <1>1 DEF ReadBlockFromDisk, RecoverBlock, Return, Reading
<1>5. ASSUME pc = "oldData", FirstStripe PROVE reg'.data = vol[req.blk]
  <2>1. reg' = [reg EXCEPT !.data = mem[Target][Slot]]
    BY <1>5 DEF ReadBlockFromDisk, CmdRead
  <2>2. reg'.data = mem[Target][Slot]
    BY <2>1 DEF TypeOK
  <2> QED BY <1>5, <2>2, AnswerRight
<1>6. ASSUME pc = "oldParity", FirstStripe
      PROVE  reg'.data = vol[req.blk] /\ reg'.parity = FirstRow[ParityDisk]
  <2>1. reg' = [reg EXCEPT !.parity = mem[Target][Slot]]
    BY <1>6 DEF ReadBlockFromDisk, CmdRead
  <2>2. reg'.data = reg.data /\ reg'.parity = mem[Target][Slot]
    BY <2>1 DEF TypeOK
  <2> QED BY <1>1, <1>6, <2>2, AnswerRight DEF StripeRegs
<1>7. ASSUME pc = "recover", FirstStripe PROVE acc' = XorOver((Disks \ {req.blk}) \ left', FirstRow)
  BY <1>7, AnswerRight
<1>8. StripeRegs'
  <2>1. pc' \in {"oldParity", "newParity"} /\ FirstStripe' => reg'.data = vol'[req'.blk]
    BY <1>1, <1>2, <1>4, <1>5, <1>6
  <2>2. pc' = "newParity" /\ FirstStripe' => reg'.parity = FirstRow'[ParityDisk]
    BY <1>2, <1>4, <1>6
  <2>3. pc' = "recover" /\ FirstStripe' => acc' = XorOver((Disks \ {req'.blk}) \ left', FirstRow')
    BY <1>1, <1>2, <1>4, <1>7
  <2> QED BY <1>4, <2>1, <2>2, <2>3 DEF StripeRegs
<1> QED BY <1>3, <1>8

LEMMA StripeSendFails ==
  ASSUME TypeOK, StripeInv, SendFails, Calm, Calm'
  PROVE  StripeData' /\ StripeRegs'
<1>1. /\ pc \in Reading \cup Writing /\ ~Restoring /\ Target \in Disks /\ StripeData /\ StripeRegs
      /\ proc' = [proc EXCEPT ![Target] = "running"] /\ mem' = [mem EXCEPT ![Target] = ZeroDisk]
      /\ UNCHANGED <<req, reg, vol>> /\ 0 \in Stripes
  BY TargetPlace DEF SendFails, Accessing, StripeInv, Calm
<1>2. FirstRow' = FirstRow /\ FirstStripe' = FirstStripe
  BY <1>1, SameRow DEF FirstStripe, StripeOf
<1>3. /\ mem'[Target][0] = Zero
      /\ \A d \in Disks : d # Target => mem'[d] = mem[d] /\ proc'[d] = proc[d]
  BY <1>1 DEF TypeOK, ZeroDisk
<1>4. CASE Target # ParityDisk
  <2>1. rst' = [disk |-> Target, stripe |-> 0] /\ UNCHANGED <<pc, left, acc>>
    BY <1>4 DEF SendFails
  <2>2. Restoring' /\ rst'.disk = Target /\ rst'.stripe = 0
    BY <1>4, <2>1 DEF Restoring
  <2>3. \A d \in Disks : d # Target => ~Pending(d)
    <3>1. pc = "newData" => Target = req.blk
      BY <1>1, FirstTarget DEF StripeRegs
    <3> QED BY <1>1, <3>1 DEF Pending
  <2>4. StripeData'
    BY <1>1, <1>2, <1>3, <2>2, <2>3 DEF StripeData, Pending
  <2> QED BY <1>1, <1>2, <2>1, <2>4 DEF StripeRegs
<1>5. CASE Target = ParityDisk
  <2>1. Fail(Target) /\ rst' = rst /\ (~stale' => vol = EmptyVolume)
    BY <1>5 DEF SendFails
  <2>2. pc \notin {"read", "oldData", "newData"}
    BY <1>1, <1>5, TargetPlace, DiskFacts
  <2>3. pc' = "idle"
    BY <1>1, <2>1, <2>2, FailEffect
  <2>4. FirstRow[ParityDisk] = Zero
    <3>1. \A d \in DataDisks : vol[d] = Zero
      BY <1>1, <2>1, FirstBlocks DEF EmptyVolume, Calm
    <3> QED BY <1>1, <3>1, XorOverZero, RowFacts
  <2>5. StripeData'
    BY <1>1, <1>2, <1>3, <1>5, <2>2, <2>4 DEF StripeData, Pending
  <2> QED BY <2>3, <2>5 DEF StripeRegs
<1> QED BY <1>4, <1>5

LEMMA StripeRestored ==
  ASSUME TypeOK, StripeInv, RestoreStripe, Calm, Calm'
  PROVE  StripeData' /\ StripeRegs'
<1> DEFINE k   == rst.disk
           s   == rst.stripe
           row == [d \in Disks |-> mem[d][s]]
<1>1. /\ Restoring /\ UNCHANGED <<pc, req, reg, left, acc, proc, vol>> /\ \A d \in Disks : proc[d] = "running"
      /\ mem' = [mem EXCEPT ![k][s] = XorOver(Disks \ {k}, row)]
      /\ rst' = [rst EXCEPT !.stripe = @ + 1] /\ StripeData /\ StripeRegs /\ 0 \in Stripes
  BY DEF RestoreStripe, StripeInv, Calm, Ended, history
<1>2. FirstRow' = FirstRow /\ FirstStripe' = FirstStripe
  BY <1>1, SameRow DEF FirstStripe, StripeOf
<1>3. k \in Disks /\ s \in Stripes /\ s \in Nat /\ rst'.disk = k /\ rst'.stripe = s + 1 /\ Restoring'
  BY <1>1, BlocksPerDiskAssumption DEF TypeOK, RestoreStripe, Stripes, Restoring
<1>4. \A d \in Disks : d # k => mem'[d] = mem[d] /\ mem[d][0] = FirstRow[d]
  BY <1>1, <1>3 DEF TypeOK, StripeData, Pending
<1>5. mem'[k][0] = FirstRow[k]
  <2>1. CASE s = 0
    <3>1. mem'[k][0] = XorOver(Disks \ {k}, row)
      BY <1>1, <1>3, <2>1 DEF TypeOK
    <3>2. \A d \in Disks \ {k} : row[d] = FirstRow[d]
      BY <1>4, <2>1
    <3> HIDE DEF row
    <3>3. XorOver(Disks \ {k}, row) = XorOver(Disks \ {k}, FirstRow)
      BY <3>2, XorOverSame
    <3> QED BY <1>1, <1>3, <3>1, <3>3, RowFacts
  <2>2. CASE s # 0
    <3>1. mem'[k][0] = mem[k][0]
      BY <1>1, <1>3, <2>2 DEF TypeOK
    <3> QED BY <1>1, <1>3, <2>2, <3>1 DEF StripeData, Pending
  <2> QED BY <2>1, <2>2
<1>6. StripeData'
  BY <1>2, <1>4, <1>5 DEF StripeData
<1> QED BY <1>1, <1>2, <1>6 DEF StripeRegs

LEMMA StripeNext == TypeOK /\ StripeInv /\ [Next]_vars => StripeInv'
<1> SUFFICES ASSUME TypeOK, StripeInv, [Next]_vars, Calm' PROVE StripeData' /\ StripeRegs'
  BY OutNext, ReadsNext DEF StripeInv
<1> USE DEF ctlVars, diskVars, history
<1>0. ASSUME pc \notin Ended, spread' = FALSE => spread = FALSE, stale' = FALSE => stale = FALSE
      PROVE  Calm /\ StripeData /\ StripeRegs
  BY <1>0 DEF Calm, StripeInv, TypeOK
<1>1. ASSUME NEW cmd, NEW b, NEW v, NEW first \in {"read", "oldData"}, Begin(cmd, b, v, first)
      PROVE  StripeData' /\ StripeRegs'
  <2>1. /\ pc = "idle" /\ pc' \in {"idle", "read", "oldData"}
        /\ UNCHANGED <<rst, proc, mem, vol, spread, stale>>
    BY <1>1 DEF Begin, Idle
  <2>2. ~Restoring /\ StripeData
    BY <1>0, <2>1 DEF TypeOK, Reading, Writing, Ended
  <2> QED BY <2>1, <2>2, StripeKept DEF StripeRegs, Pending
<1>2. ASSUME NEW d \in Disks, KillCmd(d) PROVE StripeData' /\ StripeRegs'
  <2>1. /\ pc = "idle" /\ pc' = "idle" /\ UNCHANGED <<req, rst, mem, vol, spread, stale>>
        /\ proc' = [proc EXCEPT ![d] = "reaped"]
    BY <1>2 DEF KillCmd, Idle, Dies, Calm, Ended
  <2>2. \A e \in Disks : proc'[e] = "running" => proc[e] = "running"
    BY <2>1 DEF TypeOK
  <2>3. StripeData
    BY <1>0, <2>1 DEF Ended
  <2> QED BY <2>1, <2>2, <2>3, StripeKept DEF StripeRegs, Pending, Restoring
<1>3. CASE ReadBlockFromDisk
  BY <1>0, <1>3, StripeRead DEF ReadBlockFromDisk, Accessing, Reading, Ended
<1>4. CASE WriteBlockToDisk
  <2>1. pc \notin Ended /\ (spread' = FALSE => spread = FALSE) /\ stale' = stale
    BY <1>4 DEF WriteBlockToDisk, Accessing, Writing, Ended, TypeOK
  <2> QED BY <1>0, <1>4, <2>1, StripeWrite
<1>5. CASE ReadFails
  <2>1. /\ pc \in Reading /\ ~Restoring /\ Fail(Target) /\ Target \in Disks
        /\ UNCHANGED <<req, rst, mem, vol, spread, stale>>
        /\ proc' = [proc EXCEPT ![Target] = "zombie"]
    BY <1>5, TargetPlace DEF ReadFails, Accessing, Dies
  <2>2. StripeData
    BY <1>0, <2>1 DEF Reading, Ended
  <2>3. \A e \in Disks : proc'[e] = "running" => proc[e] = "running"
    BY <2>1 DEF TypeOK
  <2>4. StripeData'
    BY <2>1, <2>2, <2>3, StripeKept DEF Pending, Reading
  <2>5. StripeRegs'
    BY <2>1, FailEffect, RecoveryStarts DEF StripeRegs, FirstStripe, StripeOf
  <2> QED BY <2>4, <2>5
<1>6. CASE SendFails
  <2>1. pc \notin Ended /\ spread' = spread /\ (stale' = FALSE => stale = FALSE)
    <3>1. pc \notin Ended /\ spread' = spread
      BY <1>6 DEF SendFails, Accessing, Reading, Writing, Ended
    <3>2. stale' = stale \/ stale' = (stale \/ vol # EmptyVolume)
      BY <1>6 DEF SendFails
    <3>3. stale \in BOOLEAN
      BY DEF TypeOK
    <3> QED BY <3>1, <3>2, <3>3
  <2> QED BY <1>0, <1>6, <2>1, StripeSendFails
<1>7. CASE RestoreStripe
  <2>1. pc \notin Ended /\ spread' = spread /\ stale' = stale
    BY <1>7 DEF RestoreStripe, TypeOK, Reading, Writing, Ended
  <2> QED BY <1>0, <1>7, <2>1, StripeRestored
<1>8. CASE RestoreDone
  <2>1. /\ Restoring /\ pc \in Reading \cup Writing /\ Fail(Target) /\ rst.disk = Target
        /\ UNCHANGED <<req, proc, mem, vol, spread, stale>> /\ rst.stripe = BlocksPerDisk
    BY <1>8 DEF RestoreDone, TypeOK
  <2>2. StripeData /\ 0 \in Stripes
    BY <1>0, <2>1 DEF Reading, Writing, Ended, Calm
  <2>3. \A d : ~Pending(d)
    BY <2>1, <2>2, BlocksPerDiskAssumption DEF Pending, Stripes
  <2>4. StripeData'
    BY <2>1, <2>2, <2>3, StripeKept
  <2>5. StripeRegs'
    BY <2>1, FailEffect, RecoveryStarts DEF StripeRegs, FirstStripe, StripeOf
  <2> QED BY <2>4, <2>5
<1>9. ASSUME NEW d \in Disks, Crash(d) PROVE StripeData' /\ StripeRegs'
  <2>1. /\ pc \notin Ended /\ UNCHANGED <<pc, ctlVars, mem, vol, spread, stale>>
        /\ proc' = [proc EXCEPT ![d] = "zombie"]
    BY <1>9 DEF Crash, Dies, Ended
  <2>2. \A e \in Disks : proc'[e] = "running" => proc[e] = "running"
    BY <2>1 DEF TypeOK
  <2>3. StripeData /\ StripeRegs
    BY <1>0, <2>1
  <2>4. StripeData'
    BY <2>1, <2>2, <2>3, StripeKept DEF Pending, Restoring
  <2> QED BY <2>1, <2>3, <2>4, SameRow DEF StripeRegs, FirstStripe, StripeOf
<1>10. CASE UNCHANGED vars
  <2>1. StripeData /\ StripeRegs
    BY <1>0, <1>10 DEF vars, Calm
  <2> QED BY <1>10, <2>1, SameRow DEF vars, StripeData, StripeRegs, FirstStripe, StripeOf, Pending, Restoring
<1>11. CASE Shell
  BY <1>1, <1>2, <1>11 DEF Shell, ReadCmd, WriteCmd, ExitCmd, Calm, Ended
<1> QED BY <1>3, <1>4, <1>5, <1>6, <1>7, <1>8, <1>9, <1>10, <1>11
        DEF Next, Controller, Terminated

(* Reads of the first stripe are right, through any number of commands,    *)
(* deaths and restores: the restored block, the recovered one and the      *)
(* parity after a small write are those of the layout.                     *)
THEOREM ReadsCorrect == Spec => []ReadsRight
<1>1. Spec => []StripeInv
  BY StripeInit, StripeNext, TypeCorrect, PTL DEF Spec
<1>2. StripeInv => ReadsRight
  BY DEF StripeInv
<1> QED BY <1>1, <1>2, PTL

-----------------------------------------------------------------------------
(* The parity disk.                                                        *)

LEMMA OneMoreDeath ==
  ASSUME TypeOK, OnlyParityDied', NEW d \in Disks
  PROVE  /\ deaths' = deaths => OnlyParityDied
         /\ deaths' = Append(deaths, d) => OnlyParityDied /\ d = ParityDisk
<1>1. ASSUME deaths' = Append(deaths, d) PROVE OnlyParityDied /\ d = ParityDisk
  <2> DEFINE n == Len(deaths)
  <2>1. /\ n \in Nat /\ DOMAIN deaths = 1 .. n /\ DOMAIN deaths' = 1 .. n + 1
        /\ deaths'[n + 1] = d /\ \A i \in 1 .. n : deaths'[i] = deaths[i]
    BY <1>1, AppendProperties, LenProperties DEF TypeOK
  <2> HIDE DEF n
  <2> QED BY <2>1 DEF OnlyParityDied
<1> QED BY <1>1 DEF OnlyParityDied

LEMMA ChangeTypes ==
  ASSUME TypeOK, NEW p
  PROVE  IsFiniteSet(Sharing(p)) /\ \A b \in Blocks : Change[b] \in Block
<1>1. IsFiniteSet(Blocks)
  BY NumDisksAssumption, BlocksPerDiskAssumption, FS_Interval DEF Blocks
<1>2. Sharing(p) \subseteq Blocks
  BY DEF Sharing
<1>3. IsFiniteSet(Sharing(p))
  BY <1>1, <1>2, FS_Subset
<1>4. \A b \in Blocks : Change[b] \in Block
  BY XorAlgebra DEF Change, TypeOK
<1> QED BY <1>3, <1>4

(* A small write changes the sum of its parity block by the block it       *)
(* changes, and no other sum.                                              *)
LEMMA ChangeUpdate ==
  ASSUME TypeOK, NEW b \in Blocks, NEW p, vol' = [vol EXCEPT ![b] = req.data], base' = base
  PROVE  /\ ParitySlot(b) = p =>
              XorOver(Sharing(p), Change') = Xor(Xor(XorOver(Sharing(p), Change), vol[b]), req.data)
         /\ ParitySlot(b) # p => XorOver(Sharing(p), Change') = XorOver(Sharing(p), Change)
<1> DEFINE S == Sharing(p)
           w == Change'
<1>1. /\ vol[b] \in Block /\ base[b] \in Block /\ req.data \in Block
      /\ IsFiniteSet(S) /\ Change[b] \in Block /\ S \subseteq Blocks
  BY ChangeTypes DEF TypeOK, Sharing
<1>2. /\ w[b] = Xor(req.data, base[b]) /\ Change[b] = Xor(vol[b], base[b])
      /\ \A c \in Blocks \ {b} : w[c] = Change[c]
  BY DEF Change, TypeOK
<1>3. w[b] \in Block
  BY <1>1, <1>2, XorAlgebra
<1>4. b \in S <=> ParitySlot(b) = p
  BY DEF Sharing
<1> HIDE DEF S, w
<1>5. ASSUME b \in S
      PROVE  XorOver(S, w) = Xor(Xor(XorOver(S, Change), vol[b]), req.data)
  <2>1. XorOver(S, w) = Xor(Xor(XorOver(S, Change), Change[b]), w[b])
    BY <1>1, <1>2, <1>3, <1>5, XorOverUpdate
  <2>2. \A x, u, v, a \in Block : Xor(Xor(x, Xor(u, a)), Xor(v, a)) = Xor(Xor(x, u), v)
    BY DEF Block, Xor
  <2>3. XorOver(S, Change) \in Block
    BY XorOverType
  <2> QED BY <1>1, <1>2, <2>1, <2>2, <2>3
<1>6. ASSUME b \notin S PROVE XorOver(S, w) = XorOver(S, Change)
  BY <1>1, <1>2, <1>6, XorOverSame
<1> QED BY <1>4, <1>5, <1>6 DEF S, w

LEMMA SameChange == vol' = vol /\ base' = base => Change' = Change
BY DEF Change

LEMMA TrackWrite ==
  ASSUME TypeOK, Tracked, WriteBlockToDisk
  PROVE  Tracked'
<1>1. /\ pc \in Writing /\ UNCHANGED <<req, reg, left, rst, proc, base>> /\ Target \in Disks
      /\ req.blk \in Blocks /\ Slot \in Stripes /\ ~Restoring'
  BY TargetPlace DEF WriteBlockToDisk, Accessing, ctlVars, TypeOK, Restoring
<1>2. req.blk % NumDisks \in DataDisks /\ StripeOf(req.blk) \in Stripes /\ ParitySlot(req.blk) \in Stripes
  BY <1>1, BlockPlace, ParityPlace
<1>3. CASE pc = "newParity"
  <2>1. /\ mem' = [mem EXCEPT ![ParityDisk][ParitySlot(req.blk)] = NewParity] /\ pc' = "newData"
        /\ vol' = [vol EXCEPT ![req.blk] = req.data]
    BY <1>3, TargetPlace DEF WriteBlockToDisk, CmdWrite
  <2>2. vol'[req.blk] = req.data /\ \A b \in Blocks : b # req.blk => vol'[b] = vol[b]
    BY <1>1, <2>1 DEF TypeOK
  <2>3. /\ \A d \in DataDisks : mem'[d] = mem[d]
        /\ mem'[ParityDisk][ParitySlot(req.blk)] = NewParity
        /\ \A p \in Stripes : p # ParitySlot(req.blk) => mem'[ParityDisk][p] = mem[ParityDisk][p]
    BY <1>2, <2>1, DiskFacts DEF TypeOK
  <2>4. NewParity = Xor(Xor(XorOver(Sharing(ParitySlot(req.blk)), Change), vol[req.blk]), req.data)
    BY <1>2, <1>3 DEF Tracked, NewParity
  <2>5. ASSUME NEW p \in Stripes PROVE mem'[ParityDisk][p] = XorOver(Sharing(p), Change')
    <3>1. /\ ParitySlot(req.blk) = p =>
               XorOver(Sharing(p), Change') = Xor(Xor(XorOver(Sharing(p), Change), vol[req.blk]), req.data)
          /\ ParitySlot(req.blk) # p => XorOver(Sharing(p), Change') = XorOver(Sharing(p), Change)
      BY <1>1, <2>1, ChangeUpdate
    <3>2. CASE ParitySlot(req.blk) = p
      BY <2>3, <2>4, <3>1, <3>2
    <3>3. CASE ParitySlot(req.blk) # p
      BY <2>3, <3>1, <3>3 DEF Tracked
    <3> QED BY <3>2, <3>3
  <2>6. \A b \in Blocks : b = req.blk \/ mem'[b % NumDisks][StripeOf(b)] = vol'[b]
    BY <1>3, <2>2, <2>3, BlockPlace DEF Tracked
  <2>7. \A p : Sharing(p)' = Sharing(p)
    BY DEF Sharing, ParitySlot, StripeOf
  <2>8. \A p \in Stripes : mem'[ParityDisk][p] = XorOver(Sharing(p), Change)'
    BY <2>5, <2>7
  <2> QED BY <1>1, <2>1, <2>2, <2>6, <2>8 DEF Tracked, StripeOf
<1>4. CASE pc = "newData"
  <2>1. /\ mem' = [mem EXCEPT ![req.blk % NumDisks][StripeOf(req.blk)] = req.data] /\ pc' = "idle"
        /\ vol' = vol
    BY <1>4, TargetPlace DEF WriteBlockToDisk, CmdWrite, Return
  <2>2. /\ mem'[ParityDisk] = mem[ParityDisk]
        /\ mem'[req.blk % NumDisks][StripeOf(req.blk)] = req.data
        /\ \A d \in DataDisks, s \in Stripes :
             d # req.blk % NumDisks \/ s # StripeOf(req.blk) => mem'[d][s] = mem[d][s]
    BY <1>2, <2>1, DiskFacts DEF TypeOK
  <2>3. ASSUME NEW b \in Blocks PROVE mem'[b % NumDisks][StripeOf(b)] = vol'[b]
    <3>1. CASE b = req.blk
      BY <1>4, <2>1, <2>2, <3>1 DEF Tracked
    <3>2. CASE b # req.blk
      <4>1. b % NumDisks # req.blk % NumDisks \/ StripeOf(b) # StripeOf(req.blk)
        BY <1>1, <3>2, BlockPlace
      <4>2. mem'[b % NumDisks][StripeOf(b)] = mem[b % NumDisks][StripeOf(b)]
        BY <2>2, <4>1, BlockPlace
      <4> QED BY <2>1, <3>2, <4>2 DEF Tracked
    <3> QED BY <3>1, <3>2
  <2>4. \A p \in Stripes : mem'[ParityDisk][p] = XorOver(Sharing(p), Change)'
    BY <1>1, <2>1, <2>2, SameChange DEF Tracked, Sharing, ParitySlot, StripeOf
  <2> QED BY <1>1, <2>1, <2>3, <2>4 DEF Tracked, StripeOf
<1> QED BY <1>1, <1>3, <1>4 DEF Writing

(* Steps that leave what is written alone.                                 *)
LEMMA TrackKept ==
  ASSUME Tracked, UNCHANGED <<mem, vol, base>>, ~Restoring', pc' # "recover", pc # "newData" \/ pc' = pc,
         \A d \in DataDisks : proc'[d] = "running", req' = req \/ pc # "newData",
         pc' \in {"newData", "oldParity", "newParity"} => pc' = pc /\ UNCHANGED <<req, reg>>
  PROVE  Tracked'
<1>1. \A p : Sharing(p)' = Sharing(p)
  BY DEF Sharing, ParitySlot, StripeOf
<1>2. \A p \in Stripes : mem'[ParityDisk][p] = XorOver(Sharing(p), Change)'
  BY <1>1, SameChange DEF Tracked
<1>3. \A b \in Blocks : (pc' = "newData" /\ b = req'.blk) \/ mem'[b % NumDisks][StripeOf(b)] = vol'[b]
  BY DEF Tracked
<1> QED BY <1>2, <1>3 DEF Tracked, StripeOf, ParitySlot

LEMMA TrackRead ==
  ASSUME TypeOK, Tracked, ReadBlockFromDisk
  PROVE  Tracked'
<1>1. /\ pc \in Reading /\ UNCHANGED <<req, rst, proc, mem, vol, base>> /\ ~Restoring' /\ pc # "recover"
      /\ req.blk \in Blocks
  BY DEF ReadBlockFromDisk, Accessing, Tracked, diskVars, history, Restoring, TypeOK
<1>2. CASE pc = "read"
  BY <1>1, <1>2, TrackKept DEF ReadBlockFromDisk, Return, Tracked
<1>3. CASE pc = "oldData"
  <2>1. pc' = "oldParity" /\ reg' = [reg EXCEPT !.data = mem[Target][Slot]]
    BY <1>3 DEF ReadBlockFromDisk, CmdRead
  <2>2. reg'.data = mem[req.blk % NumDisks][StripeOf(req.blk)]
    BY <1>1, <1>3, <2>1, TargetPlace DEF TypeOK
  <2>3. reg'.data = vol[req.blk]
    BY <1>1, <1>3, <2>2 DEF Tracked
  <2> QED BY <1>1, <1>3, <2>1, <2>3, SameChange DEF Tracked, Sharing, StripeOf, ParitySlot
<1>4. CASE pc = "oldParity"
  <2>1. pc' = "newParity" /\ reg' = [reg EXCEPT !.parity = mem[Target][Slot]]
    BY <1>4 DEF ReadBlockFromDisk, CmdRead
  <2>2. reg'.parity = mem[ParityDisk][ParitySlot(req.blk)] /\ reg'.data = reg.data
    BY <1>1, <1>4, <2>1, TargetPlace DEF TypeOK
  <2>3. reg'.data = vol[req.blk]
    BY <1>4, <2>2 DEF Tracked
  <2> QED BY <1>1, <1>4, <2>1, <2>2, <2>3, SameChange DEF Tracked, Sharing, StripeOf, ParitySlot
<1> QED BY <1>1, <1>2, <1>3, <1>4 DEF Reading

(* A parity disk that is restarted is zero, and nothing has changed since. *)
LEMMA TrackSendFails ==
  ASSUME TypeOK, Tracked, SendFails
  PROVE  Tracked'
<1>1. /\ pc \in Reading \cup Writing /\ Target \in Disks /\ proc[Target] # "running" /\ ~Restoring
      /\ proc' = [proc EXCEPT ![Target] = "running"] /\ mem' = [mem EXCEPT ![Target] = ZeroDisk]
      /\ UNCHANGED <<req, reg, vol>>
  BY TargetPlace DEF SendFails, Accessing
<1>2. Target = ParityDisk
  BY <1>1, DiskFacts DEF Tracked
<1>3. pc \in {"oldParity", "newParity"}
  BY <1>1, <1>2, TargetPlace, DiskFacts DEF Tracked, Reading, Writing
<1>4. base' = vol /\ rst' = rst /\ Fail(Target)
  BY <1>2 DEF SendFails
<1>5. pc' = "idle"
  BY <1>1, <1>3, <1>4, FailEffect
<1>6. mem'[ParityDisk] = ZeroDisk /\ \A d \in DataDisks : mem'[d] = mem[d] /\ proc'[d] = "running"
  BY <1>1, <1>2, DiskFacts DEF TypeOK, Tracked
<1>7. \A b \in Blocks : Change'[b] = Zero
  BY <1>1, <1>4, XorAlgebra DEF Change, TypeOK
<1>8. \A p \in Stripes : XorOver(Sharing(p), Change)' = Zero
  <2> SUFFICES ASSUME NEW p \in Stripes PROVE XorOver(Sharing(p)', Change') = Zero
    OBVIOUS
  <2>1. \A b \in Sharing(p)' : Change'[b] = Zero
    BY <1>7 DEF Sharing
  <2> QED BY <2>1, XorOverZero
<1>9. \A p \in Stripes : mem'[ParityDisk][p] = XorOver(Sharing(p), Change)'
  BY <1>6, <1>8 DEF ZeroDisk
<1>10. \A b \in Blocks : mem'[b % NumDisks][StripeOf(b)] = vol'[b]
  BY <1>1, <1>3, <1>6, BlockPlace DEF Tracked
<1> QED BY <1>1, <1>4, <1>5, <1>6, <1>9, <1>10 DEF Tracked, Restoring, StripeOf

LEMMA TrackNext == TypeOK /\ TrackInv /\ [Next]_vars => TrackInv'
<1> SUFFICES ASSUME TypeOK, TrackInv, [Next]_vars, pc' \notin Ended, OnlyParityDied' PROVE Tracked'
  BY DEF TrackInv
<1> USE DEF ctlVars, diskVars, history
<1>0. ASSUME pc \notin Ended, deaths' = deaths PROVE Tracked
  BY <1>0, OneMoreDeath, DiskFacts DEF TrackInv
<1>1. ASSUME NEW cmd, NEW b, NEW v, NEW first \in {"read", "oldData"}, Begin(cmd, b, v, first)
      PROVE  Tracked'
  <2>1. /\ pc = "idle" /\ pc' \in {"idle", "read", "oldData"}
        /\ UNCHANGED <<rst, proc, mem, vol, base, deaths>>
    BY <1>1 DEF Begin, Idle
  <2>2. Tracked
    BY <1>0, <2>1 DEF Ended
  <2> QED BY <2>1, <2>2, TrackKept DEF Tracked, Restoring
<1>2. ASSUME NEW d \in Disks, NEW how, Dies(d, how), pc \notin Ended
      PROVE  Tracked /\ d = ParityDisk /\ \A e \in DataDisks : proc'[e] = "running"
  <2>1. Tracked /\ d = ParityDisk
    BY <1>2, OneMoreDeath DEF Dies, TrackInv
  <2> QED BY <1>2, <2>1, DiskFacts DEF Dies, TypeOK, Tracked
<1>3. ASSUME NEW d \in Disks, KillCmd(d) PROVE Tracked'
  <2>1. pc = "idle" /\ pc' = "idle" /\ UNCHANGED <<req, reg, rst, mem, vol, base>>
    BY <1>3 DEF KillCmd, Idle, Ended
  <2>2. Tracked /\ \A e \in DataDisks : proc'[e] = "running"
    <3>1. CASE Dies(d, "reaped")
      BY <1>2, <2>1, <3>1 DEF Ended
    <3>2. CASE ~Dies(d, "reaped")
      <4>1. proc[d] = "zombie" /\ proc' = [proc EXCEPT ![d] = "reaped"] /\ deaths' = deaths
        BY <1>3, <2>1, <3>2 DEF KillCmd
      <4>2. Tracked
        BY <1>0, <2>1, <4>1 DEF Ended
      <4> QED BY <4>1, <4>2, DiskFacts DEF Tracked, TypeOK
    <3> QED BY <3>1, <3>2
  <2> QED BY <2>1, <2>2, TrackKept DEF Tracked, Restoring
<1>4. CASE ReadBlockFromDisk
  BY <1>0, <1>4, TrackRead DEF ReadBlockFromDisk, Accessing, Reading, Ended
<1>5. CASE WriteBlockToDisk
  BY <1>0, <1>5, TrackWrite DEF WriteBlockToDisk, Accessing, Writing, Ended
<1>6. CASE ReadFails
  <2>1. /\ pc \in Reading /\ ~Restoring /\ Fail(Target) /\ Target \in Disks /\ Dies(Target, "zombie")
        /\ UNCHANGED <<req, reg, rst, mem, vol, base>>
    BY <1>6, TargetPlace DEF ReadFails, Accessing
  <2>2. Tracked /\ Target = ParityDisk /\ \A e \in DataDisks : proc'[e] = "running"
    BY <1>2, <2>1 DEF Reading, Ended
  <2>3. pc = "oldParity"
    BY <2>1, <2>2, TargetPlace, DiskFacts DEF Tracked, Reading
  <2>4. pc' = "idle"
    BY <2>1, <2>3, FailEffect
  <2> QED BY <2>1, <2>2, <2>3, <2>4, TrackKept DEF Restoring
<1>7. CASE SendFails
  BY <1>0, <1>7, TrackSendFails DEF SendFails, Accessing, Reading, Writing, Ended
<1>8. ~RestoreStripe /\ ~RestoreDone
  <2>1. RestoreStripe \/ RestoreDone => Restoring /\ deaths' = deaths /\ pc \notin Ended
    BY DEF RestoreStripe, RestoreDone, TypeOK, Reading, Writing, Ended
  <2> QED BY <1>0, <2>1 DEF Tracked
<1>9. ASSUME NEW d \in Disks, Crash(d) PROVE Tracked'
  <2>1. UNCHANGED <<pc, req, reg, rst, mem, vol, base>> /\ Tracked
        /\ \A e \in DataDisks : proc'[e] = "running"
    BY <1>2, <1>9 DEF Crash, Ended
  <2> QED BY <2>1, TrackKept DEF Tracked, Restoring
<1>10. CASE UNCHANGED vars
  <2>1. Tracked
    BY <1>0, <1>10 DEF vars
  <2> QED BY <1>10, <2>1, TrackKept DEF vars, Tracked, Restoring
<1>11. CASE Shell
  BY <1>1, <1>3, <1>11 DEF Shell, ReadCmd, WriteCmd, ExitCmd, Ended
<1> QED BY <1>4, <1>5, <1>6, <1>7, <1>8, <1>9, <1>10, <1>11
        DEF Next, Controller, Terminated

LEMMA TrackInit == Init => TrackInv
<1> SUFFICES ASSUME Init PROVE Tracked
  BY DEF TrackInv
<1>1. /\ TypeOK /\ vol = EmptyVolume /\ base = vol /\ mem = [d \in Disks |-> ZeroDisk] /\ pc = "idle"
      /\ ~Restoring /\ \A d \in Disks : proc[d] = "running"
  BY InitType DEF Init, NoRestore, Restoring
<1>2. \A b \in Blocks : Change[b] = Zero
  BY <1>1, XorAlgebra DEF Change, TypeOK
<1>3. \A p \in Stripes : XorOver(Sharing(p), Change) = Zero
  <2> SUFFICES ASSUME NEW p \in Stripes PROVE XorOver(Sharing(p), Change) = Zero
    OBVIOUS
  <2>1. \A b \in Sharing(p) : Change[b] = Zero
    BY <1>2 DEF Sharing
  <2> QED BY <2>1, XorOverZero
<1>4. \A b \in Blocks : mem[b % NumDisks][StripeOf(b)] = vol[b]
  BY <1>1, BlockPlace, DiskFacts DEF EmptyVolume, ZeroDisk
<1>5. \A p \in Stripes : mem[ParityDisk][p] = Zero
  BY <1>1, DiskFacts DEF ZeroDisk
<1> QED BY <1>1, <1>3, <1>4, <1>5, DiskFacts DEF Tracked

(* While no data disk has died, every parity block is the sum of what was  *)
(* written since the parity disk was started, over the stripes that the    *)
(* second division maps to it, for any number of disks and blocks.         *)
THEOREM ParityCorrect == Spec => []ParityTracksChanges
<1>1. Spec => []TrackInv
  BY TrackInit, TrackNext, TypeCorrect, PTL DEF Spec
<1>2. TrackInv => ParityTracksChanges
  BY DEF TrackInv, Tracked, OnlyParityDied, ParityTracksChanges, Ended, Sharing, Change
<1> QED BY <1>1, <1>2, PTL

=============================================================================
