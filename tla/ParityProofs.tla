---------------------------- MODULE ParityProofs ----------------------------
(***************************************************************************)
(* The algebra of parity: what the loops of write_block and                *)
(* restore_disk_process compute, for any number of disks.                  *)
(***************************************************************************)
EXTENDS ParityFile, FiniteSetTheorems, WellFoundedInduction, TLAPS

(* A loop over disk numbers has a next one as long as one is left.         *)
LEMMA MinExists ==
  ASSUME NEW T \in SUBSET Nat, T # {}
  PROVE  \E m \in T : \A j \in T : m =< j
<1>1. PICK x \in T : \A y \in T : ~(<<y, x>> \in OpToRel(<, Nat))
  BY NatLessThanWellFounded, WFMin, Zenon
<1>2. \A y \in T : ~(y < x)
  BY <1>1 DEF OpToRel
<1> QED BY <1>2

(* A block number gives back the disk and the stripe it was computed from. *)
LEMMA DivMod ==
  ASSUME NEW N \in Nat \ {0}, NEW s \in Nat, NEW d \in 0 .. N - 1
  PROVE  (s * N + d) % N = d /\ (s * N + d) \div N = s
<1> DEFINE x == s * N + d
           q == x \div N
           r == x % N
<1>1. x \in Nat
  OBVIOUS
<1>2. q \in Int /\ r \in 0 .. N - 1 /\ x = N * q + r
  BY <1>1
<1>3. N * (q - s) = d - r
  BY <1>2
<1>4. CASE q > s
  <2>1. N * (q - s) >= N
    BY <1>2, <1>4
  <2> QED BY <2>1, <1>2, <1>3
<1>5. CASE q < s
  <2>1. N * (q - s) =< -N
    BY <1>2, <1>5
  <2> QED BY <2>1, <1>2, <1>3
<1>6. q = s
  BY <1>2, <1>4, <1>5
<1>7. r = d
  BY <1>2, <1>3, <1>6
<1> QED BY <1>6, <1>7

(* A block number is that of its disk and its stripe.                      *)
LEMMA DivSplit ==
  ASSUME NEW N \in Nat \ {0}, NEW M \in Nat, NEW b \in 0 .. N * M - 1
  PROVE  /\ b \div N \in 0 .. M - 1 /\ b % N \in 0 .. N - 1
         /\ b = (b \div N) * N + (b % N)
<1> DEFINE q == b \div N
           r == b % N
<1>0. b \in Nat /\ b < N * M
  OBVIOUS
<1>1. q \in Nat /\ r \in 0 .. N - 1 /\ b = N * q + r
  <2>1. q \in Int /\ r \in 0 .. N - 1 /\ b = N * q + r
    BY <1>0
  <2>2. CASE q < 0
    <3>1. N * q =< -N
      BY <2>1, <2>2
    <3> QED BY <1>0, <2>1, <3>1
  <2> QED BY <2>1, <2>2
<1>2. q < M
  <2>1. CASE q >= M
    <3>1. N * q >= N * M
      BY <1>1, <2>1
    <3> QED BY <1>0, <1>1, <3>1
  <2> QED BY <1>1, <2>1
<1>3. q \in 0 .. M - 1 /\ r \in 0 .. N - 1
  BY <1>1, <1>2
<1>4. b = q * N + r
  BY <1>1
<1> QED BY <1>3, <1>4

(* Blocks under ^= form a group in which every block is its own inverse.   *)
LEMMA XorAlgebra ==
  ASSUME NEW a \in Block, NEW b \in Block, NEW c \in Block
  PROVE  /\ Xor(a, b) \in Block
         /\ Xor(a, b) = Xor(b, a)
         /\ Xor(Xor(a, b), c) = Xor(a, Xor(b, c))
         /\ Xor(a, Zero) = a
         /\ Xor(a, a) = Zero
         /\ Xor(Xor(a, b), b) = a
  BY DEF Block, Xor, Zero

LEMMA XorOverType == ASSUME NEW D, NEW row PROVE XorOver(D, row) \in Block
  BY DEF XorOver, Block

(* memset: the parity of no block is zero.                                 *)
LEMMA XorOverEmpty == ASSUME NEW row PROVE XorOver({}, row) = Zero
<1>1. \A b : Holders({}, row, b) = {}
  BY DEF Holders
<1>2. Cardinality({}) = 0
  BY FS_EmptySet
<1> QED BY <1>1, <1>2 DEF XorOver, Zero

(* Nor of any number of zeros.                                             *)
LEMMA XorOverZero ==
  ASSUME NEW D, NEW row, \A d \in D : row[d] = Zero
  PROVE  XorOver(D, row) = Zero
<1>1. \A b : Holders(D, row, b) = {}
  BY DEF Holders, Zero
<1>2. Cardinality({}) = 0
  BY FS_EmptySet
<1> QED BY <1>1, <1>2 DEF XorOver, Zero

(* One step of a ^= loop.                                                  *)
LEMMA XorOverAdd ==
  ASSUME NEW D, IsFiniteSet(D), NEW row, NEW k, k \notin D, row[k] \in Block
  PROVE  XorOver(D \cup {k}, row) = Xor(XorOver(D, row), row[k])
<1>1. ASSUME NEW b \in Bit
      PROVE  b \in XorOver(D \cup {k}, row) <=> b \in Xor(XorOver(D, row), row[k])
  <2> DEFINE H == Holders(D, row, b)
  <2>1. IsFiniteSet(H) /\ Cardinality(H) \in Nat
    BY FS_Subset, FS_CardinalityType DEF Holders
  <2>2. k \notin H
    BY DEF Holders
  <2>3. b \in XorOver(D, row) <=> Cardinality(H) % 2 = 1
    BY DEF XorOver
  <2>4. b \in XorOver(D \cup {k}, row) <=> Cardinality(Holders(D \cup {k}, row, b)) % 2 = 1
    BY DEF XorOver
  <2>5. CASE b \in row[k]
    <3>1. Holders(D \cup {k}, row, b) = H \cup {k}
      BY <2>5 DEF Holders
    <3>2. Cardinality(H \cup {k}) = Cardinality(H) + 1
      BY <2>1, <2>2, FS_AddElement
    <3>3. \A n \in Nat : (n + 1) % 2 = 1 <=> ~(n % 2 = 1)
      OBVIOUS
    <3>4. b \in XorOver(D \cup {k}, row) <=> b \notin XorOver(D, row)
      BY <2>1, <2>3, <2>4, <3>1, <3>2, <3>3
    <3> QED BY <2>5, <3>4 DEF Xor
  <2>6. CASE b \notin row[k]
    <3>1. Holders(D \cup {k}, row, b) = H
      BY <2>6 DEF Holders
    <3> QED BY <2>3, <2>4, <2>6, <3>1 DEF Xor
  <2> QED BY <2>5, <2>6
<1>2. XorOver(D \cup {k}, row) \subseteq Bit /\ Xor(XorOver(D, row), row[k]) \subseteq Bit
  BY DEF XorOver, Xor, Block
<1> QED BY <1>1, <1>2

(* Only the blocks of the disks in D count.                                *)
LEMMA XorOverSame ==
  ASSUME NEW D, NEW row, NEW row2, \A d \in D : row2[d] = row[d]
  PROVE  XorOver(D, row2) = XorOver(D, row)
<1>1. \A b : Holders(D, row2, b) = Holders(D, row, b)
  BY DEF Holders
<1> QED BY <1>1 DEF XorOver

(* A disk's block out of the parity of a set of disks.                     *)
LEMMA XorOverRemove ==
  ASSUME NEW D, IsFiniteSet(D), NEW row, NEW k \in D, row[k] \in Block
  PROVE  XorOver(D, row) = Xor(XorOver(D \ {k}, row), row[k])
<1>1. IsFiniteSet(D \ {k}) /\ k \notin D \ {k} /\ D = (D \ {k}) \cup {k}
  BY FS_RemoveElement
<1> HIDE DEF Xor
<1> QED BY <1>1, XorOverAdd

(* The small write of write_block, steps 3 and 4: the parity of the stripe *)
(* after one block of it has changed.                                      *)
LEMMA XorOverUpdate ==
  ASSUME NEW D, IsFiniteSet(D), NEW row, NEW row2, NEW k \in D,
         row[k] \in Block, row2[k] \in Block,
         \A d \in D \ {k} : row2[d] = row[d]
  PROVE  XorOver(D, row2) = Xor(Xor(XorOver(D, row), row[k]), row2[k])
<1>1. XorOver(D, row) = Xor(XorOver(D \ {k}, row), row[k])
  BY XorOverRemove
<1>2. XorOver(D, row2) = Xor(XorOver(D \ {k}, row2), row2[k])
  BY XorOverRemove
<1>3. XorOver(D \ {k}, row2) = XorOver(D \ {k}, row)
  BY XorOverSame
<1>4. XorOver(D \ {k}, row) = Xor(XorOver(D, row), row[k])
  BY <1>1, XorAlgebra, XorOverType
<1> QED BY <1>2, <1>3, <1>4

(* The rebuild of restore_disk_process: when block p of a row is the       *)
(* parity of the others, any block of it is the parity of the rest.        *)
THEOREM RebuildAnyBlock ==
  ASSUME NEW D, IsFiniteSet(D), NEW p, p \notin D, NEW row \in [D \cup {p} -> Block],
         row[p] = XorOver(D, row), NEW d \in D \cup {p}
  PROVE  XorOver((D \cup {p}) \ {d}, row) = row[d]
<1>1. CASE d = p
  <2>1. (D \cup {p}) \ {d} = D
    BY <1>1
  <2> QED BY <1>1, <2>1
<1>2. CASE d \in D
  <2> DEFINE R == (D \ {d}) \cup {p}
  <2>1. (D \cup {p}) \ {d} = R
    BY <1>2
  <2>2. IsFiniteSet(D \ {d}) /\ p \notin D \ {d}
    BY FS_RemoveElement
  <2>3. XorOver(R, row) = Xor(XorOver(D \ {d}, row), row[p])
    BY <2>2, XorOverAdd
  <2>4. row[p] = Xor(XorOver(D \ {d}, row), row[d])
    BY <1>2, XorOverRemove
  <2>5. XorOver(D \ {d}, row) \in Block /\ row[d] \in Block
    BY XorOverType
  <2>6. \A a, b \in Block : Xor(a, Xor(a, b)) = b
    BY DEF Block, Xor
  <2> QED BY <2>1, <2>3, <2>4, <2>5, <2>6
<1> QED BY <1>1, <1>2

(* restore_block of A1 ends with the array it read: whichever block was    *)
(* deleted, and whatever the number of blocks, their size and the lengths  *)
(* of the lines, the parity block and the others bring it back.            *)
THEOREM RestoreBlockCorrect ==
  ASSUME NEW num \in Nat, NEW lines, NEW lost \in Rows(num)
  PROVE  RestoreBlock(num, lines, lost) = GetData(num, lines)
<1> DEFINE D       == Rows(num)
           data    == GetData(num, lines)
           deleted == DeleteDataBlock(lost, data)
           others  == XorOver(D \ {lost}, data)
<1>1. IsFiniteSet(D)
  BY FS_Interval DEF Rows
<1>2. data \in [D -> Block]
  BY DEF GetData, Block
<1>3. XorOver(D \ {lost}, deleted) = others
  BY <1>2, XorOverSame DEF DeleteDataBlock
<1>4. ComputeParityBlock(num, data) = Xor(others, data[lost])
  BY <1>1, <1>2, XorOverRemove DEF ComputeParityBlock
<1>5. others \in Block /\ data[lost] \in Block
  BY <1>2, XorOverType
<1>6. Xor(Xor(others, data[lost]), others) = data[lost]
  BY <1>5 DEF Block, Xor
<1>7. [deleted EXCEPT ![lost] = data[lost]] = data
  BY <1>2 DEF DeleteDataBlock
<1> QED
  BY <1>3, <1>4, <1>6, <1>7 DEF RestoreBlock, ReconstructBlock
=============================================================================
