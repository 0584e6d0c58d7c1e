---------------------------- MODULE GcListProofs -----------------------------
(***************************************************************************)
(* The list of do_list, its collector and the generator of its files, for  *)
(* any values, any number of transactions and any addresses of nodes.      *)
(***************************************************************************)
EXTENDS GcList, SequenceTheorems, FiniteSetTheorems, WellFoundedInduction, TLAPS

Elements(s) == {s[i] : i \in 1 .. Len(s)}

(* The nodes met from p on are those of s, each once, and behind the last  *)
(* is end, which is no node.                                               *)
Chain(mem, p, s, end) ==
  /\ s \in Seq(DOMAIN mem) /\ end \notin DOMAIN mem
  /\ p = IF Len(s) = 0 THEN end ELSE s[1]
  /\ \A i \in 1 .. Len(s) : mem[s[i]].next = IF i = Len(s) THEN end ELSE s[i + 1]
  /\ \A i, j \in 1 .. Len(s) : s[i] = s[j] => i = j

ValuesOf(mem, s) == [i \in 1 .. Len(s) |-> mem[s[i]].value]

FirstAt(l, v, i) ==
  /\ i \in 1 .. Len(l) /\ l[i] = v
  /\ \A j \in 1 .. Len(l) : l[j] = v => i =< j
Cut(l, i) == [j \in 1 .. Len(l) - 1 |-> l[IF j < i THEN j ELSE j + 1]]

Front(x, l) == <<x>> \o l

(* One line turns the list l into m, and a removal finds its value.        *)
Executes(l, line, m) ==
  \/ line[1] = "a" /\ m = Front(line[2], l)
  \/ line[1] = "r" /\ \E i \in 1 .. Len(l) : FirstAt(l, line[2], i) /\ m = Cut(l, i)
  \/ line[1] \in {"p", "g"} /\ m = l

(* The lines of f turn l into m; r is the list after each of them.         *)
Replays(l, f, m) ==
  \E r \in [0 .. Len(f) -> Seq(Values)] :
    /\ r[0] = l /\ r[Len(f)] = m
    /\ \A k \in 1 .. Len(f) : Executes(r[k - 1], f[k], r[k])

-----------------------------------------------------------------------------
Lines == ({"a", "r"} \X Values) \cup {<<"p">>, <<"g">>}

TypeOK ==
  /\ origin \in {"mktrans", "editor"}
  /\ state \in {"writing", "reading", "done", "crashed"}
  /\ file \in Seq(Lines) /\ lines \in 0 .. MaxLines
  /\ ll \in Int /\ cells \in Seq([value : Values, next : Int]) /\ count \in Int
  /\ heap \in [Nodes -> [value : Values \cup {0}, next : Int]]
  /\ head \in Int /\ memory \subseteq Nodes /\ inUse \subseteq memory

(* mktrans: the list it keeps has the nodes t, as many as it counts, and   *)
(* the values that the lines of its file leave.                            *)
Generates(t, end) ==
  /\ Chain(cells, ll, t, end) /\ count = Len(t) /\ Len(t) =< lines
  /\ state = "writing" => Replays(<<>>, file, ValuesOf(cells, t))

(* do_list: its list has the nodes s, all of them allocated; a collection  *)
(* leaves no others.  The lines left in a file of mktrans can be executed. *)
Runs(s) ==
  /\ Chain(heap, head, s, Null) /\ s \in Seq(Nodes)
  /\ \A i \in 1 .. Len(s) : s[i] \in memory /\ heap[s[i]].value \in Values
  /\ Len(s) + Len(file) =< lines
  /\ log # <<>> => memory = Elements(s) /\ log[2] = Len(s)
  /\ state = "writing" => Len(s) = 0
  /\ origin = "mktrans" /\ state = "reading" =>
       \E m \in Seq(Values) : Replays(ValuesOf(heap, s), file, m)

IInv ==
  /\ TypeOK /\ state # "crashed"
  /\ origin = "mktrans" => \E t \in Seq(DOMAIN cells), end \in {Null, Wild} : Generates(t, end)
  /\ \E s \in Seq(Nodes) : Runs(s)
  /\ origin = "mktrans" => out = <<>> \/ out[1] # "could not remove"

-----------------------------------------------------------------------------
(* Operators.                                                              *)

LEMMA LeastNumber ==
  ASSUME NEW S \in SUBSET Nat, S # {}
  PROVE  \E m \in S : \A k \in S : m =< k
<1>1. PICK m \in S : \A k \in S : ~(<<k, m>> \in OpToRel(<, Nat))
  BY NatLessThanWellFounded, WFMin, Zenon
<1>2. \A k \in S : ~(k < m)
  BY <1>1 DEF OpToRel
<1> QED BY <1>2

(* By induction along the walk, in the form of its first pointer that is   *)
(* another one.                                                            *)
LEMMA ChainPointers ==
  ASSUME NEW mem, NEW p, NEW s, NEW end, Chain(mem, p, s, end)
  PROVE  \A n \in 0 .. MaxLines + 1 :
           Pointers(mem, p)[n] = IF n < Len(s) THEN s[n + 1] ELSE end
<1> DEFINE next(q)  == IF q \in DOMAIN mem THEN mem[q].next ELSE q
           walks(f) == f = [n \in 0 .. MaxLines + 1 |-> IF n = 0 THEN p ELSE next(f[n - 1])]
           at       == CHOOSE f : walks(f)
           known    == [n \in 0 .. MaxLines + 1 |-> IF n < Len(s) THEN s[n + 1] ELSE end]
<1>1. Len(s) \in Nat /\ \A i \in 1 .. Len(s) : s[i] \in DOMAIN mem
  BY LenProperties, ElementOfSeq DEF Chain
<1>2. MaxLines \in Nat
  BY MaxLinesAssumption
<1>3. \A n \in 1 .. MaxLines + 1 : known[n] = next(known[n - 1])
  <2> TAKE n \in 1 .. MaxLines + 1
  <2>1. n - 1 \in 0 .. MaxLines + 1 /\ n \in 0 .. MaxLines + 1 /\ (n - 1) + 1 = n
    BY <1>2
  <2>2. CASE n - 1 < Len(s)
    <3>1. known[n - 1] = s[n] /\ n \in 1 .. Len(s)
      BY <2>1, <2>2, <1>1
    <3>2. next(known[n - 1]) = mem[s[n]].next
      BY <3>1, <1>1
    <3>3. mem[s[n]].next = IF n = Len(s) THEN end ELSE s[n + 1]
      BY <3>1 DEF Chain
    <3>4. known[n] = IF n < Len(s) THEN s[n + 1] ELSE end
      BY <2>1
    <3> QED BY <3>1, <3>2, <3>3, <3>4, <1>1
  <2>3. CASE ~(n - 1 < Len(s))
    <3>1. known[n - 1] = end /\ known[n] = end
      BY <2>1, <2>3, <1>1
    <3> QED BY <3>1 DEF Chain
  <2> QED BY <2>2, <2>3
<1>4. known[0] = p
  BY <1>1, <1>2 DEF Chain
<1>5. walks(known)
  <2>1. \A n \in 0 .. MaxLines + 1 : known[n] = IF n = 0 THEN p ELSE next(known[n - 1])
    <3> HIDE DEF known, next
    <3> QED BY <1>3, <1>4, <1>2
  <2>2. known = [n \in 0 .. MaxLines + 1 |-> known[n]]
    OBVIOUS
  <2> HIDE DEF known, next
  <2> QED BY <2>1, <2>2
<1>6. walks(at)
  BY <1>5
<1>7. \A n \in 0 .. MaxLines + 1 : at[n] = known[n]
  <2> DEFINE Off == {n \in 0 .. MaxLines + 1 : at[n] # known[n]}
  <2>1. SUFFICES ASSUME Off # {} PROVE FALSE
    OBVIOUS
  <2>2. Off \in SUBSET Nat
    BY <1>2
  <2>3. PICK m \in Off : \A k \in Off : m =< k
    BY <2>1, <2>2, LeastNumber
  <2>4. m \in 0 .. MaxLines + 1 /\ at[m] # known[m]
    BY <2>3
  <2>5. at[0] = p /\ \A n \in 1 .. MaxLines + 1 : at[n] = next(at[n - 1])
    <3> HIDE DEF at, next
    <3>1. \A n \in 0 .. MaxLines + 1 : at[n] = IF n = 0 THEN p ELSE next(at[n - 1])
      BY <1>6
    <3> QED BY <3>1, <1>2
  <2>6. m # 0
    BY <2>4, <2>5, <1>4
  <2>7. m - 1 \in 0 .. MaxLines + 1 /\ m - 1 \notin Off
    <3>1. m - 1 \in 0 .. MaxLines + 1 /\ ~(m =< m - 1)
      BY <2>4, <2>6, <1>2
    <3> QED BY <3>1, <2>3
  <2>8. at[m - 1] = known[m - 1]
    BY <2>7
  <2>9. at[m] = next(at[m - 1]) /\ known[m] = next(known[m - 1])
    <3> HIDE DEF at, next, known
    <3>1. m \in 1 .. MaxLines + 1
      BY <2>4, <2>6, <1>2
    <3> QED BY <3>1, <2>5, <1>3
  <2> QED BY <2>4, <2>8, <2>9
<1>8. Pointers(mem, p) = at
  BY DEF Pointers
<1> QED BY <1>7, <1>8

LEMMA ChainWalks ==
  ASSUME NEW mem, NEW p, NEW s, NEW end, Chain(mem, p, s, end), Len(s) =< MaxLines
  PROVE  /\ \A n \in 0 .. Len(s) - 1 : Pointers(mem, p)[n] = s[n + 1]
         /\ Positions(mem, p) = 0 .. Len(s) - 1
         /\ Length(mem, p) = Len(s)
         /\ Last(mem, p) = end
         /\ ToString(mem, p) = ValuesOf(mem, s)
         /\ {Pointers(mem, p)[n] : n \in Positions(mem, p)} = Elements(s)
<1>1. Len(s) \in Nat /\ \A i \in 1 .. Len(s) : s[i] \in DOMAIN mem
  BY LenProperties, ElementOfSeq DEF Chain
<1>2. MaxLines \in Nat
  BY MaxLinesAssumption
<1>3. \A n \in 0 .. Len(s) - 1 : Pointers(mem, p)[n] = s[n + 1]
  BY ChainPointers, <1>1, <1>2
<1>4. \A n \in Len(s) .. MaxLines + 1 : Pointers(mem, p)[n] = end
  BY ChainPointers, <1>1, <1>2
<1>5. Positions(mem, p) = 0 .. Len(s) - 1
  <2>1. \A n \in 0 .. MaxLines : n < Len(s) => Pointers(mem, p)[n] \in DOMAIN mem
    BY <1>1, <1>2, <1>3
  <2>2. \A n \in 0 .. MaxLines : ~(n < Len(s)) => Pointers(mem, p)[n] \notin DOMAIN mem
    BY <1>1, <1>2, <1>4 DEF Chain
  <2>3. \A n : n \in 0 .. Len(s) - 1 <=> n \in 0 .. MaxLines /\ n < Len(s)
    BY <1>1, <1>2
  <2> QED BY <2>1, <2>2, <2>3 DEF Positions
<1>6. Length(mem, p) = Len(s)
  <2>1. Cardinality(0 .. Len(s) - 1) = IF 0 > Len(s) - 1 THEN 0 ELSE Len(s) - 1 - 0 + 1
    BY <1>1, FS_Interval
  <2> QED BY <2>1, <1>5, <1>1 DEF Length
<1>7. Last(mem, p) = end
  BY <1>4, <1>6, <1>1, <1>2 DEF Last
<1>8. ToString(mem, p) = ValuesOf(mem, s)
  <2>1. \A i \in 1 .. Len(s) : Pointers(mem, p)[i - 1] = s[i]
    BY <1>3, <1>1
  <2> QED BY <2>1, <1>6 DEF ToString, ValuesOf
<1>9. {Pointers(mem, p)[n] : n \in Positions(mem, p)} = Elements(s)
  <2>1. \A n \in 0 .. Len(s) - 1 : Pointers(mem, p)[n] \in Elements(s)
    BY <1>3, <1>1 DEF Elements
  <2>2. \A i \in 1 .. Len(s) : i - 1 \in 0 .. Len(s) - 1 /\ s[i] = Pointers(mem, p)[i - 1]
    BY <1>3, <1>1
  <2> QED BY <2>1, <2>2, <1>5 DEF Elements
<1> QED BY <1>3, <1>5, <1>6, <1>7, <1>8, <1>9

LEMMA CutProperties ==
  ASSUME NEW S, NEW l \in Seq(S), NEW i \in 1 .. Len(l)
  PROVE  /\ Cut(l, i) \in Seq(S) /\ Len(Cut(l, i)) = Len(l) - 1
         /\ \A j \in 1 .. Len(l) - 1 : j < i => Cut(l, i)[j] = l[j]
         /\ \A j \in 1 .. Len(l) - 1 : ~(j < i) => Cut(l, i)[j] = l[j + 1]
<1>1. Len(l) \in Nat /\ \A j \in 1 .. Len(l) : l[j] \in S
  BY LenProperties, ElementOfSeq
<1>2. Len(l) - 1 \in Nat
  BY <1>1
<1>3. \A j \in 1 .. Len(l) - 1 : l[IF j < i THEN j ELSE j + 1] \in S
  BY <1>1
<1>4. Cut(l, i) \in [1 .. Len(l) - 1 -> S]
  BY <1>3 DEF Cut
<1>5. Cut(l, i) \in Seq(S)
  BY <1>2, <1>4, SeqDef
<1>6. DOMAIN Cut(l, i) = 1 .. Len(l) - 1 /\ DOMAIN Cut(l, i) = 1 .. Len(Cut(l, i))
  BY <1>4, <1>5, LenProperties
<1>7. Len(Cut(l, i)) = Len(l) - 1
  BY <1>2, <1>5, <1>6, LenProperties
<1>8. ASSUME NEW j \in 1 .. Len(l) - 1
      PROVE  /\ j < i => Cut(l, i)[j] = l[j]
             /\ ~(j < i) => Cut(l, i)[j] = l[j + 1]
  <2>1. Cut(l, i)[j] = l[IF j < i THEN j ELSE j + 1]
    BY DEF Cut
  <2> QED BY <2>1
<1> QED BY <1>5, <1>7, <1>8

LEMMA ValuesProperties ==
  ASSUME NEW mem, NEW s, Len(s) \in Nat
  PROVE  /\ Len(ValuesOf(mem, s)) = Len(s)
         /\ \A i \in 1 .. Len(s) : ValuesOf(mem, s)[i] = mem[s[i]].value
         /\ \A S : (\A i \in 1 .. Len(s) : mem[s[i]].value \in S) => ValuesOf(mem, s) \in Seq(S)
<1>1. \A S : (\A i \in 1 .. Len(s) : mem[s[i]].value \in S) => ValuesOf(mem, s) \in Seq(S)
  <2> TAKE S
  <2> HAVE \A i \in 1 .. Len(s) : mem[s[i]].value \in S
  <2>1. ValuesOf(mem, s) \in [1 .. Len(s) -> S]
    BY DEF ValuesOf
  <2> QED BY <2>1, SeqDef
<1> DEFINE V == {mem[s[i]].value : i \in 1 .. Len(s)}
<1>2. ValuesOf(mem, s) \in Seq(V)
  BY <1>1
<1> HIDE DEF V
<1>3. 1 .. Len(s) = 1 .. Len(ValuesOf(mem, s)) /\ Len(ValuesOf(mem, s)) \in Nat
  <2>1. DOMAIN ValuesOf(mem, s) = 1 .. Len(s)
    BY DEF ValuesOf
  <2> QED BY <1>2, <2>1, LenProperties
<1>4. Len(ValuesOf(mem, s)) = Len(s)
  BY <1>3
<1> QED BY <1>1, <1>4 DEF ValuesOf

(* A value is removed where it is first.                                   *)
LEMMA ChainHits ==
  ASSUME NEW mem, NEW p, NEW s, NEW end, Chain(mem, p, s, end), Len(s) =< MaxLines, NEW v
  PROVE  /\ Hits(mem, p, v) = {n \in 0 .. Len(s) - 1 : mem[s[n + 1]].value = v}
         /\ Hits(mem, p, v) # {} =>
              \E i \in 1 .. Len(s) :
                FirstAt(ValuesOf(mem, s), v, i) /\ FirstHit(mem, p, v) = i - 1
<1>1. Len(s) \in Nat
  BY LenProperties DEF Chain
<1>2. /\ Len(ValuesOf(mem, s)) = Len(s)
      /\ \A i \in 1 .. Len(s) : ValuesOf(mem, s)[i] = mem[s[i]].value
  BY <1>1, ValuesProperties
<1>3. Hits(mem, p, v) = {n \in 0 .. Len(s) - 1 : mem[s[n + 1]].value = v}
  BY ChainWalks DEF Hits
<1>4. ASSUME Hits(mem, p, v) # {}
      PROVE  \E i \in 1 .. Len(s) :
               FirstAt(ValuesOf(mem, s), v, i) /\ FirstHit(mem, p, v) = i - 1
  <2>1. Hits(mem, p, v) \in SUBSET Nat
    BY <1>3, <1>1
  <2>2. \E m \in Hits(mem, p, v) : \A k \in Hits(mem, p, v) : m =< k
    BY <2>1, <1>4, LeastNumber
  <2>3. /\ FirstHit(mem, p, v) \in Hits(mem, p, v)
        /\ \A k \in Hits(mem, p, v) : FirstHit(mem, p, v) =< k
    BY <2>2 DEF FirstHit
  <2> DEFINE i == FirstHit(mem, p, v) + 1
  <2>4. i \in 1 .. Len(s) /\ FirstHit(mem, p, v) = i - 1 /\ mem[s[i]].value = v
    BY <2>3, <1>3, <1>1
  <2>5. ASSUME NEW j \in 1 .. Len(s), mem[s[j]].value = v
        PROVE  i =< j
    <3>1. j - 1 \in 0 .. Len(s) - 1 /\ (j - 1) + 1 = j
      BY <1>1
    <3>2. j - 1 \in Hits(mem, p, v)
      BY <3>1, <2>5, <1>3
    <3> QED BY <3>2, <2>3, <2>4, <1>1
  <2>6. FirstAt(ValuesOf(mem, s), v, i)
    BY <2>4, <2>5, <1>2 DEF FirstAt
  <2> QED BY <2>4, <2>6
<1> QED BY <1>3, <1>4

LEMMA FirstAtUnique ==
  ASSUME NEW l, NEW v, NEW i, NEW j, FirstAt(l, v, i), FirstAt(l, v, j), Len(l) \in Nat
  PROVE  i = j
BY DEF FirstAt

(* A new node in front of the list.                                        *)
Precedes(mem, p, s, end, mem2, q, v) ==
  /\ Chain(mem, p, s, end) /\ q # end /\ q \notin Elements(s)
  /\ DOMAIN mem2 = DOMAIN mem \cup {q}
  /\ mem2[q] = [value |-> v, next |-> p]
  /\ \A a \in DOMAIN mem : a # q => mem2[a] = mem[a]

LEMMA AddChain ==
  ASSUME NEW mem, NEW p, NEW s, NEW end, NEW mem2, NEW q, NEW v,
         Precedes(mem, p, s, end, mem2, q, v)
  PROVE  /\ Chain(mem2, q, Front(q, s), end) /\ Len(Front(q, s)) = Len(s) + 1
         /\ ValuesOf(mem2, Front(q, s)) = Front(v, ValuesOf(mem, s))
<1>0. /\ Chain(mem, p, s, end) /\ q # end /\ q \notin Elements(s)
      /\ DOMAIN mem2 = DOMAIN mem \cup {q}
      /\ mem2[q] = [value |-> v, next |-> p]
      /\ \A a \in DOMAIN mem : a # q => mem2[a] = mem[a]
  BY DEF Precedes
<1> DEFINE s2 == <<q>> \o s
<1>1. Len(s) \in Nat /\ \A i \in 1 .. Len(s) : s[i] \in DOMAIN mem
  BY <1>0, LenProperties, ElementOfSeq DEF Chain
<1>2. <<q>> \in Seq(DOMAIN mem2) /\ s \in Seq(DOMAIN mem2)
  BY <1>0, SeqMonotonic DEF Chain
<1>3. /\ s2 \in Seq(DOMAIN mem2) /\ Len(s2) = Len(s) + 1 /\ s2[1] = q
      /\ \A i \in 2 .. Len(s) + 1 : s2[i] = s[i - 1]
  <2>1. Len(<<q>>) = 1 /\ <<q>>[1] = q
    OBVIOUS
  <2>2. /\ s2 \in Seq(DOMAIN mem2) /\ Len(s2) = 1 + Len(s)
        /\ \A i \in 1 .. 1 + Len(s) : s2[i] = IF i =< 1 THEN <<q>>[i] ELSE s[i - 1]
    BY <1>2, <2>1, ConcatProperties
  <2> QED BY <2>1, <2>2, <1>1
<1> HIDE DEF s2
<1>4. \A i \in 1 .. Len(s) : s[i] # q /\ mem2[s[i]] = mem[s[i]]
  BY <1>0, <1>1 DEF Elements
<1>5. \A i \in 1 .. Len(s2) : mem2[s2[i]].next = IF i = Len(s2) THEN end ELSE s2[i + 1]
  <2> TAKE i \in 1 .. Len(s2)
  <2>1. CASE i = 1
    <3>1. mem2[s2[i]].next = p
      BY <2>1, <1>3, <1>0
    <3>2. Len(s) # 0 => s2[2] = s[1]
      BY <1>3, <1>1
    <3> QED BY <1>0, <2>1, <3>1, <3>2, <1>3, <1>1 DEF Chain
  <2>2. CASE i # 1
    <3>1. i - 1 \in 1 .. Len(s) /\ s2[i] = s[i - 1]
      BY <2>2, <1>3, <1>1
    <3>2. mem2[s2[i]].next = IF i - 1 = Len(s) THEN end ELSE s[i - 1 + 1]
      BY <1>0, <3>1, <1>4 DEF Chain
    <3>3. i # Len(s2) => s2[i + 1] = s[i]
      <4>1. i # Len(s2) => i + 1 \in 2 .. Len(s) + 1 /\ (i + 1) - 1 = i
        BY <1>3, <1>1
      <4> QED BY <4>1, <1>3
    <3> QED BY <3>1, <3>2, <3>3, <1>3, <1>1
  <2> QED BY <2>1, <2>2
<1>6. \A i, j \in 1 .. Len(s2) : s2[i] = s2[j] => i = j
  <2> TAKE i, j \in 1 .. Len(s2)
  <2>1. i # 1 => i - 1 \in 1 .. Len(s) /\ s2[i] = s[i - 1]
    BY <1>3, <1>1
  <2>2. j # 1 => j - 1 \in 1 .. Len(s) /\ s2[j] = s[j - 1]
    BY <1>3, <1>1
  <2>3. i # 1 /\ j # 1 /\ s2[i] = s2[j] => i - 1 = j - 1
    BY <1>0, <2>1, <2>2 DEF Chain
  <2> QED BY <2>1, <2>2, <2>3, <1>3, <1>4, <1>1
<1>7. Chain(mem2, q, s2, end)
  BY <1>0, <1>3, <1>5, <1>6, <1>1 DEF Chain
<1>8. ValuesOf(mem2, s2) = <<v>> \o ValuesOf(mem, s)
  <2> DEFINE V == {v} \cup {mem[s[i]].value : i \in 1 .. Len(s)}
             l == ValuesOf(mem, s)
             l2 == ValuesOf(mem2, s2)
  <2>1. l \in Seq(V) /\ Len(l) = Len(s) /\ \A i \in 1 .. Len(s) : l[i] = mem[s[i]].value
    <3>1. \A i \in 1 .. Len(s) : mem[s[i]].value \in V
      OBVIOUS
    <3> HIDE DEF V
    <3> QED BY <3>1, <1>1, ValuesProperties
  <2>2. \A i \in 1 .. Len(s2) : mem2[s2[i]].value = IF i = 1 THEN v ELSE mem[s[i - 1]].value
    <3> TAKE i \in 1 .. Len(s2)
    <3>1. i # 1 => i - 1 \in 1 .. Len(s) /\ s2[i] = s[i - 1]
      BY <1>3, <1>1
    <3> QED BY <3>1, <1>0, <1>3, <1>4
  <2>3. \A i \in 1 .. Len(s2) : mem2[s2[i]].value \in V
    <3> TAKE i \in 1 .. Len(s2)
    <3>1. i # 1 => i - 1 \in 1 .. Len(s)
      BY <1>3, <1>1
    <3> QED BY <3>1, <2>2
  <2>4. l2 \in Seq(V) /\ Len(l2) = Len(s2) /\ \A i \in 1 .. Len(s2) : l2[i] = mem2[s2[i]].value
    <3> HIDE DEF V
    <3>1. Len(s2) \in Nat
      BY <1>3, <1>1
    <3> QED BY <3>1, <2>3, ValuesProperties
  <2>5. <<v>> \in Seq(V) /\ Len(<<v>>) = 1 /\ <<v>>[1] = v
    OBVIOUS
  <2> HIDE DEF l, l2, V
  <2>6. /\ <<v>> \o l \in Seq(V) /\ Len(<<v>> \o l) = 1 + Len(l)
        /\ \A i \in 1 .. 1 + Len(l) : (<<v>> \o l)[i] = IF i =< 1 THEN <<v>>[i] ELSE l[i - 1]
    BY <2>1, <2>5, ConcatProperties
  <2>7. \A i \in 1 .. Len(l2) : l2[i] = (<<v>> \o l)[i]
    <3> TAKE i \in 1 .. Len(l2)
    <3>1. i \in 1 .. Len(s2) /\ i \in 1 .. 1 + Len(l) /\ (i =< 1 <=> i = 1)
      BY <2>4, <2>1, <1>3, <1>1
    <3>2. i # 1 => i - 1 \in 1 .. Len(s)
      BY <3>1, <1>3, <1>1
    <3>3. CASE i = 1
      BY <3>1, <3>3, <2>2, <2>4, <2>5, <2>6
    <3>4. CASE i # 1
      BY <3>1, <3>2, <3>4, <2>1, <2>2, <2>4, <2>6
    <3> QED BY <3>3, <3>4
  <2>8. Len(l2) = Len(<<v>> \o l)
    BY <2>1, <2>4, <2>6, <1>3, <1>1
  <2>9. l2 = <<v>> \o l
    BY <2>4, <2>6, <2>7, <2>8, SeqEqual
  <2> QED BY <2>9 DEF l, l2
<1> QED BY <1>3, <1>7, <1>8 DEF s2, Front

(* s2 is s without its element at i, and next2 are the links then.          *)
Skips(n, i, s, s2, next, next2, p, p2, end) ==
  /\ n \in Nat /\ i \in 1 .. n
  /\ \A k \in 1 .. n - 1 : k < i => s2[k] = s[k]
  /\ \A k \in 1 .. n - 1 : ~(k < i) => s2[k] = s[k + 1]
  /\ p = s[1]
  /\ \A k \in 1 .. n : next[s[k]] = IF k = n THEN end ELSE s[k + 1]
  /\ \A k, j \in 1 .. n : s[k] = s[j] => k = j
  /\ i = 1 => p2 = next[p]
  /\ i # 1 => p2 = p /\ next2[s[i - 1]] = next[s[i]]
  /\ \A k \in 1 .. n : k # i - 1 => next2[s[k]] = next[s[k]]

LEMMA CutLinks ==
  ASSUME NEW n, NEW i, NEW s, NEW s2, NEW next, NEW next2, NEW p, NEW p2, NEW end,
         Skips(n, i, s, s2, next, next2, p, p2, end)
  PROVE  /\ p2 = IF n - 1 = 0 THEN end ELSE s2[1]
         /\ \A k \in 1 .. n - 1 : next2[s2[k]] = IF k = n - 1 THEN end ELSE s2[k + 1]
         /\ \A k, j \in 1 .. n - 1 : s2[k] = s2[j] => k = j
         /\ \A k \in 1 .. n - 1 : \E j \in 1 .. n : s2[k] = s[j]
<1>1. p2 = IF n - 1 = 0 THEN end ELSE s2[1]
  <2>1. CASE i = 1
    BY <2>1 DEF Skips
  <2>2. CASE i # 1
    BY <2>2 DEF Skips
  <2> QED BY <2>1, <2>2
<1>2. ASSUME NEW k \in 1 .. n - 1
      PROVE  next2[s2[k]] = IF k = n - 1 THEN end ELSE s2[k + 1]
  <2>1. CASE k + 1 < i
    BY <2>1 DEF Skips
  <2>2. CASE k + 1 = i
    BY <2>2 DEF Skips
  <2>3. CASE k >= i
    BY <2>3 DEF Skips
  <2>4. k \in Int /\ i \in Int
    BY DEF Skips
  <2> QED BY <2>1, <2>2, <2>3, <2>4
<1>3. ASSUME NEW k \in 1 .. n - 1, NEW j \in 1 .. n - 1, s2[k] = s2[j]
      PROVE  k = j
  BY <1>3 DEF Skips
<1>4. ASSUME NEW k \in 1 .. n - 1
      PROVE  \E j \in 1 .. n : s2[k] = s[j]
  BY DEF Skips
<1> QED BY <1>1, <1>2, <1>3, <1>4

(* Removal of the node at i.                                               *)
Removable(D, V, mem, p, s, end, v, i) ==
  /\ mem \in [D -> [value : V, next : Int]]
  /\ Chain(mem, p, s, end) /\ Len(s) =< MaxLines
  /\ i \in 1 .. Len(s) /\ FirstHit(mem, p, v) = i - 1

LEMMA RemoveChain ==
  ASSUME NEW D, NEW V, NEW mem, NEW p, NEW s, NEW end, NEW v, NEW i,
         Removable(D, V, mem, p, s, end, v, i)
  PROVE  /\ RemoveNode(mem, p, v).mem \in [D -> [value : V, next : Int]]
         /\ \A a \in D : RemoveNode(mem, p, v).mem[a].value = mem[a].value
         /\ Chain(RemoveNode(mem, p, v).mem, RemoveNode(mem, p, v).head, Cut(s, i), end)
         /\ Cut(s, i) \in Seq(D) /\ Len(Cut(s, i)) = Len(s) - 1
         /\ Elements(Cut(s, i)) \subseteq Elements(s)
         /\ ValuesOf(RemoveNode(mem, p, v).mem, Cut(s, i)) = Cut(ValuesOf(mem, s), i)
<1> /\ mem \in [D -> [value : V, next : Int]]
    /\ Chain(mem, p, s, end) /\ Len(s) =< MaxLines
    /\ i \in 1 .. Len(s) /\ FirstHit(mem, p, v) = i - 1
  BY DEF Removable
<1> DEFINE mem2 == RemoveNode(mem, p, v).mem
           p2   == RemoveNode(mem, p, v).head
<1>1. s \in Seq(D) /\ Len(s) \in Nat /\ \A k \in 1 .. Len(s) : s[k] \in D
  BY LenProperties, ElementOfSeq DEF Chain
<1>2. \A k \in 0 .. Len(s) - 1 : Pointers(mem, p)[k] = s[k + 1]
  BY ChainWalks
<1>3. /\ i = 1 => p2 = mem[p].next /\ mem2 = mem
      /\ i # 1 => p2 = p /\ mem2 = [mem EXCEPT ![s[i - 1]].next = mem[s[i]].next]
  <2>1. CASE i = 1
    <3>1. RemoveNode(mem, p, v) = [head |-> mem[p].next, mem |-> mem]
      BY <2>1 DEF RemoveNode
    <3> QED BY <3>1, <2>1
  <2>2. CASE i # 1
    <3>1. /\ i - 1 # 0 /\ i - 1 \in 0 .. Len(s) - 1 /\ i - 1 - 1 \in 0 .. Len(s) - 1
          /\ i - 1 + 1 = i /\ i - 1 - 1 + 1 = i - 1
      BY <2>2, <1>1
    <3>2. Pointers(mem, p)[i - 1] = s[i] /\ Pointers(mem, p)[i - 1 - 1] = s[i - 1]
      BY <3>1, <1>2
    <3>3. RemoveNode(mem, p, v) =
            [head |-> p, mem |-> [mem EXCEPT ![s[i - 1]].next = mem[s[i]].next]]
      BY <3>1, <3>2 DEF RemoveNode
    <3> QED BY <3>3, <2>2
  <2> QED BY <2>1, <2>2
<1> HIDE DEF mem2, p2
<1>4. /\ mem2 \in [D -> [value : V, next : Int]]
      /\ \A a \in D : mem2[a].value = mem[a].value
      /\ \A a \in D : i = 1 \/ a # s[i - 1] => mem2[a].next = mem[a].next
      /\ i # 1 => mem2[s[i - 1]].next = mem[s[i]].next
  <2>1. CASE i = 1
    BY <2>1, <1>3
  <2>2. CASE i # 1
    <3> DEFINE a == s[i - 1]
               q == mem[s[i]].next
    <3>1. a \in D /\ q \in Int
      BY <2>2, <1>1
    <3>2. mem2 = [mem EXCEPT ![a].next = q]
      BY <2>2, <1>3
    <3> HIDE DEF a, q
    <3>3. mem2 = [mem EXCEPT ![a] = [mem[a] EXCEPT !.next = q]]
      BY <3>1, <3>2
    <3>4. [mem[a] EXCEPT !.next = q] \in [value : V, next : Int]
          /\ [mem[a] EXCEPT !.next = q].value = mem[a].value
          /\ [mem[a] EXCEPT !.next = q].next = q
      BY <3>1
    <3>5. /\ mem2 \in [D -> [value : V, next : Int]]
          /\ \A b \in D : b # a => mem2[b] = mem[b]
          /\ mem2[a].value = mem[a].value /\ mem2[a].next = q
      BY <3>1, <3>3, <3>4
    <3> QED BY <2>2, <3>5 DEF a, q
  <2> QED BY <2>1, <2>2
<1> DEFINE s2 == Cut(s, i)
           n == Len(s)
           next == [a \in D |-> mem[a].next]
           next2 == [a \in D |-> mem2[a].next]
           l == ValuesOf(mem, s)
<1>5. s \in Seq(D) /\ n \in Nat /\ i \in 1 .. n /\ \A k \in 1 .. n : s[k] \in D
  BY LenProperties, ElementOfSeq DEF Chain
<1>6. /\ s2 \in Seq(D) /\ Len(s2) = n - 1
      /\ \A k \in 1 .. n - 1 : k < i => s2[k] = s[k]
      /\ \A k \in 1 .. n - 1 : ~(k < i) => s2[k] = s[k + 1]
  <2>1. /\ s2 \in Seq(D) /\ Len(s2) = Len(s) - 1
        /\ \A k \in 1 .. Len(s) - 1 : k < i => s2[k] = s[k]
        /\ \A k \in 1 .. Len(s) - 1 : ~(k < i) => s2[k] = s[k + 1]
    BY <1>5, CutProperties
  <2> QED BY <2>1
<1>7. /\ n # 0 => p = s[1]
      /\ \A k \in 1 .. n : mem[s[k]].next = IF k = n THEN end ELSE s[k + 1]
      /\ \A k, j \in 1 .. n : s[k] = s[j] => k = j
      /\ end \notin D
  BY DEF Chain
<1>8. Len(l) = n /\ \A k \in 1 .. n : l[k] = mem[s[k]].value
  BY <1>5, ValuesProperties
<1> HIDE DEF s2, n, l
<1>9. p = s[1]
  BY <1>5, <1>7
<1>10. \A k \in 1 .. n : next[s[k]] = IF k = n THEN end ELSE s[k + 1]
  BY <1>5, <1>7
<1>11. /\ i = 1 => p2 = next[p]
       /\ i # 1 => p2 = p /\ next2[s[i - 1]] = next[s[i]]
  <2>1. 1 \in 1 .. n /\ (i # 1 => i - 1 \in 1 .. n)
    BY <1>5
  <2>2. p \in D /\ s[i] \in D /\ (i # 1 => s[i - 1] \in D)
    BY <2>1, <1>5, <1>9
  <2> QED BY <2>2, <1>3, <1>4
<1>12. \A k \in 1 .. n : k # i - 1 => next2[s[k]] = next[s[k]]
  <2> TAKE k \in 1 .. n
  <2> HAVE k # i - 1
  <2>1. i # 1 => i - 1 \in 1 .. n
    BY <1>5
  <2>2. i # 1 => s[k] # s[i - 1]
    BY <2>1, <1>7
  <2>3. s[k] \in D
    BY <1>5
  <2> QED BY <2>2, <2>3, <1>4
<1>13. Skips(n, i, s, s2, next, next2, p, p2, end)
  <2> HIDE DEF next, next2
  <2>1. n \in Nat /\ i \in 1 .. n /\ p = s[1]
    BY <1>5, <1>9
  <2>2. /\ \A k \in 1 .. n - 1 : k < i => s2[k] = s[k]
        /\ \A k \in 1 .. n - 1 : ~(k < i) => s2[k] = s[k + 1]
    BY <1>6
  <2>3. \A k, j \in 1 .. n : s[k] = s[j] => k = j
    BY <1>7
  <2>4. \A k \in 1 .. n : next[s[k]] = IF k = n THEN end ELSE s[k + 1]
    BY <1>10
  <2>5. i = 1 => p2 = next[p]
    BY <1>11
  <2>6. i # 1 => p2 = p /\ next2[s[i - 1]] = next[s[i]]
    BY <1>11
  <2>7. \A k \in 1 .. n : k # i - 1 => next2[s[k]] = next[s[k]]
    BY <1>12
  <2> QED BY ONLY <2>1, <2>2, <2>3, <2>4, <2>5, <2>6, <2>7 DEF Skips
<1>14. /\ p2 = IF n - 1 = 0 THEN end ELSE s2[1]
       /\ \A k \in 1 .. n - 1 : next2[s2[k]] = IF k = n - 1 THEN end ELSE s2[k + 1]
       /\ \A k, j \in 1 .. n - 1 : s2[k] = s2[j] => k = j
       /\ \A k \in 1 .. n - 1 : \E j \in 1 .. n : s2[k] = s[j]
  <2> HIDE DEF next, next2
  <2> QED BY <1>13, CutLinks
<1>15. \A k \in 1 .. n - 1 : s2[k] \in D
  BY <1>5, <1>14
<1>16. Chain(mem2, p2, s2, end)
  <2>1. DOMAIN mem2 = D
    BY <1>4
  <2>2. \A k \in 1 .. n - 1 : mem2[s2[k]].next = next2[s2[k]]
    BY <1>15
  <2> HIDE DEF next2
  <2>3. \A k \in 1 .. n - 1 : mem2[s2[k]].next = IF k = n - 1 THEN end ELSE s2[k + 1]
    BY <1>14, <2>2
  <2> QED BY <2>1, <2>3, <1>6, <1>7, <1>14 DEF Chain
<1>17. Elements(s2) \subseteq Elements(s)
  <2>1. \A k \in 1 .. Len(s2) : \E j \in 1 .. Len(s) : s2[k] = s[j]
    BY <1>6, <1>14 DEF n
  <2> QED BY <2>1 DEF Elements
<1>18. ValuesOf(mem2, s2) = Cut(l, i)
  <2>1. ASSUME NEW k \in 1 .. n - 1
        PROVE  mem2[s2[k]].value = l[IF k < i THEN k ELSE k + 1]
    <3>1. mem2[s2[k]].value = mem[s2[k]].value
      BY <1>15, <1>4
    <3>2. CASE k < i
      <4>1. k \in 1 .. n /\ s2[k] = s[k]
        BY <3>2, <1>5, <1>6
      <4> QED BY <4>1, <3>1, <3>2, <1>8
    <3>3. CASE ~(k < i)
      <4>1. k + 1 \in 1 .. n /\ s2[k] = s[k + 1]
        BY <3>3, <1>5, <1>6
      <4> QED BY <4>1, <3>1, <3>3, <1>8
    <3> QED BY <3>2, <3>3
  <2>2. ValuesOf(mem2, s2) = [k \in 1 .. n - 1 |-> mem2[s2[k]].value]
    BY <1>6 DEF ValuesOf
  <2>3. Cut(l, i) = [k \in 1 .. n - 1 |-> l[IF k < i THEN k ELSE k + 1]]
    BY <1>8 DEF Cut
  <2> QED BY <2>1, <2>2, <2>3
<1> QED BY <1>4, <1>6, <1>16, <1>17, <1>18 DEF s2, n, l, mem2, p2

LEMMA NoLines == Replays(<<>>, <<>>, <<>>)
<1> DEFINE r == [k \in 0 .. Len(<<>>) |-> <<>>]
<1>1. /\ r \in [0 .. Len(<<>>) -> Seq(Values)] /\ r[0] = <<>> /\ r[Len(<<>>)] = <<>>
      /\ \A k \in 1 .. Len(<<>>) : Executes(r[k - 1], <<>>[k], r[k])
  OBVIOUS
<1> QED BY <1>1 DEF Replays

LEMMA LineAppended ==
  ASSUME NEW f \in Seq(Lines), NEW line \in Lines, NEW l, NEW m, NEW m2 \in Seq(Values),
         Replays(l, f, m), Executes(m, line, m2)
  PROVE  Replays(l, Append(f, line), m2)
<1>1. PICK r \in [0 .. Len(f) -> Seq(Values)] :
        /\ r[0] = l /\ r[Len(f)] = m
        /\ \A k \in 1 .. Len(f) : Executes(r[k - 1], f[k], r[k])
  BY DEF Replays
<1> DEFINE g  == Append(f, line)
           r2 == [k \in 0 .. Len(f) + 1 |-> IF k =< Len(f) THEN r[k] ELSE m2]
<1>2. Len(f) \in Nat /\ Len(g) = Len(f) + 1 /\ g[Len(f) + 1] = line
      /\ \A k \in 1 .. Len(f) : g[k] = f[k]
  BY LenProperties, AppendProperties
<1>3. r2 \in [0 .. Len(g) -> Seq(Values)] /\ r2[0] = l /\ r2[Len(g)] = m2
  BY <1>1, <1>2
<1>4. \A k \in 1 .. Len(g) : Executes(r2[k - 1], g[k], r2[k])
  <2> TAKE k \in 1 .. Len(g)
  <2>1. CASE k =< Len(f)
    <3>1. k \in 1 .. Len(f) /\ r2[k - 1] = r[k - 1] /\ r2[k] = r[k] /\ g[k] = f[k]
      BY <2>1, <1>2
    <3> HIDE DEF r2, g
    <3> QED BY <3>1, <1>1
  <2>2. CASE ~(k =< Len(f))
    <3>1. k = Len(f) + 1 /\ r2[k - 1] = m /\ r2[k] = m2 /\ g[k] = line
      BY <2>2, <1>1, <1>2
    <3> HIDE DEF r2, g
    <3> QED BY <3>1
  <2> QED BY <2>1, <2>2
<1> HIDE DEF r2
<1> QED BY <1>3, <1>4 DEF Replays

LEMMA LineRead ==
  ASSUME NEW f \in Seq(Lines), f # <<>>, NEW l, NEW m, Replays(l, f, m)
  PROVE  \E l2 \in Seq(Values) : Executes(l, Head(f), l2) /\ Replays(l2, Tail(f), m)
<1>1. PICK r \in [0 .. Len(f) -> Seq(Values)] :
        /\ r[0] = l /\ r[Len(f)] = m
        /\ \A k \in 1 .. Len(f) : Executes(r[k - 1], f[k], r[k])
  BY DEF Replays
<1> DEFINE g  == Tail(f)
           r2 == [k \in 0 .. Len(f) - 1 |-> r[k + 1]]
<1>2. /\ Len(f) \in Nat \ {0} /\ Len(g) = Len(f) - 1 /\ Head(f) = f[1]
      /\ \A k \in 1 .. Len(g) : g[k] = f[k + 1]
  BY EmptySeq, HeadTailProperties
<1>3. Executes(l, Head(f), r[1]) /\ r[1] \in Seq(Values)
  <2>1. 1 \in 1 .. Len(f) /\ 1 \in 0 .. Len(f) /\ 1 - 1 = 0
    BY <1>2
  <2>2. Executes(r[1 - 1], f[1], r[1])
    BY <2>1, <1>1
  <2> QED BY <2>1, <2>2, <1>1, <1>2
<1>4. r2 \in [0 .. Len(g) -> Seq(Values)] /\ r2[0] = r[1] /\ r2[Len(g)] = m
  BY <1>1, <1>2
<1>5. \A k \in 1 .. Len(g) : Executes(r2[k - 1], g[k], r2[k])
  <2> TAKE k \in 1 .. Len(g)
  <2>1. k + 1 \in 1 .. Len(f) /\ r2[k - 1] = r[k + 1 - 1] /\ r2[k] = r[k + 1] /\ g[k] = f[k + 1]
    BY <1>2
  <2> HIDE DEF r2, g
  <2> QED BY <2>1, <1>1
<1>6. Replays(r[1], g, m)
  <2> HIDE DEF r2, g
  <2> QED BY <1>4, <1>5 DEF Replays
<1> QED BY <1>3, <1>6

-----------------------------------------------------------------------------
(* The invariant.                                                          *)

LEMMA LineKinds ==
  /\ \A line \in Lines : line[1] \in {"a", "r", "p", "g"} /\ (line[1] \in {"a", "r"} => line[2] \in Values)
  /\ \A v \in Values : <<"a", v>> \in Lines /\ <<"r", v>> \in Lines
  /\ <<"p">> \in Lines /\ <<"g">> \in Lines
<1>1. \A line \in {"a", "r"} \X Values : line[1] \in {"a", "r"} /\ line[2] \in Values
  OBVIOUS
<1>2. <<"p">>[1] = "p" /\ <<"g">>[1] = "g"
  OBVIOUS
<1> QED BY <1>1, <1>2 DEF Lines

(* What the list of do_list is in the terms of the model.                  *)
LEMMA RunsList ==
  ASSUME TypeOK, NEW s, Runs(s)
  PROVE  /\ Len(s) \in Nat /\ Len(s) =< MaxLines /\ s \in Seq(Nodes)
         /\ ToString(heap, head) = ValuesOf(heap, s) /\ Length(heap, head) = Len(s)
         /\ Reached(head) = Elements(s) /\ Elements(s) \subseteq memory
         /\ ValuesOf(heap, s) \in Seq(Values)
<1>1. Len(s) \in Nat /\ Len(file) \in Nat /\ s \in Seq(Nodes)
  BY LenProperties DEF TypeOK, Runs
<1>2. Len(s) =< MaxLines
  BY <1>1, MaxLinesAssumption DEF TypeOK, Runs
<1>3. Chain(heap, head, s, Null)
  BY DEF Runs
<1>4. /\ ToString(heap, head) = ValuesOf(heap, s) /\ Length(heap, head) = Len(s)
      /\ {Pointers(heap, head)[n] : n \in Positions(heap, head)} = Elements(s)
  BY <1>2, <1>3, ChainWalks
<1>5. Elements(s) \subseteq memory
  BY DEF Runs, Elements
<1>6. ValuesOf(heap, s) \in Seq(Values)
  BY <1>1, ValuesProperties DEF Runs
<1> QED BY <1>1, <1>2, <1>4, <1>5, <1>6 DEF Reached

LEMMA EmptyChain ==
  ASSUME NEW mem, NEW end, end \notin DOMAIN mem
  PROVE  Chain(mem, end, <<>>, end) /\ ValuesOf(mem, <<>>) = <<>> /\ Elements(<<>>) = {}
BY DEF Chain, ValuesOf, Elements

LEMMA Initially == Init => IInv
<1> SUFFICES ASSUME Init PROVE IInv
  OBVIOUS
<1>1. TypeOK
  BY MaxLinesAssumption DEF Init, TypeOK, Null, Wild
<1>2. ASSUME origin = "mktrans"
      PROVE  \E t \in Seq(DOMAIN cells), end \in {Null, Wild} : Generates(t, end)
  <2>1. ll \in {Null, Wild} /\ cells = <<>> /\ ll \notin DOMAIN cells
    BY <1>2 DEF Init
  <2>2. Chain(cells, ll, <<>>, ll) /\ ValuesOf(cells, <<>>) = <<>>
    BY <2>1, EmptyChain
  <2>3. Generates(<<>>, ll)
    BY <2>2, NoLines DEF Generates, Init
  <2>4. <<>> \in Seq(DOMAIN cells)
    BY EmptySeq
  <2> QED BY <2>1, <2>3, <2>4
<1>3. Runs(<<>>)
  <2>1. DOMAIN heap = Nodes /\ Null \notin Nodes
    BY NodesAssumption DEF Init, Null
  <2>2. Chain(heap, head, <<>>, Null)
    BY <2>1, EmptyChain DEF Init
  <2> QED BY <2>2 DEF Init, Runs
<1>4. \E s \in Seq(Nodes) : Runs(s)
  BY <1>3, EmptySeq
<1>5. state # "crashed" /\ out = <<>>
  BY DEF Init
<1> QED BY <1>1, <1>2, <1>4, <1>5 DEF IInv

(* A line written leaves do_list as it is.                                 *)
LEMMA WritesKeeps ==
  ASSUME IInv, NEW line \in Lines, Writes(line), state' = state
  PROVE  /\ origin' = origin /\ state = "writing"
         /\ file' = Append(file, line) /\ file' \in Seq(Lines)
         /\ lines' = lines + 1 /\ lines' \in 0 .. MaxLines
         /\ heap' = heap /\ head' = head /\ memory' = memory /\ inUse' = inUse /\ out' = out
         /\ \E s \in Seq(Nodes) : Runs(s)'
<1>1. /\ origin' = origin /\ state = "writing" /\ file' = Append(file, line) /\ lines' = lines + 1
      /\ heap' = heap /\ head' = head /\ memory' = memory /\ inUse' = inUse /\ out' = out
      /\ log' = log /\ lines < MaxLines
  BY DEF Writes, listVars
<1>2. file \in Seq(Lines) /\ lines \in 0 .. MaxLines
  BY DEF IInv, TypeOK
<1>3. file' \in Seq(Lines) /\ Len(file') = Len(file) + 1 /\ Len(file) \in Nat
  BY <1>1, <1>2, LenProperties, AppendProperties
<1>4. lines' \in 0 .. MaxLines
  BY <1>1, <1>2, MaxLinesAssumption
<1>5. PICK s \in Seq(Nodes) : Runs(s)
  BY DEF IInv
<1>6. Len(s) \in Nat
  BY LenProperties
<1>7. Runs(s)'
  BY <1>1, <1>2, <1>3, <1>5, <1>6 DEF Runs, Chain, Elements
<1> QED BY <1>1, <1>3, <1>4, <1>5, <1>7

LEMMA FunctionIsSeq ==
  ASSUME NEW S, NEW n \in Nat, NEW f \in [1 .. n -> S]
  PROVE  f \in Seq(S)
BY SeqDef

LEMMA CellValues ==
  ASSUME NEW S, NEW c \in Seq([value : S, next : Int]), NEW t \in Seq(DOMAIN c)
  PROVE  ValuesOf(c, t) \in Seq(S) /\ Len(t) \in Nat /\ Len(ValuesOf(c, t)) = Len(t)
<1>1. Len(t) \in Nat /\ \A i \in 1 .. Len(t) : t[i] \in DOMAIN c
  BY LenProperties, ElementOfSeq
<1>2. \A a \in DOMAIN c : c[a].value \in S
  <2>1. c \in [1 .. Len(c) -> [value : S, next : Int]]
    BY LenProperties
  <2> QED BY <2>1
<1>3. \A i \in 1 .. Len(t) : c[t[i]].value \in S
  BY <1>1, <1>2
<1> QED BY <1>1, <1>3, ValuesProperties

LEMMA GenerateAddKeeps == IInv /\ GenerateAdd => IInv'
<1> SUFFICES ASSUME IInv, GenerateAdd PROVE IInv'
  OBVIOUS
<1>1. PICK v \in Values :
        /\ Writes(<<"a", v>>) /\ cells' = Append(cells, [value |-> v, next |-> ll])
        /\ ll' = Len(cells) + 1 /\ count' = count + 1 /\ state' = state
  BY DEF GenerateAdd
<1>2. origin = "mktrans"
  BY DEF GenerateAdd
<1>3. TypeOK /\ cells \in Seq([value : Values, next : Int]) /\ ll \in Int /\ count \in Int
  BY DEF IInv, TypeOK
<1>4. <<"a", v>> \in Lines
  BY LineKinds
<1>5. /\ origin' = origin /\ state = "writing"
      /\ file' = Append(file, <<"a", v>>) /\ file' \in Seq(Lines)
      /\ lines' = lines + 1 /\ lines' \in 0 .. MaxLines
      /\ heap' = heap /\ head' = head /\ memory' = memory /\ inUse' = inUse /\ out' = out
      /\ \E s \in Seq(Nodes) : Runs(s)'
  BY <1>1, <1>4, WritesKeeps
<1>6. PICK t \in Seq(DOMAIN cells), end \in {Null, Wild} : Generates(t, end)
  BY <1>2 DEF IInv
<1>0. PICK q \in Int : q = Len(cells) + 1
  <2>1. Len(cells) + 1 \in Int
    BY <1>3, LenProperties
  <2> QED BY <2>1
<1> DEFINE node == [value |-> v, next |-> ll]
<1>7. /\ Len(cells) \in Nat /\ DOMAIN cells = 1 .. Len(cells)
      /\ cells' \in Seq([value : Values, next : Int])
      /\ Len(cells') = Len(cells) + 1 /\ cells'[q] = node
      /\ \A a \in 1 .. Len(cells) : cells'[a] = cells[a]
  <2>1. node \in [value : Values, next : Int]
    BY <1>3
  <2> QED BY <1>0, <1>1, <1>3, <2>1, LenProperties, AppendProperties
<1>8. DOMAIN cells' = DOMAIN cells \cup {q}
  <2>1. DOMAIN cells' = 1 .. Len(cells')
    BY <1>7, LenProperties
  <2> QED BY <2>1, <1>7, <1>0
<1>9. q # end /\ q \notin Elements(t)
  <2>1. \A i \in 1 .. Len(t) : t[i] \in DOMAIN cells
    BY ElementOfSeq
  <2> QED BY <2>1, <1>7, <1>0 DEF Null, Wild, Elements
<1>10. Chain(cells, ll, t, end) /\ count = Len(t) /\ Len(t) =< lines
       /\ Replays(<<>>, file, ValuesOf(cells, t))
  BY <1>5, <1>6 DEF Generates
<1> DEFINE t2 == Front(q, t)
<1>11. /\ Chain(cells', ll', t2, end) /\ Len(t2) = Len(t) + 1
       /\ ValuesOf(cells', t2) = Front(v, ValuesOf(cells, t))
  <2>1. ll' = q
    BY <1>1, <1>0
  <2>2. \A a \in DOMAIN cells : a # q => cells'[a] = cells[a]
    BY <1>7
  <2>3. cells'[q] = [value |-> v, next |-> ll]
    BY <1>7
  <2>4. Chain(cells, ll, t, end)
    BY <1>10
  <2>5. Precedes(cells, ll, t, end, cells', q, v)
    BY <2>2, <2>3, <2>4, <1>8, <1>9 DEF Precedes
  <2> HIDE DEF node
  <2>6. /\ Chain(cells', q, t2, end) /\ Len(t2) = Len(t) + 1
        /\ ValuesOf(cells', t2) = Front(v, ValuesOf(cells, t))
    BY <2>5, AddChain
  <2> QED BY <2>1, <2>6
<1>12. t2 \in Seq(DOMAIN cells')
  BY <1>11 DEF Chain
<1> HIDE DEF t2, node
<1>13. ValuesOf(cells', t2) \in Seq(Values)
  BY <1>7, <1>12, CellValues
<1>14. Executes(ValuesOf(cells, t), <<"a", v>>, ValuesOf(cells', t2))
  <2>1. <<"a", v>>[1] = "a" /\ <<"a", v>>[2] = v
    OBVIOUS
  <2> QED BY <2>1, <1>11 DEF Executes
<1>15. Replays(<<>>, file', ValuesOf(cells', t2))
  <2>1. file \in Seq(Lines)
    BY <1>3 DEF TypeOK
  <2> QED BY <2>1, <1>4, <1>5, <1>10, <1>13, <1>14, LineAppended
<1>16. Generates(t2, end)'
  <2>1. Len(t) \in Nat /\ lines \in 0 .. MaxLines
    BY <1>3, LenProperties DEF TypeOK
  <2>2. count' = Len(t2) /\ Len(t2) =< lines'
    BY <2>1, <1>1, <1>5, <1>10, <1>11
  <2> QED BY <2>2, <1>11, <1>15 DEF Generates
<1>17. TypeOK'
  <2>1. count' \in Int /\ ll' \in Int
    BY <1>0, <1>1, <1>3, <1>7
  <2> QED BY <2>1, <1>1, <1>3, <1>5, <1>7 DEF TypeOK
<1>18. \E u \in Seq(DOMAIN cells'), e \in {Null, Wild} : Generates(u, e)'
  BY <1>12, <1>16
<1> QED BY <1>1, <1>5, <1>17, <1>18 DEF IInv

LEMMA GenerateRemoveKeeps == IInv /\ GenerateRemove => IInv'
<1> SUFFICES ASSUME IInv, GenerateRemove PROVE IInv'
  OBVIOUS
<1>1. origin = "mktrans" /\ count > 0
  BY DEF GenerateRemove
<1>2. TypeOK /\ cells \in Seq([value : Values, next : Int])
  BY DEF IInv, TypeOK
<1>3. PICK t \in Seq(DOMAIN cells), end \in {Null, Wild} : Generates(t, end)
  BY <1>1 DEF IInv
<1>4. /\ Len(t) \in Nat /\ Len(t) =< MaxLines /\ count = Len(t) /\ Len(t) =< lines
      /\ Chain(cells, ll, t, end)
  BY <1>2, <1>3, LenProperties, MaxLinesAssumption DEF Generates, TypeOK
<1>5. Length(cells, ll) = Len(t)
  BY <1>4, ChainWalks
<1>6. PICK n \in 0 .. count - 1 :
        LET v == FindNth(cells, ll, n) IN
        /\ Writes(<<"r", v>>)
        /\ IF Hits(cells, ll, v) = {} THEN UNCHANGED <<ll, cells>>
           ELSE /\ ll' = RemoveNode(cells, ll, v).head
                /\ cells' = RemoveNode(cells, ll, v).mem
        /\ CountsDown
        /\ UNCHANGED state
  <2>1. \A n \in 0 .. count - 1 : ~(n >= Length(cells, ll))
    BY <1>4, <1>5
  <2> QED BY <2>1 DEF GenerateRemove
<1> DEFINE v == FindNth(cells, ll, n)
<1>7. /\ DOMAIN cells = 1 .. Len(cells) /\ Len(cells) \in Nat
      /\ cells \in [1 .. Len(cells) -> [value : Values, next : Int]]
  BY <1>2, LenProperties
<1>8. n + 1 \in 1 .. Len(t) /\ t[n + 1] \in DOMAIN cells /\ n < Len(t)
  BY <1>4, ElementOfSeq
<1>9. v = cells[t[n + 1]].value /\ v \in Values
  <2>1. ll = t[1] /\ t[1] \in DOMAIN cells
    <3>1. Len(t) # 0 /\ 1 \in 1 .. Len(t)
      BY <1>8, <1>4
    <3> QED BY <3>1, <1>4, ElementOfSeq DEF Chain
  <2>2. ll # Null
    BY <2>1, <1>7 DEF Null
  <2>3. Pointers(cells, ll)[n] = t[n + 1]
    BY <1>4, <1>8, ChainWalks
  <2>4. v = cells[t[n + 1]].value
    BY <2>2, <2>3, <1>5, <1>8 DEF FindNth
  <2>5. cells[t[n + 1]] \in [value : Values, next : Int]
    BY <1>7, <1>8
  <2> QED BY <2>4, <2>5
<1> HIDE DEF v
<1>10. Hits(cells, ll, v) # {}
  <2>1. Hits(cells, ll, v) = {m \in 0 .. Len(t) - 1 : cells[t[m + 1]].value = v}
    BY <1>4, ChainHits
  <2>2. n \in 0 .. Len(t) - 1
    BY <1>4
  <2> QED BY <2>1, <2>2, <1>9
<1>11. PICK i \in 1 .. Len(t) :
         FirstAt(ValuesOf(cells, t), v, i) /\ FirstHit(cells, ll, v) = i - 1
  BY <1>4, <1>10, ChainHits
<1>12. /\ ll' = RemoveNode(cells, ll, v).head /\ cells' = RemoveNode(cells, ll, v).mem
       /\ Writes(<<"r", v>>) /\ count' = count - 1 /\ state' = state
  BY <1>6, <1>10 DEF v, CountsDown
<1> DEFINE t2 == Cut(t, i)
<1>13. /\ cells' \in [1 .. Len(cells) -> [value : Values, next : Int]]
       /\ Chain(cells', ll', t2, end) /\ Len(t2) = Len(t) - 1
       /\ ValuesOf(cells', t2) = Cut(ValuesOf(cells, t), i)
  <2> DEFINE after == RemoveNode(cells, ll, v)
  <2>1. /\ after.mem \in [1 .. Len(cells) -> [value : Values, next : Int]]
        /\ Chain(after.mem, after.head, Cut(t, i), end) /\ Len(Cut(t, i)) = Len(t) - 1
        /\ ValuesOf(after.mem, Cut(t, i)) = Cut(ValuesOf(cells, t), i)
    <3>1. Removable(1 .. Len(cells), Values, cells, ll, t, end, v, i)
      BY <1>4, <1>7, <1>11 DEF Removable
    <3>2. after.mem \in [1 .. Len(cells) -> [value : Values, next : Int]]
      BY <3>1, RemoveChain
    <3>3. Chain(after.mem, after.head, Cut(t, i), end)
      BY <3>1, RemoveChain
    <3>4. Len(Cut(t, i)) = Len(t) - 1
      BY <3>1, RemoveChain
    <3>5. ValuesOf(after.mem, Cut(t, i)) = Cut(ValuesOf(cells, t), i)
      BY <3>1, RemoveChain
    <3> QED BY ONLY <3>2, <3>3, <3>4, <3>5
  <2> HIDE DEF after
  <2>2. ll' = after.head /\ cells' = after.mem
    BY <1>12 DEF after
  <2> QED BY <2>1, <2>2
<1>14. t2 \in Seq(DOMAIN cells') /\ cells' \in Seq([value : Values, next : Int])
  <2>1. t2 \in Seq(DOMAIN cells')
    BY <1>13 DEF Chain
  <2> QED BY <2>1, <1>7, <1>13, FunctionIsSeq
<1>15. ll' \in Int
  <2>1. end \in Int
    BY DEF Null, Wild
  <2>2. Len(t2) # 0 => t2[1] \in 1 .. Len(cells)
    <3>1. Len(t2) \in Nat
      BY <1>14, LenProperties
    <3>2. Len(t2) # 0 => 1 \in 1 .. Len(t2)
      BY <3>1
    <3>3. DOMAIN cells' = 1 .. Len(cells)
      BY <1>13
    <3> QED BY <3>2, <3>3, <1>14, ElementOfSeq
  <2>3. ll' = IF Len(t2) = 0 THEN end ELSE t2[1]
    BY <1>13 DEF Chain
  <2> QED BY <2>1, <2>2, <2>3, <1>7
<1> HIDE DEF t2
<1>16. <<"r", v>> \in Lines
  BY <1>9, LineKinds
<1>17. /\ origin' = origin /\ state = "writing"
       /\ file' = Append(file, <<"r", v>>) /\ file' \in Seq(Lines)
       /\ lines' = lines + 1 /\ lines' \in 0 .. MaxLines
       /\ heap' = heap /\ head' = head /\ memory' = memory /\ inUse' = inUse /\ out' = out
       /\ \E s \in Seq(Nodes) : Runs(s)'
  BY <1>12, <1>16, WritesKeeps
<1>18. ValuesOf(cells', t2) \in Seq(Values)
  BY <1>14, CellValues
<1>19. Executes(ValuesOf(cells, t), <<"r", v>>, ValuesOf(cells', t2))
  <2>1. i \in 1 .. Len(ValuesOf(cells, t))
    BY <1>11 DEF FirstAt
  <2> QED BY <2>1, <1>11, <1>13 DEF Executes
<1>20. Replays(<<>>, file', ValuesOf(cells', t2))
  <2>1. file \in Seq(Lines)
    BY <1>2 DEF TypeOK
  <2>2. Replays(<<>>, file, ValuesOf(cells, t))
    BY <1>3, <1>17 DEF Generates
  <2> QED BY <2>1, <2>2, <1>16, <1>17, <1>18, <1>19, LineAppended
<1>21. Generates(t2, end)'
  <2>1. lines \in 0 .. MaxLines
    BY <1>2 DEF TypeOK
  <2> QED BY <2>1, <1>4, <1>12, <1>13, <1>17, <1>20 DEF Generates
<1>22. TypeOK'
  <2>1. count' \in Int
    BY <1>4, <1>12
  <2> QED BY <2>1, <1>2, <1>12, <1>14, <1>15, <1>17 DEF TypeOK
<1>23. \E u \in Seq(DOMAIN cells'), e \in {Null, Wild} : Generates(u, e)'
  BY <1>14, <1>21
<1> QED BY <1>12, <1>17, <1>22, <1>23 DEF IInv

(* Another line, of mktrans or of a file made by hand.                     *)
LEMMA OtherLineKeeps ==
  ASSUME IInv, NEW line \in Lines, Writes(line), UNCHANGED <<state, genVars>>,
         origin = "editor" \/ line[1] \in {"p", "g"}
  PROVE  IInv'
<1>1. /\ origin' = origin /\ state = "writing"
      /\ file' = Append(file, line) /\ file' \in Seq(Lines)
      /\ lines' = lines + 1 /\ lines' \in 0 .. MaxLines
      /\ heap' = heap /\ head' = head /\ memory' = memory /\ inUse' = inUse /\ out' = out
      /\ \E s \in Seq(Nodes) : Runs(s)'
  BY WritesKeeps
<1>2. ll' = ll /\ cells' = cells /\ count' = count /\ state' = state
  BY DEF genVars
<1>3. TypeOK'
  BY <1>1, <1>2 DEF IInv, TypeOK
<1>4. ASSUME origin = "mktrans"
      PROVE  \E t \in Seq(DOMAIN cells), end \in {Null, Wild} : Generates(t, end)'
  <2>1. PICK t \in Seq(DOMAIN cells), end \in {Null, Wild} : Generates(t, end)
    BY <1>4 DEF IInv
  <2>2. Executes(ValuesOf(cells, t), line, ValuesOf(cells, t))
    BY <1>4 DEF Executes
  <2>3. ValuesOf(cells, t) \in Seq(Values) /\ Len(t) \in Nat
    BY CellValues DEF IInv, TypeOK
  <2>4. Replays(<<>>, file, ValuesOf(cells, t))
    BY <1>1, <2>1 DEF Generates
  <2>5. Replays(<<>>, file', ValuesOf(cells, t))
    <3>1. file \in Seq(Lines)
      BY DEF IInv, TypeOK
    <3> QED BY <3>1, <1>1, <2>2, <2>3, <2>4, LineAppended
  <2>6. Generates(t, end)'
    <3>1. lines \in 0 .. MaxLines
      BY DEF IInv, TypeOK
    <3> QED BY <3>1, <1>1, <1>2, <2>1, <2>3, <2>5 DEF Generates
  <2> QED BY <2>6
<1> QED BY <1>1, <1>2, <1>3, <1>4 DEF IInv

LEMMA GenerateOtherKeeps == IInv /\ GenerateOther => IInv'
<1> SUFFICES ASSUME IInv, GenerateOther PROVE IInv'
  OBVIOUS
<1>1. PICK kind \in {"p", "g"} : Writes(<<kind>>)
  BY DEF GenerateOther
<1>2. UNCHANGED <<state, genVars>>
  BY DEF GenerateOther
<1>3. <<kind>> \in Lines /\ <<kind>>[1] = kind
  BY LineKinds
<1> QED BY <1>1, <1>2, <1>3, OtherLineKeeps

LEMMA EditKeeps == IInv /\ Edit => IInv'
<1> SUFFICES ASSUME IInv, Edit PROVE IInv'
  OBVIOUS
<1>1. PICK kind \in {"a", "r"}, v \in Values : Writes(<<kind, v>>)
  BY DEF Edit
<1>2. UNCHANGED <<state, genVars>> /\ origin = "editor"
  BY DEF Edit
<1>3. <<kind, v>> \in Lines
  BY LineKinds
<1> QED BY <1>1, <1>2, <1>3, OtherLineKeeps

(* do_list starts with an empty list, and every line can be executed.      *)
LEMMA FileWrittenKeeps == IInv /\ FileWritten => IInv'
<1> SUFFICES ASSUME IInv, FileWritten PROVE IInv'
  OBVIOUS
<1>1. /\ state = "writing" /\ state' = "reading"
      /\ origin' = origin /\ file' = file /\ lines' = lines
      /\ ll' = ll /\ cells' = cells /\ count' = count
      /\ heap' = heap /\ head' = head /\ memory' = memory /\ inUse' = inUse
      /\ out' = out /\ log' = log
  BY DEF FileWritten, genVars, listVars
<1>2. TypeOK'
  BY <1>1 DEF IInv, TypeOK
<1>3. PICK s \in Seq(Nodes) : Runs(s)
  BY DEF IInv
<1>4. origin = "mktrans" => \E m \in Seq(Values) : Replays(ValuesOf(heap, s), file, m)
  <2>1. SUFFICES ASSUME origin = "mktrans"
                 PROVE  \E m \in Seq(Values) : Replays(ValuesOf(heap, s), file, m)
    OBVIOUS
  <2>2. PICK t \in Seq(DOMAIN cells), end \in {Null, Wild} : Generates(t, end)
    BY <2>1 DEF IInv
  <2>3. ValuesOf(cells, t) \in Seq(Values)
    BY CellValues DEF IInv, TypeOK
  <2>4. ValuesOf(heap, s) = <<>>
    <3>1. Len(s) = 0
      BY <1>1, <1>3 DEF Runs
    <3> QED BY <3>1 DEF ValuesOf
  <2> QED BY <1>1, <2>2, <2>3, <2>4 DEF Generates
<1>5. Runs(s)'
  BY <1>1, <1>3, <1>4 DEF Runs, Chain
<1>6. origin = "mktrans" =>
        \E t \in Seq(DOMAIN cells), end \in {Null, Wild} : Generates(t, end)'
  BY <1>1 DEF IInv, Generates
<1> QED BY <1>1, <1>2, <1>5, <1>6 DEF IInv

LEMMA FrontProperties ==
  ASSUME NEW S, NEW x \in S, NEW l \in Seq(S)
  PROVE  /\ Front(x, l) \in Seq(S) /\ Len(Front(x, l)) = Len(l) + 1 /\ Front(x, l)[1] = x
         /\ \A i \in 2 .. Len(l) + 1 : Front(x, l)[i] = l[i - 1]
<1>1. <<x>> \in Seq(S) /\ Len(<<x>>) = 1 /\ <<x>>[1] = x
  OBVIOUS
<1>2. /\ <<x>> \o l \in Seq(S) /\ Len(<<x>> \o l) = 1 + Len(l)
      /\ \A i \in 1 .. 1 + Len(l) : (<<x>> \o l)[i] = IF i =< 1 THEN <<x>>[i] ELSE l[i - 1]
  BY <1>1, ConcatProperties
<1>3. Len(l) \in Nat
  BY LenProperties
<1> QED BY <1>1, <1>2, <1>3 DEF Front

(* What a line read leaves of the file, and of its execution.              *)
LEMMA LineTaken ==
  ASSUME IInv, NEW kind, ReadsLine(kind), NEW s \in Seq(Nodes), Runs(s)
  PROVE  /\ origin' = origin /\ state = "reading" /\ state' = state /\ lines' = lines
         /\ ll' = ll /\ cells' = cells /\ count' = count
         /\ Head(file) \in Lines /\ Head(file)[1] = kind
         /\ file' \in Seq(Lines) /\ Len(file) \in Nat /\ Len(file') = Len(file) - 1
         /\ origin = "mktrans" =>
              \E l \in Seq(Values), m \in Seq(Values) :
                Executes(ValuesOf(heap, s), Head(file), l) /\ Replays(l, file', m)
<1>1. /\ origin' = origin /\ state = "reading" /\ state' = state /\ lines' = lines
      /\ ll' = ll /\ cells' = cells /\ count' = count
      /\ file # <<>> /\ Head(file)[1] = kind /\ file' = Tail(file)
  BY DEF ReadsLine, genVars
<1>2. file \in Seq(Lines)
  BY DEF IInv, TypeOK
<1>3. /\ Head(file) \in Lines /\ file' \in Seq(Lines)
      /\ Len(file) \in Nat /\ Len(file') = Len(file) - 1
  BY <1>1, <1>2, HeadTailProperties, LenProperties
<1>4. ASSUME origin = "mktrans"
      PROVE  \E l \in Seq(Values), m \in Seq(Values) :
               Executes(ValuesOf(heap, s), Head(file), l) /\ Replays(l, file', m)
  <2>1. PICK m \in Seq(Values) : Replays(ValuesOf(heap, s), file, m)
    BY <1>1, <1>4 DEF Runs
  <2> QED BY <1>1, <1>2, <2>1, LineRead
<1> QED BY <1>1, <1>3, <1>4

(* mktrans has ended, and its list is as it was.                           *)
LEMMA GenerationKept ==
  ASSUME IInv, origin' = origin, ll' = ll, cells' = cells, count' = count, lines' = lines,
         state' # "writing"
  PROVE  origin' = "mktrans" =>
           \E t \in Seq(DOMAIN cells'), end \in {Null, Wild} : Generates(t, end)'
BY DEF IInv, Generates

(* The invariant and the list after a transaction, by its new nodes s.     *)
LEMMA ListAfter ==
  ASSUME TypeOK', NEW s \in Seq(Nodes), Runs(s)'
  PROVE  ToString(heap', head') = ValuesOf(heap', s)
<1>1. Len(s) \in Nat /\ Len(file') \in Nat /\ lines' \in 0 .. MaxLines
  BY LenProperties DEF TypeOK
<1>2. Len(s) =< MaxLines /\ Chain(heap', head', s, Null)
  BY <1>1, MaxLinesAssumption DEF Runs
<1> QED BY <1>2, ChainWalks

LEMMA AddNodeKeeps ==
  ASSUME IInv, AddNode
  PROVE  /\ IInv' /\ out' = <<>> /\ Head(file)[2] \in Values
         /\ ToString(heap', head') = Front(Head(file)[2], ToString(heap, head))
<1>1. PICK s \in Seq(Nodes) : Runs(s)
  BY DEF IInv
<1>2. PICK node \in Nodes \ memory :
        /\ heap' = [heap EXCEPT ![node] = [value |-> Head(file)[2], next |-> head]]
        /\ head' = node
        /\ memory' = memory \cup {node} /\ inUse' = inUse \cup {node}
  BY DEF AddNode
<1>3. ReadsLine("a") /\ out' = <<>> /\ log' = <<>>
  BY DEF AddNode
<1>4. TypeOK
  BY DEF IInv
<1>5. /\ Len(s) \in Nat /\ Len(s) =< MaxLines
      /\ ToString(heap, head) = ValuesOf(heap, s) /\ Elements(s) \subseteq memory
      /\ ValuesOf(heap, s) \in Seq(Values)
  BY <1>1, <1>4, RunsList
<1>6. /\ origin' = origin /\ state = "reading" /\ state' = state /\ lines' = lines
      /\ ll' = ll /\ cells' = cells /\ count' = count
      /\ Head(file) \in Lines /\ Head(file)[1] = "a"
      /\ file' \in Seq(Lines) /\ Len(file) \in Nat /\ Len(file') = Len(file) - 1
      /\ origin = "mktrans" =>
           \E l \in Seq(Values), m \in Seq(Values) :
             Executes(ValuesOf(heap, s), Head(file), l) /\ Replays(l, file', m)
  BY <1>1, <1>3, LineTaken
<1>7. PICK v \in Values : v = Head(file)[2]
  BY <1>6, LineKinds
<1>8. /\ heap \in [Nodes -> [value : Values \cup {0}, next : Int]] /\ head \in Int
      /\ memory \subseteq Nodes /\ inUse \subseteq memory
  BY <1>4 DEF TypeOK
<1>9. /\ heap' \in [Nodes -> [value : Values \cup {0}, next : Int]]
      /\ heap'[node] = [value |-> v, next |-> head]
      /\ \A a \in Nodes : a # node => heap'[a] = heap[a]
  BY <1>2, <1>7, <1>8
<1>10. node \in Int /\ node # Null
  BY NodesAssumption DEF Null
<1>11. TypeOK'
  BY <1>2, <1>4, <1>6, <1>8, <1>9, <1>10 DEF TypeOK
<1>12. Precedes(heap, head, s, Null, heap', node, v)
  <2>1. DOMAIN heap' = DOMAIN heap \cup {node} /\ DOMAIN heap = Nodes
    BY <1>8, <1>9
  <2>2. Chain(heap, head, s, Null)
    BY <1>1 DEF Runs
  <2>3. node \notin Elements(s)
    BY <1>5
  <2> QED BY <2>1, <2>2, <2>3, <1>9, <1>10 DEF Precedes
<1> DEFINE s2 == Front(node, s)
<1>13. /\ Chain(heap', node, s2, Null)
       /\ ValuesOf(heap', s2) = Front(v, ValuesOf(heap, s))
  BY <1>12, AddChain
<1>14. /\ s2 \in Seq(Nodes) /\ Len(s2) = Len(s) + 1 /\ s2[1] = node
       /\ \A i \in 2 .. Len(s) + 1 : s2[i] = s[i - 1]
  <2>1. node \in Nodes
    OBVIOUS
  <2> QED BY <2>1, FrontProperties
<1> HIDE DEF s2
<1>15. \A i \in 1 .. Len(s2) : s2[i] \in memory' /\ heap'[s2[i]].value \in Values
  <2> TAKE i \in 1 .. Len(s2)
  <2>1. CASE i = 1
    BY <2>1, <1>2, <1>9, <1>14
  <2>2. CASE i # 1
    <3>1. i - 1 \in 1 .. Len(s) /\ s2[i] = s[i - 1]
      BY <2>2, <1>5, <1>14
    <3>2. s[i - 1] \in memory /\ heap[s[i - 1]].value \in Values
      BY <3>1, <1>1 DEF Runs
    <3> QED BY <3>1, <3>2, <1>2, <1>8, <1>9
  <2> QED BY <2>1, <2>2
<1>16. origin = "mktrans" => \E m \in Seq(Values) : Replays(ValuesOf(heap', s2), file', m)
  <2>1. SUFFICES ASSUME origin = "mktrans"
                 PROVE  \E m \in Seq(Values) : Replays(ValuesOf(heap', s2), file', m)
    OBVIOUS
  <2>2. PICK l \in Seq(Values), m \in Seq(Values) :
          Executes(ValuesOf(heap, s), Head(file), l) /\ Replays(l, file', m)
    BY <1>6, <2>1
  <2>3. l = Front(v, ValuesOf(heap, s))
    BY <1>6, <1>7, <2>2 DEF Executes
  <2> QED BY <2>2, <2>3, <1>13
<1>17. Runs(s2)'
  <2>1. Len(s2) + Len(file') =< lines'
    <3>1. Len(s) + Len(file) =< lines /\ lines \in Int
      BY <1>1, <1>4 DEF Runs, TypeOK
    <3> QED BY <3>1, <1>5, <1>6, <1>14
  <2>2. Chain(heap', head', s2, Null)
    BY <1>2, <1>13
  <2> QED BY <2>1, <2>2, <1>3, <1>6, <1>14, <1>15, <1>16 DEF Runs
<1>18. IInv'
  <2>1. origin' = "mktrans" =>
          \E t \in Seq(DOMAIN cells'), end \in {Null, Wild} : Generates(t, end)'
    BY <1>6, GenerationKept
  <2> QED BY <2>1, <1>3, <1>6, <1>11, <1>14, <1>17 DEF IInv
<1>19. ToString(heap', head') = ValuesOf(heap', s2)
  BY <1>11, <1>14, <1>17, ListAfter
<1> QED BY <1>3, <1>5, <1>7, <1>13, <1>18, <1>19

LEMMA FileShortens ==
  ASSUME TypeOK, NEW s \in Seq(Nodes), Runs(s), lines' = lines, Len(file') = Len(file) - 1
  PROVE  Len(s) + Len(file') =< lines'
<1>1. Len(s) \in Nat /\ Len(file) \in Nat
  BY LenProperties DEF TypeOK
<1>2. lines \in Int /\ Len(s) + Len(file) =< lines
  BY MaxLinesAssumption DEF TypeOK, Runs
<1> QED BY <1>1, <1>2

(* A transaction that leaves the list as it is.                            *)
LEMMA SameListKeeps ==
  ASSUME IInv, NEW kind, ReadsLine(kind), NEW s \in Seq(Nodes), Runs(s),
         heap' = heap, head' = head, inUse' \subseteq memory', memory' \subseteq memory,
         Elements(s) \subseteq memory',
         log' # <<>> => memory' = Elements(s) /\ log'[2] = Len(s),
         origin = "mktrans" =>
           /\ kind \in {"p", "g"}
           /\ out' = <<>> \/ out'[1] # "could not remove"
  PROVE  IInv' /\ ToString(heap', head') = ToString(heap, head)
<1>1. TypeOK
  BY DEF IInv
<1>2. /\ origin' = origin /\ state = "reading" /\ state' = state /\ lines' = lines
      /\ ll' = ll /\ cells' = cells /\ count' = count
      /\ Head(file) \in Lines /\ Head(file)[1] = kind
      /\ file' \in Seq(Lines) /\ Len(file) \in Nat /\ Len(file') = Len(file) - 1
      /\ origin = "mktrans" =>
           \E l \in Seq(Values), m \in Seq(Values) :
             Executes(ValuesOf(heap, s), Head(file), l) /\ Replays(l, file', m)
  BY LineTaken
<1>3. TypeOK'
  BY <1>1, <1>2 DEF TypeOK
<1>4. origin = "mktrans" => \E m \in Seq(Values) : Replays(ValuesOf(heap, s), file', m)
  <2>1. SUFFICES ASSUME origin = "mktrans"
                 PROVE  \E m \in Seq(Values) : Replays(ValuesOf(heap, s), file', m)
    OBVIOUS
  <2>2. PICK l \in Seq(Values), m \in Seq(Values) :
          Executes(ValuesOf(heap, s), Head(file), l) /\ Replays(l, file', m)
    BY <1>2, <2>1
  <2>3. l = ValuesOf(heap, s)
    BY <1>2, <2>1, <2>2 DEF Executes
  <2> QED BY <2>2, <2>3
<1>5. Runs(s)'
  <2>1. Len(s) + Len(file') =< lines'
    <3>1. lines' = lines /\ Len(file') = Len(file) - 1
      BY <1>2
    <3> QED BY <1>1, <3>1, FileShortens
  <2>2. Chain(heap', head', s, Null)
    BY DEF Runs
  <2>3. \A i \in 1 .. Len(s) : s[i] \in memory' /\ heap'[s[i]].value \in Values
    BY DEF Runs, Elements
  <2>4. log' # <<>> => memory' = Elements(s) /\ log'[2] = Len(s)
    OBVIOUS
  <2> QED BY <2>1, <2>2, <2>3, <2>4, <1>2, <1>4 DEF Runs
<1>6. origin' = "mktrans" =>
        \E t \in Seq(DOMAIN cells'), end \in {Null, Wild} : Generates(t, end)'
  BY <1>2, GenerationKept
<1>7. IInv'
  BY <1>2, <1>3, <1>5, <1>6 DEF IInv
<1>8. ToString(heap, head) = ValuesOf(heap, s)
  BY <1>1, RunsList
<1>9. ToString(heap', head') = ValuesOf(heap', s)
  BY <1>3, <1>5, ListAfter
<1> QED BY <1>7, <1>8, <1>9

LEMMA DeleteNodeKeeps ==
  ASSUME IInv, DeleteNode
  PROVE  /\ IInv' /\ Head(file)[2] \in Values
         /\ \/ /\ \A i \in 1 .. Len(ToString(heap, head)) : ToString(heap, head)[i] # Head(file)[2]
               /\ out' = <<"could not remove", Head(file)[2]>>
               /\ ToString(heap', head') = ToString(heap, head)
            \/ /\ out' = <<>>
               /\ \E i \in 1 .. Len(ToString(heap, head)) :
                    /\ FirstAt(ToString(heap, head), Head(file)[2], i)
                    /\ ToString(heap', head') = Cut(ToString(heap, head), i)
<1>1. PICK s \in Seq(Nodes) : Runs(s)
  BY DEF IInv
<1>2. ReadsLine("r") /\ log' = <<>> /\ memory' = memory /\ inUse' = inUse
  BY DEF DeleteNode
<1>3. TypeOK
  BY DEF IInv
<1>4. /\ Len(s) \in Nat /\ Len(s) =< MaxLines
      /\ ToString(heap, head) = ValuesOf(heap, s) /\ Elements(s) \subseteq memory
      /\ ValuesOf(heap, s) \in Seq(Values)
  BY <1>1, <1>3, RunsList
<1>5. /\ origin' = origin /\ state = "reading" /\ state' = state /\ lines' = lines
      /\ ll' = ll /\ cells' = cells /\ count' = count
      /\ Head(file) \in Lines /\ Head(file)[1] = "r"
      /\ file' \in Seq(Lines) /\ Len(file) \in Nat /\ Len(file') = Len(file) - 1
      /\ origin = "mktrans" =>
           \E l \in Seq(Values), m \in Seq(Values) :
             Executes(ValuesOf(heap, s), Head(file), l) /\ Replays(l, file', m)
  BY <1>1, <1>2, LineTaken
<1>6. PICK v \in Values : v = Head(file)[2]
  BY <1>5, LineKinds
<1>7. /\ heap \in [Nodes -> [value : Values \cup {0}, next : Int]] /\ head \in Int
      /\ memory \subseteq Nodes /\ inUse \subseteq memory
  BY <1>3 DEF TypeOK
<1>8. Chain(heap, head, s, Null)
  BY <1>1 DEF Runs
<1>9. /\ Len(ValuesOf(heap, s)) = Len(s)
      /\ \A i \in 1 .. Len(s) : ValuesOf(heap, s)[i] = heap[s[i]].value
  BY <1>4, ValuesProperties
<1>10. Hits(heap, head, v) = {n \in 0 .. Len(s) - 1 : heap[s[n + 1]].value = v}
  BY <1>4, <1>8, ChainHits
<1>11. ASSUME Hits(heap, head, v) = {}
       PROVE  \A i \in 1 .. Len(s) : ValuesOf(heap, s)[i] # v
  <2> TAKE i \in 1 .. Len(s)
  <2>1. i - 1 \in 0 .. Len(s) - 1 /\ (i - 1) + 1 = i
    BY <1>4
  <2>2. i - 1 \notin Hits(heap, head, v)
    BY <1>11
  <2>3. heap[s[i]].value # v
    BY <2>1, <2>2, <1>10
  <2> QED BY <2>3, <1>9
<1>12. CASE Hits(heap, head, v) = {}
  <2>1. out' = <<"could not remove", v>> /\ heap' = heap /\ head' = head
    BY <1>6, <1>12 DEF DeleteNode
  <2>2. origin # "mktrans"
    <3>1. SUFFICES ASSUME origin = "mktrans" PROVE FALSE
      OBVIOUS
    <3>2. PICK l \in Seq(Values) : Executes(ValuesOf(heap, s), Head(file), l)
      BY <1>5, <3>1
    <3>3. PICK i \in 1 .. Len(ValuesOf(heap, s)) : FirstAt(ValuesOf(heap, s), v, i)
      BY <1>5, <1>6, <3>2 DEF Executes
    <3> QED BY <3>3, <1>9, <1>11, <1>12 DEF FirstAt
  <2>3. IInv' /\ ToString(heap', head') = ToString(heap, head)
    BY <1>1, <1>2, <1>4, <1>7, <2>1, <2>2, SameListKeeps
  <2> QED BY <2>1, <2>3, <1>4, <1>6, <1>9, <1>11, <1>12
<1>13. CASE Hits(heap, head, v) # {}
  <2>1. /\ head' = RemoveNode(heap, head, v).head /\ heap' = RemoveNode(heap, head, v).mem
        /\ out' = <<>>
    BY <1>6, <1>13 DEF DeleteNode
  <2>2. PICK i \in 1 .. Len(s) :
          FirstAt(ValuesOf(heap, s), v, i) /\ FirstHit(heap, head, v) = i - 1
    BY <1>4, <1>8, <1>13, ChainHits
  <2> DEFINE s2 == Cut(s, i)
  <2>3. /\ heap' \in [Nodes -> [value : Values \cup {0}, next : Int]]
        /\ \A a \in Nodes : heap'[a].value = heap[a].value
        /\ Chain(heap', head', s2, Null) /\ s2 \in Seq(Nodes) /\ Len(s2) = Len(s) - 1
        /\ Elements(s2) \subseteq Elements(s)
        /\ ValuesOf(heap', s2) = Cut(ValuesOf(heap, s), i)
    <3> DEFINE after == RemoveNode(heap, head, v)
    <3>1. Removable(Nodes, Values \cup {0}, heap, head, s, Null, v, i)
      BY <1>4, <1>7, <1>8, <2>2 DEF Removable
    <3>2. after.mem \in [Nodes -> [value : Values \cup {0}, next : Int]]
      BY <3>1, RemoveChain
    <3>3. \A a \in Nodes : after.mem[a].value = heap[a].value
      BY <3>1, RemoveChain
    <3>4. Chain(after.mem, after.head, Cut(s, i), Null)
      BY <3>1, RemoveChain
    <3>5. Cut(s, i) \in Seq(Nodes) /\ Len(Cut(s, i)) = Len(s) - 1
      BY <3>1, RemoveChain
    <3>6. Elements(Cut(s, i)) \subseteq Elements(s)
      BY <3>1, RemoveChain
    <3>7. ValuesOf(after.mem, Cut(s, i)) = Cut(ValuesOf(heap, s), i)
      BY <3>1, RemoveChain
    <3>8. head' = after.head /\ heap' = after.mem
      BY <2>1
    <3> HIDE DEF after
    <3> QED BY ONLY <3>2, <3>3, <3>4, <3>5, <3>6, <3>7, <3>8
  <2> HIDE DEF s2
  <2>4. \A k \in 1 .. Len(s2) : s2[k] \in memory' /\ heap'[s2[k]].value \in Values
    <3> TAKE k \in 1 .. Len(s2)
    <3>1. PICK j \in 1 .. Len(s) : s2[k] = s[j]
      BY <2>3 DEF Elements
    <3>2. s[j] \in memory /\ heap[s[j]].value \in Values /\ s[j] \in Nodes
      BY <1>1, <1>7 DEF Runs
    <3> QED BY <3>1, <3>2, <1>2, <2>3
  <2>5. head' \in Int
    <3>1. Len(s2) # 0 => s2[1] \in Nodes
      <4>1. Len(s2) # 0 => 1 \in 1 .. Len(s2)
        BY <2>3, LenProperties
      <4> QED BY <4>1, <2>3, ElementOfSeq
    <3>2. head' = IF Len(s2) = 0 THEN Null ELSE s2[1]
      BY <2>3 DEF Chain
    <3> QED BY <3>1, <3>2, NodesAssumption DEF Null
  <2>6. TypeOK'
    BY <1>2, <1>3, <1>5, <1>7, <2>3, <2>5 DEF TypeOK
  <2>7. origin = "mktrans" => \E m \in Seq(Values) : Replays(ValuesOf(heap', s2), file', m)
    <3>1. SUFFICES ASSUME origin = "mktrans"
                   PROVE  \E m \in Seq(Values) : Replays(ValuesOf(heap', s2), file', m)
      OBVIOUS
    <3>2. PICK l \in Seq(Values), m \in Seq(Values) :
            Executes(ValuesOf(heap, s), Head(file), l) /\ Replays(l, file', m)
      BY <1>5, <3>1
    <3>3. PICK j \in 1 .. Len(ValuesOf(heap, s)) :
            FirstAt(ValuesOf(heap, s), v, j) /\ l = Cut(ValuesOf(heap, s), j)
      BY <1>5, <1>6, <3>2 DEF Executes
    <3>4. j = i
      BY <3>3, <2>2, <1>4, <1>9, FirstAtUnique
    <3> QED BY <3>2, <3>3, <3>4, <2>3
  <2>8. Runs(s2)'
    <3>1. Len(s2) + Len(file') =< lines'
      <4>1. Len(s) + Len(file) =< lines /\ lines \in Int
        BY <1>1, <1>3 DEF Runs, TypeOK
      <4> QED BY <4>1, <1>4, <1>5, <2>3
    <3> QED BY <3>1, <1>2, <1>5, <2>3, <2>4, <2>7 DEF Runs
  <2>9. IInv'
    <3>1. origin' = "mktrans" =>
            \E t \in Seq(DOMAIN cells'), end \in {Null, Wild} : Generates(t, end)'
      BY <1>5, GenerationKept
    <3> QED BY <3>1, <1>5, <2>1, <2>3, <2>6, <2>8 DEF IInv
  <2>10. ToString(heap', head') = ValuesOf(heap', s2)
    BY <2>3, <2>6, <2>8, ListAfter
  <2> QED BY <2>1, <2>2, <2>3, <2>9, <2>10, <1>4, <1>6, <1>9
<1> QED BY <1>12, <1>13

LEMMA PrintNodesKeeps ==
  ASSUME IInv, PrintNodes
  PROVE  /\ IInv' /\ out' = <<"List is", ToString(heap, head)>>
         /\ ToString(heap', head') = ToString(heap, head)
<1>1. PICK s \in Seq(Nodes) : Runs(s)
  BY DEF IInv
<1>2. /\ ReadsLine("p") /\ out' = <<"List is", ToString(heap, head)>> /\ log' = <<>>
      /\ heap' = heap /\ head' = head /\ memory' = memory /\ inUse' = inUse
  BY DEF PrintNodes
<1>3. Elements(s) \subseteq memory /\ inUse \subseteq memory
  BY <1>1, RunsList DEF IInv, TypeOK
<1>4. out'[1] # "could not remove"
  BY <1>2
<1> QED BY <1>1, <1>2, <1>3, <1>4, SameListKeeps

LEMMA ElementsCount ==
  ASSUME NEW S, NEW s \in Seq(S), \A i, j \in 1 .. Len(s) : s[i] = s[j] => i = j
  PROVE  Cardinality(Elements(s)) = Len(s)
<1>1. Len(s) \in Nat
  BY LenProperties
<1>2. IsFiniteSet(1 .. Len(s)) /\ Cardinality(1 .. Len(s)) = Len(s)
  <2>1. /\ IsFiniteSet(1 .. Len(s))
        /\ Cardinality(1 .. Len(s)) = IF 1 > Len(s) THEN 0 ELSE Len(s) - 1 + 1
    BY <1>1, FS_Interval
  <2> QED BY <1>1, <2>1
<1> DEFINE f == [i \in 1 .. Len(s) |-> s[i]]
<1>3. f \in Bijection(1 .. Len(s), Elements(s))
  BY DEF Bijection, Injection, Surjection, IsInjective, Elements
<1>4. ExistsBijection(1 .. Len(s), Elements(s))
  BY <1>3 DEF ExistsBijection
<1> QED BY <1>2, <1>4, FS_Bijection

LEMMA CollectKeeps ==
  ASSUME IInv, Collect
  PROVE  IInv' /\ out' = <<>> /\ ToString(heap', head') = ToString(heap, head)
<1>1. PICK s \in Seq(Nodes) : Runs(s)
  BY DEF IInv
<1>2. ReadsLine("g") /\ MarkAndSweep(head) /\ out' = <<>> /\ heap' = heap /\ head' = head
  BY DEF Collect
<1>3. Elements(s) \subseteq memory /\ inUse \subseteq memory /\ Reached(head) = Elements(s)
  BY <1>1, RunsList DEF IInv, TypeOK
<1>4. Cardinality(Elements(s)) = Len(s)
  BY <1>1, ElementsCount DEF Runs, Chain
<1>5. \/ /\ memory' = Elements(s) /\ inUse' = Elements(s)
         /\ log' = <<Cardinality(memory \ Elements(s)), Cardinality(Elements(s))>>
      \/ log' = <<>> /\ memory' = memory /\ inUse' = inUse
  <2>1. memory \cap (Unmarked(inUse) \cup MarkList(head)) = Elements(s)
    BY <1>3 DEF Unmarked, MarkList
  <2> QED BY <1>2, <2>1 DEF MarkAndSweep
<1>6. /\ inUse' \subseteq memory' /\ memory' \subseteq memory /\ Elements(s) \subseteq memory'
      /\ log' # <<>> => memory' = Elements(s) /\ log'[2] = Len(s)
  BY <1>3, <1>4, <1>5
<1> QED BY <1>1, <1>2, <1>6, SameListKeeps

LEMMA FinishKeeps ==
  ASSUME IInv, Finish
  PROVE  IInv' /\ out' = <<>> /\ ToString(heap', head') = <<>>
<1>1. /\ state = "reading" /\ state' = "done" /\ file = <<>> /\ file' = file
      /\ head' = Null /\ heap' = heap /\ MarkAndSweep(Null) /\ out' = <<>>
      /\ origin' = origin /\ lines' = lines /\ ll' = ll /\ cells' = cells /\ count' = count
  BY DEF Finish, genVars
<1>2. TypeOK
  BY DEF IInv
<1>3. Chain(heap, Null, <<>>, Null) /\ ValuesOf(heap, <<>>) = <<>> /\ Elements(<<>>) = {}
  <2>1. Null \notin DOMAIN heap
    BY <1>2, NodesAssumption DEF TypeOK, Null
  <2> QED BY <2>1, EmptyChain
<1>4. Reached(Null) = {}
  <2>1. Len(<<>>) =< MaxLines
    BY MaxLinesAssumption
  <2>2. {Pointers(heap, Null)[n] : n \in Positions(heap, Null)} = Elements(<<>>)
    BY <1>3, <2>1, ChainWalks
  <2> QED BY <2>2, <1>3 DEF Reached
<1>5. \/ /\ memory' = {} /\ inUse' = {}
         /\ log' = <<Cardinality(memory \ {}), Cardinality({})>>
      \/ log' = <<>> /\ memory' = memory /\ inUse' = inUse
  <2>1. memory \cap (Unmarked(inUse) \cup MarkList(Null)) = {}
    BY <1>4 DEF Unmarked, MarkList
  <2> QED BY <1>1, <2>1 DEF MarkAndSweep
<1>6. log' # <<>> => memory' = Elements(<<>>) /\ log'[2] = Len(<<>>)
  BY <1>3, <1>5, FS_EmptySet
<1>7. TypeOK'
  BY <1>1, <1>2, <1>5 DEF TypeOK, Null
<1>8. Runs(<<>>)'
  <2>1. Len(<<>>) + Len(file') =< lines'
    BY <1>1, <1>2 DEF TypeOK
  <2>2. <<>> \in Seq(Nodes) /\ Len(<<>>) = 0
    BY EmptySeq
  <2> QED BY <2>1, <2>2, <1>1, <1>3, <1>6 DEF Runs
<1>9. origin' = "mktrans" =>
        \E t \in Seq(DOMAIN cells'), end \in {Null, Wild} : Generates(t, end)'
  BY <1>1, GenerationKept
<1>10. <<>> \in Seq(Nodes)
  BY EmptySeq
<1>11. \E s \in Seq(Nodes) : Runs(s)'
  BY <1>8, <1>10
<1>12. IInv'
  BY <1>1, <1>7, <1>9, <1>11 DEF IInv
<1>13. ToString(heap', head') = ValuesOf(heap', <<>>)
  BY <1>7, <1>8, <1>10, ListAfter
<1> QED BY <1>1, <1>3, <1>12, <1>13

LEMMA Inductive == IInv /\ [Next]_vars => IInv'
<1> SUFFICES ASSUME IInv, [Next]_vars PROVE IInv'
  OBVIOUS
<1>1. CASE Writer
  BY <1>1, GenerateAddKeeps, GenerateRemoveKeeps, GenerateOtherKeeps, EditKeeps,
     FileWrittenKeeps DEF Writer
<1>2. CASE DoList
  BY <1>2, AddNodeKeeps, DeleteNodeKeeps, PrintNodesKeeps, CollectKeeps, FinishKeeps
  DEF DoList
<1>3. CASE UNCHANGED vars
  <2>1. /\ origin' = origin /\ state' = state /\ file' = file /\ lines' = lines
        /\ ll' = ll /\ cells' = cells /\ count' = count /\ heap' = heap /\ head' = head
        /\ memory' = memory /\ inUse' = inUse /\ out' = out /\ log' = log
    BY <1>3 DEF vars, genVars, listVars
  <2>2. TypeOK'
    BY <2>1 DEF IInv, TypeOK
  <2>3. \E s \in Seq(Nodes) : Runs(s)'
    <3>1. PICK s \in Seq(Nodes) : Runs(s)
      BY DEF IInv
    <3>2. Runs(s)'
      BY <3>1, <2>1 DEF Runs
    <3> QED BY <3>2
  <2>4. origin' = "mktrans" =>
          \E t \in Seq(DOMAIN cells'), end \in {Null, Wild} : Generates(t, end)'
    <3>1. SUFFICES ASSUME origin = "mktrans"
                   PROVE  \E t \in Seq(DOMAIN cells'), end \in {Null, Wild} : Generates(t, end)'
      BY <2>1
    <3>2. PICK t \in Seq(DOMAIN cells), end \in {Null, Wild} : Generates(t, end)
      BY <3>1 DEF IInv
    <3>3. Generates(t, end)'
      BY <3>2, <2>1 DEF Generates
    <3> QED BY <3>3, <2>1
  <2> QED BY <2>1, <2>2, <2>3, <2>4 DEF IInv
<1> QED BY <1>1, <1>2, <1>3 DEF Next

-----------------------------------------------------------------------------
(* In every state the list of do_list is a chain of allocated nodes, and   *)
(* that of mktrans holds the values its file leaves: the walks of both     *)
(* programs end, each at the pointer behind its last node.                 *)
THEOREM ListsCorrect == Spec => []IInv
<1>1. Init => IInv
  BY Initially
<1>2. IInv /\ [Next]_vars => IInv'
  BY Inductive
<1> QED BY <1>1, <1>2, PTL DEF Spec

(* A pass of the collector that writes its log leaves the nodes of the     *)
(* list allocated and no others, and counts them right, for any number of  *)
(* nodes and transactions.                                                 *)
THEOREM CollectionCorrect == Spec => []CollectionExact
<1>1. IInv => CollectionExact
  <2>1. SUFFICES ASSUME IInv, log # <<>>
                 PROVE  memory = Reached(head) /\ log[2] = Length(heap, head)
    BY DEF CollectionExact
  <2>2. PICK s \in Seq(Nodes) : Runs(s)
    BY <2>1 DEF IInv
  <2>3. memory = Elements(s) /\ log[2] = Len(s)
    BY <2>1, <2>2 DEF Runs
  <2>4. Reached(head) = Elements(s) /\ Length(heap, head) = Len(s)
    BY <2>1, <2>2, RunsList DEF IInv
  <2> QED BY <2>3, <2>4
<1> QED BY <1>1, ListsCorrect, PTL

(* mktrans does not follow the pointer it never initializes, and every     *)
(* removal in a file of its finds the value it names.                      *)
THEOREM RemovalsCorrect == Spec => []RemovalsFind
<1>1. IInv => RemovalsFind
  BY DEF IInv, RemovalsFind
<1> QED BY <1>1, ListsCorrect, PTL

LEMMA WriterKeepsList ==
  ASSUME IInv, Writer
  PROVE  heap' = heap /\ head' = head /\ out' = out
BY DEF Writer, GenerateAdd, GenerateRemove, GenerateOther, Edit, FileWritten, Writes, listVars

(* What a transaction does to the nodes it does to the sequence of their   *)
(* values: a new value in front, the first of the equal ones out, the      *)
(* others and their order as they were; a collection changes nothing, and  *)
(* the program's other steps are invisible.                                *)
THEOREM ListImplemented == Spec => ImplementsList
<1>1. Init => List!LInit
  <2>1. SUFFICES ASSUME Init PROVE ToString(heap, head) = <<>> /\ out = <<>>
    BY DEF List!LInit
  <2>2. IInv /\ out = <<>>
    BY <2>1, Initially DEF Init
  <2>3. PICK s \in Seq(Nodes) : Runs(s)
    BY <2>2 DEF IInv
  <2>4. Len(s) = 0 /\ ToString(heap, head) = ValuesOf(heap, s)
    BY <2>1, <2>2, <2>3, RunsList DEF Runs, Init, IInv
  <2>5. ValuesOf(heap, s) = <<>>
    BY <2>4 DEF ValuesOf
  <2> QED BY <2>2, <2>4, <2>5
<1>2. IInv /\ [Next]_vars => [List!LNext]_<<ToString(heap, head), out>>
  <2> SUFFICES ASSUME IInv, [Next]_vars
               PROVE  \/ List!LNext
                      \/ <<ToString(heap, head), out>>' = <<ToString(heap, head), out>>
    OBVIOUS
  <2> DEFINE l == ToString(heap, head)
             m == ToString(heap', head')
  <2>1. CASE AddNode
    <3>1. /\ out' = <<>> /\ Head(file)[2] \in Values /\ m = Front(Head(file)[2], l)
      BY <2>1, AddNodeKeeps
    <3>2. List!Add(Head(file)[2])
      BY <3>1 DEF List!Add, Front
    <3> QED BY <3>1, <3>2 DEF List!LNext
  <2>2. CASE DeleteNode
    <3>1. Head(file)[2] \in Values
      BY <2>2, DeleteNodeKeeps
    <3> DEFINE v == Head(file)[2]
    <3>2. /\ l \in Seq(Values) /\ DOMAIN l = 1 .. Len(l) /\ Len(l) \in Nat
      <4>1. PICK s \in Seq(Nodes) : Runs(s)
        BY DEF IInv
      <4>2. l \in Seq(Values)
        BY <4>1, RunsList DEF IInv
      <4> QED BY <4>2, LenProperties
    <3>3. CASE \A i \in 1 .. Len(l) : l[i] # v
      <4>1. out' = <<"could not remove", v>> /\ m = l
        BY <2>2, <3>3, DeleteNodeKeeps DEF FirstAt
      <4> QED BY <3>1, <3>2, <3>3, <4>1 DEF List!LNext, List!Remove
    <3>4. CASE ~ \A i \in 1 .. Len(l) : l[i] # v
      <4>1. PICK i \in 1 .. Len(l) : FirstAt(l, v, i) /\ m = Cut(l, i)
        BY <2>2, <3>4, DeleteNodeKeeps
      <4>2. out' = <<>>
        BY <2>2, <3>4, DeleteNodeKeeps
      <4>3. List!First(v) = i
        BY <3>2, <4>1 DEF List!First, FirstAt
      <4>4. List!Without(i) = m
        BY <4>1 DEF List!Without, Cut
      <4>5. List!Remove(v)
        BY <3>2, <4>1, <4>2, <4>3, <4>4 DEF List!Remove, FirstAt
      <4> QED BY <3>1, <4>5 DEF List!LNext
    <3> QED BY <3>3, <3>4
  <2>3. CASE PrintNodes
    BY <2>3, PrintNodesKeeps DEF List!LNext, List!PrintList
  <2>4. CASE Collect
    BY <2>4, CollectKeeps DEF List!LNext, List!Other
  <2>5. CASE Finish
    BY <2>5, FinishKeeps DEF List!LNext, List!Drop
  <2>6. CASE Writer
    BY <2>6, WriterKeepsList
  <2>7. CASE UNCHANGED vars
    BY <2>7 DEF vars, listVars
  <2> QED BY <2>1, <2>2, <2>3, <2>4, <2>5, <2>6, <2>7 DEF Next, DoList
<1> QED BY <1>1, <1>2, ListsCorrect, PTL DEF Spec, ImplementsList, List!LSpec
=============================================================================
