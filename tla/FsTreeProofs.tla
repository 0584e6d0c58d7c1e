---------------------------- MODULE FsTreeProofs -----------------------------
(***************************************************************************)
(* The collector of A2 keeps exactly what the tree can reach, for any set  *)
(* of addresses, names and paths and any number of transactions.           *)
(***************************************************************************)
EXTENDS FsTree, WellFoundedInduction, SequenceTheorems, TLAPS

(* The chunk of one use and address is that of no other.                   *)
LEMMA ChunkFacts ==
  /\ \A a, b : /\ NodeChunk(a) # NameChunk(b) /\ NodeChunk(a) # LinkChunk(b)
               /\ NameChunk(a) # LinkChunk(b)
               /\ NodeChunk(a) = NodeChunk(b) => a = b
               /\ NameChunk(a) = NameChunk(b) => a = b
               /\ LinkChunk(a) = LinkChunk(b) => a = b
  /\ \A n \in Nodes : NodeChunk(n) \in Chunks /\ NameChunk(n) \in Chunks
  /\ \A l \in Links : LinkChunk(l) \in Chunks
<1>1. \A a, b : /\ NodeChunk(a) # NameChunk(b) /\ NodeChunk(a) # LinkChunk(b)
                /\ NameChunk(a) # LinkChunk(b)
  BY DEF NodeChunk, NameChunk, LinkChunk
<1>2. \A a, b : /\ NodeChunk(a) = NodeChunk(b) => a = b
                /\ NameChunk(a) = NameChunk(b) => a = b
                /\ LinkChunk(a) = LinkChunk(b) => a = b
  BY DEF NodeChunk, NameChunk, LinkChunk
<1> QED BY <1>1, <1>2 DEF NodeChunk, NameChunk, LinkChunk, Chunks

(* NULL is no node's address.                                              *)
LEMMA NullFact == Null \notin Nodes /\ 0 \in Nodes /\ 0 # Null
BY AddressAssumption, RootAssumption DEF Null

(* A list with an element put in front.                                    *)
LEMMA Prepend ==
  ASSUME NEW S, NEW e \in S, NEW s \in Seq(S)
  PROVE  /\ <<e>> \o s \in Seq(S)
         /\ DOMAIN (<<e>> \o s) = 1 .. Len(s) + 1
         /\ (<<e>> \o s)[1] = e
         /\ \A i \in 1 .. Len(s) : (<<e>> \o s)[i + 1] = s[i]
<1>1. <<e>> \in Seq(S) /\ Len(<<e>>) = 1 /\ <<e>>[1] = e
  OBVIOUS
<1>2. Len(s) \in Nat
  BY LenProperties
<1>3. /\ <<e>> \o s \in Seq(S)
      /\ Len(<<e>> \o s) = 1 + Len(s)
      /\ \A i \in 1 .. 1 + Len(s) : (<<e>> \o s)[i] = IF i <= 1 THEN <<e>>[i] ELSE s[i - 1]
  BY <1>1, ConcatProperties
<1>4. DOMAIN (<<e>> \o s) = 1 .. Len(s) + 1
  BY <1>2, <1>3, LenProperties
<1>5. (<<e>> \o s)[1] = e
  BY <1>1, <1>2, <1>3
<1>6. ASSUME NEW i \in 1 .. Len(s) PROVE (<<e>> \o s)[i + 1] = s[i]
  <2>1. i + 1 \in 1 .. 1 + Len(s) /\ ~(i + 1 <= 1) /\ (i + 1) - 1 = i
    BY <1>2
  <2> QED BY <1>3, <2>1
<1> QED BY <1>3, <1>4, <1>5, <1>6

(* A list taken apart.                                                     *)
LEMMA TakeHead ==
  ASSUME NEW S, NEW s \in Seq(S), s # <<>>
  PROVE  /\ Head(s) \in S /\ Head(s) = s[1] /\ 1 \in DOMAIN s
         /\ DOMAIN s = 1 .. Len(s) /\ Len(s) \in Nat
         /\ Tail(s) \in Seq(S) /\ Len(Tail(s)) = Len(s) - 1 /\ DOMAIN Tail(s) = 1 .. Len(s) - 1
         /\ \A k \in 1 .. Len(s) - 1 : Tail(s)[k] = s[k + 1]
<1>1. Len(s) \in Nat \ {0} /\ DOMAIN s = 1 .. Len(s)
  BY EmptySeq, LenProperties
<1>2. /\ Head(s) \in S /\ Tail(s) \in Seq(S) /\ Len(Tail(s)) = Len(s) - 1
      /\ \A k \in 1 .. Len(Tail(s)) : Tail(s)[k] = s[k + 1]
  BY HeadTailProperties
<1>3. DOMAIN Tail(s) = 1 .. Len(s) - 1
  BY <1>2, LenProperties
<1>4. Head(s) = s[1]
  OBVIOUS
<1> QED BY <1>1, <1>2, <1>3, <1>4

-----------------------------------------------------------------------------
(* What a removal does to a list.                                          *)

Apart(s) == \A i, j \in DOMAIN s : s[i] = s[j] => i = j
Thins(t, s) ==
  /\ t \in Seq(Links)
  /\ \A i \in DOMAIN t : \E j \in DOMAIN s : t[i] = s[j]
  /\ Apart(s) => Apart(t)

LEMMA WithoutThins ==
  ASSUME NEW s \in Seq(Links), NEW i \in DOMAIN s
  PROVE  Thins(Without(s, i), s)
<1> DEFINE n == Len(s)
<1> DEFINE at(j) == IF j < i THEN j ELSE j + 1
<1> DEFINE t == Without(s, i)
<1>1. n \in Nat /\ DOMAIN s = 1 .. n /\ \A j \in 1 .. n : s[j] \in Links
  BY LenProperties
<1>2. i \in 1 .. n
  BY <1>1
<1> HIDE DEF n
<1>3. n - 1 \in Nat /\ \A j \in 1 .. n - 1 : at(j) \in 1 .. n
  BY <1>1, <1>2
<1>4. t = [j \in 1 .. n - 1 |-> s[at(j)]]
  BY DEF Without, n
<1>5. DOMAIN t = 1 .. n - 1 /\ \A j \in 1 .. n - 1 : t[j] = s[at(j)]
  BY <1>4
<1>6. t \in Seq(Links)
  BY <1>1, <1>3, <1>4, <1>5
<1>7. \A j \in DOMAIN t : \E k \in DOMAIN s : t[j] = s[k]
  BY <1>1, <1>3, <1>5
<1>8. ASSUME Apart(s), NEW j \in DOMAIN t, NEW k \in DOMAIN t, t[j] = t[k] PROVE j = k
  <2>1. j \in 1 .. n - 1 /\ k \in 1 .. n - 1 /\ at(j) = at(k)
    BY <1>8, <1>1, <1>3, <1>5 DEF Apart
  <2> QED BY <2>1, <1>1, <1>2
<1> QED BY <1>6, <1>7, <1>8 DEF Thins, Apart

LEMMA ThinsTwice ==
  ASSUME NEW s, NEW t, NEW u, Thins(t, s), Thins(u, t)
  PROVE  Thins(u, s)
BY DEF Thins

LEMMA RemovedThins ==
  ASSUME TypeOK, NEW n \in Nodes, NEW nm
  PROVE  Thins(Removed(n, nm), links[n])
<1> DEFINE s     == links[n]
           first == 1 \in DOMAIN s /\ name[fptr[s[1]]] = nm
           more  == {i \in FirstFrom(n, 2, nm) : ~(first /\ i = 2)}
           rest  == IF more = {} THEN s ELSE Without(s, CHOOSE i \in more : TRUE)
<1>1. s \in Seq(Links)
  BY DEF TypeOK
<1>2. Thins(s, s)
  BY <1>1 DEF Thins
<1>3. \A i \in FirstFrom(n, 2, nm) : i \in DOMAIN s /\ 2 =< i
  BY DEF FirstFrom
<1>4. Removed(n, nm) = IF first THEN Without(rest, 1) ELSE rest
  BY DEF Removed
<1>5. Thins(rest, s)
  <2>1. CASE more = {}
    BY <2>1, <1>2
  <2>2. CASE more # {}
    <3>1. (CHOOSE i \in more : TRUE) \in DOMAIN s
      BY <2>2, <1>3
    <3> QED BY <3>1, <2>2, <1>1, WithoutThins
  <2> QED BY <2>1, <2>2
<1>6. ASSUME first PROVE 1 \in DOMAIN rest
  <2>1. Len(s) \in Nat /\ DOMAIN s = 1 .. Len(s)
    BY <1>1, LenProperties
  <2>2. CASE more = {}
    BY <1>6, <2>2
  <2>3. CASE more # {}
    <3>1. (CHOOSE i \in more : TRUE) \in more
      BY <2>3
    <3>2. PICK i \in more : rest = Without(s, i)
      BY <2>3, <3>1
    <3>3. i \in 1 .. Len(s) /\ 2 =< i
      BY <1>3, <2>1
    <3>4. 1 \in 1 .. Len(s) - 1
      BY <3>3, <2>1
    <3> QED BY <3>2, <3>4 DEF Without
  <2> QED BY <2>2, <2>3
<1> HIDE DEF rest, first
<1>7. CASE first
  <2>1. Thins(Without(rest, 1), rest)
    BY <1>5, <1>6, <1>7, WithoutThins DEF Thins
  <2> QED BY <2>1, <1>4, <1>5, <1>7, ThinsTwice
<1>8. CASE ~first
  BY <1>8, <1>4, <1>5
<1> QED BY <1>7, <1>8
-----------------------------------------------------------------------------
(* What a path leads to.                                                   *)

LEMMA FindChildResult ==
  ASSUME TypeOK, NEW n \in Nodes \cup {Null}, NEW nm, FindChild(n, nm) # Null
  PROVE  n \in Nodes /\ \E l \in Cells(n) : l \in Links /\ FindChild(n, nm) = fptr[l]
<1>1. n \in Nodes /\ FirstFrom(n, 1, nm) # {}
  BY DEF FindChild
<1>2. FindChild(n, nm) = fptr[links[n][CHOOSE i \in FirstFrom(n, 1, nm) : TRUE]]
  BY <1>1, NullFact DEF FindChild
<1>3. PICK i \in FirstFrom(n, 1, nm) : FindChild(n, nm) = fptr[links[n][i]]
  BY <1>1, <1>2
<1>4. i \in DOMAIN links[n] /\ links[n] \in Seq(Links)
  BY <1>1 DEF FirstFrom, TypeOK
<1>5. links[n][i] \in Links
  BY <1>4, LenProperties
<1> QED BY <1>1, <1>3, <1>4, <1>5 DEF Cells

LEMMA FindChildAllocated ==
  ASSUME TypeOK, Heap, NEW n \in Nodes \cup {Null}, NEW nm,
         n # Null => NodeChunk(n) \in memory, FindChild(n, nm) # Null
  PROVE  FindChild(n, nm) \in Nodes /\ NodeChunk(FindChild(n, nm)) \in memory
<1>1. PICK l \in Cells(n) : n \in Nodes /\ l \in Links /\ FindChild(n, nm) = fptr[l]
  BY FindChildResult
<1>2. NodeChunk(fptr[l]) \in memory
  BY <1>1, NullFact DEF Heap
<1> QED BY <1>1, <1>2 DEF TypeOK

(* A set of numbers has a least one.                                       *)
LEMMA LeastNumber ==
  ASSUME NEW S \in SUBSET Nat, S # {}
  PROVE  \E m \in S : \A k \in S : m <= k
<1>1. PICK m \in S : \A k \in S : ~(<<k, m>> \in OpToRel(<, Nat))
  BY NatLessThanWellFounded, WFMin, Zenon
<1>2. \A k \in S : ~(k < m)
  BY <1>1 DEF OpToRel
<1> QED BY <1>2

(* By induction along the walk, in the form of its first node that is not  *)
(* in memory.                                                              *)
LEMMA FoundAllocated ==
  ASSUME TypeOK, Heap, NEW path \in Paths, NEW fp \in FindNode(path)
  PROVE  fp \in Nodes \cup {Null} /\ (fp # Null => fp \in Nodes /\ NodeChunk(fp) \in memory)
<1>1. Len(path) \in Nat
  BY PathsAssumption, LenProperties
<1>2. PICK walk \in Walks(path) : fp = walk[Len(path)]
  BY DEF FindNode
<1>3. /\ walk \in [0 .. Len(path) -> Nodes \cup {Null}]
      /\ walk[0] = root
      /\ \A i \in 1 .. Len(path) : walk[i] = FindChild(walk[i - 1], path[i])
  BY DEF Walks
<1> DEFINE Good(i) == walk[i] # Null => NodeChunk(walk[i]) \in memory
<1> DEFINE Bad == {i \in 0 .. Len(path) : ~Good(i)}
<1>4. Bad = {}
  <2>1. SUFFICES ASSUME Bad # {} PROVE FALSE
    OBVIOUS
  <2>2. PICK i \in Bad : \A j \in Bad : i <= j
    <3>1. Bad \in SUBSET Nat
      BY <1>1
    <3> QED BY <2>1, <3>1, LeastNumber
  <2>3. i # 0
    BY <2>2, <1>3 DEF Heap
  <2>4. i - 1 \in 0 .. Len(path) /\ i - 1 \notin Bad /\ i \in 1 .. Len(path)
    BY <2>2, <2>3, <1>1
  <2>5. Good(i - 1) /\ walk[i - 1] \in Nodes \cup {Null}
    BY <2>4, <1>3
  <2>6. walk[i] = FindChild(walk[i - 1], path[i]) /\ walk[i] # Null
    BY <2>2, <2>4, <1>3
  <2>7. NodeChunk(walk[i]) \in memory
    BY <2>5, <2>6, FindChildAllocated
  <2> QED BY <2>7, <2>2
<1>5. Len(path) \in 0 .. Len(path)
  BY <1>1
<1>6. Good(Len(path)) /\ walk[Len(path)] \in Nodes \cup {Null}
  BY <1>3, <1>4, <1>5
<1> QED BY <1>2, <1>6

-----------------------------------------------------------------------------
(* What can be reached.                                                    *)

LEMMA CellsFact ==
  ASSUME TypeOK, NEW n \in Nodes
  PROVE  /\ links[n] \in Seq(Links)
         /\ \A i \in DOMAIN links[n] : links[n][i] \in Cells(n) /\ links[n][i] \in Links
         /\ \A l \in Cells(n) : l \in Links /\ fptr[l] \in Nodes
<1>1. links[n] \in Seq(Links)
  BY DEF TypeOK
<1>2. \A i \in DOMAIN links[n] : links[n][i] \in Links
  BY <1>1, LenProperties
<1> QED BY <1>1, <1>2 DEF Cells, TypeOK

LEMMA ReachedFacts ==
  ASSUME TypeOK
  PROVE  /\ root # Null => root \in Reached
         /\ root = Null => Reached = {}
         /\ \A n \in Reached : n \in Nodes /\ \A l \in Cells(n) : fptr[l] \in Reached
<1>1. root # Null => root \in Reached
  BY NullFact DEF TypeOK, Reached
<1>2. ASSUME root = Null PROVE Reached = {}
  <2>1. Closed({}) /\ {root} \cap Nodes = {}
    BY <1>2, NullFact DEF Closed
  <2> QED BY <2>1 DEF Reached
<1>3. ASSUME NEW n \in Reached, NEW l \in Cells(n) PROVE fptr[l] \in Reached
  <2>1. n \in Nodes /\ fptr[l] \in Nodes /\ fptr[l] \in Children(n)
    BY CellsFact DEF Reached, Children
  <2>2. ASSUME NEW S \in SUBSET Nodes, {root} \cap Nodes \subseteq S, Closed(S)
        PROVE  fptr[l] \in S
    BY <2>1, <2>2 DEF Reached, Closed
  <2> QED BY <2>1, <2>2 DEF Reached
<1> QED BY <1>1, <1>2, <1>3 DEF Reached

(* Chunks that have the root and lead to nothing else hold all in reach.   *)
LEMMA ReachableWithin ==
  ASSUME TypeOK, NEW M,
         root # Null => NodeChunk(root) \in M,
         \A n \in Nodes : NodeChunk(n) \in M =>
           /\ NameChunk(n) \in M
           /\ \A l \in Cells(n) : LinkChunk(l) \in M /\ NodeChunk(fptr[l]) \in M
  PROVE  Reachable \subseteq M /\ \A n \in Reached : NodeChunk(n) \in M
<1> DEFINE S == {n \in Nodes : NodeChunk(n) \in M}
<1>1. Closed(S)
  BY CellsFact DEF Closed, Children
<1>2. {root} \cap Nodes \subseteq S
  BY NullFact
<1>3. Reached \subseteq S
  BY <1>1, <1>2 DEF Reached
<1> QED BY <1>3 DEF Reachable

LEMMA ReachableMembers ==
  /\ \A n \in Reached : /\ NodeChunk(n) \in Reachable /\ NameChunk(n) \in Reachable
                        /\ \A l \in Cells(n) : LinkChunk(l) \in Reachable
  /\ \A n : NodeChunk(n) \in Reachable => n \in Reached
<1> DEFINE Of(n) == {NodeChunk(n), NameChunk(n)} \cup {LinkChunk(l) : l \in Cells(n)}
<1>1. \A c : c \in Reachable <=> \E n \in Reached : c \in Of(n)
  BY DEF Reachable
<1>2. \A n, m : NodeChunk(n) \in Of(m) => n = m
  BY ChunkFacts
<1> QED BY <1>1, <1>2

LEMMA SameReach ==
  ASSUME UNCHANGED <<root, tree>>
  PROVE  Reachable' = Reachable /\ \A n : Cells(n)' = Cells(n)
<1>1. \A n : Cells(n)' = Cells(n)
  BY DEF Cells, tree
<1>2. \A n : Children(n)' = Children(n)
  BY <1>1 DEF Children, tree
<1>3. Reached' = Reached
  BY <1>2 DEF Reached, Closed
<1> QED BY <1>1, <1>3 DEF Reachable
-----------------------------------------------------------------------------
(* The transactions.                                                       *)

LEMMA FreshFacts ==
  /\ \A n \in FreshNodes : n \in Nodes /\ NodeChunk(n) \notin memory /\ NameChunk(n) \notin memory
  /\ \A l \in FreshLinks : l \in Links /\ LinkChunk(l) \notin memory
BY DEF FreshNodes, FreshLinks, Least

(* A link of an allocated node is not a fresh one.                         *)
LEMMA CellsAllocated ==
  ASSUME TypeOK, Heap, NEW n \in Nodes, NodeChunk(n) \in memory, NEW i \in DOMAIN links[n]
  PROVE  /\ links[n][i] \in Links
         /\ LinkChunk(links[n][i]) \in memory /\ NodeChunk(fptr[links[n][i]]) \in memory
BY CellsFact DEF Heap

LEMMA InitInv == Init => FsInv
<1> SUFFICES ASSUME Init PROVE FsInv
  OBVIOUS
<1>1. \A n \in Nodes : links[n] = <<>> /\ DOMAIN links[n] = {} /\ Cells(n) = {}
  BY DEF Init, Cells
<1>2. memory = {NodeChunk(0), NameChunk(0)} /\ root = 0 /\ root # Null /\ stack = <<>>
  BY NullFact DEF Init
<1>3. TypeOK
  <2>1. memory \subseteq Chunks
    BY <1>2, NullFact, ChunkFacts
  <2> QED BY <1>2, <2>1, MaxOpsAssumption, NullFact DEF Init, TypeOK
<1>4. Heap
  <2>1. \A n \in Nodes : NodeChunk(n) \in memory => n = 0
    BY <1>2, ChunkFacts
  <2> QED BY <1>1, <1>2, <2>1 DEF Heap
<1>5. ListsApart /\ Marking
  BY <1>1 DEF Init, ListsApart, Marking
<1> QED BY <1>3, <1>4, <1>5 DEF FsInv

(* A transaction that leaves the program between transactions, or ends it, *)
(* without the collector, has no marks to account for.                     *)
LEMMA NoMarking ==
  ASSUME pc' \notin {"mark", "sweep"}
  PROVE  Marking'
BY DEF Marking

(* Put a link to an allocated node in front of a list: the heap and the    *)
(* lists stay in order, for a new node and for a hard link.                *)
LEMMA LinkedInv ==
  ASSUME FsInv, NEW dest \in Nodes, NEW l \in Links, NEW target \in Nodes,
         LinkChunk(l) \notin memory, NodeChunk(dest) \in memory,
         fptr' = [fptr EXCEPT ![l] = target],
         links'[dest] = <<l>> \o links[dest],
         memory \subseteq memory', LinkChunk(l) \in memory',
         NodeChunk(target) \in memory', NameChunk(target) \in memory', root' = root,
         \A n \in Nodes \ {dest} : NodeChunk(n) \in memory => links'[n] = links[n],
         \A n \in Nodes : NodeChunk(n) \in memory' /\ NodeChunk(n) \notin memory =>
                            n = target /\ links'[n] = <<>>
  PROVE  Heap' /\ ListsApart'
<1> USE DEF FsInv
<1>1. \A n \in Nodes : NodeChunk(n) \in memory => \A i \in DOMAIN links[n] :
        /\ links[n][i] \in Links /\ links[n][i] # l
        /\ LinkChunk(links[n][i]) \in memory /\ NodeChunk(fptr[links[n][i]]) \in memory
  BY CellsAllocated
<1>2. \A m \in Links \ {l} : fptr'[m] = fptr[m]
  BY DEF TypeOK
<1>3. fptr'[l] = target
  BY DEF TypeOK
<1>4. links[dest] \in Seq(Links) /\ DOMAIN links[dest] = 1 .. Len(links[dest]) /\ Len(links[dest]) \in Nat
  BY LenProperties DEF TypeOK
<1>5. /\ DOMAIN links'[dest] = 1 .. Len(links[dest]) + 1
      /\ links'[dest][1] = l
      /\ \A i \in 1 .. Len(links[dest]) : links'[dest][i + 1] = links[dest][i]
  BY <1>4, Prepend
<1>6. \A i \in DOMAIN links'[dest] : \/ i = 1
                                     \/ i - 1 \in DOMAIN links[dest] /\ links'[dest][i] = links[dest][i - 1]
  <2> TAKE i \in DOMAIN links'[dest]
  <2>1. i \in 1 .. Len(links[dest]) + 1
    BY <1>5
  <2>2. i = 1 \/ (i - 1 \in 1 .. Len(links[dest]) /\ (i - 1) + 1 = i)
    BY <2>1, <1>4
  <2> QED BY <2>2, <1>4, <1>5
<1>7. ASSUME NEW n \in Nodes, NodeChunk(n) \in memory', NEW i \in DOMAIN links'[n]
      PROVE  /\ links'[n][i] = l <=> n = dest /\ i = 1
             /\ LinkChunk(links'[n][i]) \in memory'
             /\ NodeChunk(fptr'[links'[n][i]]) \in memory'
  <2>1. CASE n = dest /\ i = 1
    BY <2>1, <1>3, <1>5
  <2>2. CASE n = dest /\ i # 1
    <3>1. i - 1 \in DOMAIN links[dest] /\ links'[dest][i] = links[dest][i - 1]
      BY <2>2, <1>6
    <3> DEFINE c == links[dest][i - 1]
    <3>2. c \in Links /\ c # l /\ LinkChunk(c) \in memory /\ NodeChunk(fptr[c]) \in memory
      BY <3>1, <1>1
    <3> QED BY <3>1, <3>2, <2>2, <1>2
  <2>3. CASE n # dest
    <3>1. NodeChunk(n) \in memory /\ links'[n] = links[n]
      BY <1>7, <2>3
    <3> QED BY <3>1, <2>3, <1>1, <1>2
  <2> QED BY <2>1, <2>2, <2>3
<1>8. Heap'
  <2>1. ASSUME NEW n \in Nodes, NodeChunk(n) \in memory', NEW c \in Cells(n)'
        PROVE  LinkChunk(c) \in memory' /\ NodeChunk(fptr'[c]) \in memory'
    BY <2>1, <1>7 DEF Cells
  <2>2. \A n \in Nodes : NodeChunk(n) \in memory' => NameChunk(n) \in memory'
    BY DEF Heap
  <2> QED BY <2>1, <2>2 DEF Heap
<1>9. ListsApart'
  <2> SUFFICES ASSUME NEW n \in Nodes, NEW m \in Nodes,
                      NodeChunk(n) \in memory', NodeChunk(m) \in memory',
                      NEW i \in DOMAIN links'[n], NEW j \in DOMAIN links'[m],
                      links'[n][i] = links'[m][j]
               PROVE  n = m /\ i = j
    BY DEF ListsApart
  <2>1. CASE links'[n][i] = l
    BY <2>1, <1>7
  <2>2. CASE links'[n][i] # l
    <3> DEFINE old(x, y) == IF x = dest THEN y - 1 ELSE y
    <3>1. \A x \in Nodes : NodeChunk(x) \in memory' => \A y \in DOMAIN links'[x] :
            links'[x][y] # l => /\ NodeChunk(x) \in memory /\ old(x, y) \in DOMAIN links[x]
                                /\ links'[x][y] = links[x][old(x, y)]
      BY <1>5, <1>6
    <3>2. n = m /\ old(n, i) = old(m, j)
      BY <2>2, <3>1 DEF ListsApart
    <3>3. n = dest => i \in Int /\ j \in Int
      BY <3>2, <1>4, <1>5
    <3> QED BY <3>2, <3>3
  <2> QED BY <2>1, <2>2
<1> QED BY <1>8, <1>9

LEMMA AddNodeInv ==
  ASSUME FsInv, NEW path \in Paths, NEW nm \in Names, AddNode(path, nm)
  PROVE  FsInv'
<1> USE DEF FsInv
<1>1. pc = "idle" /\ pc' = "idle" /\ root' = root /\ stack' = stack /\ ops' = ops + 1 /\ ops < MaxOps
  BY DEF AddNode, Transaction
<1>2. ops' \in 0 .. MaxOps
  BY <1>1, MaxOpsAssumption DEF TypeOK
<1>3. Marking'
  BY <1>1, NoMarking
<1>4. PICK fp \in FindNode(path) :
        \/ fp = Null /\ UNCHANGED <<tree, memory, inUse>>
        \/ /\ fp # Null
           /\ \E n \in FreshNodes, l \in FreshLinks :
                /\ name' = [name EXCEPT ![n] = nm]
                /\ links' = [links EXCEPT ![n] = <<>>, ![fp] = <<l>> \o @]
                /\ fptr' = [fptr EXCEPT ![l] = n]
                /\ GcMalloc({NodeChunk(n), NameChunk(n), LinkChunk(l)})
  BY DEF AddNode
<1>5. CASE fp = Null /\ UNCHANGED <<tree, memory, inUse>>
  <2>1. TypeOK'
    BY <1>1, <1>2, <1>5 DEF TypeOK, tree
  <2>2. Heap' /\ ListsApart'
    BY <1>1, <1>5 DEF Heap, ListsApart, Cells, tree
  <2> QED BY <2>1, <2>2, <1>3
<1>6. CASE fp # Null
  <2>1. PICK n \in FreshNodes, l \in FreshLinks :
          /\ name' = [name EXCEPT ![n] = nm]
          /\ links' = [links EXCEPT ![n] = <<>>, ![fp] = <<l>> \o @]
          /\ fptr' = [fptr EXCEPT ![l] = n]
          /\ GcMalloc({NodeChunk(n), NameChunk(n), LinkChunk(l)})
    BY <1>4, <1>6
  <2>2. /\ n \in Nodes /\ NodeChunk(n) \notin memory
        /\ l \in Links /\ LinkChunk(l) \notin memory
    BY FreshFacts
  <2>3. fp \in Nodes /\ NodeChunk(fp) \in memory /\ fp # n
    BY <1>6, <2>2, FoundAllocated
  <2>4. links[fp] \in Seq(Links) /\ <<l>> \o links[fp] \in Seq(Links)
    BY <2>2, <2>3, Prepend DEF TypeOK
  <2>5. /\ links' \in [Nodes -> Seq(Links)]
        /\ links'[n] = <<>> /\ links'[fp] = <<l>> \o links[fp]
        /\ \A m \in Nodes \ {n, fp} : links'[m] = links[m]
    <3> DEFINE e == [links EXCEPT ![n] = <<>>]
    <3>1. e \in [Nodes -> Seq(Links)] /\ e[fp] = links[fp]
      BY <2>2, <2>3 DEF TypeOK
    <3>2. links' = [e EXCEPT ![fp] = <<l>> \o links[fp]]
      BY <2>1, <3>1
    <3> QED BY <3>1, <3>2, <2>2, <2>3, <2>4 DEF TypeOK
  <2>6. /\ memory' = memory \cup {NodeChunk(n), NameChunk(n), LinkChunk(l)}
        /\ inUse' = inUse \cup {NodeChunk(n), NameChunk(n), LinkChunk(l)}
    BY <2>1 DEF GcMalloc
  <2>7. TypeOK'
    <3>1. memory' \subseteq Chunks /\ inUse' \subseteq memory'
      BY <2>2, <2>6, ChunkFacts DEF TypeOK
    <3>2. name' \in [Nodes -> Names \cup {RootName}] /\ fptr' \in [Links -> Nodes]
      BY <2>1, <2>2 DEF TypeOK
    <3> QED BY <3>1, <3>2, <2>5, <1>1, <1>2 DEF TypeOK
  <2>8. Heap' /\ ListsApart'
    <3>1. \A m \in Nodes \ {fp} : NodeChunk(m) \in memory => links'[m] = links[m]
      BY <2>2, <2>5
    <3>2. \A m \in Nodes : NodeChunk(m) \in memory' /\ NodeChunk(m) \notin memory => m = n /\ links'[m] = <<>>
      BY <2>5, <2>6, ChunkFacts
    <3> QED BY <3>1, <3>2, <2>1, <2>2, <2>3, <2>5, <2>6, <1>1, LinkedInv
  <2> QED BY <2>7, <2>8, <1>3
<1> QED BY <1>4, <1>5, <1>6
LEMMA AddHardLinkInv ==
  ASSUME FsInv, NEW destPath \in Paths, NEW srcPath \in Paths, NEW nm \in Names,
         AddHardLink(destPath, srcPath, nm)
  PROVE  FsInv'
<1> USE DEF FsInv
<1>1. /\ pc = "idle" /\ pc' = "idle" /\ root' = root /\ name' = name /\ stack' = stack
      /\ ops' = ops + 1 /\ ops < MaxOps
  BY DEF AddHardLink, Transaction
<1>2. ops' \in 0 .. MaxOps
  BY <1>1, MaxOpsAssumption DEF TypeOK
<1>3. Marking'
  BY <1>1, NoMarking
<1>4. PICK srcp \in FindNode(srcPath), dest \in FindNode(destPath) :
        \/ UNCHANGED <<links, fptr, memory, inUse>>
        \/ /\ FindChild(srcp, nm) # Null /\ dest # Null
           /\ \E l \in FreshLinks :
                /\ links' = [links EXCEPT ![dest] = <<l>> \o @]
                /\ fptr' = [fptr EXCEPT ![l] = FindChild(srcp, nm)]
                /\ GcMalloc({LinkChunk(l)})
  BY DEF AddHardLink
<1>5. CASE UNCHANGED <<links, fptr, memory, inUse>>
  <2>1. TypeOK'
    BY <1>1, <1>2, <1>5 DEF TypeOK
  <2>2. Heap' /\ ListsApart'
    BY <1>1, <1>5 DEF Heap, ListsApart, Cells
  <2> QED BY <2>1, <2>2, <1>3
<1>6. CASE ~UNCHANGED <<links, fptr, memory, inUse>>
  <2> DEFINE fp == FindChild(srcp, nm)
  <2>1. PICK l \in FreshLinks :
          /\ fp # Null /\ dest # Null
          /\ links' = [links EXCEPT ![dest] = <<l>> \o @]
          /\ fptr' = [fptr EXCEPT ![l] = fp]
          /\ GcMalloc({LinkChunk(l)})
    BY <1>4, <1>6
  <2>2. l \in Links /\ LinkChunk(l) \notin memory
    BY FreshFacts
  <2>3. dest \in Nodes /\ NodeChunk(dest) \in memory
    BY <2>1, FoundAllocated
  <2>4. fp \in Nodes /\ NodeChunk(fp) \in memory
    <3>1. srcp \in Nodes \cup {Null} /\ (srcp # Null => NodeChunk(srcp) \in memory)
      BY FoundAllocated
    <3> QED BY <3>1, <2>1, FindChildAllocated
  <2> HIDE DEF fp
  <2>5. <<l>> \o links[dest] \in Seq(Links)
    BY <2>2, <2>3, Prepend DEF TypeOK
  <2>6. /\ links' \in [Nodes -> Seq(Links)]
        /\ links'[dest] = <<l>> \o links[dest]
        /\ \A m \in Nodes \ {dest} : links'[m] = links[m]
    BY <2>1, <2>3, <2>5 DEF TypeOK
  <2>7. memory' = memory \cup {LinkChunk(l)} /\ inUse' = inUse \cup {LinkChunk(l)}
    BY <2>1 DEF GcMalloc
  <2>8. TypeOK'
    <3>1. memory' \subseteq Chunks /\ inUse' \subseteq memory'
      BY <2>2, <2>7, ChunkFacts DEF TypeOK
    <3>2. fptr' \in [Links -> Nodes]
      BY <2>1, <2>2, <2>4 DEF TypeOK
    <3> QED BY <3>1, <3>2, <2>6, <1>1, <1>2 DEF TypeOK
  <2>9. Heap' /\ ListsApart'
    <3>1. \A m \in Nodes : NodeChunk(m) \in memory' => NodeChunk(m) \in memory
      BY <2>7, ChunkFacts
    <3>2. NameChunk(fp) \in memory
      BY <2>4 DEF Heap
    <3> QED BY <3>1, <3>2, <2>1, <2>2, <2>3, <2>4, <2>6, <2>7, <1>1, LinkedInv
  <2> QED BY <2>8, <2>9, <1>3
<1> QED BY <1>5, <1>6

(* A shorter list leads to no more than before.                            *)
LEMMA RemoveNodeInv ==
  ASSUME FsInv, NEW path \in Paths, NEW nm \in Names, RemoveNode(path, nm)
  PROVE  FsInv'
<1> USE DEF FsInv
<1>1. /\ pc = "idle" /\ ops' = ops + 1 /\ ops < MaxOps
      /\ UNCHANGED <<root, name, fptr, memory, inUse, stack>>
  BY DEF RemoveNode, Transaction
<1>2. ops' \in 0 .. MaxOps
  BY <1>1, MaxOpsAssumption DEF TypeOK
<1>3. PICK fp \in FindNode(path) :
        \/ fp = Null /\ pc' = "crashed" /\ UNCHANGED links
        \/ fp # Null /\ links' = [links EXCEPT ![fp] = Removed(fp, nm)] /\ UNCHANGED pc
  BY DEF RemoveNode
<1>4. pc' \in {"idle", "crashed"} /\ Marking'
  BY <1>1, <1>3, NoMarking
<1>5. CASE UNCHANGED links
  <2>1. TypeOK'
    BY <1>1, <1>2, <1>4, <1>5 DEF TypeOK
  <2>2. Heap' /\ ListsApart'
    BY <1>1, <1>5 DEF Heap, ListsApart, Cells
  <2> QED BY <2>1, <2>2, <1>4
<1>6. CASE fp # Null /\ links' = [links EXCEPT ![fp] = Removed(fp, nm)]
  <2>1. fp \in Nodes
    BY <1>6, FoundAllocated
  <2>2. Thins(Removed(fp, nm), links[fp])
    BY <2>1, RemovedThins
  <2>3. /\ links' \in [Nodes -> Seq(Links)]
        /\ links'[fp] = Removed(fp, nm)
        /\ \A m \in Nodes \ {fp} : links'[m] = links[m]
    BY <1>6, <2>1, <2>2 DEF TypeOK, Thins
  <2>4. \A n \in Nodes : \A i \in DOMAIN links'[n] : \E j \in DOMAIN links[n] : links'[n][i] = links[n][j]
    BY <2>2, <2>3 DEF Thins
  <2>5. Heap'
    <3>1. \A n \in Nodes : Cells(n)' \subseteq Cells(n)
      BY <2>4 DEF Cells
    <3> QED BY <3>1, <1>1 DEF Heap
  <2>6. ListsApart'
    <3> SUFFICES ASSUME NEW n \in Nodes, NEW m \in Nodes,
                        NodeChunk(n) \in memory, NodeChunk(m) \in memory,
                        NEW i \in DOMAIN links'[n], NEW j \in DOMAIN links'[m],
                        links'[n][i] = links'[m][j]
                 PROVE  n = m /\ i = j
      BY <1>1 DEF ListsApart
    <3>1. n = m
      BY <2>4 DEF ListsApart
    <3>2. Apart(links[n])
      BY DEF ListsApart, Apart
    <3>3. Apart(links'[n])
      BY <3>2, <2>2, <2>3 DEF Thins
    <3> QED BY <3>1, <3>3 DEF Apart
  <2> QED BY <1>1, <1>2, <1>4, <2>3, <2>5, <2>6 DEF TypeOK
<1> QED BY <1>3, <1>5, <1>6

LEMMA PrintTreeInv ==
  ASSUME FsInv, PrintTree
  PROVE  FsInv'
<1> USE DEF FsInv
<1>1. /\ pc' \in {"idle", "overflow"} /\ ops' = ops + 1 /\ ops < MaxOps
      /\ UNCHANGED <<root, tree, memory, inUse, stack>>
  BY DEF PrintTree, Transaction
<1>2. TypeOK'
  BY <1>1, MaxOpsAssumption DEF TypeOK, tree
<1>3. Heap' /\ ListsApart' /\ Marking'
  BY <1>1, NoMarking DEF Heap, ListsApart, Cells, tree
<1> QED BY <1>2, <1>3

-----------------------------------------------------------------------------
(* The collector.                                                          *)

(* It leaves the tree and, until it sweeps, the memory list alone.         *)
LEMMA SameTree ==
  ASSUME Heap, ListsApart, UNCHANGED <<tree, memory>>, root' \in {root, Null}
  PROVE  Heap' /\ ListsApart'
BY DEF Heap, ListsApart, Cells, tree

LEMMA MarkAndSweepInv ==
  ASSUME FsInv, MarkAndSweep
  PROVE  FsInv'
<1> USE DEF FsInv
<1>1. /\ ops' = ops + 1 /\ ops < MaxOps /\ UNCHANGED <<root, tree, memory>>
      /\ Collect(root) \/ NoLog("idle")
  BY DEF MarkAndSweep, Transaction
<1>2. ops' \in 0 .. MaxOps
  BY <1>1, MaxOpsAssumption DEF TypeOK
<1>3. Heap' /\ ListsApart'
  BY <1>1, SameTree
<1>4. CASE NoLog("idle")
  BY <1>1, <1>2, <1>3, <1>4, NoMarking DEF NoLog, TypeOK, tree
<1>5. CASE Collect(root) /\ root = Null
  <2>1. pc' = "sweep" /\ inUse' = {} /\ stack' = <<>>
    BY <1>5 DEF Collect
  <2>2. TypeOK'
    BY <1>1, <1>2, <2>1 DEF TypeOK, tree
  <2>3. Marking'
    BY <1>1, <1>5, <2>1 DEF Marking
  <2> QED BY <2>2, <2>3, <1>3
<1>6. CASE Collect(root) /\ root # Null
  <2>1. /\ pc' = "mark" /\ inUse' = {NodeChunk(root), NameChunk(root)}
        /\ stack' = <<[node |-> root, at |-> 1]>> /\ root \in Nodes
    BY <1>6, NullFact DEF Collect, Heap, TypeOK
  <2>2. TypeOK'
    <3>1. stack' \in Seq([node : Nodes, at : Nat \ {0}])
      BY <2>1
    <3>2. inUse' \subseteq memory'
      BY <1>1, <1>6, <2>1 DEF Heap
    <3> QED BY <3>1, <3>2, <1>1, <1>2, <2>1 DEF TypeOK, tree
  <2>3. inUse' \subseteq Reachable'
    BY <1>1, <1>6, <2>1, ReachedFacts, ReachableMembers, SameReach
  <2>4. \A n \in Nodes : NodeChunk(n) \in inUse' => n = root
    BY <2>1, ChunkFacts
  <2>5. \A l \in Links : LinkChunk(l) \notin inUse'
    BY <2>1, ChunkFacts
  <2>6. DOMAIN stack' = {1} /\ stack'[1].node = root /\ stack'[1].at = 1 /\ stack' # <<>>
    BY <2>1
  <2>7. \A i \in DOMAIN links'[root] : Pending(root, i)'
    <3>1. \A i \in DOMAIN links[root] : 1 =< i
      BY <2>1, CellsFact, LenProperties
    <3> QED BY <3>1, <2>6, <1>1 DEF Pending, tree
  <2>8. Marking'
    BY <1>1, <2>1, <2>3, <2>4, <2>5, <2>6, <2>7 DEF Marking
  <2> QED BY <2>2, <2>8, <1>3
<1> QED BY <1>1, <1>4, <1>5, <1>6

LEMMA FinishInv ==
  ASSUME FsInv, Finish
  PROVE  FsInv'
<1> USE DEF FsInv
<1>1. UNCHANGED <<tree, memory, ops>> /\ root' \in {root, Null}
  BY DEF Finish
<1>2. Heap' /\ ListsApart'
  BY <1>1, SameTree
<1>3. CASE pc' \in {"overflow", "done"} /\ UNCHANGED <<inUse, stack>>
  BY <1>1, <1>2, <1>3, NoMarking, NullFact DEF TypeOK, tree
<1>4. CASE root' = Null /\ Collect(Null)
  <2>1. pc' = "sweep" /\ inUse' = {} /\ stack' = <<>>
    BY <1>4 DEF Collect
  <2>2. TypeOK'
    BY <1>1, <1>4, <2>1 DEF TypeOK, tree
  <2>3. Marking'
    BY <1>4, <2>1 DEF Marking
  <2> QED BY <2>2, <2>3, <1>2
<1> QED BY <1>3, <1>4 DEF Finish, NoLog
LEMMA MarkLinkInv ==
  ASSUME FsInv, MarkLink
  PROVE  FsInv'
<1> USE DEF FsInv
<1> DEFINE n  == Frame.node
           at == Frame.at
           l  == links[n][at]
           m  == fptr[l]
           walk == {LinkChunk(l), NodeChunk(m)} \subseteq Unmarked
<1>1. /\ pc = "mark" /\ at \in DOMAIN links[n]
      /\ UNCHANGED <<pc, root, tree, memory, ops>>
      /\ stack' = IF walk THEN <<[node |-> m, at |-> 1]>> \o Later ELSE Later
      /\ inUse' = inUse \cup
           (memory \cap IF walk THEN {LinkChunk(l), NodeChunk(m), NameChunk(m)} ELSE {LinkChunk(l)})
  BY DEF MarkLink
<1> DEFINE Frames == [node : Nodes, at : Nat \ {0}]
<1>2. stack \in Seq(Frames) /\ stack # <<>> /\ Marking
  BY <1>1 DEF TypeOK, Marking
<1>3. /\ Frame \in Frames /\ Frame = stack[1] /\ 1 \in DOMAIN stack
      /\ Tail(stack) \in Seq(Frames)
      /\ DOMAIN stack = 1 .. Len(stack) /\ Len(stack) \in Nat
      /\ Len(Tail(stack)) = Len(stack) - 1
      /\ \A k \in 1 .. Len(Tail(stack)) : Tail(stack)[k] = stack[k + 1]
  BY <1>2, TakeHead DEF Frame
<1>4. n \in Nodes /\ NodeChunk(n) \in inUse /\ NodeChunk(n) \in memory /\ at \in Nat \ {0}
  BY <1>1, <1>3 DEF Marking, TypeOK
<1>5. /\ l \in Cells(n) /\ l \in Links /\ m \in Nodes
      /\ LinkChunk(l) \in memory /\ NodeChunk(m) \in memory /\ NameChunk(m) \in memory
  BY <1>1, <1>4, CellsFact DEF Heap
<1>6. n \in Reached /\ m \in Reached
  BY <1>1, <1>4, <1>5, ReachedFacts, ReachableMembers DEF Marking
<1> DEFINE up == [Frame EXCEPT !.at = @ + 1]
<1>7. up \in Frames /\ up.node = n /\ up.at = at + 1
  BY <1>3
<1>8. /\ Later \in Seq(Frames) /\ DOMAIN Later = DOMAIN stack
      /\ Later[1] = up
      /\ \A k \in DOMAIN stack : k # 1 => Later[k] = stack[k]
  <2>1. Later = <<up>> \o Tail(stack)
    BY DEF Later
  <2>2. /\ Later \in Seq(Frames) /\ DOMAIN Later = 1 .. Len(Tail(stack)) + 1 /\ Later[1] = up
        /\ \A k \in 1 .. Len(Tail(stack)) : Later[k + 1] = Tail(stack)[k]
    BY <2>1, <1>3, <1>7, Prepend
  <2>3. ASSUME NEW k \in DOMAIN stack, k # 1 PROVE Later[k] = stack[k]
    <3>1. k - 1 \in 1 .. Len(Tail(stack)) /\ (k - 1) + 1 = k
      BY <2>3, <1>3
    <3> QED BY <3>1, <2>2, <1>3
  <2> QED BY <2>2, <2>3, <1>3
<1>9. /\ stack' \in Seq(Frames)
      /\ \A k \in DOMAIN stack : \E j \in DOMAIN stack' : stack'[j] = Later[k]
      /\ \A j \in DOMAIN stack' : \/ \E k \in DOMAIN stack : stack'[j] = Later[k]
                                  \/ walk /\ stack'[j] = [node |-> m, at |-> 1]
      /\ walk => 1 \in DOMAIN stack' /\ stack'[1] = [node |-> m, at |-> 1]
  <2>1. CASE ~walk
    BY <2>1, <1>1, <1>8
  <2>2. CASE walk
    <3> DEFINE new == [node |-> m, at |-> 1]
    <3>1. new \in Frames
      BY <1>5
    <3>2. stack' = <<new>> \o Later
      BY <2>2, <1>1
    <3> HIDE DEF new, Frames
    <3>3. /\ stack' \in Seq(Frames) /\ DOMAIN stack' = 1 .. Len(Later) + 1 /\ stack'[1] = new
          /\ \A k \in 1 .. Len(Later) : stack'[k + 1] = Later[k]
      BY <3>1, <3>2, <1>8, Prepend
    <3>4. DOMAIN Later = 1 .. Len(Later) /\ Len(Later) \in Nat
      BY <1>8, LenProperties
    <3>5. ASSUME NEW k \in DOMAIN stack PROVE \E j \in DOMAIN stack' : stack'[j] = Later[k]
      <4>1. k \in 1 .. Len(Later) /\ k + 1 \in 1 .. Len(Later) + 1
        BY <3>4, <1>8
      <4> QED BY <4>1, <3>3
    <3>6. ASSUME NEW j \in DOMAIN stack', j # 1
          PROVE  \E k \in DOMAIN stack : stack'[j] = Later[k]
      <4>1. j - 1 \in 1 .. Len(Later) /\ (j - 1) + 1 = j
        BY <3>3, <3>4, <3>6
      <4>2. stack'[j] = Later[j - 1]
        BY <4>1, <3>3
      <4> QED BY <4>1, <4>2, <3>4, <1>8
    <3>7. 1 \in DOMAIN stack'
      BY <3>3, <3>4
    <3> QED BY <2>2, <3>3, <3>5, <3>6, <3>7 DEF new
  <2> QED BY <2>1, <2>2
<1>10. stack' # <<>>
  BY <1>3, <1>9
<1>11. /\ inUse \subseteq inUse' /\ inUse' \subseteq memory /\ inUse' \subseteq Reachable
       /\ LinkChunk(l) \in inUse' /\ NodeChunk(m) \in inUse' /\ NameChunk(m) \in inUse'
       /\ \A x : NodeChunk(x) \in inUse' => NodeChunk(x) \in inUse \/ (x = m /\ walk)
       /\ \A x : LinkChunk(x) \in inUse' => LinkChunk(x) \in inUse \/ x = l
  <2>1. {LinkChunk(l), NodeChunk(m), NameChunk(m)} \subseteq memory \cap Reachable
    BY <1>5, <1>6, ReachableMembers
  <2>2. CASE walk
    <3>1. inUse' = inUse \cup {LinkChunk(l), NodeChunk(m), NameChunk(m)}
      BY <2>1, <2>2, <1>1
    <3> QED BY <2>1, <2>2, <3>1, <1>1, ChunkFacts DEF Marking, TypeOK
  <2>3. CASE ~walk
    <3>1. inUse' = inUse \cup {LinkChunk(l)}
      BY <2>1, <2>3, <1>1
    <3>2. NodeChunk(m) \in inUse
      BY <2>3, <1>1, <1>5 DEF Unmarked, Marking
    <3> QED BY <2>1, <3>1, <3>2, <1>1, <1>5, ChunkFacts DEF Marking, TypeOK
  <2> QED BY <2>2, <2>3
<1>12. /\ n \in Nodes /\ \A i : i = at => links[n][i] = l
  BY <1>4
<1> HIDE DEF up, Frames, l, m, n, walk, Later
<1>13. \A x \in Nodes : NodeChunk(x) \in inUse' =>
         /\ NameChunk(x) \in inUse'
         /\ \A i \in DOMAIN links[x] : LinkChunk(links[x][i]) \in inUse' \/ Pending(x, i)'
  <2> SUFFICES ASSUME NEW x \in Nodes, NodeChunk(x) \in inUse'
               PROVE  /\ NameChunk(x) \in inUse'
                      /\ \A i \in DOMAIN links[x] : LinkChunk(links[x][i]) \in inUse' \/ Pending(x, i)'
    OBVIOUS
  <2>1. \A i \in DOMAIN links[x] : i \in Nat /\ 1 =< i
    BY CellsFact, LenProperties
  <2>2. CASE NodeChunk(x) \in inUse
    <3>1. NameChunk(x) \in inUse'
      BY <2>2, <1>1, <1>11 DEF Marking
    <3>2. ASSUME NEW i \in DOMAIN links[x], LinkChunk(links[x][i]) \notin inUse'
          PROVE  Pending(x, i)'
      <4>1. PICK k \in DOMAIN stack : stack[k].node = x /\ stack[k].at =< i
        BY <2>2, <3>2, <1>1, <1>11 DEF Marking, Pending
      <4>2. Later[k].node = x /\ Later[k].at =< i
        <5>1. CASE k # 1
          BY <5>1, <4>1, <1>8
        <5>2. CASE k = 1
          <6>1. x = n /\ at =< i
            BY <5>2, <4>1, <1>3 DEF n
          <6>2. i # at
            BY <6>1, <3>2, <1>11, <1>12
          <6> QED BY <5>2, <6>1, <6>2, <2>1, <1>4, <1>7, <1>8
        <5> QED BY <5>1, <5>2
      <4>3. PICK j \in DOMAIN stack' : stack'[j] = Later[k]
        BY <1>9
      <4> QED BY <4>2, <4>3 DEF Pending
    <3> QED BY <3>1, <3>2
  <2>3. CASE x = m /\ walk
    <3>1. 1 \in DOMAIN stack' /\ stack'[1].node = x /\ stack'[1].at = 1
      BY <2>3, <1>9
    <3> QED BY <3>1, <2>1, <2>3, <1>11 DEF Pending
  <2> QED BY <2>2, <2>3, <1>11
<1>14. \A x \in Links : LinkChunk(x) \in inUse' => NodeChunk(fptr[x]) \in inUse'
  BY <1>1, <1>11 DEF Marking, m
<1>15. \A j \in DOMAIN stack' : NodeChunk(stack'[j].node) \in inUse'
  <2>1. \A k \in DOMAIN stack : Later[k].node = stack[k].node
    BY <1>3, <1>7, <1>8 DEF n
  <2>2. \A k \in DOMAIN stack : NodeChunk(stack[k].node) \in inUse'
    BY <1>1, <1>11 DEF Marking
  <2> QED BY <2>1, <2>2, <1>9, <1>11
<1>16. Marking'
  <2>1. root # Null => NodeChunk(root) \in inUse'
    BY <1>1, <1>11 DEF Marking
  <2> QED BY <1>1, <1>10, <1>11, <1>13, <1>14, <1>15, <2>1, SameReach DEF Marking, tree
<1>17. TypeOK'
  BY <1>1, <1>9, <1>11 DEF TypeOK, tree, Frames
<1> QED BY <1>1, <1>16, <1>17, SameTree

LEMMA MarkReturnsInv ==
  ASSUME FsInv, MarkReturns
  PROVE  FsInv'
<1> USE DEF FsInv
<1>1. /\ pc = "mark" /\ Frame.at \notin DOMAIN links[Frame.node]
      /\ stack' = Tail(stack)
      /\ pc' = IF Tail(stack) = <<>> THEN "sweep" ELSE "mark"
      /\ UNCHANGED <<root, tree, memory, inUse, ops>>
  BY DEF MarkReturns
<1>2. stack \in Seq([node : Nodes, at : Nat \ {0}]) /\ stack # <<>>
  BY <1>1 DEF TypeOK, Marking
<1>3. /\ Frame \in [node : Nodes, at : Nat \ {0}] /\ Frame = stack[1]
      /\ stack' \in Seq([node : Nodes, at : Nat \ {0}])
      /\ DOMAIN stack = 1 .. Len(stack) /\ Len(stack) \in Nat
      /\ DOMAIN stack' = 1 .. Len(stack) - 1
      /\ \A k \in DOMAIN stack' : stack'[k] = stack[k + 1]
  BY <1>1, <1>2, TakeHead DEF Frame
<1>4. \A k \in DOMAIN stack : k = 1 \/ \E j \in DOMAIN stack' : stack'[j] = stack[k]
  <2> TAKE k \in DOMAIN stack
  <2>1. k = 1 \/ (k - 1 \in 1 .. Len(stack) - 1 /\ (k - 1) + 1 = k)
    BY <1>3
  <2> QED BY <2>1, <1>3
<1>5. \A j \in DOMAIN stack' : \E k \in DOMAIN stack : stack'[j] = stack[k]
  <2> TAKE j \in DOMAIN stack'
  <2>1. j + 1 \in DOMAIN stack
    BY <1>3
  <2> QED BY <2>1, <1>3
<1>6. \A i \in DOMAIN links[Frame.node] : ~(Frame.at =< i)
  <2>1. DOMAIN links[Frame.node] = 1 .. Len(links[Frame.node]) /\ Len(links[Frame.node]) \in Nat
    BY <1>3, LenProperties DEF TypeOK
  <2> QED BY <2>1, <1>1, <1>3
<1>7. \A x \in Nodes : \A i \in DOMAIN links[x] : Pending(x, i) => Pending(x, i)'
  BY <1>3, <1>4, <1>6 DEF Pending
<1>8. Marking'
  <2>1. \A x \in Nodes : NodeChunk(x) \in inUse => \A i \in DOMAIN links[x] :
          LinkChunk(links[x][i]) \in inUse \/ Pending(x, i)'
    BY <1>1, <1>7 DEF Marking
  <2>2. \A j \in DOMAIN stack' : NodeChunk(stack'[j].node) \in inUse
    BY <1>1, <1>5 DEF Marking
  <2>3. pc' = "mark" <=> stack' # <<>>
    BY <1>1
  <2> QED BY <1>1, <2>1, <2>2, <2>3, SameReach DEF Marking, tree
<1>9. TypeOK'
  BY <1>1, <1>3 DEF TypeOK, tree
<1> QED BY <1>1, <1>8, <1>9, SameTree

(* When the stack is empty the marked chunks lead to marked ones only.     *)
LEMMA SweptClosed ==
  ASSUME FsInv, pc = "sweep", NEW n \in Nodes, NodeChunk(n) \in inUse
  PROVE  /\ NameChunk(n) \in inUse
         /\ \A l \in Cells(n) : LinkChunk(l) \in inUse /\ NodeChunk(fptr[l]) \in inUse
<1> USE DEF FsInv
<1>1. stack = <<>> /\ DOMAIN stack = {}
  BY DEF Marking
<1>2. \A i : ~Pending(n, i)
  BY <1>1 DEF Pending
<1> QED BY <1>2, CellsFact DEF Marking, Cells

LEMMA SweepInv ==
  ASSUME FsInv, Sweep
  PROVE  FsInv'
<1> USE DEF FsInv
<1>1. /\ pc = "sweep" /\ memory' = memory \cap inUse /\ pc' \in {"done", "idle"}
      /\ UNCHANGED <<root, tree, inUse, stack, ops>>
  BY DEF Sweep
<1>2. memory' = inUse
  BY <1>1 DEF TypeOK
<1>3. TypeOK' /\ Marking'
  BY <1>1, <1>2, NoMarking DEF TypeOK, tree
<1>4. Heap'
  <2>1. \A n \in Nodes : Cells(n)' = Cells(n) /\ fptr' = fptr
    BY <1>1, SameReach DEF tree
  <2> QED BY <1>1, <1>2, <2>1, SweptClosed DEF Heap, Marking
<1>5. ListsApart'
  BY <1>1 DEF ListsApart, tree
<1> QED BY <1>3, <1>4, <1>5

-----------------------------------------------------------------------------
LEMMA StepInv == FsInv /\ [Next]_vars => FsInv'
<1> SUFFICES ASSUME FsInv, [Next]_vars PROVE FsInv'
  OBVIOUS
<1>1. CASE Transactions
  BY <1>1, AddNodeInv, RemoveNodeInv, AddHardLinkInv, PrintTreeInv, MarkAndSweepInv DEF Transactions
<1>2. CASE Finish
  BY <1>2, FinishInv
<1>3. CASE Collector
  BY <1>3, MarkLinkInv, MarkReturnsInv, SweepInv DEF Collector
<1>4. CASE UNCHANGED vars
  <2>1. UNCHANGED <<pc, root, tree, memory, inUse, stack, ops>>
    BY <1>4 DEF vars
  <2>2. TypeOK'
    BY <2>1 DEF FsInv, TypeOK, tree
  <2>3. Heap' /\ ListsApart'
    BY <2>1, SameTree DEF FsInv
  <2>4. Marking'
    BY <2>1, SameReach DEF FsInv, Marking, Pending, tree
  <2> QED BY <2>2, <2>3, <2>4 DEF FsInv
<1> QED BY <1>1, <1>2, <1>3, <1>4 DEF Next, Terminated

(* Types, the heap, the lists and the marks, at any point of a pass (the   *)
(* whole of gc.c, gc_fstree.c, fstree.c and do_fstree.c).                  *)
THEOREM TreeInvariantCorrect == Spec => []FsInv
BY InitInv, StepInv, PTL DEF Spec

(* Nothing the root can reach is freed by mark_and_sweep, whatever was     *)
(* added, linked and removed, and with the log missing for some passes.    *)
THEOREM NoDanglingCorrect == Spec => []NoDangling
<1>1. FsInv => NoDangling
  BY ReachableWithin DEF FsInv, Heap, NoDangling
<1> QED BY <1>1, TreeInvariantCorrect, PTL

(* mark_fstree marks what is in reach and nothing else, on any graph.      *)
THEOREM MarksCorrect == Spec => []MarksExact
<1>1. FsInv => MarksExact
  <2> SUFFICES ASSUME FsInv, pc = "sweep" PROVE inUse = Reachable
    BY DEF MarksExact
  <2>1. inUse \subseteq Reachable /\ (root # Null => NodeChunk(root) \in inUse) /\ TypeOK
    BY DEF FsInv, Marking
  <2>2. Reachable \subseteq inUse
    BY <2>1, SweptClosed, ReachableWithin
  <2> QED BY <2>1, <2>2
<1> QED BY <1>1, TreeInvariantCorrect, PTL

(* No two lists of the tree share a link, after any additions, hard links  *)
(* and removals (remove_node's relinking behind a removed link included).  *)
THEOREM LinksCorrect == Spec => []LinksNotShared
<1>1. FsInv => LinksNotShared
  <2> SUFFICES ASSUME FsInv PROVE LinksNotShared
    OBVIOUS
  <2>1. \A n \in Reached : n \in Nodes /\ NodeChunk(n) \in memory
    BY ReachableWithin, ReachedFacts DEF FsInv, Heap
  <2> QED BY <2>1 DEF FsInv, ListsApart, LinksNotShared
<1> QED BY <1>1, TreeInvariantCorrect, PTL
=============================================================================
