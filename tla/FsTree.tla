------------------------------- MODULE FsTree --------------------------------
(***************************************************************************)
(* The file-system tree of src/Assignment/A2 and its mark-and-sweep        *)
(* collector (fstree.c, gc.c, gc_fstree.c, do_fstree.c).  A node has a     *)
(* name and a list of links to other nodes; hard links make it a graph,    *)
(* cycles included.  Every node, name and link is a chunk of gc_malloc,    *)
(* which the collector frees unless a walk from the root has marked it.    *)
(***************************************************************************)
EXTENDS Integers, Sequences, FiniteSets

CONSTANTS Nodes, Links,  \* addresses of nodes and of links
          Names,         \* names a transaction may use
          RootName,
          Paths,         \* the paths it may use, split at "/"
          MaxOps         \* bound: transactions

ASSUME AddressAssumption == Nodes \subseteq Nat /\ Links \subseteq Nat
ASSUME RootAssumption == 0 \in Nodes
ASSUME PathsAssumption == Paths \subseteq Seq(Names)
ASSUME MaxOpsAssumption == MaxOps \in Nat

Null == -1

(* The chunks of a node, of its name, and of a link.                       *)
NodeChunk(n) == <<"node", n>>
NameChunk(n) == <<"name", n>>
LinkChunk(l) == <<"link", l>>
Chunks == {"node", "name"} \X Nodes \cup {"link"} \X Links

VARIABLES
  pc,      \* "idle", "mark", "sweep"; at the end "done", "crashed" or "overflow" of the stack
  root,    \* root in do_fstree.c; NULL at the end of the input
  name,    \* name of each node
  links,   \* its links, in order
  fptr,    \* the node each link points to
  memory,  \* the chunks on the memory list
  inUse,   \* those with in_use set
  stack,   \* activations of mark_fstree, innermost first: the node and the place in its links
  ops      \* transactions so far

tree == <<name, links, fptr>>
vars == <<pc, root, tree, memory, inUse, stack, ops>>

TypeOK ==
  /\ pc \in {"idle", "mark", "sweep", "done", "crashed", "overflow"}
  /\ root \in {0, Null}
  /\ name \in [Nodes -> Names \cup {RootName}]
  /\ links \in [Nodes -> Seq(Links)]
  /\ fptr \in [Links -> Nodes]
  /\ memory \subseteq Chunks
  /\ inUse \subseteq memory
  /\ stack \in Seq([node : Nodes, at : Nat \ {0}])
  /\ ops \in 0 .. MaxOps

Cells(n) == {links[n][i] : i \in DOMAIN links[n]}

-----------------------------------------------------------------------------
(* Looking up.                                                             *)

(* The first link of n from the k-th on that leads to this name, by its    *)
(* place in the list, if there is one.                                     *)
FirstFrom(n, k, nm) ==
  {i \in DOMAIN links[n] : /\ k =< i /\ name[fptr[links[n][i]]] = nm
                           /\ \A j \in k .. i - 1 : name[fptr[links[n][j]]] # nm}

FindChild(n, nm) ==
  IF n = Null \/ FirstFrom(n, 1, nm) = {} THEN Null
  ELSE fptr[links[n][CHOOSE i \in FirstFrom(n, 1, nm) : TRUE]]

(* find_node: the nodes along the path from the root, Null once one of its *)
(* elements is not found.  There is one walk for each path.                *)
Walks(path) ==
  {walk \in [0 .. Len(path) -> Nodes \cup {Null}] :
     /\ walk[0] = root
     /\ \A i \in 1 .. Len(path) : walk[i] = FindChild(walk[i - 1], path[i])}
FindNode(path) == {walk[Len(path)] : walk \in Walks(path)}

-----------------------------------------------------------------------------
(* The transactions.                                                       *)

Transaction == pc = "idle" /\ ops < MaxOps /\ ops' = ops + 1

(* Addresses are only compared: the least free one stands for any that     *)
(* malloc may return.                                                      *)
Least(S)   == {a \in S : \A b \in S : a =< b}
FreshNodes == Least({n \in Nodes : NodeChunk(n) \notin memory /\ NameChunk(n) \notin memory})
FreshLinks == Least({l \in Links : LinkChunk(l) \notin memory})

GcMalloc(chunks) == memory' = memory \cup chunks /\ inUse' = inUse \cup chunks

AddNode(path, nm) ==
  /\ Transaction
  /\ \E fp \in FindNode(path) :
       \/ fp = Null /\ UNCHANGED <<tree, memory, inUse>>
       \/ /\ fp # Null
          /\ \E n \in FreshNodes, l \in FreshLinks :
               /\ name' = [name EXCEPT ![n] = nm]
               /\ links' = [links EXCEPT ![n] = <<>>, ![fp] = <<l>> \o @]
               /\ fptr' = [fptr EXCEPT ![l] = n]
               /\ GcMalloc({NodeChunk(n), NameChunk(n), LinkChunk(l)})
  /\ UNCHANGED <<pc, root, stack>>

AddHardLinkShared(destPath, srcPath, nm) == \* mutant: no link of its own
  /\ Transaction
  /\ \E srcp \in FindNode(srcPath), destp \in FindNode(destPath) :
       /\ Null \notin {srcp, destp}
       /\ \E i \in FirstFrom(srcp, 1, nm) : links' = [links EXCEPT ![destp] = <<links[srcp][i]>> \o @]
  /\ UNCHANGED <<pc, root, name, fptr, memory, inUse, stack>>

AddHardLink(destPath, srcPath, nm) ==
  /\ Transaction
  /\ \E srcp \in FindNode(srcPath), destp \in FindNode(destPath) :
       LET fp == FindChild(srcp, nm) IN
       \/ (fp = Null \/ destp = Null) /\ UNCHANGED <<links, fptr, memory, inUse>>
       \/ /\ fp # Null /\ destp # Null
          /\ \E l \in FreshLinks :
               /\ links' = [links EXCEPT ![destp] = <<l>> \o @]
               /\ fptr' = [fptr EXCEPT ![l] = fp]
               /\ GcMalloc({LinkChunk(l)})
  /\ UNCHANGED <<pc, root, name, stack>>

(* A list without its i-th element.                                        *)
Without(s, i) == [j \in 1 .. Len(s) - 1 |-> IF j < i THEN s[j] ELSE s[j + 1]]

(* The list of n after remove_node.  When its first link is taken out the  *)
(* search goes on behind it, and takes out a second match as well, unless  *)
(* that is the next one: then only the link already out is changed.        *)
Removed(n, nm) ==
  LET s     == links[n]
      first == 1 \in DOMAIN s /\ name[fptr[s[1]]] = nm
      more  == {i \in FirstFrom(n, 2, nm) : ~(first /\ i = 2)}
      rest  == IF more = {} THEN s ELSE Without(s, CHOOSE i \in more : TRUE)
  IN IF first THEN Without(rest, 1) ELSE rest

RemoveNodeFrees(path, nm) ==             \* mutant: the node taken out is freed at once
  /\ Transaction
  /\ \E fp \in FindNode(path) :
       /\ fp # Null
       /\ links' = [links EXCEPT ![fp] = Removed(fp, nm)]
       /\ memory' = memory \ {NodeChunk(FindChild(fp, nm))}
       /\ inUse' = inUse \ {NodeChunk(FindChild(fp, nm))}
  /\ UNCHANGED <<pc, root, name, fptr, stack>>

(* A path that is not found is dereferenced.                               *)
RemoveNode(path, nm) ==
  /\ Transaction
  /\ \E fp \in FindNode(path) :
       \/ fp = Null /\ pc' = "crashed" /\ UNCHANGED links
       \/ fp # Null /\ links' = [links EXCEPT ![fp] = Removed(fp, nm)] /\ UNCHANGED pc
  /\ UNCHANGED <<root, name, fptr, memory, inUse, stack>>

Children(n) == {fptr[l] : l \in Cells(n)}

(* The nodes that can be reached are in every set of nodes that has the    *)
(* root and the children of its members.                                   *)
Closed(S) == \A n \in S : Children(n) \subseteq S
Reached   == {n \in Nodes : \A S \in SUBSET Nodes : {root} \cap Nodes \subseteq S /\ Closed(S) => n \in S}
Cyclic    == \E S \in SUBSET Reached : S # {} /\ \A n \in S : Children(n) \cap S # {}

(* print_tree recurses for ever on a cycle.                                *)
PrintTree ==
  /\ Transaction
  /\ pc' = IF Cyclic THEN "overflow" ELSE pc
  /\ UNCHANGED <<root, tree, memory, inUse, stack>>

-----------------------------------------------------------------------------
(* The collector.                                                          *)

CollectUncleared(r) ==                   \* mutant: the marks of the last pass are left
  /\ pc' = IF r = Null THEN "sweep" ELSE "mark"
  /\ stack' = IF r = Null THEN <<>> ELSE <<[node |-> r, at |-> 1]>>
  /\ UNCHANGED inUse

(* The start of mark_and_sweep with this root: the first call of           *)
(* mark_fstree up to its loop over the links.                              *)
Collect(r) ==
  /\ pc' = IF r = Null THEN "sweep" ELSE "mark"
  /\ inUse' = IF r = Null THEN {} ELSE {NodeChunk(r), NameChunk(r)} \cap memory
  /\ stack' = IF r = Null THEN <<>> ELSE <<[node |-> r, at |-> 1]>>

(* Nothing is collected when the log cannot be opened.                     *)
NoLog(after) == pc' = after /\ UNCHANGED <<inUse, stack>>

MarkAndSweep ==
  /\ Transaction
  /\ Collect(root) \/ NoLog("idle")
  /\ UNCHANGED <<root, tree, memory>>

(* The end of the input: the tree is printed, and collected without root.  *)
Finish ==
  /\ pc = "idle"
  /\ \/ Cyclic /\ pc' = "overflow" /\ UNCHANGED <<root, inUse, stack>>
     \/ ~Cyclic /\ root' = Null /\ (Collect(Null) \/ NoLog("done"))
  /\ UNCHANGED <<tree, memory, ops>>

(* mark_one returns 0 for these.                                           *)
Unmarked == memory \ inUse

Frame == Head(stack)
LaterSameLink == stack                   \* mutant: no curr = curr->next
Later == <<[Frame EXCEPT !.at = @ + 1]>> \o Tail(stack)

(* One link in mark_fstree.  When it had not been marked the node behind   *)
(* it is visited, and walked next when that had not been marked either.    *)
MarkLink ==
  /\ pc = "mark" /\ Frame.at \in DOMAIN links[Frame.node]
  /\ LET l    == links[Frame.node][Frame.at]
         n    == fptr[l]
         walk == {LinkChunk(l), NodeChunk(n)} \subseteq Unmarked
     IN /\ stack' = IF walk THEN <<[node |-> n, at |-> 1]>> \o Later ELSE Later
        /\ inUse' = inUse \cup
             (memory \cap IF walk THEN {LinkChunk(l), NodeChunk(n), NameChunk(n)} ELSE {LinkChunk(l)})
  /\ UNCHANGED <<pc, root, tree, memory, ops>>

MarkReturns ==
  /\ pc = "mark" /\ Frame.at \notin DOMAIN links[Frame.node]
  /\ stack' = Tail(stack)
  /\ pc' = IF Tail(stack) = <<>> THEN "sweep" ELSE pc
  /\ UNCHANGED <<root, tree, memory, inUse, ops>>

Sweep ==
  /\ pc = "sweep"
  /\ memory' = memory \cap inUse
  /\ pc' = IF root = Null THEN "done" ELSE "idle"
  /\ UNCHANGED <<root, tree, inUse, stack, ops>>

-----------------------------------------------------------------------------
(* create_node("root")                                                     *)
Init ==
  /\ pc = "idle" /\ root = 0 /\ stack = <<>> /\ ops = 0
  /\ name = [n \in Nodes |-> RootName]
  /\ links = [n \in Nodes |-> <<>>]
  /\ fptr = [l \in Links |-> 0]
  /\ memory = {NodeChunk(0), NameChunk(0)}
  /\ inUse = memory

Transactions ==
  \/ \E path \in Paths, nm \in Names : AddNode(path, nm) \/ RemoveNode(path, nm)
  \/ \E dest, src \in Paths, nm \in Names : AddHardLink(dest, src, nm)
  \/ PrintTree \/ MarkAndSweep

Collector == MarkLink \/ MarkReturns \/ Sweep

Terminated == pc \in {"done", "crashed", "overflow"} /\ UNCHANGED vars

Next == Transactions \/ Finish \/ Collector \/ Terminated

Spec == Init /\ [][Next]_vars

(* mark_and_sweep runs to its end; the input need not have one.            *)
FairSpec == Spec /\ WF_vars(Collector)

-----------------------------------------------------------------------------
Reachable ==
  UNION {{NodeChunk(n), NameChunk(n)} \cup {LinkChunk(l) : l \in Cells(n)} : n \in Reached}

(* What the program can reach from its root it has not freed, whatever was *)
(* added, linked, removed and collected before.                            *)
NoDangling == Reachable \subseteq memory

(* When the marking is done the marked chunks are those in reach: each of  *)
(* them is kept, however many links lead to it, and cycles that have come  *)
(* loose are not.                                                          *)
MarksExact == pc = "sweep" => inUse = Reachable

(* A link is in one list and there once, so that what one node's removal   *)
(* does to the list is not seen by another's.                              *)
LinksNotShared ==
  \A n, m \in Reached : \A i \in DOMAIN links[n], j \in DOMAIN links[m] :
    links[n][i] = links[m][j] => n = m /\ i = j

(* The invariant behind the three: what is on the memory list leads to     *)
(* nothing that is not, garbage included; ...                              *)
Heap ==
  /\ root # Null => NodeChunk(root) \in memory
  /\ \A n \in Nodes : NodeChunk(n) \in memory =>
       /\ NameChunk(n) \in memory
       /\ \A l \in Cells(n) : LinkChunk(l) \in memory /\ NodeChunk(fptr[l]) \in memory

(* ... its lists are apart; ...                                            *)
ListsApart ==
  \A n, m \in Nodes : NodeChunk(n) \in memory /\ NodeChunk(m) \in memory =>
    \A i \in DOMAIN links[n], j \in DOMAIN links[m] : links[n][i] = links[m][j] => n = m /\ i = j

(* ... and while chunks are marked, a link of a marked node is marked with *)
(* the node behind it, or an activation on the stack has it still to come. *)
Pending(n, i) == \E k \in DOMAIN stack : stack[k].node = n /\ stack[k].at =< i
Marking ==
  pc \in {"mark", "sweep"} =>
    /\ inUse \subseteq Reachable
    /\ root # Null => NodeChunk(root) \in inUse
    /\ \A n \in Nodes : NodeChunk(n) \in inUse =>
         /\ NameChunk(n) \in inUse
         /\ \A i \in DOMAIN links[n] : LinkChunk(links[n][i]) \in inUse \/ Pending(n, i)
    /\ \A l \in Links : LinkChunk(l) \in inUse => NodeChunk(fptr[l]) \in inUse
    /\ \A k \in DOMAIN stack : NodeChunk(stack[k].node) \in inUse
    /\ pc = "mark" <=> stack # <<>>

FsInv == TypeOK /\ Heap /\ ListsApart /\ Marking

(* Hard links that close a cycle do not keep mark_and_sweep from its end.  *)
CollectorReturns == pc = "mark" ~> pc \in {"idle", "done"}
=============================================================================
