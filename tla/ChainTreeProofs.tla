-------------------------- MODULE ChainTreeProofs --------------------------
(***************************************************************************)
(* Proofs about the block tree of cryptonote::Core, for every set of       *)
(* blocks and every order in which they arrive: the three ways in which    *)
(* addBlock changes the segments (a block pushed on a leaf, a new leaf on  *)
(* top of a segment, a segment split in two) keep the tree in shape, and   *)
(* each of its branches is a step of the fork choice rule, so the main     *)
(* chain is the heaviest one and ChainTree implements ForkChoice.  Then    *)
(* the paths of the tree: walking the segments from a block to the root    *)
(* meets exactly the block's ancestors, the leaves cover the tree, no      *)
(* branch spends a key image twice, and the main chain file follows the    *)
(* main chain.                                                             *)
(***************************************************************************)
EXTENDS ChainTree, FiniteNaturals

-----------------------------------------------------------------------------
(* How a block changes the segments *)

\* Every segment has a top block, starts at its first block, and has a block
\* at every index between the two.
Contiguous ==
    /\ \A s \in Segments : \E b \in BlocksOf(s) :
          \A c \in BlocksOf(s) : Index[c] <= Index[b]
    /\ \A b \in Known : Index[segmentOf[b]] <= Index[b]
    /\ \A b \in Known : \A i \in Index[segmentOf[b]] .. Index[b] :
          \E c \in Known : segmentOf[c] = segmentOf[b] /\ Index[c] = i

\* A leaf has no children.
LeavesChildless == \A i \in DOMAIN chainsLeaves : children[chainsLeaves[i]] = {}

\* Every childless segment is a leaf, and no leaf is listed twice.
LeavesListed ==
    /\ \A i, j \in DOMAIN chainsLeaves : chainsLeaves[i] = chainsLeaves[j] => i = j
    /\ \A s \in Segments :
          children[s] = {} => \E i \in DOMAIN chainsLeaves : chainsLeaves[i] = s

\* The segments of the main chain are the lineage of the first leaf.
MainLine == mainChainSet = Lineage(parent, MainLeaf)

\* The inductive invariant behind the theorems about the tree.
IInv ==
    /\ TypeOK
    /\ TreeShape
    /\ Contiguous
    /\ LeavesChildless
    /\ LeavesListed
    /\ MainLine
    /\ HeaviestChain

-----------------------------------------------------------------------------

\* The highest block of a set of blocks with distinct indexes is the one
\* whose index none exceeds.
LEMMA HighestIs ==
    ASSUME NEW S \in SUBSET Block, NEW b \in S,
           \A c \in S : Index[c] <= Index[b],
           \A c, d \in S : Index[c] = Index[d] => c = d
    PROVE  Highest(S) = b
<1> DEFINE P(x) == x \in S /\ \A c \in S : Index[c] <= Index[x]
<1>1. P(b) OBVIOUS
<1>2. P(Highest(S)) BY <1>1 DEF Highest
<1>3. Index[b] \in Nat /\ Index[Highest(S)] \in Nat BY <1>2, BlockAssumption
<1>4. Index[Highest(S)] = Index[b] BY <1>1, <1>2, <1>3
<1> QED BY <1>2, <1>4

\* In a state of the invariant, the top of a segment is one of its blocks
\* and the highest of them.
LEMMA TopOfSegment ==
    ASSUME IInv, NEW s \in Segments
    PROVE  /\ Top(s) \in BlocksOf(s)
           /\ \A c \in BlocksOf(s) : Index[c] <= Index[Top(s)]
<1>1. PICK b \in BlocksOf(s) : \A c \in BlocksOf(s) : Index[c] <= Index[b]
  BY DEF IInv, Contiguous
<1> QED BY <1>1 DEF Top, Highest

\* The tree that holds only the genesis block satisfies the invariant.
THEOREM InitInv == Init => IInv
<1> SUFFICES ASSUME Init PROVE IInv OBVIOUS
<1> USE BlockAssumption DEF Init
<1>0. Known = {Genesis} /\ Segments = {Genesis} BY DEF Known, Segments
<1>1. BlocksOf(Genesis) = {Genesis} BY <1>0 DEF BlocksOf
<1>2. TypeOK BY <1>0 DEF TypeOK, Status
<1>3. TreeShape BY <1>0 DEF TreeShape
<1>4. Contiguous BY <1>0, <1>1 DEF Contiguous
<1>5. LeavesChildless BY DEF LeavesChildless
<1>6. Top(Genesis) = Genesis BY <1>1, HighestIs DEF Top
<1>7. Tip = Genesis BY <1>6 DEF Tip, MainLeaf
<1>8. HeaviestChain
  <2>1. Cumulative[Genesis] <= Cumulative[Genesis] OBVIOUS
  <2> QED BY Zenon, <2>1, <1>0, <1>7 DEF HeaviestChain
<1>9. LeavesListed BY <1>0 DEF LeavesListed
<1>10. MainLine
  <2>1. Lineage(parent, Genesis) = {Genesis} BY ZenonT(60) DEF Lineage
  <2> QED BY <2>1 DEF MainLine, MainLeaf
<1> QED BY <1>2, <1>3, <1>4, <1>5, <1>8, <1>9, <1>10 DEF IInv

\* A block that addBlock accepts is new and its parent is known.
LEMMA ValidIsNew ==
    ASSUME NEW b \in Block, Accepts(b), IInv
    PROVE  /\ b \notin Known
           /\ b # Genesis
           /\ Prev[b] \in Known
           /\ segmentOf[Prev[b]] \in Segments
           /\ Prev[b] \in Block
           /\ Index[b] = Index[Prev[b]] + 1
           /\ Cumulative[b] > Cumulative[Prev[b]]
           /\ Index[b] \in Nat
           /\ Index[Prev[b]] \in Nat
<1>1. b \notin Known /\ Prev[b] \in Known BY DEF Accepts
<1>2. Genesis \in Known BY DEF IInv, TypeOK, TreeShape, Segments
<1>3. b # Genesis BY <1>1, <1>2
<1> QED BY <1>1, <1>3, BlockAssumption DEF IInv, TypeOK

\* What Put returns has the type its domain and its values give it.
LEMMA TypeOfPut ==
    ASSUME NEW f, NEW x, NEW y, NEW g, g = Put(f, x, y),
           NEW S, DOMAIN g = S, NEW T, \A z \in S : g[z] \in T
    PROVE  g \in [S -> T]
<1>1. g = [z \in DOMAIN g |-> g[z]] BY Zenon DEF Put
<1> QED BY <1>1

\* Pushing a block on top of a childless segment: it becomes that segment's
\* top, no other segment changes, and the tree keeps its shape.
LEMMA PushKeepsTree ==
    ASSUME IInv, NEW b \in Block, Accepts(b),
           NEW s \in Segments, s = segmentOf[Prev[b]],
           Prev[b] = Top(s), children[s] = {},
           segmentOf' = Put(segmentOf, b, s),
           parent' = parent, children' = children
    PROVE  /\ Known' = Known \cup {b}
           /\ Segments' = Segments
           /\ segmentOf' \in [Known' -> Segments']
           /\ Top(s)' = b
           /\ \A t \in Segments \ {s} : Top(t)' = Top(t)
           /\ TreeShape'
           /\ Contiguous'
<1> USE DEF Known, Segments
<1>1. /\ b \notin Known /\ b # Genesis /\ Prev[b] \in Known
      /\ Index[b] = Index[Prev[b]] + 1 /\ Index[b] \in Nat /\ Index[Prev[b]] \in Nat
  BY Zenon, ValidIsNew
<1>2. Known' = Known \cup {b} /\ Segments' = Segments BY DEF Put
<1>3. /\ segmentOf'[b] = s
      /\ \A c \in Known : segmentOf'[c] = segmentOf[c]
  BY Zenon, <1>1 DEF Put
<1>4. /\ Known \subseteq Block
      /\ segmentOf \in [Known -> Segments]
      /\ Segments \subseteq Known
      /\ \A c \in Known : Index[c] \in Nat
  BY Zenon, BlockAssumption DEF IInv, TypeOK
<1>5. segmentOf' \in [Known' -> Segments'] BY Zenon, <1>2, <1>4 DEF Put
<1>6. \A c \in Known : segmentOf[c] = s => Index[c] <= Index[Prev[b]]
  BY TopOfSegment DEF BlocksOf
<1>7. \A c \in Known' : segmentOf'[c] = s => Index[c] <= Index[b]
  BY <1>1, <1>2, <1>3, <1>4, <1>6
<1>8. \A t \in Segments, c, d \in Known' :
         segmentOf'[c] = t /\ segmentOf'[d] = t /\ Index[c] = Index[d] => c = d
  BY <1>1, <1>2, <1>3, <1>4, <1>6 DEF IInv, TreeShape
<1>9. Top(s)' = b
  <2>1. BlocksOf(s)' \in SUBSET Block BY <1>2, <1>4 DEF BlocksOf
  <2>2. b \in BlocksOf(s)' BY <1>2, <1>3 DEF BlocksOf
  <2>3. \A c \in BlocksOf(s)' : Index[c] <= Index[b] BY <1>7 DEF BlocksOf
  <2>4. \A c, d \in BlocksOf(s)' : Index[c] = Index[d] => c = d BY <1>8 DEF BlocksOf
  <2> QED BY <2>1, <2>2, <2>3, <2>4, HighestIs DEF Top
<1>10. \A t \in Segments \ {s} : BlocksOf(t)' = BlocksOf(t)
  BY <1>2, <1>3, <1>4 DEF BlocksOf
<1>11. \A t \in Segments \ {s} : Top(t)' = Top(t) BY <1>10 DEF Top
<1>12. TreeShape'
  <2>1. \A c \in Known' \ {Genesis} : Prev[c] \in Known' BY Zenon, <1>1, <1>2 DEF IInv, TreeShape
  <2>2. \A t \in Segments' : segmentOf'[t] = t BY <1>2, <1>3, <1>4 DEF IInv, TreeShape
  <2>3. \A c \in Known' \ Segments' : segmentOf'[Prev[c]] = segmentOf'[c]
    <3> TAKE c \in Known' \ Segments'
    <3>1. CASE c = b BY Zenon, <3>1, <1>1, <1>3
    <3>2. CASE c # b
      <4>1. c \in Known \ Segments /\ c # Genesis BY <3>2, <1>2 DEF IInv, TypeOK
      <4>2. Prev[c] \in Known /\ segmentOf[Prev[c]] = segmentOf[c]
        BY <4>1 DEF IInv, TreeShape
      <4> QED BY <4>1, <4>2, <1>3
    <3> QED BY <3>1, <3>2
  <2>4. \A t \in Segments \ {Genesis} : parent[t] \in Segments /\ parent[t] # s
    BY DEF IInv, TreeShape
  <2>5. \A t \in Segments' \ {Genesis} :
           parent'[t] \in Segments' /\ Prev[t] = Top(parent[t])'
    <3> TAKE t \in Segments' \ {Genesis}
    <3>1. PICK u \in Segments \ {s} : u = parent[t] BY <1>2, <2>4
    <3>2. Prev[t] = Top(u)' BY <3>1, <1>2, <1>11 DEF IInv, TreeShape
    <3> QED BY <3>1, <3>2, <1>2
  <2> QED BY <1>2, <1>8, <2>1, <2>2, <2>3, <2>5 DEF IInv, TreeShape
<1>13. Contiguous'
  <2>1. \A t \in Segments' : \E c \in BlocksOf(t)' :
           \A d \in BlocksOf(t)' : Index[d] <= Index[c]
    <3> TAKE t \in Segments'
    <3>1. CASE t = s BY Zenon, <3>1, <1>2, <1>3, <1>7 DEF BlocksOf
    <3>2. CASE t # s BY <3>2, <1>2, <1>10 DEF IInv, Contiguous
    <3> QED BY <3>1, <3>2
  <2>2. \A c \in Known' : Index[segmentOf'[c]] <= Index[c]
    <3>1. Index[s] <= Index[Prev[b]] BY <1>1 DEF IInv, Contiguous
    <3>2. Index[s] \in Nat BY <1>4
    <3> QED BY <1>1, <1>2, <1>3, <3>1, <3>2 DEF IInv, Contiguous
  <2>3. ASSUME NEW c \in Known', NEW i \in Index[segmentOf'[c]] .. Index[c]
        PROVE  \E d \in Known' : segmentOf'[d] = segmentOf'[c] /\ Index[d] = i
    <3>1. CASE c # b BY <3>1, <1>2, <1>3 DEF IInv, Contiguous
    <3>2. CASE c = b /\ i = Index[b] BY <3>2
    <3>3. CASE c = b /\ i # Index[b]
      <4>0. i \in Index[s] .. Index[b] /\ Index[s] \in Nat BY Zenon, <3>3, <1>3, <1>4
      <4>1. i \in Index[s] .. Index[Prev[b]] BY <4>0, <3>3, <1>1
      <4>2. PICK d \in Known : segmentOf[d] = s /\ Index[d] = i
        BY <4>1, <1>1 DEF IInv, Contiguous
      <4> QED BY Zenon, <4>2, <3>3, <1>2, <1>3
    <3> QED BY <3>1, <3>2, <3>3
  <2> QED BY <2>1, <2>2, <2>3 DEF Contiguous
<1> QED BY <1>2, <1>5, <1>9, <1>11, <1>12, <1>13

\* The shape of the step that starts a new leaf segment b on top of segment s.
ForkAt(b, s) ==
    /\ s \in Segments /\ s = segmentOf[Prev[b]] /\ Prev[b] = Top(s)
    /\ segmentOf' = Put(segmentOf, b, b)
    /\ parent' = Put(parent, b, s)
    /\ children' = Put(Put(children, s, children[s] \cup {b}), b, {})

\* A new leaf segment on top of segment s: its only block is its top, the
\* tops of the other segments stay, and the tree keeps its shape.
LEMMA ForkKeepsTree ==
    ASSUME IInv, NEW b \in Block, Accepts(b), NEW s, ForkAt(b, s)
    PROVE  /\ Known' = Known \cup {b}
           /\ Segments' = Segments \cup {b}
           /\ segmentOf' \in [Known' -> Segments']
           /\ parent' \in [Segments' -> Segments' \cup {NoSegment}]
           /\ children' \in [Segments' -> SUBSET Segments']
           /\ children'[b] = {}
           /\ \A t \in Segments \ {s} : children'[t] = children[t]
           /\ \A t \in Segments : Top(t)' = Top(t)
           /\ TreeShape'
           /\ Contiguous'
<1>1. /\ b \notin Known /\ b # Genesis /\ Prev[b] \in Known
      /\ Index[b] \in Nat
  BY Zenon, ValidIsNew
<1>2. /\ Known \subseteq Block
      /\ segmentOf \in [Known -> Segments]
      /\ parent \in [Segments -> Segments \cup {NoSegment}]
      /\ children \in [Segments -> SUBSET Segments]
      /\ Segments \subseteq Known
      /\ Genesis \in Segments
      /\ \A c \in Known : Index[c] \in Nat
      /\ NoSegment \notin Block
  BY ZenonT(60), BlockAssumption DEF IInv, TypeOK
<1>3. b \notin Segments BY Zenon, <1>1, <1>2
<1>4. /\ Known' = Known \cup {b} /\ Segments' = Segments \cup {b}
      /\ segmentOf'[b] = b /\ parent'[b] = s /\ children'[b] = {}
      /\ children'[s] = children[s] \cup {b}
      /\ \A c \in Known : segmentOf'[c] = segmentOf[c]
      /\ \A t \in Segments : parent'[t] = parent[t]
      /\ \A t \in Segments \ {s} : children'[t] = children[t]
  BY ZenonT(60), <1>1, <1>2, <1>3 DEF ForkAt, Put, Known, Segments
<1>5. segmentOf' \in [Known' -> Segments']
  <2>1. \A c \in Known' : segmentOf'[c] \in Segments' BY Zenon, <1>2, <1>4
  <2> QED BY Zenon, <2>1, TypeOfPut DEF ForkAt, Known
<1>6. parent' \in [Segments' -> Segments' \cup {NoSegment}]
  <2>1. \A t \in Segments' : parent'[t] \in Segments' \cup {NoSegment}
    BY Zenon, <1>2, <1>4 DEF ForkAt
  <2> QED BY Zenon, <2>1, TypeOfPut DEF ForkAt, Segments
<1>7. children' \in [Segments' -> SUBSET Segments']
  <2>1. \A t \in Segments' : children'[t] \in SUBSET Segments' BY ZenonT(60), <1>2, <1>3, <1>4
  <2>2. PICK f : /\ children' = Put(f, b, {})
                 /\ f = Put(children, s, children[s] \cup {b})
    BY Zenon DEF ForkAt
  <2>3. DOMAIN children = Segments /\ s \in Segments BY Zenon, <1>2 DEF ForkAt
  <2>4. DOMAIN f = Segments
    <3>1. DOMAIN f = DOMAIN children \cup {s} BY Zenon, <2>2 DEF Put
    <3> QED BY <3>1, <2>3
  <2>5. DOMAIN children' = Segments'
    <3>1. DOMAIN children' = DOMAIN f \cup {b} BY Zenon, <2>2 DEF Put
    <3> QED BY <3>1, <2>4, <1>4
  <2> QED BY Zenon, <2>1, <2>2, <2>5, TypeOfPut
<1>8. \A t \in Segments : BlocksOf(t)' = BlocksOf(t)
  BY <1>1, <1>2, <1>3, <1>4 DEF BlocksOf
<1>9. \A t \in Segments : Top(t)' = Top(t) BY <1>8 DEF Top
<1>10. BlocksOf(b)' = {b} BY <1>2, <1>3, <1>4 DEF BlocksOf
<1>11. TreeShape'
  <2>1. \A c \in Known' \ {Genesis} : Prev[c] \in Known' BY Zenon, <1>1, <1>4 DEF IInv, TreeShape
  <2>2. \A t \in Segments' : segmentOf'[t] = t BY <1>2, <1>4 DEF IInv, TreeShape
  <2>3. \A c \in Known' \ Segments' : segmentOf'[Prev[c]] = segmentOf'[c]
    <3> TAKE c \in Known' \ Segments'
    <3>1. c \in Known \ Segments /\ c # Genesis BY SMTT(60), <1>2, <1>4
    <3>2. Prev[c] \in Known /\ segmentOf[Prev[c]] = segmentOf[c]
      BY <3>1 DEF IInv, TreeShape
    <3> QED BY <3>1, <3>2, <1>4
  <2>4. \A t \in Segments', c, d \in Known' :
           segmentOf'[c] = t /\ segmentOf'[d] = t /\ Index[c] = Index[d] => c = d
    BY SMTT(60), <1>2, <1>3, <1>4 DEF IInv, TreeShape
  <2>5. \A t \in Segments' \ {Genesis} :
           parent'[t] \in Segments' /\ Prev[t] = Top(parent[t])'
    <3> TAKE t \in Segments' \ {Genesis}
    <3>1. PICK u \in Segments : u = parent'[t] /\ Prev[t] = Top(u)
      <4>1. CASE t = b BY Zenon, <4>1, <1>4 DEF ForkAt
      <4>2. CASE t # b
        <5>1. t \in Segments \ {Genesis} /\ parent'[t] = parent[t] BY Zenon, <4>2, <1>4
        <5> QED BY Zenon, <5>1 DEF IInv, TreeShape
      <4> QED BY Zenon, <4>1, <4>2
    <3>2. Prev[t] = Top(u)' BY <3>1, <1>9
    <3> QED BY SMTT(60), <3>1, <3>2, <1>4
  <2>6. parent'[Genesis] = NoSegment BY <1>2, <1>4 DEF IInv, TreeShape
  <2>7. \A t, u \in Segments' : u \in children'[t] <=> parent'[u] = t
    <3> TAKE t, u \in Segments'
    <3>1. \A x, y \in Segments : y \in children[x] <=> parent[y] = x
      BY DEF IInv, TreeShape
    <3>2. b # NoSegment BY <1>2
    <3>3. CASE u = b
      <4>1. b # s /\ parent'[b] = s BY Zenon, <1>3, <1>4
      <4>2. CASE t = b BY Zenon, <3>3, <4>1, <4>2, <1>4
      <4>3. CASE t = s BY Zenon, <3>3, <4>1, <4>3, <1>4
      <4>4. CASE t # b /\ t # s
        <5>1. t \in Segments \ {s} BY <4>4, <1>4
        <5>2. children'[t] \subseteq Segments BY Zenon, <5>1, <1>2, <1>4
        <5> QED BY Zenon, <3>3, <4>1, <4>4, <5>2, <1>3
      <4> QED BY SMTT(60), <4>2, <4>3, <4>4
    <3>4. CASE u # b /\ t = b
      <4>1. u \in Segments BY <3>4, <1>4
      <4>2. parent'[u] \in Segments \cup {NoSegment} BY <4>1, <1>2, <1>4
      <4>3. parent'[u] # t BY SMTT(60), <3>2, <3>4, <4>2, <1>3
      <4> QED BY SMTT(60), <3>4, <4>3, <1>4
    <3>5. CASE u # b /\ t # b
      <4>1. u \in Segments /\ t \in Segments BY SMTT(60), <3>5, <1>4
      <4>2. u \in children'[t] <=> u \in children[t] BY <3>5, <4>1, <1>4
      <4> QED BY SMTT(60), <3>1, <4>1, <4>2, <1>4
    <3> QED BY <3>3, <3>4, <3>5
  <2> QED BY Zenon, <2>1, <2>2, <2>3, <2>4, <2>5, <2>6, <2>7 DEF TreeShape
<1>12. Contiguous'
  <2>1. \A t \in Segments' : \E c \in BlocksOf(t)' :
           \A d \in BlocksOf(t)' : Index[d] <= Index[c]
    <3> TAKE t \in Segments'
    <3>1. CASE t = b BY SMTT(60), <3>1, <1>1, <1>10
    <3>2. CASE t # b BY <3>2, <1>4, <1>8 DEF IInv, Contiguous
    <3> QED BY <3>1, <3>2
  <2>2. \A c \in Known' : Index[segmentOf'[c]] <= Index[c]
    BY SMTT(60), <1>1, <1>4 DEF IInv, Contiguous
  <2>3. ASSUME NEW c \in Known', NEW i \in Index[segmentOf'[c]] .. Index[c]
        PROVE  \E d \in Known' : segmentOf'[d] = segmentOf'[c] /\ Index[d] = i
    <3>1. CASE c # b BY <3>1, <1>4 DEF IInv, Contiguous
    <3>2. CASE c = b
      <4>1. i = Index[b] BY <3>2, <1>1, <1>4
      <4> QED BY <4>1, <3>2
    <3> QED BY <3>1, <3>2
  <2> QED BY <2>1, <2>2, <2>3 DEF Contiguous
<1> QED BY Zenon, <1>4, <1>5, <1>6, <1>7, <1>9, <1>11, <1>12

\* The block above b's parent in the segment addBlock splits, which becomes
\* the first block of the upper segment.
LEMMA UpperExists ==
    ASSUME IInv, NEW b \in Block, Accepts(b),
           NEW s \in Segments, s = segmentOf[Prev[b]], Prev[b] # Top(s)
    PROVE  \E u \in Known : /\ segmentOf[u] = s /\ u \notin Segments
                            /\ Prev[u] = Prev[b] /\ Index[u] = Index[b]
<1>1. /\ Prev[b] \in Known /\ Index[b] = Index[Prev[b]] + 1
      /\ Index[b] \in Nat /\ Index[Prev[b]] \in Nat
  BY ValidIsNew
<1>2. /\ Known \subseteq Block /\ Segments \subseteq Known /\ Genesis \in Segments
      /\ \A c \in Known : Index[c] \in Nat
  BY Zenon, BlockAssumption DEF IInv, TypeOK
<1>3. /\ Top(s) \in Known /\ segmentOf[Top(s)] = s
      /\ Index[Prev[b]] <= Index[Top(s)]
  BY <1>1, TopOfSegment DEF BlocksOf
<1>4. Index[Prev[b]] # Index[Top(s)] BY <1>1, <1>3 DEF IInv, TreeShape
<1>5. Index[s] <= Index[Prev[b]] BY <1>1 DEF IInv, Contiguous
<1>6. Index[b] \in Index[s] .. Index[Top(s)] BY <1>1, <1>2, <1>3, <1>4, <1>5
<1>7. PICK u \in Known : segmentOf[u] = s /\ Index[u] = Index[b]
  BY <1>3, <1>6 DEF IInv, Contiguous
<1>8. u # s BY <1>1, <1>2, <1>5, <1>7
<1>9. u \notin Segments BY <1>7, <1>8 DEF IInv, TreeShape
<1>10. u # Genesis BY <1>2, <1>9
<1>11. Prev[u] \in Known /\ segmentOf[Prev[u]] = s
  BY <1>7, <1>9, <1>10 DEF IInv, TreeShape
<1>12. Index[Prev[u]] = Index[Prev[b]]
  <2>1. Index[u] = Index[Prev[u]] + 1 BY <1>2, <1>10, BlockAssumption
  <2> QED BY <2>1, <1>1, <1>2, <1>7, <1>11
<1>13. Prev[u] = Prev[b] BY SMTT(60), <1>1, <1>11, <1>12 DEF IInv, TreeShape
<1> QED BY <1>7, <1>9, <1>13

\* The shape of the step that splits segment s above b's parent: the blocks
\* moved go to a new segment named by the lowest of them, u, which adopts the
\* children of s, and b starts a segment of its own.
SplitAt(b, s, u, moved) ==
    /\ s \in Segments /\ s = segmentOf[Prev[b]] /\ Prev[b] # Top(s)
    /\ u \in Known /\ segmentOf[u] = s /\ u \notin Segments
    /\ Prev[u] = Prev[b] /\ Index[u] = Index[b]
    /\ moved \in SUBSET Known
    /\ \A c \in Known : c \in moved <=> segmentOf[c] = s /\ Index[c] > Index[Prev[b]]
    /\ segmentOf' = Put(PutAll(segmentOf, moved, u), b, b)
    /\ parent' = Put(Put(PutAll(parent, children[s], u), u, s), b, s)
    /\ children' = Put(Put(Put(children, s, {u, b}), u, children[s]), b, {})

\* What such a split leaves behind: s ends in b's parent, u's segment ends where
\* s ended, the tops of the other segments stay, and the tree keeps its shape.
SplitKept(b, s, u) ==
    /\ Known' = Known \cup {b}
    /\ Segments' = Segments \cup {u, b}
    /\ segmentOf' \in [Known' -> Segments']
    /\ parent' \in [Segments' -> Segments' \cup {NoSegment}]
    /\ children' \in [Segments' -> SUBSET Segments']
    /\ children'[b] = {}
    /\ children'[u] = children[s]
    /\ \A t \in Segments \ {s} : children'[t] = children[t]
    /\ \A t \in Segments \ {s} : Top(t)' = Top(t)
    /\ Top(u)' = Top(s)
    /\ TreeShape'
    /\ Contiguous'

\* Splitting segment s above b's parent at block u and putting b in a new leaf
\* has that result.
LEMMA SplitKeepsTree ==
    ASSUME IInv, NEW b \in Block, Accepts(b),
           NEW s, NEW u, NEW moved, SplitAt(b, s, u, moved)
    PROVE  SplitKept(b, s, u)
<1>0. /\ s \in Segments /\ s = segmentOf[Prev[b]]
      /\ u \in Known /\ segmentOf[u] = s /\ u \notin Segments
      /\ Prev[u] = Prev[b] /\ Index[u] = Index[b]
  BY Zenon DEF SplitAt
<1>1. /\ b \notin Known /\ b # Genesis /\ Prev[b] \in Known
      /\ Index[b] = Index[Prev[b]] + 1 /\ Index[b] \in Nat /\ Index[Prev[b]] \in Nat
  BY Zenon, ValidIsNew
<1>2. /\ Known \subseteq Block
      /\ segmentOf \in [Known -> Segments]
      /\ parent \in [Segments -> Segments \cup {NoSegment}]
      /\ children \in [Segments -> SUBSET Segments]
      /\ Segments \subseteq Known
      /\ Genesis \in Segments
      /\ \A c \in Known : Index[c] \in Nat
      /\ NoSegment \notin Block
  BY ZenonT(60), BlockAssumption DEF IInv, TypeOK
<1>3. b \notin Segments /\ b # u /\ b # s /\ u # s BY Zenon, <1>0, <1>1, <1>2
<1>4. \A c \in moved : c \in Known /\ segmentOf[c] = s /\ Index[c] > Index[Prev[b]]
  BY Zenon DEF SplitAt
<1>4a. \A c \in Known : segmentOf[c] = s /\ Index[c] > Index[Prev[b]] => c \in moved
  BY Zenon DEF SplitAt
<1>5. \A c \in Known : segmentOf[c] = s /\ c \notin moved => Index[c] <= Index[Prev[b]]
  BY <1>1, <1>2, <1>4a
<1>6. u \in moved /\ Prev[b] \notin moved
  <2>1. Index[u] > Index[Prev[b]] /\ ~(Index[Prev[b]] > Index[Prev[b]]) BY <1>0, <1>1
  <2> QED BY Zenon, <2>1, <1>0, <1>4, <1>4a
<1>7. \A t \in Segments : t \notin moved
  <2>1. Index[s] <= Index[Prev[b]] /\ Index[s] \in Nat
    BY Zenon, <1>0, <1>1, <1>2 DEF IInv, Contiguous
  <2>2. s \notin moved BY <2>1, <1>1, <1>4
  <2>3. \A t \in Segments : segmentOf[t] = t BY Zenon DEF IInv, TreeShape
  <2> QED BY Zenon, <2>2, <2>3, <1>4
<1>8. /\ Known' = Known \cup {b}
      /\ segmentOf'[b] = b
      /\ \A c \in moved : segmentOf'[c] = u
      /\ \A c \in Known \ moved : segmentOf'[c] = segmentOf[c]
  <2>1. PICK f : f = PutAll(segmentOf, moved, u) /\ segmentOf' = Put(f, b, b)
    BY Zenon DEF SplitAt
  <2>2. DOMAIN f = Known \cup moved BY Zenon, <2>1 DEF PutAll, Known
  <2>3. moved \subseteq Known /\ b \notin moved BY Zenon, <1>1, <1>4
  <2>4. DOMAIN f = Known BY <2>2, <2>3
  <2>5. /\ Known' = DOMAIN f \cup {b} /\ segmentOf'[b] = b
        /\ \A c \in DOMAIN f : c # b => segmentOf'[c] = f[c]
    BY Zenon, <2>1 DEF Put, Known
  <2>6. /\ \A c \in moved : f[c] = u
        /\ \A c \in Known \ moved : f[c] = segmentOf[c]
    BY Zenon, <2>1 DEF PutAll, Known
  <2> QED BY Zenon, <2>3, <2>4, <2>5, <2>6, <1>1
<1>9. /\ Segments' = Segments \cup {u, b}
      /\ parent'[b] = s /\ parent'[u] = s
      /\ \A t \in children[s] : parent'[t] = u
      /\ \A t \in Segments \ children[s] : parent'[t] = parent[t]
  <2>1. PICK f, g : /\ f = PutAll(parent, children[s], u)
                    /\ g = Put(f, u, s) /\ parent' = Put(g, b, s)
    BY Zenon DEF SplitAt
  <2>2. children[s] \subseteq Segments BY Zenon, <1>0, <1>2
  <2>3. DOMAIN f = Segments \cup children[s] BY Zenon, <2>1 DEF PutAll, Segments
  <2>4. DOMAIN f = Segments BY <2>2, <2>3
  <2>5. /\ \A t \in children[s] : f[t] = u
        /\ \A t \in Segments \ children[s] : f[t] = parent[t]
    BY Zenon, <2>1 DEF PutAll, Segments
  <2>6. /\ DOMAIN g = DOMAIN f \cup {u} /\ g[u] = s
        /\ \A t \in DOMAIN f : t # u => g[t] = f[t]
    BY Zenon, <2>1 DEF Put
  <2>7. /\ Segments' = DOMAIN g \cup {b} /\ parent'[b] = s
        /\ \A t \in DOMAIN g : t # b => parent'[t] = g[t]
    BY Zenon, <2>1 DEF Put, Segments
  <2>8. Segments' = Segments \cup {u, b} BY <2>4, <2>6, <2>7
  <2>9. parent'[u] = s /\ \A t \in Segments : parent'[t] = f[t]
    BY Zenon, <2>4, <2>6, <2>7, <1>0, <1>3
  <2> QED BY Zenon, <2>2, <2>5, <2>7, <2>8, <2>9
<1>10. /\ children'[b] = {} /\ children'[u] = children[s] /\ children'[s] = {u, b}
       /\ \A t \in Segments \ {s} : children'[t] = children[t]
       /\ DOMAIN children' = Segments'
  <2>1. PICK f, g : /\ f = Put(children, s, {u, b})
                    /\ g = Put(f, u, children[s]) /\ children' = Put(g, b, {})
    BY Zenon DEF SplitAt
  <2>2. DOMAIN children = Segments BY Zenon, <1>2
  <2>3. /\ DOMAIN f = DOMAIN children \cup {s} /\ f[s] = {u, b}
        /\ \A t \in DOMAIN children : t # s => f[t] = children[t]
    BY Zenon, <2>1 DEF Put
  <2>4. DOMAIN f = Segments BY <2>2, <2>3, <1>0
  <2>5. /\ DOMAIN g = DOMAIN f \cup {u} /\ g[u] = children[s]
        /\ \A t \in DOMAIN f : t # u => g[t] = f[t]
    BY Zenon, <2>1 DEF Put
  <2>6. /\ DOMAIN children' = DOMAIN g \cup {b} /\ children'[b] = {}
        /\ \A t \in DOMAIN g : t # b => children'[t] = g[t]
    BY Zenon, <2>1 DEF Put
  <2>7. DOMAIN children' = Segments' BY <2>4, <2>5, <2>6, <1>9
  <2>8. children'[u] = children[s] /\ \A t \in Segments : children'[t] = f[t]
    BY Zenon, <2>4, <2>5, <2>6, <1>0, <1>3
  <2> QED BY Zenon, <2>2, <2>3, <2>6, <2>7, <2>8, <1>0
<1>11. segmentOf' \in [Known' -> Segments']
  <2>1. \A c \in Known' : segmentOf'[c] \in Segments'
    <3>1. \A c \in Known \ moved : segmentOf'[c] \in Segments BY Zenon, <1>2, <1>8
    <3>2. u \in Segments' /\ b \in Segments' /\ Segments \subseteq Segments' BY <1>9
    <3> QED BY Zenon, <3>1, <3>2, <1>8
  <2>2. PICK f : segmentOf' = Put(f, b, b) BY Zenon DEF SplitAt
  <2> QED BY Zenon, <2>1, <2>2, TypeOfPut DEF Known
<1>12. parent' \in [Segments' -> Segments' \cup {NoSegment}]
  <2>1. \A t \in Segments' : parent'[t] \in Segments' \cup {NoSegment}
    <3>1. \A t \in Segments \ children[s] : parent'[t] \in Segments \cup {NoSegment}
      BY Zenon, <1>2, <1>9
    <3>2. u \in Segments' /\ s \in Segments' /\ Segments \subseteq Segments' BY <1>0, <1>9
    <3>3. \A t \in Segments' : t \in Segments \/ t = u \/ t = b BY <1>9
    <3> QED BY Zenon, <3>1, <3>2, <3>3, <1>9
  <2>2. PICK f : parent' = Put(f, b, s) BY Zenon DEF SplitAt
  <2> QED BY Zenon, <2>1, <2>2, TypeOfPut DEF Segments
<1>13. children' \in [Segments' -> SUBSET Segments']
  <2>1. \A t \in Segments' : children'[t] \in SUBSET Segments'
    <3>1. \A t \in Segments : children[t] \subseteq Segments BY Zenon, <1>2
    <3>2. {u, b} \subseteq Segments' /\ Segments \subseteq Segments' BY <1>9
    <3>3. \A t \in Segments' : t \in Segments \/ t = u \/ t = b BY <1>9
    <3>4. \A t \in Segments : children'[t] \subseteq Segments' BY Zenon, <3>1, <3>2, <1>10
    <3>5. children'[u] \subseteq Segments' /\ children'[b] \subseteq Segments'
      BY Zenon, <3>1, <3>2, <1>0, <1>10
    <3> QED BY Zenon, <3>3, <3>4, <3>5
  <2>2. PICK f : children' = Put(f, b, {}) BY Zenon DEF SplitAt
  <2> QED BY ZenonT(60), <2>1, <2>2, <1>10, TypeOfPut
<1>14. \A t \in Segments \ {s} : BlocksOf(t)' = BlocksOf(t)
  <2> SUFFICES ASSUME NEW t \in Segments \ {s}, NEW c \in Known'
               PROVE  segmentOf'[c] = t <=> c \in Known /\ segmentOf[c] = t
    BY <1>8 DEF BlocksOf
  <2>1. CASE c = b BY <2>1, <1>1, <1>3, <1>8
  <2>2. CASE c \in moved BY <2>2, <1>4, <1>8, <1>0
  <2>3. CASE c \in Known \ moved BY <2>3, <1>8
  <2> QED BY <2>1, <2>2, <2>3, <1>8
<1>15. \A t \in Segments \ {s} : Top(t)' = Top(t) BY <1>14 DEF Top
<1>16. BlocksOf(u)' = moved
  <2>1. \A c \in Known \ moved : segmentOf'[c] # u BY SMTT(60), <1>2, <1>8, <1>0
  <2> QED BY <2>1, <1>3, <1>4, <1>8 DEF BlocksOf
<1>17. BlocksOf(s)' = BlocksOf(s) \ moved BY <1>1, <1>2, <1>3, <1>4, <1>8 DEF BlocksOf
<1>18. BlocksOf(b)' = {b}
  <2>1. \A c \in Known : segmentOf'[c] # b BY <1>2, <1>3, <1>8
  <2> QED BY <2>1, <1>8 DEF BlocksOf
<1>19. \A c, d \in Known : segmentOf[c] = segmentOf[d] /\ Index[c] = Index[d] => c = d
  BY SMTT(60), <1>2 DEF IInv, TreeShape
<1>20. /\ Top(s) \in moved
       /\ \A c \in BlocksOf(s) : Index[c] <= Index[Top(s)]
  <2>1. /\ Top(s) \in BlocksOf(s)
        /\ \A c \in BlocksOf(s) : Index[c] <= Index[Top(s)]
    BY SMTT(60), TopOfSegment, <1>0
  <2>2. Index[u] <= Index[Top(s)] BY <2>1, <1>0 DEF BlocksOf
  <2>3. Top(s) \in Known /\ segmentOf[Top(s)] = s /\ Index[Top(s)] \in Nat
    BY SMTT(60), <2>1, <1>2 DEF BlocksOf
  <2>4. Index[Top(s)] > Index[Prev[b]] BY <2>2, <2>3, <1>1, <1>0
  <2> QED BY <2>1, <2>3, <2>4, <1>0, <1>4a
<1>21. Top(u)' = Top(s)
  <2>1. moved \in SUBSET Block BY <1>2, <1>4
  <2>2. \A c \in moved : Index[c] <= Index[Top(s)] BY SMTT(60), <1>4, <1>20 DEF BlocksOf
  <2>3. \A c, d \in moved : Index[c] = Index[d] => c = d BY <1>4, <1>19
  <2>4. Highest(moved) = Top(s) BY SMTT(60), <2>1, <2>2, <2>3, <1>20, HighestIs
  <2> QED BY SMTT(60), <2>4, <1>16 DEF Top
<1>22. Top(s)' = Prev[b]
  <2>1. BlocksOf(s) \ moved \in SUBSET Block BY SMTT(60), <1>2 DEF BlocksOf
  <2>2. \A c \in BlocksOf(s) \ moved : Index[c] <= Index[Prev[b]] BY <1>5 DEF BlocksOf
  <2>3. \A c, d \in BlocksOf(s) \ moved : Index[c] = Index[d] => c = d
    BY SMTT(60), <1>19 DEF BlocksOf
  <2>4. Prev[b] \in BlocksOf(s) \ moved BY <1>1, <1>6, <1>0 DEF BlocksOf
  <2>5. Highest(BlocksOf(s) \ moved) = Prev[b] BY SMTT(60), <2>1, <2>2, <2>3, <2>4, HighestIs
  <2> QED BY <2>5, <1>17 DEF Top
<1>23. TreeShape'
  <2>1. \A c \in Known' \ {Genesis} : Prev[c] \in Known' BY ZenonT(60), <1>1, <1>8 DEF IInv, TreeShape
  <2>2. \A t \in Segments' : segmentOf'[t] = t
    <3>1. \A t \in Segments : segmentOf[t] = t BY Zenon DEF IInv, TreeShape
    <3>2. \A t \in Segments : t \in Known \ moved BY Zenon, <1>2, <1>7
    <3>3. segmentOf'[u] = u BY Zenon, <1>6, <1>8
    <3> QED BY Zenon, <3>1, <3>2, <3>3, <1>8, <1>9
  <2>3. \A c \in Known' \ Segments' : segmentOf'[Prev[c]] = segmentOf'[c]
    <3> TAKE c \in Known' \ Segments'
    <3>1. c \in Known \ Segments /\ c # Genesis /\ c # u BY <1>2, <1>8, <1>9
    <3>2. Prev[c] \in Known /\ segmentOf[Prev[c]] = segmentOf[c]
      BY ZenonT(60), <3>1 DEF IInv, TreeShape
    <3>3. /\ Index[c] = Index[Prev[c]] + 1
          /\ Index[c] \in Nat /\ Index[Prev[c]] \in Nat
      BY <3>1, <3>2, <1>2, BlockAssumption
    <3>4. CASE c \in moved
      <4>1. Index[c] # Index[u] BY <3>1, <3>4, <1>4, <1>19, <1>0
      <4>2. Index[Prev[c]] > Index[Prev[b]] BY SMTT(60), <3>3, <3>4, <4>1, <1>1, <1>4, <1>0
      <4>3. Prev[c] \in moved BY <3>2, <3>4, <4>2, <1>4, <1>0, <1>4a DEF BlocksOf
      <4> QED BY SMTT(60), <3>4, <4>3, <1>8
    <3>5. CASE c \notin moved
      <4>1. Prev[c] \notin moved BY SMTT(60), <3>1, <3>2, <3>3, <3>5, <1>1, <1>4, <1>5
      <4> QED BY SMTT(60), <3>1, <3>2, <3>5, <4>1, <1>8
    <3> QED BY <3>4, <3>5
  <2>4. ASSUME NEW c \in Known', NEW d \in Known',
               segmentOf'[c] = segmentOf'[d], Index[c] = Index[d]
        PROVE  c = d
    <3>1. \A x \in Known : segmentOf'[x] # b BY <1>2, <1>3, <1>8
    <3>2. \A x \in Known \ moved : segmentOf'[x] # u BY SMTT(60), <1>2, <1>8, <1>0
    <3>3. CASE c = b \/ d = b BY <3>1, <3>3, <2>4, <1>8
    <3>4. CASE c \in Known /\ d \in Known
      <4>1. c \in moved <=> d \in moved BY <3>2, <3>4, <2>4, <1>8
      <4>2. segmentOf[c] = segmentOf[d] BY SMTT(60), <3>4, <4>1, <2>4, <1>4, <1>8
      <4> QED BY SMTT(60), <3>4, <4>2, <2>4, <1>19
    <3> QED BY SMTT(60), <3>3, <3>4, <1>8
  <2>5. \A t \in Segments' \ {Genesis} :
           parent'[t] \in Segments' /\ Prev[t] = Top(parent[t])'
    <3> SUFFICES ASSUME NEW t \in Segments' \ {Genesis}
                 PROVE  \E v \in Segments' : v = parent'[t] /\ Prev[t] = Top(v)'
      BY SMTT(60)
    <3>1. CASE t = b \/ t = u BY SMTT(60), <3>1, <1>9, <1>22, <1>0
    <3>2. CASE t \in children[s]
      <4>1. t \in Segments /\ parent[t] = s BY SMTT(60), <3>2, <1>2, <1>0 DEF IInv, TreeShape
      <4>2. Prev[t] = Top(s) BY SMTT(60), <4>1 DEF IInv, TreeShape
      <4> QED BY SMTT(60), <3>2, <4>2, <1>9, <1>21
    <3>3. CASE t \in Segments \ children[s]
      <4>1. PICK v \in Segments : v = parent[t] /\ Prev[t] = Top(v)
        BY SMTT(60), <3>3 DEF IInv, TreeShape
      <4>2. v # s BY SMTT(60), <3>3, <4>1 DEF IInv, TreeShape
      <4> QED BY ZenonT(60), <3>3, <4>1, <4>2, <1>9, <1>15
    <3> QED BY SMTT(60), <3>1, <3>2, <3>3, <1>9
  <2>6. parent'[Genesis] = NoSegment
    <3>1. parent[Genesis] = NoSegment /\ s # NoSegment BY SMTT(60), <1>2, <1>0 DEF IInv, TreeShape
    <3>2. Genesis \notin children[s] BY SMTT(60), <3>1, <1>2, <1>0 DEF IInv, TreeShape
    <3> QED BY SMTT(60), <3>1, <3>2, <1>2, <1>9
  <2>7. ASSUME NEW t \in Segments', NEW v \in Segments'
        PROVE  v \in children'[t] <=> parent'[v] = t
    <3>1. \A x, y \in Segments : y \in children[x] <=> parent[y] = x
      BY DEF IInv, TreeShape
    <3>2. b # NoSegment /\ u # NoSegment /\ u \notin Segments BY SMTT(60), <1>2, <1>0
    <3>3. CASE t = b
      <4>1. parent'[v] # b BY SMTT(60), <3>2, <1>2, <1>3, <1>9
      <4> QED BY SMTT(60), <3>3, <4>1, <1>10
    <3>4. CASE t = u
      <4>1. parent'[v] = u <=> v \in children[s] BY SMTT(60), <3>2, <1>2, <1>3, <1>9
      <4> QED BY SMTT(60), <3>4, <4>1, <1>10
    <3>5. CASE t = s
      <4>1. \A x \in Segments : parent'[x] # s BY SMTT(60), <3>1, <1>3, <1>9, <1>0
      <4>2. parent'[v] = s <=> v \in {u, b} BY SMTT(60), <4>1, <1>9
      <4> QED BY SMTT(60), <3>5, <4>2, <1>10
    <3>6. CASE t \in Segments \ {s}
      <4>1. children'[t] = children[t] BY ZenonT(60), <3>6, <1>10
      <4>2. CASE v \in {u, b} BY <3>2, <3>6, <4>1, <4>2, <1>2, <1>3, <1>9
      <4>3. CASE v \in children[s]
        <5>1. parent'[v] = u BY SMTT(60), <4>3, <1>9
        <5>2. parent[v] = s /\ v \in Segments BY SMTT(60), <3>1, <4>3, <1>2, <1>0
        <5> QED BY SMTT(60), <3>1, <3>2, <3>6, <4>1, <5>1, <5>2
      <4>4. CASE v \in Segments \ children[s] BY SMTT(60), <3>1, <3>6, <4>1, <4>4, <1>9
      <4> QED BY SMTT(60), <4>2, <4>3, <4>4, <1>9
    <3> QED BY SMTT(60), <3>3, <3>4, <3>5, <3>6, <1>9
  <2>8. \A t \in Segments', c, d \in Known' :
           segmentOf'[c] = t /\ segmentOf'[d] = t /\ Index[c] = Index[d] => c = d
    BY SMTT(60), <2>4
  <2>9. \A t, v \in Segments' : v \in children'[t] <=> parent'[v] = t BY Zenon, <2>7
  <2> QED BY ZenonT(60), <2>1, <2>2, <2>3, <2>5, <2>6, <2>8, <2>9 DEF TreeShape
<1>24. Contiguous'
  <2>1. \A t \in Segments' : \E c \in BlocksOf(t)' :
           \A d \in BlocksOf(t)' : Index[d] <= Index[c]
    <3> TAKE t \in Segments'
    <3>1. CASE t = b BY SMTT(60), <3>1, <1>1, <1>18
    <3>2. CASE t = u
      <4>1. \A d \in moved : Index[d] <= Index[Top(s)] BY SMTT(60), <1>4, <1>20 DEF BlocksOf
      <4> QED BY SMTT(60), <3>2, <4>1, <1>16, <1>20
    <3>3. CASE t = s
      <4>1. Prev[b] \in BlocksOf(s) \ moved BY <1>1, <1>6, <1>0 DEF BlocksOf
      <4>2. \A d \in BlocksOf(s) \ moved : Index[d] <= Index[Prev[b]]
        BY SMTT(60), <1>5 DEF BlocksOf
      <4> QED BY SMTT(60), <3>3, <4>1, <4>2, <1>17
    <3>4. CASE t \in Segments \ {s} BY SMTT(60), <3>4, <1>14 DEF IInv, Contiguous
    <3> QED BY <3>1, <3>2, <3>3, <3>4, <1>9
  <2>2. \A c \in Known' : Index[segmentOf'[c]] <= Index[c]
    <3> TAKE c \in Known'
    <3>1. CASE c = b BY SMTT(60), <3>1, <1>1, <1>8
    <3>2. CASE c \in moved BY SMTT(60), <3>2, <1>1, <1>2, <1>4, <1>8, <1>0
    <3>3. CASE c \in Known \ moved
      <4>1. segmentOf'[c] = segmentOf[c] BY Zenon, <3>3, <1>8
      <4>2. Index[segmentOf[c]] <= Index[c] BY Zenon, <3>3 DEF IInv, Contiguous
      <4> QED BY Zenon, <4>1, <4>2
    <3> QED BY SMTT(60), <3>1, <3>2, <3>3, <1>8
  <2>3. ASSUME NEW c \in Known', NEW i \in Index[segmentOf'[c]] .. Index[c]
        PROVE  \E d \in Known' : segmentOf'[d] = segmentOf'[c] /\ Index[d] = i
    <3>1. CASE c = b
      <4>1. i = Index[b] BY SMTT(60), <3>1, <1>1, <1>8
      <4> QED BY SMTT(60), <4>1, <3>1
    <3>2. CASE c \in moved
      <4>1. i \in Index[u] .. Index[c] /\ i > Index[Prev[b]] /\ i \in Nat
        BY <3>2, <1>1, <1>2, <1>4, <1>8, <1>0
      <4>2. Index[s] <= Index[Prev[b]] /\ Index[s] \in Nat
        BY ZenonT(60), <1>1, <1>2, <1>0 DEF IInv, Contiguous
      <4>3. i \in Index[segmentOf[c]] .. Index[c]
        <5>1. segmentOf[c] = s /\ Index[Prev[b]] \in Nat BY Zenon, <3>2, <1>1, <1>4
        <5> QED BY <5>1, <4>1, <4>2
      <4>4. PICK d \in Known : segmentOf[d] = s /\ Index[d] = i
        BY SMTT(60), <3>2, <4>3, <1>4 DEF IInv, Contiguous
      <4>5. d \in moved BY SMTT(60), <4>1, <4>4, <1>0, <1>4a DEF BlocksOf
      <4> QED BY SMTT(60), <3>2, <4>4, <4>5, <1>8
    <3>3. CASE c \in Known \ moved
      <4>1. i \in Index[segmentOf[c]] .. Index[c] /\ segmentOf'[c] = segmentOf[c]
        BY SMTT(60), <3>3, <1>8
      <4>2. PICK d \in Known : segmentOf[d] = segmentOf[c] /\ Index[d] = i
        BY SMTT(60), <3>3, <4>1 DEF IInv, Contiguous
      <4>3. d \notin moved
        <5>1. CASE segmentOf[c] # s BY SMTT(60), <5>1, <4>2, <1>4
        <5>2. CASE segmentOf[c] = s
          <6>1. Index[c] <= Index[Prev[b]] BY SMTT(60), <5>2, <3>3, <1>5
          <6>2. Index[d] <= Index[c] /\ Index[d] \in Nat /\ Index[c] \in Nat
            BY <4>1, <4>2, <3>3, <1>2
          <6> QED BY SMTT(60), <6>1, <6>2, <1>1, <1>4
        <5> QED BY <5>1, <5>2
      <4> QED BY SMTT(60), <4>1, <4>2, <4>3, <1>8
    <3> QED BY <3>1, <3>2, <3>3, <1>8
  <2> QED BY SMTT(60), <2>1, <2>2, <2>3 DEF Contiguous
<1> QED BY Zenon, <1>8, <1>9, <1>10, <1>11, <1>12, <1>13, <1>15, <1>21, <1>23, <1>24 DEF SplitKept

-----------------------------------------------------------------------------
(* The branches of addBlock *)

\* The main leaf is a segment, and the tip one of its blocks.
LEMMA MainLeafIsSegment ==
    ASSUME IInv
    PROVE  /\ MainLeaf \in Segments
           /\ 1 \in DOMAIN chainsLeaves
           /\ children[MainLeaf] = {}
           /\ Tip \in Known
           /\ segmentOf[Tip] = MainLeaf
<1>1. chainsLeaves \in Seq(Segments) /\ chainsLeaves # <<>> BY DEF IInv, TypeOK
<1>2. 1 \in DOMAIN chainsLeaves /\ MainLeaf \in Segments BY <1>1 DEF MainLeaf
<1>3. children[MainLeaf] = {} BY <1>2 DEF IInv, LeavesChildless, MainLeaf
<1> QED BY <1>2, <1>3, TopOfSegment DEF Tip, BlocksOf

\* Cumulative difficulties are comparable, and siblings are equally heavy.
LEMMA SiblingsWeighTheSame ==
    /\ \A b \in Block : Cumulative[b] \in Nat
    /\ \A b, c \in Block \ {Genesis} : Prev[b] = Prev[c] => Cumulative[b] = Cumulative[c]
BY BlockAssumption

\* What comparing two weights decides.
LEMMA Weights ==
    /\ \A m, n \in Nat : m <= n => ~(m > n)
    /\ \A k, m, n \in Nat : k <= m /\ n > m => k <= n
    /\ \A m \in Nat : m <= m
OBVIOUS

\* The blocks that switchMainChainStorage pushes are blocks.
LEMMA SegmentBlocksType ==
    ASSUME IInv, NEW s \in Segments
    PROVE  SegmentBlocks(s) \in Seq(Block)
<1>1. Top(s) \in Known /\ segmentOf[Top(s)] = s BY TopOfSegment DEF BlocksOf
<1>2. Index[s] \in Nat /\ Index[Top(s)] \in Nat /\ Known \subseteq Block
  BY <1>1, BlockAssumption DEF IInv, TypeOK
<1>3. Index[s] <= Index[Top(s)] BY <1>1 DEF IInv, Contiguous
<1> DEFINE n == Index[Top(s)] - Index[s] + 1
<1>4. n \in Nat BY <1>2, <1>3
<1>5. ASSUME NEW i \in 1 .. n
      PROVE  (CHOOSE b \in BlocksOf(s) : Index[b] = Index[s] + i - 1) \in Block
  <2>1. Index[s] + i - 1 \in Index[s] .. Index[Top(s)] BY <1>2, <1>3
  <2>2. PICK c \in Known : segmentOf[c] = s /\ Index[c] = Index[s] + i - 1
    BY <2>1, <1>1 DEF IInv, Contiguous
  <2>3. c \in BlocksOf(s) BY <2>2 DEF BlocksOf
  <2>4. BlocksOf(s) \subseteq Block BY <1>2 DEF BlocksOf
  <2> QED BY <2>2, <2>3, <2>4
<1>6. SegmentBlocks(s) = [i \in 1 .. n |-> CHOOSE b \in BlocksOf(s) : Index[b] = Index[s] + i - 1]
  BY DEF SegmentBlocks
<1> HIDE DEF n
<1> QED BY <1>4, <1>5, <1>6

\* A block on top of the main chain's leaf keeps the invariant and becomes
\* the tip, because its difficulty is positive.
LEMMA PushToMainStep ==
    ASSUME IInv, NEW b \in Block, PushToMain(b)
    PROVE  IInv' /\ FC!Add(b)
<1> PICK s \in Segments : s = segmentOf[Prev[b]]
  BY ValidIsNew DEF PushToMain
<1>1. /\ Accepts(b) /\ Prev[b] = Top(s) /\ children[s] = {} /\ s = MainLeaf
      /\ segmentOf' = Put(segmentOf, b, s) /\ parent' = parent /\ children' = children
      /\ chainsLeaves' = chainsLeaves /\ mainChainSet' = mainChainSet /\ status' = status
      /\ mainChainStorage' = Append(mainChainStorage, b)
  BY SMTT(60) DEF PushToMain, OnTop, Childless
<1>2. /\ b \notin Known /\ b # Genesis /\ Prev[b] \in Known
      /\ Cumulative[b] > Cumulative[Prev[b]]
  BY ZenonT(60), <1>1, ValidIsNew
<1>3. /\ Known' = Known \cup {b} /\ Segments' = Segments
      /\ segmentOf' \in [Known' -> Segments'] /\ Top(s)' = b
      /\ TreeShape' /\ Contiguous'
  BY ZenonT(60), <1>1, PushKeepsTree
<1>4. Tip = Prev[b] /\ Tip' = b
  <2>1. MainLeaf' = s BY <1>1 DEF MainLeaf
  <2> QED BY <2>1, <1>1, <1>3 DEF Tip
<1>5. TypeOK' BY <1>1, <1>3 DEF IInv, TypeOK, Known, Segments
<1>6. LeavesChildless' BY <1>1 DEF IInv, LeavesChildless
<1>7. HeaviestChain'
  <2>1. \A c \in Known : Cumulative[c] \in Nat /\ Cumulative[c] <= Cumulative[Tip]
    BY SMTT(60), SiblingsWeighTheSame DEF IInv, TypeOK, HeaviestChain
  <2>2. Cumulative[b] \in Nat BY SMTT(60), SiblingsWeighTheSame
  <2> QED BY SMTT(60), <2>1, <2>2, <1>2, <1>3, <1>4 DEF HeaviestChain
<1>8. FC!Add(b) BY <1>2, <1>3, <1>4 DEF FC!Add
<1>9. LeavesListed' /\ MainLine'
  BY ZenonT(60), <1>1, <1>3 DEF IInv, LeavesListed, MainLine, MainLeaf
<1> QED BY SMTT(60), <1>3, <1>5, <1>6, <1>7, <1>8, <1>9 DEF IInv

\* A block on top of another leaf that stays lighter keeps the invariant and
\* leaves the tip alone.
LEMMA PushToAlternativeStep ==
    ASSUME IInv, NEW b \in Block, PushToAlternative(b)
    PROVE  IInv' /\ FC!Add(b)
<1> PICK s \in Segments : s = segmentOf[Prev[b]]
  BY ValidIsNew DEF PushToAlternative
<1>1. /\ Accepts(b) /\ Prev[b] = Top(s) /\ children[s] = {} /\ s # MainLeaf
      /\ segmentOf' = Put(segmentOf, b, s) /\ parent' = parent /\ children' = children
      /\ chainsLeaves' = chainsLeaves /\ mainChainSet' = mainChainSet /\ status' = status
      /\ mainChainStorage' = mainChainStorage
      /\ ~Heavier(b)
  BY SMTT(60) DEF PushToAlternative, OnTop, Childless
<1>2. b \notin Known /\ b # Genesis /\ Prev[b] \in Known BY Zenon, <1>1, ValidIsNew
<1>3. /\ Known' = Known \cup {b} /\ Segments' = Segments
      /\ segmentOf' \in [Known' -> Segments']
      /\ \A t \in Segments \ {s} : Top(t)' = Top(t)
      /\ TreeShape' /\ Contiguous'
  BY ZenonT(60), <1>1, PushKeepsTree
<1>4. Tip' = Tip
  <2>1. PICK m \in Segments \ {s} : m = MainLeaf BY <1>1, MainLeafIsSegment
  <2>2. MainLeaf' = m BY <1>1, <2>1 DEF MainLeaf
  <2> QED BY <2>1, <2>2, <1>3 DEF Tip
<1>5. TypeOK' BY SMTT(60), <1>1, <1>3 DEF IInv, TypeOK, Known, Segments
<1>6. LeavesChildless' BY ZenonT(60), <1>1 DEF IInv, LeavesChildless
<1>7. Cumulative[b] \in Nat /\ Cumulative[Tip] \in Nat /\ Cumulative[b] <= Cumulative[Tip]
  <2>1. Cumulative[b] \in Nat /\ Cumulative[Tip] \in Nat
    BY SiblingsWeighTheSame, MainLeafIsSegment DEF IInv, TypeOK
  <2> QED BY <2>1, <1>1 DEF Heavier
<1>8. HeaviestChain' BY ZenonT(60), <1>3, <1>4, <1>7 DEF IInv, HeaviestChain
<1>9. FC!Add(b)
  <2>1. ~(Cumulative[b] > Cumulative[Tip]) BY <1>7
  <2> QED BY SMTT(60), <2>1, <1>1, <1>2, <1>3, <1>4 DEF FC!Add
<1>10. LeavesListed' /\ MainLine'
  BY ZenonT(60), <1>1, <1>3 DEF IInv, LeavesListed, MainLine, MainLeaf
<1> QED BY SMTT(60), <1>3, <1>5, <1>6, <1>8, <1>9, <1>10 DEF IInv

\* A function that maps every position of a sequence to a member of S is a
\* sequence over S.
LEMMA LeavesRemapped ==
    ASSUME NEW S, NEW T, NEW q \in Seq(T), NEW r, DOMAIN r = DOMAIN q,
           r = [i \in DOMAIN q |-> r[i]], \A i \in DOMAIN q : r[i] \in S
    PROVE  r \in Seq(S) /\ DOMAIN r = DOMAIN q
<1>1. PICK n \in Nat : DOMAIN q = 1 .. n OBVIOUS
<1>2. r \in [1 .. n -> S] BY <1>1
<1> QED BY <1>1, <1>2

\* What Append does to the positions of a sequence.
LEMMA AppendPositions ==
    ASSUME NEW S, NEW q \in Seq(S), NEW x
    PROVE  /\ DOMAIN Append(q, x) = DOMAIN q \cup {Len(q) + 1}
           /\ Append(q, x)[Len(q) + 1] = x
           /\ \A i \in DOMAIN q : Append(q, x)[i] = q[i] /\ q[i] \in S
<1>1. Len(q) \in Nat /\ DOMAIN q = 1 .. Len(q) OBVIOUS
<1>2. DOMAIN Append(q, x) = 1 .. Len(q) + 1 BY SMTT(60)
<1> QED BY <1>1, <1>2

\* The elements of a sequence over S, and of one longer by a member of S.
LEMMA SequenceOver ==
    ASSUME NEW S, NEW q \in Seq(S)
    PROVE  /\ \A i \in DOMAIN q : q[i] \in S
           /\ \A x \in S : Append(q, x) \in Seq(S) /\ Append(q, x) # <<>>
OBVIOUS

\* A block that makes another leaf the heaviest keeps the invariant and
\* becomes the tip.
LEMMA SwitchStep ==
    ASSUME IInv, NEW b \in Block, SwitchToAlternative(b)
    PROVE  IInv' /\ FC!Add(b)
<1> PICK s \in Segments : s = segmentOf[Prev[b]]
  BY SMTT(60), ValidIsNew DEF SwitchToAlternative
<1>1. /\ Accepts(b) /\ Prev[b] = Top(s) /\ children[s] = {} /\ s # MainLeaf
      /\ segmentOf' = Put(segmentOf, b, s) /\ parent' = parent /\ children' = children
      /\ chainsLeaves' = [i \in DOMAIN chainsLeaves |->
                            IF i = 1 THEN s
                            ELSE IF chainsLeaves[i] = s THEN MainLeaf
                            ELSE chainsLeaves[i]]
      /\ mainChainSet' = Lineage(parent', chainsLeaves'[1])
      /\ SwitchMainChainStorage(s, b)
      /\ Cumulative[b] > Cumulative[Tip]
  BY SMTT(60) DEF SwitchToAlternative, OnTop, Childless, Heavier, UpdateMainChainSet
<1>2. b \notin Known /\ b # Genesis /\ Prev[b] \in Known BY ZenonT(60), <1>1, ValidIsNew
<1>3. /\ Known' = Known \cup {b} /\ Segments' = Segments
      /\ segmentOf' \in [Known' -> Segments'] /\ Top(s)' = b
      /\ TreeShape' /\ Contiguous'
  BY ZenonT(60), <1>1, PushKeepsTree
<1>4. /\ chainsLeaves' \in Seq(Segments) /\ chainsLeaves' # <<>>
      /\ MainLeaf' = s
  <2>1. chainsLeaves \in Seq(Segments) BY DEF IInv, TypeOK
  <2>2. 1 \in DOMAIN chainsLeaves /\ MainLeaf \in Segments BY MainLeafIsSegment
  <2>3. \A i \in DOMAIN chainsLeaves : chainsLeaves'[i] \in Segments
    <3>1. \A i \in DOMAIN chainsLeaves : chainsLeaves[i] \in Segments BY <2>1
    <3>2. \A i \in DOMAIN chainsLeaves : chainsLeaves'[i] \in {s, MainLeaf, chainsLeaves[i]}
      BY Zenon, <1>1
    <3> QED BY <3>1, <3>2, <2>2
  <2>4. chainsLeaves' \in Seq(Segments) /\ DOMAIN chainsLeaves' = DOMAIN chainsLeaves
    BY <1>1, <2>1, <2>3, LeavesRemapped
  <2>5. chainsLeaves'[1] = s BY ZenonT(60), <1>1, <2>2
  <2> QED BY <2>2, <2>4, <2>5 DEF MainLeaf
<1>5. Tip' = b BY <1>3, <1>4 DEF Tip
<1>6. /\ status' \in Status
      /\ mainChainStorage' \in Seq(Block)
  <2>1. mainChainStorage \in Seq(Block) /\ status \in Status BY DEF IInv, TypeOK
  <2>2. CASE Len(mainChainStorage) < Index[s]
    BY <1>1, <2>1, <2>2 DEF SwitchMainChainStorage, Status
  <2>3. CASE ~(Len(mainChainStorage) < Index[s])
    <3>1. Index[s] \in Nat BY ZenonT(60), BlockAssumption DEF IInv, TypeOK
    <3>2. SubSeq(mainChainStorage, 1, Index[s]) \in Seq(Block) BY SMTT(60), <2>1, <2>3, <3>1
    <3>3. Append(SegmentBlocks(s), b) \in Seq(Block) BY SMTT(60), SegmentBlocksType
    <3>4. /\ mainChainStorage' = SubSeq(mainChainStorage, 1, Index[s])
                                    \o Append(SegmentBlocks(s), b)
          /\ status' = status
      BY ZenonT(60), <1>1, <2>3 DEF SwitchMainChainStorage
    <3>5. SubSeq(mainChainStorage, 1, Index[s]) \o Append(SegmentBlocks(s), b) \in Seq(Block)
      BY SMTT(60), <3>2, <3>3
    <3> QED BY Zenon, <2>1, <3>4, <3>5
  <2> QED BY <2>2, <2>3
<1>7. mainChainSet' \subseteq Segments BY SMTT(60), <1>1 DEF Lineage, Segments
<1>8. TypeOK' BY ZenonT(60), <1>1, <1>3, <1>4, <1>6, <1>7 DEF IInv, TypeOK, Known, Segments
<1>9. LeavesChildless'
  <2>1. \A i \in DOMAIN chainsLeaves : chainsLeaves'[i] \in {s, MainLeaf, chainsLeaves[i]}
    BY Zenon, <1>1
  <2>2. children[MainLeaf] = {} BY SMTT(60), MainLeafIsSegment
  <2>3. DOMAIN chainsLeaves' = DOMAIN chainsLeaves BY SMTT(60), <1>1
  <2> QED BY ZenonT(60), <1>1, <2>1, <2>2, <2>3 DEF IInv, LeavesChildless
<1>10. HeaviestChain'
  <2>1. \A c \in Known : Cumulative[c] \in Nat /\ Cumulative[c] <= Cumulative[Tip]
    BY SiblingsWeighTheSame DEF IInv, TypeOK, HeaviestChain
  <2>2. Cumulative[b] \in Nat /\ Cumulative[Tip] \in Nat
    BY SiblingsWeighTheSame, MainLeafIsSegment DEF IInv, TypeOK
  <2>3. \A c \in Known \cup {b} : Cumulative[c] <= Cumulative[b]
    BY Zenon, <2>1, <2>2, <1>1, Weights
  <2> QED BY Zenon, <2>3, <1>3, <1>5 DEF HeaviestChain
<1>11. FC!Add(b) BY ZenonT(60), <1>1, <1>2, <1>3, <1>5 DEF FC!Add
<1>12. LeavesListed'
  <2>0. 1 \in DOMAIN chainsLeaves /\ children[MainLeaf] = {} /\ MainLeaf = chainsLeaves[1]
    BY MainLeafIsSegment DEF MainLeaf
  <2>1. PICK k \in DOMAIN chainsLeaves : chainsLeaves[k] = s BY <1>1 DEF IInv, LeavesListed
  <2>2. \A i, j \in DOMAIN chainsLeaves : chainsLeaves[i] = chainsLeaves[j] => i = j
    BY DEF IInv, LeavesListed
  <2>3. /\ DOMAIN chainsLeaves' = DOMAIN chainsLeaves
        /\ chainsLeaves'[1] = chainsLeaves[k]
        /\ chainsLeaves'[k] = chainsLeaves[1]
        /\ k # 1
        /\ \A i \in DOMAIN chainsLeaves \ {1, k} : chainsLeaves'[i] = chainsLeaves[i]
    BY ZenonT(60), <1>1, <2>0, <2>1, <2>2
  <2>4. \A i, j \in DOMAIN chainsLeaves : chainsLeaves'[i] = chainsLeaves'[j] => i = j
    BY SMTT(60), <2>0, <2>1, <2>2, <2>3
  <2>5. \A t \in Segments :
           children[t] = {} => \E i \in DOMAIN chainsLeaves : chainsLeaves'[i] = t
    <3> SUFFICES ASSUME NEW t \in Segments, children[t] = {}
                 PROVE  \E i \in DOMAIN chainsLeaves : chainsLeaves'[i] = t
      OBVIOUS
    <3>1. PICK i \in DOMAIN chainsLeaves : chainsLeaves[i] = t BY DEF IInv, LeavesListed
    <3> QED BY ZenonT(60), <3>1, <2>0, <2>1, <2>3
  <2> QED BY <2>3, <2>4, <2>5, <1>1, <1>3 DEF LeavesListed
<1>13. MainLine' BY <1>1 DEF MainLine, MainLeaf
<1> QED BY <1>3, <1>8, <1>9, <1>10, <1>11, <1>12, <1>13 DEF IInv

\* A new leaf on top of a segment with children keeps the invariant: its
\* block weighs as much as the siblings it joins, so the tip stays.
LEMMA ForkAtTopStep ==
    ASSUME IInv, NEW b \in Block, ForkAtTop(b)
    PROVE  IInv' /\ FC!Add(b) /\ Tip' = Tip
<1> PICK s \in Segments : s = segmentOf[Prev[b]]
  BY SMTT(60), ValidIsNew DEF ForkAtTop
<1>1. /\ Accepts(b) /\ Prev[b] = Top(s) /\ children[s] # {}
      /\ segmentOf' = Put(segmentOf, b, b) /\ parent' = Put(parent, b, s)
      /\ children' = Put(Put(children, s, children[s] \cup {b}), b, {})
      /\ chainsLeaves' = Append(chainsLeaves, b)
      /\ mainChainSet' = Lineage(parent', chainsLeaves'[1])
      /\ status' = status /\ mainChainStorage' = mainChainStorage
  BY SMTT(60) DEF ForkAtTop, OnTop, Childless, UpdateMainChainSet
<1>2. b \notin Known /\ b # Genesis /\ Prev[b] \in Known BY Zenon, <1>1, ValidIsNew
<1>3. /\ Known' = Known \cup {b} /\ Segments' = Segments \cup {b}
      /\ segmentOf' \in [Known' -> Segments']
      /\ parent' \in [Segments' -> Segments' \cup {NoSegment}]
      /\ children' \in [Segments' -> SUBSET Segments']
      /\ children'[b] = {}
      /\ \A t \in Segments \ {s} : children'[t] = children[t]
      /\ \A t \in Segments : Top(t)' = Top(t)
      /\ TreeShape' /\ Contiguous'
  BY ZenonT(60), <1>1, ForkKeepsTree DEF ForkAt
<1>4. chainsLeaves \in Seq(Segments) /\ 1 \in DOMAIN chainsLeaves
  BY MainLeafIsSegment DEF IInv, TypeOK
<1>5. /\ chainsLeaves' \in Seq(Segments') /\ chainsLeaves' # <<>>
      /\ MainLeaf' = MainLeaf
  <2>1. chainsLeaves \in Seq(Segments') /\ b \in Segments'
    <3>1. Segments \subseteq Segments' /\ b \in Segments' BY Zenon, <1>3
    <3> QED BY <3>1, <1>4
  <2>2. Append(chainsLeaves, b) \in Seq(Segments') /\ Append(chainsLeaves, b) # <<>>
    BY Zenon, <2>1, SequenceOver
  <2>3. Append(chainsLeaves, b)[1] = chainsLeaves[1] BY <1>4
  <2> QED BY Zenon, <1>1, <2>2, <2>3 DEF MainLeaf
<1>6. Tip' = Tip
  <2>1. PICK m \in Segments : m = MainLeaf BY MainLeafIsSegment
  <2>2. MainLeaf' = m BY SMTT(60), <1>5, <2>1
  <2> QED BY SMTT(60), <2>1, <2>2, <1>3 DEF Tip
<1>7. mainChainSet' \subseteq Segments' BY ZenonT(60), <1>1 DEF Lineage, Segments
<1>8. Segments' \subseteq Known' /\ Known' \subseteq Block /\ Genesis \in Segments'
  BY SMTT(60), <1>3 DEF IInv, TypeOK
<1>9. TypeOK' BY ZenonT(60), <1>1, <1>3, <1>5, <1>7, <1>8 DEF IInv, TypeOK
<1>10. LeavesChildless'
  <2> SUFFICES ASSUME NEW i \in DOMAIN chainsLeaves'
               PROVE  children'[chainsLeaves'[i]] = {}
    BY SMTT(60) DEF LeavesChildless
  <2>0. /\ DOMAIN chainsLeaves' = DOMAIN chainsLeaves \cup {Len(chainsLeaves) + 1}
        /\ chainsLeaves'[Len(chainsLeaves) + 1] = b
        /\ \A j \in DOMAIN chainsLeaves : chainsLeaves'[j] = chainsLeaves[j]
    <3>1. chainsLeaves' = Append(chainsLeaves, b) BY Zenon, <1>1
    <3> QED BY <3>1, <1>4, AppendPositions
  <2>1. CASE i = Len(chainsLeaves) + 1 BY SMTT(60), <2>0, <2>1, <1>3
  <2>2. CASE i \in DOMAIN chainsLeaves
    <3>1. chainsLeaves'[i] = chainsLeaves[i] /\ chainsLeaves[i] \in Segments
      BY <2>0, <2>2, <1>4
    <3>2. children[chainsLeaves[i]] = {} BY <2>2 DEF IInv, LeavesChildless
    <3> QED BY ZenonT(60), <3>1, <3>2, <1>1, <1>3
  <2> QED BY <2>0, <2>1, <2>2
<1>11. Cumulative[b] <= Cumulative[Tip]
  <2>1. PICK t \in Segments : t \in children[s] BY <1>1 DEF IInv, TypeOK
  <2>2. parent[t] = s /\ t # Genesis
    BY SMTT(60), <2>1, BlockAssumption DEF IInv, TypeOK, TreeShape
  <2>3. Prev[t] = Prev[b] /\ t \in Known /\ t \in Block
    BY ZenonT(60), <1>1, <2>1, <2>2 DEF IInv, TypeOK, TreeShape
  <2>4. Cumulative[t] = Cumulative[b] BY ZenonT(60), <2>2, <2>3, <1>2, SiblingsWeighTheSame
  <2> QED BY SMTT(60), <2>3, <2>4 DEF IInv, HeaviestChain
<1>12. HeaviestChain' BY SMTT(60), <1>3, <1>6, <1>11 DEF IInv, HeaviestChain
<1>13. FC!Add(b)
  <2>1. Cumulative[b] \in Nat /\ Cumulative[Tip] \in Nat
    BY SiblingsWeighTheSame, MainLeafIsSegment DEF IInv, TypeOK
  <2>2. ~ (Cumulative[b] > Cumulative[Tip]) BY Zenon, <2>1, <1>11, Weights
  <2> QED BY ZenonT(60), <2>2, <1>2, <1>3, <1>6 DEF FC!Add
<1>14. LeavesListed'
  <2>0. /\ DOMAIN chainsLeaves' = DOMAIN chainsLeaves \cup {Len(chainsLeaves) + 1}
        /\ chainsLeaves'[Len(chainsLeaves) + 1] = b
        /\ \A j \in DOMAIN chainsLeaves :
              chainsLeaves'[j] = chainsLeaves[j] /\ chainsLeaves[j] \in Segments
    <3>1. chainsLeaves' = Append(chainsLeaves, b) BY Zenon, <1>1
    <3> QED BY <3>1, <1>4, AppendPositions
  <2>1. b \notin Segments BY <1>2 DEF IInv, TypeOK
  <2>2. \A i, j \in DOMAIN chainsLeaves : chainsLeaves[i] = chainsLeaves[j] => i = j
    BY DEF IInv, LeavesListed
  <2>3. \A i, j \in DOMAIN chainsLeaves' : chainsLeaves'[i] = chainsLeaves'[j] => i = j
    BY ZenonT(60), <2>0, <2>1, <2>2
  <2>4. ASSUME NEW t \in Segments', children'[t] = {}
        PROVE  \E i \in DOMAIN chainsLeaves' : chainsLeaves'[i] = t
    <3>1. CASE t = b BY <3>1, <2>0
    <3>2. CASE t # b
      <4>1. t \in Segments BY <3>2, <1>3
      <4>2. b \in children'[s] BY <1>3, <1>1, <1>2 DEF IInv, TypeOK, Put
      <4>3. children[t] = {} BY <4>1, <4>2, <2>4, <1>3
      <4>4. PICK i \in DOMAIN chainsLeaves : chainsLeaves[i] = t
        BY <4>1, <4>3 DEF IInv, LeavesListed
      <4> QED BY <4>4, <2>0
    <3> QED BY <3>1, <3>2
  <2> QED BY <2>3, <2>4 DEF LeavesListed
<1>15. MainLine' BY <1>1 DEF MainLine, MainLeaf
<1> QED BY SMTT(60), <1>3, <1>6, <1>9, <1>10, <1>12, <1>13, <1>14, <1>15 DEF IInv

\* Splitting a segment keeps the invariant: the new block weighs as much as
\* the first block of the upper part, so the tip stays.
LEMMA SplitStep ==
    ASSUME IInv, NEW b \in Block, SplitSegment(b)
    PROVE  IInv' /\ FC!Add(b) /\ Tip' = Tip
<1>0. Accepts(b) BY ZenonT(60) DEF SplitSegment
<1> PICK s \in Segments : s = segmentOf[Prev[b]] BY SMTT(60), <1>0, ValidIsNew
<1>1. Prev[b] # Top(s) BY ZenonT(60) DEF SplitSegment, OnTop
<1>2. /\ b \notin Known /\ b # Genesis /\ Prev[b] \in Known
      /\ Index[b] = Index[Prev[b]] + 1 /\ Index[Prev[b]] \in Nat
  BY SMTT(60), <1>0, ValidIsNew
<1> DEFINE S == segmentOf[Prev[b]]
           movedS == {c \in BlocksOf(S) : Index[c] > Index[Prev[b]]}
           adoptedS == IF S = Genesis THEN {} ELSE children[S]
<1>3. PICK u \in movedS :
        /\ adoptedS # {} \/ \E i \in DOMAIN chainsLeaves : chainsLeaves[i] = S
        /\ Index[u] = Index[b]
        /\ segmentOf' = Put(PutAll(segmentOf, movedS, u), b, b)
        /\ parent' = Put(Put(PutAll(parent, adoptedS, u), u, S), b, S)
        /\ children' = Put(Put(Put(children, S, (children[S] \ adoptedS) \cup {u, b}),
                               u, adoptedS), b, {})
        /\ chainsLeaves' = Append([i \in DOMAIN chainsLeaves |->
                                     IF chainsLeaves[i] = S /\ adoptedS = {} THEN u
                                     ELSE chainsLeaves[i]], b)
        /\ mainChainSet' = Lineage(parent', chainsLeaves'[1])
        /\ status' = status /\ mainChainStorage' = mainChainStorage
  BY ZenonT(60) DEF SplitSegment, Adopted, Reparented, ReplacedLeaf, UpdateMainChainSet
<1>4. PICK moved : moved = movedS BY ZenonT(60)
<1>5. moved = {c \in BlocksOf(s) : Index[c] > Index[Prev[b]]} BY <1>4
<1>6. PICK adopted : adopted = adoptedS BY Zenon
<1>7. adopted = children[s] /\ children[S] \ adopted = {} /\ S = s
  BY Zenon, <1>3, <1>6 DEF IInv, LeavesChildless
<1> HIDE DEF S, movedS, adoptedS
<1>8. /\ u \in Known /\ segmentOf[u] = s /\ u \notin Segments
      /\ Prev[u] = Prev[b] /\ Index[u] = Index[b]
  <2>1. u \in moved BY ZenonT(60), <1>3, <1>4
  <2>2. u \in Known /\ segmentOf[u] = s /\ Index[u] = Index[b]
    BY ZenonT(60), <2>1, <1>3, <1>5 DEF BlocksOf
  <2>3. PICK v \in Known : /\ segmentOf[v] = s /\ v \notin Segments
                           /\ Prev[v] = Prev[b] /\ Index[v] = Index[b]
    BY SMTT(60), <1>0, <1>1, UpperExists
  <2>4. u = v BY SMTT(60), <2>2, <2>3 DEF IInv, TreeShape
  <2> QED BY SMTT(60), <2>2, <2>3, <2>4
<1>9. /\ Known' = Known \cup {b} /\ Segments' = Segments \cup {u, b}
      /\ segmentOf' \in [Known' -> Segments']
      /\ parent' \in [Segments' -> Segments' \cup {NoSegment}]
      /\ children' \in [Segments' -> SUBSET Segments']
      /\ children'[b] = {} /\ children'[u] = children[s]
      /\ \A t \in Segments \ {s} : children'[t] = children[t]
      /\ \A t \in Segments \ {s} : Top(t)' = Top(t)
      /\ Top(u)' = Top(s)
      /\ TreeShape' /\ Contiguous'
  <2>1. children' = Put(Put(Put(children, s, {u, b}), u, children[s]), b, {})
    BY Zenon, <1>3, <1>6, <1>7
  <2>2. parent' = Put(Put(PutAll(parent, children[s], u), u, s), b, s)
    BY ZenonT(60), <1>3, <1>6, <1>7
  <2>3. segmentOf' = Put(PutAll(segmentOf, moved, u), b, b) BY <1>3, <1>4
  <2>4. /\ moved \in SUBSET Known
        /\ \A c \in Known : c \in moved <=> segmentOf[c] = s /\ Index[c] > Index[Prev[b]]
    BY SMTT(60), <1>5 DEF BlocksOf
  <2>5. SplitAt(b, s, u, moved) BY SMTT(60), <2>1, <2>2, <2>3, <2>4, <1>1, <1>8 DEF SplitAt
  <2>6. SplitKept(b, s, u) BY Zenon, <2>5, <1>0, SplitKeepsTree
  <2> QED BY Zenon, <2>6 DEF SplitKept
<1>10. chainsLeaves \in Seq(Segments) /\ 1 \in DOMAIN chainsLeaves
  BY SMTT(60), MainLeafIsSegment DEF IInv, TypeOK
<1>11. PICK q : q = [i \in DOMAIN chainsLeaves |->
                        IF chainsLeaves[i] = S /\ adoptedS = {} THEN u
                        ELSE chainsLeaves[i]]
  BY ZenonT(60)
<1>12. /\ q \in Seq(Segments') /\ DOMAIN q = DOMAIN chainsLeaves
       /\ \A i \in DOMAIN q : children'[q[i]] = {}
       /\ \A i \in DOMAIN q : \/ q[i] = chainsLeaves[i] /\ chainsLeaves[i] # s
                              \/ q[i] = u /\ chainsLeaves[i] = s
  <2>1. \A i \in DOMAIN chainsLeaves :
           chainsLeaves[i] \in Segments /\ children[chainsLeaves[i]] = {}
    <3>1. \A i \in DOMAIN chainsLeaves : chainsLeaves[i] \in Segments
      BY Zenon, <1>10, SequenceOver
    <3>2. \A i \in DOMAIN chainsLeaves : children[chainsLeaves[i]] = {}
      BY Zenon DEF IInv, LeavesChildless
    <3> QED BY ZenonT(60), <3>1, <3>2
  <2>2. DOMAIN q = DOMAIN chainsLeaves BY Zenon, <1>11
  <2>3. \A i \in DOMAIN q : chainsLeaves[i] = s => children[s] = {} /\ adoptedS = {}
    BY ZenonT(60), <2>1, <2>2, <1>6, <1>7
  <2>4. \A i \in DOMAIN q : \/ q[i] = chainsLeaves[i] /\ chainsLeaves[i] # s
                            \/ q[i] = u /\ chainsLeaves[i] = s
    BY ZenonT(60), <2>3, <1>7, <1>11
  <2>5. \A i \in DOMAIN q : q[i] \in Segments' BY <2>1, <2>2, <2>4, <1>9
  <2>6. q = [i \in DOMAIN chainsLeaves |-> q[i]] BY <1>11
  <2>7. q \in Seq(Segments') BY SMTT(60), <2>2, <2>5, <2>6, <1>10, LeavesRemapped
  <2>8. \A i \in DOMAIN q : children'[q[i]] = {} BY ZenonT(60), <2>1, <2>2, <2>3, <2>4, <1>9
  <2> QED BY ZenonT(60), <2>2, <2>4, <2>7, <2>8
<1>13. chainsLeaves' = Append(q, b) BY ZenonT(60), <1>3, <1>11
<1>14. /\ DOMAIN chainsLeaves' = DOMAIN q \cup {Len(q) + 1}
       /\ chainsLeaves'[Len(q) + 1] = b
       /\ \A i \in DOMAIN q : chainsLeaves'[i] = q[i]
  <2>1. q \in Seq(Segments') BY Zenon, <1>12
  <2> QED BY <2>1, <1>13, AppendPositions
<1>15. chainsLeaves' \in Seq(Segments') /\ chainsLeaves' # <<>>
  <2>1. q \in Seq(Segments') /\ b \in Segments' BY Zenon, <1>9, <1>12
  <2>2. Append(q, b) \in Seq(Segments') /\ Append(q, b) # <<>>
    BY Zenon, <2>1, SequenceOver
  <2> QED BY Zenon, <2>2, <1>13
<1>16. MainLeaf' = q[1] BY ZenonT(60), <1>10, <1>12, <1>14 DEF MainLeaf
<1>17. Tip' = Tip
  <2>1. CASE MainLeaf = s
    <3>1. MainLeaf' = u BY ZenonT(60), <2>1, <1>10, <1>12, <1>16 DEF MainLeaf
    <3> QED BY <2>1, <3>1, <1>9 DEF Tip
  <2>2. CASE MainLeaf # s
    <3>1. PICK m \in Segments \ {s} : m = MainLeaf BY SMTT(60), <2>2, MainLeafIsSegment
    <3>2. MainLeaf' = m BY SMTT(60), <2>2, <3>1, <1>10, <1>12, <1>16 DEF MainLeaf
    <3> QED BY <3>1, <3>2, <1>9 DEF Tip
  <2> QED BY SMTT(60), <2>1, <2>2
<1>18. LeavesChildless' BY ZenonT(60), <1>9, <1>12, <1>14 DEF LeavesChildless
<1>19. mainChainSet' \subseteq Segments' BY ZenonT(60), <1>3 DEF Lineage, Segments
<1>20. Segments' \subseteq Known' /\ Known' \subseteq Block /\ Genesis \in Segments'
  BY ZenonT(60), <1>8, <1>9 DEF IInv, TypeOK
<1>21. TypeOK' BY ZenonT(60), <1>3, <1>9, <1>15, <1>19, <1>20 DEF IInv, TypeOK
<1>22. Cumulative[b] <= Cumulative[Tip]
  <2>1. u # Genesis /\ u \in Known /\ u \in Block BY <1>8 DEF IInv, TypeOK
  <2>2. Cumulative[u] = Cumulative[b] BY ZenonT(60), <2>1, <1>2, <1>8, SiblingsWeighTheSame
  <2> QED BY SMTT(60), <2>1, <2>2 DEF IInv, HeaviestChain
<1>23. HeaviestChain' BY ZenonT(60), <1>9, <1>17, <1>22 DEF IInv, HeaviestChain
<1>24. FC!Add(b)
  <2>1. Cumulative[b] \in Nat /\ Cumulative[Tip] \in Nat
    BY SiblingsWeighTheSame, MainLeafIsSegment DEF IInv, TypeOK
  <2>2. ~ (Cumulative[b] > Cumulative[Tip]) BY Zenon, <2>1, <1>22, Weights
  <2> QED BY ZenonT(60), <2>2, <1>2, <1>9, <1>17 DEF FC!Add
<1>25. LeavesListed'
  <2>1. b \notin Segments /\ b # u BY <1>2, <1>8 DEF IInv, TypeOK
  <2>2. \A i, j \in DOMAIN chainsLeaves : chainsLeaves[i] = chainsLeaves[j] => i = j
    BY DEF IInv, LeavesListed
  <2>3. \A i \in DOMAIN chainsLeaves : chainsLeaves[i] \in Segments
    BY Zenon, <1>10, SequenceOver
  <2>4. \A i, j \in DOMAIN q : q[i] = q[j] => i = j
    <3>1. u \notin Segments BY Zenon, <1>8
    <3> SUFFICES ASSUME NEW i \in DOMAIN q, NEW j \in DOMAIN q, q[i] = q[j] PROVE i = j
      OBVIOUS
    <3>2. i \in DOMAIN chainsLeaves /\ j \in DOMAIN chainsLeaves BY Zenon, <1>12
    <3>3. \A k \in {i, j} : \/ q[k] = chainsLeaves[k] /\ chainsLeaves[k] # s /\ q[k] # u
                            \/ q[k] = u /\ chainsLeaves[k] = s
      BY ZenonT(60), <2>3, <3>1, <3>2, <1>12
    <3>4. chainsLeaves[i] = chainsLeaves[j] BY <3>3
    <3> QED BY Zenon, <2>2, <3>2, <3>4
  <2>5. \A i \in DOMAIN q : q[i] # b BY ZenonT(60), <2>1, <2>3, <1>12
  <2>6. \A i, j \in DOMAIN chainsLeaves' : chainsLeaves'[i] = chainsLeaves'[j] => i = j
    BY ZenonT(60), <2>4, <2>5, <1>14
  <2>7. ASSUME NEW t \in Segments', children'[t] = {}
        PROVE  \E i \in DOMAIN chainsLeaves' : chainsLeaves'[i] = t
    <3>1. CASE t = b BY <3>1, <1>14
    <3>2. CASE t = u
      <4>1. children[s] = {} BY <3>2, <2>7, <1>9
      <4>2. PICK i \in DOMAIN chainsLeaves : chainsLeaves[i] = s
        BY <4>1 DEF IInv, LeavesListed
      <4>3. q[i] = u /\ i \in DOMAIN q BY ZenonT(60), <4>2, <1>12
      <4> QED BY Zenon, <3>2, <4>3, <1>14
    <3>3. CASE t \in Segments
      <4>1. children'[s] # {}
        <5>1. children' = Put(Put(Put(children, s, {u, b}), u, children[s]), b, {})
          BY Zenon, <1>3, <1>6, <1>7
        <5>2. s # u /\ s # b /\ s \in DOMAIN children BY <2>1, <1>8 DEF IInv, TypeOK
        <5>3. children'[s] = {u, b} BY ZenonT(60), <5>1, <5>2 DEF Put
        <5> QED BY <5>3
      <4>2. t # s /\ children[t] = {} BY <3>3, <4>1, <2>7, <1>9
      <4>3. PICK i \in DOMAIN chainsLeaves : chainsLeaves[i] = t
        BY <3>3, <4>2 DEF IInv, LeavesListed
      <4>4. q[i] = t /\ i \in DOMAIN q BY ZenonT(60), <4>2, <4>3, <1>12
      <4> QED BY Zenon, <4>4, <1>14
    <3> QED BY <3>1, <3>2, <3>3, <1>9
  <2> QED BY <2>6, <2>7 DEF LeavesListed
<1>26. MainLine' BY ZenonT(60), <1>3 DEF MainLine, MainLeaf
<1> QED BY SMTT(60), <1>9, <1>17, <1>18, <1>21, <1>23, <1>24, <1>25, <1>26 DEF IInv

\* Steps that leave the tree alone keep the invariant and are stutters of the
\* fork choice rule.
LEMMA StutterStep ==
    ASSUME IInv, status' \in Status,
           UNCHANGED <<segmentOf, parent, children, chainsLeaves,
                       mainChainSet, mainChainStorage>>
    PROVE  IInv' /\ UNCHANGED <<Known, Tip>>
<1>1. TypeOK' BY SMTT(60) DEF IInv, TypeOK, Known, Segments
<1>2. TreeShape' BY SMTT(60) DEF IInv, TreeShape, Known, Segments, Top, Highest, BlocksOf
<1>3. Contiguous' BY SMTT(60) DEF IInv, Contiguous, Known, Segments, BlocksOf
<1>4. LeavesChildless' BY DEF IInv, LeavesChildless
<1>5. UNCHANGED <<Known, Tip>> BY DEF Known, Tip, MainLeaf, Top, BlocksOf
<1>6. HeaviestChain' BY <1>5 DEF IInv, HeaviestChain
<1>7. LeavesListed' BY DEF IInv, LeavesListed, Segments
<1>8. MainLine' BY DEF IInv, MainLine, MainLeaf
<1> QED BY <1>1, <1>2, <1>3, <1>4, <1>5, <1>6, <1>7, <1>8 DEF IInv

\* Every step of addBlock keeps the invariant, and is a step or a stutter of
\* the fork choice rule.
THEOREM NextInv ==
    IInv /\ [Next]_treeVars => IInv' /\ [FC!Next]_<<Known, Tip>>
<1> SUFFICES ASSUME IInv, [Next]_treeVars PROVE IInv' /\ [FC!Next]_<<Known, Tip>>
  OBVIOUS
<1>0. status \in Status BY DEF IInv, TypeOK
<1>1. CASE UNCHANGED treeVars BY <1>0, <1>1, StutterStep DEF treeVars
<1>2. CASE Undefined BY SMTT(60), <1>0, <1>2, StutterStep DEF Undefined, treeVars
<1>3. ASSUME NEW b \in Block, AddBlock(b) \/ RejectBlock(b)
      PROVE  IInv' /\ [FC!Next]_<<Known, Tip>>
  <2>0. FC!Add(b) => FC!Next
    <3>1. Genesis \in Known BY DEF IInv, TypeOK
    <3> QED BY <3>1 DEF FC!Add, FC!Next
  <2>1. CASE PushToMain(b) BY <2>0, <2>1, PushToMainStep
  <2>2. CASE PushToAlternative(b) BY <2>0, <2>2, PushToAlternativeStep
  <2>3. CASE SwitchToAlternative(b) BY SMTT(60), <2>0, <2>3, SwitchStep
  <2>4. CASE ForkAtTop(b) BY <2>0, <2>4, ForkAtTopStep
  <2>5. CASE SplitSegment(b) BY <2>0, <2>5, SplitStep
  <2>6. CASE SplitOfNonLeaf(b)
    BY <2>6, StutterStep DEF SplitOfNonLeaf, Status
  <2>7. CASE RejectBlock(b) BY <1>0, <2>7, StutterStep DEF RejectBlock, treeVars
  <2> QED BY <1>3, <2>1, <2>2, <2>3, <2>4, <2>5, <2>6, <2>7 DEF AddBlock
<1> QED BY <1>1, <1>2, <1>3 DEF Next

-----------------------------------------------------------------------------

\* In every reachable state the variables have their types, the segments cut
\* the block tree into paths with parent pointers and child lists to match,
\* and no known block is heavier than the tip of the main chain.
THEOREM ChainTreeSafety == Spec => [](TypeOK /\ TreeShape /\ HeaviestChain)
<1>1. Init => IInv BY InitInv
<1>2. IInv /\ [Next]_treeVars => IInv' BY NextInv
<1>3. IInv => TypeOK /\ TreeShape /\ HeaviestChain BY DEF IInv
<1> QED BY <1>1, <1>2, <1>3, PTL DEF Spec

\* Every variable of the tree keeps its type.
THEOREM TreeTypes == Spec => []TypeOK
BY ChainTreeSafety, PTL

\* The segments always cut the block tree into paths whose parent pointers and
\* child lists match.
THEOREM TreeStaysInShape == Spec => []TreeShape
BY ChainTreeSafety, PTL

\* Core::addBlock implements the fork choice rule: blocks are never
\* forgotten, and the tip moves exactly when a new block is strictly heavier.
THEOREM ForkChoiceRefinement == Spec => ImplementsForkChoice
<1>1. Init => IInv BY InitInv
<1>2. IInv /\ [Next]_treeVars => IInv' BY NextInv
<1>3. IInv /\ [Next]_treeVars => [FC!Next]_<<Known, Tip>> BY NextInv
<1>4. Init => FC!Init
  <2> SUFFICES ASSUME Init PROVE FC!Init OBVIOUS
  <2>1. Known = {Genesis} BY DEF Init, Known
  <2>2. BlocksOf(Genesis) = {Genesis} BY <2>1 DEF Init, BlocksOf
  <2>3. Top(Genesis) = Genesis BY <2>2, HighestIs, BlockAssumption DEF Top
  <2>4. Tip = Genesis BY <2>3 DEF Init, Tip, MainLeaf
  <2> QED BY <2>1, <2>4 DEF FC!Init
<1> QED BY <1>1, <1>2, <1>3, <1>4, PTL DEF Spec, ImplementsForkChoice, FC!Spec
-----------------------------------------------------------------------------
(* The paths of the tree: all but the key images and the file follow from the
   shape of the tree in one state, by the induction on indexes that lemma
   LeastNat gives *)

\* The least set of blocks that holds b and the parents of its members.
PrevClosure(b) ==
    {c \in Block :
        \A X \in SUBSET Block :
            (b \in X /\ \A x \in X \ {Genesis} : Prev[x] \in X) => c \in X}

\* That set is b and the least such set of b's parent.
LEMMA PrevClosureStep ==
    ASSUME NEW b \in Block
    PROVE  PrevClosure(b) = IF b = Genesis THEN {b} ELSE {b} \cup PrevClosure(Prev[b])
<1>1. b \in PrevClosure(b) BY DEF PrevClosure
<1>2. CASE b = Genesis
  <2>1. {b} \in SUBSET Block OBVIOUS
  <2> QED BY <1>1, <1>2, <2>1 DEF PrevClosure
<1>3. CASE b # Genesis
  <2>0. Prev[b] \in Block /\ \A x \in Block \ {Genesis} : Prev[x] \in Block
    BY <1>3, BlockAssumption
  <2>1. PrevClosure(Prev[b]) \subseteq PrevClosure(b) BY <1>3 DEF PrevClosure
  <2>2. {b} \cup PrevClosure(Prev[b]) \in SUBSET Block BY DEF PrevClosure
  <2>3. \A x \in PrevClosure(Prev[b]) \ {Genesis} : Prev[x] \in PrevClosure(Prev[b])
    BY <2>0 DEF PrevClosure
  <2>4. Prev[b] \in PrevClosure(Prev[b]) BY <2>0 DEF PrevClosure
  <2>5. PrevClosure(b) \subseteq {b} \cup PrevClosure(Prev[b])
    BY Zenon, <2>2, <2>3, <2>4 DEF PrevClosure
  <2> QED BY <1>1, <1>3, <2>1, <2>5
<1> QED BY <1>2, <1>3

\* The equation that defines Ancestors has a solution, so Ancestors is one.
LEMMA AncestorsStep ==
    \A b \in Block : Ancestors[b] = IF b = Genesis THEN {b} ELSE {b} \cup Ancestors[Prev[b]]
<1> DEFINE Solves(f) ==
      f = [b \in Block |-> IF b = Genesis THEN {b} ELSE {b} \cup f[Prev[b]]]
<1>1. \E f : Solves(f)
  <2> DEFINE g == [b \in Block |-> PrevClosure(b)]
  <2>1. \A b \in Block : g[b] = IF b = Genesis THEN {b} ELSE {b} \cup g[Prev[b]]
    BY PrevClosureStep, BlockAssumption
  <2>2. g = [b \in Block |-> g[b]] OBVIOUS
  <2> HIDE DEF g
  <2>3. Solves(g) BY Zenon, <2>1, <2>2
  <2> QED BY <2>3
<1>2. Ancestors = CHOOSE f : Solves(f) BY DEF Ancestors
<1> HIDE DEF Solves
<1>3. Solves(Ancestors) BY <1>1, <1>2
<1> QED BY <1>3 DEF Solves

\* The ancestors of a block are that least set: two solutions of the equation
\* cannot differ at a block of least index.
LEMMA AncestorsAre == \A b \in Block : Ancestors[b] = PrevClosure(b)
<1> DEFINE Bad == {b \in Block : Ancestors[b] # PrevClosure(b)}
           S == {Index[b] : b \in Bad}
<1>1. S \in SUBSET Nat BY BlockAssumption
<1>2. ASSUME NEW b \in Bad PROVE FALSE
  <2>1. Index[b] \in S OBVIOUS
  <2> HIDE DEF S
  <2>2. PICK m \in S : \A k \in S : m <= k BY <1>1, <2>1, LeastNat
  <2> USE DEF S
  <2>3. PICK c \in Bad : m = Index[c] OBVIOUS
  <2>4. c # Genesis BY <2>3, AncestorsStep, PrevClosureStep
  <2>5. Prev[c] \in Block /\ Index[c] = Index[Prev[c]] + 1 /\ Index[Prev[c]] \in Nat
    BY <2>3, <2>4, BlockAssumption
  <2>6. ASSUME Prev[c] \in Bad PROVE FALSE
    <3>1. Index[Prev[c]] \in S BY <2>6
    <3>2. m <= Index[Prev[c]] BY <2>2, <3>1
    <3> HIDE DEF S, Bad
    <3> QED BY <3>2, <2>3, <2>5
  <2>7. Ancestors[Prev[c]] = PrevClosure(Prev[c]) BY <2>5, <2>6
  <2>8. Ancestors[c] = PrevClosure(c) BY ZenonT(60), <2>3, <2>4, <2>7, AncestorsStep, PrevClosureStep
  <2> QED BY Zenon, <2>3, <2>8
<1> QED BY <1>2

\* What the rest of the proofs use of a block's ancestors: they hold the
\* block, are closed under Prev and least, and none is higher, heavier or as
\* high as the block itself.
LEMMA AncestorsFacts ==
    ASSUME NEW b \in Block
    PROVE  /\ b \in Ancestors[b]
           /\ Ancestors[b] \subseteq Block
           /\ \A c \in Ancestors[b] \ {Genesis} : Prev[c] \in Ancestors[b]
           /\ \A X \in SUBSET Block :
                 (b \in X /\ \A x \in X \ {Genesis} : Prev[x] \in X) => Ancestors[b] \subseteq X
           /\ \A c \in Ancestors[b] : Ancestors[c] \subseteq Ancestors[b]
           /\ \A c \in Ancestors[b] : Index[c] <= Index[b] /\ Cumulative[c] <= Cumulative[b]
           /\ \A c \in Ancestors[b] : Index[c] = Index[b] => c = b
<1>0. \A x \in Block \ {Genesis} : Prev[x] \in Block BY BlockAssumption
<1>1. b \in Ancestors[b] /\ Ancestors[b] \subseteq Block
  BY AncestorsAre DEF PrevClosure
<1>2. \A c \in Ancestors[b] \ {Genesis} : Prev[c] \in Ancestors[b]
  <2>1. \A c \in PrevClosure(b) \ {Genesis} : Prev[c] \in PrevClosure(b)
    BY Zenon, <1>0 DEF PrevClosure
  <2> QED BY <2>1, AncestorsAre
<1>3. \A y \in Block : \A X \in SUBSET Block :
         (y \in X /\ \A x \in X \ {Genesis} : Prev[x] \in X) => Ancestors[y] \subseteq X
  <2>1. \A y \in Block : \A X \in SUBSET Block :
         (y \in X /\ \A x \in X \ {Genesis} : Prev[x] \in X) => PrevClosure(y) \subseteq X
    BY Zenon DEF PrevClosure
  <2> QED BY <2>1, AncestorsAre
<1>4. \A c \in Ancestors[b] : Ancestors[c] \subseteq Ancestors[b] BY Zenon, <1>1, <1>2, <1>3
<1>5. \A c \in Ancestors[b] : Index[c] <= Index[b] /\ Cumulative[c] <= Cumulative[b]
  <2> DEFINE X == {c \in Block : Index[c] <= Index[b] /\ Cumulative[c] <= Cumulative[b]}
  <2>1. b \in X BY BlockAssumption
  <2>2. \A x \in X \ {Genesis} : Prev[x] \in X BY BlockAssumption
  <2>3. X \in SUBSET Block OBVIOUS
  <2>4. Ancestors[b] \subseteq X
    <3> HIDE DEF X
    <3> QED BY <2>1, <2>2, <2>3, <1>3
  <2> QED BY <2>4
<1>6. \A c \in Ancestors[b] : Index[c] = Index[b] => c = b
  <2> DEFINE X == {c \in Block : c = b \/ Index[c] < Index[b]}
  <2>1. b \in X OBVIOUS
  <2>2. \A x \in X \ {Genesis} : Prev[x] \in X BY BlockAssumption
  <2>3. X \in SUBSET Block OBVIOUS
  <2>4. Ancestors[b] \subseteq X
    <3> HIDE DEF X
    <3> QED BY <2>1, <2>2, <2>3, <1>3
  <2>5. Index[b] \in Nat BY BlockAssumption
  <2> QED BY <2>4, <2>5
<1> QED BY Zenon, <1>1, <1>2, <1>3, <1>4, <1>5, <1>6

\* What the invariant says of the shape of the tree, block by block.
LEMMA Shape ==
    ASSUME IInv
    PROVE  /\ Known \subseteq Block /\ Segments \subseteq Known /\ Genesis \in Segments
           /\ \A b \in Known : segmentOf[b] \in Segments /\ Index[b] \in Nat
           /\ \A b \in Known \ {Genesis} : Prev[b] \in Known /\ Index[b] = Index[Prev[b]] + 1
           /\ \A s \in Segments : segmentOf[s] = s
           /\ \A b \in Known \ Segments : segmentOf[Prev[b]] = segmentOf[b]
           /\ \A b, c \in Known : segmentOf[b] = segmentOf[c] /\ Index[b] = Index[c] => b = c
           /\ \A s \in Segments \ {Genesis} :
                 /\ parent[s] \in Segments /\ Prev[s] = Top(parent[s])
                 /\ segmentOf[Prev[s]] = parent[s]
           /\ parent[Genesis] = NoSegment /\ NoSegment \notin Segments
           /\ \A b \in Known : Index[segmentOf[b]] <= Index[b]
<1>1. /\ Known \subseteq Block /\ Segments \subseteq Known /\ Genesis \in Segments
      /\ \A b \in Known : segmentOf[b] \in Segments
  BY ZenonT(60) DEF IInv, TypeOK
<1>2. \A b \in Known : Index[b] \in Nat BY <1>1, BlockAssumption
<1>3. \A b \in Known \ {Genesis} : Prev[b] \in Known /\ Index[b] = Index[Prev[b]] + 1
  BY ZenonT(60), <1>1, BlockAssumption DEF IInv, TreeShape
<1>4. /\ \A s \in Segments : segmentOf[s] = s
      /\ \A b \in Known \ Segments : segmentOf[Prev[b]] = segmentOf[b]
      /\ parent[Genesis] = NoSegment /\ NoSegment \notin Segments
  BY ZenonT(60), <1>1, BlockAssumption DEF IInv, TreeShape
<1>5. \A b, c \in Known : segmentOf[b] = segmentOf[c] /\ Index[b] = Index[c] => b = c
  BY SMTT(60), <1>1 DEF IInv, TreeShape
<1>6. \A s \in Segments \ {Genesis} :
         /\ parent[s] \in Segments /\ Prev[s] = Top(parent[s])
         /\ segmentOf[Prev[s]] = parent[s]
  <2> TAKE s \in Segments \ {Genesis}
  <2>1. PICK p \in Segments : p = parent[s] /\ Prev[s] = Top(p)
    BY ZenonT(60) DEF IInv, TreeShape
  <2>2. Top(p) \in BlocksOf(p) BY TopOfSegment
  <2> QED BY <2>1, <2>2 DEF BlocksOf
<1>7. \A b \in Known : Index[segmentOf[b]] <= Index[b] BY DEF IInv, Contiguous
<1> QED BY Zenon, <1>1, <1>2, <1>3, <1>4, <1>5, <1>6, <1>7

\* The ancestors of a known block are known.
LEMMA AncestorsKnown ==
    ASSUME IInv, NEW b \in Known
    PROVE  Ancestors[b] \subseteq Known
<1>1. Known \in SUBSET Block /\ \A x \in Known \ {Genesis} : Prev[x] \in Known BY Shape
<1> QED BY Zenon, <1>1, AncestorsFacts

\* In a segment, a block's ancestors go down to every lower index.
LEMMA SegmentAncestors ==
    ASSUME IInv, NEW b \in Block, Ancestors[b] \subseteq Known,
           NEW d \in Ancestors[b], NEW c \in Known,
           segmentOf[c] = segmentOf[d], Index[c] <= Index[d]
    PROVE  c \in Ancestors[b]
<1> DEFINE Above == {x \in Ancestors[b] : segmentOf[x] = segmentOf[c] /\ Index[c] <= Index[x]}
           S == {Index[x] : x \in Above}
<1>1. S \in SUBSET Nat BY Shape
<1>2. Index[d] \in S OBVIOUS
<1>3. PICK m \in S : \A k \in S : m <= k
  <2> HIDE DEF S
  <2> QED BY <1>1, <1>2, LeastNat
<1>4. PICK x \in Above : m = Index[x] OBVIOUS
<1>5. CASE Index[x] = Index[c] BY <1>4, <1>5, Shape
<1>6. CASE Index[x] # Index[c]
  <2>1. /\ x \in Known /\ segmentOf[x] = segmentOf[c] /\ Index[c] <= Index[x]
        /\ Index[x] \in Nat /\ Index[c] \in Nat
    BY <1>4, Shape
  <2>2. Index[segmentOf[c]] <= Index[c] /\ Index[segmentOf[c]] \in Nat BY Shape
  <2>3. x # segmentOf[c] BY <2>1, <2>2, <1>6
  <2>4. x \notin Segments /\ x # Genesis BY <2>1, <2>3, Shape
  <2>5. /\ Prev[x] \in Ancestors[b] /\ segmentOf[Prev[x]] = segmentOf[c]
        /\ Index[x] = Index[Prev[x]] + 1 /\ Index[Prev[x]] \in Nat
    BY <1>4, <2>1, <2>4, Shape, AncestorsFacts
  <2>6. Index[c] <= Index[Prev[x]] BY <2>1, <2>5, <1>6
  <2>7. Index[Prev[x]] \in S BY <2>5, <2>6
  <2>8. m <= Index[Prev[x]] BY <2>7, <1>3
  <2> QED BY <2>5, <2>8, <1>4
<1> QED BY <1>5, <1>6
-----------------------------------------------------------------------------

\* What the rest of the proofs use of a lineage: it holds its segment, is
\* closed under parents, and is the least such set.
LEMMA LineageFacts ==
    ASSUME IInv, NEW s \in Segments
    PROVE  /\ s \in Lineage(parent, s)
           /\ Lineage(parent, s) \subseteq Segments
           /\ \A t \in Lineage(parent, s) \ {Genesis} : parent[t] \in Lineage(parent, s)
           /\ \A X \in SUBSET Segments :
                 (s \in X /\ \A t \in X \ {Genesis} : parent[t] \in X)
                    => Lineage(parent, s) \subseteq X
<1>0. /\ \A t \in Segments \ {Genesis} : parent[t] # NoSegment /\ parent[t] \in Segments
      /\ parent[Genesis] = NoSegment
  BY Shape
<1>1. s \in Lineage(parent, s) /\ Lineage(parent, s) \subseteq Segments
  BY Zenon DEF Lineage, Segments
<1>2. \A t \in Lineage(parent, s) \ {Genesis} : parent[t] \in Lineage(parent, s)
  BY ZenonT(60), <1>0 DEF Lineage, Segments
<1>3. \A X \in SUBSET Segments :
         (s \in X /\ \A t \in X \ {Genesis} : parent[t] \in X) => Lineage(parent, s) \subseteq X
  BY ZenonT(60), <1>0 DEF Lineage, Segments
<1> QED BY Zenon, <1>1, <1>2, <1>3

\* A segment's lineage is its own, and that of its parent.
LEMMA LineageStep ==
    ASSUME IInv, NEW s \in Segments \ {Genesis}, NEW t \in Lineage(parent, parent[s])
    PROVE  t \in Lineage(parent, s)
<1>1. PICK p \in Segments : p = parent[s] BY Shape
<1>2. p \in Lineage(parent, s) BY <1>1, LineageFacts
<1>3. /\ Lineage(parent, s) \in SUBSET Segments
      /\ \A x \in Lineage(parent, s) \ {Genesis} : parent[x] \in Lineage(parent, s)
  BY Zenon, LineageFacts
<1>4. \A X \in SUBSET Segments :
         (p \in X /\ \A x \in X \ {Genesis} : parent[x] \in X) => Lineage(parent, p) \subseteq X
  BY Zenon, LineageFacts
<1>5. PICK L : L = Lineage(parent, s) OBVIOUS
<1>6. Lineage(parent, p) \subseteq L BY Zenon, <1>2, <1>3, <1>4, <1>5
<1> QED BY <1>1, <1>5, <1>6

\* Walking the segments from the one that holds a block meets its ancestors
\* at indexes up to its own, and nothing else.
LEMMA PathOfBlock ==
    ASSUME IInv, NEW b \in Known
    PROVE  ChainUpTo(segmentOf[b], Index[b]) = Ancestors[b]
<1> DEFINE L == Lineage(parent, segmentOf[b])
           C == {c \in Known : segmentOf[c] \in L /\ Index[c] <= Index[b]}
<1>0. /\ b \in Block /\ segmentOf[b] \in Segments /\ Ancestors[b] \subseteq Known
      /\ Index[b] \in Nat
  BY Shape, AncestorsKnown
<1>1. ChainUpTo(segmentOf[b], Index[b]) = C BY DEF ChainUpTo
<1>2. /\ segmentOf[b] \in L /\ L \subseteq Segments
      /\ \A t \in L \ {Genesis} : parent[t] \in L
      /\ \A X \in SUBSET Segments :
            (segmentOf[b] \in X /\ \A t \in X \ {Genesis} : parent[t] \in X) => L \subseteq X
  BY Zenon, <1>0, LineageFacts
<1> HIDE DEF L
<1>3. Ancestors[b] \subseteq C
  <2>1. b \in C BY <1>0, <1>2
  <2>2. C \in SUBSET Block BY Shape
  <2>3. ASSUME NEW x \in C \ {Genesis} PROVE Prev[x] \in C
    <3>1. /\ x \in Known /\ segmentOf[x] \in L /\ Index[x] <= Index[b]
          /\ Prev[x] \in Known /\ Index[x] = Index[Prev[x]] + 1
          /\ Index[x] \in Nat /\ Index[Prev[x]] \in Nat
      BY <2>3, Shape
    <3>2. Index[Prev[x]] <= Index[b] BY <3>1, <1>0
    <3>3. segmentOf[Prev[x]] \in L
      <4>1. CASE x \in Segments BY <4>1, <3>1, <1>2, Shape
      <4>2. CASE x \notin Segments BY <4>2, <3>1, Shape
      <4> QED BY <4>1, <4>2
    <3> QED BY <3>1, <3>2, <3>3
  <2> HIDE DEF C
  <2> QED BY Zenon, <2>1, <2>2, <2>3, <1>0, AncestorsFacts
<1>4. C \subseteq Ancestors[b]
  <2> DEFINE X == {t \in Segments : \E d \in Ancestors[b] :
                     /\ segmentOf[d] = t
                     /\ \A c \in Known : segmentOf[c] = t /\ Index[c] <= Index[b]
                                         => Index[c] <= Index[d]}
  <2>1. X \in SUBSET Segments OBVIOUS
  <2>2. segmentOf[b] \in X BY <1>0, AncestorsFacts
  <2>3. ASSUME NEW t \in X \ {Genesis} PROVE parent[t] \in X
    <3>1. PICK d \in Ancestors[b] : segmentOf[d] = t BY <2>3
    <3>2. t \in Segments /\ t \in Known /\ d \in Known BY <2>3, <3>1, <1>0, Shape
    <3>3. t \in Ancestors[b]
      <4>1. segmentOf[t] = t /\ Index[t] <= Index[d] BY <3>1, <3>2, Shape
      <4> QED BY <4>1, <3>1, <3>2, <1>0, SegmentAncestors
    <3>4. /\ parent[t] \in Segments /\ Prev[t] = Top(parent[t])
          /\ segmentOf[Prev[t]] = parent[t] /\ Prev[t] \in Ancestors[b]
      BY <2>3, <3>2, <3>3, <1>0, Shape, AncestorsFacts
    <3>5. \A c \in Known : segmentOf[c] = parent[t] => Index[c] <= Index[Prev[t]]
      BY <3>4, TopOfSegment DEF BlocksOf
    <3> QED BY <3>4, <3>5
  <2>4. L \subseteq X
    <3> HIDE DEF X
    <3> QED BY Zenon, <1>2, <2>1, <2>2, <2>3
  <2>5. ASSUME NEW c \in C PROVE c \in Ancestors[b]
    <3>1. c \in Known /\ segmentOf[c] \in L /\ Index[c] <= Index[b] BY <2>5
    <3>2. PICK d \in Ancestors[b] : segmentOf[d] = segmentOf[c] /\ Index[c] <= Index[d]
      BY <2>4, <3>1
    <3> QED BY <3>1, <3>2, <1>0, SegmentAncestors
  <2> QED BY <2>5
<1> QED BY <1>1, <1>3, <1>4

\* In every reachable state, walking the segments from the one that holds a
\* block meets exactly the block's ancestors at indexes up to its own.
THEOREM LineagePaths == Spec => []LineageIsPath
<1>1. Init => IInv BY InitInv
<1>2. IInv /\ [Next]_treeVars => IInv' BY NextInv
<1>3. IInv => LineageIsPath BY PathOfBlock DEF LineageIsPath
<1> QED BY <1>1, <1>2, <1>3, PTL DEF Spec

\* Every segment is on the way from some leaf to the root: among the segments
\* whose lineage holds it, one of greatest cumulative difficulty is childless.
LEMMA LeafAbove ==
    ASSUME IInv, NEW s \in Segments
    PROVE  \E i \in DOMAIN chainsLeaves : s \in Lineage(parent, chainsLeaves[i])
<1> DEFINE D == {t \in Segments : s \in Lineage(parent, t)}
           S == {Cumulative[Tip] - Cumulative[t] : t \in D}
<1>0. \A c \in Known : Cumulative[c] \in Nat BY Shape, SiblingsWeighTheSame
<1>1. S \in SUBSET Nat
  <2>1. Tip \in Known BY MainLeafIsSegment
  <2>2. \A t \in D : t \in Known /\ Cumulative[t] <= Cumulative[Tip]
    BY Shape DEF IInv, HeaviestChain
  <2> QED BY <2>1, <2>2, <1>0
<1>2. Cumulative[Tip] - Cumulative[s] \in S BY LineageFacts
<1>3. PICK m \in S : \A k \in S : m <= k
  <2> HIDE DEF S
  <2> QED BY <1>1, <1>2, LeastNat
<1>4. PICK t \in D : m = Cumulative[Tip] - Cumulative[t] OBVIOUS
<1>5. CASE children[t] = {}
  <2>1. PICK i \in DOMAIN chainsLeaves : chainsLeaves[i] = t
    BY <1>5 DEF IInv, LeavesListed
  <2> QED BY <2>1
<1>6. CASE children[t] # {}
  <2>1. PICK c \in Segments : c \in children[t] BY <1>6 DEF IInv, TypeOK
  <2>2. parent[c] = t BY <2>1 DEF IInv, TreeShape
  <2>3. c # Genesis BY <2>2, Shape
  <2>4. c \in D BY <2>2, <2>3, LineageStep
  <2>5. /\ Prev[c] = Top(t) /\ Prev[c] \in Known /\ segmentOf[Prev[c]] = t
        /\ c \in Known /\ c \in Block /\ t \in Known /\ Index[t] <= Index[Prev[c]]
        /\ segmentOf[t] = t /\ Prev[c] \in Block
    BY <2>2, <2>3, Shape
  <2>6. t \in Ancestors[Prev[c]]
    BY <2>5, AncestorsKnown, AncestorsFacts, SegmentAncestors
  <2>7. Cumulative[t] <= Cumulative[Prev[c]] BY <2>5, <2>6, AncestorsFacts
  <2>8. Cumulative[c] > Cumulative[Prev[c]] BY <2>3, <2>5, BlockAssumption
  <2>9. m <= Cumulative[Tip] - Cumulative[c] BY <2>4, <1>3
  <2>10. Cumulative[Tip] \in Nat /\ Cumulative[c] \in Nat /\ Cumulative[t] \in Nat
         /\ Cumulative[Prev[c]] \in Nat
    BY <2>5, <1>0, MainLeafIsSegment
  <2> QED BY <2>7, <2>8, <2>9, <2>10, <1>4
<1> QED BY <1>5, <1>6

\* The leaves list every childless segment once, findSegmentContainingBlock
\* looks in every segment, and mainChainSet is the main leaf's lineage.
LEMMA LeavesCover == ASSUME IInv PROVE LeavesCoverTheTree
<1>0. \A i \in DOMAIN chainsLeaves : chainsLeaves[i] \in Segments
  BY SequenceOver DEF IInv, TypeOK
<1>1. \A i, j \in DOMAIN chainsLeaves : chainsLeaves[i] = chainsLeaves[j] => i = j
  BY DEF IInv, LeavesListed
<1>2. {chainsLeaves[i] : i \in DOMAIN chainsLeaves} = {s \in Segments : children[s] = {}}
  BY <1>0 DEF IInv, LeavesListed, LeavesChildless
<1>3. Searched = Segments
  <2>1. \A i \in DOMAIN chainsLeaves : Lineage(parent, chainsLeaves[i]) \subseteq Segments
    BY <1>0, LineageFacts
  <2>2. Searched \subseteq Segments BY <2>1 DEF Searched
  <2>3. Segments \subseteq Searched BY LeafAbove DEF Searched
  <2> QED BY <2>2, <2>3
<1>4. mainChainSet = Lineage(parent, MainLeaf) BY DEF IInv, MainLine
<1> QED BY Zenon, <1>1, <1>2, <1>3, <1>4 DEF LeavesCoverTheTree

\* In every reachable state, whatever was pushed, forked, split or switched,
\* chainsLeaves lists exactly the childless segments, every segment is found
\* from a leaf, and mainChainSet is the lineage of the main leaf.
THEOREM LeavesAlwaysCover == Spec => []LeavesCoverTheTree
<1>1. Init => IInv BY InitInv
<1>2. IInv /\ [Next]_treeVars => IInv' BY NextInv
<1>3. IInv => LeavesCoverTheTree BY LeavesCover
<1> QED BY <1>1, <1>2, <1>3, PTL DEF Spec
-----------------------------------------------------------------------------

\* A step of addBlock learns of at most one block, one it accepts.
LEMMA KnownGrows ==
    ASSUME IInv, [Next]_treeVars
    PROVE  \/ Known' = Known
           \/ \E b \in Block : Accepts(b) /\ Known' = Known \cup {b}
<1>1. CASE UNCHANGED segmentOf BY <1>1 DEF Known
<1>2. ASSUME NEW b \in Block, AddBlock(b), ~UNCHANGED segmentOf
      PROVE  Accepts(b) /\ Known' = Known \cup {b}
  <2>0. FC!Add(b) => Known' = Known \cup {b} BY DEF FC!Add
  <2>1. CASE PushToMain(b) BY <2>0, <2>1, PushToMainStep DEF PushToMain
  <2>2. CASE PushToAlternative(b) BY <2>0, <2>2, PushToAlternativeStep DEF PushToAlternative
  <2>3. CASE SwitchToAlternative(b)
    <3>1. Accepts(b) BY <2>3 DEF SwitchToAlternative
    <3> QED BY <2>0, <2>3, <3>1, SwitchStep
  <2>4. CASE ForkAtTop(b)
    <3>1. Accepts(b) BY <2>4 DEF ForkAtTop
    <3> QED BY <2>0, <2>4, <3>1, ForkAtTopStep
  <2>5. CASE SplitSegment(b)
    <3>1. Accepts(b) BY <2>5 DEF SplitSegment
    <3> QED BY <2>0, <2>5, <3>1, SplitStep
  <2>6. CASE SplitOfNonLeaf(b) BY <2>6, <1>2 DEF SplitOfNonLeaf
  <2> QED BY <1>2, <2>1, <2>2, <2>3, <2>4, <2>5, <2>6 DEF AddBlock
<1>3. ASSUME NEW b \in Block, RejectBlock(b) PROVE UNCHANGED segmentOf
  BY <1>3 DEF RejectBlock, treeVars
<1>4. Undefined \/ UNCHANGED treeVars => UNCHANGED segmentOf BY DEF Undefined, treeVars
<1> QED BY <1>1, <1>2, <1>3, <1>4 DEF Next

\* An accepted block outside the checkpoint zone spends nothing its ancestors
\* spend: validateTransaction walks exactly those.
LEMMA AcceptedSpendsOnce ==
    ASSUME IInv, NEW b \in Block, Accepts(b), ~InCheckpointZone(Index[b])
    PROVE  KeyImagesOf({b}) \cap KeyImagesOf(Ancestors[b] \ {b}) = {}
<1>1. Prev[b] \in Known /\ b # Genesis /\ Prev[b] \in Block BY ValidIsNew
<1>2. KeyImagesOf({b}) \cap KeyImagesOf(Ancestors[Prev[b]]) = {}
  BY <1>1, PathOfBlock DEF Accepts, SpendsOnce
<1>3. Ancestors[b] \ {b} \subseteq Ancestors[Prev[b]] BY <1>1, AncestorsStep
<1>4. KeyImagesOf(Ancestors[b] \ {b}) \subseteq KeyImagesOf(Ancestors[Prev[b]])
  BY <1>3 DEF KeyImagesOf
<1> QED BY <1>2, <1>4

\* In every reachable state no block outside the checkpoint zone spends a key
\* image that one of its ancestors spends.
THEOREM SpendOnce == Spec => []NoDoubleSpend
<1>1. Init => IInv BY InitInv
<1>2. IInv /\ [Next]_treeVars => IInv' BY NextInv
<1>3. Init => NoDoubleSpend
  <2> SUFFICES ASSUME Init PROVE NoDoubleSpend OBVIOUS
  <2>1. Known = {Genesis} BY DEF Init, Known
  <2>2. Ancestors[Genesis] \ {Genesis} = {} BY AncestorsStep, BlockAssumption
  <2>3. KeyImagesOf(Ancestors[Genesis] \ {Genesis}) = {} BY <2>2 DEF KeyImagesOf
  <2> QED BY <2>1, <2>3 DEF NoDoubleSpend
<1>4. IInv /\ NoDoubleSpend /\ [Next]_treeVars => NoDoubleSpend'
  <2> SUFFICES ASSUME IInv, NoDoubleSpend, [Next]_treeVars PROVE NoDoubleSpend' OBVIOUS
  <2>1. CASE Known' = Known BY <2>1 DEF NoDoubleSpend
  <2>2. CASE \E b \in Block : Accepts(b) /\ Known' = Known \cup {b}
    BY <2>2, AcceptedSpendsOnce DEF NoDoubleSpend
  <2> QED BY <2>1, <2>2, KnownGrows
<1> QED BY <1>1, <1>2, <1>3, <1>4, PTL DEF Spec
-----------------------------------------------------------------------------

\* A leaf is on no lineage but its own.
LEMMA LeafOnOwnLineage ==
    ASSUME IInv, NEW s \in Segments, children[s] = {},
           NEW t \in Segments, s \in Lineage(parent, t)
    PROVE  s = t
<1> SUFFICES ASSUME s # t PROVE FALSE OBVIOUS
<1> DEFINE X == Segments \ {s}
<1>1. X \in SUBSET Segments /\ t \in X OBVIOUS
<1>2. \A x \in X \ {Genesis} : parent[x] \in X
  <2> TAKE x \in X \ {Genesis}
  <2>1. parent[x] \in Segments BY Shape
  <2>2. parent[x] # s BY DEF IInv, TreeShape
  <2> QED BY <2>1, <2>2
<1>3. Lineage(parent, t) \subseteq X
  <2> HIDE DEF X
  <2> QED BY Zenon, <1>1, <1>2, LineageFacts
<1> QED BY <1>3

\* The first block of a segment is an ancestor of its blocks, and the top of
\* every other segment of a lineage is an ancestor of the first block.
LEMMA TopsOfLineage ==
    ASSUME IInv, NEW t \in Segments
    PROVE  /\ \A b \in BlocksOf(t) : t \in Ancestors[b]
           /\ \A p \in Lineage(parent, t) \ {t} : Top(p) \in Ancestors[t]
<1>1. ASSUME NEW x \in Segments, NEW y \in Known, segmentOf[y] = x, NEW b \in Known,
             y \in Ancestors[b]
      PROVE  x \in Ancestors[b]
  <2>1. /\ x \in Known /\ segmentOf[x] = x /\ Index[x] <= Index[y]
        /\ b \in Block /\ Ancestors[b] \subseteq Known
    BY <1>1, Shape, AncestorsKnown
  <2> QED BY <1>1, <2>1, SegmentAncestors
<1>2. \A b \in BlocksOf(t) : t \in Ancestors[b]
  BY <1>1, Shape, AncestorsFacts DEF BlocksOf
<1> DEFINE X == {x \in Segments : x \in Ancestors[t] /\ (x = t \/ Top(x) \in Ancestors[t])}
<1>3. t \in Known /\ t \in Block BY Shape
<1>4. X \in SUBSET Segments /\ t \in X BY <1>3, AncestorsFacts
<1>5. ASSUME NEW x \in X \ {Genesis} PROVE parent[x] \in X
  <2>1. PICK p \in Segments : p = parent[x] /\ Prev[x] = Top(p) /\ segmentOf[Prev[x]] = p
    BY <1>5, Shape
  <2>2. Prev[x] \in Ancestors[t] BY <1>3, <1>5, AncestorsFacts
  <2>3. Prev[x] \in Known BY <2>2, <1>3, AncestorsKnown
  <2>4. p \in Ancestors[t] BY <1>1, <1>3, <2>1, <2>2, <2>3
  <2> QED BY <2>1, <2>2, <2>4
<1>6. Lineage(parent, t) \subseteq X
  <2> HIDE DEF X
  <2> QED BY Zenon, <1>4, <1>5, LineageFacts
<1> QED BY <1>2, <1>6

\* In a linked sequence that starts with the genesis block, the block at
\* position i has index i - 1.
LEMMA LinkedIndexes ==
    ASSUME NEW q \in Seq(Block), q # <<>>, q[1] = Genesis, Linked(q)
    PROVE  \A i \in 1 .. Len(q) : Index[q[i]] = i - 1
<1> DEFINE S == {i \in 1 .. Len(q) : Index[q[i]] # i - 1}
<1>1. S \in SUBSET Nat OBVIOUS
<1>2. ASSUME NEW i \in S PROVE FALSE
  <2>1. PICK m \in S : \A k \in S : m <= k
    <3> HIDE DEF S
    <3> QED BY <1>1, <1>2, LeastNat
  <2>2. m # 1 BY <2>1, BlockAssumption
  <2>3. m \in 2 .. Len(q) /\ m - 1 \in 1 .. Len(q) BY <2>1, <2>2
  <2>4. m - 1 \notin S BY <2>1, <2>3
  <2>5. Index[q[m - 1]] = m - 2 BY <2>3, <2>4
  <2>6. q[m] \in Block /\ q[m] # Genesis /\ Prev[q[m]] = q[m - 1] BY <2>3 DEF Linked
  <2>7. Index[q[m]] = Index[q[m - 1]] + 1 BY <2>6, BlockAssumption
  <2> QED BY <2>1, <2>3, <2>5, <2>7
<1> QED BY <1>2

\* Such a sequence holds every ancestor of its last block.
LEMMA LinkedHoldsAncestors ==
    ASSUME NEW q \in Seq(Block), q # <<>>, q[1] = Genesis, Linked(q),
           NEW c \in Ancestors[q[Len(q)]]
    PROVE  \E i \in 1 .. Len(q) : q[i] = c
<1> DEFINE X == {q[i] : i \in 1 .. Len(q)}
<1>1. X \in SUBSET Block /\ q[Len(q)] \in X /\ q[Len(q)] \in Block OBVIOUS
<1>2. ASSUME NEW x \in X \ {Genesis} PROVE Prev[x] \in X
  <2>1. PICK i \in 1 .. Len(q) : q[i] = x BY <1>2
  <2>2. i \in 2 .. Len(q) /\ i - 1 \in 1 .. Len(q) BY <1>2, <2>1
  <2>3. Prev[x] = q[i - 1] BY <2>1, <2>2 DEF Linked
  <2> QED BY <2>2, <2>3
<1>3. Ancestors[q[Len(q)]] \subseteq X
  <2> HIDE DEF X
  <2> QED BY Zenon, <1>1, <1>2, AncestorsFacts
<1> QED BY <1>3

\* Two linked sequences of which the second starts above the last block of
\* the first are linked one after the other.
LEMMA LinkedConcat ==
    ASSUME NEW q \in Seq(Block), NEW r \in Seq(Block), q # <<>>, r # <<>>,
           Linked(q), Linked(r), r[1] # Genesis, Prev[r[1]] = q[Len(q)]
    PROVE  /\ Linked(q \o r) /\ q \o r # <<>> /\ (q \o r)[1] = q[1]
           /\ (q \o r)[Len(q \o r)] = r[Len(r)]
<1>1. /\ Len(q) \in Nat \ {0} /\ Len(r) \in Nat \ {0} /\ Len(q \o r) = Len(q) + Len(r)
      /\ \A i \in 1 .. Len(q) : (q \o r)[i] = q[i]
      /\ \A i \in Len(q) + 1 .. Len(q) + Len(r) : (q \o r)[i] = r[i - Len(q)]
  OBVIOUS
<1>2. ASSUME NEW i \in 2 .. Len(q \o r)
      PROVE  (q \o r)[i] # Genesis /\ Prev[(q \o r)[i]] = (q \o r)[i - 1]
  <2>1. CASE i <= Len(q)
    <3>1. i \in 2 .. Len(q) /\ i - 1 \in 1 .. Len(q) /\ i \in 1 .. Len(q) BY <1>1, <2>1
    <3> QED BY <1>1, <3>1 DEF Linked
  <2>2. CASE i = Len(q) + 1
    <3>1. /\ i - 1 \in 1 .. Len(q) /\ i \in Len(q) + 1 .. Len(q) + Len(r)
          /\ i - Len(q) = 1 /\ i - 1 = Len(q)
      BY <1>1, <2>2
    <3> QED BY <1>1, <3>1
  <2>3. CASE i > Len(q) + 1
    <3>1. /\ i - Len(q) \in 2 .. Len(r) /\ i \in Len(q) + 1 .. Len(q) + Len(r)
          /\ i - 1 \in Len(q) + 1 .. Len(q) + Len(r) /\ (i - 1) - Len(q) = (i - Len(q)) - 1
      BY <1>1, <2>3
    <3> QED BY <1>1, <3>1 DEF Linked
  <2> QED BY <1>1, <2>1, <2>2, <2>3
<1> QED BY <1>1, <1>2 DEF Linked

\* A linked sequence with a block on top of its last one is linked.
LEMMA LinkedAppend ==
    ASSUME NEW q \in Seq(Block), q # <<>>, Linked(q),
           NEW b \in Block, b # Genesis, Prev[b] = q[Len(q)]
    PROVE  /\ Append(q, b) \in Seq(Block) /\ Append(q, b) # <<>> /\ Append(q, b)[1] = q[1]
           /\ Append(q, b)[Len(Append(q, b))] = b /\ Linked(Append(q, b))
<1>1. Linked(<<b>>) BY DEF Linked
<1>2. <<b>> \in Seq(Block) /\ <<b>> # <<>> /\ <<b>>[1] = b /\ Len(<<b>>) = 1 OBVIOUS
<1>3. Append(q, b) = q \o <<b>> OBVIOUS
<1>4. PICK r \in Seq(Block) : r = <<b>> BY <1>2
<1>5. /\ Linked(q \o r) /\ q \o r # <<>> /\ (q \o r)[1] = q[1]
      /\ (q \o r)[Len(q \o r)] = r[Len(r)]
  BY <1>1, <1>2, <1>4, LinkedConcat
<1>6. Append(q, b) \in Seq(Block) OBVIOUS
<1> QED BY Zenon, <1>2, <1>3, <1>4, <1>5, <1>6

\* The blocks of a segment in index order: a linked sequence from its first
\* block to its top.
LEMMA SegmentBlocksChain ==
    ASSUME IInv, NEW s \in Segments
    PROVE  /\ SegmentBlocks(s) \in Seq(Block) /\ SegmentBlocks(s) # <<>>
           /\ SegmentBlocks(s)[1] = s /\ Linked(SegmentBlocks(s))
           /\ SegmentBlocks(s)[Len(SegmentBlocks(s))] = Top(s)
           /\ \A i \in 1 .. Len(SegmentBlocks(s)) : SegmentBlocks(s)[i] \in BlocksOf(s)
<1> DEFINE Q == SegmentBlocks(s)
           k == Index[s]
           n == Index[Top(s)] - Index[s] + 1
<1>1. Top(s) \in Known /\ segmentOf[Top(s)] = s BY TopOfSegment DEF BlocksOf
<1>2. /\ k \in Nat /\ Index[Top(s)] \in Nat /\ k <= Index[Top(s)] /\ s \in Known
      /\ segmentOf[s] = s
  BY <1>1, Shape
<1>3. n \in Nat \ {0} BY <1>2
<1>4. Q \in Seq(Block) BY SegmentBlocksType
<1>5. Q = [i \in 1 .. n |-> CHOOSE c \in BlocksOf(s) : Index[c] = Index[s] + i - 1]
  BY DEF SegmentBlocks
<1> HIDE DEF Q
<1>6. Len(Q) = n
  <2>1. DOMAIN Q = 1 .. n BY <1>5
  <2> HIDE DEF n
  <2> QED BY <2>1, <1>3, <1>4
<1>7. ASSUME NEW i \in 1 .. n
      PROVE  Q[i] \in Known /\ segmentOf[Q[i]] = s /\ Index[Q[i]] = k + i - 1
  <2>1. k + i - 1 \in k .. Index[Top(s)] BY <1>2
  <2>2. PICK c \in Known : segmentOf[c] = s /\ Index[c] = k + i - 1
    BY <2>1, <1>1 DEF IInv, Contiguous
  <2>3. c \in BlocksOf(s) BY <2>2 DEF BlocksOf
  <2>4. Q[i] = CHOOSE x \in BlocksOf(s) : Index[x] = Index[s] + i - 1 BY <1>5
  <2>5. Q[i] \in BlocksOf(s) /\ Index[Q[i]] = k + i - 1 BY <2>2, <2>3, <2>4
  <2> QED BY <2>5 DEF BlocksOf
<1>8. Q[1] = s
  <2>1. 1 \in 1 .. n /\ k + 1 - 1 = k BY <1>2, <1>3
  <2>2. Q[1] \in Known /\ segmentOf[Q[1]] = s /\ Index[Q[1]] = k BY <1>7, <2>1
  <2> QED BY <1>2, <2>2, Shape
<1>9. Q[n] = Top(s)
  <2>1. n \in 1 .. n /\ k + n - 1 = Index[Top(s)] BY <1>2, <1>3
  <2>2. Q[n] \in Known /\ segmentOf[Q[n]] = s /\ Index[Q[n]] = Index[Top(s)]
    BY <1>7, <2>1
  <2> QED BY <1>1, <2>2, Shape
<1>10. Linked(Q)
  <2> SUFFICES ASSUME NEW i \in 2 .. n PROVE Q[i] # Genesis /\ Prev[Q[i]] = Q[i - 1]
    BY <1>6 DEF Linked
  <2>1. i \in 1 .. n /\ i - 1 \in 1 .. n BY <1>3
  <2>2. /\ Q[i] \in Known /\ segmentOf[Q[i]] = s /\ Index[Q[i]] = k + i - 1
        /\ Q[i - 1] \in Known /\ segmentOf[Q[i - 1]] = s
        /\ Index[Q[i - 1]] = k + (i - 1) - 1
    BY <1>7, <2>1
  <2>3. Q[i] # s BY <2>2, <1>2
  <2>4. Q[i] \notin Segments /\ Q[i] # Genesis BY <2>2, <2>3, Shape
  <2>5. /\ Prev[Q[i]] \in Known /\ segmentOf[Prev[Q[i]]] = s
        /\ Index[Q[i]] = Index[Prev[Q[i]]] + 1 /\ Index[Prev[Q[i]]] \in Nat
    BY <2>2, <2>4, Shape
  <2>6. Index[Prev[Q[i]]] = Index[Q[i - 1]]
    <3>1. k \in Int /\ i \in Int BY <1>2, <1>3
    <3>2. Index[Q[i - 1]] = k + i - 2 BY SMTT(60), <2>2, <3>1
    <3>3. Index[Prev[Q[i]]] = k + i - 2 BY SMTT(60), <2>2, <2>5, <3>1
    <3> QED BY <3>2, <3>3
  <2>7. \A x, y \in Known : segmentOf[x] = segmentOf[y] /\ Index[x] = Index[y] => x = y
    BY Zenon, Shape
  <2> QED BY Zenon, <2>2, <2>4, <2>5, <2>6, <2>7
<1>11. Q # <<>> /\ Q[Len(Q)] = Top(s) BY <1>3, <1>4, <1>6, <1>9
<1>12. \A i \in 1 .. Len(Q) : Q[i] \in BlocksOf(s) BY <1>6, <1>7 DEF BlocksOf
<1> QED BY Zenon, <1>4, <1>8, <1>10, <1>11, <1>12 DEF Q

\* With a block on top of the last it is still linked.
LEMMA SegmentBlocksLinked ==
    ASSUME IInv, NEW s \in Segments,
           NEW b \in Block, b # Genesis, Prev[b] = Top(s)
    PROVE  /\ Append(SegmentBlocks(s), b) \in Seq(Block)
           /\ Append(SegmentBlocks(s), b) # <<>>
           /\ Append(SegmentBlocks(s), b)[1] = s
           /\ Append(SegmentBlocks(s), b)[Len(Append(SegmentBlocks(s), b))] = b
           /\ Linked(Append(SegmentBlocks(s), b))
<1> PICK Q \in Seq(Block) : Q = SegmentBlocks(s) BY SegmentBlocksChain
<1>1. Q # <<>> /\ Q[1] = s /\ Q[Len(Q)] = Prev[b] /\ Linked(Q) BY SegmentBlocksChain
<1>2. /\ Append(Q, b) \in Seq(Block) /\ Append(Q, b) # <<>> /\ Append(Q, b)[1] = s
      /\ Append(Q, b)[Len(Append(Q, b))] = b /\ Linked(Append(Q, b))
  BY <1>1, LinkedAppend
<1> QED BY <1>2

\* A file that holds the chain from the genesis block to b.
ChainFile(q, b) ==
    q \in Seq(Block) /\ q # <<>> /\ q[1] = Genesis /\ Linked(q) /\ q[Len(q)] = b

\* What switchMainChainStorage makes of a file q when b is pushed to leaf s.
Switched(q, s, b) == SubSeq(q, 1, Index[s]) \o Append(SegmentBlocks(s), b)

\* When the parent segment of s is on the main chain the result is the new main
\* chain: the file's first Index[s] blocks end in the block below s.
LEMMA SwitchedFile ==
    ASSUME IInv, NEW b \in Block, Accepts(b), NEW s \in Segments, Prev[b] = Top(s),
           children[s] = {}, s # MainLeaf, parent[s] \in mainChainSet,
           NEW q, ChainFile(q, Tip)
    PROVE  /\ s # Genesis /\ Index[s] \in 1 .. Len(q) /\ ChainFile(Switched(q, s, b), b)
           /\ \A i \in 1 .. Index[s] :
                 i \in 1 .. Len(Switched(q, s, b)) /\ Switched(q, s, b)[i] = q[i]
<1>1. q \in Seq(Block) /\ q # <<>> /\ q[1] = Genesis /\ Linked(q) /\ q[Len(q)] = Tip
  BY DEF ChainFile
<1>4. /\ MainLeaf \in Segments /\ Tip \in BlocksOf(MainLeaf) /\ children[MainLeaf] = {}
      /\ mainChainSet = Lineage(parent, MainLeaf) /\ Tip \in Block
  BY MainLeafIsSegment, Shape DEF BlocksOf, IInv, MainLine
<1>6. PICK p \in Lineage(parent, MainLeaf) : p = parent[s] BY <1>4
<1>7. p \in Segments /\ s # Genesis
  <2>1. Lineage(parent, MainLeaf) \subseteq Segments BY ZenonT(60), <1>4, LineageFacts
  <2>2. Genesis \in Segments /\ parent[Genesis] = NoSegment /\ NoSegment \notin Segments
    BY Zenon, Shape, BlockAssumption DEF IInv, TypeOK
  <2> QED BY ZenonT(60), <2>1, <2>2, <1>6
<1>8. p # MainLeaf BY <1>4, <1>6, <1>7 DEF IInv, TreeShape
<1>9. Prev[s] \in Ancestors[Tip]
  <2>1. Prev[s] = Top(p) BY <1>6, <1>7, Shape
  <2>2. Top(p) \in Ancestors[MainLeaf] BY <1>4, <1>6, <1>8, TopsOfLineage
  <2>3. MainLeaf \in Ancestors[Tip] BY <1>4, TopsOfLineage
  <2>4. Ancestors[MainLeaf] \subseteq Ancestors[Tip] BY Zenon, <1>4, <2>3, AncestorsFacts
  <2> QED BY Zenon, <2>1, <2>2, <2>4
<1> DEFINE k == Index[s]
           r == Append(SegmentBlocks(s), b)
<1>11. PICK j \in 1 .. Len(q) : q[j] = Prev[s] BY <1>1, <1>9, LinkedHoldsAncestors
<1>12. Index[Prev[s]] = j - 1 BY <1>1, <1>11, LinkedIndexes
<1>13. k = j
  <2>1. k = Index[Prev[s]] + 1 BY <1>7, Shape
  <2> QED BY <1>12, <2>1
<1>14. /\ r \in Seq(Block) /\ r # <<>> /\ r[1] = s /\ r[Len(r)] = b /\ Linked(r)
  <2>1. b # Genesis BY ValidIsNew
  <2> QED BY ZenonT(60), <2>1, SegmentBlocksLinked
<1> HIDE DEF r, k
<1> DEFINE h == SubSeq(q, 1, k)
<1>15. /\ h \in Seq(Block) /\ h # <<>> /\ Len(h) = k /\ h[1] = Genesis /\ h[k] = Prev[s]
       /\ \A i \in 1 .. k : h[i] = q[i]
  BY <1>1, <1>11, <1>13
<1>16. Linked(h)
  <2>1. \A i \in 2 .. k : i \in 2 .. Len(q) /\ i \in 1 .. k /\ i - 1 \in 1 .. k
    BY <1>1, <1>11, <1>13
  <2> HIDE DEF h
  <2> QED BY <1>1, <1>15, <2>1 DEF Linked
<1> HIDE DEF h
<1>17. /\ Linked(h \o r) /\ h \o r # <<>> /\ (h \o r)[1] = Genesis
       /\ (h \o r)[Len(h \o r)] = b
  BY <1>7, <1>14, <1>15, <1>16, LinkedConcat
<1>18. /\ h \o r \in Seq(Block)
       /\ \A i \in 1 .. k : i \in 1 .. Len(h \o r) /\ (h \o r)[i] = h[i]
  BY <1>14, <1>15
<1>19. Switched(q, s, b) = h \o r BY DEF Switched, h, r, k
<1>20. k \in 1 .. Len(q) BY <1>11, <1>13
<1>21. ChainFile(h \o r, b) BY <1>17, <1>18 DEF ChainFile
<1>22. \A i \in 1 .. k : (h \o r)[i] = q[i] BY Zenon, <1>15, <1>18
<1> QED BY Zenon, <1>7, <1>18, <1>19, <1>20, <1>21, <1>22 DEF k

\* Such a switch rewrites the file into the new main chain.
LEMMA SwitchKeepsFile ==
    ASSUME IInv, NEW b \in Block, SwitchToAlternative(b), StorageIsMainChain,
           parent[segmentOf[Prev[b]]] \in mainChainSet
    PROVE  StorageIsMainChain'
<1>0. Accepts(b) BY DEF SwitchToAlternative
<1> PICK s \in Segments : s = segmentOf[Prev[b]] BY <1>0, ValidIsNew
<1>1. /\ Prev[b] = Top(s) /\ children[s] = {} /\ s # MainLeaf
      /\ SwitchMainChainStorage(s, b)
      /\ Cumulative[b] > Cumulative[Tip] /\ status = "running"
  BY ZenonT(60) DEF SwitchToAlternative, OnTop, Childless, Heavier
<1>3. Tip' = b BY <1>1, SwitchStep DEF FC!Add
<1>9. PICK q \in Seq(Block) : q = mainChainStorage BY DEF IInv, TypeOK
<1>10. ChainFile(q, Tip) BY <1>1, <1>9 DEF StorageIsMainChain, ChainFile
<1>11. Index[s] \in 1 .. Len(q) /\ ChainFile(Switched(q, s, b), b)
  <2>1. parent[s] \in mainChainSet OBVIOUS
  <2> QED BY Zenon, <1>0, <1>1, <1>10, <2>1, SwitchedFile
<1>12. ~(Len(mainChainStorage) < Index[s])
  <2>1. Len(q) \in Nat OBVIOUS
  <2> QED BY <1>9, <1>11, <2>1
<1>18. mainChainStorage' = Switched(q, s, b)
  BY <1>1, <1>9, <1>12 DEF SwitchMainChainStorage, Switched
<1> QED BY <1>3, <1>11, <1>18 DEF StorageIsMainChain, ChainFile

\* A step keeps the main chain file equal to the main chain, unless it
\* switches to a leaf whose parent segment is off the main chain.
LEMMA StepKeepsFile ==
    ASSUME IInv, [Next]_treeVars, StorageIsMainChain, status' = "running",
           \A b \in Block : SwitchToAlternative(b) => parent[segmentOf[Prev[b]]] \in mainChainSet
    PROVE  StorageIsMainChain'
<1>1. ASSUME UNCHANGED <<mainChainStorage, Tip, status>> PROVE StorageIsMainChain'
  BY <1>1 DEF StorageIsMainChain
<1>2. CASE UNCHANGED treeVars
  <2>1. UNCHANGED <<Known, Tip>> BY <1>2, StutterStep DEF treeVars, IInv, TypeOK
  <2> QED BY <1>1, <1>2, <2>1 DEF treeVars
<1>3. CASE Undefined BY <1>3 DEF Undefined, treeVars
<1>4. ASSUME NEW b \in Block, AddBlock(b) \/ RejectBlock(b) PROVE StorageIsMainChain'
  <2>1. CASE PushToMain(b)
    <3>1. /\ Accepts(b) /\ Prev[b] = Tip /\ status = "running"
          /\ mainChainStorage' = Append(mainChainStorage, b)
      BY <2>1 DEF PushToMain, OnTop, Tip
    <3>2. b # Genesis /\ Cumulative[b] > Cumulative[Prev[b]] BY <3>1, ValidIsNew
    <3>3. Tip' = b BY <2>1, <3>1, <3>2, PushToMainStep DEF FC!Add
    <3>4. PICK q \in Seq(Block) : q = mainChainStorage BY DEF IInv, TypeOK
    <3>5. q # <<>> /\ q[1] = Genesis /\ Linked(q) /\ q[Len(q)] = Tip
      BY <3>1, <3>4 DEF StorageIsMainChain
    <3>6. /\ Linked(Append(q, b)) /\ Append(q, b) # <<>> /\ Append(q, b)[1] = Genesis
          /\ Append(q, b)[Len(Append(q, b))] = b
      BY <3>1, <3>2, <3>4, <3>5, LinkedAppend
    <3> QED BY <3>1, <3>3, <3>4, <3>6 DEF StorageIsMainChain
  <2>2. CASE PushToAlternative(b)
    <3>1. Tip' = Tip BY <2>2, PushToAlternativeStep DEF FC!Add, PushToAlternative, Heavier
    <3> QED BY <1>1, <2>2, <3>1 DEF PushToAlternative
  <2>3. CASE SwitchToAlternative(b) BY <2>3, SwitchKeepsFile
  <2>4. CASE ForkAtTop(b)
    <3>1. UNCHANGED <<status, mainChainStorage>> BY <2>4 DEF ForkAtTop
    <3> QED BY <1>1, <2>4, <3>1, ForkAtTopStep
  <2>5. CASE SplitSegment(b)
    <3>1. UNCHANGED <<status, mainChainStorage>> BY <2>5 DEF SplitSegment
    <3> QED BY <1>1, <2>5, <3>1, SplitStep
  <2>6. CASE SplitOfNonLeaf(b) BY <2>6 DEF SplitOfNonLeaf
  <2>7. CASE RejectBlock(b) BY <1>2, <2>7 DEF RejectBlock
  <2> QED BY <1>4, <2>1, <2>2, <2>3, <2>4, <2>5, <2>6, <2>7 DEF AddBlock
<1> QED BY <1>2, <1>3, <1>4 DEF Next

\* Every step keeps the main chain file equal to the main chain, unless it
\* switches to a leaf whose parent segment is off the main chain.
THEOREM FileFollowsMainChain == Spec => StorageFollows
<1>1. Init => IInv BY InitInv
<1>2. IInv /\ [Next]_treeVars => IInv' BY NextInv
<1> DEFINE Follows ==
      (StorageIsMainChain /\ status' = "running"
         /\ (MainLeaf' \in mainChainSet \/ parent'[MainLeaf'] \in mainChainSet))
      => StorageIsMainChain'
<1>3. IInv /\ [Next]_treeVars => [Follows]_treeVars
  <2> SUFFICES ASSUME IInv, [Next]_treeVars, StorageIsMainChain, status' = "running",
                      MainLeaf' \in mainChainSet \/ parent'[MainLeaf'] \in mainChainSet
               PROVE  StorageIsMainChain'
    OBVIOUS
  <2>1. ASSUME NEW b \in Block, SwitchToAlternative(b)
        PROVE  parent[segmentOf[Prev[b]]] \in mainChainSet
    <3>0. Accepts(b) BY <2>1 DEF SwitchToAlternative
    <3> PICK s \in Segments : s = segmentOf[Prev[b]] BY <3>0, ValidIsNew
    <3>1. /\ children[s] = {} /\ s # MainLeaf /\ parent' = parent
          /\ chainsLeaves' = [i \in DOMAIN chainsLeaves |->
                                IF i = 1 THEN s
                                ELSE IF chainsLeaves[i] = s THEN MainLeaf
                                ELSE chainsLeaves[i]]
      BY ZenonT(60), <2>1 DEF SwitchToAlternative, Childless
    <3>2. MainLeaf' = s BY <3>1, MainLeafIsSegment DEF MainLeaf
    <3>3. MainLeaf \in Segments /\ mainChainSet = Lineage(parent, MainLeaf)
      BY MainLeafIsSegment DEF IInv, MainLine
    <3>4. s \notin mainChainSet BY <3>1, <3>3, LeafOnOwnLineage
    <3> QED BY <3>1, <3>2, <3>4
  <2> QED BY <2>1, StepKeepsFile
<1> QED BY <1>1, <1>2, <1>3, PTL DEF Spec, StorageFollows
=============================================================================
