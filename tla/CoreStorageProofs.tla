------------------------- MODULE CoreStorageProofs -------------------------
(***************************************************************************)
(* Proofs about the life of a node around its block tree, for every set of *)
(* blocks and however often it stops, rewinds and starts again: the tree   *)
(* keeps its shape, the database holds one linked chain, and, as long as   *)
(* no switch goes to a leaf whose parent segment is off the main chain,    *)
(* the file and the database always come together again.                   *)
(***************************************************************************)
EXTENDS CoreStorage, ChainTreeProofs

-----------------------------------------------------------------------------
(* Chains as sets of ancestors *)

\* A block has exactly one ancestor at every index up to its own.
LEMMA AncestorsLine ==
    ASSUME NEW t \in Block
    PROVE  /\ \A c, d \in Ancestors[t] : Index[c] = Index[d] => c = d
           /\ \A i \in 0 .. Index[t] : \E c \in Ancestors[t] : Index[c] = i
<1> DEFINE P(b) == /\ \A c, d \in Ancestors[b] : Index[c] = Index[d] => c = d
                   /\ \A i \in 0 .. Index[b] : \E c \in Ancestors[b] : Index[c] = i
           Bad == {b \in Block : ~P(b)}
           S == {Index[b] : b \in Bad}
<1>1. S \in SUBSET Nat BY BlockAssumption
<1>2. ASSUME NEW x \in Bad PROVE FALSE
  <2>1. Index[x] \in S OBVIOUS
  <2>2. PICK m \in S : \A k \in S : m <= k
    <3> HIDE DEF S
    <3> QED BY <1>1, <2>1, LeastNat
  <2>3. PICK b \in Bad : m = Index[b] OBVIOUS
  <2>4. b \in Block /\ ~P(b) OBVIOUS
  <2>5. CASE b = Genesis
    <3>1. Ancestors[b] = {b} /\ Index[b] = 0 BY <2>5, AncestorsStep, BlockAssumption
    <3>2. \A i \in 0 .. Index[b] : Index[b] = i BY <3>1
    <3>3. P(b) BY Zenon, <3>1, <3>2
    <3> QED BY <2>4, <3>3
  <2>6. CASE b # Genesis
    <3>1. /\ Prev[b] \in Block /\ Index[Prev[b]] \in Nat /\ Index[b] = Index[Prev[b]] + 1
      BY <2>4, <2>6, BlockAssumption
    <3>2. P(Prev[b])
      <4> SUFFICES ASSUME ~P(Prev[b]) PROVE FALSE OBVIOUS
      <4>1. Index[Prev[b]] \in S BY <3>1
      <4>2. m <= Index[Prev[b]] BY <2>2, <4>1
      <4> HIDE DEF S, Bad, P
      <4> QED BY <2>3, <3>1, <4>2
    <3>3. Ancestors[b] = {b} \cup Ancestors[Prev[b]] BY <2>4, <2>6, AncestorsStep
    <3>4. \A c \in Ancestors[Prev[b]] : c \in Block /\ Index[c] \in Nat /\ Index[c] <= Index[Prev[b]]
      BY <3>1, AncestorsFacts, BlockAssumption
    <3>5. \A c, d \in Ancestors[b] : Index[c] = Index[d] => c = d
      <4>1. \A c \in Ancestors[Prev[b]] : Index[c] # Index[b] BY <3>1, <3>4
      <4> QED BY Zenon, <3>2, <3>3, <4>1
    <3>6. \A i \in 0 .. Index[b] : \E c \in Ancestors[b] : Index[c] = i
      <4> TAKE i \in 0 .. Index[b]
      <4>1. i = Index[b] \/ i \in 0 .. Index[Prev[b]] BY <3>1
      <4> QED BY Zenon, <3>2, <3>3, <4>1
    <3> QED BY Zenon, <2>4, <3>5, <3>6
  <2> QED BY <2>5, <2>6
<1>3. P(t)
  <2> HIDE DEF P
  <2> QED BY <1>2
<1> QED BY Zenon, <1>3

\* The genesis block is everybody's ancestor.
LEMMA GenesisFirst ==
    ASSUME NEW t \in Block
    PROVE  Genesis \in Ancestors[t]
<1>1. PICK c \in Ancestors[t] : Index[c] = 0
  <2>1. 0 \in 0 .. Index[t] BY BlockAssumption
  <2> QED BY Zenon, <2>1, AncestorsLine
<1>2. c \in Block BY AncestorsFacts
<1>3. c = Genesis BY <1>1, <1>2, BlockAssumption
<1> QED BY <1>1, <1>3

\* The ancestors of t that are not above its ancestor c are those of c.
LEMMA AncestorsCut ==
    ASSUME NEW t \in Block, NEW c \in Ancestors[t]
    PROVE  {x \in Ancestors[t] : Index[x] <= Index[c]} = Ancestors[c]
<1>1. c \in Block /\ Ancestors[c] \subseteq Ancestors[t] /\ Ancestors[t] \subseteq Block
  BY AncestorsFacts
<1>2. \A x \in Ancestors[c] : Index[x] <= Index[c] BY <1>1, AncestorsFacts
<1>3. ASSUME NEW x \in Ancestors[t], Index[x] <= Index[c] PROVE x \in Ancestors[c]
  <2>1. Index[x] \in 0 .. Index[c] BY <1>1, <1>3, BlockAssumption
  <2>2. PICK y \in Ancestors[c] : Index[y] = Index[x] BY <1>1, <2>1, AncestorsLine
  <2> QED BY <1>1, <2>2, AncestorsLine
<1> QED BY Zenon, <1>1, <1>2, <1>3

\* A file from the genesis block to b holds the ancestors of b, each at the
\* position its index says.
LEMMA ChainFileIs ==
    ASSUME NEW q, NEW b, ChainFile(q, b)
    PROVE  /\ b \in Block /\ Len(q) = Index[b] + 1
           /\ \A i \in 1 .. Len(q) : q[i] \in Ancestors[b] /\ Index[q[i]] = i - 1
           /\ \A c \in Ancestors[b] : Index[c] + 1 \in 1 .. Len(q) /\ q[Index[c] + 1] = c
           /\ {q[i] : i \in 1 .. Len(q)} = Ancestors[b]
<1>1. q \in Seq(Block) /\ q # <<>> /\ q[1] = Genesis /\ Linked(q) /\ q[Len(q)] = b
  BY DEF ChainFile
<1>2. b \in Block /\ Len(q) \in 1 .. Len(q) /\ Len(q) \in Nat BY <1>1
<1>3. \A i \in 1 .. Len(q) : q[i] \in Block /\ Index[q[i]] = i - 1 BY <1>1, LinkedIndexes
<1>4. Len(q) = Index[b] + 1
  <2>1. Index[b] = Len(q) - 1 BY <1>1, <1>2, <1>3
  <2> QED BY <1>2, <2>1
<1>5. \A c \in Ancestors[b] : Index[c] + 1 \in 1 .. Len(q) /\ q[Index[c] + 1] = c
  <2> TAKE c \in Ancestors[b]
  <2>1. PICK i \in 1 .. Len(q) : q[i] = c BY ZenonT(60), <1>1, LinkedHoldsAncestors
  <2>2. i \in Int /\ Index[c] = i - 1
    <3>1. i \in Int BY <1>2
    <3> QED BY Zenon, <1>3, <2>1, <3>1
  <2>3. i = Index[c] + 1 BY <2>2
  <2> QED BY <2>1, <2>3
<1>6. \A i \in 1 .. Len(q) : q[i] \in Ancestors[b]
  <2> TAKE i \in 1 .. Len(q)
  <2>1. i - 1 \in 0 .. Index[b] BY <1>2, <1>4, BlockAssumption
  <2>2. PICK c \in Ancestors[b] : Index[c] = i - 1 BY <1>2, <2>1, AncestorsLine
  <2>3. i \in Int /\ i - 1 + 1 = i BY <1>2
  <2>4. Index[c] + 1 = i BY Zenon, <2>2, <2>3
  <2> QED BY Zenon, <1>5, <2>2, <2>4
<1>7. \A c \in Ancestors[b] : \E i \in 1 .. Len(q) : q[i] = c BY Zenon, <1>5
<1>8. {q[i] : i \in 1 .. Len(q)} = Ancestors[b] BY <1>6, <1>7
<1>9. \A i \in 1 .. Len(q) : Index[q[i]] = i - 1 BY <1>3
<1> QED BY <1>2, <1>4, <1>5, <1>6, <1>8, <1>9

\* A prefix of such a file is one too.
LEMMA ChainFilePrefix ==
    ASSUME NEW q, NEW b, ChainFile(q, b), NEW k \in 1 .. Len(q)
    PROVE  ChainFile(SubSeq(q, 1, k), q[k])
<1>1. q \in Seq(Block) /\ q # <<>> /\ q[1] = Genesis /\ Linked(q) BY DEF ChainFile
<1> DEFINE h == SubSeq(q, 1, k)
<1>2. /\ h \in Seq(Block) /\ h # <<>> /\ Len(h) = k /\ h[1] = q[1] /\ h[k] = q[k]
      /\ \A i \in 1 .. k : h[i] = q[i]
  BY <1>1
<1>3. \A i \in 2 .. k : i \in 2 .. Len(q) /\ i \in 1 .. k /\ i - 1 \in 1 .. k BY <1>1
<1> HIDE DEF h
<1>4. Linked(h) BY <1>1, <1>2, <1>3 DEF Linked
<1>5. ChainFile(h, q[k]) BY <1>1, <1>2, <1>4 DEF ChainFile
<1> QED BY <1>5 DEF h
-----------------------------------------------------------------------------
(* The root segment *)

\* The root segment, which the database holds, is one chain.
LEMMA RootIsChain ==
    ASSUME IInv
    PROVE  /\ Genesis \in Segments /\ Top(Genesis) \in Block
           /\ BlocksOf(Genesis) = Ancestors[Top(Genesis)]
<1>1. Genesis \in Segments /\ Known \subseteq Block /\ parent[Genesis] = NoSegment
  BY Shape DEF IInv, TreeShape
<1>2. Top(Genesis) \in BlocksOf(Genesis) /\ \A c \in BlocksOf(Genesis) : Index[c] <= Index[Top(Genesis)]
  BY <1>1, TopOfSegment
<1>3. Top(Genesis) \in Known /\ segmentOf[Top(Genesis)] = Genesis BY <1>2 DEF BlocksOf
<1>4. Lineage(parent, Genesis) = {Genesis}
  <2>1. {Genesis} \in SUBSET Segments /\ Genesis \in Lineage(parent, Genesis)
    BY <1>1, LineageFacts
  <2>2. Lineage(parent, Genesis) \subseteq {Genesis}
    BY <1>1, <2>1 DEF Lineage, Segments
  <2> QED BY <2>1, <2>2
<1>5. ChainUpTo(Genesis, Index[Top(Genesis)]) = Ancestors[Top(Genesis)] BY <1>3, PathOfBlock
<1>6. ChainUpTo(Genesis, Index[Top(Genesis)]) = BlocksOf(Genesis)
  BY <1>2, <1>4 DEF ChainUpTo, BlocksOf
<1> QED BY <1>1, <1>3, <1>5, <1>6

\* The main chain is the chain of its tip, and starts with the root segment.
LEMMA MainIsChain ==
    ASSUME IInv
    PROVE  /\ Tip \in Block /\ MainBlocks = Ancestors[Tip]
           /\ BlocksOf(Genesis) \subseteq Ancestors[Tip]
           /\ Top(Genesis) \in Ancestors[Tip]
<1>1. /\ Tip \in Known /\ segmentOf[Tip] = MainLeaf /\ Known \subseteq Block
      /\ MainLeaf \in Segments
  BY MainLeafIsSegment, Shape
<1>2. MainBlocks = Ancestors[Tip] BY <1>1, PathOfBlock DEF MainBlocks
<1>3. Genesis \in Lineage(parent, MainLeaf)
  <2>1. Genesis \in MainBlocks BY <1>1, <1>2, GenesisFirst
  <2>2. segmentOf[Genesis] = Genesis BY Shape
  <2> QED BY <2>1, <2>2 DEF MainBlocks, ChainUpTo
<1>4. Top(Genesis) \in Ancestors[Tip]
  <2>1. Tip \in BlocksOf(MainLeaf) BY <1>1 DEF BlocksOf
  <2>2. MainLeaf \in Ancestors[Tip] BY <1>1, <2>1, TopsOfLineage
  <2>3. CASE MainLeaf = Genesis BY <1>1, <2>3, AncestorsFacts DEF Tip
  <2>4. CASE MainLeaf # Genesis
    <3>1. Top(Genesis) \in Ancestors[MainLeaf] BY <1>1, <1>3, <2>4, TopsOfLineage
    <3> QED BY <1>1, <2>2, <3>1, AncestorsFacts
  <2> QED BY <2>3, <2>4
<1>5. Ancestors[Top(Genesis)] \subseteq Ancestors[Tip] BY <1>1, <1>4, AncestorsFacts
<1> QED BY <1>1, <1>2, <1>4, <1>5, RootIsChain

\* The database's blocks, in order.
LEMMA DbIsChain ==
    ASSUME IInv
    PROVE  ChainFile(Db, Top(Genesis))
<1>1. Genesis \in Segments BY RootIsChain
<1> QED BY <1>1, SegmentBlocksChain DEF Db, ChainFile

\* A tree that is only its root segment, holding a chain, satisfies the
\* invariant.
LEMMA RootOnlyKeeps ==
    ASSUME NEW t \in Block, RootOnly(Ancestors[t]), status \in Status,
           mainChainStorage' \in Seq(Block)
    PROVE  /\ IInv' /\ Known' = Ancestors[t] /\ Tip' = t /\ Top(Genesis)' = t
           /\ Segments' = {Genesis}
<1> USE DEF RootOnly
<1>0. Genesis \in Ancestors[t] /\ Ancestors[t] \subseteq Block /\ t \in Ancestors[t]
  BY GenesisFirst, AncestorsFacts
<1>1. Known' = Ancestors[t] /\ Segments' = {Genesis} BY Zenon DEF Known, Segments
<1>2. \A b \in Ancestors[t] : segmentOf'[b] = Genesis BY Zenon
<1>3. BlocksOf(Genesis)' = Ancestors[t] BY Zenon, <1>1, <1>2 DEF BlocksOf
<1>4. Top(Genesis)' = t
  <2>1. \A c \in Ancestors[t] : Index[c] <= Index[t] BY AncestorsFacts
  <2>2. \A c, d \in Ancestors[t] : Index[c] = Index[d] => c = d BY AncestorsLine
  <2>3. Highest(Ancestors[t]) = t BY <1>0, <2>1, <2>2, HighestIs
  <2> QED BY Zenon, <1>3, <2>3 DEF Top
<1>5. Tip' = t
  <2>1. MainLeaf' = Genesis BY DEF MainLeaf
  <2> QED BY Zenon, <1>4, <2>1 DEF Tip, Top
<1>6. TypeOK'
  <2>1. segmentOf' \in [Known' -> Segments'] BY Zenon, <1>1
  <2>2. parent' \in [Segments' -> Segments' \cup {NoSegment}] BY Zenon, <1>1
  <2>3. children' \in [Segments' -> SUBSET Segments'] BY <1>1
  <2>4. chainsLeaves' \in Seq(Segments') /\ chainsLeaves' # <<>> BY <1>1
  <2>5. status' \in Status BY Zenon
  <2>6. Known' \subseteq Block /\ Genesis \in Segments' /\ Segments' \subseteq Known'
        /\ mainChainSet' \subseteq Segments'
    BY Zenon, <1>0, <1>1
  <2> QED BY Zenon, <2>1, <2>2, <2>3, <2>4, <2>5, <2>6 DEF TypeOK
<1>7. TreeShape'
  <2>1. \A b \in Known' \ {Genesis} : Prev[b] \in Known' BY Zenon, <1>1, AncestorsFacts
  <2>2. \A s \in Segments' : segmentOf'[s] = s BY Zenon, <1>0, <1>1, <1>2
  <2>3. \A b \in Known' \ Segments' : segmentOf'[Prev[b]] = segmentOf'[b]
    BY Zenon, <1>1, <1>2, <2>1
  <2>4. \A s \in Segments', b, c \in Known' :
          segmentOf'[b] = s /\ segmentOf'[c] = s /\ Index[b] = Index[c] => b = c
    BY Zenon, <1>1, AncestorsLine
  <2>5. Segments' \ {Genesis} = {} BY Zenon, <1>1
  <2>6. parent'[Genesis] = NoSegment /\ children'[Genesis] = {} BY Zenon
  <2>7. Genesis # NoSegment BY BlockAssumption
  <2>8. \A s, u \in Segments' : u \in children'[s] <=> parent'[u] = s BY Zenon, <1>1, <2>6, <2>7
  <2> QED BY Zenon, <2>1, <2>2, <2>3, <2>4, <2>5, <2>6, <2>8 DEF TreeShape
<1>8. Contiguous'
  <2>1. \A s \in Segments' : \E b \in BlocksOf(s)' : \A c \in BlocksOf(s)' : Index[c] <= Index[b]
    <3>1. \A c \in Ancestors[t] : Index[c] <= Index[t] BY AncestorsFacts
    <3>2. \E b \in BlocksOf(Genesis)' : \A c \in BlocksOf(Genesis)' : Index[c] <= Index[b]
      BY Zenon, <1>0, <1>3, <3>1
    <3> QED BY Zenon, <1>1, <3>2 DEF BlocksOf
  <2>2. \A b \in Known' : Index[segmentOf'[b]] <= Index[b]
    <3> TAKE b \in Known'
    <3>1. segmentOf'[b] = Genesis /\ b \in Block BY Zenon, <1>0, <1>1, <1>2
    <3> QED BY <3>1, BlockAssumption
  <2>3. \A b \in Known' : \A i \in Index[segmentOf'[b]] .. Index[b] :
           \E c \in Known' : segmentOf'[c] = segmentOf'[b] /\ Index[c] = i
    <3> TAKE b \in Known'
    <3> TAKE i \in Index[segmentOf'[b]] .. Index[b]
    <3>1. segmentOf'[b] = Genesis /\ b \in Ancestors[t] /\ b \in Block BY Zenon, <1>0, <1>1, <1>2
    <3>2. i \in 0 .. Index[b] BY <3>1, BlockAssumption
    <3>3. PICK c \in Ancestors[b] : Index[c] = i BY Zenon, <3>1, <3>2, AncestorsLine
    <3>4. c \in Ancestors[t] BY Zenon, <3>1, <3>3, AncestorsFacts
    <3> QED BY Zenon, <1>1, <1>2, <3>1, <3>3, <3>4
  <2> QED BY Zenon, <2>1, <2>2, <2>3 DEF Contiguous
<1>9. LeavesChildless' BY DEF LeavesChildless
<1>10. LeavesListed' BY <1>1 DEF LeavesListed
<1>11. MainLine'
  <2>1. Genesis # NoSegment BY BlockAssumption
  <2>2. Lineage(parent', Genesis) = {Genesis} BY Zenon, <2>1 DEF Lineage
  <2> QED BY <2>2 DEF MainLine, MainLeaf
<1>12. HeaviestChain'
  <2>1. \A b \in Known' : Cumulative[b] <= Cumulative[t] BY Zenon, <1>1, AncestorsFacts
  <2> QED BY Zenon, <1>5, <2>1 DEF HeaviestChain
<1> QED BY Zenon, <1>1, <1>4, <1>5, <1>6, <1>7, <1>8, <1>9, <1>10, <1>11, <1>12 DEF IInv
-----------------------------------------------------------------------------
(* findCommonRoot *)

\* The last index at which both stores have a block.
LastCommon(file, db) == (IF Len(file) < Len(db) THEN Len(file) ELSE Len(db)) - 1

\* The stores hold the same block at position i.
SameAt(file, db, i) == file[i] = db[i]

\* The binary search always looks between its bounds.
LEMMA CheckElement ==
    ASSUME NEW l \in Nat, NEW r \in Nat, l < r
    PROVE  l + (r - l) \div 2 + 1 \in l + 1 .. r
<1> DEFINE h == (r - l) \div 2
<1>1. h \in Nat /\ h < r - l /\ h >= 0 OBVIOUS
<1> HIDE DEF h
<1>2. l + h + 1 \in l + 1 .. r BY <1>1
<1> QED BY <1>2 DEF h

\* The index it finds is one at which the file and the database agree; when they
\* agree wherever both have a block, it is the last of them.
LEMMA CommonRoot ==
    ASSUME NEW file, NEW db, LastCommon(file, db) \in Nat, SameAt(file, db, 1)
    PROVE  /\ FindCommonRoot(file, db) \in 0 .. LastCommon(file, db)
           /\ SameAt(file, db, FindCommonRoot(file, db) + 1)
           /\ (\A i \in 1 .. LastCommon(file, db) + 1 : SameAt(file, db, i))
              => FindCommonRoot(file, db) = LastCommon(file, db)
<1>0. PICK last \in Nat : last = LastCommon(file, db) OBVIOUS
<1> DEFINE D == (0 .. last) \X (0 .. last)
           Check(p) == p[1] + (p[2] - p[1]) \div 2 + 1
           Body(f, p) == IF p[1] >= p[2] THEN p[1]
                         ELSE IF file[Check(p) + 1] = db[Check(p) + 1]
                              THEN f[<<Check(p), p[2]>>] ELSE f[<<p[1], Check(p) - 1>>]
           Solves(f) == f = [p \in D |-> Body(f, p)]
           F == CHOOSE f : Solves(f)
<1>1. FindCommonRoot(file, db) = F[<<0, last>>] BY <1>0 DEF FindCommonRoot, LastCommon
<1>2. ASSUME NEW p \in D, p[1] < p[2]
      PROVE  /\ <<Check(p), p[2]>> \in D /\ p[2] - Check(p) < p[2] - p[1] /\ Check(p) <= p[2]
             /\ <<p[1], Check(p) - 1>> \in D /\ (Check(p) - 1) - p[1] < p[2] - p[1]
             /\ p[1] <= Check(p) - 1 /\ Check(p) \in 0 .. last
  <2>1. p[1] \in 0 .. last /\ p[2] \in 0 .. last OBVIOUS
  <2>2. Check(p) \in p[1] + 1 .. p[2] BY <1>2, <2>1, CheckElement
  <2> DEFINE c == Check(p)
             l == p[1]
             r == p[2]
  <2>3. c \in l + 1 .. r /\ l \in 0 .. last /\ r \in 0 .. last /\ l < r BY <1>2, <2>1, <2>2
  <2> HIDE DEF c, l, r
  <2>4. /\ c \in 0 .. last /\ c - 1 \in 0 .. last /\ r - c < r - l /\ c <= r
        /\ (c - 1) - l < r - l /\ l <= c - 1
    BY <2>3
  <2>5. <<c, r>> \in D /\ <<l, c - 1>> \in D BY <2>3, <2>4
  <2> HIDE DEF D
  <2> QED BY <2>4, <2>5 DEF c, l, r
<1>3. \A p \in D : p[1] \in 0 .. last /\ p[2] \in 0 .. last OBVIOUS
<1>4. <<0, last>> \in D /\ <<0, last>>[1] = 0 /\ <<0, last>>[2] = last OBVIOUS
<1> HIDE DEF D, Check
<1>5. \E f : Solves(f)
  <2> DEFINE Upto(n) == \E f : /\ f = [p \in D |-> f[p]]
                               /\ \A p \in D : p[2] - p[1] < n => f[p] = Body(f, p)
             Bad == {n \in Nat : ~Upto(n)}
  <2>1. ASSUME NEW x \in Bad PROVE FALSE
    <3>1. PICK m \in Bad : \A k \in Bad : m <= k
      <4>1. Bad \in SUBSET Nat OBVIOUS
      <4> HIDE DEF Bad
      <4> QED BY <2>1, <4>1, LeastNat
    <3>2. m \in Nat /\ ~Upto(m) OBVIOUS
    <3>3. CASE m = 0
      <4> DEFINE f == [p \in D |-> p[1]]
      <4>1. \A p \in D : p[2] - p[1] < m => p[1] >= p[2] BY <1>3, <3>3
      <4>2. f = [p \in D |-> f[p]] /\ \A p \in D : f[p] = p[1] OBVIOUS
      <4> HIDE DEF f
      <4>3. \A p \in D : p[2] - p[1] < m => f[p] = Body(f, p) BY Zenon, <4>1, <4>2
      <4> QED BY Zenon, <3>2, <4>2, <4>3
    <3>4. CASE m # 0
      <4>1. m - 1 \in Nat /\ ~(m <= m - 1) BY <3>2, <3>4
      <4>2. Upto(m - 1) BY Zenon, <3>1, <4>1
      <4>3. PICK f : /\ f = [p \in D |-> f[p]]
                     /\ \A p \in D : p[2] - p[1] < m - 1 => f[p] = Body(f, p)
        BY Zenon, <4>2
      <4> DEFINE g == [p \in D |-> Body(f, p)]
      <4>4. g = [p \in D |-> g[p]] /\ \A p \in D : g[p] = Body(f, p) BY Zenon
      <4> HIDE DEF g
      <4>5. ASSUME NEW p \in D, p[2] - p[1] < m PROVE g[p] = Body(g, p)
        <5>1. CASE p[1] >= p[2] BY Zenon, <4>4, <5>1
        <5>2. CASE ~(p[1] >= p[2])
          <6>1. p[1] < p[2] BY <1>3, <5>2
          <6> DEFINE u == <<Check(p), p[2]>>
                     v == <<p[1], Check(p) - 1>>
          <6>2. /\ u \in D /\ v \in D /\ p[2] - Check(p) < p[2] - p[1]
                /\ (Check(p) - 1) - p[1] < p[2] - p[1] /\ Check(p) \in 0 .. last
            BY Zenon, <1>2, <6>1
          <6>3. u[2] = p[2] /\ u[1] = Check(p) /\ v[1] = p[1] /\ v[2] = Check(p) - 1 OBVIOUS
          <6> HIDE DEF u, v
          <6>4. u[2] - u[1] < m - 1 /\ v[2] - v[1] < m - 1
            <7>1. p[1] \in Int /\ p[2] \in Int /\ p[2] - p[1] < m /\ m \in Int /\ Check(p) \in Int
              BY <1>3, <3>2, <4>5, <6>2
            <7>2. \A l, r, c \in Int :
                     /\ (r - l < m /\ r - c < r - l) => r - c < m - 1
                     /\ (r - l < m /\ (c - 1) - l < r - l) => (c - 1) - l < m - 1
              BY <7>1
            <7>3. p[2] - Check(p) < m - 1 /\ (Check(p) - 1) - p[1] < m - 1 BY Zenon, <6>2, <7>1, <7>2
            <7> QED BY Zenon, <6>3, <7>3
          <6>5. g[u] = f[u] /\ g[v] = f[v] BY Zenon, <4>3, <4>4, <6>2, <6>4
          <6> QED BY Zenon, <4>4, <5>2, <6>5 DEF u, v
        <5> QED BY <5>1, <5>2
      <4> QED BY Zenon, <3>2, <4>4, <4>5
    <3> QED BY <3>3, <3>4
  <2>2. Upto(last + 1)
    <3>1. last + 1 \in Nat OBVIOUS
    <3> QED BY Zenon, <2>1, <3>1
  <2>3. \A p \in D : p[2] - p[1] < last + 1 BY <1>3
  <2> QED BY Zenon, <2>2, <2>3
<1>6. Solves(F)
  <2> HIDE DEF Solves
  <2> QED BY Zenon, <1>5
<1> HIDE DEF F
<1>7. \A p \in D : F[p] = Body(F, p) BY Zenon, <1>6
<1> DEFINE Agree == \A i \in 1 .. last + 1 : file[i] = db[i]
           Right(p) == /\ F[p] \in p[1] .. p[2]
                       /\ file[p[1] + 1] = db[p[1] + 1] => file[F[p] + 1] = db[F[p] + 1]
                       /\ Agree => F[p] = p[2]
           Wrong == {p \in D : p[1] <= p[2] /\ ~Right(p)}
<1>8. ASSUME NEW x \in Wrong PROVE FALSE
  <2> DEFINE S == {p[2] - p[1] : p \in Wrong}
  <2>1. S \in SUBSET Nat BY <1>3
  <2>2. x[2] - x[1] \in S BY <1>8
  <2>3. PICK m \in S : \A k \in S : m <= k
    <3> HIDE DEF S
    <3> QED BY <2>1, <2>2, LeastNat
  <2>4. PICK p \in Wrong : m = p[2] - p[1] BY <2>3
  <2>5. /\ p \in D /\ p[1] <= p[2] /\ ~Right(p) /\ p[1] \in 0 .. last /\ p[2] \in 0 .. last
    BY Zenon, <1>3, <2>4
  <2>6. \A q \in D : q[1] <= q[2] /\ q[2] - q[1] < p[2] - p[1] => Right(q)
    <3> SUFFICES ASSUME NEW q \in D, q[1] <= q[2], q[2] - q[1] < p[2] - p[1], ~Right(q) PROVE FALSE
      BY Zenon
    <3>1. q[2] - q[1] \in S BY Zenon
    <3>2. p[2] - p[1] <= q[2] - q[1] BY Zenon, <2>3, <2>4, <3>1
    <3> HIDE DEF Right
    <3> QED BY <1>3, <2>5, <3>2
  <2> HIDE DEF S
  <2>7. CASE p[1] >= p[2]
    <3>1. F[p] = p[1] BY Zenon, <1>7, <2>5, <2>7
    <3>2. p[1] = p[2] /\ p[1] \in p[1] .. p[2] BY <2>5, <2>7
    <3> QED BY Zenon, <2>5, <3>1, <3>2
  <2>8. CASE ~(p[1] >= p[2])
    <3> DEFINE c == Check(p)
               u == <<c, p[2]>>
               v == <<p[1], c - 1>>
    <3>0. p[1] < p[2] BY <2>5, <2>8
    <3>1. /\ u \in D /\ p[2] - c < p[2] - p[1] /\ c <= p[2]
          /\ v \in D /\ (c - 1) - p[1] < p[2] - p[1] /\ p[1] <= c - 1 /\ c \in 0 .. last
      BY Zenon, <1>2, <2>5, <3>0
    <3>2. u[1] = c /\ u[2] = p[2] /\ v[1] = p[1] /\ v[2] = c - 1 OBVIOUS
    <3> HIDE DEF c
    <3>3. F[p] = IF file[c + 1] = db[c + 1] THEN F[u] ELSE F[v] BY Zenon, <1>7, <2>5, <2>8 DEF c
    <3> HIDE DEF u, v
    <3>4. Right(u) /\ Right(v) BY Zenon, <2>6, <3>1, <3>2
    <3>5. CASE file[c + 1] = db[c + 1]
      <4>1. F[p] = F[u] BY Zenon, <3>3, <3>5
      <4>2. F[u] \in c .. p[2] /\ file[F[u] + 1] = db[F[u] + 1] /\ (Agree => F[u] = p[2])
        BY Zenon, <3>2, <3>4, <3>5
      <4>3. F[u] \in p[1] .. p[2] BY <2>5, <3>1, <4>2
      <4> QED BY Zenon, <2>5, <4>1, <4>2, <4>3
    <3>6. CASE file[c + 1] # db[c + 1]
      <4>1. F[p] = F[v] BY Zenon, <3>3, <3>6
      <4>2. ~Agree
        <5>1. c + 1 \in 1 .. last + 1 BY <3>1
        <5> QED BY Zenon, <3>6, <5>1
      <4>3. F[v] \in p[1] .. c - 1 /\ (file[p[1] + 1] = db[p[1] + 1] => file[F[v] + 1] = db[F[v] + 1])
        BY Zenon, <3>2, <3>4
      <4>4. F[v] \in p[1] .. p[2]
        <5>1. /\ F[v] \in p[1] .. c - 1 /\ c <= p[2]
              /\ c \in 0 .. last /\ p[1] \in 0 .. last /\ p[2] \in 0 .. last
          BY Zenon, <2>5, <3>1, <4>3
        <5> QED BY <5>1
      <4> QED BY Zenon, <2>5, <4>1, <4>2, <4>3, <4>4
    <3> QED BY <3>5, <3>6
  <2> QED BY <2>7, <2>8
<1>9. Right(<<0, last>>)
  <2>1. 0 <= last OBVIOUS
  <2> HIDE DEF Right
  <2> QED BY Zenon, <1>4, <1>8, <2>1
<1>10. F[<<0, last>>] \in 0 .. last /\ (Agree => F[<<0, last>>] = last) BY Zenon, <1>4, <1>9
<1>11. file[F[<<0, last>>] + 1] = db[F[<<0, last>>] + 1]
  <2>1. 0 + 1 = 1 OBVIOUS
  <2> QED BY Zenon, <1>4, <1>9, <2>1 DEF SameAt
<1> QED BY Zenon, <1>0, <1>1, <1>10, <1>11 DEF SameAt
-----------------------------------------------------------------------------
(* importBlocksFromStorage and the cuts of the root segment. *)

\* FirstBreak is an index up to which every block follows the one before it,
\* and the length of a file that is linked throughout.
LEMMA FirstBreakIs ==
    ASSUME NEW file \in Seq(Block), NEW common \in Nat, common + 1 <= Len(file)
    PROVE  /\ FirstBreak(file, common) \in common + 1 .. Len(file)
           /\ \A i \in common + 2 .. FirstBreak(file, common) : Prev[file[i]] = file[i - 1]
           /\ Linked(file) => FirstBreak(file, common) = Len(file)
<1> DEFINE breaks == {i \in common + 1 .. Len(file) - 1 : Prev[file[i + 1]] # file[i]}
           S == breaks \cup {Len(file)}
           B == CHOOSE i \in S : \A j \in breaks : i <= j
<1>1. FirstBreak(file, common) = B BY DEF FirstBreak
<1>2. S \in SUBSET Nat /\ Len(file) \in S /\ breaks \subseteq S OBVIOUS
<1>3. \A j \in breaks : j \in common + 1 .. Len(file) - 1 OBVIOUS
<1>4. \A j \in common + 1 .. Len(file) - 1 : Prev[file[j + 1]] # file[j] => j \in breaks OBVIOUS
<1>5. \A j \in S : j \in breaks \/ j = Len(file) OBVIOUS
<1>6. Linked(file) => breaks = {}
  <2> SUFFICES ASSUME Linked(file), NEW j \in breaks PROVE FALSE BY Zenon
  <2>1. j + 1 \in 2 .. Len(file) /\ (j + 1) - 1 = j OBVIOUS
  <2>2. Prev[file[j + 1]] = file[j] BY Zenon, <2>1 DEF Linked
  <2> QED BY <2>2
<1> HIDE DEF breaks, S
<1>7. \E i \in S : \A j \in breaks : i <= j BY Zenon, <1>2, LeastNat
<1>8. B \in S /\ \A j \in breaks : B <= j BY Zenon, <1>7
<1> HIDE DEF B
<1>9. B \in common + 1 .. Len(file)
  <2>1. CASE B = Len(file) BY <2>1
  <2>2. CASE B \in breaks BY <1>3, <2>2
  <2> QED BY <1>5, <1>8, <2>1, <2>2
<1>10. ASSUME NEW i \in common + 2 .. B, Prev[file[i]] # file[i - 1] PROVE FALSE
  <2>1. /\ i - 1 \in common + 1 .. Len(file) - 1 /\ (i - 1) + 1 = i /\ ~(B <= i - 1)
    BY <1>9
  <2> QED BY Zenon, <1>4, <1>8, <1>10, <2>1
<1>11. Linked(file) => B = Len(file) BY Zenon, <1>5, <1>6, <1>8
<1> QED BY <1>1, <1>9, <1>10, <1>11

\* A cut of the root segment below a block of it leaves that block's chain.
LEMMA CutIsChain ==
    ASSUME IInv, NEW common \in Nat, common + 1 \in 1 .. Len(Db)
    PROVE  /\ Db[common + 1] \in Block
           /\ CutFrom(common + 1) = Ancestors[Db[common + 1]]
<1> PICK t \in Block : t = Top(Genesis) BY RootIsChain
<1>1. BlocksOf(Genesis) = Ancestors[t] BY RootIsChain
<1> DEFINE q == Db
           i == common + 1
<1>2. ChainFile(q, t) BY DbIsChain
<1>3. i \in 1 .. Len(q) OBVIOUS
<1> HIDE DEF q, i
<1>4. q[i] \in Ancestors[t] /\ Index[q[i]] = i - 1 BY <1>2, <1>3, ChainFileIs
<1>5. {x \in Ancestors[t] : Index[x] <= Index[q[i]]} = Ancestors[q[i]] BY <1>4, AncestorsCut
<1>6. q[i] \in Block /\ Ancestors[t] \subseteq Block BY <1>4, AncestorsFacts
<1>7. \A x \in Ancestors[t] : Index[x] < i <=> Index[x] <= Index[q[i]]
  <2>1. i \in Nat BY DEF i
  <2> QED BY <1>4, <1>6, <2>1, BlockAssumption
<1>8. {x \in Ancestors[t] : Index[x] < i} = Ancestors[q[i]] BY Zenon, <1>5, <1>7
<1> QED BY <1>1, <1>6, <1>8 DEF CutFrom, q, i

\* A file that holds the genesis block at its start and nowhere else.
FileShape(q) == q \in Seq(Block) /\ \A i \in 1 .. Len(q) : q[i] = Genesis <=> i = 1

\* Each block of the file above the common index, up to position k, follows
\* the block before it.
Follows(file, common, k) == \A i \in common + 2 .. k : Prev[file[i]] = file[i - 1]

\* The blocks of the file that follow one another above the common index,
\* pushed onto the cut root segment, make it the chain of the last of them.
LEMMA ImportedIsChain ==
    ASSUME IInv, NEW file, FileShape(file), NEW common \in Nat,
           common + 1 \in 1 .. Len(Db), SameAt(file, Db, common + 1),
           NEW broken \in common + 1 .. Len(file), Follows(file, common, broken),
           NEW k \in common + 1 .. broken
    PROVE  /\ file[k] \in Block
           /\ CutFrom(common + 1) \cup {file[j] : j \in common + 2 .. k} = Ancestors[file[k]]
<1> DEFINE A(n) == CutFrom(common + 1) \cup {file[j] : j \in common + 2 .. n}
           S == {n \in common + 1 .. broken : A(n) # Ancestors[file[n]]}
<1>0. file \in Seq(Block) BY DEF FileShape
<1>1. S \in SUBSET Nat OBVIOUS
<1>2. ASSUME k \in S PROVE FALSE
  <2>1. PICK m \in S : \A n \in S : m <= n
    <3> HIDE DEF S
    <3> QED BY <1>1, <1>2, LeastNat
  <2>2. m \in common + 1 .. broken /\ A(m) # Ancestors[file[m]] OBVIOUS
  <2>3. CASE m = common + 1
    <3>1. {file[j] : j \in common + 2 .. m} = {} BY <2>3
    <3>2. A(m) = CutFrom(common + 1) BY <3>1
    <3> QED BY Zenon, <2>2, <2>3, <3>2, CutIsChain DEF SameAt
  <2>4. CASE m # common + 1
    <3>1. m - 1 \in common + 1 .. broken /\ ~(m <= m - 1) /\ m \in common + 2 .. broken
          /\ m \in 2 .. Len(file) /\ m \in 1 .. Len(file)
      BY <1>0, <2>2, <2>4
    <3>2. A(m - 1) = Ancestors[file[m - 1]] BY Zenon, <2>1, <3>1
    <3>3. common + 2 .. m = (common + 2 .. m - 1) \cup {m} BY <3>1
    <3>4. A(m) = A(m - 1) \cup {file[m]}
      <4> DEFINE I == common + 2 .. m
                 J == common + 2 .. m - 1
      <4>1. I = J \cup {m} BY <3>3
      <4> HIDE DEF I, J
      <4>2. {file[j] : j \in I} = {file[j] : j \in J} \cup {file[m]} BY Zenon, <4>1
      <4> QED BY Zenon, <4>2 DEF I, J
    <3>5. file[m] \in Block /\ file[m] # Genesis /\ Prev[file[m]] = file[m - 1]
      <4>1. file[m] \in Block /\ file[m] # Genesis BY <1>0, <3>1 DEF FileShape
      <4> QED BY Zenon, <3>1, <4>1 DEF Follows
    <3> HIDE DEF A
    <3>6. Ancestors[file[m]] = {file[m]} \cup Ancestors[file[m - 1]]
      BY Zenon, <3>5, AncestorsStep
    <3> QED BY Zenon, <2>2, <3>2, <3>4, <3>6
  <2> QED BY <2>3, <2>4
<1>3. A(k) = Ancestors[file[k]] BY Zenon, <1>2
<1>4. file[k] \in Block BY <1>0
<1> QED BY Zenon, <1>3, <1>4
-----------------------------------------------------------------------------
(* The inductive invariants of the life of a node. *)

\* The inductive invariant that no switch can break: the tree's invariant and
\* the types, a file that starts with the genesis block and is not empty while
\* the node is up, and no undefined step before the node went down.
LifeInv ==
    /\ IInv
    /\ LifeTypeOK
    /\ FileShape(mainChainStorage)
    /\ node = "up" => mainChainStorage # <<>>
    /\ node # "up" => status = "running"

\* The file, as load will open it, is the beginning of the chain that ends in z.
Beginning(q, z) == \E x \in Ancestors[z] : ChainFile(Opened(q), x)

\* While the node is down, the file and the root segment in the database are
\* both the beginning of one chain.
OneChain ==
    node # "up" =>
        /\ node = "down"
        /\ \E z \in Block : Beginning(mainChainStorage, z) /\ Top(Genesis) \in Ancestors[z]

\* Every switch, finished or cut short by a stop, goes to a leaf whose parent
\* segment is on the main chain.
FlatSwitch ==
    \A b \in Block :
        SwitchToAlternative(b) \/ StopInSwitch(b) => parent[segmentOf[Prev[b]]] \in mainChainSet
-----------------------------------------------------------------------------
(* What the operations on the file do to its shape. *)

\* A push onto a file that is not empty.
LEMMA ShapeAppend ==
    ASSUME NEW q, FileShape(q), q # <<>>, NEW b \in Block, b # Genesis
    PROVE  FileShape(Append(q, b)) /\ Append(q, b) # <<>>
BY DEF FileShape

\* Pops, and a file cut to its first k blocks.
LEMMA ShapePrefix ==
    ASSUME NEW q, FileShape(q), NEW k \in 0 .. Len(q)
    PROVE  /\ FileShape(SubSeq(q, 1, k)) /\ Len(SubSeq(q, 1, k)) = k
           /\ \A i \in 1 .. k : SubSeq(q, 1, k)[i] = q[i]
<1>1. q \in Seq(Block) /\ Len(q) \in Nat /\ k \in Nat /\ k <= Len(q) BY DEF FileShape
<1>2. SubSeq(q, 1, k) \in Seq(Block) /\ Len(SubSeq(q, 1, k)) = k BY <1>1
<1>3. \A i \in 1 .. k : SubSeq(q, 1, k)[i] = q[i] BY <1>1
<1>4. \A i \in 1 .. k : i \in 1 .. Len(q) BY <1>1
<1>5. \A i \in 1 .. k : SubSeq(q, 1, k)[i] = Genesis <=> i = 1 BY <1>3, <1>4 DEF FileShape
<1> QED BY <1>2, <1>3, <1>5 DEF FileShape

\* Pops down to at least one block, then pushes of other blocks than genesis.
LEMMA ShapeConcat ==
    ASSUME NEW q, FileShape(q), q # <<>>, NEW r \in Seq(Block),
           \A i \in 1 .. Len(r) : r[i] # Genesis
    PROVE  FileShape(q \o r) /\ q \o r # <<>> /\ Len(q \o r) = Len(q) + Len(r)
<1>1. q \in Seq(Block) /\ Len(q) \in Nat /\ Len(q) >= 1 BY DEF FileShape
<1>2. /\ q \o r \in Seq(Block) /\ Len(q \o r) = Len(q) + Len(r)
      /\ \A i \in 1 .. Len(q) : (q \o r)[i] = q[i]
      /\ \A i \in Len(q) + 1 .. Len(q) + Len(r) :
            (q \o r)[i] = r[i - Len(q)] /\ i - Len(q) \in 1 .. Len(r) /\ i # 1
  BY <1>1
<1>3. \A i \in 1 .. Len(q) + Len(r) :
         i \in 1 .. Len(q) \/ i \in Len(q) + 1 .. Len(q) + Len(r)
  BY <1>1
<1>4. q \o r # <<>> BY <1>1, <1>2
<1>5. \A i \in 1 .. Len(q \o r) : (q \o r)[i] = Genesis <=> i = 1
  <2> SUFFICES ASSUME NEW i \in 1 .. Len(q) + Len(r) PROVE (q \o r)[i] = Genesis <=> i = 1
    BY <1>2
  <2>1. CASE i \in 1 .. Len(q)
    <3>1. (q \o r)[i] = q[i] BY <1>2, <2>1
    <3> QED BY <2>1, <3>1 DEF FileShape
  <2>2. CASE i \in Len(q) + 1 .. Len(q) + Len(r)
    <3>1. (q \o r)[i] = r[i - Len(q)] /\ i - Len(q) \in 1 .. Len(r) /\ i # 1 BY <1>2, <2>2
    <3> QED BY <3>1
  <2> QED BY <1>3, <2>1, <2>2
<1> QED BY <1>2, <1>4, <1>5 DEF FileShape

\* createSwappedMainChainStorage.
LEMMA ShapeOpened ==
    ASSUME NEW q, FileShape(q)
    PROVE  /\ FileShape(Opened(q)) /\ Opened(q) # <<>> /\ Opened(q)[1] = Genesis
           /\ Opened(q) \in Seq(Block) /\ \A i \in 2 .. Len(Opened(q)) : Opened(q)[i] # Genesis
<1>1. Genesis \in Block BY BlockAssumption
<1> QED BY <1>1 DEF FileShape, Opened

\* A file that holds a chain has the shape.
LEMMA ShapeChain ==
    ASSUME NEW q, NEW b, ChainFile(q, b)
    PROVE  FileShape(q)
BY DEF ChainFile, FileShape, Linked

\* A leaf other than the main one is not the root segment, and the root
\* segment's blocks are all below it.
LEMMA OtherLeaf ==
    ASSUME IInv, NEW s \in Segments, children[s] = {}, s # MainLeaf
    PROVE  /\ s # Genesis /\ Index[s] \in Nat \ {0} /\ Top(Genesis) \in Ancestors[Top(s)]
           /\ SegmentBlocks(s) \in Seq(Block)
           /\ \A i \in 1 .. Len(SegmentBlocks(s)) : SegmentBlocks(s)[i] # Genesis
<1>1. /\ Genesis \in Segments /\ Genesis \in Known /\ Segments \subseteq Known
      /\ Known \subseteq Block /\ segmentOf[Genesis] = Genesis
      /\ \A x \in Segments : segmentOf[x] = x
  BY Shape
<1>2. ASSUME NEW t \in Segments PROVE Genesis \in Lineage(parent, t)
  <2>1. t \in Known /\ segmentOf[t] = t /\ t \in Block BY <1>1
  <2>2. Genesis \in ChainUpTo(t, Index[t]) BY <2>1, PathOfBlock, GenesisFirst
  <2> QED BY <1>1, <2>2 DEF ChainUpTo
<1>3. MainLeaf \in Segments BY MainLeafIsSegment
<1>4. s # Genesis
  <2> SUFFICES ASSUME s = Genesis PROVE FALSE OBVIOUS
  <2>1. s \in Lineage(parent, MainLeaf) BY <1>2, <1>3
  <2> QED BY <1>3, <2>1, LeafOnOwnLineage
<1>5. Index[s] \in Nat \ {0}
  <2>1. s \in Known \ {Genesis} BY <1>1, <1>4
  <2>2. Prev[s] \in Known /\ Index[s] = Index[Prev[s]] + 1 BY <2>1, Shape
  <2>3. Index[Prev[s]] \in Nat BY <2>2, Shape
  <2> QED BY <2>2, <2>3
<1>6. Top(Genesis) \in Ancestors[Top(s)]
  <2>1. Top(Genesis) \in Ancestors[s] BY <1>2, <1>4, TopsOfLineage
  <2>2. s \in Ancestors[Top(s)] BY TopsOfLineage, TopOfSegment
  <2>3. Top(s) \in Block BY <1>1, TopOfSegment DEF BlocksOf
  <2> QED BY <2>1, <2>2, <2>3, AncestorsFacts
<1>7. \A c \in BlocksOf(s) : c # Genesis BY <1>1, <1>4 DEF BlocksOf
<1> QED BY Zenon, <1>4, <1>5, <1>6, <1>7, SegmentBlocksChain

\* A step that leaves the tree as its root segment alone, holding the chain of
\* t, keeps the invariant.
LEMMA RootAgain ==
    ASSUME LifeInv, status = "running", NEW t \in Block, RootOnly(Ancestors[t]),
           FileShape(mainChainStorage'), node' = "up" => mainChainStorage' # <<>>,
           node' \in {"up", "down", "corrupt"}, lagging' \in BOOLEAN,
           advice' \in Nat, rewound' \in Nat, stops' \in 0 .. MaxStops
    PROVE  LifeInv' /\ status' = "running" /\ Tip' = t /\ Top(Genesis)' = t
<1>1. status \in Status BY DEF LifeInv, IInv, TypeOK
<1>2. mainChainStorage' \in Seq(Block) BY DEF FileShape
<1>3. IInv' /\ Tip' = t /\ Top(Genesis)' = t BY <1>1, <1>2, RootOnlyKeeps
<1>4. status' = "running" BY DEF RootOnly
<1>5. TypeOK' BY <1>3 DEF IInv
<1>6. LifeTypeOK' BY <1>5 DEF LifeTypeOK
<1> QED BY <1>3, <1>4, <1>6 DEF LifeInv

\* What a stop of the process leaves in the variables of its life.
LEMMA DownTypes ==
    ASSUME LifeInv, GoDown
    PROVE  /\ status = "running" /\ node = "up" /\ node' = "down" /\ lagging' \in BOOLEAN
           /\ advice' \in Nat /\ rewound' \in Nat /\ stops' \in 0 .. MaxStops
           /\ mainChainStorage # <<>> /\ FileShape(mainChainStorage)
<1>1. stops \in 0 .. MaxStops /\ stops < MaxStops /\ advice \in Nat BY DEF LifeInv, LifeTypeOK, GoDown
<1>2. stops' \in 0 .. MaxStops BY <1>1, StopsAssumption DEF GoDown
<1> QED BY <1>1, <1>2 DEF GoDown, LifeInv
-----------------------------------------------------------------------------
(* The steps that stop the node. *)

\* A stop that leaves a file of the right shape and the database as it was.
LEMMA StopKeeps ==
    ASSUME LifeInv, GoDown, RootOnly(BlocksOf(Genesis)), FileShape(mainChainStorage')
    PROVE  LifeInv' /\ status' = "running" /\ Top(Genesis)' = Top(Genesis)
<1>0. IInv BY DEF LifeInv
<1> PICK t \in Block : t = Top(Genesis) BY <1>0, RootIsChain
<1>1. RootOnly(Ancestors[t]) BY <1>0, RootIsChain
<1>2. /\ status = "running" /\ node' = "down" /\ lagging' \in BOOLEAN
      /\ advice' \in Nat /\ rewound' \in Nat /\ stops' \in 0 .. MaxStops
  BY DownTypes
<1>3. node' \in {"up", "down", "corrupt"} /\ node' # "up" BY <1>2
<1> QED BY <1>1, <1>2, <1>3, RootAgain

\* The last push may be missing from the file.
LEMMA LeftShape ==
    ASSUME LifeInv, GoDown, FileLeft
    PROVE  FileShape(mainChainStorage')
<1> PICK q : q = mainChainStorage OBVIOUS
<1>1. FileShape(q) /\ q # <<>> BY DownTypes
<1>2. Len(q) - 1 \in 0 .. Len(q) BY <1>1 DEF FileShape
<1>3. FileShape(Front(q)) BY <1>1, <1>2, ShapePrefix DEF Front
<1>4. mainChainStorage' = q \/ mainChainStorage' = Front(q) BY DEF FileLeft
<1> QED BY <1>1, <1>3, <1>4

\* Stop: the file has its shape.
LEMMA StopStep ==
    ASSUME LifeInv, Stop
    PROVE  LifeInv' /\ status' = "running" /\ Top(Genesis)' = Top(Genesis)
<1>1. GoDown /\ RootOnly(BlocksOf(Genesis)) /\ FileLeft BY DEF Stop
<1>2. FileShape(mainChainStorage') BY <1>1, LeftShape
<1> QED BY <1>1, <1>2, StopKeeps

\* StopInPush: the block is in the file and not in the tree.
LEMMA StopInPushStep ==
    ASSUME LifeInv, NEW b \in Block, StopInPush(b)
    PROVE  LifeInv' /\ status' = "running" /\ Top(Genesis)' = Top(Genesis)
<1>1. /\ GoDown /\ RootOnly(BlocksOf(Genesis)) /\ Accepts(b)
      /\ mainChainStorage' = Append(mainChainStorage, b)
  BY DEF StopInPush
<1>2. b # Genesis BY <1>1, ValidIsNew DEF LifeInv
<1> PICK q : q = mainChainStorage OBVIOUS
<1>3. FileShape(q) /\ q # <<>> BY <1>1, DownTypes
<1>4. FileShape(Append(q, b)) BY <1>2, <1>3, ShapeAppend
<1> QED BY <1>1, <1>4, StopKeeps

\* What a switch makes of a file of the right shape.
LEMMA ShapeSwitched ==
    ASSUME IInv, NEW b \in Block, b # Genesis, NEW s \in Segments, children[s] = {},
           s # MainLeaf, NEW q, FileShape(q), Index[s] <= Len(q)
    PROVE  /\ FileShape(Switched(q, s, b)) /\ Switched(q, s, b) # <<>>
           /\ Len(Switched(q, s, b)) \in Nat /\ Index[s] <= Len(Switched(q, s, b))
<1> PICK r \in Seq(Block) : r = SegmentBlocks(s) BY OtherLeaf
<1>1. \A i \in 1 .. Len(r) : r[i] # Genesis BY OtherLeaf
<1> PICK k \in Nat \ {0} : k = Index[s] BY OtherLeaf
<1> DEFINE h == SubSeq(q, 1, k)
           a == Append(r, b)
<1>2. k \in 0 .. Len(q) BY DEF FileShape
<1>3. FileShape(h) /\ Len(h) = k BY <1>2, ShapePrefix
<1>4. a \in Seq(Block) /\ \A i \in 1 .. Len(a) : a[i] # Genesis BY <1>1
<1> HIDE DEF h, a
<1>5. h # <<>> BY <1>3
<1>6. FileShape(h \o a) /\ h \o a # <<>> /\ Len(h \o a) = k + Len(a)
  BY <1>3, <1>4, <1>5, ShapeConcat
<1>7. Switched(q, s, b) = h \o a BY DEF Switched, h, a
<1>8. Len(a) \in Nat BY <1>4
<1> QED BY <1>6, <1>7, <1>8

\* StopInSwitch: the file is a prefix of the old one or of the new one.
LEMMA StopInSwitchStep ==
    ASSUME LifeInv, NEW b \in Block, StopInSwitch(b)
    PROVE  LifeInv' /\ status' = "running" /\ Top(Genesis)' = Top(Genesis)
<1>0. IInv BY DEF LifeInv
<1>1. GoDown /\ RootOnly(BlocksOf(Genesis)) /\ Accepts(b) BY DEF StopInSwitch
<1> PICK s \in Segments : s = segmentOf[Prev[b]] BY <1>0, <1>1, ValidIsNew
<1> PICK q : q = mainChainStorage OBVIOUS
<1>2. /\ children[s] = {} /\ s # MainLeaf /\ Len(q) >= Index[s]
      /\ mainChainStorage' \in Prefixes(q, Index[s]) \cup Prefixes(Switched(q, s, b), Index[s])
  BY DEF StopInSwitch, Childless, Switched
<1> DEFINE w == Switched(q, s, b)
<1>3. b # Genesis BY <1>0, <1>1, ValidIsNew
<1>4. FileShape(q) BY <1>1, DownTypes
<1>5. Index[s] \in Nat \ {0} BY <1>0, <1>2, OtherLeaf
<1>6. Index[s] <= Len(q) /\ Len(q) \in Nat BY <1>2, <1>4, <1>5 DEF FileShape
<1>7. FileShape(w) /\ Len(w) \in Nat BY <1>0, <1>2, <1>3, <1>4, <1>6, ShapeSwitched
<1> HIDE DEF w
<1>8. FileShape(mainChainStorage')
  <2>1. ASSUME NEW x, FileShape(x), Len(x) \in Nat, mainChainStorage' \in Prefixes(x, Index[s])
        PROVE  FileShape(mainChainStorage')
    <3>1. PICK i \in Index[s] .. Len(x) : mainChainStorage' = SubSeq(x, 1, i) BY <2>1 DEF Prefixes
    <3>2. i \in 0 .. Len(x) BY <1>5, <2>1
    <3> QED BY <2>1, <3>1, <3>2, ShapePrefix
  <2> QED BY <1>2, <1>4, <1>6, <1>7, <2>1 DEF w
<1> QED BY <1>1, <1>8, StopKeeps

\* Save: the database holds a chain that the main chain extends.
LEMMA SaveStep ==
    ASSUME LifeInv, Save
    PROVE  LifeInv' /\ status' = "running" /\ Top(Genesis)' \in Ancestors[Tip]
<1>0. IInv BY DEF LifeInv
<1> PICK t \in Block : t = Tip BY <1>0, MainIsChain
<1> PICK r \in Block : r = Top(Genesis) BY <1>0, RootIsChain
<1>1. /\ MainBlocks = Ancestors[t] /\ r \in Ancestors[t] /\ BlocksOf(Genesis) = Ancestors[r]
  BY <1>0, MainIsChain, RootIsChain
<1>2. PICK i \in Index[r] .. Index[t] : RootOnly(Saved(i)) BY DEF Save
<1>3. i \in 0 .. Index[t] BY <1>2, BlockAssumption
<1>4. PICK c \in Ancestors[t] : Index[c] = i BY <1>3, AncestorsLine
<1>5. Saved(i) = Ancestors[c]
  <2>1. Saved(i) = Ancestors[r] \cup {x \in Ancestors[t] : Index[x] <= i} BY <1>1 DEF Saved
  <2>2. {x \in Ancestors[t] : Index[x] <= Index[r]} = Ancestors[r] BY <1>1, AncestorsCut
  <2>3. {x \in Ancestors[t] : Index[x] <= Index[c]} = Ancestors[c] BY <1>4, AncestorsCut
  <2>4. \A x \in Ancestors[t] : Index[x] <= Index[r] => Index[x] <= i
    <3>1. Ancestors[t] \subseteq Block BY AncestorsFacts
    <3> QED BY <1>2, <3>1, BlockAssumption
  <2> QED BY Zenon, <1>4, <2>1, <2>2, <2>3, <2>4
<1>6. c \in Block BY <1>4, AncestorsFacts
<1>7. GoDown /\ FileLeft BY DEF Save
<1>8. /\ status = "running" /\ node' = "down" /\ lagging' \in BOOLEAN
      /\ advice' \in Nat /\ rewound' \in Nat /\ stops' \in 0 .. MaxStops
      /\ FileShape(mainChainStorage')
  BY <1>7, DownTypes, LeftShape
<1>9. node' \in {"up", "down", "corrupt"} /\ node' # "up" BY <1>8
<1>10. RootOnly(Ancestors[c]) BY <1>2, <1>5
<1>11. LifeInv' /\ status' = "running" /\ Top(Genesis)' = c
  BY <1>6, <1>8, <1>9, <1>10, RootAgain
<1> QED BY <1>4, <1>11
-----------------------------------------------------------------------------
(* The steps that start the node. *)

\* The file that load opens, and the index that findCommonRoot returns for it.
Found == Opened(mainChainStorage)
Common == FindCommonRoot(Found, Db)

\* findCommonRoot's preconditions hold (both stores start with the genesis
\* block) and it returns an index at which the stores agree. It is the last
\* one of the shorter store when they agree wherever both have a block.
LEMMA CommonFacts ==
    ASSUME LifeInv
    PROVE  /\ FileShape(Found) /\ Found # <<>> /\ Found \in Seq(Block) /\ Found[1] = Genesis
           /\ \A i \in 2 .. Len(Found) : Found[i] # Genesis
           /\ ChainFile(Db, Top(Genesis))
           /\ Common \in Nat /\ Common + 1 \in 1 .. Len(Found) /\ Common + 1 \in 1 .. Len(Db)
           /\ Found[Common + 1] = Db[Common + 1]
           /\ (\A i \in DOMAIN Found \cap DOMAIN Db : Found[i] = Db[i])
              => Common + 1 = IF Len(Found) < Len(Db) THEN Len(Found) ELSE Len(Db)
<1>1. FileShape(mainChainStorage) /\ IInv BY DEF LifeInv
<1>2. /\ FileShape(Found) /\ Found # <<>> /\ Found \in Seq(Block) /\ Found[1] = Genesis
      /\ \A i \in 2 .. Len(Found) : Found[i] # Genesis
  BY <1>1, ShapeOpened DEF Found
<1>3. ChainFile(Db, Top(Genesis)) BY <1>1, DbIsChain
<1>4. PICK f \in Seq(Block) : f = Found BY <1>2
<1>5. PICK d \in Seq(Block) : d = Db BY <1>3 DEF ChainFile
<1>6. f # <<>> /\ d # <<>> /\ f[1] = d[1] BY <1>2, <1>3, <1>4, <1>5 DEF ChainFile
<1>7. PICK n \in Nat :
         /\ n = (IF Len(f) < Len(d) THEN Len(f) ELSE Len(d)) - 1
         /\ n + 1 = (IF Len(f) < Len(d) THEN Len(f) ELSE Len(d))
         /\ n + 1 <= Len(f) /\ n + 1 <= Len(d)
         /\ \A i \in 1 .. n + 1 : i \in DOMAIN f \cap DOMAIN d
  <2> DEFINE last == (IF Len(f) < Len(d) THEN Len(f) ELSE Len(d)) - 1
  <2>1. /\ last \in Nat
        /\ last + 1 = (IF Len(f) < Len(d) THEN Len(f) ELSE Len(d))
        /\ last + 1 <= Len(f) /\ last + 1 <= Len(d)
        /\ \A i \in 1 .. last + 1 : i \in DOMAIN f \cap DOMAIN d
    BY <1>6
  <2> QED BY <2>1
<1>8. /\ FindCommonRoot(f, d) \in 0 .. n
      /\ f[FindCommonRoot(f, d) + 1] = d[FindCommonRoot(f, d) + 1]
      /\ (\A i \in 1 .. n + 1 : f[i] = d[i]) => FindCommonRoot(f, d) = n
  <2>1. LastCommon(f, d) = n BY <1>7 DEF LastCommon
  <2>2. SameAt(f, d, 1) BY <1>6 DEF SameAt
  <2>3. /\ FindCommonRoot(f, d) \in 0 .. LastCommon(f, d)
        /\ SameAt(f, d, FindCommonRoot(f, d) + 1)
        /\ (\A i \in 1 .. LastCommon(f, d) + 1 : SameAt(f, d, i))
           => FindCommonRoot(f, d) = LastCommon(f, d)
    BY <2>1, <2>2, CommonRoot
  <2> QED BY Zenon, <2>1, <2>3 DEF SameAt
<1>9. PICK c : c = FindCommonRoot(f, d) OBVIOUS
<1>10. c = Common BY <1>4, <1>5, <1>9 DEF Common
<1>11. c \in 0 .. n /\ f[c + 1] = d[c + 1] BY <1>8, <1>9
<1>12. c \in Nat /\ c + 1 \in 1 .. Len(f) /\ c + 1 \in 1 .. Len(d) BY <1>7, <1>11
<1>13. ASSUME \A i \in DOMAIN f \cap DOMAIN d : f[i] = d[i]
       PROVE  c + 1 = IF Len(f) < Len(d) THEN Len(f) ELSE Len(d)
  <2>1. \A i \in 1 .. n + 1 : f[i] = d[i] BY Zenon, <1>7, <1>13
  <2>2. c = n BY Zenon, <1>8, <1>9, <2>1
  <2> QED BY <1>7, <2>2
<1> QED BY <1>2, <1>3, <1>4, <1>5, <1>10, <1>11, <1>12, <1>13

\* importBlocksFromStorage, up to its k-th block: the root segment becomes
\* the chain of that block.
LEMMA ImportTo ==
    ASSUME LifeInv, NEW k \in Common + 1 .. FirstBreak(Found, Common)
    PROVE  /\ k \in 1 .. Len(Found) /\ Found[k] \in Block
           /\ CutFrom(Common + 1) \cup {Found[j] : j \in Common + 2 .. k} = Ancestors[Found[k]]
<1>1. IInv BY DEF LifeInv
<1>2. PICK f \in Seq(Block) : f = Found BY CommonFacts
<1>3. PICK c \in Nat : c = Common BY CommonFacts
<1>4. /\ c + 1 \in 1 .. Len(f) /\ c + 1 \in 1 .. Len(Db) /\ SameAt(f, Db, c + 1)
      /\ FileShape(f)
  BY <1>2, <1>3, CommonFacts DEF SameAt
<1>5. c + 1 <= Len(f) BY <1>4
<1>6. PICK w : w = FirstBreak(f, c) OBVIOUS
<1>7. w \in c + 1 .. Len(f) /\ Follows(f, c, w) BY <1>5, <1>6, FirstBreakIs DEF Follows
<1>8. k \in c + 1 .. w BY <1>2, <1>3, <1>6
<1>9. /\ f[k] \in Block
      /\ CutFrom(c + 1) \cup {f[j] : j \in c + 2 .. k} = Ancestors[f[k]]
  BY ZenonT(60), <1>1, <1>4, <1>7, <1>8, ImportedIsChain
<1>10. k \in 1 .. Len(f) BY <1>7, <1>8
<1> QED BY <1>2, <1>3, <1>9, <1>10

\* FirstBreak is an index of the file above the common one.
LEMMA BreakFacts ==
    ASSUME LifeInv
    PROVE  /\ FirstBreak(Found, Common) \in Common + 1 .. Len(Found)
           /\ FirstBreak(Found, Common) \in Nat /\ Len(Found) \in Nat
           /\ Linked(Found) => FirstBreak(Found, Common) = Len(Found)
<1> PICK f \in Seq(Block) : f = Found BY CommonFacts
<1> PICK c \in Nat : c = Common BY CommonFacts
<1>1. c + 1 <= Len(f)
  <2>1. c + 1 \in 1 .. Len(f) BY CommonFacts
  <2> QED BY <2>1
<1>2. /\ FirstBreak(f, c) \in c + 1 .. Len(f)
      /\ Linked(f) => FirstBreak(f, c) = Len(f)
  BY <1>1, FirstBreakIs
<1> QED BY <1>2

\* What Start leaves in the variables of the node's life.
LEMMA StartTypes ==
    ASSUME LifeInv, Start
    PROVE  /\ status = "running" /\ lagging' \in BOOLEAN /\ stops' \in 0 .. MaxStops
           /\ mainChainStorage' = Found /\ FileShape(mainChainStorage')
           /\ mainChainStorage' # <<>> /\ rewound \in Nat
<1>1. mainChainStorage' = Found BY DEF Start, Found
<1> QED BY <1>1, CommonFacts DEF Start, LifeInv, LifeTypeOK

\* A load that ends with the chain of t in the root segment.
LEMMA StartKeeps ==
    ASSUME LifeInv, Start, UNCHANGED rewound, advice' \in Nat,
           node' \in {"up", "corrupt"}, NEW t \in Block, RootOnly(Ancestors[t])
    PROVE  /\ LifeInv' /\ status' = "running" /\ Tip' = t /\ Top(Genesis)' = t
           /\ mainChainStorage' = Found
<1>1. /\ status = "running" /\ lagging' \in BOOLEAN /\ stops' \in 0 .. MaxStops
      /\ mainChainStorage' = Found /\ FileShape(mainChainStorage')
      /\ mainChainStorage' # <<>> /\ rewound' \in Nat
  BY StartTypes
<1>2. node' \in {"up", "down", "corrupt"} OBVIOUS
<1> QED BY <1>1, <1>2, RootAgain

\* LoadByImport: the root segment is the chain of the file's last block.
LEMMA ImportStep ==
    ASSUME LifeInv, LoadByImport
    PROVE  /\ LifeInv' /\ status' = "running" /\ mainChainStorage' = Found
           /\ Tip' = Found[Len(Found)] /\ node' = "up"
<1>1. /\ Start /\ FirstBreak(Found, Common) = Len(Found) /\ node' = "up" /\ advice' = 0
      /\ UNCHANGED rewound
      /\ RootOnly(CutFrom(Common + 1) \cup {Found[j] : j \in Common + 2 .. Len(Found)})
  BY DEF LoadByImport, Found, Common
<1>2. PICK k \in Common + 1 .. FirstBreak(Found, Common) : k = Len(Found) BY <1>1, BreakFacts
<1>3. /\ Found[k] \in Block
      /\ CutFrom(Common + 1) \cup {Found[j] : j \in Common + 2 .. k} = Ancestors[Found[k]]
  BY ImportTo
<1>4. PICK t \in Block : t = Found[k] BY <1>3
<1>5. RootOnly(Ancestors[t]) BY <1>1, <1>2, <1>3, <1>4
<1>6. advice' \in Nat /\ node' \in {"up", "corrupt"} BY <1>1
<1>7. LifeInv' /\ status' = "running" /\ Tip' = t /\ mainChainStorage' = Found
  BY <1>1, <1>5, <1>6, StartKeeps
<1> QED BY <1>1, <1>2, <1>4, <1>7

\* LoadFindsCorruption: only when the file is not linked, and what is in the
\* database is the chain of the last block that follows the one before it.
LEMMA CorruptionStep ==
    ASSUME LifeInv, LoadFindsCorruption
    PROVE  /\ LifeInv' /\ ~Linked(Found) /\ node' = "corrupt"
           /\ advice' = FirstBreak(Found, Common)
           /\ Top(Genesis)' = Found[FirstBreak(Found, Common)]
<1>1. PICK k \in Common + 1 .. FirstBreak(Found, Common) : k = FirstBreak(Found, Common)
  BY CommonFacts, BreakFacts
<1>2. /\ Start /\ k < Len(Found) /\ node' = "corrupt" /\ advice' = k /\ UNCHANGED rewound
      /\ RootOnly(CutFrom(Common + 1) \cup {Found[j] : j \in Common + 2 .. k})
  BY <1>1 DEF LoadFindsCorruption, Found, Common
<1>3. /\ Found[k] \in Block
      /\ CutFrom(Common + 1) \cup {Found[j] : j \in Common + 2 .. k} = Ancestors[Found[k]]
  BY ImportTo
<1>4. PICK t \in Block : t = Found[k] BY <1>3
<1>5. RootOnly(Ancestors[t]) BY <1>2, <1>3, <1>4
<1>6. k \in Nat /\ ~Linked(Found) BY <1>1, <1>2, BreakFacts
<1>7. advice' \in Nat /\ node' \in {"up", "corrupt"} BY <1>2, <1>6
<1>8. LifeInv' /\ Top(Genesis)' = t BY <1>2, <1>5, <1>7, StartKeeps
<1> QED BY <1>1, <1>2, <1>4, <1>6, <1>8

\* LoadByCut: the root segment ends in the last common block.
LEMMA CutStep ==
    ASSUME LifeInv, LoadByCut
    PROVE  /\ LifeInv' /\ status' = "running" /\ mainChainStorage' = Found
           /\ Tip' = Found[Common + 1] /\ Len(Found) < Len(Db) /\ node' = "up"
<1>1. /\ Start /\ Len(Found) < Len(Db) /\ RootOnly(CutFrom(Common + 1))
      /\ node' = "up" /\ advice' = 0 /\ UNCHANGED rewound
  BY DEF LoadByCut, Found, Common
<1>2. Common \in Nat /\ Common + 1 \in 1 .. Len(Db) /\ Found[Common + 1] = Db[Common + 1]
  BY CommonFacts
<1>3. Db[Common + 1] \in Block /\ CutFrom(Common + 1) = Ancestors[Db[Common + 1]]
  BY <1>2, CutIsChain DEF LifeInv
<1>4. PICK t \in Block : t = Db[Common + 1] BY <1>3
<1>5. RootOnly(Ancestors[t]) BY <1>1, <1>3, <1>4
<1>6. advice' \in Nat /\ node' \in {"up", "corrupt"} BY <1>1
<1>7. LifeInv' /\ status' = "running" /\ Tip' = t /\ mainChainStorage' = Found
  BY <1>1, <1>5, <1>6, StartKeeps
<1> QED BY <1>1, <1>2, <1>4, <1>7

\* LoadAsIs: the last block of the file is the top of the root segment.
LEMMA AsIsStep ==
    ASSUME LifeInv, LoadAsIs
    PROVE  /\ LifeInv' /\ status' = "running" /\ mainChainStorage' = Found
           /\ Tip' = Found[Len(Found)] /\ node' = "up"
<1>1. /\ Start /\ Len(Found) = Len(Db) /\ ~NeedsImport(Found, Db)
      /\ RootOnly(BlocksOf(Genesis)) /\ node' = "up" /\ advice' = 0 /\ UNCHANGED rewound
  BY DEF LoadAsIs, Found
<1>2. IInv BY DEF LifeInv
<1>3. PICK t \in Block : t = Top(Genesis) /\ RootOnly(Ancestors[t]) BY <1>1, <1>2, RootIsChain
<1>4. Found[Len(Found)] = t
  <2>1. Found[Len(Found)] = Db[Len(Db)] BY <1>1 DEF NeedsImport
  <2>2. Db[Len(Db)] = t BY <1>3, CommonFacts DEF ChainFile
  <2> QED BY <2>1, <2>2
<1>5. advice' \in Nat /\ node' \in {"up", "corrupt"} BY <1>1
<1>6. LifeInv' /\ status' = "running" /\ Tip' = t /\ mainChainStorage' = Found
  BY <1>1, <1>3, <1>5, StartKeeps
<1> QED BY <1>1, <1>4, <1>6

\* StopInImport: the root segment is the chain of some block of the file.
LEMMA StopInImportStep ==
    ASSUME LifeInv, StopInImport
    PROVE  /\ LifeInv' /\ mainChainStorage' = Found /\ node' = node
           /\ \E i \in 1 .. Len(Found) : Top(Genesis)' = Found[i]
<1>1. /\ node \in {"down", "corrupt"} /\ stops < MaxStops /\ stops' = stops + 1
      /\ mainChainStorage' = Found /\ UNCHANGED <<node, lagging, advice, rewound>>
  BY DEF StopInImport, Found
<1>2. PICK k \in Common + 1 .. FirstBreak(Found, Common) - 1 :
         RootOnly(CutFrom(Common + 1) \cup {Found[j] : j \in Common + 2 .. k})
  BY DEF StopInImport, Found, Common
<1>3. k \in Common + 1 .. FirstBreak(Found, Common) BY <1>2, CommonFacts, BreakFacts
<1>4. /\ k \in 1 .. Len(Found) /\ Found[k] \in Block
      /\ CutFrom(Common + 1) \cup {Found[j] : j \in Common + 2 .. k} = Ancestors[Found[k]]
  BY <1>3, ImportTo
<1>5. PICK t \in Block : t = Found[k] BY <1>4
<1>6. RootOnly(Ancestors[t]) BY <1>2, <1>4, <1>5
<1>7. /\ status = "running" /\ lagging' \in BOOLEAN /\ advice' \in Nat /\ rewound' \in Nat
      /\ node' \in {"up", "down", "corrupt"} /\ node' # "up" /\ stops \in 0 .. MaxStops
  BY <1>1 DEF LifeInv, LifeTypeOK
<1>8. stops' \in 0 .. MaxStops BY <1>1, <1>7, StopsAssumption
<1>9. FileShape(mainChainStorage') BY <1>1, CommonFacts
<1>10. LifeInv' /\ Top(Genesis)' = t BY <1>6, <1>7, <1>8, <1>9, RootAgain
<1> QED BY <1>1, <1>4, <1>5, <1>10

\* Rewind: only the file changes, to its first blocks.
LEMMA RewindStep ==
    ASSUME LifeInv, NEW h \in Nat \ {0}, Rewind(h)
    PROVE  /\ LifeInv' /\ node' = "down" /\ Top(Genesis)' = Top(Genesis)
           /\ \E k \in 0 .. Len(Found) : mainChainStorage' = SubSeq(Found, 1, k)
<1>1. /\ node \in {"down", "corrupt"} /\ stops < MaxStops /\ stops' = stops + 1
      /\ mainChainStorage' = IF Len(Found) >= h THEN SubSeq(Found, 1, h - 1) ELSE Found
      /\ rewound' = IF Len(Found) >= h THEN h ELSE 0
      /\ node' = "down" /\ UNCHANGED <<lagging, advice>>
      /\ UNCHANGED <<status, segmentOf, parent, children, chainsLeaves, mainChainSet>>
  BY DEF Rewind, Found
<1>2. FileShape(Found) /\ Found \in Seq(Block) BY CommonFacts
<1>3. PICK k \in 0 .. Len(Found) : mainChainStorage' = SubSeq(Found, 1, k)
  <2>1. CASE Len(Found) >= h
    <3>1. h - 1 \in 0 .. Len(Found) BY <1>2, <2>1
    <3> QED BY <1>1, <2>1, <3>1
  <2>2. CASE ~(Len(Found) >= h)
    <3>1. Found = SubSeq(Found, 1, Len(Found)) /\ Len(Found) \in 0 .. Len(Found) BY <1>2
    <3> QED BY <1>1, <2>2, <3>1
  <2> QED BY <2>1, <2>2
<1>4. FileShape(mainChainStorage') BY <1>2, <1>3, ShapePrefix
<1>5. mainChainStorage' \in Seq(Block) BY <1>4 DEF FileShape
<1>6. IInv BY DEF LifeInv
<1>7. /\ Known' = Known /\ Segments' = Segments /\ MainLeaf' = MainLeaf
      /\ \A s : BlocksOf(s)' = BlocksOf(s)
  BY <1>1 DEF Known, Segments, MainLeaf, BlocksOf
<1>8. \A s : Top(s)' = Top(s) BY <1>7 DEF Top
<1>9. Tip' = Tip BY <1>7, <1>8 DEF Tip
<1>10. TypeOK' BY <1>1, <1>5, <1>6, <1>7 DEF IInv, TypeOK
<1>11. TreeShape'
  <2>1. TreeShape BY Zenon, <1>6 DEF IInv
  <2> QED BY SMTT(60), <2>1, <1>1, <1>7, <1>8 DEF TreeShape
<1>12. Contiguous'
  <2>1. Contiguous BY Zenon, <1>6 DEF IInv
  <2> QED BY SMTT(60), <2>1, <1>1, <1>7 DEF Contiguous
<1>13. LeavesChildless' /\ LeavesListed' /\ MainLine'
  BY <1>1, <1>6, <1>7 DEF IInv, LeavesChildless, LeavesListed, MainLine
<1>14. HeaviestChain' BY <1>1, <1>6, <1>7, <1>9 DEF IInv, HeaviestChain
<1>15. IInv' BY <1>10, <1>11, <1>12, <1>13, <1>14 DEF IInv
<1>16. /\ lagging' \in BOOLEAN /\ advice' \in Nat /\ stops \in 0 .. MaxStops
       /\ status' = "running"
  BY <1>1 DEF LifeInv, LifeTypeOK
<1>17. stops' \in 0 .. MaxStops /\ rewound' \in Nat BY <1>1, <1>16, StopsAssumption
<1>18. LifeInv' BY <1>1, <1>4, <1>10, <1>15, <1>16, <1>17 DEF LifeInv, LifeTypeOK
<1> QED BY <1>1, <1>3, <1>8, <1>18
-----------------------------------------------------------------------------
(* The steps of a node that runs. *)

\* addBlock, whatever it does to the tree, keeps the file's shape.
LEMMA AddBlockShape ==
    ASSUME LifeInv, node = "up", NEW b \in Block, AddBlock(b)
    PROVE  FileShape(mainChainStorage') /\ mainChainStorage' # <<>>
<1>1. IInv /\ FileShape(mainChainStorage) /\ mainChainStorage # <<>> BY DEF LifeInv
<1>2. CASE UNCHANGED mainChainStorage BY <1>1, <1>2
<1>3. CASE PushToMain(b)
  <2>1. Accepts(b) /\ mainChainStorage' = Append(mainChainStorage, b) BY <1>3 DEF PushToMain
  <2>2. b # Genesis BY <1>1, <2>1, ValidIsNew
  <2>3. PICK q : q = mainChainStorage OBVIOUS
  <2>4. FileShape(Append(q, b)) /\ Append(q, b) # <<>> BY <1>1, <2>2, <2>3, ShapeAppend
  <2> QED BY <2>1, <2>3, <2>4
<1>4. CASE SwitchToAlternative(b)
  <2>1. Accepts(b) BY <1>4 DEF SwitchToAlternative
  <2>2. b # Genesis BY <1>1, <2>1, ValidIsNew
  <2>3. PICK s \in Segments : s = segmentOf[Prev[b]] BY <1>1, <2>1, ValidIsNew
  <2>4. children[s] = {} /\ s # MainLeaf /\ SwitchMainChainStorage(s, b)
    BY <1>4, <2>3 DEF SwitchToAlternative, Childless
  <2>5. PICK q : q = mainChainStorage OBVIOUS
  <2>6. CASE Len(q) < Index[s] BY <1>1, <2>4, <2>5, <2>6 DEF SwitchMainChainStorage
  <2>7. CASE ~(Len(q) < Index[s])
    <3>1. mainChainStorage' = Switched(q, s, b)
      BY <2>4, <2>5, <2>7 DEF SwitchMainChainStorage, Switched
    <3>2. FileShape(q) BY <1>1, <2>5
    <3>3. Index[s] \in Nat BY <1>1, <2>4, OtherLeaf
    <3>4. Len(q) \in Nat BY <3>2 DEF FileShape
    <3>5. Index[s] <= Len(q) BY <2>7, <3>3, <3>4
    <3>6. FileShape(Switched(q, s, b)) /\ Switched(q, s, b) # <<>>
      BY <1>1, <2>2, <2>4, <3>2, <3>5, ShapeSwitched
    <3> QED BY <3>1, <3>6
  <2> QED BY <2>6, <2>7
<1> QED BY <1>2, <1>3, <1>4 DEF AddBlock, PushToAlternative, ForkAtTop, SplitSegment, SplitOfNonLeaf

\* A step of the tree is a step of the specification the tree theorems are
\* about.
LEMMA AddBlockStep ==
    ASSUME LifeInv, NEW b \in Block, LifeAddBlock(b)
    PROVE  LifeInv' /\ [Next]_treeVars /\ node = "up" /\ node' = "up"
<1>1. /\ node = "up" /\ node' = "up" /\ AddBlock(b) /\ rewound' = 0 /\ UNCHANGED <<advice, stops>>
      /\ lagging' = (lagging \/ mainChainStorage' # mainChainStorage)
  BY DEF LifeAddBlock
<1>2. [Next]_treeVars BY <1>1 DEF Next
<1>3. IInv' BY <1>2, NextInv DEF LifeInv
<1>4. FileShape(mainChainStorage') /\ mainChainStorage' # <<>> BY <1>1, AddBlockShape
<1>5. lagging' \in BOOLEAN BY <1>1 DEF LifeInv, LifeTypeOK
<1>6. LifeTypeOK' BY <1>1, <1>3, <1>5 DEF LifeInv, LifeTypeOK, IInv
<1> QED BY <1>1, <1>2, <1>3, <1>4, <1>6 DEF LifeInv

\* A step that changes nothing.
LEMMA LifeStutter ==
    ASSUME LifeInv, UNCHANGED storageVars
    PROVE  LifeInv' /\ [Next]_treeVars /\ Top(Genesis)' = Top(Genesis)
<1>1. /\ UNCHANGED treeVars /\ UNCHANGED <<node, lagging, advice, rewound, stops>>
      /\ UNCHANGED <<mainChainStorage, status, segmentOf>>
  BY DEF storageVars, lifeVars, treeVars
<1>2. IInv' BY <1>1, NextInv DEF LifeInv
<1>3. Top(Genesis)' = Top(Genesis) BY <1>1 DEF Top, BlocksOf, Known
<1> QED BY <1>1, <1>2, <1>3 DEF LifeInv, LifeTypeOK, IInv
-----------------------------------------------------------------------------
(* The theorems that hold of every sequence of blocks, stops and loads. *)

\* A node that has just been created satisfies the invariant.
LEMMA LifeInitInv == ASSUME LifeInit PROVE LifeInv /\ StorageIsMainChain
<1>1. Init /\ node = "up" /\ lagging = TRUE /\ advice = 0 /\ rewound = 0 /\ stops = 0
  BY DEF LifeInit
<1>2. IInv BY <1>1, InitInv
<1>3. mainChainStorage = <<Genesis>> /\ Genesis \in Block BY <1>1, BlockAssumption DEF Init
<1>4. FileShape(mainChainStorage) /\ mainChainStorage # <<>> BY <1>3 DEF FileShape
<1>5. LifeTypeOK BY <1>1, <1>2, StopsAssumption DEF LifeTypeOK, IInv
<1>6. Tip = Genesis
  <2>1. MainLeaf = Genesis /\ BlocksOf(Genesis) = {Genesis}
    BY <1>1 DEF Init, MainLeaf, BlocksOf, Known
  <2> QED BY <2>1 DEF Tip, Top, Highest
<1>7. StorageIsMainChain BY <1>3, <1>6 DEF StorageIsMainChain, Linked
<1> QED BY <1>1, <1>2, <1>4, <1>5, <1>7 DEF LifeInv

\* Every step of the life of a node keeps the invariant.
LEMMA LifeNextInv == ASSUME LifeInv, [LifeNext]_storageVars PROVE LifeInv'
<1>1. ASSUME UNCHANGED storageVars PROVE LifeInv' BY <1>1, LifeStutter
<1>2. ASSUME NEW b \in Block, LifeAddBlock(b) PROVE LifeInv' BY <1>2, AddBlockStep
<1>3. ASSUME NEW b \in Block, LifeRejectBlock(b) PROVE LifeInv'
  BY <1>1, <1>3 DEF LifeRejectBlock, RejectBlock, storageVars
<1>4. ASSUME NEW b \in Block, StopInPush(b) PROVE LifeInv' BY <1>4, StopInPushStep
<1>5. ASSUME NEW b \in Block, StopInSwitch(b) PROVE LifeInv' BY <1>5, StopInSwitchStep
<1>6. ASSUME Load PROVE LifeInv'
  BY <1>6, ImportStep, CorruptionStep, CutStep, AsIsStep DEF Load
<1>7. ASSUME NEW h \in {Index[b] + 1 : b \in Block}, Rewind(h) PROVE LifeInv'
  <2>1. h \in Nat \ {0} BY BlockAssumption
  <2> QED BY <1>7, <2>1, RewindStep
<1>8. ASSUME LifeUndefined PROVE LifeInv' BY <1>1, <1>8 DEF LifeUndefined
<1> QED BY <1>1, <1>2, <1>3, <1>4, <1>5, <1>6, <1>7, <1>8, StopStep, SaveStep, StopInImportStep
        DEF LifeNext

\* The inductive invariant holds through every sequence of blocks, stops,
\* loads and rewinds.
THEOREM LifeInvariant == LifeSpec => []LifeInv
<1>1. LifeInit => LifeInv BY LifeInitInv
<1>2. LifeInv /\ [LifeNext]_storageVars => LifeInv' BY LifeNextInv
<1> QED BY <1>1, <1>2, PTL DEF LifeSpec

\* Every variable keeps its type across stops, loads and rewinds.
THEOREM LifeTypes == LifeSpec => []LifeTypeOK
<1>1. LifeInv => LifeTypeOK BY DEF LifeInv
<1> QED BY <1>1, LifeInvariant, PTL

\* Whatever was in the file, the database never holds anything but one linked
\* chain from the genesis block: after a stop in the middle of an import, after
\* a cut, and after load has found the file damaged.
THEOREM DbAlwaysLinked == LifeSpec => []DbIsLinked
<1>1. LifeInv => DbIsLinked
  <2> SUFFICES ASSUME LifeInv PROVE DbIsLinked OBVIOUS
  <2>1. ChainFile(Db, Top(Genesis)) BY CommonFacts
  <2> QED BY <2>1 DEF ChainFile, DbIsLinked
<1> QED BY <1>1, LifeInvariant, PTL

\* The tree of a node keeps its shape, its leaves, its paths and the heaviest
\* main chain across stops, loads and rewinds too.
THEOREM TreeSurvivesRestarts ==
    LifeSpec => [](TreeShape /\ LeavesCoverTheTree /\ LineageIsPath /\ HeaviestChain)
<1>1. LifeInv => TreeShape /\ LeavesCoverTheTree /\ LineageIsPath /\ HeaviestChain
  <2> SUFFICES ASSUME LifeInv
               PROVE  TreeShape /\ LeavesCoverTheTree /\ LineageIsPath /\ HeaviestChain
    OBVIOUS
  <2>1. IInv BY DEF LifeInv
  <2>2. LineageIsPath BY <2>1, PathOfBlock DEF LineageIsPath
  <2>3. LeavesCoverTheTree BY <2>1, LeavesCover
  <2> QED BY <2>1, <2>2, <2>3 DEF IInv
<1> QED BY <1>1, LifeInvariant, PTL
-----------------------------------------------------------------------------
(* The file and the main chain, while every switch is flat. *)

\* Two files that begin the same chain agree wherever both have a block.
LEMMA ChainsAgree ==
    ASSUME NEW z \in Block, NEW x \in Ancestors[z], NEW y \in Ancestors[z],
           NEW q, NEW r, ChainFile(q, x), ChainFile(r, y)
    PROVE  \A i \in DOMAIN q \cap DOMAIN r : q[i] = r[i]
<1> SUFFICES ASSUME NEW i \in DOMAIN q \cap DOMAIN r PROVE q[i] = r[i] OBVIOUS
<1>1. DOMAIN q = 1 .. Len(q) /\ DOMAIN r = 1 .. Len(r) BY DEF ChainFile
<1>2. q[i] \in Ancestors[x] /\ Index[q[i]] = i - 1 BY <1>1, ChainFileIs
<1>3. r[i] \in Ancestors[y] /\ Index[r[i]] = i - 1 BY <1>1, ChainFileIs
<1>4. q[i] \in Ancestors[z] /\ r[i] \in Ancestors[z]
  <2>1. Ancestors[x] \subseteq Ancestors[z] /\ Ancestors[y] \subseteq Ancestors[z] BY AncestorsFacts
  <2> QED BY <1>2, <1>3, <2>1
<1>5. \A c, d \in Ancestors[z] : Index[c] = Index[d] => c = d BY Zenon, AncestorsLine
<1>6. Index[q[i]] = Index[r[i]] BY Zenon, <1>2, <1>3
<1> QED BY Zenon, <1>4, <1>5, <1>6

\* A file cut to its first blocks, even to none, still begins the chain.
LEMMA BeginningPrefix ==
    ASSUME NEW z \in Block, NEW x \in Ancestors[z], NEW q, ChainFile(q, x), NEW k \in 0 .. Len(q)
    PROVE  Beginning(SubSeq(q, 1, k), z)
<1>1. q \in Seq(Block) BY DEF ChainFile
<1>2. CASE k = 0
  <2>1. Opened(SubSeq(q, 1, k)) = <<Genesis>> BY <1>1, <1>2 DEF Opened
  <2>2. Genesis \in Block BY BlockAssumption
  <2>3. ChainFile(<<Genesis>>, Genesis) BY <2>2 DEF ChainFile, Linked
  <2> QED BY <2>1, <2>3, GenesisFirst DEF Beginning
<1>3. CASE k # 0
  <2>1. k \in 1 .. Len(q) BY <1>1, <1>3
  <2>2. PICK h : h = SubSeq(q, 1, k) OBVIOUS
  <2>3. ChainFile(h, q[k]) BY <2>1, <2>2, ChainFilePrefix
  <2>4. Opened(h) = h BY <2>3 DEF ChainFile, Opened
  <2>5. q[k] \in Ancestors[x] BY <2>1, ChainFileIs
  <2>6. q[k] \in Ancestors[z]
    <3>1. Ancestors[x] \subseteq Ancestors[z] BY AncestorsFacts
    <3> QED BY <2>5, <3>1
  <2>7. Beginning(h, z) BY Zenon, <2>3, <2>4, <2>6 DEF Beginning
  <2> QED BY <2>2, <2>7
<1> QED BY <1>2, <1>3

\* So does the whole file.
LEMMA BeginningWhole ==
    ASSUME NEW z \in Block, NEW x \in Ancestors[z], NEW q, ChainFile(q, x)
    PROVE  Beginning(q, z)
<1>1. Opened(q) = q BY DEF ChainFile, Opened
<1> QED BY Zenon, <1>1 DEF Beginning

\* A step that takes the node down and leaves both stores on the chain of z.
LEMMA DownOnChain ==
    ASSUME node' = "down", NEW z \in Block, Beginning(mainChainStorage', z),
           Top(Genesis)' \in Ancestors[z]
    PROVE  OneChain' /\ FileIsMainChain' /\ NeverCorrupt'
BY DEF OneChain, FileIsMainChain, NeverCorrupt

\* The file of a node that runs.
LEMMA RunningFile ==
    ASSUME LifeInv, FileIsMainChain, GoDown
    PROVE  /\ ChainFile(mainChainStorage, Tip) /\ Tip \in Block
           /\ Tip \in Ancestors[Tip] /\ Top(Genesis) \in Ancestors[Tip] /\ IInv
<1>1. IInv /\ mainChainStorage \in Seq(Block) BY DEF LifeInv, FileShape
<1>2. Tip \in Block /\ Top(Genesis) \in Ancestors[Tip] BY <1>1, MainIsChain
<1>3. node = "up" /\ status = "running" BY DEF GoDown
<1>4. ChainFile(mainChainStorage, Tip)
  BY <1>1, <1>3 DEF FileIsMainChain, StorageIsMainChain, ChainFile
<1> QED BY <1>1, <1>2, <1>4, AncestorsFacts

\* Stop and Save.
LEMMA StopOnChain ==
    ASSUME LifeInv, FileIsMainChain, Stop \/ Save
    PROVE  OneChain' /\ FileIsMainChain' /\ NeverCorrupt'
<1>1. GoDown /\ node' = "down" BY DEF Stop, Save, GoDown
<1>2. PICK t \in Block : t = Tip BY <1>1, RunningFile
<1>3. PICK q : q = mainChainStorage OBVIOUS
<1>4. ChainFile(q, t) /\ t \in Ancestors[t] /\ Top(Genesis) \in Ancestors[t]
  BY <1>1, <1>2, <1>3, RunningFile
<1>5. Beginning(mainChainStorage', t)
  <2>1. Beginning(q, t) BY <1>4, BeginningWhole
  <2>2. Len(q) - 1 \in 0 .. Len(q) BY <1>4 DEF ChainFile
  <2>3. Beginning(Front(q), t) BY <1>4, <2>2, BeginningPrefix DEF Front
  <2>4. mainChainStorage' = q \/ mainChainStorage' = Front(q) BY <1>3 DEF Stop, Save, FileLeft
  <2> QED BY <2>1, <2>3, <2>4
<1>6. Top(Genesis)' \in Ancestors[t]
  <2>1. CASE Stop BY <1>4, <2>1, StopStep
  <2>2. CASE Save BY <1>2, <2>2, SaveStep
  <2> QED BY <2>1, <2>2
<1> QED BY <1>1, <1>5, <1>6, DownOnChain

\* StopInPush: the chain of the pushed block.
LEMMA StopInPushOnChain ==
    ASSUME LifeInv, FileIsMainChain, NEW b \in Block, StopInPush(b)
    PROVE  OneChain' /\ FileIsMainChain' /\ NeverCorrupt'
<1>1. GoDown /\ node' = "down" /\ Accepts(b) BY DEF StopInPush, GoDown
<1>2. PICK t \in Block : t = Tip BY <1>1, RunningFile
<1>3. PICK q : q = mainChainStorage OBVIOUS
<1>4. ChainFile(q, t) /\ t \in Ancestors[t] /\ Top(Genesis) \in Ancestors[t] /\ IInv
  BY <1>1, <1>2, <1>3, RunningFile
<1>5. Prev[b] = t /\ b # Genesis /\ mainChainStorage' = Append(q, b)
  BY <1>1, <1>2, <1>3, <1>4, ValidIsNew DEF StopInPush, OnTop, Tip
<1>6. ChainFile(Append(q, b), b)
  <2>1. q \in Seq(Block) /\ q # <<>> /\ q[1] = Genesis /\ Linked(q) /\ q[Len(q)] = t
    BY <1>4 DEF ChainFile
  <2> QED BY <1>5, <2>1, LinkedAppend DEF ChainFile
<1>7. b \in Ancestors[b] BY AncestorsFacts
<1>8. Beginning(mainChainStorage', b)
  <2>1. PICK w : w = Append(q, b) OBVIOUS
  <2>2. Beginning(w, b) BY <1>6, <1>7, <2>1, BeginningWhole
  <2> QED BY <1>5, <2>1, <2>2
<1>9. Top(Genesis)' \in Ancestors[b]
  <2>1. Ancestors[b] = {b} \cup Ancestors[t] BY <1>5, AncestorsStep
  <2>2. Top(Genesis)' = Top(Genesis) BY StopInPushStep
  <2> QED BY <1>4, <2>1, <2>2
<1> QED BY <1>1, <1>8, <1>9, DownOnChain

\* StopInSwitch: the old main chain or the new one.
LEMMA StopInSwitchOnChain ==
    ASSUME LifeInv, FileIsMainChain, NEW b \in Block, StopInSwitch(b), FlatSwitch
    PROVE  OneChain' /\ FileIsMainChain' /\ NeverCorrupt'
<1>1. GoDown /\ node' = "down" /\ Accepts(b) BY DEF StopInSwitch, GoDown
<1>2. PICK t \in Block : t = Tip BY <1>1, RunningFile
<1>3. PICK q : q = mainChainStorage OBVIOUS
<1>4. ChainFile(q, t) /\ t \in Ancestors[t] /\ Top(Genesis) \in Ancestors[t] /\ IInv
  BY <1>1, <1>2, <1>3, RunningFile
<1>5. PICK s \in Segments : s = segmentOf[Prev[b]] BY <1>1, <1>4, ValidIsNew
<1>6. /\ Prev[b] = Top(s) /\ children[s] = {} /\ s # MainLeaf
      /\ mainChainStorage' \in Prefixes(q, Index[s]) \cup Prefixes(Switched(q, s, b), Index[s])
  BY <1>3, <1>5 DEF StopInSwitch, OnTop, Childless, Switched
<1>7. parent[s] \in mainChainSet BY <1>5 DEF FlatSwitch
<1>8. ChainFile(q, Tip) BY <1>2, <1>4
<1>9. ChainFile(Switched(q, s, b), b)
  BY Zenon, <1>1, <1>4, <1>6, <1>7, <1>8, SwitchedFile
<1>10. b \in Ancestors[b] /\ b # Genesis BY <1>1, <1>4, AncestorsFacts, ValidIsNew
<1>11. Index[s] \in Nat /\ Top(Genesis) \in Ancestors[Top(s)] BY <1>4, <1>6, OtherLeaf
<1>12. Top(Genesis) \in Ancestors[b]
  <2>1. Ancestors[b] = {b} \cup Ancestors[Top(s)] BY <1>6, <1>10, AncestorsStep
  <2> QED BY <1>11, <2>1
<1>13. Top(Genesis)' = Top(Genesis) BY StopInSwitchStep
<1>14. ASSUME NEW z \in Block, NEW w, ChainFile(w, z), z \in Ancestors[z],
              mainChainStorage' \in Prefixes(w, Index[s])
       PROVE  Beginning(mainChainStorage', z)
  <2>1. PICK k \in Index[s] .. Len(w) : mainChainStorage' = SubSeq(w, 1, k)
    BY <1>14 DEF Prefixes
  <2>2. k \in 0 .. Len(w) BY <1>11, <1>14 DEF ChainFile
  <2>3. Beginning(SubSeq(w, 1, k), z) BY <1>14, <2>2, BeginningPrefix
  <2> QED BY <2>1, <2>3
<1>15. CASE mainChainStorage' \in Prefixes(q, Index[s])
  <2>1. Beginning(mainChainStorage', t) BY <1>4, <1>14, <1>15
  <2> QED BY <1>1, <1>4, <1>13, <2>1, DownOnChain
<1>16. CASE mainChainStorage' \in Prefixes(Switched(q, s, b), Index[s])
  <2>1. PICK w : w = Switched(q, s, b) OBVIOUS
  <2>2. Beginning(mainChainStorage', b) BY <1>9, <1>10, <1>14, <1>16, <2>1
  <2> QED BY <1>1, <1>12, <1>13, <2>2, DownOnChain
<1> QED BY <1>6, <1>15, <1>16

\* What load finds: a linked file that agrees with the database, so that the
\* last common block is the last one of the shorter store.
LEMMA StoresMatch ==
    ASSUME LifeInv, OneChain, node # "up"
    PROVE  /\ node = "down" /\ Linked(Found)
           /\ Len(Found) < Len(Db) => Common + 1 = Len(Found)
           /\ \E z \in Block : /\ \E x \in Ancestors[z] : ChainFile(Found, x)
                               /\ Top(Genesis) \in Ancestors[z]
<1>1. PICK z \in Block : Beginning(mainChainStorage, z) /\ Top(Genesis) \in Ancestors[z]
  BY DEF OneChain
<1>2. PICK x \in Ancestors[z] : ChainFile(Found, x) BY <1>1 DEF Beginning, Found
<1>3. PICK f : f = Found OBVIOUS
<1>4. PICK d : d = Db OBVIOUS
<1>5. PICK y \in Ancestors[z] : y = Top(Genesis) BY <1>1
<1>6. ChainFile(f, x) /\ ChainFile(d, y) BY <1>2, <1>3, <1>4, <1>5, CommonFacts
<1>7. \A i \in DOMAIN f \cap DOMAIN d : f[i] = d[i] BY <1>6, ChainsAgree
<1>8. Common + 1 = IF Len(Found) < Len(Db) THEN Len(Found) ELSE Len(Db)
  BY <1>3, <1>4, <1>7, CommonFacts
<1>9. Linked(Found) BY <1>2 DEF ChainFile
<1> QED BY <1>1, <1>2, <1>8, <1>9 DEF OneChain

\* Load: the node comes up with the chain of the file's last block.
LEMMA LoadOnChain ==
    ASSUME LifeInv, OneChain, Load
    PROVE  OneChain' /\ FileIsMainChain' /\ NeverCorrupt'
<1>1. node # "up" BY DEF Load, LoadByImport, LoadFindsCorruption, LoadByCut, LoadAsIs, Start
<1>2. Linked(Found) /\ (Len(Found) < Len(Db) => Common + 1 = Len(Found))
  BY <1>1, StoresMatch
<1>3. Found # <<>> /\ Found[1] = Genesis BY CommonFacts
<1>4. mainChainStorage' = Found /\ Tip' = Found[Len(Found)] /\ node' = "up"
  <2>1. CASE LoadByImport BY <2>1, ImportStep
  <2>2. CASE LoadFindsCorruption BY <1>2, <2>2, CorruptionStep
  <2>3. CASE LoadByCut BY <1>2, <2>3, CutStep
  <2>4. CASE LoadAsIs BY <2>4, AsIsStep
  <2> QED BY <2>1, <2>2, <2>3, <2>4 DEF Load
<1>5. StorageIsMainChain' BY <1>2, <1>3, <1>4 DEF StorageIsMainChain
<1> QED BY <1>4, <1>5 DEF OneChain, FileIsMainChain, NeverCorrupt

\* StopInImport: the database has moved up the chain of the file.
LEMMA StopInImportOnChain ==
    ASSUME LifeInv, OneChain, StopInImport
    PROVE  OneChain' /\ FileIsMainChain' /\ NeverCorrupt'
<1>1. node # "up" BY DEF StopInImport
<1>2. PICK z \in Block : \E x \in Ancestors[z] : ChainFile(Found, x) BY <1>1, StoresMatch
<1>3. PICK x \in Ancestors[z] : ChainFile(Found, x) BY <1>2
<1>4. PICK f : f = Found OBVIOUS
<1>5. PICK i \in 1 .. Len(f) : Top(Genesis)' = f[i] BY <1>4, StopInImportStep
<1>6. mainChainStorage' = f /\ node' = "down" BY <1>1, <1>4, StopInImportStep, StoresMatch
<1>7. Top(Genesis)' \in Ancestors[z]
  <2>1. f[i] \in Ancestors[x] BY <1>3, <1>4, ChainFileIs
  <2>2. Ancestors[x] \subseteq Ancestors[z] BY AncestorsFacts
  <2> QED BY <1>5, <2>1, <2>2
<1>8. Beginning(f, z) BY <1>3, <1>4, BeginningWhole
<1> QED BY <1>6, <1>7, <1>8, DownOnChain

\* Rewind: the file becomes a shorter beginning of the same chain.
LEMMA RewindOnChain ==
    ASSUME LifeInv, OneChain, NEW h \in Nat \ {0}, Rewind(h)
    PROVE  OneChain' /\ FileIsMainChain' /\ NeverCorrupt'
<1>1. node # "up" BY DEF Rewind
<1>2. PICK z \in Block : /\ \E x \in Ancestors[z] : ChainFile(Found, x)
                         /\ Top(Genesis) \in Ancestors[z]
  BY <1>1, StoresMatch
<1>3. PICK x \in Ancestors[z] : ChainFile(Found, x) BY <1>2
<1>4. PICK f : f = Found OBVIOUS
<1>5. PICK k \in 0 .. Len(f) : mainChainStorage' = SubSeq(f, 1, k) BY <1>4, RewindStep
<1>6. node' = "down" /\ Top(Genesis)' = Top(Genesis) BY RewindStep
<1>7. Beginning(SubSeq(f, 1, k), z) BY <1>3, <1>4, BeginningPrefix
<1> QED BY <1>2, <1>5, <1>6, <1>7, DownOnChain

\* A step of a node that runs, or no step at all.
LEMMA RunOnChain ==
    ASSUME LifeInv, FileIsMainChain, FlatSwitch, [Next]_treeVars, node = "up", node' = "up"
    PROVE  OneChain' /\ FileIsMainChain' /\ NeverCorrupt'
<1>1. IInv /\ StorageIsMainChain BY DEF LifeInv, FileIsMainChain
<1>2. \A b \in Block : SwitchToAlternative(b) => parent[segmentOf[Prev[b]]] \in mainChainSet
  BY Zenon DEF FlatSwitch
<1>3. StorageIsMainChain'
  <2>1. CASE status' = "running" BY <1>1, <1>2, <2>1, StepKeepsFile
  <2>2. CASE status' # "running" BY <2>2 DEF StorageIsMainChain
  <2> QED BY <2>1, <2>2
<1> QED BY <1>3 DEF OneChain, FileIsMainChain, NeverCorrupt

\* A step that changes nothing keeps all three.
LEMMA ChainStutter ==
    ASSUME LifeInv, OneChain, FileIsMainChain, NeverCorrupt, UNCHANGED storageVars
    PROVE  OneChain' /\ FileIsMainChain' /\ NeverCorrupt'
<1>1. UNCHANGED <<node, mainChainStorage, status, segmentOf, chainsLeaves>>
  BY DEF storageVars, lifeVars, treeVars
<1>2. Top(Genesis)' = Top(Genesis) BY LifeStutter
<1>3. Tip' = Tip BY <1>1 DEF Tip, MainLeaf, Top, BlocksOf, Known
<1>4. OneChain' BY <1>1, <1>2 DEF OneChain
<1>5. FileIsMainChain' BY <1>1, <1>3 DEF FileIsMainChain, StorageIsMainChain
<1> QED BY <1>1, <1>4, <1>5 DEF NeverCorrupt

\* Flat switches keep the file equal to the main chain while the node is up,
\* and the two stores on one chain while it is down.
LEMMA FlatInvariant ==
    LifeSpec /\ [][FlatSwitch]_storageVars => [](FileIsMainChain /\ NeverCorrupt)
<1> DEFINE Inv == LifeInv /\ OneChain /\ FileIsMainChain /\ NeverCorrupt
<1>1. LifeInit => Inv
  BY LifeInitInv DEF LifeInit, OneChain, FileIsMainChain, NeverCorrupt
<1>2. Inv /\ [LifeNext]_storageVars /\ [FlatSwitch]_storageVars => Inv'
  <2> SUFFICES ASSUME LifeInv, OneChain, FileIsMainChain, NeverCorrupt,
                      [LifeNext]_storageVars, [FlatSwitch]_storageVars
               PROVE  LifeInv' /\ OneChain' /\ FileIsMainChain' /\ NeverCorrupt'
    OBVIOUS
  <2>1. LifeInv' BY LifeNextInv
  <2> DEFINE Kept == OneChain' /\ FileIsMainChain' /\ NeverCorrupt'
  <2>2. CASE UNCHANGED storageVars BY <2>1, <2>2, ChainStutter
  <2>3. CASE LifeNext /\ FlatSwitch
    <3>1. ASSUME NEW b \in Block, LifeAddBlock(b) PROVE Kept
      BY <2>3, <3>1, AddBlockStep, RunOnChain
    <3>2. ASSUME NEW b \in Block, LifeRejectBlock(b) PROVE Kept
      <4>1. UNCHANGED storageVars BY <3>2 DEF LifeRejectBlock, RejectBlock, storageVars
      <4> QED BY <4>1, ChainStutter
    <3>3. ASSUME NEW b \in Block, StopInPush(b) PROVE Kept BY <3>3, StopInPushOnChain
    <3>4. ASSUME NEW b \in Block, StopInSwitch(b) PROVE Kept BY <2>3, <3>4, StopInSwitchOnChain
    <3>5. ASSUME NEW h \in {Index[b] + 1 : b \in Block}, Rewind(h) PROVE Kept
      <4>1. PICK b \in Block : h = Index[b] + 1 BY Zenon, <3>5
      <4>2. Index[b] \in Nat BY Zenon, BlockAssumption
      <4>3. h \in Nat \ {0} BY <4>1, <4>2
      <4> QED BY <3>5, <4>3, RewindOnChain
    <3>6. CASE Stop \/ Save BY <2>1, <3>6, StopOnChain
    <3>7. CASE Load BY <2>1, <3>7, LoadOnChain
    <3>8. CASE StopInImport BY <2>1, <3>8, StopInImportOnChain
    <3>9. CASE LifeUndefined BY <2>2, <3>9 DEF LifeUndefined
    <3> QED BY <2>1, <2>3, <3>1, <3>2, <3>3, <3>4, <3>5, <3>6, <3>7, <3>8, <3>9 DEF LifeNext
  <2> QED BY <2>1, <2>2, <2>3
<1>3. Inv => FileIsMainChain /\ NeverCorrupt OBVIOUS
<1> QED BY <1>1, <1>2, <1>3, PTL DEF LifeSpec

\* As long as every switch goes to a leaf whose parent segment is on the main
\* chain, the file is the main chain whenever the node is up, wherever the
\* process was stopped before: between two operations, in the push of a block,
\* in a switch, in save or in an import.
THEOREM FileStaysMainChain ==
    LifeSpec /\ [][FlatSwitch]_storageVars => []FileIsMainChain
BY FlatInvariant, PTL

\* Under the same condition no stop leaves two stores that load calls a
\* corrupted blockchain.
THEOREM StoresStaySound ==
    LifeSpec /\ [][FlatSwitch]_storageVars => []NeverCorrupt
BY FlatInvariant, PTL
-----------------------------------------------------------------------------
(* The advice that load's error message gives. *)

\* The invariant behind the advice: the message names the index above the
\* database's last block, and a file rewound to it is no longer than that.
AdviceInv ==
    /\ node = "up" => advice = 0
    /\ advice # 0 => Index[Top(Genesis)] + 1 = advice
    /\ node = "down" /\ advice # 0 /\ rewound = advice => Len(mainChainStorage) < advice

\* The blocks that follow one another above the common index have the indexes
\* of their positions.
LEMMA ImportedIndexes ==
    ASSUME LifeInv, NEW k \in Common + 1 .. FirstBreak(Found, Common)
    PROVE  Index[Found[k]] + 1 = k
<1>1. PICK f \in Seq(Block) : f = Found BY CommonFacts
<1>2. PICK c \in Nat : c = Common BY CommonFacts
<1>3. PICK d : d = Db OBVIOUS
<1>4. /\ c + 1 \in 1 .. Len(f) /\ c + 1 \in 1 .. Len(d) /\ f[c + 1] = d[c + 1]
      /\ ChainFile(d, Top(Genesis)) /\ FileShape(f)
  BY <1>1, <1>2, <1>3, CommonFacts
<1>5. Index[f[c + 1]] + 1 = c + 1
  <2>1. Index[d[c + 1]] = (c + 1) - 1 BY <1>4, ChainFileIs
  <2>2. Index[f[c + 1]] = (c + 1) - 1 BY Zenon, <1>4, <2>1
  <2> QED BY <1>2, <2>2
<1>6. PICK w : w = FirstBreak(f, c) OBVIOUS
<1>7. w \in c + 1 .. Len(f) /\ \A i \in c + 2 .. w : Prev[f[i]] = f[i - 1]
  <2>1. c + 1 <= Len(f) BY <1>4
  <2> QED BY <1>6, <2>1, FirstBreakIs
<1> DEFINE S == {i \in c + 1 .. w : Index[f[i]] + 1 # i}
<1>8. S \in SUBSET Nat BY <1>2
<1>9. ASSUME NEW x \in S PROVE FALSE
  <2>1. PICK m \in S : \A i \in S : m <= i
    <3> HIDE DEF S
    <3> QED BY <1>8, <1>9, LeastNat
  <2>2. m \in c + 1 .. w /\ Index[f[m]] + 1 # m OBVIOUS
  <2>3. m # c + 1 BY <1>5, <2>2
  <2>4. /\ m \in c + 2 .. w /\ m - 1 \in c + 1 .. w /\ ~(m <= m - 1)
        /\ m \in 1 .. Len(f) /\ m # 1 /\ m \in Nat
    BY <1>2, <1>7, <2>2, <2>3
  <2>5. Index[f[m - 1]] + 1 = m - 1 BY Zenon, <2>1, <2>4
  <2>6. f[m] \in Block \ {Genesis} /\ Prev[f[m]] = f[m - 1]
    <3>1. f[m] \in Block BY <1>1, <2>4
    <3>2. f[m] # Genesis BY Zenon, <1>4, <2>4 DEF FileShape
    <3>3. Prev[f[m]] = f[m - 1] BY Zenon, <1>7, <2>4 DEF Follows
    <3> QED BY Zenon, <3>1, <3>2, <3>3
  <2>7. Index[f[m]] = Index[f[m - 1]] + 1 BY <2>6, BlockAssumption
  <2> QED BY <2>2, <2>4, <2>5, <2>7
<1>10. k \in c + 1 .. w BY <1>1, <1>2, <1>6
<1>11. Index[f[k]] + 1 = k BY Zenon, <1>9, <1>10
<1> QED BY <1>1, <1>11

\* The advice stays right through every step but a stop in an import.
LEMMA AdviceStep ==
    ASSUME LifeInv, AdviceInv, [LifeNext]_storageVars, ~StopInImport
    PROVE  AdviceInv'
<1>1. ASSUME advice' = 0 PROVE AdviceInv' BY <1>1 DEF AdviceInv
<1>2. ASSUME node = "up", advice' = advice PROVE AdviceInv' BY <1>1, <1>2 DEF AdviceInv
<1>3. CASE UNCHANGED storageVars
  <2>1. UNCHANGED <<node, advice, rewound, mainChainStorage>> BY <1>3 DEF storageVars, lifeVars, treeVars
  <2>2. Top(Genesis)' = Top(Genesis) BY <1>3, LifeStutter
  <2> QED BY <2>1, <2>2 DEF AdviceInv
<1>4. ASSUME NEW b \in Block,
             LifeAddBlock(b) \/ LifeRejectBlock(b) \/ StopInPush(b) \/ StopInSwitch(b)
      PROVE  AdviceInv'
  BY <1>2, <1>4
     DEF LifeAddBlock, LifeRejectBlock, StopInPush, StopInSwitch, GoDown, lifeVars
<1>5. CASE Stop \/ Save BY <1>2, <1>5 DEF Stop, Save, GoDown
<1>6. CASE LoadByImport \/ LoadByCut \/ LoadAsIs
  BY <1>1, <1>6 DEF LoadByImport, LoadByCut, LoadAsIs
<1>7. CASE LoadFindsCorruption
  <2>1. PICK k : k = FirstBreak(Found, Common) OBVIOUS
  <2>2. node' = "corrupt" /\ advice' = k /\ Top(Genesis)' = Found[k]
    BY <1>7, <2>1, CorruptionStep
  <2>3. k \in Common + 1 .. FirstBreak(Found, Common) BY <2>1, CommonFacts, BreakFacts
  <2>4. Index[Found[k]] + 1 = k BY <2>3, ImportedIndexes
  <2> QED BY <2>2, <2>4 DEF AdviceInv
<1>8. ASSUME NEW h \in {Index[b] + 1 : b \in Block}, Rewind(h) PROVE AdviceInv'
  <2>1. h \in Nat \ {0} BY BlockAssumption
  <2>2. Top(Genesis)' = Top(Genesis) /\ node' = "down" BY <1>8, <2>1, RewindStep
  <2>3. /\ advice' = advice /\ rewound' = IF Len(Found) >= h THEN h ELSE 0
        /\ mainChainStorage' = IF Len(Found) >= h THEN SubSeq(Found, 1, h - 1) ELSE Found
    BY <1>8 DEF Rewind, Found
  <2>4. ASSUME advice' # 0, rewound' = advice' PROVE Len(mainChainStorage') < advice'
    <3>1. Len(Found) >= h /\ h = advice' /\ mainChainStorage' = SubSeq(Found, 1, h - 1)
      BY <2>3, <2>4
    <3>2. PICK n \in Nat \ {0} : n = h BY <2>1
    <3>3. n - 1 \in 0 .. Len(Found) /\ n - 1 < n
      <4>1. Len(Found) \in Nat /\ Len(Found) >= n BY <3>1, <3>2, BreakFacts
      <4> QED BY SMT, <4>1
    <3>4. Len(SubSeq(Found, 1, n - 1)) = n - 1 BY Zenon, <3>3, CommonFacts, ShapePrefix
    <3>5. Len(mainChainStorage') = n - 1 /\ advice' = n BY Zenon, <3>1, <3>2, <3>4
    <3> QED BY Zenon, <3>3, <3>5
  <2> QED BY <2>2, <2>3, <2>4 DEF AdviceInv
<1>9. CASE LifeUndefined BY <1>3, <1>9 DEF LifeUndefined
<1> QED BY <1>3, <1>4, <1>5, <1>6, <1>7, <1>8, <1>9 DEF LifeNext, Load

\* A load of a file that was rewound to the advice succeeds.
LEMMA RewoundLoads ==
    ASSUME LifeInv, AdviceInv, node = "down", advice # 0, rewound = advice
    PROVE  ~LoadFindsCorruption
<1>1. advice \in Nat /\ Len(mainChainStorage) < advice /\ mainChainStorage \in Seq(Block)
  BY DEF AdviceInv, LifeInv, LifeTypeOK, FileShape
<1>2. ChainFile(Db, Top(Genesis)) BY CommonFacts
<1>3. PICK d : d = Db OBVIOUS
<1>4. Len(d) = advice /\ d[1] = Genesis
  <2>1. Len(d) = Index[Top(Genesis)] + 1 BY <1>2, <1>3, ChainFileIs
  <2> QED BY <1>2, <1>3, <2>1 DEF AdviceInv, ChainFile
<1>5. ~NeedsImport(Found, d)
  <2>1. CASE mainChainStorage = <<>>
    <3>1. Found = <<Genesis>> BY <2>1 DEF Found, Opened
    <3>2. Len(Found) = 1 /\ Found[1] = Genesis BY <3>1
    <3> QED BY <1>1, <1>4, <3>2 DEF NeedsImport
  <2>2. CASE mainChainStorage # <<>>
    <3>1. Found = mainChainStorage BY <2>2 DEF Found, Opened
    <3> QED BY <1>1, <1>4, <3>1 DEF NeedsImport
  <2> QED BY <2>1, <2>2
<1> QED BY <1>3, <1>5 DEF LoadFindsCorruption, Found

\* After load has found a corrupted blockchain, --rewind with the index that
\* its message names repairs it, if no import is cut short on the way.
THEOREM AdviceRepairs ==
    LifeSpec /\ [][~StopInImport]_storageVars => RewindRepairs
<1> DEFINE Inv == LifeInv /\ AdviceInv
           Repairs == (advice # 0 /\ rewound = advice /\ node = "down" /\ stops' = stops)
                      => node' = "up"
<1>1. LifeInit => Inv BY LifeInitInv DEF LifeInit, AdviceInv
<1>2. Inv /\ [LifeNext]_storageVars /\ [~StopInImport]_storageVars => Inv'
  <2>1. CASE UNCHANGED storageVars
    <3>1. ASSUME LifeInv, AdviceInv PROVE Inv'
      <4>1. UNCHANGED <<node, advice, rewound, mainChainStorage>>
        BY <2>1 DEF storageVars, lifeVars, treeVars
      <4>2. Top(Genesis)' = Top(Genesis) /\ LifeInv' BY <2>1, <3>1, LifeStutter
      <4> QED BY <3>1, <4>1, <4>2 DEF AdviceInv
    <3> QED BY <3>1
  <2>2. CASE ~UNCHANGED storageVars BY <2>2, LifeNextInv, AdviceStep
  <2> QED BY <2>1, <2>2
<1>3. Inv /\ [LifeNext]_storageVars => [Repairs]_storageVars
  <2> SUFFICES ASSUME LifeInv, AdviceInv, LifeNext, ~UNCHANGED storageVars,
                      advice # 0, rewound = advice, node = "down", stops' = stops
               PROVE  node' = "up"
    OBVIOUS
  <2>1. stops \in Nat /\ status = "running" BY DEF LifeInv, LifeTypeOK
  <2>2. ~LoadFindsCorruption BY RewoundLoads
  <2>3. \A b \in Block : ~(LifeAddBlock(b) \/ LifeRejectBlock(b) \/ StopInPush(b) \/ StopInSwitch(b))
    BY DEF LifeAddBlock, LifeRejectBlock, StopInPush, StopInSwitch, GoDown
  <2>4. ~Stop /\ ~Save BY DEF Stop, Save, GoDown
  <2>5. ~StopInImport /\ \A h : ~Rewind(h)
    <3>1. stops' # stops + 1 BY <2>1
    <3>2. StopInImport => stops' = stops + 1 BY DEF StopInImport
    <3>3. \A h : Rewind(h) => stops' = stops + 1 BY DEF Rewind
    <3> QED BY <3>1, <3>2, <3>3
  <2>6. ~LifeUndefined BY <2>1 DEF LifeUndefined
  <2>7. LoadByImport \/ LoadByCut \/ LoadAsIs
    BY <2>2, <2>3, <2>4, <2>5, <2>6 DEF LifeNext, Load
  <2> QED BY <2>7 DEF LoadByImport, LoadByCut, LoadAsIs
<1> QED BY <1>1, <1>2, <1>3, PTL DEF LifeSpec, RewindRepairs
=============================================================================
