----------------------------- MODULE ChainTree -----------------------------
(***************************************************************************)
(* The block tree of cryptonote::Core: the segments (IBlockchainCache) it  *)
(* keeps in chainsStorage, the leaves, the set of main-chain segments and  *)
(* the main-chain file, and what Core::addBlock does to them.              *)
(*                                                                         *)
(* The blocks that may ever arrive are the constant set Block; a block's   *)
(* previous-block hash, its index, the difficulty its children need and    *)
(* its cumulative difficulty are functions of the block alone, because     *)
(* each of them is computed from the chain that ends in its parent.        *)
(*                                                                         *)
(* A segment only ever loses its UPPER blocks (split), so its first block  *)
(* never changes while it exists: a segment is named by its first block.   *)
(* The root segment, the one kept in the database, is named Genesis.       *)
(***************************************************************************)
EXTENDS Integers, Sequences

CONSTANTS
    Block,          \* every block that may be offered to the node
    Genesis,        \* Currency::genesisBlock()
    Prev,           \* previousBlockHash of every block but Genesis
    Index,          \* the index of a block, its distance from Genesis
    NextDifficulty, \* getDifficultyForNextBlock() on top of a block
    Cumulative,     \* cumulative difficulty of the chain ending in a block
    Tx,             \* transactions other than coinbase ones
    Spends,         \* Spends[t]: the key images of t's inputs
    TxsOf,          \* TxsOf[b]: the transactions of block b
    BadBlock,       \* blocks that fail a check depending on the block alone
    WeakBlock,      \* blocks whose proof of work is too weak
    Checkpoint,     \* Checkpoint[i]: the block required at index i, if any
    NoSegment       \* the null segment pointer

ASSUME BlockAssumption ==
    /\ Genesis \in Block
    /\ NoSegment \notin Block
    /\ Prev \in [Block \ {Genesis} -> Block]
    /\ Index \in [Block -> Nat]
    /\ Index[Genesis] = 0
    /\ \A b \in Block \ {Genesis} : Index[b] = Index[Prev[b]] + 1
    /\ NextDifficulty \in [Block -> Nat \ {0}]
    /\ Cumulative \in [Block -> Nat]
    /\ \A b \in Block \ {Genesis} :
          Cumulative[b] = Cumulative[Prev[b]] + NextDifficulty[Prev[b]]

ASSUME TxAssumption ==
    /\ TxsOf \in [Block -> SUBSET Tx]
    /\ DOMAIN Spends = Tx
    /\ BadBlock \subseteq Block
    /\ WeakBlock \subseteq Block
    /\ DOMAIN Checkpoint \subseteq Nat

VARIABLES
    status,          \* "running", or the undefined step that ended the model
    segmentOf,       \* segmentOf[b]: the segment holding b, for known b
    parent,          \* parent[s], for every segment s of chainsStorage
    children,        \* children[s]
    chainsLeaves,    \* the leaf segments, the main chain's leaf first
    mainChainSet,    \* the segments of the main chain
    mainChainStorage \* the main chain file: a sequence of blocks

treeVars == <<status, segmentOf, parent, children, chainsLeaves,
              mainChainSet, mainChainStorage>>
-----------------------------------------------------------------------------
(* Reading the tree. *)

Known == DOMAIN segmentOf

Segments == DOMAIN parent

BlocksOf(s) == {b \in Known : segmentOf[b] = s}

\* The block of greatest index among the blocks of S.
Highest(S) == CHOOSE b \in S : \A c \in S : Index[c] <= Index[b]

\* The last block of segment s (getTopBlockHash).
Top(s) == Highest(BlocksOf(s))

\* Mutant of Lineage: the walk also keeps the null pointer it ends on.
Lineage_null(par, s) ==
    {NoSegment} \cup
    {t \in DOMAIN par :
        \A X \in SUBSET DOMAIN par :
            (s \in X /\ \A u \in X : par[u] # NoSegment => par[u] \in X)
               => t \in X}

\* The segments met by following getParent() from s: the least set of
\* segments that holds s and the parent of each of its members.
Lineage(par, s) ==
    {t \in DOMAIN par :
        \A X \in SUBSET DOMAIN par :
            (s \in X /\ \A u \in X : par[u] # NoSegment => par[u] \in X)
               => t \in X}

\* The segments findSegmentContainingBlock looks in: it walks to the root
\* from every leaf in turn.
Searched ==
    UNION {Lineage(parent, chainsLeaves[i]) : i \in DOMAIN chainsLeaves}

\* Mutant of ChainUpTo: the index bound is ignored.
ChainUpTo_unbounded(s, i) == {b \in Known : segmentOf[b] \in Lineage(parent, s)}

\* The blocks up to index i found by following getParent() from s.
ChainUpTo(s, i) ==
    LET line == Lineage(parent, s)
    IN {b \in Known : segmentOf[b] \in line /\ Index[b] <= i}

MainLeaf == chainsLeaves[1]

Tip == Top(MainLeaf)

KeyImagesOf(blocks) == UNION {UNION {Spends[t] : t \in TxsOf[b]} : b \in blocks}

-----------------------------------------------------------------------------
(* Validation. *)

InCheckpointZone(i) == \E j \in DOMAIN Checkpoint : i <= j

CheckBlock(b) == Index[b] \in DOMAIN Checkpoint => Checkpoint[Index[b]] = b

\* Mutant of SpendsOnce: the chain below the block is not consulted.
SpendsOnce_blockOnly(b) ==
    \A t, u \in TxsOf[b] : t # u => Spends[t] \cap Spends[u] = {}

\* validateTransaction for every transaction of b in turn: no key image
\* twice in the block and, outside the checkpoint zone, none already spent
\* on the chain that ends in b's parent.
SpendsOnce(b) ==
    /\ \A t, u \in TxsOf[b] : t # u => Spends[t] \cap Spends[u] = {}
    /\ ~InCheckpointZone(Index[b]) =>
          KeyImagesOf({b}) \cap
             KeyImagesOf(ChainUpTo(segmentOf[Prev[b]], Index[Prev[b]])) = {}

\* validateBlock and the checks of addBlock on the block's own transactions,
\* size, mixins and reward: their outcome is fixed by the block.
ValidBlock(b) == b \notin BadBlock

CheckProofOfWork(b) == b \notin WeakBlock

\* Every check of addBlock that comes before it changes anything. It returns
\* ALREADY_EXISTS, REJECTED_AS_ORPHANED or a validation error when one fails.
Accepts(b) ==
    /\ b \notin Known
    /\ Prev[b] \in Known
    /\ ValidBlock(b)
    /\ SpendsOnce(b)
    /\ IF InCheckpointZone(Index[b]) THEN CheckBlock(b) ELSE CheckProofOfWork(b)

-----------------------------------------------------------------------------
(* Changing the tree. *)

Init ==
    /\ status = "running"
    /\ segmentOf = [b \in {Genesis} |-> Genesis]
    /\ parent = [s \in {Genesis} |-> NoSegment]
    /\ children = [s \in {Genesis} |-> {}]
    /\ chainsLeaves = <<Genesis>>
    /\ mainChainSet = {Genesis}
    /\ mainChainStorage = <<Genesis>>

\* f with x mapped to y, whether or not x was in its domain.
Put(f, x, y) == [z \in DOMAIN f \cup {x} |-> IF z = x THEN y ELSE f[z]]

\* f with every member of S mapped to y.
PutAll(f, S, y) == [z \in DOMAIN f \cup S |-> IF z \in S THEN y ELSE f[z]]

OnTop(b) == Prev[b] = Top(segmentOf[Prev[b]])

Childless(b) == children[segmentOf[Prev[b]]] = {}

\* Mutants of Heavier: ties go to the newer block; the longer chain wins; one
\* unit of work more is not enough.
Heavier_ties(b) == Cumulative[b] >= Cumulative[Tip]
Heavier_longest(b) == Index[b] > Index[Tip]
Heavier_margin(b) == Cumulative[b] > Cumulative[Tip] + 1

\* The chain that ends in b beats the main chain.
Heavier(b) == Cumulative[b] > Cumulative[Tip]

\* updateMainChainSet: the lineage of the main leaf, once it is known.
UpdateMainChainSet == mainChainSet' = Lineage(parent', chainsLeaves'[1])

\* The blocks of segment s in index order, as getBlockByIndex returns them.
SegmentBlocks(s) ==
    [i \in 1 .. Index[Top(s)] - Index[s] + 1 |->
        CHOOSE b \in BlocksOf(s) : Index[b] = Index[s] + i - 1]

\* On top of the main chain's leaf.
PushToMain(b) ==
    /\ status = "running"
    /\ Accepts(b)
    /\ OnTop(b) /\ Childless(b) /\ segmentOf[Prev[b]] = MainLeaf
    /\ mainChainStorage' = Append(mainChainStorage, b)
    /\ segmentOf' = Put(segmentOf, b, MainLeaf)
    /\ UNCHANGED <<status, parent, children, chainsLeaves, mainChainSet>>

\* On top of another leaf, whose chain stays the lighter one.
PushToAlternative(b) ==
    /\ status = "running"
    /\ Accepts(b)
    /\ OnTop(b) /\ Childless(b) /\ segmentOf[Prev[b]] # MainLeaf
    /\ ~Heavier(b)
    /\ segmentOf' = Put(segmentOf, b, segmentOf[Prev[b]])
    /\ UNCHANGED <<status, parent, children, chainsLeaves, mainChainSet,
                   mainChainStorage>>

\* Mutant of SwitchMainChainStorage: one block too many is popped.
SwitchMainChainStorage_deep(s, b) ==
    IF Len(mainChainStorage) < Index[s]
    THEN /\ status' = "poppedEmptyStorage"
         /\ UNCHANGED mainChainStorage
    ELSE /\ mainChainStorage' = SubSeq(mainChainStorage, 1, Index[s] - 1)
                                   \o Append(SegmentBlocks(s), b)
         /\ UNCHANGED status

\* switchMainChainStorage(start of the new leaf segment, that segment): pop
\* down to the segment's start index, push the segment's blocks. The number
\* of pops is an unsigned difference: with fewer blocks than the start index
\* it wraps, and popping the empty file is undefined.
SwitchMainChainStorage(s, b) ==
    IF Len(mainChainStorage) < Index[s]
    THEN /\ status' = "poppedEmptyStorage"
         /\ UNCHANGED mainChainStorage
    ELSE /\ mainChainStorage' = SubSeq(mainChainStorage, 1, Index[s])
                                   \o Append(SegmentBlocks(s), b)
         /\ UNCHANGED status

\* On top of another leaf, which becomes strictly heavier than the main one.
SwitchToAlternative(b) ==
    LET s == segmentOf[Prev[b]]
    IN /\ status = "running"
       /\ Accepts(b)
       /\ OnTop(b) /\ Childless(b) /\ s # MainLeaf
       /\ Heavier(b)
       /\ segmentOf' = Put(segmentOf, b, s)
       /\ chainsLeaves' = [i \in DOMAIN chainsLeaves |->
                              IF i = 1 THEN s
                              ELSE IF chainsLeaves[i] = s THEN MainLeaf
                              ELSE chainsLeaves[i]]
       /\ UNCHANGED <<parent, children>>
       /\ UpdateMainChainSet
       /\ SwitchMainChainStorage(s, b)

\* On top of a segment that already has children: a new leaf segment. No
\* cumulative difficulties are compared.
ForkAtTop(b) ==
    LET s == segmentOf[Prev[b]]
    IN /\ status = "running"
       /\ Accepts(b)
       /\ OnTop(b) /\ ~Childless(b)
       /\ segmentOf' = Put(segmentOf, b, b)
       /\ parent' = Put(parent, b, s)
       /\ children' = Put(Put(children, s, children[s] \cup {b}), b, {})
       /\ chainsLeaves' = Append(chainsLeaves, b)
       /\ UpdateMainChainSet
       /\ UNCHANGED <<status, mainChainStorage>>

\* The children that BlockchainCache::split hands to the upper part; the
\* split of the database segment leaves them where they are.
Adopted(s) == IF s = Genesis THEN {} ELSE children[s]

\* Mutant of Reparented: the adopted children keep their parent pointer.
Reparented_not(s, upper) == parent

\* The parent pointers once the upper part has adopted its children.
Reparented(s, upper) == PutAll(parent, Adopted(s), upper)

\* Mutant of ReplacedLeaf: the lower part stays in the list of leaves.
ReplacedLeaf_not(s, upper) == chainsLeaves

\* The leaves after a split: a childless upper part takes the place of s.
ReplacedLeaf(s, upper) ==
    [i \in DOMAIN chainsLeaves |->
        IF chainsLeaves[i] = s /\ Adopted(s) = {} THEN upper ELSE chainsLeaves[i]]

\* In the middle of segment s: split it above b's parent and put b in a new
\* leaf segment. An in-memory segment hands its children to its upper part;
\* the database segment keeps them, and its upper part has none.
SplitSegment(b) ==
    LET s == segmentOf[Prev[b]]
        moved == {c \in BlocksOf(s) : Index[c] > Index[Prev[b]]}
    IN /\ status = "running"
       /\ Accepts(b)
       /\ ~OnTop(b)
       /\ Adopted(s) # {} \/ \E i \in DOMAIN chainsLeaves : chainsLeaves[i] = s
       /\ \E upper \in moved :
             /\ Index[upper] = Index[b]
             /\ segmentOf' = Put(PutAll(segmentOf, moved, upper), b, b)
             /\ parent' = Put(Put(Reparented(s, upper), upper, s), b, s)
             /\ children' = Put(Put(Put(children, s, (children[s] \ Adopted(s)) \cup {upper, b}),
                                    upper, Adopted(s)), b, {})
             /\ chainsLeaves' = Append(ReplacedLeaf(s, upper), b)
       /\ UpdateMainChainSet
       /\ UNCHANGED <<status, mainChainStorage>>

\* In the middle of a segment whose upper part has no children although the
\* segment was not a leaf: std::find returns chainsLeaves.end(), the code
\* assigns through it, and nothing more can be said of the process.
SplitOfNonLeaf(b) ==
    LET s == segmentOf[Prev[b]]
    IN /\ status = "running"
       /\ Accepts(b)
       /\ ~OnTop(b)
       /\ Adopted(s) = {}
       /\ \A i \in DOMAIN chainsLeaves : chainsLeaves[i] # s
       /\ status' = "wroteThroughEnd"
       /\ UNCHANGED <<segmentOf, parent, children, chainsLeaves, mainChainSet,
                      mainChainStorage>>

\* addBlock returns an error code and changes nothing.
RejectBlock(b) ==
    /\ status = "running"
    /\ ~Accepts(b)
    /\ UNCHANGED treeVars

AddBlock(b) ==
    \/ PushToMain(b)
    \/ PushToAlternative(b)
    \/ SwitchToAlternative(b)
    \/ ForkAtTop(b)
    \/ SplitSegment(b)
    \/ SplitOfNonLeaf(b)

\* After an undefined step the model says nothing more.
Undefined ==
    /\ status \in {"wroteThroughEnd", "poppedEmptyStorage"}
    /\ UNCHANGED treeVars

Next ==
    \/ \E b \in Block : AddBlock(b) \/ RejectBlock(b)
    \/ Undefined

Spec == Init /\ [][Next]_treeVars
-----------------------------------------------------------------------------
(* Properties. *)

Status == {"running", "wroteThroughEnd", "poppedEmptyStorage"}

\* Every variable has its type: segments and leaves are named by known blocks.
TypeOK ==
    /\ status \in Status
    /\ Known \subseteq Block
    /\ Genesis \in Segments
    /\ Segments \subseteq Known
    /\ segmentOf \in [Known -> Segments]
    /\ parent \in [Segments -> Segments \cup {NoSegment}]
    /\ children \in [Segments -> SUBSET Segments]
    /\ chainsLeaves \in Seq(Segments)
    /\ chainsLeaves # <<>>
    /\ mainChainSet \subseteq Segments
    /\ mainChainStorage \in Seq(Block)

\* The segments cut the block tree into paths, whatever order blocks arrive
\* in and however segments are split: a segment's blocks follow one another,
\* its first block follows the top of its parent, and the child lists are
\* the inverse of the parent pointers.
TreeShape ==
    /\ \A b \in Known \ {Genesis} : Prev[b] \in Known
    /\ \A s \in Segments : segmentOf[s] = s
    /\ \A b \in Known \ Segments : segmentOf[Prev[b]] = segmentOf[b]
    /\ \A s \in Segments, b, c \in Known :
          segmentOf[b] = s /\ segmentOf[c] = s /\ Index[b] = Index[c] => b = c
    /\ \A s \in Segments \ {Genesis} :
          parent[s] \in Segments /\ Prev[s] = Top(parent[s])
    /\ parent[Genesis] = NoSegment
    /\ \A s, t \in Segments : t \in children[s] <=> parent[t] = s

\* What addBlock keeps beside the tree agrees with it across pushes, forks,
\* splits and switches: chainsLeaves lists every childless segment once and
\* nothing else, every segment is on the way from some leaf to the root, so
\* that hasBlock overlooks no block, and mainChainSet is the lineage of the
\* first leaf.
LeavesCoverTheTree ==
    /\ \A i, j \in DOMAIN chainsLeaves : chainsLeaves[i] = chainsLeaves[j] => i = j
    /\ {chainsLeaves[i] : i \in DOMAIN chainsLeaves} = {s \in Segments : children[s] = {}}
    /\ Searched = Segments
    /\ mainChainSet = Lineage(parent, MainLeaf)

\* Block b and its ancestors.
Ancestors[b \in Block] == IF b = Genesis THEN {b} ELSE {b} \cup Ancestors[Prev[b]]

\* Walking the segments from the one that holds b meets exactly b's
\* ancestors at indexes up to b's: what checkIfSpent and the other lookups by
\* index on a branch rely on.
LineageIsPath ==
    \A b \in Known : ChainUpTo(segmentOf[b], Index[b]) = Ancestors[b]

\* No known block ends a chain heavier than the main chain, although addBlock
\* compares cumulative difficulties in one of its four branches only.
HeaviestChain == \A b \in Known : Cumulative[b] <= Cumulative[Tip]

\* Outside the checkpoint zone no block of any branch spends a key image
\* that a block below it on the same branch spends.
NoDoubleSpend ==
    \A b \in Known :
        ~InCheckpointZone(Index[b]) =>
            KeyImagesOf({b}) \cap KeyImagesOf(Ancestors[b] \ {b}) = {}

\* A sequence of blocks in which each block is the parent of the next one.
Linked(blocks) ==
    \A i \in 2 .. Len(blocks) : blocks[i] # Genesis /\ Prev[blocks[i]] = blocks[i - 1]

\* The main chain file holds the main chain.
StorageIsMainChain ==
    status = "running" =>
        /\ mainChainStorage # <<>>
        /\ mainChainStorage[1] = Genesis
        /\ Linked(mainChainStorage)
        /\ mainChainStorage[Len(mainChainStorage)] = Tip

\* A step keeps the file equal to the main chain unless it switches to a
\* leaf whose parent segment is off the main chain: switchMainChainStorage
\* rewrites the file from the start of the LEAF segment.
StorageFollows ==
    [][(StorageIsMainChain /\ status' = "running"
          /\ (MainLeaf' \in mainChainSet \/ parent'[MainLeaf'] \in mainChainSet))
       => StorageIsMainChain']_treeVars

\* The assertion of addBlock: the segment replaced by its upper part is found
\* among the leaves.
SplitFindsLeaf == status # "wroteThroughEnd"

\* The fork choice rule this tree implements.
FC == INSTANCE ForkChoice WITH known <- Known, tip <- Tip

\* The tree of segments implements the fork choice rule: the main chain's tip
\* moves only to a new, strictly heavier block, and moves to it at once.
ImplementsForkChoice == FC!Spec
=============================================================================
