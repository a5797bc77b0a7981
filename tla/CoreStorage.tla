---------------------------- MODULE CoreStorage ----------------------------
(***************************************************************************)
(* The life of a node around the block tree: what is on disk, what a stop  *)
(* in the middle of an operation leaves there, and how Core::load brings   *)
(* the two stores together again.                                          *)
(*                                                                         *)
(* Two things are on disk. The database holds the blocks of the root       *)
(* segment; every pushBlock and every split of that segment is one write   *)
(* batch. The main chain file (MainChainStorage over SwappedVector) holds  *)
(* mainChainStorage. While the node is down the tree variables describe    *)
(* the root segment that initRootSegment will read from the database.      *)
(*                                                                         *)
(* SwappedVector leaves the new block count in a stream buffer until its   *)
(* next operation: a process that is killed leaves the count of the        *)
(* operation before, one that unwinds writes it. Both are a Stop here.     *)
(***************************************************************************)
EXTENDS ChainTree

CONSTANT MaxStops   \* bound on the number of stops and rewinds

ASSUME StopsAssumption == MaxStops \in Nat

VARIABLES
    node,     \* "up", "down", or "corrupt": load threw CORRUPTED_BLOCKCHAIN
    lagging,  \* the file's block count of the last push is still in a buffer
    advice,   \* the index that load's error message tells the user to rewind to
    rewound,  \* the height of a --rewind that removed blocks, until a block is added
    stops     \* how many stops and rewinds there have been

lifeVars == <<node, lagging, advice, rewound, stops>>

storageVars == <<treeVars, lifeVars>>

LifeInit ==
    /\ Init
    /\ node = "up"
    /\ lagging = TRUE
    /\ advice = 0
    /\ rewound = 0
    /\ stops = 0
-----------------------------------------------------------------------------
Front(s) == SubSeq(s, 1, Len(s) - 1)

Prefixes(s, from) == {SubSeq(s, 1, i) : i \in from .. Len(s)}

\* The root segment in the database, as a sequence of blocks.
Db == SegmentBlocks(Genesis)

MainBlocks == ChainUpTo(MainLeaf, Index[Tip])

\* The tree is the root segment alone, holding these blocks.
RootOnly(blocks) ==
    /\ segmentOf' = [b \in blocks |-> Genesis]
    /\ parent' = [s \in {Genesis} |-> NoSegment]
    /\ children' = [s \in {Genesis} |-> {}]
    /\ chainsLeaves' = <<Genesis>>
    /\ mainChainSet' = {Genesis}
    /\ UNCHANGED status

\* addBlock, run to its end.
LifeAddBlock(b) ==
    /\ node = "up"
    /\ AddBlock(b)
    /\ lagging' = (lagging \/ mainChainStorage' # mainChainStorage)
    /\ rewound' = 0
    /\ UNCHANGED <<node, advice, stops>>

LifeRejectBlock(b) ==
    /\ node = "up"
    /\ RejectBlock(b)
    /\ UNCHANGED lifeVars
-----------------------------------------------------------------------------
(* Stopping. *)

GoDown ==
    /\ stops < MaxStops
    /\ stops' = stops + 1
    /\ node = "up"
    /\ status = "running"
    /\ node' = "down"
    /\ lagging' = FALSE
    /\ rewound' = 0
    /\ UNCHANGED advice

\* The file at a stop: the block count of the last push may be lost.
FileLeft ==
    \/ UNCHANGED mainChainStorage
    \/ lagging /\ mainChainStorage' = Front(mainChainStorage)

\* Between two operations, without Core::save.
Stop ==
    /\ GoDown
    /\ RootOnly(BlocksOf(Genesis))
    /\ FileLeft

\* In addBlock, after the file's push and before the segment's.
StopInPush(b) ==
    /\ GoDown
    /\ Accepts(b)
    /\ OnTop(b) /\ Childless(b) /\ segmentOf[Prev[b]] = MainLeaf
    /\ mainChainStorage' = Append(mainChainStorage, b)
    /\ RootOnly(BlocksOf(Genesis))

\* In switchMainChainStorage, after some of its pops and pushes.
StopInSwitch(b) ==
    LET s == segmentOf[Prev[b]]
        new == SubSeq(mainChainStorage, 1, Index[s]) \o Append(SegmentBlocks(s), b)
    IN /\ GoDown
       /\ Accepts(b)
       /\ OnTop(b) /\ Childless(b) /\ s # MainLeaf /\ Heavier(b)
       /\ Len(mainChainStorage) >= Index[s]
       /\ mainChainStorage' \in Prefixes(mainChainStorage, Index[s]) \cup Prefixes(new, Index[s])
       /\ RootOnly(BlocksOf(Genesis))

\* What save has in the root segment once mergeMainChainSegments has pushed
\* the main chain up to index i.
Saved(i) == BlocksOf(Genesis) \cup {b \in MainBlocks : Index[b] <= i}

\* Core::save, to its end or only up to some pushBlock of mergeSegments:
\* the alternative chains are dropped and the main chain is merged into the
\* root segment. A node that ends by itself closes the file, one that is
\* killed may not.
Save ==
    /\ GoDown
    /\ \E i \in Index[Top(Genesis)] .. Index[Tip] : RootOnly(Saved(i))
    /\ FileLeft
-----------------------------------------------------------------------------
(* Starting. *)

\* findCommonRoot: the binary search for the last index at which the file
\* and the database agree.
FindCommonRoot(file, db) ==
    LET last == (IF Len(file) < Len(db) THEN Len(file) ELSE Len(db)) - 1
        search[p \in (0 .. last) \X (0 .. last)] ==
            LET l == p[1]
                r == p[2]
                checkElement == l + (r - l) \div 2 + 1
            IN IF l >= r THEN l
               ELSE IF file[checkElement + 1] = db[checkElement + 1]
                    THEN search[<<checkElement, r>>]
                    ELSE search[<<l, checkElement - 1>>]
    IN search[<<0, last>>]

\* createSwappedMainChainStorage puts Genesis into an empty file.
Opened(file) == IF file = <<>> THEN <<Genesis>> ELSE file

Blocks(s) == {s[i] : i \in DOMAIN s}

\* Mutant of CutFrom: the block at the index stays.
CutFrom_above(i) == {b \in BlocksOf(Genesis) : Index[b] <= i}

\* cutSegment(root, i): the root segment keeps the blocks below index i.
CutFrom(i) == {b \in BlocksOf(Genesis) : Index[b] < i}

NeedsImport(file, db) ==
    \/ Len(file) > Len(db)
    \/ Len(file) = Len(db) /\ file[Len(file)] # db[Len(db)]

\* Mutant of FirstBreak: the previous-block hashes are not compared.
FirstBreak_none(file, common) == Len(file)

\* The first index above the common one at which the file's block does not
\* follow the block before it; the length of the file when there is none.
FirstBreak(file, common) ==
    LET breaks == {i \in common + 1 .. Len(file) - 1 : Prev[file[i + 1]] # file[i]}
    IN CHOOSE i \in breaks \cup {Len(file)} : \A j \in breaks : i <= j

Start ==
    /\ node \in {"down", "corrupt"}
    /\ mainChainStorage' = Opened(mainChainStorage)
    /\ lagging' = (mainChainStorage = <<>>)
    /\ UNCHANGED stops

\* load, when importBlocksFromStorage runs to its end.
LoadByImport ==
    LET file == Opened(mainChainStorage)
        common == FindCommonRoot(file, Db)
    IN /\ Start
       /\ NeedsImport(file, Db)
       /\ FirstBreak(file, common) = Len(file)
       /\ RootOnly(CutFrom(common + 1) \cup {file[i] : i \in common + 2 .. Len(file)})
       /\ node' = "up" /\ advice' = 0 /\ UNCHANGED rewound

\* importBlocksFromStorage meets a block that does not follow the one before
\* it: the blocks below are in the database, the process ends.
LoadFindsCorruption ==
    LET file == Opened(mainChainStorage)
        common == FindCommonRoot(file, Db)
        broken == FirstBreak(file, common)
    IN /\ Start
       /\ NeedsImport(file, Db)
       /\ broken < Len(file)
       /\ RootOnly(CutFrom(common + 1) \cup {file[i] : i \in common + 2 .. broken})
       /\ node' = "corrupt" /\ advice' = broken /\ UNCHANGED rewound

\* The process stops in importBlocksFromStorage, after some of its pushes.
StopInImport ==
    LET file == Opened(mainChainStorage)
        common == FindCommonRoot(file, Db)
    IN /\ node \in {"down", "corrupt"}
       /\ stops < MaxStops
       /\ stops' = stops + 1
       /\ NeedsImport(file, Db)
       /\ \E i \in common + 1 .. FirstBreak(file, common) - 1 :
             RootOnly(CutFrom(common + 1) \cup {file[j] : j \in common + 2 .. i})
       /\ mainChainStorage' = file
       /\ UNCHANGED <<node, lagging, advice, rewound>>

\* load, when the database is ahead of the file: it is cut.
LoadByCut ==
    LET file == Opened(mainChainStorage)
    IN /\ Start
       /\ Len(file) < Len(Db)
       /\ RootOnly(CutFrom(FindCommonRoot(file, Db) + 1))
       /\ node' = "up" /\ advice' = 0 /\ UNCHANGED rewound

\* load, when height and top block agree.
LoadAsIs ==
    LET file == Opened(mainChainStorage)
    IN /\ Start
       /\ Len(file) = Len(Db) /\ ~NeedsImport(file, Db)
       /\ RootOnly(BlocksOf(Genesis))
       /\ node' = "up" /\ advice' = 0 /\ UNCHANGED rewound

Load == LoadByImport \/ LoadFindsCorruption \/ LoadByCut \/ LoadAsIs

\* Mutant of Rewind: the top block's index is compared with the height.
Rewind_short(h) ==
    /\ node \in {"down", "corrupt"}
    /\ stops < MaxStops
    /\ stops' = stops + 1
    /\ mainChainStorage' = IF Len(Opened(mainChainStorage)) > h
                           THEN SubSeq(Opened(mainChainStorage), 1, h + 1)
                           ELSE Opened(mainChainStorage)
    /\ rewound' = IF Len(Opened(mainChainStorage)) >= h THEN h ELSE 0
    /\ node' = "down"
    /\ UNCHANGED <<status, segmentOf, parent, children, chainsLeaves, mainChainSet,
                   lagging, advice>>

\* The daemon started with --rewind h: blocks are popped from the file while
\* it has at least h of them.
Rewind(h) ==
    /\ node \in {"down", "corrupt"}
    /\ stops < MaxStops
    /\ stops' = stops + 1
    /\ mainChainStorage' = IF Len(Opened(mainChainStorage)) >= h
                           THEN SubSeq(Opened(mainChainStorage), 1, h - 1)
                           ELSE Opened(mainChainStorage)
    /\ rewound' = IF Len(Opened(mainChainStorage)) >= h THEN h ELSE 0
    /\ node' = "down"
    /\ UNCHANGED <<status, segmentOf, parent, children, chainsLeaves, mainChainSet,
                   lagging, advice>>

\* After an undefined step the model says nothing more.
LifeUndefined == status # "running" /\ UNCHANGED storageVars

LifeNext ==
    \/ \E b \in Block : LifeAddBlock(b) \/ LifeRejectBlock(b) \/ StopInPush(b) \/ StopInSwitch(b)
    \/ Stop
    \/ Save
    \/ Load
    \/ StopInImport
    \/ \E h \in {Index[b] + 1 : b \in Block} : Rewind(h)
    \/ LifeUndefined

LifeSpec == LifeInit /\ [][LifeNext]_storageVars

\* Peers offer every block again and again, and a node that is down is
\* started in the end.
LifeFairSpec ==
    /\ LifeSpec
    /\ \A b \in Block : WF_storageVars(LifeAddBlock(b))
    /\ WF_storageVars(Load)
-----------------------------------------------------------------------------
(* Properties. *)

\* Every variable has its type, and the tree's variables keep theirs across
\* stops and loads.
LifeTypeOK ==
    /\ TypeOK
    /\ node \in {"up", "down", "corrupt"}
    /\ lagging \in BOOLEAN
    /\ advice \in Nat /\ rewound \in Nat
    /\ stops \in 0 .. MaxStops

\* Whenever the node is up, whatever stops and loads came before, the file
\* is the main chain, block for block.
FileIsMainChain == node = "up" => StorageIsMainChain

\* Wherever the process stops, the two stores it leaves can be brought
\* together: load never reports a corrupted blockchain.
NeverCorrupt == node # "corrupt"

\* Once the stops are over the node's main chain is the heaviest chain of
\* valid blocks, whatever the stops have left on disk.
Recovers ==
    <>[](/\ node = "up"
         /\ \A b \in Block \ (BadBlock \cup WeakBlock) : Cumulative[b] <= Cumulative[Tip])

\* After load has found a corrupted blockchain, --rewind with the index its
\* message names repairs it.
RewindRepairs ==
    [][(advice # 0 /\ rewound = advice /\ node = "down" /\ stops' = stops) => node' = "up"]_storageVars

\* After load the database holds nothing but a linked chain from Genesis,
\* even when the file is damaged.
DbIsLinked == Linked(Db) /\ Db[1] = Genesis
=============================================================================
