--------------------------- MODULE SegmentIndexes ---------------------------
(***************************************************************************)
(* The indexes of the chain's segments: the database segment              *)
(* (DatabaseBlockchainCache) and the segments in memory above it           *)
(* (BlockchainCache).  A block is pushed to one segment; a fork splits a   *)
(* segment; saving the node pushes the main chain back into the database.  *)
(* What a query answers (is a key image spent, which global index has an   *)
(* output, what are the last blocks) must depend on the chain alone, never *)
(* on how it came to be cut into segments or on what the caches remember.  *)
(***************************************************************************)
EXTENDS Integers, Sequences, FiniteSets, SequencesExt

CONSTANTS
    Blocks, Genesis, Prev,      \* the blocks there are, and what each is built on
    TxsOf,                      \* the transactions of a block, its base transaction first
    OutputsOf,                  \* the amounts of a transaction's key outputs
    SpendsOf,                   \* the key images a transaction spends
    PaymentIdOf, NoPaymentId,   \* the payment id in a transaction's extra field
    Difficulty, Timestamp,      \* of a block
    UnitsCacheSize,             \* unitsCacheSize
    CountWidth,                 \* the values a payment id's counter can take (2^32)
    MaxSegments,                \* bound: the segments in memory at one time
    MaxDatabaseSplits,          \* bound: how often the database is split
    GenesisRestart              \* whether the node may stop with only the genesis block

ASSUME IndexConstants ==
    /\ Genesis \in Blocks /\ Prev \in [Blocks \ {Genesis} -> Blocks]
    /\ UnitsCacheSize > 0 /\ MaxSegments \in Nat
    /\ GenesisRestart \in BOOLEAN

VARIABLES
    node,   \* the database, the caches in front of it, and the segments in memory
    phase,  \* "down", "up", or "saving" while the main chain is merged
    splits  \* how often the database was split

vars == <<node, phase, splits>>

DB == 0
None == -1
Absent(f, x) == x \notin DOMAIN f
Without(f, S) == Restrict(f, DOMAIN f \ S)
KeyImagesOf(b) == UNION {SpendsOf[t] : t \in ToSet(TxsOf[b])}

(* The position of a transaction's output among its outputs of that amount *)
Earlier(t, o) == Cardinality({q \in 1..(o - 1) : OutputsOf[t][q] = OutputsOf[t][o]})
HowMany(t, a) == Cardinality({o \in DOMAIN OutputsOf[t] : OutputsOf[t][o] = a})

NoDatabase ==
    [last |-> 0, info |-> <<>>, images |-> <<>>, imagesOf |-> <<>>,
     txs |-> <<>>, txCount |-> 0, counts |-> <<>>, outs |-> <<>>, keys |-> <<>>,
     paid |-> <<>>, slots |-> <<>>, times |-> <<>>]

NoCache == [top |-> None, txCount |-> None, counts |-> <<>>, units |-> <<>>]

Init ==
    /\ node = [db |-> NoDatabase, cache |-> NoCache, segs |-> <<>>]
    /\ phase = "down" /\ splits = 0

-----------------------------------------------------------------------------
(* Reading.  Every operator takes the node w it reads.                     *)

GetTopBlockIndex(w) == IF w.cache.top = None THEN w.db.last ELSE w.cache.top

GetCachedTransactionsCount(w) ==
    IF w.cache.txCount = None THEN w.db.txCount ELSE w.cache.txCount

KeyOutputCount(w, a) ==
    IF ~Absent(w.cache.counts, a) THEN w.cache.counts[a]
    ELSE IF ~Absent(w.db.counts, a) THEN w.db.counts[a] ELSE 0

StartOf(w, s) == IF s = DB THEN 0 ELSE w.segs[s].start
TopOf(w, s) ==
    IF s = DB THEN GetTopBlockIndex(w) ELSE w.segs[s].start + Len(w.segs[s].info) - 1
GetCachedBlockInfo(w, s, i) ==
    IF s = DB THEN w.db.info[i] ELSE w.segs[s].info[i - w.segs[s].start + 1]
ChildrenOf(w, s) == {c \in DOMAIN w.segs : w.segs[c].parent = s}

CheckIfSpentInDatabase(w, k, i) == ~Absent(w.db.images, k) /\ w.db.images[k] <= i

RECURSIVE CheckIfSpent(_, _, _, _)
CheckIfSpent(w, s, k, i) ==
    IF s = DB THEN CheckIfSpentInDatabase(w, k, i)
    ELSE LET c == w.segs[s] IN
         IF i < c.start \/ Absent(c.images, k) THEN CheckIfSpent(w, c.parent, k, i)
         ELSE c.images[k] <= i

(* lower_bound by block index: the outputs of amount a in blocks below i   *)
CountForAmountInDatabase(w, a, i) ==
    IF Absent(w.db.counts, a) THEN 0
    ELSE Cardinality({g \in 0..(w.db.counts[a] - 1) : w.db.outs[<<a, g>>].block < i})

RECURSIVE GetKeyOutputsCountForAmount(_, _, _, _)
GetKeyOutputsCountForAmount(w, s, a, i) ==
    IF s = DB THEN CountForAmountInDatabase(w, a, i)
    ELSE LET c == w.segs[s] IN
         IF Absent(c.outs, a) THEN GetKeyOutputsCountForAmount(w, c.parent, a, i)
         ELSE c.outs[a].start
              + Cardinality({n \in DOMAIN c.outs[a].outputs : c.outs[a].outputs[n].block < i})

(* extractKeyOutputs for one global index: the output it finds, if any     *)
ExtractFromDatabase(w, a, g) == {w.db.keys[x] : x \in DOMAIN w.db.keys \cap {<<a, g>>}}

RECURSIVE ExtractKeyOutput(_, _, _, _, _)
ExtractKeyOutput(w, s, a, i, g) ==
    IF s = DB THEN ExtractFromDatabase(w, a, g)
    ELSE LET c == w.segs[s] IN
         IF Absent(c.outs, a) \/ i < c.start \/ g < c.outs[a].start
         THEN ExtractKeyOutput(w, c.parent, a, i, g)
         ELSE {<<t, c.outs[a].outputs[g - c.outs[a].start + 1].out>> :
                 t \in {u \in DOMAIN c.txs :
                          /\ g - c.outs[a].start < Len(c.outs[a].outputs)
                          /\ LET poi == c.outs[a].outputs[g - c.outs[a].start + 1] IN
                             c.txs[u].block = poi.block /\ c.txs[u].pos = poi.pos}}

GlobalIndexesInDatabase(w, t) == IF Absent(w.db.txs, t) THEN <<>> ELSE w.db.txs[t].globals

RECURSIVE GetGlobalIndexes(_, _, _)
GetGlobalIndexes(w, s, t) ==
    IF s = DB THEN GlobalIndexesInDatabase(w, t)
    ELSE IF Absent(w.segs[s].txs, t) THEN GetGlobalIndexes(w, w.segs[s].parent, t)
    ELSE w.segs[s].txs[t].globals

RECURSIVE GetTransactionCount(_, _)
GetTransactionCount(w, s) ==
    IF s = DB THEN GetCachedTransactionsCount(w)
    ELSE GetTransactionCount(w, w.segs[s].parent) + Cardinality(DOMAIN w.segs[s].txs)

Lesser(m, n) == IF m < n THEN m ELSE n

(* The cached part of the last n blocks up to i, then the rest from disk.  *)
GetLastCachedUnits(w, i, n, useGenesis) ==
    LET cached == Len(w.cache.units)
        from   == GetTopBlockIndex(w) + 1 - cached
        count  == Lesser(i + 1 - from, Lesser(cached, n))
        offset == i + 1 - count - from
        skip   == IF ~useGenesis /\ from = 0 /\ offset = 0 THEN 1 ELSE 0
    IN IF from > i \/ cached = 0 \/ n = 0 THEN <<>>
       ELSE SubSeq(w.cache.units, offset + skip + 1, offset + count)

GetLastDbUnits(w, i, n, useGenesis) ==
    LET first == i + 1 - Lesser(i + 1, n)
        from  == IF first = 0 /\ ~useGenesis THEN 1 ELSE first
    IN [m \in 1..(i + 1 - from) |-> w.db.info[from + m - 1]]

GetLastUnitsOfDatabase(w, i, n, useGenesis) ==
    LET cached    == GetLastCachedUnits(w, i, n, useGenesis)
        available == IF useGenesis THEN i + 1 ELSE i
    IN IF available = Len(cached) THEN cached
       ELSE GetLastDbUnits(w, i - Len(cached), n - Len(cached), useGenesis) \o cached

RECURSIVE GetLastUnits(_, _, _, _, _)
GetLastUnits(w, s, i, n, useGenesis) ==
    IF s = DB THEN GetLastUnitsOfDatabase(w, i, n, useGenesis)
    ELSE LET c    == w.segs[s]
             to   == IF i < c.start THEN 0 ELSE i - c.start + 1
             real == Lesser(n, to)
             below == IF real < n
                      THEN GetLastUnits(w, c.parent, Lesser(i, TopOf(w, c.parent)), n - real, useGenesis)
                      ELSE <<>>
         IN below \o SubSeq(c.info, to - real + 1, to)

(* A block as one segment hands it to another.                             *)
Pushed(info, before, images) ==
    [hash |-> info.hash, difficulty |-> info.difficulty - before, images |-> images]

GetExtendedPushedBlockInfo(w, i) ==
    Pushed(w.db.info[i], w.db.info[i - 1].difficulty, w.db.imagesOf[i])

GetPushedBlockInfo(w, s, i) ==
    LET c == w.segs[s] IN
    Pushed(GetCachedBlockInfo(w, s, i),
           IF i = c.start THEN GetLastUnits(w, c.parent, i - 1, 1, TRUE)[1].difficulty
           ELSE GetCachedBlockInfo(w, s, i - 1).difficulty,
           {k \in DOMAIN c.images : c.images[k] = i})

-----------------------------------------------------------------------------
(* Writing to the database.  A push collects its changes in w.batch, reads *)
(* w.db, and writes the whole batch at once.                               *)

InsertPaymentId(w, t) ==
    LET id    == PaymentIdOf[t]
        count == (IF Absent(w.db.paid, id) THEN 0 ELSE w.db.paid[id]) + 1
    IN IF id = NoPaymentId THEN w.batch
       ELSE [w.batch EXCEPT !.paid = (id :> count) @@ @,
                            !.slots = (<<id, count - 1>> :> t) @@ @]

PushTransactionToDatabase(w, t, i, pos) ==
    LET outs    == DOMAIN OutputsOf[t]
        amounts == {OutputsOf[t][o] : o \in outs}
        globals == [o \in outs |-> KeyOutputCount(w, OutputsOf[t][o]) + Earlier(t, o)]
        totals  == [a \in amounts |-> KeyOutputCount(w, a) + HowMany(t, a)]
        at(o)   == <<OutputsOf[t][o], globals[o]>>
        entry(f(_)) == [x \in {at(o) : o \in outs} |-> f(CHOOSE o \in outs : at(o) = x)]
        poi(o)  == [block |-> i, pos |-> pos, out |-> o]
        key(o)  == <<t, o>>
        count   == GetCachedTransactionsCount(w) + 1
    IN [w EXCEPT !.cache.counts = totals @@ @,
                 !.cache.txCount = count,
                 !.batch = [InsertPaymentId(w, t) EXCEPT
                              !.counts = totals @@ @,
                              !.outs = entry(poi) @@ @,
                              !.keys = entry(key) @@ @,
                              !.txs = (t :> [block |-> i, pos |-> pos, globals |-> globals]) @@ @,
                              !.txCount = count]]

InsertBlockTimestamp_overwrites(w, b) == (Timestamp[b] :> <<b>>) @@ w.db.times
InsertBlockTimestamp(w, b) ==
    (Timestamp[b] :> Append(IF Absent(w.db.times, Timestamp[b]) THEN <<>>
                            ELSE w.db.times[Timestamp[b]], b)) @@ w.db.times

RememberUnit(units, unit) ==
    IF Len(units) = UnitsCacheSize THEN Append(Tail(units), unit) ELSE Append(units, unit)

PushTransactionsToDatabase(w, b, i) ==
    FoldLeft(LAMBDA x, n : PushTransactionToDatabase(x, TxsOf[b][n], i, n - 1),
             w, [n \in DOMAIN TxsOf[b] |-> n])

BatchOf(w, batch) == [db |-> w.db, batch |-> batch, cache |-> w.cache, segs |-> w.segs]
Write(w) == [db |-> w.batch, cache |-> w.cache, segs |-> w.segs]

PushBlockToDatabase(w, pushed) ==
    LET b    == pushed.hash
        top  == GetTopBlockIndex(w)
        unit == [hash |-> b, difficulty |-> w.db.info[top].difficulty + pushed.difficulty,
                 txs |-> w.db.info[top].txs + Len(TxsOf[b])]
        w1   == BatchOf(w, [w.db EXCEPT
                   !.images = [k \in pushed.images |-> top + 1] @@ @,
                   !.imagesOf = (top + 1 :> pushed.images) @@ @,
                   !.info = (top + 1 :> unit) @@ @,
                   !.last = top + 1,
                   !.times = InsertBlockTimestamp(w, b)])
        w2   == Write(PushTransactionsToDatabase(w1, b, top + 1))
    IN [w2 EXCEPT !.cache.top = top + 1, !.cache.units = RememberUnit(@, unit)]

AddGenesisBlock(w) ==
    LET unit == [hash |-> Genesis, difficulty |-> 1, txs |-> 1]
        w1   == PushTransactionToDatabase(BatchOf(w, w.db), TxsOf[Genesis][1], 0, 0)
        w2   == Write([w1 EXCEPT !.batch.info = (0 :> unit) @@ @,
                                 !.batch.last = 0])
    IN [w2 EXCEPT !.cache.top = 0, !.cache.units = Append(@, unit)]

-----------------------------------------------------------------------------
(* Writing to a segment in memory.                                         *)

NewSegment(parent, start) ==
    [parent |-> parent, start |-> start, info |-> <<>>, images |-> <<>>,
     txs |-> <<>>, outs |-> <<>>, pays |-> {}]

InsertKeyOutputs(w, s, t, i, pos) ==
    LET c == w.segs[s]
        entry(a) == IF ~Absent(c.outs, a) THEN c.outs[a]
                    ELSE [start |-> GetKeyOutputsCountForAmount(w, c.parent, a, i), outputs |-> <<>>]
        added(a) == [n \in 1..HowMany(t, a) |->
                       [block |-> i, pos |-> pos,
                        out |-> CHOOSE o \in DOMAIN OutputsOf[t] :
                                  OutputsOf[t][o] = a /\ Earlier(t, o) = n - 1]]
    IN [a \in ToSet(OutputsOf[t]) |->
          [start |-> entry(a).start, outputs |-> entry(a).outputs \o added(a)]] @@ c.outs

PushTransactionToSegment(w, s, t, i, pos) ==
    LET outs      == InsertKeyOutputs(w, s, t, i, pos)
        global(o) == LET a == OutputsOf[t][o] IN
                     outs[a].start + Len(outs[a].outputs) - HowMany(t, a) + Earlier(t, o)
    IN [w EXCEPT !.segs[s].outs = outs,
                 !.segs[s].txs = (t :> [block |-> i, pos |-> pos,
                                        globals |-> [o \in DOMAIN OutputsOf[t] |-> global(o)]]) @@ @,
                 !.segs[s].pays = @ \cup (IF PaymentIdOf[t] = NoPaymentId THEN {}
                                          ELSE {<<PaymentIdOf[t], t>>})]

PushTransactionsToSegment(w, s, b, i) ==
    FoldLeft(LAMBDA x, n : PushTransactionToSegment(x, s, TxsOf[b][n], i, n - 1),
             w, [n \in DOMAIN TxsOf[b] |-> n])

PushBlockToSegment(w, s, pushed) ==
    LET c      == w.segs[s]
        i      == c.start + Len(c.info)
        before == IF c.info = <<>> THEN GetCachedBlockInfo(w, c.parent, i - 1) ELSE Last(c.info)
        unit   == [hash |-> pushed.hash, difficulty |-> before.difficulty + pushed.difficulty,
                   txs |-> before.txs + Len(TxsOf[pushed.hash])]
        w1     == [w EXCEPT !.segs[s].info = Append(@, unit),
                            !.segs[s].images = @ @@ [k \in pushed.images |-> i]]
    IN PushTransactionsToSegment(w1, s, pushed.hash, i)

PushBlock(w, s, pushed) ==
    IF s = DB THEN PushBlockToDatabase(w, pushed) ELSE PushBlockToSegment(w, s, pushed)

-----------------------------------------------------------------------------
(* Splitting a segment in memory: all that is at index i or above moves to *)
(* the new segment n, which also takes over the children.                  *)

SplitSpentKeyImages(images, i) == [low |-> {k \in DOMAIN images : images[k] < i},
                                   high |-> {k \in DOMAIN images : images[k] >= i}]

SplitKeyOutputs(outs, i) ==
    LET low(a)  == SelectSeq(outs[a].outputs, LAMBDA poi : poi.block < i)
        high(a) == SelectSeq(outs[a].outputs, LAMBDA poi : poi.block >= i)
    IN [low  |-> [a \in {x \in DOMAIN outs : low(x) # <<>>} |->
                    [start |-> outs[a].start, outputs |-> low(a)]],
        high |-> [a \in {x \in DOMAIN outs : high(x) # <<>>} |->
                    [start |-> outs[a].start + Len(low(a)), outputs |-> high(a)]]]

SplitSegment(w, s, i, n) ==
    LET c      == w.segs[s]
        images == SplitSpentKeyImages(c.images, i)
        moved  == {t \in DOMAIN c.txs : c.txs[t].block >= i}
        pays   == {p \in c.pays : p[2] \in moved}
        outs   == SplitKeyOutputs(c.outs, i)
        lower  == [c EXCEPT !.info = SubSeq(@, 1, i - c.start), !.outs = outs.low,
                            !.images = Restrict(@, images.low), !.txs = Without(@, moved),
                            !.pays = @ \ pays]
        upper  == [parent |-> s, start |-> i, info |-> SubSeq(c.info, i - c.start + 1, Len(c.info)),
                   images |-> Restrict(c.images, images.high), txs |-> Restrict(c.txs, moved),
                   outs |-> outs.high, pays |-> pays]
        child  == [x \in ChildrenOf(w, s) |-> [w.segs[x] EXCEPT !.parent = n]]
    IN [w EXCEPT !.segs = (s :> lower) @@ (n :> upper) @@ child @@ @]

-----------------------------------------------------------------------------
(* Splitting the database: the blocks from i up are copied to a new segment *)
(* in memory, then erased with everything that refers to them.             *)

TransactionsFrom(db, i) == {t \in DOMAIN db.txs : db.txs[t].block >= i}

RequestDeletePaymentIds(db, gone) ==
    LET ids      == {PaymentIdOf[t] : t \in gone} \ {NoPaymentId}
        deleted(id) == Cardinality({t \in gone : PaymentIdOf[t] = id})
        left     == [id \in ids |-> (db.paid[id] - deleted(id) + CountWidth) % CountWidth]
    IN [paid |-> left @@ db.paid, slots |-> Without(db.slots, {<<id, left[id]>> : id \in ids})]

(* The least global index, per amount, of the outputs that go              *)
KeyIndexSplitBoundaries(db, gone) ==
    LET indexes(a) == {db.txs[t].globals[o] : <<t, o>> \in
                         {to \in gone \X (1..Max({Len(OutputsOf[t]) : t \in gone})) :
                            /\ to[2] <= Len(OutputsOf[to[1]])
                            /\ OutputsOf[to[1]][to[2]] = a}}
    IN [a \in UNION {ToSet(OutputsOf[t]) : t \in gone} |-> Min(indexes(a))]

RequestRemoveTimestamps(db, i) ==
    LET gone(ts) == {n \in DOMAIN db.info : n >= i /\ Timestamp[db.info[n].hash] = ts}
        touched  == {ts \in DOMAIN db.times : gone(ts) # {}}
        rest(ts) == RemoveFirst(db.times[ts], db.info[Min(gone(ts))].hash)
        kept     == {ts \in touched : rest(ts) # <<>>}
    IN [ts \in kept |-> rest(ts)] @@ Without(db.times, touched)

RequestDeleteSpentOutputs_kept(db, i) == db.images
RequestDeleteSpentOutputs(db, i) ==
    Without(db.images, UNION {db.imagesOf[n] : n \in {m \in DOMAIN db.imagesOf : m >= i}})

Erased(w, i) ==
    LET db     == w.db
        gone   == TransactionsFrom(db, i)
        bounds == KeyIndexSplitBoundaries(db, gone)
        keys   == {x \in DOMAIN db.outs : x[1] \in DOMAIN bounds /\ x[2] >= bounds[x[1]]
                                          /\ x[2] < db.counts[x[1]]}
        pays   == RequestDeletePaymentIds(db, gone)
        above  == {n \in DOMAIN db.info : n >= i}
    IN [last |-> i - 1, info |-> Without(db.info, above),
        images |-> RequestDeleteSpentOutputs(db, i), imagesOf |-> Without(db.imagesOf, above),
        txs |-> Without(db.txs, gone),
        txCount |-> GetCachedTransactionsCount(w) - Cardinality(gone),
        counts |-> bounds @@ db.counts, outs |-> Without(db.outs, keys),
        keys |-> Without(db.keys, keys), paid |-> pays.paid, slots |-> pays.slots,
        times |-> RequestRemoveTimestamps(db, i)]

(* The remembered counts of outputs follow the erased ones                 *)
UpdateKeyOutputCounts_stale(w, bounds) == w.cache.counts
UpdateKeyOutputCounts(w, bounds) ==
    [a \in DOMAIN bounds |-> KeyOutputCount(w, a) + bounds[a] - w.db.counts[a]] @@ w.cache.counts

CutTail_less(units, count) ==
    SubSeq(units, 1, IF count > Len(units) THEN 0 ELSE Len(units) - count + 1)
CutTail(units, count) ==
    SubSeq(units, 1, IF count >= Len(units) THEN 0 ELSE Len(units) - count)

SplitDatabase(w, i, n) ==
    LET top    == GetTopBlockIndex(w)
        fresh  == [w EXCEPT !.segs = (n :> NewSegment(DB, i)) @@ @]
        copied == FoldLeft(LAMBDA x, j : PushBlockToSegment(x, n, GetExtendedPushedBlockInfo(x, j)),
                           fresh, [m \in 1..(top + 1 - i) |-> i + m - 1])
        bounds == KeyIndexSplitBoundaries(w.db, TransactionsFrom(w.db, i))
    IN [copied EXCEPT !.db = Erased(w, i),
                      !.cache = [top |-> None, txCount |-> None,
                                 counts |-> UpdateKeyOutputCounts(w, bounds),
                                 units |-> CutTail(w.cache.units, top + 1 - i)]]

Split(w, s, i, n) == IF s = DB THEN SplitDatabase(w, i, n) ELSE SplitSegment(w, s, i, n)

-----------------------------------------------------------------------------
(* The steps of the node.                                                  *)

Segments(w) == {DB} \cup DOMAIN w.segs
IndexesIn(w, s) == IF s = DB THEN DOMAIN w.db.info ELSE StartOf(w, s)..TopOf(w, s)
HasBlock(w, s, b) == \E i \in IndexesIn(w, s) : GetCachedBlockInfo(w, s, i).hash = b
Free(w) == (1..MaxSegments) \ DOMAIN w.segs

Start ==
    /\ phase = "down"
    /\ phase' = "up"
    /\ node' = IF GetTopBlockIndex(node) = 0 THEN AddGenesisBlock(node) ELSE node
    /\ UNCHANGED splits

NewBlock(b) == [hash |-> b, difficulty |-> Difficulty[b], images |-> KeyImagesOf(b)]

(* addBlock: on top of a leaf; on top of a segment with children; or below *)
(* the top of a segment, which is split first.                             *)
AddBlock(b, s, i) ==
    /\ phase = "up"
    /\ b # Genesis /\ \A x \in Segments(node) : ~HasBlock(node, x, b)
    /\ i \in IndexesIn(node, s) /\ GetCachedBlockInfo(node, s, i).hash = Prev[b]
    /\ \A k \in KeyImagesOf(b) : ~CheckIfSpent(node, s, k, i)
    /\ \/ /\ i = TopOf(node, s) /\ ChildrenOf(node, s) = {}
          /\ node' = PushBlock(node, s, NewBlock(b))
          /\ UNCHANGED splits
       \/ /\ i = TopOf(node, s) /\ ChildrenOf(node, s) # {} /\ Free(node) # {}
          /\ LET n == Min(Free(node))
                 w == [node EXCEPT !.segs = (n :> NewSegment(s, i + 1)) @@ @]
             IN node' = PushBlock(w, n, NewBlock(b))
          /\ UNCHANGED splits
       \/ /\ i < TopOf(node, s) /\ Cardinality(Free(node)) > 1
          /\ s = DB => splits < MaxDatabaseSplits /\ ChildrenOf(node, DB) = {}
          /\ LET n == Min(Free(node))
                 m == Min(Free(node) \ {n})
                 w == [Split(node, s, i + 1, n) EXCEPT !.segs = (m :> NewSegment(s, i + 1)) @@ @]
             IN node' = PushBlock(w, m, NewBlock(b))
          /\ splits' = IF s = DB THEN splits + 1 ELSE splits
    /\ UNCHANGED phase

RECURSIVE Lineage(_, _)
Lineage(w, s) == IF s = DB THEN {DB} ELSE {s} \cup Lineage(w, w.segs[s].parent)

(* save: the alternative chains are dropped, then the segments of the main *)
(* chain are merged into the database block by block.                      *)
Save ==
    /\ phase = "up" /\ DOMAIN node.segs # {}
    /\ \E s \in DOMAIN node.segs :
         /\ ChildrenOf(node, s) = {}
         /\ \A x \in DOMAIN node.segs :
              Last(node.segs[x].info).difficulty <= Last(node.segs[s].info).difficulty
         /\ node' = [node EXCEPT !.segs = Restrict(@, Lineage(node, s) \ {DB})]
    /\ phase' = "saving"
    /\ UNCHANGED splits

MergeBlock ==
    /\ phase = "saving"
    /\ LET i == GetTopBlockIndex(node) + 1 IN
       \E s \in DOMAIN node.segs :
         /\ i \in IndexesIn(node, s)
         /\ node' = PushBlockToDatabase(node, GetPushedBlockInfo(node, s, i))
    /\ UNCHANGED <<phase, splits>>

(* The process ends, after a save, in the middle of one, or without one    *)
Stop ==
    /\ phase # "down"
    /\ GenesisRestart \/ node.db.last > 0
    /\ node' = [node EXCEPT !.cache = NoCache, !.segs = <<>>]
    /\ phase' = "down"
    /\ UNCHANGED splits

Next ==
    \/ Start
    \/ \E b \in Blocks, s \in Segments(node) : \E i \in IndexesIn(node, s) : AddBlock(b, s, i)
    \/ Save
    \/ MergeBlock
    \/ Stop

Spec == Init /\ [][Next]_vars

-----------------------------------------------------------------------------
(* What the queries should answer: a function of the chain of blocks that  *)
(* ends with segment s, and of nothing else.                               *)

RECURSIVE ChainOf(_, _)
ChainOf(w, s) ==
    IF s = DB THEN [n \in 1..Cardinality(DOMAIN w.db.info) |-> w.db.info[n - 1].hash]
    ELSE ChainOf(w, w.segs[s].parent) \o [n \in DOMAIN w.segs[s].info |-> w.segs[s].info[n].hash]

(* The segments that answer queries: while the node saves, the segments in *)
(* memory repeat blocks of the database and are only read block by block.  *)
Answering == IF phase = "up" THEN Segments(node)
             ELSE IF DOMAIN node.db.info # {} THEN {DB} ELSE {}

AllKeyImages == UNION {KeyImagesOf(b) : b \in Blocks}
AllAmounts == UNION {ToSet(OutputsOf[t]) : t \in DOMAIN OutputsOf}
TransactionsOf(chain) == FlattenSeq([n \in DOMAIN chain |-> TxsOf[chain[n]]])

(* The outputs of amount a on a chain, in the order of the chain           *)
OutputsOn(chain, a) ==
    LET of(t) == [o \in DOMAIN OutputsOf[t] |-> <<t, o>>]
        txs   == TransactionsOf(chain)
    IN SelectSeq(FlattenSeq([n \in DOMAIN txs |-> of(txs[n])]),
                 LAMBDA to : OutputsOf[to[1]][to[2]] = a)

UnitOn(chain, n) ==
    [hash |-> chain[n],
     difficulty |-> FoldLeft(LAMBDA d, b : d + Difficulty[b], 0, SubSeq(chain, 1, n)),
     txs |-> Len(TransactionsOf(SubSeq(chain, 1, n)))]

(* checkIfSpent: on every segment and at every index of its chain, a key   *)
(* image is spent exactly if a block up to that index spends it.  Splits,  *)
(* merges and restarts neither lose a spent key image nor keep one of a    *)
(* block that has left the chain.                                          *)
SpentExact ==
    \A s \in Answering : \A k \in AllKeyImages : \A i \in 0..TopOf(node, s) :
        CheckIfSpent(node, s, k, i)
            <=> \E n \in 1..(i + 1) : k \in KeyImagesOf(ChainOf(node, s)[n])

(* Global output indexes are what ring signatures refer to: on every       *)
(* segment each output has the index of its place among the chain's        *)
(* outputs of the amount, the index leads back to that output, the counts  *)
(* per amount agree at every height from the segment's start up (its       *)
(* children ask about no other) and the transactions are counted once,     *)
(* however pushTransaction's counters were split, merged or reloaded.      *)
GlobalIndexesExact ==
    \A s \in Answering :
        LET chain == ChainOf(node, s)
            txs   == TransactionsOf(chain)
        IN /\ GetTransactionCount(node, s) = Len(txs)
           /\ \A a \in AllAmounts :
                LET outs == OutputsOn(chain, a) IN
                /\ \A g \in DOMAIN outs :
                     /\ ExtractKeyOutput(node, s, a, TopOf(node, s), g - 1) = {outs[g]}
                     /\ GetGlobalIndexes(node, s, outs[g][1])[outs[g][2]] = g - 1
                /\ \A i \in StartOf(node, s)..Len(chain) :
                     GetKeyOutputsCountForAmount(node, s, a, i)
                         = Len(OutputsOn(SubSeq(chain, 1, i), a))

(* getLastUnits (timestamps, sizes and difficulties for the next block's   *)
(* rules): the answer is the last n blocks up to i whatever part of them   *)
(* the units cache, the database and the segments hold.                    *)
LastUnitsExact ==
    \A s \in Answering : \A i \in 0..TopOf(node, s) :
        \A n \in 1..(UnitsCacheSize + 1) : \A useGenesis \in BOOLEAN :
            LET chain == ChainOf(node, s)
                low   == IF useGenesis THEN 1 ELSE 2
                from  == IF i + 2 - n < low THEN low ELSE i + 2 - n
            IN GetLastUnits(node, s, i, n, useGenesis)
                 = [m \in 1..(i + 2 - from) |-> UnitOn(chain, from + m - 1)]

(* insertBlockTimestamp and requestRemoveTimestamp: every block above the  *)
(* genesis block is found in the database under its timestamp, also when   *)
(* blocks that share a timestamp were pushed and removed in between.       *)
TimestampsFound ==
    \A i \in DOMAIN node.db.info \ {0} :
        LET b == node.db.info[i].hash IN
        /\ ~Absent(node.db.times, Timestamp[b])
        /\ b \in ToSet(node.db.times[Timestamp[b]])

(* requestDeletePaymentId asserts count >= toDelete: whatever block the    *)
(* database is split at, the counter of a payment id covers the            *)
(* transactions with that id in the blocks that go.                        *)
PaymentCountCovers ==
    \A i \in DOMAIN node.db.info \ {0} :
        LET gone == TransactionsFrom(node.db, i) IN
        \A id \in {PaymentIdOf[t] : t \in gone} \ {NoPaymentId} :
            node.db.paid[id] >= Cardinality({t \in gone : PaymentIdOf[t] = id})
=============================================================================
