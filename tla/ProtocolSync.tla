---------------------------- MODULE ProtocolSync ----------------------------
(***************************************************************************)
(* The synchronisation protocol of src/cryptonote_protocol between nodes   *)
(* that all run this code, over the connections of src/p2p/net_node.cpp.   *)
(*                                                                         *)
(* An endpoint e = <<n, m, way>> is the connection context node n keeps    *)
(* for its connection with m, which n dialled (way = "out") or accepted    *)
(* ("in"); net[e] is what n has written on it and m has not read.  A node  *)
(* may dial itself.  A connection is served by one fiber, which takes one  *)
(* command at a time; the fibers of a node interleave only where they      *)
(* suspend: at a read, in the yield between two blocks of a batch, in the  *)
(* back ping of a handshake, and before what remoteSpawn queued is run.    *)
(*                                                                         *)
(* NOTIFY_NEW_BLOCK is left out: it goes to peers below version 4 only,    *)
(* and the handshake refuses those.                                        *)
(***************************************************************************)
EXTENDS Integers, Sequences, FiniteSets, Functions

CONSTANTS
    Nodes, Blocks, Txs,
    Parent,           \* [Blocks -> Blocks], the genesis block is its own parent
    HeightOf,         \* [Blocks -> Nat], the index of a block
    Weight,           \* [Blocks -> Nat], cumulative difficulty
    TxsOf,            \* [Blocks -> SUBSET Txs]
    Genesis,
    Refused,          \* [Nodes -> SUBSET Blocks]: blocks a node finds invalid
    Begin,            \* [Nodes -> [known: SUBSET Blocks, tip: Blocks]]
    Mines,            \* [Nodes -> SUBSET Blocks]: blocks submitted at a node
    Pays,             \* [Nodes -> SUBSET Txs]: transactions submitted at a node
    Dials,            \* pairs <<n, m>>: n connects to m
    Accepts,          \* [Nodes -> SUBSET Nodes]: peers of the node's network, of a version it takes
    SyncCount,        \* BLOCKS_SYNCHRONIZING_DEFAULT_COUNT
    IdsCount,         \* BLOCKS_IDS_SYNCHRONIZING_DEFAULT_COUNT
    MaxBreaks,        \* bound on breaks for a connection to break
    MaxStrays         \* bound on breaks for a dial that miscounts the peers

ASSUME ProtocolAssumption ==
    /\ Genesis \in Blocks /\ Parent \in [Blocks -> Blocks] /\ TxsOf \in [Blocks -> SUBSET Txs]
    /\ HeightOf \in [Blocks -> Nat]
    /\ \A b \in Blocks : HeightOf[b] = (IF b = Genesis THEN 0 ELSE HeightOf[Parent[b]] + 1)
    /\ Begin \in [Nodes -> [known : SUBSET Blocks, tip : Blocks]]
    /\ \A n \in Nodes : Begin[n].tip \in Begin[n].known /\ Genesis \in Begin[n].known
    /\ Dials \subseteq Nodes \X Nodes /\ IsFiniteSet(Dials)
    /\ Accepts \in [Nodes -> SUBSET Nodes] /\ \A n \in Nodes : n \in Accepts[n]
    /\ SyncCount \in Nat \ {0} /\ IdsCount \in Nat \ {0, 1} /\ MaxBreaks \in Nat /\ MaxStrays \in Nat

Dialed   == {<<d[1], d[2], "out">> : d \in Dials}
Accepted == {<<d[2], d[1], "in">> : d \in Dials}
Ends     == Dialed \cup Accepted
Rev(e)   == <<e[2], e[1], IF e[3] = "out" THEN "in" ELSE "out">>
At(n)    == {e \in Ends : e[1] = n}

VARIABLES
    core,      \* [Nodes -> blocks known and top of the main chain]
    pool,      \* [Nodes -> SUBSET Txs]
    ctx,       \* [Ends -> CryptoNoteConnectionContext]
    net,       \* [Ends -> messages written and not read]
    job,       \* [Ends -> the batch processObjects is adding]
    spawned,   \* [Nodes -> relays that wait in remoteSpawningProcedures]
    seen,      \* [Nodes -> what the handler tells its observers]
    breaks     \* number of connections broken, and of dials that miscount, so far

vars == <<core, pool, ctx, net, job, spawned, seen, breaks>>

-----------------------------------------------------------------------------
(* Core, as far as the protocol sees it *)

ChainTo[b \in Blocks] == {b} \cup (IF b = Genesis THEN {} ELSE ChainTo[Parent[b]])
BlockAt(b, h) == CHOOSE c \in ChainTo[b] : HeightOf[c] = h
TxsTo(b)      == UNION {TxsOf[c] : c \in ChainTo[b]}
Height(n)     == HeightOf[core[n].tip] + 1

(* the k-th smallest of a set of numbers, and the members of a sequence that
   lie in S, in their order *)
Nth(at, k) == CHOOSE i \in at : Cardinality({j \in at : j <= i}) = k
Only(q, S) ==
    LET at == {i \in DOMAIN q : q[i] \in S}
    IN  [k \in 1 .. Cardinality(at) |-> q[Nth(at, k)]]

(* doBuildSparseChain: the top, the blocks 1, 2, 4, 8 ... below it, genesis *)
BuildSparseChain(n) ==
    LET top   == core[n].tip
        h     == HeightOf[top]
        below == {d \in 1 .. h - 1 : \E k \in 0 .. h : d = 2^k}
    IN  <<top>> \o [k \in 1 .. Cardinality(below) |-> BlockAt(top, h - Nth(below, k))]
                \o (IF top = Genesis THEN <<>> ELSE <<Genesis>>)

(* findBlockchainSupplement: from the first id that is on the main chain, at
   most IdsCount ids of it *)
FindBlockchainSupplement(n, ids) ==
    LET top   == core[n].tip
        start == HeightOf[ids[CHOOSE i \in DOMAIN ids :
                    /\ ids[i] \in ChainTo[top]
                    /\ \A j \in 1 .. i - 1 : ids[j] \notin ChainTo[top]]]
        last  == IF HeightOf[top] < start + IdsCount - 1 THEN HeightOf[top] ELSE start + IdsCount - 1
    IN  [start |-> start, total |-> HeightOf[top] + 1,
         ids |-> [i \in 1 .. last - start + 1 |-> BlockAt(top, start + i - 1)]]

(* addBlock: the block that opens a new branch never switches to it *)
AddResult(n, b) ==
    LET c == core[n] IN
    CASE b \in c.known                          -> "ALREADY_EXISTS"
      [] b \notin c.known /\ Parent[b] \notin c.known -> "REJECTED_AS_ORPHANED"
      [] b \notin c.known /\ Parent[b] \in c.known /\ b \in Refused[n] -> "VALIDATION_FAILED"
      [] OTHER ->
            IF Parent[b] = c.tip THEN "ADDED_TO_MAIN"
            ELSE IF /\ ~\E d \in c.known \ {Genesis} : Parent[d] = Parent[b]
                    /\ Weight[b] > Weight[c.tip]
                 THEN "ADDED_TO_ALTERNATIVE_AND_SWITCHED"
                 ELSE "ADDED_TO_ALTERNATIVE"

Onto(res)  == res \in {"ADDED_TO_MAIN", "ADDED_TO_ALTERNATIVE_AND_SWITCHED"}
Added(res) == Onto(res) \/ res = "ADDED_TO_ALTERNATIVE"

CoreAfter_unlisted(n, b) ==
    LET res == AddResult(n, b) IN
    [core EXCEPT ![n] = [known |-> IF res \in {"ADDED_TO_MAIN", "ADDED_TO_ALTERNATIVE"}
                                   THEN @.known \cup {b} ELSE @.known,
                         tip   |-> IF Onto(res) THEN b ELSE @.tip]]

CoreAfter(n, b) ==
    LET res == AddResult(n, b) IN
    [core EXCEPT ![n] = [known |-> IF Added(res) THEN @.known \cup {b} ELSE @.known,
                         tip   |-> IF Onto(res) THEN b ELSE @.tip]]

(* what addBlock leaves in the pool: the transactions of the new main chain
   go, those of the blocks that left it come back *)
PoolAfter(n, b) ==
    IF Onto(AddResult(n, b))
    THEN [pool EXCEPT ![n] = (@ \cup TxsTo(core[n].tip)) \ TxsTo(b)]
    ELSE pool

(* getTransaction: in a known block, on whatever branch, or in the pool *)
HasTransaction(n, t) == t \in pool[n] \/ \E b \in core[n].known : t \in TxsOf[b]

(* addTransactionToPool; no two transactions of the model conflict *)
AddsToPool(n, t) == t \notin pool[n] /\ t \notin TxsTo(core[n].tip)

-----------------------------------------------------------------------------
(* Connections *)

NoLite == [block |-> Genesis, height |-> 0, missed |-> {}]   \* m_pending_lite_block = nullopt
NoJob  == [on |-> FALSE, left |-> <<>>]

Closed == [state |-> "closed", remote |-> 0, last |-> 0, needed |-> <<>>,
           requested |-> {}, pending |-> NoLite]
Fresh  == [Closed EXCEPT !.state = "befor_handshake"]

Live(e)       == ctx[e].state # "closed"
HasPending(c) == c.pending # NoLite

RequestChain(n)    == [type |-> "requestChain", ids |-> BuildSparseChain(n)]
RequestPool(n)     == [type |-> "requestPool", txs |-> pool[n]]
SyncData(type, n)  == [type |-> type, top |-> core[n].tip, height |-> Height(n)]
Eof                == [type |-> "eof"]

(* recalculateMaxObservedHeight *)
Recalculated(e, state) ==
    LET n      == e[1]
        others == {ctx[o].remote : o \in {o \in At(n) \ {e} : Live(o)}} \cup {Height(n)}
    IN  IF state = "normal" THEN Height(n) - 1
        ELSE CHOOSE h \in others : \A k \in others : k <= h

(* updateObservedHeight; it runs before m_remote_blockchain_height is set, and
   after m_state is *)
Observed(e, state, h) ==
    LET s == seen[e[1]]
        c == ctx[e]
        o == IF c.remote # 0 /\ c.last <= c.remote - 1 THEN c.remote - 1
             ELSE IF h > c.remote THEN (IF h > s.observed THEN h ELSE s.observed)
             ELSE IF h # c.remote /\ c.remote = s.observed THEN Recalculated(e, state)
             ELSE s.observed
    IN  [s EXCEPT !.observed = o, !.height = IF h > @ THEN h ELSE @]

AfterSyncData_restarts(e, msg, initial) ==
    LET c == ctx[e] IN
    [c EXCEPT !.remote = msg.height,
              !.state = IF msg.top \in core[e[1]].known
                        THEN (IF initial THEN "pool_sync_required" ELSE "normal")
                        ELSE "sync_required"]

AfterSyncData_tolerant(e, msg, initial) ==
    LET c == ctx[e] IN
    [c EXCEPT !.remote = msg.height,
              !.state = IF c.state = "synchronizing" THEN @
                        ELSE IF msg.top \in core[e[1]].known \/ msg.height <= Height(e[1]) + 1
                             THEN (IF initial THEN "pool_sync_required" ELSE "normal")
                        ELSE "sync_required"]

(* process_payload_sync_data *)
AfterSyncData(e, msg, initial) ==
    LET c == ctx[e] IN
    [c EXCEPT !.remote = msg.height,
              !.state = IF c.state = "synchronizing" THEN @
                        ELSE IF msg.top \in core[e[1]].known
                             THEN (IF initial THEN "pool_sync_required" ELSE "normal")
                        ELSE "sync_required"]

SeenSyncData(e, msg, initial) ==
    LET s == Observed(e, AfterSyncData(e, msg, initial).state, msg.height) IN
    [s EXCEPT !.peers = IF initial THEN @ + 1 ELSE @,
              !.synced = @ \/ (initial /\ msg.top \in core[e[1]].known)]

(* the top of the loop of connectionHandler *)
LoopTop(n, c) ==
    CASE c.state = "sync_required"      -> [c |-> [c EXCEPT !.state = "synchronizing"],
                                            out |-> <<RequestChain(n)>>]
      [] c.state = "pool_sync_required" -> [c |-> [c EXCEPT !.state = "normal"],
                                            out |-> <<RequestPool(n)>>]
      [] OTHER                          -> [c |-> c, out |-> <<>>]

(* the next needed objects to request, and how many needed objects that uses:
   up to the SyncCount-th that is not known *)
Wanted(needed, known) == Only(needed, Blocks \ known)
Used(needed, known) ==
    LET new == {i \in DOMAIN needed : needed[i] \notin known}
    IN  IF Cardinality(new) < SyncCount THEN Len(needed) ELSE Nth(new, SyncCount)

RequestMissingObjects_ahead(n, c, known) ==
    IF c.needed # <<>>
    THEN LET used  == Used(c.needed, known)
             asked == Wanted(SubSeq(c.needed, 1, used), known)
         IN  [c |-> [c EXCEPT !.needed = SubSeq(@, used + 1, Len(@)),
                              !.requested = @ \cup Range(asked)],
              out |-> <<[type |-> "requestObjects", blocks |-> asked]>>]
    ELSE IF c.last < c.remote THEN [c |-> c, out |-> <<RequestChain(n)>>]
    ELSE [c |-> c, out |-> <<>>]

(* request_missing_objects: known is what check_having_blocks skips.  When the
   final condition fails the function only logs, and nobody looks at its result *)
RequestMissingObjects(n, c, known) ==
    IF c.needed # <<>>
    THEN LET used  == Used(c.needed, known)
             asked == Wanted(SubSeq(c.needed, 1, used), known)
         IN  [c |-> [c EXCEPT !.needed = SubSeq(@, used + 1, Len(@)),
                              !.requested = @ \cup Range(asked)],
              out |-> <<[type |-> "requestObjects", blocks |-> asked]>>]
    ELSE IF c.last < c.remote - 1 THEN [c |-> c, out |-> <<RequestChain(n)>>]
    ELSE IF c.last = c.remote - 1 /\ c.requested = {}
         THEN [c |-> [c EXCEPT !.state = "normal"], out |-> <<RequestPool(n)>>]
    ELSE [c |-> c, out |-> <<>>]

Synced(s, before, after) ==
    [s EXCEPT !.synced = @ \/ (before.state = "synchronizing" /\ after.state = "normal")]

-----------------------------------------------------------------------------
(* Handlers.  Each takes the first message of the peer and leaves the context
   c and the messages out *)

Gets(e, type) ==
    /\ Live(e) /\ ~job[e].on
    /\ ctx[e].state \notin {"shutdown", "sync_required", "pool_sync_required"}
    /\ net[Rev(e)] # <<>> /\ Head(net[Rev(e)]).type = type

Send(e, out) == IF Live(Rev(e)) THEN out ELSE <<>>

Answer(e, c, out) ==
    /\ ctx' = [ctx EXCEPT ![e] = c]
    /\ net' = [net EXCEPT ![Rev(e)] = Tail(@), ![e] = @ \o Send(e, out)]

(* the socket closes: the peer reads what was written, or nothing *)
Disconnect(e) ==
    /\ ctx' = [ctx EXCEPT ![e] = Closed]
    /\ \E sent \in {net[e], <<>>} :
          net' = [net EXCEPT ![e] = Send(e, Append(sent, Eof)), ![Rev(e)] = <<>>]

(* handle_handshake up to the back ping.  A peer of another network or of an
   old version is shut down without being counted; its refusal, if it still
   gets out, names no network, so the dialer takes it as the end *)
HandleHandshake(e) ==
    /\ Gets(e, "handshake")
    /\ LET msg == Head(net[Rev(e)]) IN
       \/ /\ e[2] \in Accepts[e[1]]
          /\ Answer(e, AfterSyncData(e, msg, TRUE), <<>>)
          /\ seen' = [seen EXCEPT ![e[1]] = SeenSyncData(e, msg, TRUE)]
       \/ /\ e[2] \notin Accepts[e[1]]
          /\ Answer(e, [ctx[e] EXCEPT !.state = "shutdown"], <<>>) /\ UNCHANGED seen
    /\ UNCHANGED <<core, pool, job, spawned, breaks>>

(* the end of handshake: a peer of another network or of an old version is left
   before it is counted, the node itself after; neither is left through
   onConnectionClosed *)
HandleHandshakeReply(e) ==
    /\ Gets(e, "handshakeReply")
    /\ LET msg == Head(net[Rev(e)]) IN
       \/ /\ e[2] \in Accepts[e[1]] \ {e[1]}
          /\ Answer(e, AfterSyncData(e, msg, TRUE), <<>>)
          /\ seen' = [seen EXCEPT ![e[1]] = SeenSyncData(e, msg, TRUE)]
       \/ /\ e[2] \notin Accepts[e[1]]
          /\ Disconnect(e) /\ UNCHANGED seen
       \/ /\ e[2] = e[1]
          /\ Disconnect(e)
          /\ seen' = [seen EXCEPT ![e[1]] = SeenSyncData(e, msg, TRUE)]
    /\ UNCHANGED <<core, pool, job, spawned, breaks>>

(* the rest: the reply after the ping, and the start of the connection's loop *)
StartLoop(e) ==
    /\ ctx[e].state \in {"sync_required", "pool_sync_required"}
    /\ LET top   == LoopTop(e[1], ctx[e])
           reply == IF e \in Dialed THEN <<>> ELSE <<SyncData("handshakeReply", e[1])>>
       IN  /\ ctx' = [ctx EXCEPT ![e] = top.c]
           /\ net' = [net EXCEPT ![e] = @ \o Send(e, reply \o top.out)]
    /\ UNCHANGED <<core, pool, job, spawned, seen, breaks>>

(* handle_timed_sync and handleTimedSyncResponse, then the top of the loop *)
HandleTimedSync(e) ==
    \E type \in {"timedSync", "timedReply"} :
       /\ Gets(e, type)
       /\ LET msg   == Head(net[Rev(e)])
              top   == LoopTop(e[1], AfterSyncData(e, msg, FALSE))
              reply == IF type = "timedSync" THEN <<SyncData("timedReply", e[1])>> ELSE <<>>
          IN  /\ Answer(e, top.c, reply \o top.out)
              /\ seen' = [seen EXCEPT ![e[1]] = SeenSyncData(e, msg, FALSE)]
    /\ UNCHANGED <<core, pool, job, spawned, breaks>>

HandleRequestChain(e) ==
    /\ Gets(e, "requestChain")
    /\ LET r == FindBlockchainSupplement(e[1], Head(net[Rev(e)]).ids) IN
       Answer(e, ctx[e], <<[type |-> "chainEntry", ids |-> r.ids, start |-> r.start,
                            total |-> r.total]>>)
    /\ UNCHANGED <<core, pool, job, spawned, seen, breaks>>

(* handle_response_chain_entry: from the first unknown id on, all are needed *)
AddNeeded(n, c, msg) ==
    LET unknown == {i \in DOMAIN msg.ids : msg.ids[i] \notin core[n].known}
        first   == CHOOSE i \in unknown : \A j \in unknown : i <= j
        more    == IF unknown = {} THEN <<>> ELSE SubSeq(msg.ids, first, Len(msg.ids))
        last    == msg.start + Len(msg.ids) - 1
    IN  [c EXCEPT !.remote = msg.total, !.last = last,
                  !.state = IF last > msg.total THEN "shutdown" ELSE @,
                  !.needed = @ \o more]

HandleChainEntry(e) ==
    /\ Gets(e, "chainEntry")
    /\ LET n   == e[1]
           msg == Head(net[Rev(e)])
       IN  IF msg.ids = <<>> \/ msg.ids[1] \notin core[n].known
           THEN Answer(e, [ctx[e] EXCEPT !.state = "shutdown"], <<>>) /\ UNCHANGED seen
           ELSE \E c \in {AddNeeded(n, ctx[e], msg)} :
                \E r \in {RequestMissingObjects(n, c, {})} :
                   /\ Answer(e, r.c, r.out)
                   /\ seen' = [seen EXCEPT ![n] = Synced(@, ctx[e], r.c)]
    /\ UNCHANGED <<core, pool, job, spawned, breaks>>

(* handle_request_get_objects: blocks of any branch are served *)
HandleRequestObjects(e) ==
    /\ Gets(e, "requestObjects")
    /\ LET n == e[1] IN
       Answer(e, ctx[e],
              <<[type |-> "objects", height |-> Height(n),
                 blocks |-> Only(Head(net[Rev(e)]).blocks, core[n].known)]>>)
    /\ UNCHANGED <<core, pool, job, spawned, seen, breaks>>

Idled_keeps(c) == [c EXCEPT !.state = "idle", !.needed = <<>>]

Idled(c) == [c EXCEPT !.state = "idle", !.needed = <<>>, !.requested = {}]


(* the checks of handle_response_get_objects on the blocks it was sent *)
CheckObjects(n, c, blocks) ==
    LET asked(i) == blocks[i] \in c.requested \ {blocks[j] : j \in 1 .. i - 1} IN
    CASE Len(blocks) > 0 /\ ~asked(1)                          -> "shutdown"
      [] Len(blocks) > 1 /\ asked(1) /\ blocks[2] \in core[n].known -> "idle"
      [] OTHER -> IF /\ \A i \in DOMAIN blocks : asked(i)
                     /\ c.requested = Range(blocks)
                  THEN "synchronizing" ELSE "shutdown"

(* handle_response_get_objects, up to the first block of processObjects *)
HandleObjects(e) ==
    /\ Gets(e, "objects")
    /\ LET n     == e[1]
           msg   == Head(net[Rev(e)])
           low   == ctx[e].last > msg.height
           c     == [ctx[e] EXCEPT !.remote = IF low THEN @ ELSE msg.height]
           check == IF low THEN "shutdown" ELSE CheckObjects(n, c, msg.blocks)
           got   == [c EXCEPT !.requested = {}]
           r     == IF msg.blocks = <<>> /\ c.state = "synchronizing"
                    THEN RequestMissingObjects(n, got, core[n].known)
                    ELSE [c |-> got, out |-> <<>>]
           obs   == IF low THEN seen[n] ELSE Observed(e, c.state, msg.height)
       IN  /\ IF check = "synchronizing" THEN Answer(e, r.c, r.out)
              ELSE Answer(e, IF check = "idle" THEN Idled(c) ELSE [c EXCEPT !.state = "shutdown"], <<>>)
           /\ seen' = [seen EXCEPT ![n] = IF check = "synchronizing" THEN Synced(obs, c, r.c) ELSE obs]
           /\ job' = [job EXCEPT ![e] = IF check = "synchronizing" /\ msg.blocks # <<>>
                                        THEN [on |-> TRUE, left |-> msg.blocks] ELSE NoJob]
    /\ UNCHANGED <<core, pool, spawned, breaks>>

(* processObjects: one block, and the yield after it *)
ProcessObject(e) ==
    /\ job[e].on /\ job[e].left # <<>>
    /\ LET n   == e[1]
           b   == Head(job[e].left)
           res == AddResult(n, b)
       IN  /\ core' = CoreAfter(n, b)
           /\ pool' = PoolAfter(n, b)
           /\ IF Added(res)
              THEN job' = [job EXCEPT ![e].left = Tail(@)] /\ UNCHANGED ctx
              ELSE /\ job' = [job EXCEPT ![e] = NoJob]
                   /\ ctx' = [ctx EXCEPT ![e] = IF res = "ALREADY_EXISTS" THEN Idled(@)
                                                ELSE [@ EXCEPT !.state = "shutdown"]]
    /\ UNCHANGED <<net, spawned, seen, breaks>>

(* the end of handle_response_get_objects, after the last yield *)
FinishObjects(e) ==
    /\ job[e].on /\ job[e].left = <<>>
    /\ job' = [job EXCEPT ![e] = NoJob]
    /\ LET r == RequestMissingObjects(e[1], ctx[e], core[e[1]].known) IN
       IF ctx[e].state = "synchronizing"
       THEN /\ ctx' = [ctx EXCEPT ![e] = r.c]
            /\ net' = [net EXCEPT ![e] = @ \o Send(e, r.out)]
            /\ seen' = [seen EXCEPT ![e[1]] = Synced(@, ctx[e], r.c)]
       ELSE UNCHANGED <<ctx, net, seen>>
    /\ UNCHANGED <<core, pool, spawned, breaks>>

(* Lite blocks and transactions *)

Relay(n, msg, skip) == [spawned EXCEPT ![n] = Append(@, [msg |-> msg, skip |-> skip])]

(* doPushLiteBlock with the transactions the peer provided *)
PushLiteBlock(e, c, b, h, provided) ==
    LET n    == e[1]
        need == {t \in TxsOf[b] \ provided : ~HasTransaction(n, t)}
        res  == AddResult(n, b)
        done == [c EXCEPT !.pending = NoLite]
        drop == [done EXCEPT !.state = "shutdown"]
    IN  IF HasPending(c) /\ (~(c.pending.missed \subseteq provided) \/ need # {})
        THEN Answer(e, drop, <<>>) /\ UNCHANGED <<core, pool, spawned>>
        ELSE IF need # {}
        THEN /\ Answer(e, [c EXCEPT !.pending = [block |-> b, height |-> h, missed |-> need]],
                       <<[type |-> "missingTxs", txs |-> need]>>)
             /\ UNCHANGED <<core, pool, spawned>>
        ELSE /\ core' = CoreAfter(n, b)
             /\ pool' = PoolAfter(n, b)
             /\ spawned' = IF Onto(res)
                           THEN Relay(n, [type |-> "liteBlock", block |-> b, height |-> h], {e})
                           ELSE spawned
             /\ CASE res = "ADDED_TO_ALTERNATIVE_AND_SWITCHED" ->
                        Answer(e, done, <<[type |-> "requestPool", txs |-> PoolAfter(n, b)[n]]>>)
                  [] res = "REJECTED_AS_ORPHANED" ->
                        Answer(e, [done EXCEPT !.state = "synchronizing"], <<RequestChain(n)>>)
                  [] res = "VALIDATION_FAILED" -> Answer(e, drop, <<>>)
                  [] OTHER -> Answer(e, done, <<>>)

HandleLiteBlock(e) ==
    /\ Gets(e, "liteBlock")
    /\ LET msg == Head(net[Rev(e)])
           c   == [ctx[e] EXCEPT !.remote = msg.height]
       IN  /\ seen' = [seen EXCEPT ![e[1]] = Observed(e, c.state, msg.height)]
           /\ IF c.state = "normal" THEN PushLiteBlock(e, c, msg.block, msg.height, {})
              ELSE Answer(e, c, <<>>) /\ UNCHANGED <<core, pool, spawned>>
    /\ UNCHANGED <<job, breaks>>

(* handle_notify_new_transactions: with a lite block pending, whatever arrives
   is taken for its missing transactions *)
HandleNewTxs(e) ==
    /\ Gets(e, "newTxs")
    /\ LET n    == e[1]
           c    == ctx[e]
           txs  == Head(net[Rev(e)]).txs
           good == {t \in txs : AddsToPool(n, t)}
       IN  \/ /\ c.state # "normal"
              /\ Answer(e, c, <<>>) /\ UNCHANGED <<core, pool, spawned>>
           \/ /\ c.state = "normal" /\ HasPending(c)
              /\ PushLiteBlock(e, c, c.pending.block, c.pending.height, txs)
           \/ /\ c.state = "normal" /\ ~HasPending(c)
              /\ pool' = [pool EXCEPT ![n] = @ \cup good]
              /\ spawned' = IF good = {} THEN spawned
                            ELSE Relay(n, [type |-> "newTxs", txs |-> good], {e})
              /\ Answer(e, c, <<>>) /\ UNCHANGED core
    /\ UNCHANGED <<job, seen, breaks>>

HandleRequestPool(e) ==
    /\ Gets(e, "requestPool")
    /\ LET more == pool[e[1]] \ Head(net[Rev(e)]).txs IN
       Answer(e, ctx[e], IF more = {} THEN <<>>
                         ELSE <<[type |-> "newTxs", txs |-> more]>>)
    /\ UNCHANGED <<core, pool, job, spawned, seen, breaks>>

(* handle_notify_missing_txs: getTransactions looks in the blocks, not in the pool *)
HandleMissingTxs(e) ==
    /\ Gets(e, "missingTxs")
    /\ LET txs == Head(net[Rev(e)]).txs IN
       IF \A t \in txs : \E b \in core[e[1]].known : t \in TxsOf[b]
       THEN Answer(e, ctx[e], <<[type |-> "newTxs", txs |-> txs]>>)
       ELSE Answer(e, [ctx[e] EXCEPT !.state = "shutdown"], <<>>)
    /\ UNCHANGED <<core, pool, job, spawned, seen, breaks>>

-----------------------------------------------------------------------------
(* What a node does by itself *)

(* externalRelayNotifyToAll and externalRelayNotifyToList, once spawned: the
   state of a connection is looked at when the relay runs *)
RunSpawned(n) ==
    /\ spawned[n] # <<>>
    /\ spawned' = [spawned EXCEPT ![n] = Tail(@)]
    /\ net' = [e \in Ends |->
                  IF e[1] = n /\ ctx[e].state \in {"normal", "synchronizing"}
                     /\ e \notin Head(spawned[n]).skip
                  THEN net[e] \o Send(e, <<Head(spawned[n]).msg>>) ELSE net[e]]
    /\ UNCHANGED <<core, pool, ctx, job, seen, breaks>>

(* timedSync.  Bound: no second one on a connection before the reply *)
TimedOut(e) == /\ \A i \in DOMAIN net[e] : net[e][i].type # "timedSync"
               /\ \A i \in DOMAIN net[Rev(e)] : net[Rev(e)][i].type # "timedReply"
TimedSync(n) ==
    LET to == {e \in At(n) : ctx[e].state \in {"normal", "idle"} /\ Live(Rev(e))} IN
    /\ to # {} /\ \A e \in to : TimedOut(e)
    /\ net' = [e \in Ends |-> IF e \in to THEN Append(net[e], SyncData("timedSync", n)) ELSE net[e]]
    /\ UNCHANGED <<core, pool, ctx, job, spawned, seen, breaks>>

(* on_submitblock: a block made from a template of this node *)
SubmitBlock(n, b) ==
    /\ b \in Mines[n] \ core[n].known
    /\ Parent[b] \in core[n].known /\ TxsOf[b] \subseteq pool[n]
    /\ core' = CoreAfter(n, b)
    /\ pool' = PoolAfter(n, b)
    /\ spawned' = IF Onto(AddResult(n, b))
                  THEN Relay(n, [type |-> "liteBlock", block |-> b, height |-> HeightOf[b] + 1],
                             {e \in At(n) : ~Live(e)})
                  ELSE spawned
    /\ UNCHANGED <<ctx, net, job, seen, breaks>>

(* on_send_raw_tx *)
SendRawTx(n, t) ==
    /\ t \in Pays[n] /\ AddsToPool(n, t)
    /\ \A m \in Nodes : ~HasTransaction(m, t)
    /\ pool' = [pool EXCEPT ![n] = @ \cup {t}]
    /\ spawned' = Relay(n, [type |-> "newTxs", txs |-> {t}], {})
    /\ UNCHANGED <<core, ctx, net, job, seen, breaks>>

(* try_to_connect_and_handshake_with_new_peer and acceptLoop.  Bounds: not before
   both ends of the last connection of this dial are closed; dials of the node
   to itself, and to one that refuses it, are counted *)
Miscounts(e) == e[1] = e[2] \/ e[1] \notin Accepts[e[2]]
Dial(e) ==
    /\ e \in Dialed /\ ~Live(e) /\ ~Live(Rev(e))
    /\ ctx' = [ctx EXCEPT ![e] = Fresh, ![Rev(e)] = Fresh]
    /\ net' = [net EXCEPT ![e] = <<SyncData("handshake", e[1])>>, ![Rev(e)] = <<>>]
    /\ \/ ~Miscounts(e) /\ UNCHANGED breaks
       \/ Miscounts(e) /\ breaks < MaxStrays /\ breaks' = breaks + 1
    /\ UNCHANGED <<core, pool, job, spawned, seen>>

Leave_counts(e) ==
    /\ Disconnect(e)
    /\ seen' = [seen EXCEPT ![e[1]].observed = Recalculated(e, ctx[e].state), ![e[1]].peers = @ - 1]
    /\ UNCHANGED <<core, pool, job, spawned>>

(* the end of connectionHandler, with onConnectionClosed; a handshake that
   fails at the dialer never got that far *)
Leave(e) ==
    /\ Disconnect(e)
    /\ seen' = IF e \in Dialed /\ ctx[e].state = "befor_handshake" THEN seen
               ELSE [seen EXCEPT ![e[1]].observed = Recalculated(e, ctx[e].state),
                                 ![e[1]].peers = IF ctx[e].state = "befor_handshake" THEN @ ELSE @ - 1]
    /\ UNCHANGED <<core, pool, job, spawned>>

Shutdown(e) == ctx[e].state = "shutdown" /\ Leave(e) /\ UNCHANGED breaks
PeerLeft(e) == Gets(e, "eof") /\ Leave(e) /\ UNCHANGED breaks
Break(e)    == /\ Live(e) /\ ~job[e].on /\ breaks < MaxBreaks
               /\ Leave(e) /\ breaks' = breaks + 1

-----------------------------------------------------------------------------
Init ==
    /\ core = Begin
    /\ pool = [n \in Nodes |-> {}]
    /\ ctx = [e \in Ends |-> Closed]
    /\ net = [e \in Ends |-> <<>>]
    /\ job = [e \in Ends |-> NoJob]
    /\ spawned = [n \in Nodes |-> <<>>]
    /\ seen = [n \in Nodes |-> [observed |-> 0, height |-> 0, peers |-> 0, synced |-> FALSE]]
    /\ breaks = 0

Handle(e) ==
    \/ HandleHandshake(e) \/ HandleHandshakeReply(e) \/ HandleTimedSync(e)
    \/ HandleRequestChain(e) \/ HandleChainEntry(e)
    \/ HandleRequestObjects(e) \/ HandleObjects(e)
    \/ HandleLiteBlock(e) \/ HandleNewTxs(e)
    \/ HandleRequestPool(e) \/ HandleMissingTxs(e)

Fiber(e) == Handle(e) \/ StartLoop(e) \/ ProcessObject(e) \/ FinishObjects(e)
            \/ Shutdown(e) \/ PeerLeft(e)

Next ==
    \/ \E e \in Ends : Fiber(e) \/ Break(e)
    \/ \E e \in Dialed : Dial(e)
    \/ \E n \in Nodes : RunSpawned(n) \/ TimedSync(n)
    \/ \E n \in Nodes, b \in Blocks : SubmitBlock(n, b)
    \/ \E n \in Nodes, t \in Txs : SendRawTx(n, t)

Spec == Init /\ [][Next]_vars

(* the dispatcher runs every fiber that can go on; the timed sync loop and the
   connection maker wake up for ever *)
FairSpec ==
    /\ Spec
    /\ \A e \in Ends : WF_vars(Fiber(e))
    /\ \A e \in Dialed : WF_vars(Dial(e))
    /\ \A n \in Nodes : WF_vars(RunSpawned(n)) /\ WF_vars(TimedSync(n))

-----------------------------------------------------------------------------
(* Properties *)

States == {"closed", "befor_handshake", "synchronizing", "idle", "normal",
           "sync_required", "pool_sync_required", "shutdown"}

(* every variable keeps its type: CryptoNoteConnectionContext and the handler's
   counters *)
ProtocolTypeOK ==
    /\ core \in [Nodes -> [known : SUBSET Blocks, tip : Blocks]]
    /\ \A n \in Nodes : core[n].tip \in core[n].known /\ pool[n] \subseteq Txs
    /\ \A e \in Ends : /\ ctx[e].state \in States /\ ctx[e].remote \in Nat /\ ctx[e].last \in Nat
                       /\ Range(ctx[e].needed) \subseteq Blocks /\ ctx[e].requested \subseteq Blocks
                       /\ ctx[e].pending.missed \subseteq Txs
                       /\ Range(job[e].left) \subseteq Blocks
    /\ \A n \in Nodes : seen[n].observed \in Nat /\ seen[n].height \in Nat
                       /\ seen[n].peers \in Int /\ seen[n].synced \in BOOLEAN

Requests(e)  == SelectSeq(net[e], LAMBDA m : m.type \in {"requestChain", "requestObjects"})
                \o SelectSeq(net[Rev(e)], LAMBDA m : m.type \in {"chainEntry", "objects"})
PeerGone(e)  == ~Live(Rev(e))

(* A connection that synchronises always waits for exactly one answer, and one
   that does not waits for none: synchronisation neither stops half way, since
   a connection in this state is left alone by timedSync, nor runs twice
   (request_missing_objects, handle_response_chain_entry,
   handle_response_get_objects) *)
OneRequestPending ==
    \A e \in Ends : Live(e) /\ ~PeerGone(e) /\ ctx[e].state # "shutdown" =>
        Len(Requests(e)) = IF ctx[e].state = "synchronizing" /\ ~job[e].on THEN 1 ELSE 0

(* start_sync begins with empty lists, as its asserts say, and so does every
   state in which a connection may come to it *)
NothingLeftOver ==
    \A e \in Ends : ctx[e].state \in {"sync_required", "pool_sync_required", "normal", "idle"} =>
        ctx[e].needed = <<>> /\ ctx[e].requested = {}


(* m_peersCount (a negative value stands for the wrapped size_t) counts the
   connections past their handshake, whatever way connections break and come
   back, but for two exits of the handshake: a refused peer that is shut down
   uncounted and yet counted off lowers it for good, a connection of the node
   to itself that is counted and never counted off raises it for good.  So it is
   never too high at a node that does not dial itself, never too low at one
   that refuses nobody, and right at one that does neither (handle_handshake,
   handshake, process_payload_sync_data, onConnectionClosed) *)
PeersAt(n) == {e \in At(n) : ctx[e].state \notin {"closed", "befor_handshake"}}
PeersCounted ==
    \A n \in Nodes :
        /\ <<n, n>> \notin Dials => seen[n].peers <= Cardinality(PeersAt(n))
        /\ (\A d \in Dials : d[2] = n => d[1] \in Accepts[n]) =>
              seen[n].peers >= Cardinality(PeersAt(n))

(* Nodes that stay connected end up with main chains of the same weight, once
   no more blocks are found: relays, chain requests and the timed sync together
   leave no node behind *)
Converges ==
    <>[](\A n, m \in Nodes : Weight[core[n].tip] = Weight[core[m].tip])

(* a connection does not stay in state_synchronizing for ever *)
SynchronizingEnds ==
    \A e \in Ends : []<>(ctx[e].state # "synchronizing")
=============================================================================
