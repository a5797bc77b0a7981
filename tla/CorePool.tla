------------------------------ MODULE CorePool ------------------------------
(***************************************************************************)
(* The transaction pool of cryptonote::Core (TransactionPool inside        *)
(* TransactionPoolCleanWrapper), composed with the block tree: what        *)
(* addBlock does to the pool in each of its branches, the transactions the *)
(* network hands in, the cleaning fiber, and block templates.              *)
(*                                                                         *)
(* Time is counted in units of which LiveTime make up mempoolTxLiveTime(). *)
(* Every transaction of Tx is below the size limit of the smallest median, *)
(* so the size test of actualizePoolTransactionsLite never removes one.    *)
(***************************************************************************)
EXTENDS ChainTree, FiniteSets

CONSTANTS
    Needs,          \* Needs[t]: the blocks whose outputs t's rings use
    Mixin,          \* Mixin[t]: largest ring size of t, minus one
    AllowedMixin,   \* AllowedMixin[h]: mixins valid at height h
    ExtraSize,      \* ExtraSize[t]: size of t's extra field
    MaxExtraBlock,  \* MAX_EXTRA_SIZE_BLOCK
    MaxExtraPool,   \* MAX_EXTRA_SIZE_POOL
    BoxTime,        \* BoxTime[t]: the time in t's extra, or NoBox
    NoBox,          \* the extra field does not parse
    Fusion,         \* transactions with fee 0
    Refused,        \* transactions that fail a check on the transaction alone
    LiveTime,       \* CRYPTONOTE_MEMPOOL_TX_LIVETIME, the wrapper's timeout too
    StartTime,      \* the time when the node starts
    MaxClock        \* bound on the clock

ASSUME PoolAssumption ==
    /\ Needs \in [Tx -> SUBSET Block]
    /\ \A b \in Block \ BadBlock : \A t \in TxsOf[b] : Needs[t] \subseteq Ancestors[b] \ {b}
    /\ DOMAIN Mixin = Tx
    /\ ExtraSize \in [Tx -> Nat]
    /\ MaxExtraBlock \in Nat /\ MaxExtraPool \in Nat
    /\ Fusion \subseteq Tx /\ Refused \subseteq Tx
    /\ LiveTime \in Nat \ {0}
    /\ StartTime \in Nat /\ MaxClock \in Nat
    /\ StartTime >= LiveTime /\ StartTime <= MaxClock

VARIABLES
    receiveTime,     \* the pool: a receive time for each of its transactions
    poolState,       \* TransactionPool::poolState, key images
    recentlyDeleted, \* recentlyDeletedTransactions: deletion times
    template,        \* the block template handed out last
    clock,
    poolStatus       \* "ok", or "readPastEnd" after an undefined read

poolVars == <<receiveTime, poolState, recentlyDeleted, template, clock, poolStatus>>

vars == <<treeVars, poolVars>>
-----------------------------------------------------------------------------
Pool == DOMAIN receiveTime

MainBlocks == ChainUpTo(MainLeaf, Index[Tip])

KeyImages(txs) == UNION {Spends[t] : t \in txs}

ConflictFree(txs) == \A t, u \in txs : t # u => Spends[t] \cap Spends[u] = {}

\* An unsigned difference of times: one that lies ahead wraps to a huge age.
Expired(then) == then > clock \/ clock - then >= LiveTime

MixinValid(t, h) == Mixin[t] \in AllowedMixin[h]

\* validateSemantic, the signatures and the minimum fee: fixed by t.
ValidSemantic(t) == t \notin Refused

\* Mutant of ValidForPool: the outputs its rings use are not looked up.
ValidForPool_noRings(t) ==
    /\ MixinValid(t, Index[Tip])
    /\ ExtraSize[t] < MaxExtraPool
    /\ ValidSemantic(t)
    /\ ~InCheckpointZone(Index[Tip] + 1) => Spends[t] \cap KeyImagesOf(MainBlocks) = {}

\* isTransactionValidForPool, against the main chain of this moment.
ValidForPool(t) ==
    /\ MixinValid(t, Index[Tip])
    /\ ExtraSize[t] < MaxExtraPool
    /\ ValidSemantic(t)
    /\ ~InCheckpointZone(Index[Tip] + 1) =>
          /\ Spends[t] \cap KeyImagesOf(MainBlocks) = {}
          /\ Needs[t] \subseteq MainBlocks

\* Mutant of IsRecentlyDeleted: the age is compared, the wrong way round.
IsRecentlyDeleted_age(t) ==
    t \in DOMAIN recentlyDeleted /\ clock - recentlyDeleted[t] >= LiveTime

\* isTransactionRecentlyDeleted compares the deletion TIME with the timeout.
IsRecentlyDeleted(t) ==
    t \in DOMAIN recentlyDeleted /\ recentlyDeleted[t] >= LiveTime

Keep(f, S) == [t \in S |-> f[t]]

\* Mutant of Exclude: the key images of removed transactions stay.
Exclude_not(state, txs) == state

\* excludeFromState for every transaction of txs.
Exclude(state, txs) == state \ KeyImages(txs)

\* removeTransaction for every transaction of txs that is in the pool.
RemoveFromPool(txs) ==
    /\ receiveTime' = Keep(receiveTime, Pool \ txs)
    /\ poolState' = Exclude(poolState, txs \cap Pool)

\* What pushing the transactions of txs one by one, in some order, onto a
\* pool holding base can add: no two that share a key image, and each one
\* left out shares one with a transaction that is in.
MaxAdditions(base, txs) ==
    {X \in SUBSET txs :
        /\ ConflictFree(base \cup X)
        /\ \A t \in txs \ X : Spends[t] \cap KeyImages(base \cup X) # {}}

PoolInit ==
    /\ receiveTime = <<>>
    /\ poolState = {}
    /\ recentlyDeleted = <<>>
    /\ template = [prev |-> NoSegment, txs |-> {}]
    /\ clock = StartTime
    /\ poolStatus = "ok"

CoreInit == Init /\ PoolInit
-----------------------------------------------------------------------------
(* addBlock. *)

\* Mutant of NotActualAfter: only the block's own transactions leave.
NotActualAfter_own(b) == {}

\* actualizePoolTransactionsLite: pool transactions sharing a key image with b.
NotActualAfter(b) == {t \in Pool : Spends[t] \cap KeyImagesOf({b}) # {}}

PoolPushToMain(b) ==
    /\ poolStatus = "ok"
    /\ PushToMain(b)
    /\ RemoveFromPool(TxsOf[b] \cup NotActualAfter(b))
    /\ UNCHANGED <<recentlyDeleted, template, clock, poolStatus>>

\* Mutant of Abandoned: only the leaf segment's transactions are taken back.
Abandoned_leaf == UNION {TxsOf[c] : c \in BlocksOf(MainLeaf)}

\* copyTransactionsToPool walks from the old main leaf down to the new main
\* chain: the transactions of the blocks that are no longer on it.
Abandoned ==
    UNION {TxsOf[c] : c \in {c \in MainBlocks : segmentOf[c] \notin mainChainSet'}}

\* The old pool is validated anew against the new main chain, every survivor
\* getting the current time as its receive time; then the transactions of
\* the abandoned blocks are offered.
PoolSwitch(b) ==
    /\ poolStatus = "ok"
    /\ SwitchToAlternative(b)
    /\ LET fits(txs) == {t \in txs : ValidForPool(t)' /\ ~IsRecentlyDeleted(t)}
           survivors == fits(Pool \ TxsOf[b])
       IN \E added \in MaxAdditions(survivors, fits(Abandoned \ survivors)) :
             /\ receiveTime' = [t \in survivors \cup added |-> clock]
             /\ poolState' = Exclude(poolState, Pool) \cup KeyImages(survivors \cup added)
    /\ UNCHANGED <<recentlyDeleted, template, clock, poolStatus>>

\* In the other branches of addBlock the main chain, and the pool, stay.
PoolUntouched(b) ==
    /\ poolStatus = "ok"
    /\ \/ PushToAlternative(b)
       \/ ForkAtTop(b)
       \/ SplitSegment(b)
       \/ SplitOfNonLeaf(b)
       \/ RejectBlock(b)
    /\ UNCHANGED poolVars

PoolAddBlock(b) == PoolPushToMain(b) \/ PoolSwitch(b) \/ PoolUntouched(b)

\* submitBlock takes the block's transactions out of the pool, and gives up
\* with TRANSACTION_ABSENT_IN_POOL when one is not there.
SubmitBlock(b) ==
    /\ poolStatus = "ok"
    /\ IF TxsOf[b] \subseteq Pool THEN PoolAddBlock(b) ELSE UNCHANGED vars
-----------------------------------------------------------------------------
(* addTransactionToPool. *)

\* Mutant of ReceiveTx: the time of expiry is recorded.
ReceiveTx_expiry(t) ==
    /\ poolStatus = "ok"
    /\ t \notin Pool
    /\ ValidForPool(t)
    /\ ~IsRecentlyDeleted(t)
    /\ Spends[t] \cap poolState = {}
    /\ receiveTime' = Put(receiveTime, t, clock + LiveTime)
    /\ poolState' = poolState \cup Spends[t]
    /\ UNCHANGED <<treeVars, recentlyDeleted, template, clock, poolStatus>>

ReceiveTx(t) ==
    /\ poolStatus = "ok"
    /\ t \notin Pool
    /\ ValidForPool(t)
    /\ ~IsRecentlyDeleted(t)
    /\ Spends[t] \cap poolState = {}
    /\ receiveTime' = Put(receiveTime, t, clock)
    /\ poolState' = poolState \cup Spends[t]
    /\ UNCHANGED <<treeVars, recentlyDeleted, template, clock, poolStatus>>
-----------------------------------------------------------------------------
(* TransactionPoolCleanWrapper::clean, run by the cleaning fiber. *)

\* Mutant of Outdated: transactions that carry a box are spared.
Outdated_boxOnly ==
    {t \in Pool : ~MixinValid(t, Index[Tip]) \/ ExtraSize[t] > MaxExtraBlock}

Outdated ==
    {t \in Pool :
        \/ ~MixinValid(t, Index[Tip])
        \/ Expired(receiveTime[t])
        \/ /\ ExtraSize[t] > MaxExtraBlock
           /\ \/ ExtraSize[t] >= MaxExtraPool
              \/ BoxTime[t] = NoBox
              \/ Expired(BoxTime[t])}

\* cleanRecentlyDeletedTransactions, after the new deletions are recorded.
Clean ==
    LET recorded == [t \in DOMAIN recentlyDeleted \cup Outdated |->
                        IF t \in DOMAIN recentlyDeleted THEN recentlyDeleted[t] ELSE clock]
    IN /\ poolStatus = "ok"
       /\ recentlyDeleted' = Keep(recorded, {t \in DOMAIN recorded : ~Expired(recorded[t])})
       /\ RemoveFromPool(Outdated)
       /\ UNCHANGED <<treeVars, template, clock, poolStatus>>
-----------------------------------------------------------------------------
(* getBlockTemplate. *)

\* validateBlockTemplateTransaction for a block on top of the main chain.
Minable(t) == ExtraSize[t] < MaxExtraBlock /\ MixinValid(t, Index[Tip] + 1)

\* fillBlockTemplate, putting txs into the template, makes two passes over
\* one copy of the pool, the first over the fusion transactions only. Each
\* pass skips transactions that do not fit, drops an old one that no block
\* may hold any more, and includes the others unless a key image is used
\* already. The second pass may ask for the receive time of a transaction
\* the first one has dropped.
FillBlockTemplate(txs) ==
    \E fits1 \in SUBSET (Pool \cap Fusion), fits2 \in SUBSET Pool :
        LET drop(fits) == {t \in fits : ~Minable(t) /\ Expired(receiveTime[t])}
            first == {t \in fits1 : Minable(t)}
        IN /\ txs \ first \in MaxAdditions(first, {t \in fits2 \ first : Minable(t)})
           /\ first \subseteq txs
           /\ RemoveFromPool(drop(fits1) \cup drop(fits2))
           /\ poolStatus' = IF drop(fits1) \cap fits2 = {} THEN "ok" ELSE "readPastEnd"

\* getBlockTemplate may still fail after fillBlockTemplate, when the miner
\* transaction cannot be built; the caller gets no template then.
GetBlockTemplate ==
    /\ poolStatus = "ok"
    /\ \E txs \in SUBSET Pool :
          /\ FillBlockTemplate(txs)
          /\ \/ template' = [prev |-> Tip, txs |-> txs]
             \/ UNCHANGED template
    /\ UNCHANGED <<treeVars, recentlyDeleted, clock>>

Tick ==
    /\ poolStatus = "ok"
    /\ clock < MaxClock
    /\ clock' = clock + 1
    /\ UNCHANGED <<treeVars, receiveTime, poolState, recentlyDeleted, template, poolStatus>>

\* After the undefined read the model says nothing more.
PoolUndefined == poolStatus = "readPastEnd" /\ UNCHANGED vars

CoreNext ==
    \/ \E b \in Block : PoolAddBlock(b) \/ SubmitBlock(b)
    \/ \E t \in Tx : ReceiveTx(t)
    \/ Clean
    \/ GetBlockTemplate
    \/ Tick
    \/ PoolUndefined

CoreSpec == CoreInit /\ [][CoreNext]_vars

\* Time passes and the cleaning fiber's timer keeps firing.
FairSpec ==
    /\ CoreSpec
    /\ WF_vars(Tick)
    /\ WF_vars(Clean)
-----------------------------------------------------------------------------
(* Properties. *)

\* Every variable has its type.
PoolTypeOK ==
    /\ Pool \subseteq Tx
    /\ \A t \in Pool : receiveTime[t] \in StartTime .. clock
    /\ poolState \subseteq KeyImages(Tx)
    /\ DOMAIN recentlyDeleted \subseteq Tx
    /\ \A t \in DOMAIN recentlyDeleted : recentlyDeleted[t] \in StartTime .. clock
    /\ template \in [prev : Block \cup {NoSegment}, txs : SUBSET Tx]
    /\ clock \in StartTime .. MaxClock
    /\ poolStatus \in {"ok", "readPastEnd"}

\* poolState holds exactly the key images of the pool, each spent by one
\* pool transaction: no removal path leaves one behind, which would lock an
\* output out of the pool, or takes away one that is still in use.
PoolStateExact == ConflictFree(Pool) /\ poolState = KeyImages(Pool)

\* On a node without checkpoints every pool transaction can be mined on the
\* main chain of this moment: its key images are unspent there and the
\* outputs of its rings exist, however often the main chain has switched.
PoolSpendable ==
    \A t \in Pool :
        /\ Spends[t] \cap KeyImagesOf(MainBlocks) = {}
        /\ Needs[t] \subseteq MainBlocks

\* fillBlockTemplate consults neither the chain nor the signatures: as long
\* as the template's parent is the tip, its transactions can be mined
\* together, although the pool has changed since.
TemplateSpendable ==
    template.prev = Tip =>
        /\ ConflictFree(template.txs)
        /\ \A t \in template.txs :
              Spends[t] \cap KeyImagesOf(MainBlocks) = {} /\ Needs[t] \subseteq MainBlocks

TxsOnMain == UNION {TxsOf[b] : b \in MainBlocks}

\* A chain switch loses no transaction of the abandoned blocks or of the
\* pool without a reason: it is on the new chain or in the pool, it is no
\* longer valid there, it was deleted recently, or a pool transaction spends
\* one of its key images.
ReorgKeepsTransactions ==
    [][\A t \in TxsOnMain \cup Pool :
          (MainLeaf' # MainLeaf /\ parent' = parent) =>
             \/ t \in TxsOnMain' \cup Pool'
             \/ ~ValidForPool(t)'
             \/ t \in DOMAIN recentlyDeleted
             \/ Spends[t] \cap poolState' # {}]_vars

\* A transaction the cleaner has deleted stays out of the pool until the
\* cleaner forgets it, whoever sends it again and whatever chain switches
\* bring it back.
DeletedStayOut == Pool \cap DOMAIN recentlyDeleted = {}

\* A pool transaction leaves the pool within a live time and a cleaning
\* round, unless a chain switch gives it a new receive time.
PoolDrains ==
    \A t \in Tx, r \in StartTime .. MaxClock - LiveTime :
        []<>(t \notin Pool \/ receiveTime[t] # r \/ poolStatus # "ok")
=============================================================================
