--------------------------- MODULE CorePoolProofs ---------------------------
(***************************************************************************)
(* Proofs about the transaction pool of cryptonote::Core beside its block  *)
(* tree, for every set of blocks and transactions: what the pool, its key  *)
(* images, the deletion records and the block template keep to whatever    *)
(* blocks are pushed, chains switched, transactions received and cleaned.  *)
(***************************************************************************)
EXTENDS CorePool, ChainTreeProofs

\* The invariant about the pool alone, the chain left aside.
PoolInv == PoolTypeOK /\ PoolStateExact /\ DeletedStayOut

\* The transactions of the last template can be mined together on the block
\* it was made for, wherever that block is by now: the constant chain below
\* the template's parent, instead of the main chain, makes this inductive.
TemplateFits ==
    template.prev # NoSegment =>
        /\ ConflictFree(template.txs)
        /\ \A t \in template.txs :
              /\ Spends[t] \cap KeyImagesOf(Ancestors[template.prev]) = {}
              /\ Needs[t] \subseteq Ancestors[template.prev]

\* The invariant about the pool and the chain, for a node without checkpoints.
MinableInv == PoolSpendable /\ TemplateFits

-----------------------------------------------------------------------------
(* The block tree under the pool. *)

\* The blocks of the main chain are the tip and its ancestors.
MainIsPath == MainBlocks = Ancestors[Tip] /\ Tip \in Known /\ MainBlocks \subseteq Known

LEMMA MainBlocksAre == IInv => MainIsPath
<1> SUFFICES ASSUME IInv PROVE MainIsPath OBVIOUS
<1>1. Tip \in Known /\ segmentOf[Tip] = MainLeaf BY Zenon, MainLeafIsSegment
<1>2. PICK b \in Known : b = Tip BY <1>1
<1>3. ChainUpTo(segmentOf[b], Index[b]) = Ancestors[b] BY Zenon, PathOfBlock
<1>4. MainBlocks = Ancestors[Tip] BY <1>1, <1>2, <1>3 DEF MainBlocks
<1>5. MainBlocks \subseteq Known BY <1>2, <1>4, AncestorsKnown
<1> QED BY <1>1, <1>4, <1>5 DEF MainIsPath

\* The same of the state after a step.
LEMMA MainBlocksAreNext == IInv' => MainIsPath'
BY MainBlocksAre, PTL

\* Whatever a node does, its block tree takes a step of addBlock or none.
LEMMA CoreTreeStep ==
    ASSUME [CoreNext]_vars
    PROVE  [Next]_treeVars
<1>1. ASSUME NEW b \in Block, PoolAddBlock(b) PROVE Next
  BY Zenon, <1>1 DEF PoolAddBlock, PoolPushToMain, PoolSwitch, PoolUntouched, Next, AddBlock
<1>2. ASSUME NEW b \in Block, SubmitBlock(b) PROVE [Next]_treeVars
  BY Zenon, <1>1, <1>2 DEF SubmitBlock, vars
<1>3. CASE UNCHANGED vars BY <1>3 DEF vars
<1>4. ASSUME NEW t \in Tx, ReceiveTx(t) PROVE UNCHANGED treeVars BY Zenon, <1>4 DEF ReceiveTx, treeVars
<1>5. CASE Clean BY Zenon, <1>5 DEF Clean, treeVars
<1>6. CASE GetBlockTemplate BY Zenon, <1>6 DEF GetBlockTemplate, treeVars
<1>7. CASE Tick BY Zenon, <1>7 DEF Tick, treeVars
<1>8. CASE PoolUndefined BY Zenon, <1>3, <1>8 DEF PoolUndefined
<1> QED BY Zenon, <1>1, <1>2, <1>3, <1>4, <1>5, <1>6, <1>7, <1>8 DEF CoreNext
-----------------------------------------------------------------------------
(* The pool alone. *)

\* Removing transactions leaves the receive times of the others alone, and
\* takes exactly the key images of the removed ones out of the pool's state:
\* no two pool transactions share one.
LEMMA RemovalExact ==
    ASSUME PoolStateExact, NEW X, RemoveFromPool(X)
    PROVE  /\ Pool' = Pool \ X
           /\ \A t \in Pool' : receiveTime'[t] = receiveTime[t]
           /\ PoolStateExact'
<1>1. /\ receiveTime' = [t \in Pool \ X |-> receiveTime[t]]
      /\ poolState' = KeyImages(Pool) \ KeyImages(X \cap Pool)
  BY DEF RemoveFromPool, Keep, Exclude, PoolStateExact
<1>2. Pool' = Pool \ X BY <1>1 DEF Pool
<1>3. \A t, u \in Pool : t # u => Spends[t] \cap Spends[u] = {}
  BY DEF PoolStateExact, ConflictFree
<1>4. KeyImages(Pool) \ KeyImages(X \cap Pool) = KeyImages(Pool \ X)
  BY <1>3 DEF KeyImages
<1>5. ConflictFree(Pool \ X) BY <1>3 DEF ConflictFree
<1>6. PoolStateExact' BY <1>1, <1>2, <1>4, <1>5 DEF PoolStateExact
<1> QED BY <1>1, <1>2, <1>6

\* A removal that records no deletion keeps the invariant of the pool.
LEMMA RemovalKeepsPool ==
    ASSUME PoolInv, NEW X, RemoveFromPool(X),
           UNCHANGED <<recentlyDeleted, clock>>, poolStatus' \in {"ok", "readPastEnd"},
           template' \in [prev : Block \cup {NoSegment}, txs : SUBSET Tx]
    PROVE  PoolInv' /\ Pool' = Pool \ X
<1>1. /\ Pool' = Pool \ X /\ PoolStateExact'
      /\ \A t \in Pool' : receiveTime'[t] = receiveTime[t]
  BY Zenon, RemovalExact DEF PoolInv
<1>2. KeyImages(Pool') \subseteq KeyImages(Tx) BY <1>1 DEF PoolInv, PoolTypeOK, KeyImages
<1>3. PoolTypeOK'
  <2>1. /\ Pool' \subseteq Tx
        /\ \A t \in Pool' : receiveTime'[t] \in StartTime .. clock'
    BY <1>1 DEF PoolInv, PoolTypeOK
  <2>2. poolState' \subseteq KeyImages(Tx) BY <1>1, <1>2 DEF PoolStateExact
  <2> QED BY <2>1, <2>2 DEF PoolInv, PoolTypeOK
<1>4. DeletedStayOut' BY <1>1 DEF PoolInv, DeletedStayOut
<1> QED BY <1>1, <1>3, <1>4 DEF PoolInv

\* A step that leaves the pool and the deletion records keeps its invariant.
LEMMA PoolUnchanged ==
    ASSUME PoolInv, UNCHANGED <<receiveTime, poolState, recentlyDeleted, template, poolStatus>>,
           clock' = clock \/ (clock < MaxClock /\ clock' = clock + 1)
    PROVE  PoolInv' /\ Pool' = Pool
<1>1. Pool' = Pool /\ UNCHANGED poolState BY DEF Pool
<1>2. clock \in StartTime .. MaxClock /\ StartTime \in Nat /\ MaxClock \in Nat
  BY PoolAssumption DEF PoolInv, PoolTypeOK
<1>3. clock' \in StartTime .. MaxClock /\ clock <= clock' BY <1>2
<1>4. \A r \in StartTime .. clock : r \in StartTime .. clock' BY <1>2, <1>3
<1>5. PoolTypeOK' BY <1>1, <1>3, <1>4 DEF PoolInv, PoolTypeOK
<1>6. PoolStateExact' BY <1>1 DEF PoolInv, PoolStateExact
<1>7. DeletedStayOut' BY <1>1 DEF PoolInv, DeletedStayOut
<1> QED BY <1>1, <1>5, <1>6, <1>7 DEF PoolInv

\* A deletion record is as late as the start of the node, so that the
\* comparison of a deletion TIME with the timeout finds every record.
LEMMA RecordsFound ==
    ASSUME PoolTypeOK, NEW t, ~IsRecentlyDeleted(t)
    PROVE  t \notin DOMAIN recentlyDeleted
<1> SUFFICES ASSUME t \in DOMAIN recentlyDeleted PROVE FALSE OBVIOUS
<1>1. recentlyDeleted[t] \in StartTime .. clock /\ clock \in StartTime .. MaxClock
  BY DEF PoolTypeOK
<1>2. recentlyDeleted[t] >= LiveTime BY <1>1, PoolAssumption
<1> QED BY <1>2 DEF IsRecentlyDeleted

\* addTransactionToPool keeps the invariant of the pool.
LEMMA ReceiveKeepsPool ==
    ASSUME PoolInv, NEW t \in Tx, ReceiveTx(t)
    PROVE  PoolInv' /\ Pool' = Pool \cup {t}
<1>1. /\ t \notin Pool /\ ~IsRecentlyDeleted(t) /\ Spends[t] \cap poolState = {}
      /\ receiveTime' = Put(receiveTime, t, clock) /\ poolState' = poolState \cup Spends[t]
      /\ UNCHANGED <<recentlyDeleted, template, clock, poolStatus>>
  BY DEF ReceiveTx
<1>2. Pool' = Pool \cup {t} /\ \A u \in Pool' : receiveTime'[u] \in {clock, receiveTime[u]}
                            /\ receiveTime'[t] = clock
                            /\ (u # t => receiveTime'[u] = receiveTime[u])
  BY <1>1 DEF Pool, Put
<1>3. clock \in StartTime .. MaxClock /\ StartTime \in Nat /\ MaxClock \in Nat
  BY PoolAssumption DEF PoolInv, PoolTypeOK
<1>4. clock \in StartTime .. clock BY <1>3
<1>5. poolState = KeyImages(Pool) BY DEF PoolInv, PoolStateExact
<1>6. poolState' = KeyImages(Pool') BY <1>1, <1>2, <1>5 DEF KeyImages
<1>7. ConflictFree(Pool') 
  <2>1. \A u \in Pool : Spends[t] \cap Spends[u] = {} BY <1>1, <1>5 DEF KeyImages
  <2> QED BY <1>2, <2>1 DEF PoolInv, PoolStateExact, ConflictFree
<1>8. Pool' \subseteq Tx BY <1>2 DEF PoolInv, PoolTypeOK
<1>9. poolState' \subseteq KeyImages(Tx) BY <1>6, <1>8 DEF KeyImages
<1>10. \A u \in Pool' : receiveTime'[u] \in StartTime .. clock
  BY <1>2, <1>4 DEF PoolInv, PoolTypeOK
<1>11. PoolTypeOK' BY <1>1, <1>8, <1>9, <1>10 DEF PoolInv, PoolTypeOK
<1>12. PoolStateExact' BY <1>6, <1>7 DEF PoolStateExact
<1>13. DeletedStayOut' BY <1>1, <1>2, RecordsFound DEF PoolInv, DeletedStayOut
<1> QED BY <1>2, <1>11, <1>12, <1>13 DEF PoolInv

\* A cleaning round keeps the invariant of the pool: what it records as
\* deleted is what it takes out.
LEMMA CleanKeepsPool ==
    ASSUME PoolInv, Clean
    PROVE  PoolInv' /\ Pool' = Pool \ Outdated
<1> DEFINE recorded == [t \in DOMAIN recentlyDeleted \cup Outdated |->
                          IF t \in DOMAIN recentlyDeleted THEN recentlyDeleted[t] ELSE clock]
           kept == {t \in DOMAIN recorded : ~Expired(recorded[t])}
<1>1. /\ recentlyDeleted' = Keep(recorded, kept)
      /\ RemoveFromPool(Outdated)
      /\ UNCHANGED <<template, clock, poolStatus>>
  BY Zenon DEF Clean
<1>2. /\ Pool' = Pool \ Outdated /\ PoolStateExact'
      /\ \A t \in Pool' : receiveTime'[t] = receiveTime[t]
  BY Zenon, <1>1, RemovalExact DEF PoolInv
<1>3. clock \in StartTime .. clock
  BY PoolAssumption DEF PoolInv, PoolTypeOK
<1>4. Outdated \subseteq Pool BY DEF Outdated
<1>5. \A t \in DOMAIN recorded : t \in Tx /\ recorded[t] \in StartTime .. clock
  BY <1>3, <1>4 DEF PoolInv, PoolTypeOK
<1>6. /\ DOMAIN recentlyDeleted' \subseteq DOMAIN recorded
      /\ \A t \in DOMAIN recentlyDeleted' : recentlyDeleted'[t] = recorded[t]
  <2> HIDE DEF recorded
  <2> QED BY <1>1 DEF Keep
<1>7. DOMAIN recentlyDeleted' \subseteq DOMAIN recentlyDeleted \cup Outdated BY <1>6
<1> HIDE DEF recorded
<1>8. Pool' \subseteq Tx BY <1>2 DEF PoolInv, PoolTypeOK
<1>9. poolState' \subseteq KeyImages(Tx) BY <1>2, <1>8 DEF PoolStateExact, KeyImages
<1>10. PoolTypeOK'
  <2>1. \A t \in Pool' : receiveTime'[t] \in StartTime .. clock'
    BY <1>1, <1>2 DEF PoolInv, PoolTypeOK
  <2>2. /\ DOMAIN recentlyDeleted' \subseteq Tx
        /\ \A t \in DOMAIN recentlyDeleted' : recentlyDeleted'[t] \in StartTime .. clock'
    BY <1>1, <1>5, <1>6
  <2> QED BY <1>1, <1>8, <1>9, <2>1, <2>2 DEF PoolInv, PoolTypeOK
<1>11. DeletedStayOut' BY <1>2, <1>7 DEF PoolInv, DeletedStayOut
<1> QED BY <1>2, <1>10, <1>11 DEF PoolInv

\* The transactions of abandoned blocks are transactions.
LEMMA AbandonedAreTxs ==
    ASSUME IInv
    PROVE  Abandoned \subseteq Tx
<1>1. MainBlocks \subseteq Block BY MainBlocksAre DEF MainIsPath, IInv, TypeOK
<1> QED BY <1>1, TxAssumption DEF Abandoned

\* A chain switch keeps the invariant of the pool. Every transaction of the
\* new pool is valid on the new chain, and one that was in the old pool or in
\* an abandoned block is left out for a reason.
LEMMA SwitchKeepsPool ==
    ASSUME IInv, PoolInv, NEW b \in Block, PoolSwitch(b)
    PROVE  /\ PoolInv'
           /\ \A t \in Pool' : ValidForPool(t)'
           /\ \A t \in (Pool \ TxsOf[b]) \cup Abandoned :
                 \/ t \in Pool'
                 \/ ~ValidForPool(t)'
                 \/ t \in DOMAIN recentlyDeleted
                 \/ Spends[t] \cap poolState' # {}
<1> DEFINE fits(txs) == {t \in txs : ValidForPool(t)' /\ ~IsRecentlyDeleted(t)}
           S == fits(Pool \ TxsOf[b])
           F == fits(Abandoned \ S)
<1>1. PICK A \in MaxAdditions(S, F) :
         /\ receiveTime' = [t \in S \cup A |-> clock]
         /\ poolState' = Exclude(poolState, Pool) \cup KeyImages(S \cup A)
  BY ZenonT(60) DEF PoolSwitch
<1>2. UNCHANGED <<recentlyDeleted, template, clock, poolStatus>> BY Zenon DEF PoolSwitch
<1>3. /\ \A t \in S : t \in Pool \ TxsOf[b] /\ ValidForPool(t)' /\ ~IsRecentlyDeleted(t)
      /\ \A t \in F : t \in Abandoned /\ ValidForPool(t)' /\ ~IsRecentlyDeleted(t)
      /\ \A t \in Pool \ TxsOf[b] : t \in S \/ ~ValidForPool(t)' \/ IsRecentlyDeleted(t)
      /\ \A t \in Abandoned : t \in S \/ t \in F \/ ~ValidForPool(t)' \/ IsRecentlyDeleted(t)
  BY Zenon
<1> HIDE DEF S, F
<1>4. /\ A \subseteq F /\ ConflictFree(S \cup A)
      /\ \A t \in F \ A : Spends[t] \cap KeyImages(S \cup A) # {}
  BY Zenon DEF MaxAdditions
<1>5. Pool' = S \cup A /\ \A t \in Pool' : receiveTime'[t] = clock BY <1>1 DEF Pool
<1>6. Exclude(poolState, Pool) = {} BY DEF Exclude, PoolInv, PoolStateExact
<1>7. poolState' = KeyImages(Pool') BY <1>1, <1>5, <1>6
<1>8. PoolStateExact' BY <1>4, <1>5, <1>7 DEF PoolStateExact
<1>9. Pool' \subseteq Tx
  <2>1. S \subseteq Tx BY <1>3 DEF PoolInv, PoolTypeOK
  <2>2. A \subseteq Tx BY <1>3, <1>4, AbandonedAreTxs
  <2> QED BY <1>5, <2>1, <2>2
<1>10. poolState' \subseteq KeyImages(Tx) BY <1>7, <1>9 DEF KeyImages
<1>11. PoolTypeOK'
  <2>1. clock \in StartTime .. clock BY PoolAssumption DEF PoolInv, PoolTypeOK
  <2> QED BY <1>2, <1>5, <1>9, <1>10, <2>1 DEF PoolInv, PoolTypeOK
<1>12. DeletedStayOut'
  <2>1. \A t \in Pool' : t \notin DOMAIN recentlyDeleted
    BY <1>3, <1>4, <1>5, RecordsFound DEF PoolInv
  <2> QED BY <1>2, <2>1 DEF DeletedStayOut
<1>13. \A t : IsRecentlyDeleted(t) => t \in DOMAIN recentlyDeleted BY DEF IsRecentlyDeleted
<1>14. \A t \in Pool' : ValidForPool(t)' BY Zenon, <1>3, <1>4, <1>5
<1>15. \A t \in F \ A : Spends[t] \cap poolState' # {} BY <1>4, <1>5, <1>7
<1>16. ASSUME NEW t \in (Pool \ TxsOf[b]) \cup Abandoned
       PROVE  \/ t \in Pool' \/ ~ValidForPool(t)'
              \/ t \in DOMAIN recentlyDeleted \/ Spends[t] \cap poolState' # {}
  BY Zenon, <1>3, <1>5, <1>13, <1>15
<1> QED BY Zenon, <1>8, <1>11, <1>12, <1>14, <1>16 DEF PoolInv

\* A template holds transactions of the pool it was made from.
LEMMA TemplateKeepsPool ==
    ASSUME IInv, PoolInv, GetBlockTemplate
    PROVE  /\ PoolInv' /\ Pool' \subseteq Pool
           /\ \/ UNCHANGED template
              \/ /\ template' = [prev |-> Tip, txs |-> template'.txs]
                 /\ template'.prev = Tip
                 /\ template'.txs \subseteq Pool
<1>1. PICK txs \in SUBSET Pool :
         /\ FillBlockTemplate(txs)
         /\ template' = [prev |-> Tip, txs |-> txs] \/ UNCHANGED template
  BY Zenon DEF GetBlockTemplate
<1>2. PICK X : RemoveFromPool(X) BY Zenon, <1>1 DEF FillBlockTemplate
<1>3. poolStatus' \in {"ok", "readPastEnd"} BY <1>1 DEF FillBlockTemplate
<1>4. Tip \in Block BY MainBlocksAre DEF MainIsPath, IInv, TypeOK
<1>5. template' \in [prev : Block \cup {NoSegment}, txs : SUBSET Tx]
  BY <1>1, <1>4 DEF PoolInv, PoolTypeOK
<1>6. UNCHANGED <<recentlyDeleted, clock>> BY Zenon DEF GetBlockTemplate
<1>7. PoolInv' /\ Pool' = Pool \ X BY Zenon, <1>2, <1>3, <1>5, <1>6, RemovalKeepsPool
<1> QED BY <1>1, <1>7

\* Every step of the node keeps the invariant of the pool.
LEMMA PoolStep ==
    ASSUME IInv, PoolInv, [CoreNext]_vars
    PROVE  PoolInv'
<1>0. template \in [prev : Block \cup {NoSegment}, txs : SUBSET Tx]
        /\ poolStatus \in {"ok", "readPastEnd"}
  BY DEF PoolInv, PoolTypeOK
<1>1. CASE UNCHANGED vars BY <1>1, PoolUnchanged DEF vars, poolVars
<1>2. ASSUME NEW b \in Block, PoolAddBlock(b) PROVE PoolInv'
  <2>1. CASE PoolPushToMain(b)
    BY Zenon, <1>0, <2>1, RemovalKeepsPool DEF PoolPushToMain
  <2>2. CASE PoolSwitch(b) BY Zenon, <2>2, SwitchKeepsPool
  <2>3. CASE PoolUntouched(b)
    <3>1. UNCHANGED poolVars BY Zenon, <2>3 DEF PoolUntouched
    <3> QED BY <3>1, PoolUnchanged DEF poolVars
  <2> QED BY Zenon, <1>2, <2>1, <2>2, <2>3 DEF PoolAddBlock
<1>3. ASSUME NEW b \in Block, SubmitBlock(b) PROVE PoolInv'
  BY Zenon, <1>1, <1>2, <1>3 DEF SubmitBlock
<1>4. ASSUME NEW t \in Tx, ReceiveTx(t) PROVE PoolInv' BY Zenon, <1>4, ReceiveKeepsPool
<1>5. CASE Clean BY Zenon, <1>5, CleanKeepsPool
<1>6. CASE GetBlockTemplate BY Zenon, <1>6, TemplateKeepsPool
<1>7. CASE Tick BY <1>7, PoolUnchanged DEF Tick
<1>8. CASE PoolUndefined BY <1>1, <1>8 DEF PoolUndefined
<1> QED BY Zenon, <1>1, <1>2, <1>3, <1>4, <1>5, <1>6, <1>7, <1>8 DEF CoreNext

\* The node starts with an empty pool.
LEMMA PoolInitially == CoreInit => IInv /\ PoolInv /\ MinableInv
<1> SUFFICES ASSUME CoreInit PROVE IInv /\ PoolInv /\ MinableInv OBVIOUS
<1>1. IInv BY InitInv DEF CoreInit
<1>2. Pool = {} /\ DOMAIN recentlyDeleted = {} BY DEF CoreInit, PoolInit, Pool
<1>3. clock \in StartTime .. MaxClock BY PoolAssumption DEF CoreInit, PoolInit
<1>4. PoolTypeOK BY <1>2, <1>3 DEF PoolTypeOK, CoreInit, PoolInit
<1>5. PoolStateExact
  BY <1>2 DEF PoolStateExact, ConflictFree, KeyImages, CoreInit, PoolInit
<1>6. DeletedStayOut BY <1>2 DEF DeletedStayOut
<1>7. MinableInv
  BY <1>2 DEF MinableInv, PoolSpendable, TemplateFits, CoreInit, PoolInit
<1> QED BY <1>1, <1>4, <1>5, <1>6, <1>7 DEF PoolInv

\* Every variable of the pool keeps its type.
THEOREM PoolTypes == CoreSpec => []PoolTypeOK
<1>1. CoreInit => IInv /\ PoolInv BY PoolInitially
<1>2. IInv /\ PoolInv /\ [CoreNext]_vars => IInv' /\ PoolInv'
  BY CoreTreeStep, NextInv, PoolStep
<1>3. PoolInv => PoolTypeOK BY DEF PoolInv
<1> QED BY <1>1, <1>2, <1>3, PTL DEF CoreSpec

\* TransactionPool::poolState is the set of the key images of the pool, each
\* spent by one of its transactions, after any sequence of pushes, removals,
\* chain switches, cleanings and templates.
THEOREM PoolStateStaysExact == CoreSpec => []PoolStateExact
<1>1. CoreInit => IInv /\ PoolInv BY PoolInitially
<1>2. IInv /\ PoolInv /\ [CoreNext]_vars => IInv' /\ PoolInv'
  BY CoreTreeStep, NextInv, PoolStep
<1>3. PoolInv => PoolStateExact BY DEF PoolInv
<1> QED BY <1>1, <1>2, <1>3, PTL DEF CoreSpec

\* A transaction the cleaner has deleted is not in the pool as long as the
\* cleaner remembers it, on every node whose clock starts no earlier than the
\* live time.
THEOREM DeletedAlwaysOut == CoreSpec => []DeletedStayOut
<1>1. CoreInit => IInv /\ PoolInv BY PoolInitially
<1>2. IInv /\ PoolInv /\ [CoreNext]_vars => IInv' /\ PoolInv'
  BY CoreTreeStep, NextInv, PoolStep
<1>3. PoolInv => DeletedStayOut BY DEF PoolInv
<1> QED BY <1>1, <1>2, <1>3, PTL DEF CoreSpec
-----------------------------------------------------------------------------
(* The pool and the chain. *)

\* addBlock on the main leaf makes the main chain one block longer.
LEMMA PushedMain ==
    ASSUME IInv, NEW b \in Block, PushToMain(b)
    PROVE  MainBlocks' = MainBlocks \cup {b} /\ Tip' = b
<1>1. IInv' /\ FC!Add(b) BY Zenon, PushToMainStep
<1>2. Accepts(b) /\ Prev[b] = Tip
  BY ZenonT(60) DEF PushToMain, OnTop, Tip
<1>3. b # Genesis /\ Cumulative[b] > Cumulative[Tip] BY <1>2, ValidIsNew
<1>4. Tip' = b BY <1>1, <1>3 DEF FC!Add
<1>5. MainBlocks' = Ancestors[Tip'] BY <1>1, MainBlocksAreNext DEF MainIsPath
<1>6. MainBlocks = Ancestors[Tip] BY MainBlocksAre DEF MainIsPath
<1>7. Ancestors[b] = {b} \cup Ancestors[Tip] BY <1>2, <1>3, AncestorsStep
<1> QED BY <1>4, <1>5, <1>6, <1>7

\* The branches of addBlock that leave the pool alone leave the main chain.
LEMMA UntouchedMain ==
    ASSUME IInv, NEW b \in Block, PoolUntouched(b)
    PROVE  MainBlocks' = MainBlocks /\ Tip' = Tip
<1>0. status \in Status BY DEF IInv, TypeOK
<1>1. CASE PushToAlternative(b)
  <2>1. IInv' /\ FC!Add(b) BY Zenon, <1>1, PushToAlternativeStep
  <2>2. ~(Cumulative[b] > Cumulative[Tip]) BY <1>1 DEF PushToAlternative, Heavier
  <2> QED BY <2>1, <2>2, MainBlocksAre, MainBlocksAreNext DEF FC!Add, MainIsPath
<1>2. CASE ForkAtTop(b)
  BY <1>2, ForkAtTopStep, MainBlocksAre, MainBlocksAreNext DEF MainIsPath
<1>3. CASE SplitSegment(b)
  BY <1>3, SplitStep, MainBlocksAre, MainBlocksAreNext DEF MainIsPath
<1>4. CASE SplitOfNonLeaf(b)
  <2>1. /\ status' \in Status
        /\ UNCHANGED <<segmentOf, parent, children, chainsLeaves, mainChainSet,
                       mainChainStorage>>
    BY <1>4 DEF SplitOfNonLeaf, Status
  <2> QED BY <2>1, StutterStep, MainBlocksAre, MainBlocksAreNext DEF MainIsPath
<1>5. CASE RejectBlock(b)
  BY <1>0, <1>5, StutterStep, MainBlocksAre, MainBlocksAreNext
  DEF MainIsPath, RejectBlock, treeVars
<1> QED BY Zenon, <1>1, <1>2, <1>3, <1>4, <1>5 DEF PoolUntouched

\* Without checkpoints every node is outside the checkpoint zone.
NoCheckpoints == DOMAIN Checkpoint = {}

\* A valid transaction can be mined on the main chain of that moment.
LEMMA ValidIsSpendable ==
    ASSUME NoCheckpoints, NEW t, ValidForPool(t)
    PROVE  Spends[t] \cap KeyImagesOf(MainBlocks) = {} /\ Needs[t] \subseteq MainBlocks
<1>1. ~InCheckpointZone(Index[Tip] + 1) BY DEF NoCheckpoints, InCheckpointZone
<1> QED BY Zenon, <1>1 DEF ValidForPool

\* The same after a step.
LEMMA ValidIsSpendableNext ==
    ASSUME NoCheckpoints, NEW t, ValidForPool(t)'
    PROVE  Spends[t] \cap KeyImagesOf(MainBlocks') = {} /\ Needs[t] \subseteq MainBlocks'
<1>1. ~InCheckpointZone(Index[Tip'] + 1) BY DEF NoCheckpoints, InCheckpointZone
<1> QED BY Zenon, <1>1 DEF ValidForPool

\* A pool that loses transactions while the main chain stays is spendable.
LEMMA SmallerPool ==
    ASSUME PoolSpendable, Pool' \subseteq Pool, MainBlocks' = MainBlocks
    PROVE  PoolSpendable'
BY Zenon DEF PoolSpendable

\* Every step of a node without checkpoints keeps its pool spendable.
LEMMA SpendableStep ==
    ASSUME NoCheckpoints, IInv, PoolInv, PoolSpendable, [CoreNext]_vars
    PROVE  PoolSpendable'
<1>0. UNCHANGED treeVars => MainBlocks' = MainBlocks
  BY Zenon DEF treeVars, MainBlocks, ChainUpTo, Lineage, MainLeaf, Tip, Top, BlocksOf, Known
<1>1. CASE UNCHANGED vars
  BY <1>0, <1>1, SmallerPool DEF vars, poolVars, Pool
<1>2. ASSUME NEW b \in Block, PoolAddBlock(b) PROVE PoolSpendable'
  <2>1. CASE PoolPushToMain(b)
    <3>1. MainBlocks' = MainBlocks \cup {b} BY Zenon, <2>1, PushedMain DEF PoolPushToMain
    <3>2. RemoveFromPool(TxsOf[b] \cup NotActualAfter(b)) BY Zenon, <2>1 DEF PoolPushToMain
    <3>3. Pool' = Pool \ (TxsOf[b] \cup NotActualAfter(b))
      BY Zenon, <3>2, RemovalExact DEF PoolInv
    <3>4. \A t \in Pool' : t \in Pool /\ Spends[t] \cap KeyImagesOf({b}) = {}
      BY <3>3 DEF NotActualAfter
    <3>5. KeyImagesOf(MainBlocks') = KeyImagesOf(MainBlocks) \cup KeyImagesOf({b})
      BY <3>1 DEF KeyImagesOf
    <3>6. \A t \in Pool : Spends[t] \cap KeyImagesOf(MainBlocks) = {} /\ Needs[t] \subseteq MainBlocks
      BY Zenon DEF PoolSpendable
    <3>7. \A t \in Pool' : Spends[t] \cap KeyImagesOf(MainBlocks') = {} /\ Needs[t] \subseteq MainBlocks'
      BY <3>1, <3>4, <3>5, <3>6
    <3> QED BY Zenon, <3>7 DEF PoolSpendable
  <2>2. CASE PoolSwitch(b)
    <3>1. \A t \in Pool' : ValidForPool(t)' BY Zenon, <2>2, SwitchKeepsPool
    <3> QED BY Zenon, <3>1, ValidIsSpendableNext DEF PoolSpendable
  <2>3. CASE PoolUntouched(b)
    <3>1. Pool' = Pool BY Zenon, <2>3 DEF PoolUntouched, poolVars, Pool
    <3> QED BY <2>3, <3>1, UntouchedMain, SmallerPool
  <2> QED BY Zenon, <1>2, <2>1, <2>2, <2>3 DEF PoolAddBlock
<1>3. ASSUME NEW b \in Block, SubmitBlock(b) PROVE PoolSpendable'
  BY Zenon, <1>1, <1>2, <1>3 DEF SubmitBlock
<1>4. ASSUME NEW t \in Tx, ReceiveTx(t) PROVE PoolSpendable'
  <2>1. Pool' = Pool \cup {t} BY Zenon, <1>4, ReceiveKeepsPool
  <2>2. ValidForPool(t) BY Zenon, <1>4 DEF ReceiveTx
  <2>3. MainBlocks' = MainBlocks BY Zenon, <1>0, <1>4 DEF ReceiveTx, treeVars
  <2>4. Spends[t] \cap KeyImagesOf(MainBlocks) = {} /\ Needs[t] \subseteq MainBlocks
    BY Zenon, <2>2, ValidIsSpendable
  <2> QED BY Zenon, <2>1, <2>3, <2>4 DEF PoolSpendable
<1>5. CASE Clean
  <2>1. Pool' = Pool \ Outdated BY Zenon, <1>5, CleanKeepsPool
  <2>2. MainBlocks' = MainBlocks BY Zenon, <1>0, <1>5 DEF Clean, treeVars
  <2> QED BY <2>1, <2>2, SmallerPool
<1>6. CASE GetBlockTemplate
  <2>1. Pool' \subseteq Pool BY Zenon, <1>6, TemplateKeepsPool
  <2>2. MainBlocks' = MainBlocks BY Zenon, <1>0, <1>6 DEF GetBlockTemplate, treeVars
  <2> QED BY <2>1, <2>2, SmallerPool
<1>7. CASE Tick
  <2>1. MainBlocks' = MainBlocks /\ Pool' = Pool
    BY Zenon, <1>0, <1>7 DEF Tick, treeVars, Pool
  <2> QED BY <2>1, SmallerPool
<1>8. CASE PoolUndefined BY <1>1, <1>8 DEF PoolUndefined
<1> QED BY Zenon, <1>1, <1>2, <1>3, <1>4, <1>5, <1>6, <1>7, <1>8 DEF CoreNext

\* Only getBlockTemplate touches the template, and it takes spendable pool
\* transactions for a block on the tip.
LEMMA TemplateStep ==
    ASSUME IInv, PoolInv, PoolSpendable, TemplateFits, [CoreNext]_vars
    PROVE  TemplateFits'
<1>1. UNCHANGED template => TemplateFits' BY Zenon DEF TemplateFits
<1>2. CASE GetBlockTemplate /\ ~UNCHANGED template
  <2>1. template'.prev = Tip /\ template'.txs \subseteq Pool BY Zenon, <1>2, TemplateKeepsPool
  <2>2. ConflictFree(Pool) BY DEF PoolInv, PoolStateExact
  <2>3. ConflictFree(template'.txs) BY <2>1, <2>2 DEF ConflictFree
  <2>4. MainBlocks = Ancestors[Tip] BY MainBlocksAre DEF MainIsPath
  <2>5. \A t \in template'.txs :
           /\ Spends[t] \cap KeyImagesOf(Ancestors[template'.prev]) = {}
           /\ Needs[t] \subseteq Ancestors[template'.prev]
    BY Zenon, <2>1, <2>4 DEF PoolSpendable
  <2> QED BY Zenon, <2>3, <2>5 DEF TemplateFits
<1>3. CASE ~GetBlockTemplate
  <2>1. ASSUME NEW b \in Block, PoolAddBlock(b) PROVE UNCHANGED template
    BY Zenon, <2>1
    DEF PoolAddBlock, PoolPushToMain, PoolSwitch, PoolUntouched, poolVars
  <2>2. UNCHANGED vars => UNCHANGED template BY DEF vars, poolVars
  <2> QED BY Zenon, <1>1, <1>3, <2>1, <2>2
          DEF CoreNext, SubmitBlock, ReceiveTx, Clean, Tick, PoolUndefined
<1> QED BY Zenon, <1>1, <1>2, <1>3

\* Both together, the induction step of the next two theorems.
LEMMA MinableStep ==
    ASSUME NoCheckpoints, IInv, PoolInv, MinableInv, [CoreNext]_vars
    PROVE  IInv' /\ PoolInv' /\ MinableInv'
BY Zenon, CoreTreeStep, NextInv, PoolStep, SpendableStep, TemplateStep DEF MinableInv

\* On a node without checkpoints every pool transaction can be mined on the
\* main chain of that moment, whatever chains it has switched between.
THEOREM PoolAlwaysSpendable ==
    ASSUME NoCheckpoints
    PROVE  CoreSpec => []PoolSpendable
<1>1. CoreInit => IInv /\ PoolInv /\ MinableInv BY PoolInitially
<1>2. IInv /\ PoolInv /\ MinableInv /\ [CoreNext]_vars => IInv' /\ PoolInv' /\ MinableInv'
  BY MinableStep
<1>3. MinableInv => PoolSpendable BY DEF MinableInv
<1> QED BY <1>1, <1>2, <1>3, PTL DEF CoreSpec

\* On a node without checkpoints the transactions of the last template can be
\* mined together as long as its parent is the tip.
THEOREM TemplateAlwaysSpendable ==
    ASSUME NoCheckpoints
    PROVE  CoreSpec => []TemplateSpendable
<1>1. CoreInit => IInv /\ PoolInv /\ MinableInv BY PoolInitially
<1>2. IInv /\ PoolInv /\ MinableInv /\ [CoreNext]_vars => IInv' /\ PoolInv' /\ MinableInv'
  BY MinableStep
<1>3. IInv /\ MinableInv => TemplateSpendable
  <2> SUFFICES ASSUME IInv, MinableInv, template.prev = Tip PROVE TemplateSpendable
    BY DEF TemplateSpendable
  <2>1. Tip # NoSegment BY MainBlocksAre, BlockAssumption DEF MainIsPath, IInv, TypeOK
  <2>2. MainBlocks = Ancestors[template.prev] BY MainBlocksAre DEF MainIsPath
  <2> QED BY Zenon, <2>1, <2>2 DEF MinableInv, TemplateFits, TemplateSpendable
<1> QED BY <1>1, <1>2, <1>3, PTL DEF CoreSpec

\* A block of the old main chain whose segment stays on the main chain is a
\* block of the new one: its index is not above the new tip's.
LEMMA StaysOnMain ==
    ASSUME IInv, NEW b \in Block, SwitchToAlternative(b),
           NEW c \in Known, segmentOf[c] \in mainChainSet'
    PROVE  c \in MainBlocks'
<1>0. Accepts(b) BY DEF SwitchToAlternative
<1> PICK s \in Segments : s = segmentOf[Prev[b]] BY <1>0, ValidIsNew
<1>1. /\ Prev[b] = Top(s) /\ Heavier(b) /\ parent' = parent
      /\ segmentOf' = Put(segmentOf, b, s)
      /\ mainChainSet' = Lineage(parent', MainLeaf')
      /\ chainsLeaves' = [i \in DOMAIN chainsLeaves |->
                            IF i = 1 THEN s
                            ELSE IF chainsLeaves[i] = s THEN MainLeaf
                            ELSE chainsLeaves[i]]
  BY ZenonT(60) DEF SwitchToAlternative, OnTop, UpdateMainChainSet, MainLeaf
<1>2. MainLeaf' = s BY <1>1, MainLeafIsSegment DEF MainLeaf
<1>3. segmentOf[c] \in Lineage(parent, s) BY <1>1, <1>2
<1>4. FC!Add(b) BY Zenon, SwitchStep
<1>5. Tip' = b BY <1>1, <1>4 DEF FC!Add, Heavier
<1>6. /\ b \notin Known /\ b # Genesis /\ s \in Known /\ Top(s) \in Known
      /\ Index[s] <= Index[Top(s)] /\ Index[b] = Index[Top(s)] + 1
      /\ Index[s] \in Nat /\ Index[Top(s)] \in Nat /\ Index[c] \in Nat
      /\ \A d \in BlocksOf(s) : Index[d] <= Index[Top(s)]
  <2>1. b \notin Known /\ b # Genesis BY <1>0, ValidIsNew
  <2>2. Index[b] = Index[Prev[b]] + 1 BY <2>1, BlockAssumption
  <2>3. Top(s) \in BlocksOf(s) /\ \A d \in BlocksOf(s) : Index[d] <= Index[Top(s)]
    BY Zenon, TopOfSegment
  <2>4. s \in Known /\ s \in BlocksOf(s) BY Shape DEF BlocksOf
  <2>5. Top(s) \in Known BY <2>3 DEF BlocksOf
  <2> QED BY <1>1, <2>1, <2>2, <2>3, <2>4, <2>5, Shape
<1>7. Index[c] <= Index[b]
  <2>1. CASE segmentOf[c] = s
    <3>1. c \in BlocksOf(s) BY <2>1 DEF BlocksOf
    <3> QED BY <1>6, <3>1
  <2>2. CASE segmentOf[c] # s
    <3>1. PICK x \in Segments : x = segmentOf[c] BY Shape
    <3>2. Top(x) \in Ancestors[s] BY <1>3, <2>2, <3>1, TopsOfLineage
    <3>3. s \in Block BY <1>6, Shape
    <3>4. Index[Top(x)] <= Index[s] BY <3>2, <3>3, AncestorsFacts
    <3>5. c \in BlocksOf(x) BY <3>1 DEF BlocksOf
    <3>6. Index[c] <= Index[Top(x)] /\ Top(x) \in BlocksOf(x) BY Zenon, <3>5, TopOfSegment
    <3>7. Index[Top(x)] \in Nat BY <3>6, Shape DEF BlocksOf
    <3> QED BY <1>6, <3>4, <3>6, <3>7
  <2> QED BY <2>1, <2>2
<1>8. c \in Known' /\ segmentOf'[c] = segmentOf[c] BY <1>1, <1>6 DEF Known, Put
<1> QED BY Zenon, <1>1, <1>2, <1>3, <1>5, <1>7, <1>8 DEF MainBlocks, ChainUpTo

\* What a chain switch does to the transactions of the main chain and the
\* pool: each is on the new chain or in the new pool, or there is a reason.
LEMMA SwitchKeepsTransactions ==
    ASSUME IInv, PoolInv, NEW b \in Block, PoolSwitch(b), NEW t \in TxsOnMain \cup Pool
    PROVE  \/ t \in TxsOnMain' \cup Pool'
           \/ ~ValidForPool(t)'
           \/ t \in DOMAIN recentlyDeleted
           \/ Spends[t] \cap poolState' # {}
<1>1. SwitchToAlternative(b) BY Zenon DEF PoolSwitch
<1>2. b \in MainBlocks'
  <2>1. IInv' /\ FC!Add(b) BY Zenon, <1>1, SwitchStep
  <2>2. Heavier(b) BY Zenon, <1>1 DEF SwitchToAlternative
  <2>3. Tip' = b BY <2>1, <2>2 DEF FC!Add, Heavier
  <2>4. MainBlocks' = Ancestors[Tip'] BY <2>1, MainBlocksAreNext DEF MainIsPath
  <2> QED BY <2>3, <2>4, AncestorsFacts
<1>3. \A c \in MainBlocks' : TxsOf[c] \subseteq TxsOnMain' BY DEF TxsOnMain
<1>4. CASE t \in TxsOf[b] BY <1>2, <1>3, <1>4
<1>5. CASE t \in Pool \ TxsOf[b] BY Zenon, <1>5, SwitchKeepsPool
<1>6. CASE t \in TxsOnMain
  <2>1. PICK c \in MainBlocks : t \in TxsOf[c] BY <1>6 DEF TxsOnMain
  <2>2. c \in Known BY MainBlocksAre DEF MainIsPath
  <2>3. CASE segmentOf[c] \in mainChainSet'
    <3>1. c \in MainBlocks' BY Zenon, <1>1, <2>2, <2>3, StaysOnMain
    <3> QED BY <1>3, <2>1, <3>1
  <2>4. CASE segmentOf[c] \notin mainChainSet'
    <3>1. t \in Abandoned BY <2>1, <2>4 DEF Abandoned
    <3> QED BY Zenon, <3>1, SwitchKeepsPool
  <2> QED BY <2>3, <2>4
<1> QED BY <1>4, <1>5, <1>6

\* A chain switch loses no transaction of the abandoned blocks or of the pool
\* without a reason, for every block tree and every contents of the blocks.
THEOREM ReorgsKeepTransactions == CoreSpec => ReorgKeepsTransactions
<1>1. CoreInit => IInv /\ PoolInv BY PoolInitially
<1>2. IInv /\ PoolInv /\ [CoreNext]_vars => IInv' /\ PoolInv'
  BY CoreTreeStep, NextInv, PoolStep
<1> DEFINE Kept ==
      \A t \in TxsOnMain \cup Pool :
          (MainLeaf' # MainLeaf /\ parent' = parent) =>
             \/ t \in TxsOnMain' \cup Pool'
             \/ ~ValidForPool(t)'
             \/ t \in DOMAIN recentlyDeleted
             \/ Spends[t] \cap poolState' # {}
<1>3. IInv /\ PoolInv /\ [CoreNext]_vars => [Kept]_vars
  <2> SUFFICES ASSUME IInv, PoolInv, CoreNext, MainLeaf' # MainLeaf, parent' = parent
               PROVE  Kept
    BY Zenon
  <2>0. ~UNCHANGED chainsLeaves BY DEF MainLeaf
  <2>1. ~UNCHANGED treeVars BY <2>0 DEF treeVars
  <2>2. ASSUME NEW b \in Block, PoolAddBlock(b) PROVE PoolSwitch(b)
    <3>1. ~PushToMain(b) /\ ~PushToAlternative(b) /\ ~SplitOfNonLeaf(b) /\ ~RejectBlock(b)
      BY Zenon, <2>0, <2>1 DEF PushToMain, PushToAlternative, SplitOfNonLeaf, RejectBlock
    <3>2. ~ForkAtTop(b) /\ ~SplitSegment(b)
      <4>1. ASSUME ForkAtTop(b) \/ SplitSegment(b) PROVE FALSE
        <5>1. Accepts(b) /\ b \in DOMAIN parent'
          <6>1. CASE ForkAtTop(b) BY <6>1 DEF ForkAtTop, Put
          <6>2. CASE SplitSegment(b) BY ZenonT(60), <6>2 DEF SplitSegment, Put
          <6> QED BY <4>1, <6>1, <6>2
        <5>2. b \notin Segments BY <5>1, Shape DEF Accepts
        <5> QED BY <5>1, <5>2 DEF Segments
      <4> QED BY <4>1
    <3> QED BY Zenon, <2>2, <3>1, <3>2 DEF PoolAddBlock, PoolPushToMain, PoolUntouched
  <2>3. PICK b \in Block : PoolSwitch(b)
    BY Zenon, <2>1, <2>2
    DEF CoreNext, SubmitBlock, ReceiveTx, Clean, GetBlockTemplate, Tick, PoolUndefined,
        vars, treeVars
  <2> QED BY Zenon, <2>3, SwitchKeepsTransactions
<1> QED BY <1>1, <1>2, <1>3, PTL DEF CoreSpec, ReorgKeepsTransactions
=============================================================================
