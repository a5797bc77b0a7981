----------------------------- MODULE WalletSync -----------------------------
(***************************************************************************)
(* The wallet of src/wallet_backend and src/sub_wallets: the inputs of a   *)
(* sub-wallet, the synchronisation status, the thread that scans blocks    *)
(* (WalletSynchronizer), the threads that send (send_transaction) and the  *)
(* daemon behind Nigel, whose main chain grows and switches while they run.*)
(*                                                                         *)
(* SubWallets locks a mutex in each call, so one call is one step and the  *)
(* threads interleave between calls.  Stopping the scanning thread waits   *)
(* for the block in hand, so what needs it stopped (save, reset) happens   *)
(* between two blocks.  One sub-wallet stands for all: no call moves an    *)
(* input from one to another.                                              *)
(***************************************************************************)
EXTENDS Integers, Sequences, FiniteSets

CONSTANTS
    Blocks,           \* the blocks the daemon may come to know
    Parent,           \* [Blocks -> Blocks], the root is its own parent
    HeightOf,         \* [Blocks -> Nat]
    Weight,           \* [Blocks -> Nat], the cumulative difficulty
    TxsOf,            \* [Blocks -> SUBSET Txs], the coinbase included
    Txs,              \* the transactions that concern this wallet
    Outs,             \* [Txs -> SUBSET Outputs]: outputs paid to this wallet
    Ins,              \* [Txs -> SUBSET Outputs]: outputs of this wallet it spends
    NoTx,             \* what an idle sender sends
    Own,              \* the transactions this wallet may send itself
    UnlockAt,         \* [Outputs -> Nat], 0 for none
    Genesis,          \* the tip of the daemon when the wallet is opened
    StartHeight,      \* m_startHeight
    KnownSize,        \* LAST_KNOWN_BLOCK_HASHES_SIZE
    Interval,         \* BLOCK_HASH_CHECKPOINTS_INTERVAL
    BatchSize,        \* BLOCKS_SYNCHRONIZING_DEFAULT_COUNT
    Senders,          \* threads that may call sendTransactionAdvanced
    Faults,           \* what may go wrong: a subset of FaultKinds
    MaxInterruptions  \* bound on saves, resets and reopenings together

FaultKinds == {"switch", "drop", "lostReply", "noAnswer", "noIndexes", "restart", "reset"}

ASSUME WalletAssumption ==
    /\ \A b \in Blocks : Parent[b] \in Blocks /\ HeightOf[b] \in Nat /\ TxsOf[b] \subseteq Txs
    /\ \A b \in Blocks : HeightOf[b] = (IF Parent[b] = b THEN 0 ELSE HeightOf[Parent[b]] + 1)
    /\ \A b \in Blocks : Weight[b] \in Nat /\ (Parent[b] # b => Weight[b] > Weight[Parent[b]])
    /\ Own \subseteq Txs /\ NoTx \notin Txs /\ Genesis \in Blocks /\ Faults \subseteq FaultKinds
    /\ StartHeight \in Nat \ {0} /\ KnownSize \in Nat \ {0} /\ Interval \in Nat \ {0}
    /\ BatchSize \in Nat \ {0} /\ MaxInterruptions \in Nat

Outputs == UNION {Outs[t] : t \in Txs}
TxOf(o) == CHOOSE t \in Txs : o \in Outs[t]

VARIABLES
    tip,          \* daemon: the top of its main chain
    pool,         \* daemon: transactions of this wallet in its pool
    daemonCount,  \* Nigel: m_localDaemonBlockCount, refreshed in the background
    wallet,       \* SubWallets: what a wallet file holds of it
    sync,         \* SynchronizationStatus
    batch,        \* the blocks downloaded and not yet processed
    pc,           \* where the scanning thread is
    scan,         \* BlockScanTmpInfo of the block in hand
    cancelled,    \* the answer checkLockedTransactions acts on
    sender,       \* [Senders -> where the thread is and what it sends]
    relayed,      \* transactions the daemon accepted from this wallet
    failure,      \* what ended the scanning thread, if anything did
    file,         \* the wallet file; cut while a save is writing it
    interruptions, \* how often the wallet was saved, reset and reopened
    slips         \* history: the losses the wallet does not notice (see Slips)

vars == <<tip, pool, daemonCount, wallet, sync, batch, pc, scan, cancelled,
          sender, relayed, failure, file, interruptions, slips>>
daemonVars == <<tip, pool, daemonCount>>
scanVars   == <<batch, pc, scan, cancelled>>
userVars   == <<sender, relayed, file, interruptions>>

-----------------------------------------------------------------------------
(* The daemon's chain *)

ChainTo[b \in Blocks] == {b} \cup (IF Parent[b] = b THEN {} ELSE ChainTo[Parent[b]])
TxsTo(b)      == UNION {TxsOf[c] : c \in ChainTo[b]}
BlockAt(b, h) == CHOOSE c \in ChainTo[b] : HeightOf[c] = h
OutputsOf(b)  == UNION {Outs[t] : t \in TxsOf[b]}

(* What the daemon's validation makes of a chain: an output is paid by one
   transaction, a transaction is in one block, an input refers to an output
   of an earlier block, and no output is spent twice *)
ASSUME ChainAssumption ==
    /\ \A t, u \in Txs : t # u => Outs[t] \cap Outs[u] = {}
    /\ \A b \in Blocks : \A c \in ChainTo[b] :
           /\ c # b => TxsOf[c] \cap TxsOf[b] = {}
           /\ \A t \in TxsOf[c] : Ins[t] \cap OutputsOf(b) = {}
           /\ \A t \in TxsOf[c], u \in TxsOf[b] : t # u => Ins[t] \cap Ins[u] = {}

FindBlockchainSupplement_newest(hashes) ==
    IF Head(hashes) \in ChainTo[tip] THEN HeightOf[Head(hashes)] ELSE -1

(* findBlockchainSupplement: the first known hash that is on the main chain *)
FindBlockchainSupplement(hashes) ==
    LET On(i) == hashes[i] \in ChainTo[tip]
    IN  IF \A i \in DOMAIN hashes : ~On(i) THEN -1
        ELSE HeightOf[hashes[CHOOSE i \in DOMAIN hashes : On(i) /\ \A j \in 1 .. i - 1 : ~On(j)]]

KnownHeight(hashes) == IF hashes = <<>> THEN 0 ELSE FindBlockchainSupplement(hashes)

(* getWalletSyncData: the blocks after the last known one, from start on; none
   when no known hash is on the main chain *)
GetWalletSyncData(known, start) ==
    LET after == IF known = 0 THEN 0 ELSE known + 1
        first == IF after > start THEN after ELSE start
        left  == HeightOf[tip] - first + 1
        count == IF left > BatchSize THEN BatchSize ELSE left
    IN  IF known = -1 \/ HeightOf[tip] < first THEN <<>>
        ELSE [i \in 1 .. count |-> BlockAt(tip, first + i - 1)]

(* the inputs of t exist on the chain to b and nothing on it spends them *)
ValidOn(b, t) ==
    /\ Ins[t] \subseteq UNION {Outs[u] : u \in TxsTo(b)}
    /\ \A u \in TxsTo(b) : Ins[u] \cap Ins[t] = {}

(* isTransactionValidForPool: nothing in the pool spends them either *)
DaemonAccepts(t) == ValidOn(tip, t) /\ \A u \in pool : Ins[u] \cap Ins[t] = {}

-----------------------------------------------------------------------------
(* SubWallet *)

Keys(inputs)     == {inputs[i].out : i \in DOMAIN inputs}
Find(inputs, o)  == CHOOSE i \in DOMAIN inputs :
                        inputs[i].out = o /\ \A j \in DOMAIN inputs : inputs[j].out = o => i <= j
NewInput(o, h)   == [out |-> o, height |-> h, spend |-> 0]

(* std::vector::erase of the iterator at place i *)
Erase(inputs, i) == SubSeq(inputs, 1, i - 1) \o SubSeq(inputs, i + 1, Len(inputs))

StoreTransactionInput(w, o, h) ==
    [w EXCEPT !.unconfirmed = @ \ {o}, !.unspent = Append(@, NewInput(o, h))]

HasKeyImage_unspent(w, o) == o \in Keys(w.unspent)

HasKeyImage(w, o) == o \in Keys(w.unspent) \cup Keys(w.locked)

MarkInputAsSpent(w, o, h) ==
    IF o \in Keys(w.unspent)
    THEN LET i == Find(w.unspent, o)
         IN  [w EXCEPT !.unspent = Erase(@, i),
                       !.spent = Append(@, [w.unspent[i] EXCEPT !.spend = h])]
    ELSE LET i == Find(w.locked, o)
         IN  [w EXCEPT !.locked = Erase(@, i),
                       !.spent = Append(@, [w.locked[i] EXCEPT !.spend = h])]

MarkInputAsLocked_keeps(w, o) == [w EXCEPT !.locked = Append(@, NewInput(o, 0))]

MarkInputAsLocked(w, o) ==
    LET i == Find(w.unspent, o)
    IN  [w EXCEPT !.unspent = Erase(@, i), !.locked = Append(@, w.unspent[i])]

Unspend(inputs) == [i \in DOMAIN inputs |-> [inputs[i] EXCEPT !.spend = 0]]

(* the inputs at the given places, in their order *)
Nth(places, k) == CHOOSE i \in places : Cardinality({j \in places : j <= i}) = k
Sublist(inputs, places) == [k \in 1 .. Cardinality(places) |-> inputs[Nth(places, k)]]

RemoveForkedInputs_keepsSpent(w, fork) ==
    LET kept == {i \in DOMAIN w.unspent : w.unspent[i].height < fork}
    IN  [w EXCEPT !.locked = <<>>, !.unconfirmed = {}, !.unspent = Sublist(@, kept)]

RemoveForkedInputs_early(w, fork) ==
    LET kept == {i \in DOMAIN w.unspent : w.unspent[i].height + 1 < fork}
        back == {i \in DOMAIN w.spent : w.spent[i].spend >= fork}
    IN  [w EXCEPT !.locked = <<>>, !.unconfirmed = {},
                  !.unspent = Sublist(@, kept) \o Unspend(Sublist(w.spent, back)),
                  !.spent = Sublist(@, DOMAIN @ \ back)]

RemoveForkedInputs(w, fork) ==
    LET kept == {i \in DOMAIN w.unspent : w.unspent[i].height < fork}
        back == {i \in DOMAIN w.spent : w.spent[i].spend >= fork}
    IN  [w EXCEPT !.locked = <<>>, !.unconfirmed = {},
                  !.unspent = Sublist(@, kept) \o Unspend(Sublist(w.spent, back)),
                  !.spent = Sublist(@, DOMAIN @ \ back)]

(* matches the transaction that created an input, not the one that spends it *)
RemoveCancelledInputs(w, txs) ==
    LET back == {i \in DOMAIN w.locked : TxOf(w.locked[i].out) \in txs}
    IN  [w EXCEPT !.unspent = @ \o Unspend(Sublist(w.locked, back)),
                  !.locked = Sublist(@, DOMAIN @ \ back),
                  !.unconfirmed = {o \in @ : TxOf(o) \notin txs}]

IsInputUnlocked(o, height) == UnlockAt[o] = 0 \/ height + 1 >= UnlockAt[o]

GetSpendableInputs(w, height) == {o \in Keys(w.unspent) : IsInputUnlocked(o, height)}

-----------------------------------------------------------------------------
(* SubWallets *)

EmptyWallet == [unspent |-> <<>>, locked |-> <<>>, spent |-> <<>>, unconfirmed |-> {},
                txs |-> {}, lockedTxs |-> {}]

(* addTransaction throws when it knows the transaction, after it has taken it
   out of the locked ones *)
AddedTwice(w, t) == \E r \in w.txs : r.tx = t

AddTransaction(w, t, h) ==
    [w EXCEPT !.lockedTxs = @ \ {t},
              !.txs = IF AddedTwice(w, t) THEN @ ELSE @ \cup {[tx |-> t, height |-> h]}]

RemoveForkedTransactions(w, fork) ==
    RemoveForkedInputs([w EXCEPT !.txs = {r \in @ : r.height < fork}], fork)

RemoveCancelledTransactions_inputsOnly(w, txs) == RemoveCancelledInputs(w, txs)

RemoveCancelledTransactions(w, txs) ==
    RemoveCancelledInputs([w EXCEPT !.lockedTxs = @ \ txs], txs)

(* the loop variable of reset is a copy of the sub-wallet: the inputs stay *)
ResetWallet(w) == [w EXCEPT !.txs = {}, !.lockedTxs = {}]

(* toJSON writes every field, fromJSON appends the locked transactions to
   m_transactions; a transaction that is not in a block has height 0 *)
ReadWallet(w) ==
    [w EXCEPT !.txs = @ \cup {[tx |-> t, height |-> 0] : t \in w.lockedTxs}, !.lockedTxs = {}]

-----------------------------------------------------------------------------
(* SynchronizationStatus *)

NewSync == [height |-> 0, hashes |-> <<>>, checkpoints |-> <<>>]

MissedBlock(s, h) == h > s.height /\ s.height # 0 /\ h # s.height + 1

StoreBlockHash_unbounded(s, b) ==
    [s EXCEPT !.height = HeightOf[b],
              !.checkpoints = IF HeightOf[b] % Interval = 0 THEN <<b>> \o @ ELSE @,
              !.hashes = <<b>> \o @]

StoreBlockHash(s, b) ==
    [s EXCEPT !.height = HeightOf[b],
              !.checkpoints = IF HeightOf[b] % Interval = 0 THEN <<b>> \o @ ELSE @,
              !.hashes = LET all == <<b>> \o @
                         IN  IF Len(all) > KnownSize THEN SubSeq(all, 1, Len(all) - 1) ELSE all]

GetBlockHashCheckpoints(s) == s.hashes \o s.checkpoints

-----------------------------------------------------------------------------
NoScan == [txs |-> {}, outs |-> {}, spend |-> {}]
Idle   == [pc |-> "idle", tx |-> NoTx, left |-> {}]

Init ==
    /\ tip = Genesis /\ pool = {} /\ daemonCount = HeightOf[Genesis]
    /\ wallet = EmptyWallet /\ sync = NewSync
    /\ batch = <<>> /\ pc = "idle" /\ scan = NoScan /\ cancelled = {}
    /\ sender = [s \in Senders |-> Idle] /\ relayed = {}
    /\ failure = "none" /\ file = [cut |-> FALSE, wallet |-> EmptyWallet, sync |-> NewSync]
    /\ interruptions = [save |-> 0, reset |-> 0, open |-> 0] /\ slips = {}

Running == failure = "none"

-----------------------------------------------------------------------------
(* The daemon.  A block with a transaction of this wallet needs that the
   daemon was given it. *)

Minable(b) == TxsOf[b] \cap Own \subseteq relayed

(* actualizePoolTransactionsLite drops what the block's transactions exclude *)
ExtendChain ==
    \E b \in Blocks :
        /\ Parent[b] = tip /\ b # tip /\ Minable(b)
        /\ tip' = b
        /\ pool' = {t \in pool \ TxsOf[b] : \A u \in TxsOf[b] : Ins[u] \cap Ins[t] = {}}
        /\ UNCHANGED <<daemonCount, wallet, sync, scanVars, userVars, failure, slips>>

(* a branch with more cumulative difficulty becomes the main chain, be it
   longer or shorter; the pool keeps what is valid on it and gets back what
   only the old chain held *)
SwitchChain ==
    \E b \in Blocks :
        /\ "switch" \in Faults
        /\ tip \notin ChainTo[b] /\ Weight[b] > Weight[tip]
        /\ \A c \in ChainTo[b] : Minable(c)
        /\ tip' = b
        /\ pool' = {t \in (pool \cup (TxsTo(tip) \cap Own)) \ TxsTo(b) : ValidOn(b, t)}
        /\ UNCHANGED <<daemonCount, wallet, sync, scanVars, userVars, failure, slips>>

(* a transaction outlives its time in the pool *)
DropFromPool ==
    \E t \in pool :
        /\ "drop" \in Faults
        /\ pool' = pool \ {t}
        /\ UNCHANGED <<tip, daemonCount, wallet, sync, scanVars, userVars, failure, slips>>

(* Nigel's background thread *)
GetDaemonInfo ==
    /\ daemonCount # HeightOf[tip]
    /\ daemonCount' = HeightOf[tip]
    /\ UNCHANGED <<tip, pool, wallet, sync, scanVars, userVars, failure, slips>>

-----------------------------------------------------------------------------
(* The scanning thread *)

(* mainLoop with the blocks downloaded, or with none *)
Downloaded(blocks) ==
    /\ batch' = blocks
    /\ pc' = IF blocks # <<>> THEN "block"
             ELSE IF sync.height >= daemonCount THEN "check" ELSE "idle"
    /\ UNCHANGED <<daemonVars, wallet, sync, scan, cancelled, userVars, failure, slips>>

(* downloadBlocks *)
DownloadBlocks ==
    /\ Running /\ pc = "idle"
    /\ \E known \in {KnownHeight(GetBlockHashCheckpoints(sync))} :
       \E blocks \in {IF daemonCount < sync.height THEN <<>>
                      ELSE GetWalletSyncData(known, StartHeight)} : Downloaded(blocks)

(* the request times out or fails *)
DownloadFails ==
    /\ Running /\ pc = "idle" /\ "noAnswer" \in Faults
    /\ Downloaded(<<>>)

NextBlock == IF Len(batch) > 1 THEN "block" ELSE "idle"

Forked(b) == sync.height >= HeightOf[b]

(* Slips are no part of the program.  They record the steps after which the
   lists of inputs are not what the scanned chain says:
     "gap"      a block is taken up that does not continue the scanned chain,
                or one is given up after its fork was rolled back;
     "locked"   a fork drops a locked input that was paid below it;
     "spent"    a fork makes unspent an input that was paid above it;
   and those after which an input of an unconfirmed transaction is on offer:
     "inFlight" a fork comes while a transaction is being sent or unconfirmed;
     "unlocked" a cancelled transaction made an input that is locked;
     "notFound" a send finds an input gone and leaves the others unlocked. *)
Losses == {"gap", "locked", "spent"}
Slips  == Losses \cup {"inFlight", "unlocked", "notFound"}

Follows(b) ==
    \/ HeightOf[b] = StartHeight
    \/ sync.hashes # <<>> /\ Parent[b] # b /\ Parent[b] \in ChainTo[Head(sync.hashes)]

InFlight == wallet.lockedTxs # {} \/ \E s \in Senders : sender[s].pc # "idle"

ForkSlips(fork) ==
    {k \in {"locked", "spent", "inFlight"} :
        \/ k = "locked" /\ \E i \in DOMAIN wallet.locked : wallet.locked[i].height < fork
        \/ k = "spent" /\ \E i \in DOMAIN wallet.spent : /\ wallet.spent[i].spend >= fork
                                                          /\ wallet.spent[i].height >= fork
        \/ k = "inFlight" /\ InFlight}

(* processBlock up to processBlockOutputs *)
BeginBlock ==
    /\ Running /\ pc = "block"
    /\ wallet' = IF Forked(Head(batch))
                 THEN RemoveForkedTransactions(wallet, HeightOf[Head(batch)]) ELSE wallet
    /\ slips' = IF Forked(Head(batch)) THEN slips \cup ForkSlips(HeightOf[Head(batch)]) ELSE slips
    /\ pc' = "indexes"
    /\ UNCHANGED <<daemonVars, sync, batch, scan, cancelled, userVars, failure>>

(* the daemon answers with the indexes of its main chain of now *)
IndexesFound(b) == OutputsOf(b) = {} \/ (TxsOf[b] \subseteq TxsTo(tip))

ProcessBlockTransactions(b) ==
    LET spends(t) == {o \in Ins[t] : HasKeyImage(wallet, o)}
        ours == {t \in TxsOf[b] : Outs[t] # {} \/ spends(t) # {}}
    IN  [txs |-> ours, outs |-> OutputsOf(b), spend |-> UNION {spends(t) : t \in ours}]

(* processBlock: the global indexes, then what the block means to us *)
GetGlobalIndexes ==
    /\ Running /\ pc = "indexes"
    /\ \/ /\ IndexesFound(Head(batch))
          /\ scan' = ProcessBlockTransactions(Head(batch))
          /\ pc' = "process"
          /\ slips' = IF Follows(Head(batch)) THEN slips ELSE slips \cup {"gap"}
          /\ UNCHANGED batch
       \/ /\ OutputsOf(Head(batch)) # {}
          /\ ~IndexesFound(Head(batch)) \/ "noIndexes" \in Faults
          /\ batch' = Tail(batch)
          /\ pc' = NextBlock
          /\ slips' = IF Forked(Head(batch)) THEN slips \cup {"gap"} ELSE slips
          /\ UNCHANGED scan
    /\ UNCHANGED <<daemonVars, wallet, sync, cancelled, userVars, failure>>

(* the loops of processBlock over what was found, one call at a time *)
AddTransactions ==
    /\ Running /\ pc = "process"
    /\ \E t \in scan.txs :
           /\ wallet' = AddTransaction(wallet, t, HeightOf[Head(batch)])
           /\ scan' = [scan EXCEPT !.txs = @ \ {t}]
           /\ failure' = IF AddedTwice(wallet, t) THEN "addedTwice" ELSE failure
    /\ UNCHANGED <<daemonVars, sync, batch, pc, cancelled, userVars, slips>>

StoreInputs ==
    /\ Running /\ pc = "process" /\ scan.txs = {}
    /\ \E o \in scan.outs :
           /\ wallet' = StoreTransactionInput(wallet, o, HeightOf[Head(batch)])
           /\ scan' = [scan EXCEPT !.outs = @ \ {o}]
    /\ UNCHANGED <<daemonVars, sync, batch, pc, cancelled, userVars, failure, slips>>

(* nothing takes a key image out of the unspent and the locked inputs while a
   block is in hand, so MarkInputAsSpent finds it *)
SpendInputs ==
    /\ Running /\ pc = "process" /\ scan.txs = {} /\ scan.outs = {}
    /\ \E o \in scan.spend :
           /\ wallet' = MarkInputAsSpent(wallet, o, HeightOf[Head(batch)])
           /\ scan' = [scan EXCEPT !.spend = @ \ {o}]
    /\ UNCHANGED <<daemonVars, sync, batch, pc, cancelled, userVars, failure, slips>>

(* storeBlockHash *)
FinishBlock ==
    /\ Running /\ pc = "process" /\ scan = NoScan
    /\ LET b == Head(batch)
       IN  IF MissedBlock(sync, HeightOf[b])
           THEN failure' = "missedBlocks" /\ UNCHANGED <<sync, batch, pc>>
           ELSE /\ sync' = StoreBlockHash(sync, b)
                /\ batch' = Tail(batch) /\ pc' = NextBlock
                /\ UNCHANGED failure
    /\ UNCHANGED <<daemonVars, wallet, scan, cancelled, userVars, slips>>

(* checkLockedTransactions asks the daemon which are gone ... *)
Answered(gone) ==
    /\ cancelled' = gone /\ pc' = IF gone = {} THEN "idle" ELSE "cancel"
    /\ UNCHANGED <<daemonVars, wallet, sync, batch, scan, userVars, failure, slips>>

CheckLockedTransactions ==
    /\ Running /\ pc = "check"
    /\ \E gone \in {{t \in wallet.lockedTxs : t \notin pool \cup TxsTo(tip)}} : Answered(gone)

CheckFails ==
    /\ Running /\ pc = "check" /\ "noAnswer" \in Faults
    /\ Answered({})

(* ... and acts on its answer *)
CancelTransactions ==
    /\ Running /\ pc = "cancel"
    /\ wallet' = RemoveCancelledTransactions(wallet, cancelled)
    /\ slips' = IF \E i \in DOMAIN wallet.locked : TxOf(wallet.locked[i].out) \in cancelled
                THEN slips \cup {"unlocked"} ELSE slips
    /\ cancelled' = {} /\ pc' = "idle"
    /\ UNCHANGED <<daemonVars, sync, batch, scan, userVars, failure>>

-----------------------------------------------------------------------------
(* sendTransactionAdvanced *)

SetSender(s, p, t, left) == sender' = [sender EXCEPT ![s] = [pc |-> p, tx |-> t, left |-> left]]

(* getTransactionInputsForAmount: transaction t is made of inputs that are
   spendable at the height the daemon has heard of in the network *)
GetTransactionInputs(s) ==
    \E t \in Own \ relayed, networkBlockCount \in {HeightOf[b] : b \in Blocks} :
        /\ sender[s].pc = "idle"
        /\ \A r \in Senders : sender[r].tx # t
        /\ Ins[t] # {} /\ Ins[t] \subseteq GetSpendableInputs(wallet, networkBlockCount)
        /\ SetSender(s, "relay", t, Ins[t])
        /\ UNCHANGED <<daemonVars, wallet, sync, scanVars, relayed, file, interruptions, failure, slips>>

(* makeTransaction, the checks of what it made, and relayTransaction: any of
   them may fail, and the answer to an accepted one may not arrive *)
RelayTransaction(s) ==
    /\ sender[s].pc = "relay"
    /\ LET t == sender[s].tx
       IN  \/ /\ sender' = [sender EXCEPT ![s] = Idle]
              /\ UNCHANGED <<pool, relayed>>
           \/ /\ DaemonAccepts(t)
              /\ pool' = pool \cup {t} /\ relayed' = relayed \cup {t}
              /\ \/ SetSender(s, "relayed", t, sender[s].left)
                 \/ "lostReply" \in Faults /\ sender' = [sender EXCEPT ![s] = Idle]
    /\ UNCHANGED <<tip, daemonCount, wallet, sync, scanVars, file, interruptions, failure, slips>>

(* addUnconfirmedTransaction; a hash is relayed once, so it is never there *)
StoreSentTransaction(s) ==
    /\ sender[s].pc = "relayed"
    /\ wallet' = [wallet EXCEPT !.lockedTxs = @ \cup {sender[s].tx}]
    /\ SetSender(s, "stored", sender[s].tx, sender[s].left)
    /\ UNCHANGED <<daemonVars, sync, scanVars, relayed, file, interruptions, failure, slips>>

StoreUnconfirmedIncomingInputs(s) ==
    /\ sender[s].pc = "stored"
    /\ wallet' = [wallet EXCEPT !.unconfirmed = @ \cup Outs[sender[s].tx]]
    /\ SetSender(s, "lock", sender[s].tx, sender[s].left)
    /\ UNCHANGED <<daemonVars, sync, scanVars, relayed, file, interruptions, failure, slips>>

(* markInputAsLocked, one input at a time; it throws at the caller *)
LockInput(s) ==
    \E o \in sender[s].left :
        /\ sender[s].pc = "lock"
        /\ IF o \in Keys(wallet.unspent)
           THEN /\ wallet' = MarkInputAsLocked(wallet, o)
                /\ IF sender[s].left = {o} THEN sender' = [sender EXCEPT ![s] = Idle]
                   ELSE SetSender(s, "lock", sender[s].tx, sender[s].left \ {o})
                /\ UNCHANGED slips
           ELSE /\ slips' = slips \cup {"notFound"}
                /\ sender' = [sender EXCEPT ![s] = Idle]
                /\ UNCHANGED wallet
        /\ UNCHANGED <<daemonVars, sync, scanVars, relayed, file, interruptions, failure>>

-----------------------------------------------------------------------------
(* WalletBackend *)

(* pauseSynchronizerToRunFunction: the rest of the batch is dropped *)
Paused ==
    /\ Running /\ pc \in {"idle", "block"}
    /\ batch' = <<>> /\ UNCHANGED <<scan, cancelled>>

Interrupted(how) ==
    /\ interruptions.save + interruptions.reset + interruptions.open < MaxInterruptions
    /\ interruptions' = [interruptions EXCEPT ![how] = @ + 1]

(* unsafeSave takes the state to write, then opens the file, which cuts it to
   nothing; or cannot open it *)
UnsafeSave(w, s) ==
    \/ file' = [cut |-> TRUE, wallet |-> w, sync |-> s] /\ pc' = "saving"
    \/ UNCHANGED file /\ pc' = "idle"

Save ==
    /\ "restart" \in Faults /\ Interrupted("save")
    /\ Paused /\ UnsafeSave(wallet, sync)
    /\ UNCHANGED <<daemonVars, wallet, sync, sender, relayed, failure, slips>>

ResetSync ==
    /\ "reset" \in Faults /\ Interrupted("reset")
    /\ wallet' = ResetWallet(wallet) /\ sync' = NewSync
    /\ Paused /\ UnsafeSave(wallet', sync')
    /\ UNCHANGED <<daemonVars, sender, relayed, failure, slips>>

(* the last byte is written, and the scanning thread starts again *)
WriteFile ==
    /\ pc = "saving"
    /\ file' = [file EXCEPT !.cut = FALSE] /\ pc' = "idle"
    /\ UNCHANGED <<daemonVars, wallet, sync, batch, scan, cancelled, sender, relayed,
                   interruptions, failure, slips>>

(* the process ends, anywhere, and openWallet reads the file; of one that is
   cut it makes NOT_A_WALLET_FILE, WALLET_FILE_CORRUPTED or WRONG_PASSWORD,
   by how much of it is there *)
OpenWallet ==
    /\ "restart" \in Faults /\ Interrupted("open")
    /\ \/ /\ ~file.cut
          /\ wallet' = ReadWallet(file.wallet) /\ sync' = file.sync /\ failure' = "none"
       \/ /\ file.cut
          /\ wallet' = EmptyWallet /\ sync' = NewSync /\ failure' = "notOpened"
    /\ batch' = <<>> /\ pc' = "idle" /\ scan' = NoScan /\ cancelled' = {}
    /\ sender' = [s \in Senders |-> Idle]
    /\ UNCHANGED <<daemonVars, relayed, file, slips>>

-----------------------------------------------------------------------------
DaemonStep == ExtendChain \/ SwitchChain \/ DropFromPool

ScanStep ==
    \/ DownloadBlocks \/ BeginBlock \/ GetGlobalIndexes \/ AddTransactions
    \/ StoreInputs \/ SpendInputs \/ FinishBlock \/ CheckLockedTransactions \/ CancelTransactions

SendStep(s) ==
    \/ RelayTransaction(s) \/ StoreSentTransaction(s)
    \/ StoreUnconfirmedIncomingInputs(s) \/ LockInput(s)

Next ==
    \/ DaemonStep \/ GetDaemonInfo \/ ScanStep \/ DownloadFails \/ CheckFails
    \/ \E s \in Senders : GetTransactionInputs(s) \/ SendStep(s)
    \/ Save \/ ResetSync \/ WriteFile \/ OpenWallet

Spec == Init /\ [][Next]_vars

(* The scanning thread, a save and Nigel's poll go on while the process
   lives, and a request that is made again and again is answered in the end;
   blocks, switches, sends and restarts need not happen. *)
ScanFairSpec ==
    /\ Spec
    /\ WF_vars(GetDaemonInfo) /\ WF_vars(ScanStep \/ WriteFile)
    /\ SF_vars(DownloadBlocks)

(* A transaction does not stay in the daemon's pool for ever: the pool cleaner
   drops it in the end (PoolDrains of CorePool). *)
FairSpec == ScanFairSpec /\ SF_vars(CheckLockedTransactions) /\ WF_vars(DropFromPool)

-----------------------------------------------------------------------------
(* Properties *)

InputRecords == [out : Outputs, height : Nat, spend : Nat]

(* The type of the state. *)
WalletTypeOK ==
    /\ tip \in Blocks /\ pool \subseteq Own /\ daemonCount \in Nat
    /\ \A f \in {wallet.unspent, wallet.locked, wallet.spent} : f \in Seq(InputRecords)
    /\ wallet.unconfirmed \subseteq Outputs /\ wallet.lockedTxs \subseteq Own
    /\ wallet.txs \subseteq [tx : Txs, height : Nat]
    /\ sync.height \in Nat /\ Len(sync.hashes) <= KnownSize
    /\ pc \in {"idle", "block", "indexes", "process", "check", "cancel", "saving"}
    /\ batch = <<>> <=> pc \in {"idle", "check", "cancel", "saving"}

(* The thread is between two rounds and the last block it stored is on the
   daemon's main chain. *)
Caught ==
    /\ pc \in {"idle", "check"} /\ sync.hashes # <<>>
    /\ Head(sync.hashes) \in ChainTo[tip]

ScannedTxs ==
    UNION {TxsOf[b] : b \in {c \in ChainTo[Head(sync.hashes)] : HeightOf[c] >= StartHeight}}
Received == UNION {Outs[t] : t \in ScannedTxs}
Held     == Keys(wallet.unspent) \cup Keys(wallet.locked) \cup Keys(wallet.spent)

(* Every output the scanned chain pays to the wallet is in one of its three
   lists of inputs, whatever branches came before it (removeForkedInputs and
   the rescan put back what a fork took away): as long as no fork dropped a
   locked input and no block was passed over. *)
NothingLost == (slips \cap {"gap", "locked"} = {} /\ Caught) => Received \subseteq Held

(* The lists of inputs are what the scanned chain says, whatever branches
   came before it: they hold the outputs it pays and no other, each once, so
   that balances add up, and the spent ones are those it spends.  This is
   about a wallet without such a loss, and not reset: a reset leaves the
   inputs found before it in place. *)
InputsExact ==
    (slips \cap Losses = {} /\ interruptions.reset = 0) =>
        LET all == wallet.unspent \o wallet.locked \o wallet.spent
        IN  /\ \A i, j \in DOMAIN all : all[i].out = all[j].out => i = j
            /\ Caught =>
                  /\ Held = Received
                  /\ Keys(wallet.spent) = {o \in Held : \E t \in ScannedTxs : o \in Ins[t]}

(* A send that returned has its transaction recorded as unconfirmed and its
   inputs taken off the offer, although they are locked one call at a time
   after the relay: while the record stands no other send can pick one of
   them.  A send whose reply was lost records nothing, and its inputs stay on
   offer; one that finds an input gone throws at its caller with the rest
   unlocked; and a reset or a fork finds the inputs again.  This is about the
   sends of a wallet in which none of these happened. *)
InFlightNotOffered ==
    (slips = {} /\ interruptions.reset = 0) =>
        \A t \in wallet.lockedTxs :
            (\A s \in Senders : sender[s].tx # t) => Ins[t] \cap Keys(wallet.unspent) = {}

(* The scan waits for the daemon: its chain is lower than the one that was
   scanned, or holds none of the hashes the wallet offers. *)
Waiting ==
    LET offered == GetBlockHashCheckpoints(sync)
    IN  \/ HeightOf[tip] < sync.height
        \/ sync.hashes # <<>> /\ \A i \in DOMAIN offered : offered[i] \notin ChainTo[tip]

(* Once the daemon's chain stands still the scan ends at its tip, unless it
   was ended by an exception (missedBlocks, addedTwice) or waits. *)
SyncSettles ==
    <>[](~Running \/ Waiting \/ (sync.hashes # <<>> /\ Head(sync.hashes) = tip))

(* A transaction that was sent does not stay unconfirmed for ever, unless the
   scan was ended or waits: it is seen in a block or cancelled. *)
SentSettles ==
    \A t \in Own :
        []<>(\/ ~Running \/ Waiting \/ t \notin wallet.lockedTxs
             \/ sync.hashes # <<>> /\ t \in ScannedTxs)

(* removeCancelledTransactions puts the inputs of a cancelled transaction back
   among the unspent ones. *)
CancelledInputsReturn ==
    Caught => \A t \in relayed \ (ScannedTxs \cup wallet.lockedTxs) :
                  (\A s \in Senders : sender[s].tx # t) => Ins[t] \cap Keys(wallet.locked) = {}
=============================================================================
