-------------------------- MODULE WalletListProofs --------------------------
(***************************************************************************)
(* Proofs about the wallet's inputs, for every block tree, number of       *)
(* senders and pattern of switches, saves, kills, lost replies and         *)
(* transactions dropped from the pool: the lists of inputs are what the    *)
(* scanned chain says until a slip is recorded, and a send that returned   *)
(* has left none of its inputs on offer while its transaction is recorded  *)
(* as unconfirmed, up to the first reset and the first slip.               *)
(***************************************************************************)
EXTENDS WalletSyncProofs

(* What the lists say of a set of scanned blocks *)

\* A transaction of block c spends o.
Spends(c, o) == \E t \in TxsOf[c] : o \in Ins[t]

\* What the blocks S pay is in a list, at its height; but for outs, which are
\* still to be stored.
Holds(w, S, outs) ==
    \A c \in S : \A o \in OutputsOf(c) \ outs :
        \E r \in All(w) : r.out = o /\ r.height = HeightOf[c]

\* The lists hold nothing else, the spent inputs are spent in S, and the open
\* ones are not; but for due, which are still to be marked.
Paid(w, S, outs) ==
    \A r \in All(w) : \E c \in S : r.out \in OutputsOf(c) \ outs /\ r.height = HeightOf[c]
Marked(w, S)     == \A r \in Entries(w.spent) : \E c \in S : Spends(c, r.out) /\ r.spend = HeightOf[c]
Open(w, S, due)  == \A c \in S : \A o \in OpenOf(w) : Spends(c, o) => o \in due

Exact(w, S, outs, due) == Apart(w) /\ Paid(w, S, outs) /\ Marked(w, S) /\ Open(w, S, due)

\* Blocks of one chain.
OneLine(S) == S \subseteq Blocks /\ \A c, d \in S : c \in ChainTo[d] \/ d \in ChainTo[c]

\* On one chain an output is paid by one block, spent by one block, and spent
\* above the block that pays it.
LEMMA LineFacts ==
    ASSUME NEW S, OneLine(S)
    PROVE  /\ \A c, d \in S : \A o \in OutputsOf(c) : o \in OutputsOf(d) => c = d
           /\ \A c, d \in S : \A o \in OutputsOf(c) : Spends(d, o) => HeightOf[c] < HeightOf[d]
           /\ \A c, d \in S : \A o : Spends(c, o) /\ Spends(d, o) => c = d
<1>1. S \subseteq Blocks /\ \A c, d \in S : c \in ChainTo[d] \/ d \in ChainTo[c] BY DEF OneLine
<1>2. \A b \in Blocks : TxsOf[b] \subseteq Txs BY BlockTxs
<1>3. ASSUME NEW b \in Blocks, NEW c \in ChainTo[b]
      PROVE  /\ c # b => TxsOf[c] \cap TxsOf[b] = {}
             /\ \A o \in OutputsOf(b) : ~Spends(c, o)
             /\ \A o : Spends(c, o) /\ Spends(b, o) => c = b
  <2>1. /\ c # b => TxsOf[c] \cap TxsOf[b] = {}
        /\ \A t \in TxsOf[c] : Ins[t] \cap OutputsOf(b) = {}
        /\ \A t \in TxsOf[c], u \in TxsOf[b] : t # u => Ins[t] \cap Ins[u] = {}
    BY Zenon, ChainAssumption
  <2> QED BY Zenon, <2>1 DEF Spends
<1>4. ASSUME NEW c \in Blocks, NEW d \in Blocks, TxsOf[c] \cap TxsOf[d] = {}, NEW o \in OutputsOf(c)
      PROVE  o \notin OutputsOf(d)
  <2>1. \A t, u \in Txs : t # u => Outs[t] \cap Outs[u] = {} BY Zenon, ChainAssumption
  <2>2. PICK t \in TxsOf[c] : o \in Outs[t] BY Zenon DEF OutputsOf
  <2>3. ASSUME NEW u \in TxsOf[d], o \in Outs[u] PROVE FALSE
    BY Zenon, <1>2, <1>4, <2>1, <2>2, <2>3
  <2> QED BY Zenon, <2>3 DEF OutputsOf
<1>5. ASSUME NEW c \in S, NEW d \in S, NEW o \in OutputsOf(c), o \in OutputsOf(d) PROVE c = d
  <2>1. c \in Blocks /\ d \in Blocks /\ (c \in ChainTo[d] \/ d \in ChainTo[c]) BY Zenon, <1>1
  <2>2. c # d => TxsOf[c] \cap TxsOf[d] = {} BY Zenon, <1>3, <2>1
  <2> QED BY Zenon, <1>4, <1>5, <2>1, <2>2
<1>6. ASSUME NEW c \in S, NEW d \in S, NEW o \in OutputsOf(c), Spends(d, o)
      PROVE  HeightOf[c] < HeightOf[d]
  <2>1. c \in Blocks /\ d \in Blocks /\ (c \in ChainTo[d] \/ d \in ChainTo[c]) BY Zenon, <1>1
  <2>2. d \notin ChainTo[c] BY Zenon, <1>3, <1>6, <2>1
  <2>3. c \in ChainTo[d] BY <2>1, <2>2
  <2>4. HeightOf[c] <= HeightOf[d] /\ c # d
    <3>1. ChainShape(c) /\ ChainShape(d) BY <2>1, ChainShapes
    <3> QED BY <2>2, <2>3, <3>1 DEF ChainShape
  <2>5. HeightOf[c] # HeightOf[d]
    <3>1. ChainShape(d) BY <2>1, ChainShapes
    <3> QED BY <2>3, <2>4, <3>1 DEF ChainShape
  <2>6. HeightOf[c] \in Nat /\ HeightOf[d] \in Nat BY <2>1, Heights
  <2> QED BY <2>4, <2>5, <2>6
<1>7. ASSUME NEW c \in S, NEW d \in S, NEW o, Spends(c, o), Spends(d, o) PROVE c = d
  BY Zenon, <1>1, <1>3, <1>7
<1> QED BY Zenon, <1>5, <1>6, <1>7

\* Inputs that move between the lists still say what they said.
LEMMA HoldsMoves ==
    ASSUME NEW w, NEW v, NEW S, NEW outs, Carried(w, v), Holds(w, S, outs)
    PROVE  Holds(v, S, outs)
<1> SUFFICES ASSUME NEW c \in S, NEW o \in OutputsOf(c) \ outs
             PROVE  \E x \in All(v) : x.out = o /\ x.height = HeightOf[c]
  BY Zenon DEF Holds
<1>1. PICK r \in All(w) : r.out = o /\ r.height = HeightOf[c] BY Zenon DEF Holds
<1> QED BY Zenon, <1>1 DEF Carried

\* So do those that came from elsewhere,
LEMMA PaidMoves ==
    ASSUME NEW w, NEW v, NEW S, NEW outs, Carried(v, w), Paid(w, S, outs)
    PROVE  Paid(v, S, outs)
<1> SUFFICES ASSUME NEW x \in All(v)
             PROVE  \E c \in S : x.out \in OutputsOf(c) \ outs /\ x.height = HeightOf[c]
  BY Zenon DEF Paid
<1>1. PICK r \in All(w) : r.out = x.out /\ r.height = x.height BY Zenon DEF Carried
<1>2. PICK c \in S : r.out \in OutputsOf(c) \ outs /\ r.height = HeightOf[c] BY Zenon DEF Paid
<1> QED BY Zenon, <1>1, <1>2

\* and the lists are still exact.
LEMMA ExactMoves ==
    ASSUME NEW w, NEW v, NEW S, NEW outs, NEW due, Carried(v, w), v.spent = w.spent,
           OpenOf(v) \subseteq OpenOf(w), Apart(v), Exact(w, S, outs, due)
    PROVE  Exact(v, S, outs, due)
<1>1. Paid(v, S, outs) BY Zenon, PaidMoves DEF Exact
<1>2. Marked(v, S) BY Zenon DEF Exact, Marked
<1>3. Open(v, S, due) BY Zenon DEF Exact, Open
<1> QED BY Zenon, <1>1, <1>2, <1>3 DEF Exact

\* A fork that drops no locked input below it loses nothing of the blocks below.
LEMMA HoldsFork ==
    ASSUME NEW w \in WalletRecords, NEW fork \in Nat, NEW v, Rolled(w, fork, v), NEW S, Holds(w, S, {}),
           \A r \in Entries(w.locked) : ~(r.height < fork)
    PROVE  Holds(v, {c \in S : HeightOf[c] < fork}, {})
<1> SUFFICES ASSUME NEW c \in S, HeightOf[c] < fork, NEW o \in OutputsOf(c)
             PROVE  \E x \in All(v) : x.out = o /\ x.height = HeightOf[c]
  BY Zenon DEF Holds
<1>1. PICK r \in All(w) : r.out = o /\ r.height = HeightOf[c] BY Zenon DEF Holds
<1>2. CASE r \in Entries(w.unspent)
  <2>1. r \in Entries(v.unspent) BY Zenon, <1>1, <1>2 DEF Rolled
  <2> QED BY Zenon, <1>1, <2>1 DEF All
<1>3. CASE r \in Entries(w.locked) BY Zenon, <1>1, <1>3
<1>4. CASE r \in Entries(w.spent)
  <2>1. CASE r.spend >= fork
    <3>1. PICK x \in Entries(v.unspent) : x.out = r.out /\ x.height = r.height
      BY Zenon, <1>4, <2>1 DEF Rolled
    <3> QED BY Zenon, <1>1, <3>1 DEF All
  <2>2. CASE ~(r.spend >= fork)
    <3>1. r \in Entries(v.spent) BY Zenon, <1>4, <2>2 DEF Rolled
    <3> QED BY Zenon, <1>1, <3>1 DEF All
  <2> QED BY <2>1, <2>2
<1> QED BY Zenon, <1>1, <1>2, <1>3, <1>4 DEF All

\* One that makes no input unspent that was paid above it leaves exactly what
\* the blocks below say.
LEMMA ExactFork ==
    ASSUME NEW w \in WalletRecords, NEW fork \in Nat, NEW v, Rolled(w, fork, v), NEW S, OneLine(S),
           Exact(w, S, {}, {}),
           \A r \in Entries(w.spent) : r.spend >= fork => ~(r.height >= fork)
    PROVE  Exact(v, {c \in S : HeightOf[c] < fork}, {}, {})
<1> DEFINE T == {c \in S : HeightOf[c] < fork}
<1>0. /\ \A r \in All(w) : \E c \in S : r.out \in OutputsOf(c) /\ r.height = HeightOf[c]
      /\ \A r \in Entries(w.spent) : \E c \in S : Spends(c, r.out) /\ r.spend = HeightOf[c]
      /\ \A c \in S : \A o \in OpenOf(w) : ~Spends(c, o)
      /\ Apart(w)
  BY Zenon DEF Exact, Paid, Marked, Open
<1>1. Apart(v) BY Zenon, <1>0 DEF Rolled
<1>2. \A c \in S : HeightOf[c] \in Nat BY Zenon, Heights DEF OneLine
<1>3. /\ \A c, d \in S : \A o \in OutputsOf(c) : Spends(d, o) => HeightOf[c] < HeightOf[d]
      /\ \A c, d \in S : \A o : Spends(c, o) /\ Spends(d, o) => c = d
  BY Zenon, LineFacts
<1>e. Entries(<<>>) = {} BY DEF Entries
<1>4. ASSUME NEW x \in All(v) PROVE \E c \in T : x.out \in OutputsOf(c) \ {} /\ x.height = HeightOf[c]
  <2>1. \/ \E r \in Entries(w.unspent) : r.height < fork /\ x = r
        \/ \E r \in Entries(w.spent) : r.spend >= fork /\ x.out = r.out /\ x.height = r.height
        \/ x \in Entries(w.spent) /\ ~(x.spend >= fork)
    BY Zenon, <1>e DEF Rolled, All
  <2>2. CASE \E r \in Entries(w.unspent) : r.height < fork /\ x = r
    <3>1. x \in All(w) /\ x.height < fork BY Zenon, <2>2 DEF All
    <3>2. PICK c \in S : x.out \in OutputsOf(c) /\ x.height = HeightOf[c] BY Zenon, <1>0, <3>1
    <3> QED BY Zenon, <3>1, <3>2
  <2>3. CASE \E r \in Entries(w.spent) : r.spend >= fork /\ x.out = r.out /\ x.height = r.height
    <3>1. PICK r \in Entries(w.spent) : r.spend >= fork /\ x.out = r.out /\ x.height = r.height
      BY Zenon, <2>3
    <3>2. r \in All(w) /\ ~(r.height >= fork) BY Zenon, <3>1 DEF All
    <3>3. PICK c \in S : r.out \in OutputsOf(c) /\ r.height = HeightOf[c] BY Zenon, <1>0, <3>2
    <3>4. HeightOf[c] < fork
      <4>1. HeightOf[c] \in Nat /\ ~(HeightOf[c] >= fork) BY Zenon, <1>2, <3>2, <3>3
      <4> QED BY <4>1
    <3> QED BY Zenon, <3>1, <3>3, <3>4
  <2>4. CASE x \in Entries(w.spent) /\ ~(x.spend >= fork)
    <3>1. PICK d \in S : Spends(d, x.out) /\ x.spend = HeightOf[d] BY Zenon, <1>0, <2>4
    <3>2. x \in All(w) BY Zenon, <2>4 DEF All
    <3>3. PICK c \in S : x.out \in OutputsOf(c) /\ x.height = HeightOf[c] BY Zenon, <1>0, <3>2
    <3>4. HeightOf[c] < HeightOf[d] BY Zenon, <1>3, <3>1, <3>3
    <3>5. HeightOf[c] < fork
      <4>1. HeightOf[c] \in Nat /\ HeightOf[d] \in Nat /\ ~(HeightOf[d] >= fork)
        BY Zenon, <1>2, <2>4, <3>1
      <4> QED BY <3>4, <4>1
    <3> QED BY Zenon, <3>3, <3>5
  <2> QED BY Zenon, <2>1, <2>2, <2>3, <2>4
<1>5. ASSUME NEW r \in Entries(v.spent) PROVE \E c \in T : Spends(c, r.out) /\ r.spend = HeightOf[c]
  <2>1. r \in Entries(w.spent) /\ ~(r.spend >= fork) BY Zenon DEF Rolled
  <2>2. PICK c \in S : Spends(c, r.out) /\ r.spend = HeightOf[c] BY Zenon, <1>0, <2>1
  <2>3. HeightOf[c] < fork
    <3>1. HeightOf[c] \in Nat /\ ~(HeightOf[c] >= fork) BY Zenon, <1>2, <2>1, <2>2
    <3> QED BY <3>1
  <2> QED BY Zenon, <2>2, <2>3
<1>6. ASSUME NEW c \in T, NEW o \in OpenOf(v), Spends(c, o) PROVE FALSE
  <2>1. PICK x \in Entries(v.unspent) : x.out = o
    <3>1. Entries(v.locked) = {} BY Zenon, <1>e DEF Rolled
    <3>2. \E r \in Entries(v.unspent) \cup Entries(v.locked) : r.out = o BY Zenon, KeysOf
    <3> QED BY Zenon, <3>1, <3>2
  <2>2. CASE x \in Entries(w.unspent)
    <3>1. o \in OpenOf(w) BY Zenon, <2>1, <2>2, KeysOf
    <3> QED BY Zenon, <1>0, <1>6, <3>1
  <2>3. CASE \E r \in Entries(w.spent) : r.spend >= fork /\ x.out = r.out /\ x.height = r.height
    <3>1. PICK r \in Entries(w.spent) : r.spend >= fork /\ r.out = o BY Zenon, <2>1, <2>3
    <3>2. PICK d \in S : Spends(d, o) /\ r.spend = HeightOf[d] BY Zenon, <1>0, <3>1
    <3>3. c = d BY Zenon, <1>3, <1>6, <3>2
    <3>4. HeightOf[c] \in Nat /\ HeightOf[c] < fork /\ HeightOf[c] >= fork
      BY Zenon, <1>2, <3>1, <3>2, <3>3
    <3> QED BY <3>4
  <2> QED BY Zenon, <2>1, <2>2, <2>3 DEF Rolled
<1>7. Paid(v, T, {}) BY Zenon, <1>4 DEF Paid
<1>8. Marked(v, T) BY Zenon, <1>5 DEF Marked
<1>9. Open(v, T, {}) BY Zenon, <1>6 DEF Open
<1> QED BY Zenon, <1>1, <1>7, <1>8, <1>9 DEF Exact

\* A block b on top of S is taken up: its outputs are to be stored, and the
\* open inputs that it spends to be marked.
LEMMA ExactTakeUp ==
    ASSUME NEW w, NEW S, NEW b, OneLine(S \cup {b}), b \notin S, Exact(w, S, {}, {}),
           NEW due, due = {o \in OpenOf(w) : Spends(b, o)}
    PROVE  Exact(w, S \cup {b}, OutputsOf(b), due)
<1>0. /\ \A r \in All(w) : \E c \in S : r.out \in OutputsOf(c) /\ r.height = HeightOf[c]
      /\ \A r \in Entries(w.spent) : \E c \in S : Spends(c, r.out) /\ r.spend = HeightOf[c]
      /\ \A c \in S : \A o \in OpenOf(w) : ~Spends(c, o)
      /\ Apart(w)
  BY Zenon DEF Exact, Paid, Marked, Open
<1>1. \A c \in S : \A o \in OutputsOf(c) : o \notin OutputsOf(b)
  <2>1. \A c, d \in S \cup {b} : \A o \in OutputsOf(c) : o \in OutputsOf(d) => c = d
    BY Zenon, LineFacts
  <2> QED BY Zenon, <2>1
<1>2. Paid(w, S \cup {b}, OutputsOf(b)) BY Zenon, <1>0, <1>1 DEF Paid
<1>3. Marked(w, S \cup {b}) BY Zenon, <1>0 DEF Marked
<1>4. Open(w, S \cup {b}, due) BY Zenon, <1>0 DEF Open
<1> QED BY Zenon, <1>0, <1>2, <1>3, <1>4 DEF Exact

\* Nothing is lost by that.
LEMMA HoldsTakeUp ==
    ASSUME NEW w, NEW S, NEW b, Holds(w, S, {})
    PROVE  Holds(w, S \cup {b}, OutputsOf(b))
BY Zenon DEF Holds

\* What storeTransactionInput adds to the lists.
LEMMA StoreEntries ==
    ASSUME NEW w \in WalletRecords, NEW o \in Outputs, NEW h \in Nat,
           NEW v, v = StoreTransactionInput(w, o, h)
    PROVE  /\ All(v) = All(w) \cup {NewInput(o, h)} /\ v.spent = w.spent
           /\ NewInput(o, h).out = o /\ NewInput(o, h).height = h
<1>1. NewInput(o, h) \in InputRecords /\ NewInput(o, h).out = o /\ NewInput(o, h).height = h
  BY DEF NewInput, InputRecords
<1>2. /\ v.unspent = Append(w.unspent, NewInput(o, h)) /\ v.locked = w.locked /\ v.spent = w.spent
  BY DEF StoreTransactionInput, WalletRecords
<1>3. Entries(Append(w.unspent, NewInput(o, h))) = Entries(w.unspent) \cup {NewInput(o, h)}
  BY <1>1, AppendIs, WalletFields
<1> QED BY Zenon, <1>1, <1>2, <1>3 DEF All

\* One of the outputs of the block is stored: nothing is lost,
LEMMA HoldsStore ==
    ASSUME NEW w \in WalletRecords, NEW S, NEW b \in S, OneLine(S), NEW outs \in SUBSET OutputsOf(b),
           NEW o \in outs, NEW v, v = StoreTransactionInput(w, o, HeightOf[b]), Holds(w, S, outs)
    PROVE  Holds(v, S, outs \ {o})
<1>0. b \in Blocks /\ HeightOf[b] \in Nat /\ o \in Outputs BY Heights, OutputsOfIs DEF OneLine
<1>1. /\ All(v) = All(w) \cup {NewInput(o, HeightOf[b])}
      /\ NewInput(o, HeightOf[b]).out = o /\ NewInput(o, HeightOf[b]).height = HeightOf[b]
  BY <1>0, StoreEntries
<1> SUFFICES ASSUME NEW c \in S, NEW y \in OutputsOf(c) \ (outs \ {o})
             PROVE  \E r \in All(v) : r.out = y /\ r.height = HeightOf[c]
  BY Zenon DEF Holds
<1>2. CASE y = o
  <2>1. c = b BY Zenon, <1>2, LineFacts
  <2> QED BY Zenon, <1>1, <1>2, <2>1
<1>3. CASE y # o
  <2>1. y \in OutputsOf(c) \ outs BY Zenon, <1>3
  <2>2. PICK r \in All(w) : r.out = y /\ r.height = HeightOf[c] BY Zenon, <2>1 DEF Holds
  <2> QED BY Zenon, <1>1, <2>2
<1> QED BY <1>2, <1>3

\* and the lists are as exact as before.
LEMMA ExactStore ==
    ASSUME NEW w \in WalletRecords, NEW S, NEW b \in S, OneLine(S), NEW outs \in SUBSET OutputsOf(b),
           \A c \in S : HeightOf[c] <= HeightOf[b],
           NEW o \in outs, NEW v, v = StoreTransactionInput(w, o, HeightOf[b]),
           NEW due, Exact(w, S, outs, due)
    PROVE  Exact(v, S, outs \ {o}, due)
<1>0. b \in Blocks /\ HeightOf[b] \in Nat /\ o \in Outputs BY Heights, OutputsOfIs DEF OneLine
<1>1. /\ All(v) = All(w) \cup {NewInput(o, HeightOf[b])} /\ v.spent = w.spent
      /\ NewInput(o, HeightOf[b]).out = o /\ NewInput(o, HeightOf[b]).height = HeightOf[b]
  BY <1>0, StoreEntries
<1>2. Stored(w, o, v) BY Zenon, <1>0, StoreSays
<1>3. o \notin HeldOf(w)
  <2>1. ASSUME NEW r \in All(w), r.out = o PROVE FALSE
    BY Zenon, <2>1 DEF Exact, Paid
  <2> QED BY Zenon, <2>1, KeysOf
<1>4. Apart(v) BY Zenon, <1>2, <1>3 DEF Stored, Exact
<1>5. Paid(v, S, outs \ {o})
  <2> SUFFICES ASSUME NEW x \in All(v)
               PROVE  \E c \in S : x.out \in OutputsOf(c) \ (outs \ {o}) /\ x.height = HeightOf[c]
    BY Zenon DEF Paid
  <2>1. CASE x \in All(w)
    <3>1. PICK c \in S : x.out \in OutputsOf(c) \ outs /\ x.height = HeightOf[c]
      BY Zenon, <2>1 DEF Exact, Paid
    <3> QED BY Zenon, <3>1
  <2>2. CASE x = NewInput(o, HeightOf[b])
    <3>1. o \in OutputsOf(b) \ (outs \ {o}) BY Zenon
    <3> QED BY Zenon, <1>1, <2>2, <3>1
  <2> QED BY Zenon, <1>1, <2>1, <2>2
<1>6. Marked(v, S) BY Zenon, <1>1 DEF Exact, Marked
<1>7. Open(v, S, due)
  <2> SUFFICES ASSUME NEW c \in S, NEW y \in OpenOf(v), Spends(c, y) PROVE y \in due
    BY Zenon DEF Open
  <2>1. y \in OpenOf(w) \/ y = o BY Zenon, <1>2 DEF Stored, OpenOf
  <2>2. CASE y \in OpenOf(w) BY Zenon, <2>2 DEF Exact, Open
  <2>3. CASE y = o
    <3>1. HeightOf[b] < HeightOf[c] BY Zenon, <2>3, LineFacts
    <3>2. HeightOf[c] <= HeightOf[b] /\ HeightOf[c] \in Nat BY Zenon, Heights DEF OneLine
    <3> QED BY <1>0, <3>1, <3>2
  <2> QED BY <2>1, <2>2, <2>3
<1> QED BY Zenon, <1>4, <1>5, <1>6, <1>7 DEF Exact

\* One of the inputs that it spends is marked.
LEMMA ExactSpend ==
    ASSUME NEW w \in WalletRecords, NEW S, NEW b \in S, NEW h \in Nat, h = HeightOf[b],
           NEW o \in OpenOf(w), Spends(b, o),
           NEW v, v = MarkInputAsSpent(w, o, h), NEW outs, NEW due, Exact(w, S, outs, due)
    PROVE  Exact(v, S, outs, due \ {o})
<1>a. OpenOf(v) \subseteq OpenOf(w) BY SpendIs
<1>b. Apart(w) => Apart(v) /\ o \notin OpenOf(v) BY SpendIs
<1>c. Carried(v, w) BY SpendIs
<1>1. \A r \in Entries(v.spent) : r \in Entries(w.spent) \/ (r.out = o /\ r.spend = h) BY SpendIs
<1>2. Apart(v) /\ o \notin OpenOf(v) BY Zenon, <1>b DEF Exact
<1>3. Paid(v, S, outs) BY Zenon, <1>c, PaidMoves DEF Exact
<1>4. Marked(v, S) BY Zenon, <1>1 DEF Exact, Marked
<1>5. Open(v, S, due \ {o}) BY Zenon, <1>a, <1>2 DEF Exact, Open
<1> QED BY Zenon, <1>2, <1>3, <1>4, <1>5 DEF Exact
-----------------------------------------------------------------------------
(* The invariant *)

\* The blocks that were scanned when the status is s, and those of them that
\* stay when the scan goes on with b.
ScanOf(s) ==
    IF s.hashes = <<>> THEN {} ELSE {c \in ChainTo[Head(s.hashes)] : HeightOf[c] >= StartHeight}
Kept(s, b) == {c \in ScanOf(s) : HeightOf[c] < HeightOf[b]}

\* Block b continues the chain that was scanned when the status is s.
FollowsIn(s, b) ==
    \/ HeightOf[b] = StartHeight
    \/ s.hashes # <<>> /\ Parent[b] # b /\ Parent[b] \in ChainTo[Head(s.hashes)]

\* The height of the status is that of the newest hash.
SyncOk(s) == s.hashes # <<>> => HeightOf[Head(s.hashes)] = s.height

\* The scanned blocks are on one chain.
LEMMA ScanLine ==
    ASSUME NEW s \in SyncRecords
    PROVE  OneLine(ScanOf(s)) /\ \A b : OneLine(Kept(s, b))
<1>1. CASE s.hashes = <<>> BY Zenon, <1>1 DEF ScanOf, Kept, OneLine
<1>2. CASE s.hashes # <<>>
  <2> DEFINE x == Head(s.hashes)
  <2>1. x \in Blocks BY <1>2 DEF SyncRecords
  <2> HIDE DEF x
  <2>2. ChainShape(x) BY <2>1, ChainShapes
  <2>3. \A c, d \in ChainTo[x] : c \in ChainTo[d] \/ d \in ChainTo[c]
    <3>1. \A c \in ChainTo[x] : HeightOf[c] \in Nat BY <2>2, Heights DEF ChainShape
    <3>2. \A c, d \in ChainTo[x] : HeightOf[c] <= HeightOf[d] \/ HeightOf[d] <= HeightOf[c] BY <3>1
    <3>3. \A c \in ChainTo[x] : ChainTo[c] = {d \in ChainTo[x] : HeightOf[d] <= HeightOf[c]}
      BY <2>2 DEF ChainShape
    <3> QED BY Zenon, <3>2, <3>3
  <2>4. ChainTo[x] \subseteq Blocks BY <2>2 DEF ChainShape
  <2>5. ScanOf(s) \subseteq ChainTo[x] BY Zenon, <1>2 DEF ScanOf, x
  <2>6. \A b : Kept(s, b) \subseteq ChainTo[x] BY Zenon, <2>5 DEF Kept
  <2> QED BY Zenon, <2>3, <2>4, <2>5, <2>6 DEF OneLine
<1> QED BY <1>1, <1>2

\* A block that follows is on that chain with those that stay, above them, and
\* with them makes up what is scanned once its hash is stored.
LEMMA FollowLine ==
    ASSUME NEW s \in SyncRecords, NEW b \in Blocks, FollowsIn(s, b), HeightOf[b] >= StartHeight
    PROVE  /\ OneLine(Kept(s, b) \cup {b}) /\ b \notin Kept(s, b)
           /\ \A c \in Kept(s, b) \cup {b} : HeightOf[c] <= HeightOf[b]
           /\ Kept(s, b) \cup {b} = {c \in ChainTo[b] : HeightOf[c] >= StartHeight}
<1>0. ChainShape(b) /\ HeightOf[b] \in Nat /\ StartHeight \in Nat BY ChainShapes, Heights, Starts
<1>1. \A c \in ChainTo[b] : HeightOf[c] \in Nat /\ HeightOf[c] <= HeightOf[b]
  BY <1>0, Heights DEF ChainShape
<1>2. ASSUME NEW c
      PROVE  c \in Kept(s, b) <=> c \in ChainTo[b] /\ c # b /\ HeightOf[c] >= StartHeight
  <2>1. c \in ChainTo[b] /\ c # b => HeightOf[c] < HeightOf[b]
    <3>1. c \in ChainTo[b] /\ c # b => HeightOf[c] # HeightOf[b] BY <1>0 DEF ChainShape
    <3> QED BY <1>0, <1>1, <3>1
  <2>2. CASE HeightOf[b] = StartHeight
    <3>1. c \notin Kept(s, b)
      <4>1. c \in ScanOf(s) => HeightOf[c] \in Nat /\ HeightOf[c] >= StartHeight
        <5>1. OneLine(ScanOf(s)) BY ScanLine
        <5>2. c \in ScanOf(s) => HeightOf[c] \in Nat BY Zenon, <5>1, Heights DEF OneLine
        <5>3. c \in ScanOf(s) => HeightOf[c] >= StartHeight BY Zenon DEF ScanOf
        <5> QED BY <5>2, <5>3
      <4>2. c \in ScanOf(s) => ~(HeightOf[c] < HeightOf[b]) BY <1>0, <2>2, <4>1
      <4> QED BY Zenon, <4>2 DEF Kept
    <3>2. ~(c \in ChainTo[b] /\ c # b /\ HeightOf[c] >= StartHeight) BY <1>0, <1>1, <2>1, <2>2
    <3> QED BY <3>1, <3>2
  <2>3. CASE HeightOf[b] # StartHeight
    <3> DEFINE x == Head(s.hashes)
               p == Parent[b]
    <3>1. s.hashes # <<>> /\ p # b /\ p \in ChainTo[x] BY Zenon, <2>3 DEF FollowsIn
    <3>2. x \in Blocks BY <3>1 DEF SyncRecords
    <3>3. p \in Blocks /\ HeightOf[b] = HeightOf[p] + 1 /\ HeightOf[p] \in Nat
      BY <3>1, WalletAssumption
    <3>4. ChainTo[b] = {b} \cup ChainTo[p] BY <3>1, ChainToStep
    <3>5. c \in Kept(s, b) <=> c \in ChainTo[x] /\ HeightOf[c] >= StartHeight /\ HeightOf[c] < HeightOf[b]
      BY Zenon, <3>1 DEF Kept, ScanOf
    <3> HIDE DEF x, p
    <3>6. /\ ChainTo[p] = {d \in ChainTo[x] : HeightOf[d] <= HeightOf[p]}
          /\ \A d \in ChainTo[x] : HeightOf[d] \in Nat
      <4>1. ChainShape(x) BY <3>2, ChainShapes
      <4> QED BY <3>1, <4>1, Heights DEF ChainShape
    <3>7. c \in ChainTo[x] => (HeightOf[c] <= HeightOf[p] <=> HeightOf[c] < HeightOf[b])
      BY <3>3, <3>6
    <3>8. b \notin ChainTo[p]
      <4>1. b \in ChainTo[p] => HeightOf[b] <= HeightOf[p] BY <3>6
      <4> QED BY <3>3, <4>1
    <3> QED BY Zenon, <3>4, <3>5, <3>6, <3>7, <3>8
  <2> QED BY <2>2, <2>3
<1>3. b \in ChainTo[b] BY <1>0 DEF ChainShape
<1>4. Kept(s, b) \cup {b} = {c \in ChainTo[b] : HeightOf[c] >= StartHeight} BY Zenon, <1>2, <1>3
<1>5. OneLine(Kept(s, b) \cup {b})
  <2>1. OneLine(Kept(s, b)) BY ScanLine
  <2>2. \A c \in Kept(s, b) : c \in ChainTo[b] BY Zenon, <1>2
  <2> QED BY Zenon, <1>3, <2>1, <2>2 DEF OneLine
<1>6. b \notin Kept(s, b) BY Zenon, <1>2
<1>7. \A c \in Kept(s, b) \cup {b} : HeightOf[c] <= HeightOf[b] BY Zenon, <1>1, <1>4
<1> QED BY <1>4, <1>5, <1>6, <1>7

\* A block that is no fork leaves all the scanned blocks.
LEMMA NoFork ==
    ASSUME NEW s \in SyncRecords, SyncOk(s), NEW b \in Blocks, ~(s.height >= HeightOf[b])
    PROVE  Kept(s, b) = ScanOf(s)
<1>1. CASE s.hashes = <<>> BY Zenon, <1>1 DEF Kept, ScanOf
<1>2. CASE s.hashes # <<>>
  <2> DEFINE x == Head(s.hashes)
  <2>1. x \in Blocks /\ s.height = HeightOf[x] BY <1>2 DEF SyncRecords, SyncOk
  <2>2. ScanOf(s) \subseteq ChainTo[x] BY Zenon, <1>2 DEF ScanOf
  <2> HIDE DEF x
  <2>3. HeightOf[x] \in Nat /\ HeightOf[b] \in Nat BY <2>1, Heights
  <2>4. \A c \in ChainTo[x] : HeightOf[c] \in Nat /\ HeightOf[c] <= HeightOf[x]
    <3>1. ChainShape(x) BY <2>1, ChainShapes
    <3> QED BY <3>1, Heights DEF ChainShape
  <2>5. \A c \in ChainTo[x] : HeightOf[c] < HeightOf[b] BY <2>1, <2>3, <2>4
  <2> QED BY Zenon, <2>2, <2>5 DEF Kept
<1> QED BY <1>1, <1>2

\* The premises of NothingLost and InputsExact.
Lossless == slips \cap {"gap", "locked"} = {}
Fresh    == slips \cap Losses = {} /\ interruptions.reset = 0

\* The scanning thread is not in a block.
Between == {"idle", "block", "check", "cancel", "saving"}

\* The blocks that the lists speak of when no block is being processed, and
\* when one is.
Here == IF pc = "indexes" THEN Kept(sync, Head(batch)) ELSE ScanOf(sync)
Hand == Kept(sync, Head(batch)) \cup {Head(batch)}

PlaceInv == SyncOk(sync) /\ SyncOk(file.sync) /\ High(batch)

RestInv ==
    pc # "process" =>
        /\ Lossless => Holds(wallet, Here, {})
        /\ Fresh => Exact(wallet, Here, {}, {})

HandInv ==
    pc = "process" =>
        /\ scan.outs \subseteq OutputsOf(Head(batch))
        /\ \A o \in scan.spend : Spends(Head(batch), o)
        /\ Lossless => FollowsIn(sync, Head(batch)) /\ Holds(wallet, Hand, scan.outs)
        /\ Fresh => Exact(wallet, Hand, scan.outs, scan.spend)

FileInv ==
    /\ Lossless => Holds(file.wallet, ScanOf(file.sync), {})
    /\ Fresh => Exact(file.wallet, ScanOf(file.sync), {}, {})

ListInv == PlaceInv /\ RestInv /\ HandInv /\ FileInv

\* The second premise is the stronger one.
LEMMA FreshIs == Fresh => Lossless
BY Zenon DEF Fresh, Lossless, Losses

\* Slips and resets are never forgotten.
Remembered == slips \subseteq slips' /\ (interruptions'.reset = 0 => interruptions.reset = 0)

\* No step forgets one.
LEMMA SlipsStay == ASSUME TypeInv, [Next]_vars PROVE Remembered
<1>0. interruptions \in [save : Nat, reset : Nat, open : Nat] BY DEF TypeInv, WalletTyped
<1>1. ASSUME slips \subseteq slips', interruptions'.reset = 0 => interruptions.reset = 0 PROVE Remembered
  BY Zenon, <1>1 DEF Remembered
<1>2. CASE UNCHANGED vars BY <1>1, <1>2 DEF vars
<1>3. CASE DaemonStep \/ GetDaemonInfo
  <2>1. UNCHANGED <<slips, interruptions>>
    BY <1>3 DEF DaemonStep, ExtendChain, SwitchChain, DropFromPool, GetDaemonInfo, userVars
  <2> QED BY <1>1, <2>1
<1>4. CASE ThreadStep
  <2>1. UNCHANGED interruptions BY <1>4, ScanFrameHolds DEF ScanFrame, userVars
  <2>2. slips \subseteq slips'
    <3>1. CASE DownloadBlocks \/ DownloadFails BY <3>1 DEF DownloadBlocks, DownloadFails, Downloaded
    <3>2. CASE BeginBlock
      <4>1. slips' = slips \cup ForkSlips(HeightOf[Head(batch)]) \/ slips' = slips
        BY Zenon, <3>2 DEF BeginBlock
      <4> QED BY Zenon, <4>1
    <3>3. CASE GetGlobalIndexes
      <4>1. slips' = slips \cup {"gap"} \/ slips' = slips BY Zenon, <3>3 DEF GetGlobalIndexes
      <4> QED BY Zenon, <4>1
    <3>4. CASE AddTransactions BY <3>4 DEF AddTransactions
    <3>5. CASE StoreInputs \/ SpendInputs BY <3>5 DEF StoreInputs, SpendInputs
    <3>6. CASE FinishBlock BY <3>6 DEF FinishBlock
    <3>7. CASE CheckLockedTransactions \/ CheckFails
      BY <3>7 DEF CheckLockedTransactions, CheckFails, Answered
    <3>8. CASE CancelTransactions
      <4>1. slips' = slips \cup {"unlocked"} \/ slips' = slips BY Zenon, <3>8 DEF CancelTransactions
      <4> QED BY Zenon, <4>1
    <3> QED BY Zenon, <1>4, <3>1, <3>2, <3>3, <3>4, <3>5, <3>6, <3>7, <3>8 DEF ThreadStep, ScanStep
  <2> QED BY <1>1, <2>1, <2>2
<1>5. ASSUME NEW s \in Senders, GetTransactionInputs(s) \/ SendStep(s) PROVE Remembered
  <2>1. UNCHANGED interruptions
    BY Zenon, <1>5 DEF GetTransactionInputs, SendStep, RelayTransaction, StoreSentTransaction,
       StoreUnconfirmedIncomingInputs, LockInput
  <2>2. slips' = slips \/ slips' = slips \cup {"notFound"}
    BY Zenon, <1>5 DEF GetTransactionInputs, SendStep, RelayTransaction, StoreSentTransaction,
       StoreUnconfirmedIncomingInputs, LockInput
  <2>3. slips \subseteq slips' BY Zenon, <2>2
  <2> QED BY <1>1, <2>1, <2>3
<1>6. CASE Save \/ ResetSync \/ OpenWallet
  <2>1. UNCHANGED slips /\ (Interrupted("save") \/ Interrupted("reset") \/ Interrupted("open"))
    BY Zenon, <1>6 DEF Save, ResetSync, OpenWallet
  <2>2. interruptions'.reset = 0 => interruptions.reset = 0 BY <1>0, <2>1 DEF Interrupted
  <2> QED BY <1>1, <2>1, <2>2
<1>7. CASE WriteFile BY <1>1, <1>7 DEF WriteFile
<1> QED BY Zenon, <1>2, <1>3, <1>4, <1>5, <1>6, <1>7 DEF Next, ThreadStep

\* A premise that holds after a step held before it.
Grows == (Lossless' => Lossless) /\ (Fresh' => Fresh)

\* So the premises only become false.
LEMMA SlipsGrow == ASSUME TypeInv, [Next]_vars PROVE Grows
<1>1. Remembered BY SlipsStay
<1> QED BY Zenon, <1>1 DEF Remembered, Grows, Lossless, Fresh

\* Inputs that at most move between the unspent and the locked ones.
Moved(w, v) ==
    /\ Carried(w, v) /\ Carried(v, w) /\ v.spent = w.spent /\ OpenOf(v) \subseteq OpenOf(w)
    /\ Apart(w) => Apart(v)

\* Lists that stay as they are.
LEMMA MovedSame ==
    ASSUME NEW w, NEW v, v.unspent = w.unspent, v.locked = w.locked, v.spent = w.spent
    PROVE  Moved(w, v)
<1>1. All(v) = All(w) BY Zenon DEF All
<1>2. Carried(w, v) /\ Carried(v, w) BY Zenon, <1>1 DEF Carried
<1>3. OpenOf(v) = OpenOf(w) BY Zenon DEF OpenOf
<1>4. Apart(w) => Apart(v) BY Zenon, <1>3 DEF Apart
<1> QED BY Zenon, <1>2, <1>3, <1>4 DEF Moved

\* Inputs that move say what they said.
LEMMA MovedSays ==
    ASSUME NEW w, NEW v, Moved(w, v), NEW S, NEW outs, NEW due
    PROVE  /\ Holds(w, S, outs) => Holds(v, S, outs)
           /\ Exact(w, S, outs, due) => Exact(v, S, outs, due)
<1>1. Holds(w, S, outs) => Holds(v, S, outs) BY Zenon, HoldsMoves DEF Moved
<1>2. ASSUME Exact(w, S, outs, due) PROVE Exact(v, S, outs, due)
  <2>1. Apart(v) BY Zenon, <1>2 DEF Moved, Exact
  <2> QED BY Zenon, <1>2, <2>1, ExactMoves DEF Moved
<1> QED BY <1>1, <1>2

\* A step that stores no block and finds no output keeps the invariant: it
\* leaves the scan where it is, or goes between two blocks.
LEMMA ListsMove ==
    ASSUME ListInv, Grows, UNCHANGED sync, Moved(wallet, wallet'),
           \/ UNCHANGED <<pc, batch>> /\ scan'.outs = scan.outs /\ scan'.spend = scan.spend
           \/ pc \in Between /\ pc' \in Between /\ High(batch'),
           \/ file'.wallet = file.wallet /\ file'.sync = file.sync
           \/ pc \in Between /\ file'.wallet = wallet' /\ file'.sync = sync'
    PROVE  ListInv'
<1>0. /\ \A S, outs : Holds(wallet, S, outs) => Holds(wallet', S, outs)
      /\ \A S, outs, due : Exact(wallet, S, outs, due) => Exact(wallet', S, outs, due)
  BY Zenon, MovedSays
<1>1. PlaceInv' BY Zenon DEF ListInv, PlaceInv
<1>2. pc \in Between =>
        /\ Lossless' => Holds(wallet', ScanOf(sync), {})
        /\ Fresh' => Exact(wallet', ScanOf(sync), {}, {})
  <2>1. pc \in Between => pc # "process" /\ pc # "indexes" BY DEF Between
  <2>2. pc \in Between => Here = ScanOf(sync) BY Zenon, <2>1 DEF Here
  <2> QED BY Zenon, <1>0, <2>1, <2>2 DEF ListInv, RestInv, Grows
<1>3. FileInv'
  <2>1. CASE file'.wallet = file.wallet /\ file'.sync = file.sync
    BY Zenon, <2>1 DEF ListInv, FileInv, Grows
  <2>2. CASE pc \in Between /\ file'.wallet = wallet' /\ file'.sync = sync'
    BY Zenon, <1>2, <2>2 DEF FileInv
  <2> QED BY <2>1, <2>2
<1>4. RestInv' /\ HandInv'
  <2>1. CASE UNCHANGED <<pc, batch>> /\ scan'.outs = scan.outs /\ scan'.spend = scan.spend
    <3>1. pc' = pc /\ Here' = Here /\ Hand' = Hand /\ Head(batch)' = Head(batch) BY Zenon, <2>1 DEF Here, Hand
    <3>2. RestInv' BY Zenon, <1>0, <3>1 DEF ListInv, RestInv, Grows
    <3>3. HandInv' BY Zenon, <1>0, <2>1, <3>1 DEF ListInv, HandInv, Grows
    <3> QED BY <3>2, <3>3
  <2>2. CASE pc \in Between /\ pc' \in Between /\ High(batch')
    <3>1. pc' # "process" /\ pc' # "indexes" BY <2>2 DEF Between
    <3>2. Here' = ScanOf(sync) BY Zenon, <3>1 DEF Here
    <3> QED BY Zenon, <1>2, <2>2, <3>1, <3>2 DEF RestInv, HandInv
  <2> QED BY <2>1, <2>2
<1> QED BY <1>1, <1>3, <1>4 DEF ListInv

\* The block in hand: its height is at least StartHeight, and so are those of
\* the rest of the batch.
LEMMA HandIs ==
    ASSUME TypeInv, ListInv, pc \in {"block", "indexes", "process"}
    PROVE  /\ Head(batch) \in Blocks /\ HeightOf[Head(batch)] \in Nat
           /\ HeightOf[Head(batch)] >= StartHeight /\ High(Tail(batch)) /\ NextBlock \in Between
           /\ NextBlock # "process" /\ NextBlock # "indexes"
<1>1. batch \in Seq(Blocks) /\ batch # <<>> BY TypeParts
<1>2. \A i \in DOMAIN batch : HeightOf[batch[i]] >= StartHeight
  BY Zenon DEF ListInv, PlaceInv, High
<1>3. /\ Head(batch) \in Blocks /\ HeightOf[Head(batch)] \in Nat
      /\ Head(batch) = batch[1] /\ 1 \in DOMAIN batch /\ Tail(batch) \in Seq(Blocks)
      /\ NextBlock \in {"idle", "block"}
      /\ \A i \in DOMAIN Tail(batch) : i + 1 \in DOMAIN batch /\ Tail(batch)[i] = batch[i + 1]
  BY Zenon, <1>1, BatchParts
<1>4. HeightOf[Head(batch)] >= StartHeight BY Zenon, <1>2, <1>3
<1>5. High(Tail(batch)) BY Zenon, <1>2, <1>3 DEF High
<1>6. NextBlock \in Between /\ NextBlock # "process" /\ NextBlock # "indexes" BY <1>3 DEF Between
<1> QED BY <1>3, <1>4, <1>5, <1>6

\* Forking back to a block.
LEMMA BeginLists == ASSUME TypeInv, ListInv, Grows, BeginBlock PROVE ListInv'
<1> DEFINE b == Head(batch)
           f == HeightOf[b]
<1>0. /\ pc = "block" /\ pc' = "indexes" /\ UNCHANGED <<sync, batch, scan, file>>
      /\ wallet' = IF Forked(b) THEN RemoveForkedTransactions(wallet, f) ELSE wallet
      /\ slips' = IF Forked(b) THEN slips \cup ForkSlips(f) ELSE slips
  BY DEF BeginBlock, userVars
<1>1. /\ wallet \in WalletRecords /\ sync \in SyncRecords /\ b \in Blocks /\ f \in Nat
  BY <1>0, TypeParts, HandIs
<1> HIDE DEF b
<1>2. /\ Lossless' => Holds(wallet, ScanOf(sync), {})
      /\ Fresh' => Exact(wallet, ScanOf(sync), {}, {})
  <2>1. Here = ScanOf(sync) BY <1>0 DEF Here
  <2>2. pc # "process" BY <1>0
  <2> QED BY Zenon, <2>1, <2>2 DEF ListInv, RestInv, Grows
<1>3. /\ Lossless' => Holds(wallet', Kept(sync, b), {})
      /\ Fresh' => Exact(wallet', Kept(sync, b), {}, {})
  <2>1. CASE ~Forked(b)
    <3>1. SyncOk(sync) /\ ~(sync.height >= HeightOf[b]) BY <2>1 DEF ListInv, PlaceInv, Forked
    <3>2. Kept(sync, b) = ScanOf(sync) BY <1>1, <3>1, NoFork
    <3> QED BY Zenon, <1>0, <1>2, <2>1, <3>2
  <2>2. CASE Forked(b)
    <3>1. wallet' = RemoveForkedTransactions(wallet, f) /\ slips' = slips \cup ForkSlips(f)
      BY Zenon, <1>0, <2>2
    <3> HIDE DEF f
    <3>2. Rolled(wallet, f, wallet') BY <1>1, <3>1, ForkIs
    <3>3. Kept(sync, b) = {c \in ScanOf(sync) : HeightOf[c] < f} BY DEF Kept, f
    <3>4. "locked" \notin slips' => \A r \in Entries(wallet.locked) : ~(r.height < f)
      BY Zenon, <3>1 DEF ForkSlips, Entries
    <3>5. "spent" \notin slips' => \A r \in Entries(wallet.spent) : r.spend >= f => ~(r.height >= f)
      BY Zenon, <3>1 DEF ForkSlips, Entries
    <3>6. (Lossless' => "locked" \notin slips') /\ (Fresh' => "spent" \notin slips')
      BY Zenon DEF Lossless, Fresh, Losses
    <3>7. Lossless' => Holds(wallet', Kept(sync, b), {})
      BY <1>1, <1>2, <3>2, <3>3, <3>4, <3>6, HoldsFork
    <3>8. OneLine(ScanOf(sync)) BY <1>1, ScanLine
    <3>9. Fresh' => Exact(wallet', Kept(sync, b), {}, {})
      BY <1>1, <1>2, <3>2, <3>3, <3>5, <3>6, <3>8, ExactFork
    <3> QED BY <3>7, <3>9
  <2> QED BY <2>1, <2>2
<1>4. Here' = Kept(sync, b) BY <1>0 DEF Here, b
<1>5. RestInv' BY Zenon, <1>3, <1>4 DEF RestInv
<1>6. HandInv' BY <1>0 DEF HandInv
<1>7. PlaceInv' BY Zenon, <1>0 DEF ListInv, PlaceInv
<1>8. FileInv' BY Zenon, <1>0 DEF ListInv, FileInv, Grows
<1> QED BY <1>5, <1>6, <1>7, <1>8 DEF ListInv

\* Taking up a block, or giving it up.
LEMMA IndexesLists == ASSUME TypeInv, ListInv, Grows, GetGlobalIndexes PROVE ListInv'
<1> DEFINE b == Head(batch)
<1>0. pc = "indexes" /\ UNCHANGED <<wallet, sync, file>> BY DEF GetGlobalIndexes, userVars
<1>1. /\ wallet \in WalletRecords /\ sync \in SyncRecords /\ b \in Blocks
      /\ HeightOf[b] >= StartHeight /\ High(Tail(batch)) /\ High(batch)
      /\ NextBlock # "process" /\ NextBlock # "indexes" /\ SyncOk(sync)
  BY <1>0, TypeParts, HandIs DEF ListInv, PlaceInv
<1>2. /\ Lossless' => Holds(wallet, Kept(sync, b), {})
      /\ Fresh' => Exact(wallet, Kept(sync, b), {}, {})
  <2>1. Here = Kept(sync, b) BY <1>0 DEF Here
  <2>2. pc # "process" BY <1>0
  <2> QED BY Zenon, <2>1, <2>2 DEF ListInv, RestInv, Grows
<1>3. FileInv' BY Zenon, <1>0 DEF ListInv, FileInv, Grows
<1>g. (Lossless' => "gap" \notin slips') /\ (Fresh' => Lossless')
  BY Zenon DEF Lossless, Fresh, Losses
<1>4. CASE /\ scan' = ProcessBlockTransactions(b) /\ pc' = "process" /\ UNCHANGED batch
           /\ slips' = IF Follows(b) THEN slips ELSE slips \cup {"gap"}
  <2>1. /\ scan'.outs = OutputsOf(b)
        /\ scan'.spend = {o \in OpenOf(wallet) : \E t \in TxsOf[b] : o \in Ins[t]}
    BY <1>1, <1>4, FoundIs
  <2> HIDE DEF b
  <2>2. scan'.spend = {o \in OpenOf(wallet) : Spends(b, o)} BY Zenon, <2>1 DEF Spends
  <2>3. Lossless' => FollowsIn(sync, b)
    <3>1. "gap" \notin slips' => Follows(b) BY Zenon, <1>4
    <3>2. Follows(b) => FollowsIn(sync, b) BY DEF Follows, FollowsIn
    <3> QED BY Zenon, <1>g, <3>1, <3>2
  <2>4. ASSUME Lossless' PROVE Holds(wallet', Kept(sync, b) \cup {b}, scan'.outs)
    <3>1. Holds(wallet, Kept(sync, b), {}) BY Zenon, <1>2, <2>4
    <3>2. Holds(wallet, Kept(sync, b) \cup {b}, OutputsOf(b)) BY <3>1, HoldsTakeUp
    <3> QED BY Zenon, <1>0, <2>1, <3>2
  <2>5. ASSUME Fresh' PROVE Exact(wallet', Kept(sync, b) \cup {b}, scan'.outs, scan'.spend)
    <3>1. FollowsIn(sync, b) BY Zenon, <1>g, <2>3, <2>5
    <3>2. OneLine(Kept(sync, b) \cup {b}) /\ b \notin Kept(sync, b) BY <1>1, <3>1, FollowLine
    <3>3. Exact(wallet, Kept(sync, b), {}, {}) BY Zenon, <1>2, <2>5
    <3>4. Exact(wallet, Kept(sync, b) \cup {b}, OutputsOf(b), scan'.spend)
      BY <2>2, <3>2, <3>3, ExactTakeUp
    <3> QED BY Zenon, <1>0, <2>1, <3>4
  <2>6. Hand' = Kept(sync, b) \cup {b} /\ Head(batch)' = b BY <1>0, <1>4 DEF Hand, b
  <2>7. scan'.outs \subseteq OutputsOf(b) /\ \A o \in scan'.spend : Spends(b, o) BY Zenon, <2>1, <2>2
  <2>8. HandInv' BY Zenon, <1>0, <2>3, <2>4, <2>5, <2>6, <2>7 DEF HandInv
  <2>9. RestInv' BY <1>4 DEF RestInv
  <2>10. PlaceInv' BY Zenon, <1>0, <1>4 DEF ListInv, PlaceInv
  <2> QED BY <1>3, <2>8, <2>9, <2>10 DEF ListInv
<1>5. CASE /\ batch' = Tail(batch) /\ pc' = NextBlock
           /\ slips' = IF Forked(b) THEN slips \cup {"gap"} ELSE slips
  <2>1. pc' # "process" /\ pc' # "indexes" BY <1>1, <1>5
  <2>2. Here' = ScanOf(sync) BY Zenon, <1>0, <2>1 DEF Here
  <2>3. PlaceInv' BY Zenon, <1>0, <1>1, <1>5 DEF ListInv, PlaceInv
  <2>4. HandInv' BY <2>1 DEF HandInv
  <2> HIDE DEF b
  <2>5. Lossless' => Kept(sync, b) = ScanOf(sync)
    <3>1. "gap" \notin slips' => ~Forked(b) BY Zenon, <1>5
    <3>2. Lossless' => ~(sync.height >= HeightOf[b]) BY Zenon, <1>g, <3>1 DEF Forked
    <3> QED BY <1>1, <3>2, NoFork
  <2>6. RestInv' BY Zenon, <1>0, <1>2, <1>g, <2>2, <2>5 DEF RestInv
  <2> QED BY <1>3, <2>3, <2>4, <2>6 DEF ListInv
<1> QED BY Zenon, <1>4, <1>5 DEF GetGlobalIndexes

\* Storing an output, and marking a spent input.
LEMMA HandLists == ASSUME TypeInv, ListInv, Grows, StoreInputs \/ SpendInputs PROVE ListInv'
<1> DEFINE b == Head(batch)
           S == Hand
<1>0. pc = "process" /\ UNCHANGED <<sync, batch, pc, file>> BY DEF StoreInputs, SpendInputs, userVars
<1>1. /\ wallet \in WalletRecords /\ sync \in SyncRecords /\ b \in Blocks
      /\ HeightOf[b] \in Nat /\ HeightOf[b] >= StartHeight /\ scan.spend \in SUBSET OpenOf(wallet)
  BY <1>0, TypeParts, HandIs
<1>s. scan \in [txs : SUBSET Txs, outs : SUBSET Outputs, spend : SUBSET Outputs]
  BY DEF TypeInv, ScanTyped
<1>2. /\ scan.outs \subseteq OutputsOf(b) /\ \A o \in scan.spend : Spends(b, o)
      /\ Lossless' => FollowsIn(sync, b) /\ Holds(wallet, S, scan.outs)
      /\ Fresh' => Exact(wallet, S, scan.outs, scan.spend)
  BY Zenon, <1>0 DEF ListInv, HandInv, Grows
<1>g. Fresh' => Lossless' BY Zenon DEF Lossless, Fresh, Losses
<1>3. b \in S BY DEF Hand
<1>4. Lossless' => OneLine(S) /\ \A c \in S : HeightOf[c] <= HeightOf[b]
  BY <1>1, <1>2, FollowLine DEF Hand
<1>5. Hand' = S /\ Head(batch)' = b BY Zenon, <1>0 DEF Hand
<1> HIDE DEF b, S
<1>6. ASSUME scan'.outs \subseteq scan.outs, scan'.spend \subseteq scan.spend,
             Lossless' => Holds(wallet', S, scan'.outs),
             Fresh' => Exact(wallet', S, scan'.outs, scan'.spend)
      PROVE  ListInv'
  <2>1. HandInv' BY Zenon, <1>0, <1>2, <1>5, <1>6 DEF HandInv
  <2>2. RestInv' BY <1>0 DEF RestInv
  <2>3. PlaceInv' BY Zenon, <1>0 DEF ListInv, PlaceInv
  <2>4. FileInv' BY Zenon, <1>0 DEF ListInv, FileInv, Grows
  <2> QED BY <2>1, <2>2, <2>3, <2>4 DEF ListInv
<1>7. CASE StoreInputs
  <2>1. PICK o \in scan.outs : /\ wallet' = StoreTransactionInput(wallet, o, HeightOf[b])
                               /\ scan' = [scan EXCEPT !.outs = @ \ {o}]
    BY <1>7 DEF StoreInputs, b
  <2>2. scan'.outs = scan.outs \ {o} /\ scan'.spend = scan.spend BY <1>s, <2>1
  <2>3. scan.outs \in SUBSET OutputsOf(b) BY <1>2
  <2>4. Lossless' => Holds(wallet', S, scan.outs \ {o})
    BY <1>1, <1>2, <1>3, <1>4, <2>1, <2>3, HoldsStore
  <2>5. Fresh' => Exact(wallet', S, scan.outs \ {o}, scan.spend)
    BY <1>1, <1>2, <1>3, <1>4, <1>g, <2>1, <2>3, ExactStore
  <2>6. scan'.outs \subseteq scan.outs /\ scan'.spend \subseteq scan.spend BY Zenon, <2>2
  <2> QED BY Zenon, <1>6, <2>2, <2>4, <2>5, <2>6
<1>8. CASE SpendInputs
  <2>1. PICK o \in scan.spend : /\ wallet' = MarkInputAsSpent(wallet, o, HeightOf[b])
                                /\ scan' = [scan EXCEPT !.spend = @ \ {o}]
    BY <1>8 DEF SpendInputs, b
  <2>2. scan'.outs = scan.outs /\ scan'.spend = scan.spend \ {o} BY <1>s, <2>1
  <2>3. o \in OpenOf(wallet) /\ Spends(b, o) BY Zenon, <1>1, <1>2
  <2> DEFINE h == HeightOf[b]
  <2>4. h \in Nat /\ wallet' = MarkInputAsSpent(wallet, o, h) BY <1>1, <2>1
  <2>h. h = HeightOf[b] OBVIOUS
  <2> HIDE DEF h
  <2>5. Carried(wallet, wallet') BY <1>1, <2>3, <2>4, SpendIs
  <2>6. Lossless' => Holds(wallet', S, scan.outs) BY Zenon, <1>2, <2>5, HoldsMoves
  <2>7. Fresh' => Exact(wallet', S, scan.outs, scan.spend \ {o})
    BY <1>1, <1>2, <1>3, <2>3, <2>4, <2>h, ExactSpend
  <2>8. scan'.outs \subseteq scan.outs /\ scan'.spend \subseteq scan.spend BY Zenon, <2>2
  <2> QED BY Zenon, <1>6, <2>2, <2>6, <2>7, <2>8
<1> QED BY <1>7, <1>8

\* Storing the hash of a block.
LEMMA FinishLists == ASSUME TypeInv, ListInv, Grows, FinishBlock PROVE ListInv'
<1> DEFINE b == Head(batch)
<1>0. pc = "process" /\ scan = NoScan /\ UNCHANGED <<wallet, scan, file>>
  BY DEF FinishBlock, userVars
<1>1. /\ sync \in SyncRecords /\ b \in Blocks /\ HeightOf[b] >= StartHeight /\ High(Tail(batch))
      /\ NextBlock # "process" /\ NextBlock # "indexes"
  BY <1>0, TypeParts, HandIs
<1>2. CASE UNCHANGED <<sync, batch, pc>>
  <2>1. Moved(wallet, wallet') BY Zenon, <1>0, MovedSame
  <2> QED BY <1>0, <1>2, <2>1, ListsMove
<1>3. CASE sync' = StoreBlockHash(sync, b) /\ batch' = Tail(batch) /\ pc' = NextBlock
  <2>1. sync'.hashes # <<>> /\ Head(sync'.hashes) = b /\ sync'.height = HeightOf[b]
    BY <1>1, <1>3, StoreHashIs
  <2>2. scan.outs = {} /\ scan.spend = {} BY <1>0 DEF NoScan
  <2>3. /\ Lossless' => FollowsIn(sync, b) /\ Holds(wallet, Hand, {})
        /\ Fresh' => Exact(wallet, Hand, {}, {})
    BY Zenon, <1>0, <2>2 DEF ListInv, HandInv, Grows
  <2>4. ScanOf(sync') = {c \in ChainTo[b] : HeightOf[c] >= StartHeight} BY Zenon, <2>1 DEF ScanOf
  <2>5. Lossless' => Hand = ScanOf(sync') BY <1>1, <2>3, <2>4, FollowLine DEF Hand
  <2>6. Here' = ScanOf(sync') BY Zenon, <1>1, <1>3 DEF Here
  <2>g. Fresh' => Lossless' BY Zenon DEF Lossless, Fresh, Losses
  <2>7. RestInv' BY Zenon, <1>0, <2>3, <2>5, <2>6, <2>g DEF RestInv
  <2>8. HandInv' BY <1>1, <1>3 DEF HandInv
  <2>9. SyncOk(sync') BY <2>1 DEF SyncOk
  <2>10. PlaceInv' BY Zenon, <1>0, <1>1, <1>3, <2>9 DEF ListInv, PlaceInv
  <2>11. FileInv' BY Zenon, <1>0 DEF ListInv, FileInv, Grows
  <2> QED BY <2>7, <2>8, <2>10, <2>11 DEF ListInv
<1> QED BY Zenon, <1>2, <1>3 DEF FinishBlock

\* Nothing was scanned when there is no hash.
LEMMA NewSyncIs == ScanOf(NewSync) = {} /\ SyncOk(NewSync)
<1>1. NewSync.hashes = <<>> BY DEF NewSync
<1> QED BY Zenon, <1>1 DEF ScanOf, SyncOk

\* Of no block anything holds, and of an empty wallet too.
LEMMA NothingScanned ==
    /\ \A w : Holds(w, {}, {})
    /\ Exact(EmptyWallet, {}, {}, {})
<1>1. \A w : Holds(w, {}, {}) BY Zenon DEF Holds
<1>2. Apart(EmptyWallet) /\ All(EmptyWallet) = {} BY EmptyIs
<1>3. Entries(EmptyWallet.spent) = {} BY Zenon, <1>2 DEF All
<1>4. Paid(EmptyWallet, {}, {}) BY Zenon, <1>2 DEF Paid
<1>5. Marked(EmptyWallet, {}) BY Zenon, <1>3 DEF Marked
<1>6. Open(EmptyWallet, {}, {}) BY Zenon DEF Open
<1> QED BY Zenon, <1>1, <1>2, <1>4, <1>5, <1>6 DEF Exact

\* A state between two blocks.
LEMMA RestLists ==
    ASSUME pc' \in Between, SyncOk(sync'), SyncOk(file.sync)', High(batch'), FileInv',
           Lossless' => Holds(wallet', ScanOf(sync'), {}),
           Fresh' => Exact(wallet', ScanOf(sync'), {}, {})
    PROVE  ListInv'
<1>1. pc' # "process" /\ pc' # "indexes" BY DEF Between
<1>2. Here' = ScanOf(sync') BY Zenon, <1>1 DEF Here
<1>3. RestInv' BY Zenon, <1>2 DEF RestInv
<1>4. HandInv' BY <1>1 DEF HandInv
<1>5. PlaceInv' BY Zenon DEF PlaceInv
<1> QED BY Zenon, <1>3, <1>4, <1>5 DEF ListInv

\* A reset forgets what was scanned.
LEMMA ResetLists == ASSUME TypeInv, ListInv, Grows, ResetSync PROVE ListInv'
<1>0. /\ pc' \in {"idle", "saving"} /\ batch' = <<>> /\ sync' = NewSync /\ Interrupted("reset")
      /\ \/ file' = file
         \/ file' = [cut |-> TRUE, wallet |-> wallet', sync |-> sync']
  BY SaveIs
<1>1. ~Fresh'
  <2>1. interruptions \in [save : Nat, reset : Nat, open : Nat] BY DEF TypeInv, WalletTyped
  <2>2. interruptions'.reset # 0 BY <1>0, <2>1 DEF Interrupted
  <2> QED BY Zenon, <2>2 DEF Fresh
<1>2. ScanOf(sync') = {} /\ SyncOk(sync') /\ Holds(wallet', {}, {})
  BY Zenon, <1>0, NewSyncIs, NothingScanned
<1>3. SyncOk(file'.sync) /\ (Lossless' => Holds(file'.wallet, ScanOf(file'.sync), {}))
  <2>1. CASE file' = file BY Zenon, <2>1 DEF ListInv, PlaceInv, FileInv, Grows
  <2>2. CASE file' = [cut |-> TRUE, wallet |-> wallet', sync |-> sync']
    <3>1. file'.wallet = wallet' /\ file'.sync = sync' BY <2>2
    <3> QED BY Zenon, <1>2, <3>1
  <2> QED BY <1>0, <2>1, <2>2
<1>4. FileInv' BY Zenon, <1>1, <1>3 DEF FileInv
<1>5. pc' \in Between /\ High(batch') BY <1>0 DEF Between, High
<1> QED BY Zenon, <1>1, <1>2, <1>3, <1>4, <1>5, RestLists

\* The wallet is read back, or there is none.
LEMMA OpenLists == ASSUME TypeInv, ListInv, Grows, OpenWallet PROVE ListInv'
<1>0. /\ \/ wallet' = ReadWallet(file.wallet) /\ sync' = file.sync
         \/ wallet' = EmptyWallet /\ sync' = NewSync
      /\ pc' = "idle" /\ batch' = <<>> /\ file' = file
  BY OpenIs
<1>1. SyncOk(file'.sync) /\ FileInv' BY Zenon, <1>0 DEF ListInv, PlaceInv, FileInv, Grows
<1>2. pc' \in Between /\ High(batch') BY <1>0 DEF Between, High
<1>3. CASE wallet' = EmptyWallet /\ sync' = NewSync
  <2>1. /\ SyncOk(sync') /\ Holds(wallet', ScanOf(sync'), {}) /\ Exact(wallet', ScanOf(sync'), {}, {})
    BY Zenon, <1>3, NewSyncIs, NothingScanned
  <2> QED BY Zenon, <1>1, <1>2, <2>1, RestLists
<1>4. CASE wallet' = ReadWallet(file.wallet) /\ sync' = file.sync
  <2>0. file.wallet \in WalletRecords BY TypeParts
  <2>1. /\ wallet'.unspent = file.wallet.unspent /\ wallet'.locked = file.wallet.locked
        /\ wallet'.spent = file.wallet.spent
    BY <1>4, <2>0, ReadIs
  <2>2. Moved(file.wallet, wallet') BY Zenon, <2>1, MovedSame
  <2>3. /\ Lossless' => Holds(file.wallet, ScanOf(sync'), {})
        /\ Fresh' => Exact(file.wallet, ScanOf(sync'), {}, {})
    BY Zenon, <1>4 DEF ListInv, FileInv, Grows
  <2>4. /\ Lossless' => Holds(wallet', ScanOf(sync'), {})
        /\ Fresh' => Exact(wallet', ScanOf(sync'), {}, {})
    BY Zenon, <2>2, <2>3, MovedSays
  <2>5. SyncOk(sync') BY Zenon, <1>4 DEF ListInv, PlaceInv
  <2> QED BY Zenon, <1>1, <1>2, <2>4, <2>5, RestLists
<1> QED BY <1>0, <1>3, <1>4

\* The steps of the scanning thread.
LEMMA ThreadLists == ASSUME TypeInv, ListInv, Grows, ThreadStep PROVE ListInv'
<1>0. UNCHANGED file BY ScanFrameHolds DEF ScanFrame, userVars
<1>1. CASE DownloadBlocks \/ DownloadFails
  <2>1. PICK blocks : High(blocks) /\ Downloaded(blocks) /\ pc = "idle" BY <1>1, RoundIs
  <2>2. batch' = blocks /\ pc' \in {"block", "check", "idle"} /\ UNCHANGED <<wallet, sync>>
    BY <2>1 DEF Downloaded
  <2>3. Moved(wallet, wallet') BY Zenon, <2>2, MovedSame
  <2>4. pc \in Between /\ pc' \in Between /\ High(batch') BY <2>1, <2>2 DEF Between
  <2> QED BY Zenon, <1>0, <2>2, <2>3, <2>4, ListsMove
<1>2. CASE AddTransactions
  <2>1. PICK t \in scan.txs : /\ wallet' = AddTransaction(wallet, t, HeightOf[Head(batch)])
                              /\ scan' = [scan EXCEPT !.txs = @ \ {t}]
                              /\ UNCHANGED <<sync, batch, pc>> /\ pc = "process"
    BY <1>2 DEF AddTransactions
  <2>2. scan \in [txs : SUBSET Txs, outs : SUBSET Outputs, spend : SUBSET Outputs]
    BY DEF TypeInv, ScanTyped
  <2>3. scan'.outs = scan.outs /\ scan'.spend = scan.spend BY <2>1, <2>2
  <2>4. wallet \in WalletRecords /\ t \in Txs /\ HeightOf[Head(batch)] \in Nat
    BY <2>1, TypeParts, HandIs
  <2>5. wallet'.unspent = wallet.unspent /\ wallet'.locked = wallet.locked /\ wallet'.spent = wallet.spent
    BY <2>1, <2>4, AddIs
  <2>6. Moved(wallet, wallet') BY Zenon, <2>5, MovedSame
  <2> QED BY Zenon, <1>0, <2>1, <2>3, <2>6, ListsMove
<1>3. CASE CheckLockedTransactions \/ CheckFails
  <2>1. /\ pc = "check" /\ pc' \in {"cancel", "idle"} /\ UNCHANGED <<wallet, sync, batch>>
    BY <1>3 DEF CheckLockedTransactions, CheckFails, Answered
  <2>2. Moved(wallet, wallet') BY Zenon, <2>1, MovedSame
  <2>3. pc \in Between /\ pc' \in Between BY <2>1 DEF Between
  <2>4. High(batch') BY Zenon, <2>1 DEF ListInv, PlaceInv
  <2> QED BY Zenon, <1>0, <2>1, <2>2, <2>3, <2>4, ListsMove
<1>4. CASE CancelTransactions
  <2>1. /\ pc = "cancel" /\ pc' = "idle" /\ UNCHANGED <<sync, batch>>
        /\ wallet' = RemoveCancelledTransactions(wallet, cancelled)
    BY <1>4 DEF CancelTransactions
  <2>2. wallet \in WalletRecords BY TypeParts
  <2>3. Returned(wallet, cancelled, wallet') BY Zenon, <2>1, <2>2, CancelSays
  <2>4. OpenOf(wallet') \subseteq OpenOf(wallet) BY Zenon, <2>3 DEF Returned, OpenOf
  <2>5. Moved(wallet, wallet') BY Zenon, <2>3, <2>4 DEF Returned, Moved
  <2>6. pc \in Between /\ pc' \in Between BY <2>1 DEF Between
  <2>7. High(batch') BY Zenon, <2>1 DEF ListInv, PlaceInv
  <2> QED BY Zenon, <1>0, <2>1, <2>5, <2>6, <2>7, ListsMove
<1> QED
  BY Zenon, <1>1, <1>2, <1>3, <1>4, BeginLists, IndexesLists, HandLists, FinishLists DEF ThreadStep, ScanStep

\* The steps of a sender.
LEMMA SendLists ==
    ASSUME TypeInv, ListInv, Grows, NEW s \in Senders, GetTransactionInputs(s) \/ SendStep(s)
    PROVE  ListInv'
<1>0. wallet \in WalletRecords BY TypeParts
<1>1. UNCHANGED <<sync, scanVars, file>>
  BY Zenon DEF GetTransactionInputs, SendStep, RelayTransaction, StoreSentTransaction,
     StoreUnconfirmedIncomingInputs, LockInput
<1>2. ASSUME Moved(wallet, wallet') PROVE ListInv'
  <2>1. UNCHANGED <<sync, pc, batch, scan, file>> BY <1>1 DEF scanVars
  <2> QED BY <1>2, <2>1, ListsMove
<1>3. CASE GetTransactionInputs(s) \/ RelayTransaction(s)
  <2>1. UNCHANGED wallet BY Zenon, <1>3 DEF GetTransactionInputs, RelayTransaction
  <2> QED BY Zenon, <1>2, <2>1, MovedSame
<1>4. CASE StoreSentTransaction(s) \/ StoreUnconfirmedIncomingInputs(s)
  <2>1. wallet'.unspent = wallet.unspent /\ wallet'.locked = wallet.locked /\ wallet'.spent = wallet.spent
    BY <1>0, <1>4 DEF StoreSentTransaction, StoreUnconfirmedIncomingInputs, WalletRecords
  <2> QED BY Zenon, <1>2, <2>1, MovedSame
<1>5. CASE LockInput(s)
  <2>1. PICK o : \/ o \in Keys(wallet.unspent) /\ wallet' = MarkInputAsLocked(wallet, o)
                 \/ UNCHANGED wallet
    BY Zenon, <1>5 DEF LockInput
  <2>2. CASE UNCHANGED wallet BY Zenon, <1>2, <2>2, MovedSame
  <2>3. CASE o \in Keys(wallet.unspent) /\ wallet' = MarkInputAsLocked(wallet, o)
    <3>1. /\ OpenOf(wallet') = OpenOf(wallet)
          /\ Apart(wallet) => Apart(wallet')
          /\ Carried(wallet, wallet') /\ Carried(wallet', wallet) /\ wallet'.spent = wallet.spent
      BY <1>0, <2>3, LockIs
    <3>2. Moved(wallet, wallet') BY Zenon, <3>1 DEF Moved
    <3> QED BY <1>2, <3>2
  <2> QED BY <2>1, <2>2, <2>3
<1> QED BY <1>3, <1>4, <1>5 DEF SendStep

\* The steps that leave the inputs alone.
LEMMA OtherLists ==
    ASSUME TypeInv, ListInv, Grows, DaemonStep \/ GetDaemonInfo \/ Save \/ WriteFile \/ UNCHANGED vars
    PROVE  ListInv'
<1>1. UNCHANGED <<wallet, sync>>
  BY SaveIs DEF DaemonStep, ExtendChain, SwitchChain, DropFromPool, GetDaemonInfo, WriteFile, vars
<1>2. Moved(wallet, wallet') BY Zenon, <1>1, MovedSame
<1>3. CASE DaemonStep \/ GetDaemonInfo \/ UNCHANGED vars
  <2>1. UNCHANGED <<pc, batch, scan, file>>
    BY <1>3 DEF DaemonStep, ExtendChain, SwitchChain, DropFromPool, GetDaemonInfo, scanVars, userVars, vars
  <2> QED BY <1>1, <1>2, <2>1, ListsMove
<1>4. CASE Save
  <2>1. /\ pc \in {"idle", "block"} /\ pc' \in {"idle", "saving"} /\ batch' = <<>>
        /\ file' = file \/ file' = [cut |-> TRUE, wallet |-> wallet', sync |-> sync']
    BY <1>4, SaveIs
  <2>2. pc \in Between /\ pc' \in Between /\ High(batch') BY <2>1 DEF Between, High
  <2>3. \/ file'.wallet = file.wallet /\ file'.sync = file.sync
        \/ file'.wallet = wallet' /\ file'.sync = sync'
    BY <2>1
  <2> QED BY Zenon, <1>1, <1>2, <2>2, <2>3, ListsMove
<1>5. CASE WriteFile
  <2>1. pc = "saving" /\ pc' = "idle" /\ UNCHANGED batch /\ file' = [file EXCEPT !.cut = FALSE]
    BY <1>5 DEF WriteFile
  <2>2. file \in [cut : BOOLEAN, wallet : WalletRecords, sync : SyncRecords] BY DEF TypeInv, WalletTyped
  <2>3. file'.wallet = file.wallet /\ file'.sync = file.sync BY <2>1, <2>2
  <2>4. pc \in Between /\ pc' \in Between BY <2>1 DEF Between
  <2>5. High(batch') BY Zenon, <2>1 DEF ListInv, PlaceInv
  <2> QED BY Zenon, <1>1, <1>2, <2>3, <2>4, <2>5, ListsMove
<1> QED BY <1>3, <1>4, <1>5

\* A new wallet has scanned nothing.
LEMMA ListInit == ASSUME Init PROVE ListInv
<1>0. /\ wallet = EmptyWallet /\ sync = NewSync /\ batch = <<>> /\ pc = "idle"
      /\ file.wallet = EmptyWallet /\ file.sync = NewSync
  BY DEF Init
<1>1. High(batch) BY <1>0 DEF High
<1>2. PlaceInv BY Zenon, <1>0, <1>1, NewSyncIs DEF PlaceInv
<1>3. pc # "process" /\ Here = {} BY <1>0, NewSyncIs DEF Here
<1>4. RestInv /\ HandInv BY Zenon, <1>0, <1>3, NothingScanned DEF RestInv, HandInv
<1>5. FileInv BY Zenon, <1>0, NewSyncIs, NothingScanned DEF FileInv
<1> QED BY <1>2, <1>4, <1>5 DEF ListInv

\* The lists say what they should in every state.
LEMMA ListInvariant == Spec => [](TypeInv /\ ListInv)
<1>1. Init => TypeInv /\ ListInv BY TypeInit, ListInit
<1>2. ASSUME TypeInv, ListInv, [Next]_vars PROVE TypeInv' /\ ListInv'
  <2>1. TypeInv' /\ Grows BY <1>2, TypeStep, SlipsGrow
  <2>2. ListInv'
    BY Zenon, <1>2, <2>1, ThreadLists, SendLists, OtherLists, ResetLists, OpenLists DEF Next, ThreadStep
  <2> QED BY <2>1, <2>2
<1> QED BY <1>1, <1>2, PTL DEF Spec

\* Between two rounds, with a block stored, the scanned blocks are those up to
\* the newest hash.
LEMMA CaughtIs ==
    ASSUME ListInv, Caught
    PROVE  /\ ScannedTxs = UNION {TxsOf[c] : c \in ScanOf(sync)}
           /\ \A o : o \in Received <=> \E c \in ScanOf(sync) : o \in OutputsOf(c)
           /\ Lossless => Holds(wallet, ScanOf(sync), {})
           /\ Fresh => Exact(wallet, ScanOf(sync), {}, {})
<1>0. pc \in {"idle", "check"} /\ sync.hashes # <<>> BY DEF Caught
<1>1. pc # "process" /\ pc # "indexes" BY <1>0
<1>2. ScanOf(sync) = {c \in ChainTo[Head(sync.hashes)] : HeightOf[c] >= StartHeight}
  BY Zenon, <1>0 DEF ScanOf
<1>3. ScannedTxs = UNION {TxsOf[c] : c \in ScanOf(sync)} BY <1>2 DEF ScannedTxs
<1>4. ASSUME NEW o PROVE o \in Received <=> \E c \in ScanOf(sync) : o \in OutputsOf(c)
  <2>1. o \in Received <=> \E t \in ScannedTxs : o \in Outs[t] BY Zenon DEF Received
  <2>2. \A t : t \in ScannedTxs <=> \E c \in ScanOf(sync) : t \in TxsOf[c] BY Zenon, <1>3
  <2>3. \A c : o \in OutputsOf(c) <=> \E t \in TxsOf[c] : o \in Outs[t] BY Zenon DEF OutputsOf
  <2> QED BY Zenon, <2>1, <2>2, <2>3
<1>5. Here = ScanOf(sync) BY Zenon, <1>1 DEF Here
<1> QED BY Zenon, <1>1, <1>3, <1>4, <1>5 DEF ListInv, RestInv

\* No output that the scanned chain pays to the wallet is lost: for every
\* block tree, every way the daemon switches between its branches, and every
\* pattern of sends, cancelled transactions, failed requests, saves, kills
\* between any two calls, reopenings and resets; up to the first fork that
\* drops a locked input paid below it and the first block that is passed over.
THEOREM NothingIsLost == Spec => []NothingLost
<1>1. ASSUME ListInv PROVE NothingLost
  <2>1. ASSUME slips \cap {"gap", "locked"} = {}, Caught PROVE Received \subseteq Held
    <3>1. Holds(wallet, ScanOf(sync), {}) BY Zenon, <1>1, <2>1, CaughtIs DEF Lossless
    <3>2. ASSUME NEW o \in Received PROVE o \in Held
      <4>1. PICK c \in ScanOf(sync) : o \in OutputsOf(c) BY Zenon, <1>1, <2>1, <3>2, CaughtIs
      <4>2. PICK r \in All(wallet) : r.out = o BY Zenon, <3>1, <4>1 DEF Holds
      <4>3. o \in HeldOf(wallet) BY Zenon, <4>2, KeysOf
      <4> QED BY Zenon, <4>3 DEF Held, HeldOf
    <3> QED BY Zenon, <3>2
  <2> QED BY <2>1 DEF NothingLost
<1> QED BY <1>1, ListInvariant, PTL

\* In a wallet that was not reset, and up to the first block that is passed
\* over and the first fork that drops a locked input paid below it or brings
\* back a spent one paid above it, the three lists hold what the scanned chain
\* pays and nothing else, each output once, and the spent ones are those the
\* chain spends: whatever branches were scanned before, and with any pattern
\* of sends, cancelled transactions, failed requests, saves and kills.
THEOREM ListsAreExact == Spec => []InputsExact
<1>1. ASSUME TypeInv, ListInv, Fresh
      PROVE  LET all == wallet.unspent \o wallet.locked \o wallet.spent
             IN  /\ \A i, j \in DOMAIN all : all[i].out = all[j].out => i = j
                 /\ Caught =>
                       /\ Held = Received
                       /\ Keys(wallet.spent) = {o \in Held : \E t \in ScannedTxs : o \in Ins[t]}
  <2>1. Apart(wallet) BY Zenon, <1>1 DEF ListInv, RestInv, HandInv, Exact
  <2> DEFINE u == wallet.unspent
             l == wallet.locked
             s == wallet.spent
             all == u \o l \o s
  <2>2. u \in Seq(InputRecords) /\ l \in Seq(InputRecords) /\ s \in Seq(InputRecords)
    BY <1>1, TypeParts, WalletFields
  <2>3. /\ Distinct(u) /\ Distinct(l) /\ Distinct(s) /\ Keys(u) \cap Keys(l) = {}
        /\ (Keys(u) \cup Keys(l)) \cap Keys(s) = {}
    BY <2>1 DEF Apart, OpenOf
  <2> HIDE DEF u, l, s
  <2>4. u \o l \in Seq(InputRecords) /\ Keys(u \o l) = Keys(u) \cup Keys(l) /\ Distinct(u \o l)
    BY <2>2, <2>3, ConcatIs
  <2>5. Distinct(all)
    <3> DEFINE ul == u \o l
    <3>1. ul \in Seq(InputRecords) /\ Distinct(ul) /\ Keys(ul) \cap Keys(s) = {} BY <2>3, <2>4
    <3> HIDE DEF ul
    <3>2. Distinct(ul \o s) BY <2>2, <2>3, <3>1, ConcatIs
    <3> QED BY <3>2 DEF ul
  <2>6. \A i, j \in DOMAIN all : all[i].out = all[j].out => i = j BY Zenon, <2>5 DEF Distinct
  <2>7. ASSUME Caught
        PROVE  /\ Held = Received
               /\ Keys(wallet.spent) = {o \in Held : \E t \in ScannedTxs : o \in Ins[t]}
    <3> DEFINE S == ScanOf(sync)
    <3>1. /\ Holds(wallet, S, {}) /\ Exact(wallet, S, {}, {})
          /\ ScannedTxs = UNION {TxsOf[c] : c \in S}
          /\ \A o : o \in Received <=> \E c \in S : o \in OutputsOf(c)
      BY Zenon, <1>1, <2>7, CaughtIs, FreshIs
    <3> HIDE DEF S
    <3>2. Held = HeldOf(wallet) BY DEF Held, HeldOf
    <3>3. /\ \A o \in HeldOf(wallet) : \E r \in All(wallet) : r.out = o
          /\ \A r \in All(wallet) : r.out \in HeldOf(wallet)
      BY Zenon, KeysOf
    <3>4. ASSUME NEW o PROVE o \in Received <=> o \in Held
      <4>1. ASSUME o \in Received PROVE o \in Held
        <5>1. PICK c \in S : o \in OutputsOf(c) BY Zenon, <3>1, <4>1
        <5>2. PICK r \in All(wallet) : r.out = o BY Zenon, <3>1, <5>1 DEF Holds
        <5> QED BY Zenon, <3>2, <3>3, <5>2
      <4>2. ASSUME o \in Held PROVE o \in Received
        <5>1. PICK r \in All(wallet) : r.out = o BY Zenon, <3>2, <3>3, <4>2
        <5>2. PICK c \in S : r.out \in OutputsOf(c) BY Zenon, <3>1 DEF Exact, Paid
        <5> QED BY Zenon, <3>1, <5>1, <5>2
      <4> QED BY <4>1, <4>2
    <3>5. ASSUME NEW o \in Held
          PROVE  o \in Keys(wallet.spent) <=> \E t \in ScannedTxs : o \in Ins[t]
      <4>0. (\E t \in ScannedTxs : o \in Ins[t]) <=> \E c \in S : Spends(c, o)
        BY Zenon, <3>1 DEF Spends
      <4>1. ASSUME o \in Keys(wallet.spent) PROVE \E c \in S : Spends(c, o)
        <5>1. PICK r \in Entries(wallet.spent) : r.out = o BY Zenon, <4>1 DEF Keys, Entries
        <5> QED BY Zenon, <3>1, <5>1 DEF Exact, Marked
      <4>2. ASSUME o \notin Keys(wallet.spent) PROVE ~ \E c \in S : Spends(c, o)
        <5>1. o \in OpenOf(wallet) BY Zenon, <3>2, <3>5, <4>2 DEF HeldOf, OpenOf
        <5> QED BY Zenon, <3>1, <5>1 DEF Exact, Open
      <4> QED BY <4>0, <4>1, <4>2
    <3>6. Keys(wallet.spent) \subseteq Held BY Zenon DEF Held
    <3>7. Held = Received BY Zenon, <3>4
    <3>8. Keys(wallet.spent) = {o \in Held : \E t \in ScannedTxs : o \in Ins[t]}
      BY Zenon, <3>5, <3>6
    <3> QED BY <3>7, <3>8
  <2> QED BY Zenon, <2>6, <2>7 DEF u, l, s
<1>2. ASSUME TypeInv, ListInv PROVE InputsExact BY Zenon, <1>1, <1>2 DEF InputsExact, Fresh
<1> QED BY <1>2, ListInvariant, PTL
-----------------------------------------------------------------------------
(* Sends *)

\* The premise of InFlightNotOffered.
Quiet == slips = {} /\ interruptions.reset = 0

\* A sender at its place, before and after the relay.
Late == {"relayed", "stored", "lock"}

SenderOK(r, sent) ==
    /\ r.pc = "relay" => r.tx \notin sent
    /\ r.pc \in Late => r.tx \in sent
    /\ r.pc \in {"relay", "relayed", "stored"} => r.left = Ins[r.tx]

SendInv ==
    /\ wallet.lockedTxs \subseteq relayed
    /\ \A s \in Senders : SenderOK(sender[s], relayed)
    /\ \A r, s \in Senders : r # s /\ sender[r].tx # NoTx => sender[r].tx # sender[s].tx

\* An input of an unconfirmed transaction is on offer only while a sender is
\* about to lock it.
Covered(w, senders) ==
    \A t \in w.lockedTxs : \A o \in Ins[t] \cap Keys(w.unspent) :
        \E s \in Senders : senders[s].tx = t /\ o \in senders[s].left

\* Inputs under way are inputs of the wallet, so that the scan does not find
\* them once more.
Inside(w, senders) ==
    /\ \A t \in w.lockedTxs : Ins[t] \subseteq HeldOf(w)
    /\ \A s \in Senders : senders[s].tx # NoTx => Ins[senders[s].tx] \subseteq HeldOf(w)

LockInv == Quiet => Inside(wallet, sender) /\ Covered(wallet, sender)

\* A quiet wallet is a fresh one, and was quiet before.
LEMMA QuietIs == ASSUME TypeInv, [Next]_vars PROVE (Quiet => Fresh) /\ (Quiet' => Quiet)
<1>1. Quiet => Fresh BY DEF Quiet, Fresh
<1>2. slips \subseteq slips' /\ (interruptions'.reset = 0 => interruptions.reset = 0)
  BY SlipsStay DEF Remembered
<1> QED BY <1>1, <1>2 DEF Quiet

\* A step of another thread: it makes no transaction unconfirmed, loses no
\* input, and offers none that was in a list and not on offer.
LEMMA SendersWait ==
    ASSUME SendInv, LockInv, Quiet' => Quiet, UNCHANGED <<sender, relayed>>,
           wallet'.lockedTxs \subseteq wallet.lockedTxs,
           Quiet' => /\ HeldOf(wallet) \subseteq HeldOf(wallet')
                     /\ \A o \in Keys(wallet'.unspent) : o \in Keys(wallet.unspent) \/ o \notin HeldOf(wallet)
    PROVE  SendInv' /\ LockInv'
<1>0. sender' = sender /\ relayed' = relayed OBVIOUS
<1>1. SendInv' BY Zenon, <1>0 DEF SendInv
<1>2. ASSUME Quiet' PROVE Inside(wallet', sender')
  BY Zenon, <1>0, <1>2 DEF LockInv, Inside
<1>3. ASSUME Quiet' PROVE Covered(wallet', sender')
  <2> SUFFICES ASSUME NEW t \in wallet'.lockedTxs, NEW o \in Ins[t] \cap Keys(wallet'.unspent)
               PROVE  \E s \in Senders : sender'[s].tx = t /\ o \in sender'[s].left
    BY Zenon DEF Covered
  <2>1. Inside(wallet, sender) /\ Covered(wallet, sender) BY Zenon, <1>3 DEF LockInv
  <2>2. t \in wallet.lockedTxs /\ o \in HeldOf(wallet) BY Zenon, <2>1 DEF Inside
  <2>3. o \in Keys(wallet.unspent) BY Zenon, <1>3, <2>2
  <2>4. PICK s \in Senders : sender[s].tx = t /\ o \in sender[s].left BY Zenon, <2>1, <2>2, <2>3 DEF Covered
  <2> QED BY Zenon, <1>0, <2>4
<1> QED BY Zenon, <1>1, <1>2, <1>3 DEF LockInv

\* Lists that stay as they are.
LEMMA SendersSame ==
    ASSUME SendInv, LockInv, Quiet' => Quiet, UNCHANGED <<sender, relayed>>,
           wallet'.lockedTxs \subseteq wallet.lockedTxs, wallet'.unspent = wallet.unspent,
           wallet'.locked = wallet.locked, wallet'.spent = wallet.spent
    PROVE  SendInv' /\ LockInv'
<1>1. HeldOf(wallet') = HeldOf(wallet) BY Zenon DEF HeldOf
<1>2. /\ HeldOf(wallet) \subseteq HeldOf(wallet')
      /\ \A o \in Keys(wallet'.unspent) : o \in Keys(wallet.unspent) \/ o \notin HeldOf(wallet)
  BY Zenon, <1>1
<1>3. UNCHANGED <<sender, relayed>> OBVIOUS
<1> QED BY Zenon, <1>2, <1>3, SendersWait

\* A fork that finds nothing under way.
LEMMA SendersFork ==
    ASSUME TypeInv, SendInv, LockInv, Quiet' => Quiet, BeginBlock PROVE SendInv' /\ LockInv'
<1> DEFINE f == HeightOf[Head(batch)]
<1>0. /\ wallet' = IF Forked(Head(batch)) THEN RemoveForkedTransactions(wallet, f) ELSE wallet
      /\ slips' = IF Forked(Head(batch)) THEN slips \cup ForkSlips(f) ELSE slips
      /\ UNCHANGED <<sender, relayed>>
  BY DEF BeginBlock, userVars
<1> HIDE DEF f
<1>1. CASE ~Forked(Head(batch))
  <2>1. wallet' = wallet BY Zenon, <1>0, <1>1
  <2> QED BY Zenon, <1>0, <2>1, SendersSame
<1>2. CASE Forked(Head(batch))
  <2>0. wallet \in WalletRecords BY TypeParts
  <2>1. wallet'.lockedTxs = wallet.lockedTxs
    BY <1>0, <1>2, <2>0 DEF RemoveForkedTransactions, RemoveForkedInputs, WalletRecords
  <2>2. Quiet' => ~InFlight
    <3>1. InFlight => "inFlight" \in ForkSlips(f) BY DEF ForkSlips
    <3>2. Quiet' => ForkSlips(f) = {} BY Zenon, <1>0, <1>2 DEF Quiet
    <3> QED BY Zenon, <3>1, <3>2
  <2>3. SendInv' BY Zenon, <1>0, <2>1 DEF SendInv
  <2>4. ASSUME Quiet' PROVE Inside(wallet', sender') /\ Covered(wallet', sender')
    <3>1. wallet'.lockedTxs = {} /\ \A s \in Senders : sender[s].pc = "idle"
      BY Zenon, <2>1, <2>2, <2>4 DEF InFlight
    <3>2. \A s \in Senders : sender'[s].tx = NoTx BY <1>0, <3>1, SenderIs
    <3> QED BY Zenon, <3>1, <3>2 DEF Inside, Covered
  <2> QED BY <2>3, <2>4 DEF LockInv
<1> QED BY <1>1, <1>2

\* The steps of the scanning thread.
LEMMA SendersScan ==
    ASSUME TypeInv, ListInv, SendInv, LockInv, Quiet => Fresh, Quiet' => Quiet, ThreadStep
    PROVE  SendInv' /\ LockInv'
<1>0. /\ wallet \in WalletRecords /\ scan.txs \in SUBSET Txs /\ scan.outs \in SUBSET Outputs
      /\ scan.spend \in SUBSET OpenOf(wallet)
  BY TypeParts
<1>u. UNCHANGED <<sender, relayed>> BY ScanFrameHolds DEF ScanFrame, userVars
<1> DEFINE h == HeightOf[Head(batch)]
<1>h. pc = "process" => h \in Nat BY HandIs
<1>1. CASE DownloadBlocks \/ DownloadFails \/ GetGlobalIndexes \/ FinishBlock \/ CheckLockedTransactions \/ CheckFails
  <2>1. wallet' = wallet
    BY <1>1 DEF DownloadBlocks, DownloadFails, Downloaded, GetGlobalIndexes, FinishBlock,
       CheckLockedTransactions, CheckFails, Answered
  <2> QED BY Zenon, <1>u, <2>1, SendersSame
<1>2. CASE BeginBlock BY <1>2, SendersFork
<1>3. CASE AddTransactions
  <2>1. PICK t \in scan.txs : pc = "process" /\ wallet' = AddTransaction(wallet, t, h)
    BY <1>3 DEF AddTransactions
  <2> HIDE DEF h
  <2>2. t \in Txs /\ h \in Nat BY <1>0, <1>h, <2>1
  <2>3. /\ wallet'.lockedTxs = wallet.lockedTxs \ {t} /\ wallet'.unspent = wallet.unspent
        /\ wallet'.locked = wallet.locked /\ wallet'.spent = wallet.spent
    BY <1>0, <2>1, <2>2, AddIs
  <2>4. wallet'.lockedTxs \subseteq wallet.lockedTxs BY Zenon, <2>3
  <2> QED BY Zenon, <1>u, <2>3, <2>4, SendersSame
<1>4. CASE StoreInputs
  <2>1. PICK o \in scan.outs : pc = "process" /\ wallet' = StoreTransactionInput(wallet, o, h)
    BY <1>4 DEF StoreInputs
  <2> HIDE DEF h
  <2>2. o \in Outputs /\ h \in Nat BY <1>0, <1>h, <2>1
  <2>3. Stored(wallet, o, wallet') BY Zenon, <1>0, <2>1, <2>2, StoreSays
  <2>4. Quiet' => o \notin HeldOf(wallet)
    <3>1. ASSUME Quiet', NEW r \in All(wallet), r.out = o PROVE FALSE
      <4>1. Paid(wallet, Hand, scan.outs) BY Zenon, <2>1, <3>1 DEF ListInv, HandInv, Exact
      <4> QED BY Zenon, <3>1, <4>1 DEF Paid
    <3> QED BY Zenon, <3>1, KeysOf
  <2>5. /\ wallet'.lockedTxs = wallet.lockedTxs /\ HeldOf(wallet) \subseteq HeldOf(wallet')
        /\ Keys(wallet'.unspent) = Keys(wallet.unspent) \cup {o}
    BY Zenon, <2>3 DEF Stored, HeldOf
  <2> QED BY Zenon, <1>u, <2>4, <2>5, SendersWait
<1>5. CASE SpendInputs
  <2>1. PICK o \in scan.spend : pc = "process" /\ wallet' = MarkInputAsSpent(wallet, o, h)
    BY <1>5 DEF SpendInputs
  <2> HIDE DEF h
  <2>2. o \in OpenOf(wallet) /\ h \in Nat BY <1>0, <1>h, <2>1
  <2>3. /\ wallet'.lockedTxs = wallet.lockedTxs /\ Keys(wallet'.spent) = Keys(wallet.spent) \cup {o}
        /\ OpenOf(wallet) \ {o} \subseteq OpenOf(wallet')
        /\ Keys(wallet'.unspent) \subseteq Keys(wallet.unspent)
    BY <1>0, <2>1, <2>2, SpendIs
  <2>4. /\ HeldOf(wallet) = OpenOf(wallet) \cup Keys(wallet.spent)
        /\ HeldOf(wallet') = OpenOf(wallet') \cup Keys(wallet'.spent)
    BY Zenon DEF HeldOf, OpenOf
  <2>5. HeldOf(wallet) \subseteq HeldOf(wallet') BY <2>3, <2>4
  <2>6. wallet'.lockedTxs \subseteq wallet.lockedTxs BY Zenon, <2>3
  <2> QED BY Zenon, <1>u, <2>3, <2>5, <2>6, SendersWait
<1>6. CASE CancelTransactions
  <2>1. /\ wallet' = RemoveCancelledTransactions(wallet, cancelled)
        /\ slips' = IF \E i \in DOMAIN wallet.locked : TxOf(wallet.locked[i].out) \in cancelled
                    THEN slips \cup {"unlocked"} ELSE slips
    BY <1>6 DEF CancelTransactions
  <2>2. Returned(wallet, cancelled, wallet') BY Zenon, <1>0, <2>1, CancelSays
  <2>3. Quiet' => \A o \in Keys(wallet.locked) : TxOf(o) \notin cancelled
    BY Zenon, <2>1 DEF Quiet, Keys
  <2>4. Quiet' => Keys(wallet'.unspent) = Keys(wallet.unspent) BY Zenon, <2>2, <2>3 DEF Returned
  <2>5. HeldOf(wallet) \subseteq HeldOf(wallet') /\ wallet'.lockedTxs \subseteq wallet.lockedTxs
    BY Zenon, <2>2 DEF Returned, HeldOf
  <2> QED BY Zenon, <1>u, <2>4, <2>5, SendersWait
<1> QED BY Zenon, <1>1, <1>2, <1>3, <1>4, <1>5, <1>6 DEF ThreadStep, ScanStep

\* One sender moves on: the others keep their places.
LEMMA SenderMovesOn ==
    ASSUME TypeInv, SendInv, NEW s \in Senders, NEW r, sender' = [sender EXCEPT ![s] = r],
           SenderOK(r, relayed'), r.tx = NoTx \/ \A q \in Senders \ {s} : sender[q].tx # r.tx,
           wallet'.lockedTxs \subseteq relayed', relayed \subseteq relayed',
           \A q \in Senders \ {s} : sender[q].pc = "relay" => sender[q].tx \notin relayed'
    PROVE  /\ SendInv' /\ sender'[s] = r
           /\ \A q \in Senders \ {s} : sender'[q] = sender[q]
<1>1. sender'[s] = r /\ \A q \in Senders \ {s} : sender'[q] = sender[q]
  BY DEF TypeInv, SenderTyped
<1>2. ASSUME NEW q \in Senders PROVE SenderOK(sender'[q], relayed')
  <2>1. CASE q = s BY Zenon, <1>1, <2>1
  <2>2. CASE q # s
    <3>1. SenderOK(sender[q], relayed) /\ sender'[q] = sender[q] BY Zenon, <1>1, <2>2 DEF SendInv
    <3>2. sender[q].pc = "relay" => sender[q].tx \notin relayed' BY Zenon, <2>2
    <3>3. sender[q].pc \in Late => sender[q].tx \in relayed' BY Zenon, <3>1 DEF SenderOK
    <3> QED BY Zenon, <3>1, <3>2, <3>3 DEF SenderOK
  <2> QED BY <2>1, <2>2
<1>3. ASSUME NEW p \in Senders, NEW q \in Senders, p # q, sender'[p].tx # NoTx
      PROVE  sender'[p].tx # sender'[q].tx
  <2>1. CASE p = s BY Zenon, <1>1, <1>3, <2>1
  <2>2. CASE q = s
    <3>1. CASE r.tx = NoTx BY Zenon, <1>1, <1>3, <2>2, <3>1
    <3>2. CASE r.tx # NoTx BY Zenon, <1>1, <1>3, <2>2, <3>2
    <3> QED BY <3>1, <3>2
  <2>3. CASE p # s /\ q # s BY Zenon, <1>1, <1>3, <2>3 DEF SendInv
  <2> QED BY <2>1, <2>2, <2>3
<1> QED BY Zenon, <1>1, <1>2, <1>3 DEF SendInv

\* What is under way when one sender moves on to r.
LEMMA SenderCovers ==
    ASSUME NEW s \in Senders, NEW r, sender'[s] = r, \A q \in Senders \ {s} : sender'[q] = sender[q],
           Inside(wallet, sender), Covered(wallet, sender),
           HeldOf(wallet) \subseteq HeldOf(wallet'), Keys(wallet'.unspent) \subseteq Keys(wallet.unspent),
           r.tx # NoTx => Ins[r.tx] \subseteq HeldOf(wallet'),
           NoTx \notin wallet'.lockedTxs, wallet'.lockedTxs \subseteq wallet.lockedTxs \cup {r.tx},
           \A t \in wallet'.lockedTxs : t \in {sender[s].tx, r.tx} =>
               \A o \in Ins[t] \cap Keys(wallet'.unspent) : r.tx = t /\ o \in r.left
    PROVE  Inside(wallet', sender') /\ Covered(wallet', sender')
<1>1. ASSUME NEW t \in wallet'.lockedTxs PROVE Ins[t] \subseteq HeldOf(wallet')
  <2>1. CASE t \in wallet.lockedTxs
    <3>1. Ins[t] \subseteq HeldOf(wallet) BY Zenon, <2>1 DEF Inside
    <3> QED BY Zenon, <3>1
  <2>2. CASE t = r.tx
    <3>1. r.tx # NoTx BY Zenon, <2>2
    <3> QED BY Zenon, <2>2, <3>1
  <2> QED BY Zenon, <2>1, <2>2
<1>2. ASSUME NEW q \in Senders, sender'[q].tx # NoTx PROVE Ins[sender'[q].tx] \subseteq HeldOf(wallet')
  <2>1. CASE q = s BY Zenon, <1>2, <2>1
  <2>2. CASE q # s
    <3>1. sender'[q] = sender[q] BY Zenon, <2>2
    <3>2. Ins[sender[q].tx] \subseteq HeldOf(wallet) BY Zenon, <1>2, <3>1 DEF Inside
    <3> QED BY Zenon, <3>1, <3>2
  <2> QED BY <2>1, <2>2
<1>3. ASSUME NEW t \in wallet'.lockedTxs, NEW o \in Ins[t] \cap Keys(wallet'.unspent)
      PROVE  \E q \in Senders : sender'[q].tx = t /\ o \in sender'[q].left
  <2>1. CASE t = sender[s].tx \/ t = r.tx
    <3>1. r.tx = t /\ o \in r.left BY Zenon, <2>1
    <3> QED BY Zenon, <3>1
  <2>2. CASE t # sender[s].tx /\ t # r.tx
    <3>1. t \in wallet.lockedTxs BY Zenon, <2>2
    <3>2. PICK q \in Senders : sender[q].tx = t /\ o \in sender[q].left BY Zenon, <3>1 DEF Covered
    <3>3. q # s BY Zenon, <2>2, <3>2
    <3>4. sender'[q] = sender[q] BY Zenon, <3>3
    <3> QED BY Zenon, <3>2, <3>4
  <2> QED BY <2>1, <2>2
<1> QED BY Zenon, <1>1, <1>2, <1>3 DEF Inside, Covered

\* A sender chooses its inputs, relays, records, or gives up before that.
LEMMA SendersSend ==
    ASSUME TypeInv, TypeInv', SendInv, LockInv, Quiet' => Quiet, NEW s \in Senders,
           \/ GetTransactionInputs(s) \/ RelayTransaction(s)
           \/ StoreSentTransaction(s) \/ StoreUnconfirmedIncomingInputs(s)
    PROVE  SendInv' /\ LockInv'
<1> DEFINE t == sender[s].tx
<1>0. /\ wallet \in WalletRecords /\ wallet' \in WalletRecords /\ relayed \in SUBSET Own
  BY TypeParts DEF TypeInv, DaemonTyped, WalletTyped
<1>1. NoTx \notin Own /\ NoTx \notin wallet'.lockedTxs /\ NoTx \notin wallet.lockedTxs
  BY <1>0, WalletAssumption, WalletFields
<1>2. sender[s].pc # "idle" <=> t # NoTx BY SenderIs
<1>i. Idle.pc = "idle" /\ Idle.tx = NoTx /\ SenderOK(Idle, relayed') BY DEF Idle, SenderOK, Late
<1>3. /\ SenderOK(sender[s], relayed) /\ wallet.lockedTxs \subseteq relayed
      /\ \A q \in Senders \ {s} : sender[s].pc # "idle" => sender[q].tx # t
      /\ \A q \in Senders \ {s} : sender[q].pc = "relay" => sender[q].tx \notin relayed
  <2>1. /\ SenderOK(sender[s], relayed) /\ wallet.lockedTxs \subseteq relayed
        /\ \A q \in Senders \ {s} : sender[q].pc = "relay" => sender[q].tx \notin relayed
    BY Zenon DEF SendInv, SenderOK
  <2>2. \A q \in Senders \ {s} : sender[s].pc # "idle" => sender[q].tx # t BY Zenon, <1>2 DEF SendInv
  <2> QED BY Zenon, <2>1, <2>2
<1>4. Quiet' => Inside(wallet, sender) /\ Covered(wallet, sender) BY Zenon DEF LockInv
<1>5. CASE GetTransactionInputs(s)
  <2>1. PICK x \in Own \ relayed :
            /\ sender[s].pc = "idle" /\ \A q \in Senders : sender[q].tx # x
            /\ Ins[x] \subseteq Keys(wallet.unspent)
            /\ sender' = [sender EXCEPT ![s] = [pc |-> "relay", tx |-> x, left |-> Ins[x]]]
            /\ UNCHANGED <<wallet, relayed>>
    BY <1>5 DEF GetTransactionInputs, SetSender, GetSpendableInputs
  <2> DEFINE r == [pc |-> "relay", tx |-> x, left |-> Ins[x]]
  <2>2. r.pc = "relay" /\ r.tx = x /\ r.left = Ins[x] OBVIOUS
  <2>3. sender' = [sender EXCEPT ![s] = r] BY <2>1
  <2> HIDE DEF r
  <2>4. SenderOK(r, relayed') BY <2>1, <2>2 DEF SenderOK, Late
  <2>5. /\ wallet'.lockedTxs \subseteq relayed' /\ relayed \subseteq relayed'
        /\ \A q \in Senders \ {s} : sender[q].pc = "relay" => sender[q].tx \notin relayed'
        /\ \A q \in Senders \ {s} : sender[q].tx # r.tx
    BY Zenon, <1>3, <2>1, <2>2
  <2>6. SendInv' /\ sender'[s] = r /\ \A q \in Senders \ {s} : sender'[q] = sender[q]
    BY <2>3, <2>4, <2>5, SenderMovesOn
  <2>7. /\ Ins[r.tx] \subseteq HeldOf(wallet') /\ HeldOf(wallet) \subseteq HeldOf(wallet')
        /\ Keys(wallet'.unspent) \subseteq Keys(wallet.unspent)
        /\ wallet'.lockedTxs \subseteq wallet.lockedTxs \cup {r.tx}
    BY Zenon, <2>1, <2>2 DEF HeldOf
  <2>8. \A y \in wallet'.lockedTxs : y \notin {sender[s].tx, r.tx}
    <3>1. sender[s].tx = NoTx BY <1>2, <2>1
    <3> QED BY Zenon, <1>1, <1>3, <2>1, <2>2, <3>1
  <2>9. Quiet' => Inside(wallet', sender') /\ Covered(wallet', sender')
    BY Zenon, <1>1, <1>4, <2>6, <2>7, <2>8, SenderCovers
  <2> QED BY <2>6, <2>9 DEF LockInv
<1>6. CASE RelayTransaction(s)
  <2>1. /\ sender[s].pc = "relay" /\ UNCHANGED wallet
        /\ \/ sender' = [sender EXCEPT ![s] = Idle] /\ (relayed' = relayed \/ relayed' = relayed \cup {t})
           \/ /\ sender' = [sender EXCEPT ![s] = [pc |-> "relayed", tx |-> t, left |-> sender[s].left]]
              /\ relayed' = relayed \cup {t}
    BY <1>6 DEF RelayTransaction, SetSender
  <2>2. t \notin relayed /\ t # NoTx BY <1>2, <1>3, <2>1 DEF SenderOK
  <2> HIDE DEF t
  <2>3. /\ wallet'.lockedTxs \subseteq relayed' /\ relayed \subseteq relayed'
        /\ \A q \in Senders \ {s} : sender[q].pc = "relay" => sender[q].tx \notin relayed'
    <3>1. relayed' = relayed \/ relayed' = relayed \cup {t} BY Zenon, <2>1
    <3>2. \A q \in Senders \ {s} : sender[q].tx # t BY <1>3, <2>1
    <3> QED BY Zenon, <1>3, <2>1, <3>1, <3>2
  <2>4. /\ HeldOf(wallet) \subseteq HeldOf(wallet') /\ Keys(wallet'.unspent) \subseteq Keys(wallet.unspent)
        /\ wallet'.lockedTxs \subseteq wallet.lockedTxs /\ t \notin wallet'.lockedTxs
    BY Zenon, <1>3, <2>1, <2>2
  <2>5. CASE sender' = [sender EXCEPT ![s] = Idle]
    <3>1. SendInv' /\ sender'[s] = Idle /\ \A q \in Senders \ {s} : sender'[q] = sender[q]
      BY <1>i, <2>3, <2>5, SenderMovesOn
    <3>2. \A y \in wallet'.lockedTxs : y \notin {sender[s].tx, Idle.tx} BY Zenon, <1>1, <1>i, <2>4 DEF t
    <3>3. wallet'.lockedTxs \subseteq wallet.lockedTxs \cup {Idle.tx} BY Zenon, <2>4
    <3>4. Quiet' => Inside(wallet', sender') /\ Covered(wallet', sender')
      BY Zenon, <1>1, <1>4, <1>i, <2>4, <3>1, <3>2, <3>3, SenderCovers
    <3> QED BY <3>1, <3>4 DEF LockInv
  <2>6. CASE /\ sender' = [sender EXCEPT ![s] = [pc |-> "relayed", tx |-> t, left |-> sender[s].left]]
             /\ relayed' = relayed \cup {t}
    <3> DEFINE r == [pc |-> "relayed", tx |-> t, left |-> sender[s].left]
    <3>1. r.pc = "relayed" /\ r.tx = t /\ r.left = sender[s].left /\ sender' = [sender EXCEPT ![s] = r]
      BY <2>6
    <3> HIDE DEF r
    <3>2. SenderOK(r, relayed') BY <1>3, <2>1, <2>6, <3>1 DEF SenderOK, Late, t
    <3>3. \A q \in Senders \ {s} : sender[q].tx # r.tx BY <1>3, <2>1, <3>1
    <3>4. SendInv' /\ sender'[s] = r /\ \A q \in Senders \ {s} : sender'[q] = sender[q]
      BY <2>3, <3>1, <3>2, <3>3, SenderMovesOn
    <3>5. \A y \in wallet'.lockedTxs : y \notin {sender[s].tx, r.tx} BY Zenon, <2>4, <3>1 DEF t
    <3>6. wallet'.lockedTxs \subseteq wallet.lockedTxs \cup {r.tx} BY Zenon, <2>4
    <3>7. Inside(wallet, sender) => Ins[r.tx] \subseteq HeldOf(wallet')
      BY Zenon, <2>1, <2>2, <3>1 DEF Inside, t
    <3>8. Quiet' => Inside(wallet', sender') /\ Covered(wallet', sender')
      BY Zenon, <1>1, <1>4, <2>4, <3>4, <3>5, <3>6, <3>7, SenderCovers
    <3> QED BY <3>4, <3>8 DEF LockInv
  <2> QED BY Zenon, <2>1, <2>5, <2>6
<1>7. CASE StoreSentTransaction(s) \/ StoreUnconfirmedIncomingInputs(s)
  <2>1. PICK p \in {"stored", "lock"} :
            /\ sender[s].pc \in {"relayed", "stored"} /\ UNCHANGED relayed
            /\ sender' = [sender EXCEPT ![s] = [pc |-> p, tx |-> t, left |-> sender[s].left]]
    BY <1>7 DEF StoreSentTransaction, StoreUnconfirmedIncomingInputs, SetSender
  <2>2. /\ wallet'.unspent = wallet.unspent /\ wallet'.locked = wallet.locked
        /\ wallet'.spent = wallet.spent /\ wallet'.lockedTxs \subseteq wallet.lockedTxs \cup {t}
    BY <1>0, <1>7 DEF StoreSentTransaction, StoreUnconfirmedIncomingInputs, WalletRecords
  <2>3. t \in relayed /\ t # NoTx /\ sender[s].left = Ins[t]
    BY <1>2, <1>3, <2>1 DEF SenderOK, Late
  <2> DEFINE r == [pc |-> p, tx |-> t, left |-> sender[s].left]
  <2>4. r.pc = p /\ r.tx = t /\ r.left = Ins[t] /\ sender' = [sender EXCEPT ![s] = r]
    BY <2>1, <2>3
  <2>p. \A q \in Senders \ {s} : sender[q].tx # t BY <1>3, <2>1
  <2> HIDE DEF r, t
  <2>5. SenderOK(r, relayed') BY <2>1, <2>3, <2>4 DEF SenderOK, Late
  <2>6. /\ wallet'.lockedTxs \subseteq relayed' /\ relayed \subseteq relayed'
        /\ \A q \in Senders \ {s} : sender[q].pc = "relay" => sender[q].tx \notin relayed'
        /\ \A q \in Senders \ {s} : sender[q].tx # r.tx
    BY Zenon, <1>3, <2>1, <2>2, <2>3, <2>4, <2>p
  <2>7. SendInv' /\ sender'[s] = r /\ \A q \in Senders \ {s} : sender'[q] = sender[q]
    BY <2>4, <2>5, <2>6, SenderMovesOn
  <2>8. HeldOf(wallet') = HeldOf(wallet) /\ Keys(wallet'.unspent) \subseteq Keys(wallet.unspent)
    BY Zenon, <2>2 DEF HeldOf
  <2>9. Inside(wallet, sender) => Ins[r.tx] \subseteq HeldOf(wallet')
    BY Zenon, <2>3, <2>4, <2>8 DEF Inside, t
  <2>10. \A y \in wallet'.lockedTxs : y \in {sender[s].tx, r.tx} =>
             \A o \in Ins[y] \cap Keys(wallet'.unspent) : r.tx = y /\ o \in r.left
    BY Zenon, <2>4 DEF t
  <2>11. wallet'.lockedTxs \subseteq wallet.lockedTxs \cup {r.tx} BY Zenon, <2>2, <2>4
  <2>12. Quiet' => Inside(wallet', sender') /\ Covered(wallet', sender')
    BY Zenon, <1>1, <1>4, <2>7, <2>8, <2>9, <2>10, <2>11, SenderCovers
  <2> QED BY <2>7, <2>12 DEF LockInv
<1> QED BY <1>5, <1>6, <1>7

\* A sender locks an input, or finds it gone.
LEMMA SendersLock ==
    ASSUME TypeInv, TypeInv', ListInv, SendInv, LockInv, Quiet => Fresh, Quiet' => Quiet,
           NEW s \in Senders, LockInput(s)
    PROVE  SendInv' /\ LockInv'
<1> DEFINE t == sender[s].tx
           left == sender[s].left
<1>0. /\ wallet \in WalletRecords /\ wallet' \in WalletRecords
  BY TypeParts DEF TypeInv, WalletTyped
<1>1. NoTx \notin Own /\ NoTx \notin wallet'.lockedTxs BY <1>0, WalletAssumption, WalletFields
<1>i. Idle.pc = "idle" /\ Idle.tx = NoTx /\ SenderOK(Idle, relayed') BY DEF Idle, SenderOK, Late
<1>2. PICK o \in left :
          /\ sender[s].pc = "lock" /\ UNCHANGED relayed
          /\ IF o \in Keys(wallet.unspent)
             THEN /\ wallet' = MarkInputAsLocked(wallet, o)
                  /\ IF left = {o} THEN sender' = [sender EXCEPT ![s] = Idle]
                     ELSE sender' = [sender EXCEPT ![s] = [pc |-> "lock", tx |-> t, left |-> left \ {o}]]
             ELSE /\ slips' = slips \cup {"notFound"}
                  /\ sender' = [sender EXCEPT ![s] = Idle]
                  /\ UNCHANGED wallet
  BY DEF LockInput, SetSender
<1>3. /\ t # NoTx /\ t \in relayed /\ wallet.lockedTxs \subseteq relayed
      /\ \A q \in Senders \ {s} : sender[q].tx # t
      /\ \A q \in Senders \ {s} : sender[q].pc = "relay" => sender[q].tx \notin relayed
  <2>1. t # NoTx BY <1>2, SenderIs
  <2>2. t \in relayed BY <1>2 DEF SendInv, SenderOK, Late
  <2> QED BY Zenon, <2>1, <2>2 DEF SendInv, SenderOK
<1> HIDE DEF t, left
<1>4. CASE o \notin Keys(wallet.unspent)
  <2>1. sender' = [sender EXCEPT ![s] = Idle] /\ slips' = slips \cup {"notFound"} /\ wallet' = wallet
    BY Zenon, <1>2, <1>4
  <2>2. SendInv' BY <1>2, <1>3, <1>i, <2>1, SenderMovesOn
  <2>3. ~Quiet' BY Zenon, <2>1 DEF Quiet
  <2> QED BY Zenon, <2>2, <2>3 DEF LockInv
<1>5. CASE o \in Keys(wallet.unspent)
  <2>1. wallet' = MarkInputAsLocked(wallet, o) BY Zenon, <1>2, <1>5
  <2>2. /\ wallet'.lockedTxs = wallet.lockedTxs /\ Keys(wallet'.unspent) \subseteq Keys(wallet.unspent)
        /\ OpenOf(wallet') = OpenOf(wallet) /\ Keys(wallet'.spent) = Keys(wallet.spent)
        /\ Apart(wallet) => o \notin Keys(wallet'.unspent)
    BY <1>0, <1>5, <2>1, LockIs
  <2>3. HeldOf(wallet') = HeldOf(wallet)
    <3>1. /\ HeldOf(wallet) = OpenOf(wallet) \cup Keys(wallet.spent)
          /\ HeldOf(wallet') = OpenOf(wallet') \cup Keys(wallet'.spent)
      BY Zenon DEF HeldOf, OpenOf
    <3> QED BY Zenon, <2>2, <3>1
  <2>4. Quiet' => Apart(wallet) /\ Inside(wallet, sender) /\ Covered(wallet, sender)
    BY Zenon DEF ListInv, RestInv, HandInv, Exact, LockInv
  <2>5. Quiet' => \A y \in Ins[t] \cap Keys(wallet'.unspent) : t \in wallet.lockedTxs => y \in left /\ y # o
    <3> SUFFICES ASSUME Quiet', NEW y \in Ins[t] \cap Keys(wallet'.unspent), t \in wallet.lockedTxs
                 PROVE  y \in left /\ y # o
      BY Zenon
    <3>1. y # o /\ y \in Keys(wallet.unspent) BY Zenon, <2>2, <2>4
    <3>2. PICK q \in Senders : sender[q].tx = t /\ y \in sender[q].left BY Zenon, <2>4, <3>1 DEF Covered
    <3>3. q = s BY Zenon, <1>3, <3>2
    <3> QED BY Zenon, <3>1, <3>2, <3>3 DEF left
  <2>6. ASSUME NEW r, sender' = [sender EXCEPT ![s] = r], SenderOK(r, relayed'), r.tx \in {NoTx, t},
               \A y \in left \ {o} : r.tx = t /\ y \in r.left
        PROVE  SendInv' /\ LockInv'
    <3>1. \A q \in Senders \ {s} : r.tx = NoTx \/ sender[q].tx # r.tx BY Zenon, <1>3, <2>6
    <3>2. /\ wallet'.lockedTxs \subseteq relayed' /\ relayed \subseteq relayed'
          /\ \A q \in Senders \ {s} : sender[q].pc = "relay" => sender[q].tx \notin relayed'
      BY Zenon, <1>2, <1>3, <2>2
    <3>3. SendInv' /\ sender'[s] = r /\ \A q \in Senders \ {s} : sender'[q] = sender[q]
      BY <2>6, <3>1, <3>2, SenderMovesOn
    <3>4. ASSUME Quiet' PROVE Inside(wallet', sender') /\ Covered(wallet', sender')
      <4>1. Inside(wallet, sender) /\ Covered(wallet, sender) BY Zenon, <2>4, <3>4
      <4>2. r.tx # NoTx => Ins[r.tx] \subseteq HeldOf(wallet') BY Zenon, <2>3, <2>6, <4>1 DEF Inside, t
      <4>3. \A x \in wallet'.lockedTxs : x \in {sender[s].tx, r.tx} =>
                \A y \in Ins[x] \cap Keys(wallet'.unspent) : r.tx = x /\ y \in r.left
        <5> SUFFICES ASSUME NEW x \in wallet'.lockedTxs, x \in {sender[s].tx, r.tx},
                            NEW y \in Ins[x] \cap Keys(wallet'.unspent)
                     PROVE  r.tx = x /\ y \in r.left
          BY Zenon
        <5>1. x = t BY Zenon, <1>1, <2>6 DEF t
        <5>2. y \in left \ {o} BY Zenon, <2>2, <2>5, <3>4, <5>1
        <5> QED BY Zenon, <2>6, <5>1, <5>2
      <4>4. /\ HeldOf(wallet) \subseteq HeldOf(wallet') /\ Keys(wallet'.unspent) \subseteq Keys(wallet.unspent)
            /\ wallet'.lockedTxs \subseteq wallet.lockedTxs \cup {r.tx}
        BY Zenon, <2>2, <2>3
      <4> QED BY Zenon, <1>1, <3>3, <4>1, <4>2, <4>3, <4>4, SenderCovers
    <3> QED BY <3>3, <3>4 DEF LockInv
  <2>7. CASE left = {o}
    <3>1. sender' = [sender EXCEPT ![s] = Idle] BY Zenon, <1>2, <1>5, <2>7
    <3>2. left \ {o} = {} BY <2>7
    <3> QED BY Zenon, <1>i, <2>6, <3>1, <3>2
  <2>8. CASE left # {o}
    <3> DEFINE r == [pc |-> "lock", tx |-> t, left |-> left \ {o}]
    <3>1. r.pc = "lock" /\ r.tx = t /\ r.left = left \ {o} OBVIOUS
    <3>2. sender' = [sender EXCEPT ![s] = r] BY Zenon, <1>2, <1>5, <2>8
    <3> HIDE DEF r
    <3>3. SenderOK(r, relayed') BY <1>2, <1>3, <3>1 DEF SenderOK, Late
    <3> QED BY Zenon, <2>6, <3>1, <3>2, <3>3
  <2> QED BY <2>7, <2>8
<1> QED BY <1>4, <1>5

\* The daemon's steps, and what the user does with the wallet.
LEMMA SendersOther ==
    ASSUME TypeInv, SendInv, LockInv, Quiet' => Quiet,
           DaemonStep \/ GetDaemonInfo \/ FileStep \/ UNCHANGED vars
    PROVE  SendInv' /\ LockInv'
<1>0. wallet \in WalletRecords /\ file.wallet \in WalletRecords BY TypeParts
<1>1. CASE DaemonStep \/ GetDaemonInfo \/ Save \/ WriteFile \/ UNCHANGED vars
  <2>1. UNCHANGED <<wallet, sender, relayed>>
    BY <1>1, SaveIs DEF DaemonStep, ExtendChain, SwitchChain, DropFromPool, GetDaemonInfo, userVars,
       WriteFile, vars
  <2> QED BY <2>1, SendersSame
<1>2. CASE ResetSync
  <2>1. UNCHANGED <<sender, relayed>> /\ wallet' = ResetWallet(wallet) /\ Interrupted("reset")
    BY <1>2, SaveIs
  <2>2. wallet'.lockedTxs = {} BY <1>0, <2>1, ResetIs
  <2>3. ~Quiet'
    <3>1. interruptions \in [save : Nat, reset : Nat, open : Nat] BY DEF TypeInv, WalletTyped
    <3>2. interruptions'.reset # 0 BY <2>1, <3>1 DEF Interrupted
    <3> QED BY Zenon, <3>2 DEF Quiet
  <2>4. SendInv' BY Zenon, <2>1, <2>2 DEF SendInv
  <2> QED BY Zenon, <2>3, <2>4 DEF LockInv
<1>3. CASE OpenWallet
  <2>1. /\ \/ wallet' = ReadWallet(file.wallet)
           \/ wallet' = EmptyWallet
        /\ sender' = [s \in Senders |-> Idle]
    BY <1>3, OpenIs
  <2>2. wallet'.lockedTxs = {}
    <3>1. CASE wallet' = EmptyWallet BY <3>1 DEF EmptyWallet
    <3>2. CASE wallet' = ReadWallet(file.wallet) BY <1>0, <3>2, ReadIs
    <3> QED BY <2>1, <3>1, <3>2
  <2>3. \A s \in Senders : sender'[s] = Idle BY <2>1
  <2>4. Idle.tx = NoTx /\ SenderOK(Idle, relayed') BY DEF Idle, SenderOK, Late
  <2>5. SendInv' BY Zenon, <2>2, <2>3, <2>4 DEF SendInv
  <2>6. Inside(wallet', sender') /\ Covered(wallet', sender')
    BY Zenon, <2>2, <2>3, <2>4 DEF Inside, Covered
  <2> QED BY Zenon, <2>5, <2>6 DEF LockInv
<1> QED BY <1>1, <1>2, <1>3 DEF FileStep

\* Nothing is under way at first.
LEMMA SendInit == ASSUME Init PROVE SendInv /\ LockInv
<1>1. wallet.lockedTxs = {} /\ \A s \in Senders : sender[s] = Idle BY DEF Init, EmptyWallet
<1>2. Idle.tx = NoTx /\ SenderOK(Idle, relayed) BY DEF Idle, SenderOK, Late
<1>3. SendInv BY Zenon, <1>1, <1>2 DEF SendInv
<1>4. Inside(wallet, sender) /\ Covered(wallet, sender) BY Zenon, <1>1, <1>2 DEF Inside, Covered
<1> QED BY <1>3, <1>4 DEF LockInv

\* The invariant of the senders.
LEMMA SendInvariant == Spec => [](SendInv /\ LockInv)
<1>1. Init => SendInv /\ LockInv BY SendInit
<1>2. ASSUME TypeInv, TypeInv', ListInv, SendInv, LockInv, [Next]_vars PROVE SendInv' /\ LockInv'
  <2>1. (Quiet => Fresh) /\ (Quiet' => Quiet) BY <1>2, QuietIs
  <2>2. CASE ThreadStep BY <1>2, <2>1, <2>2, SendersScan
  <2>3. CASE DaemonStep \/ GetDaemonInfo \/ FileStep \/ UNCHANGED vars BY <1>2, <2>1, <2>3, SendersOther
  <2>4. ASSUME NEW s \in Senders, GetTransactionInputs(s) \/ SendStep(s) PROVE SendInv' /\ LockInv'
    BY <1>2, <2>1, <2>4, SendersSend, SendersLock DEF SendStep
  <2> QED BY Zenon, <1>2, <2>2, <2>3, <2>4 DEF Next, ThreadStep, FileStep
<1> QED BY <1>1, <1>2, ListInvariant, PTL DEF Spec

\* While the record of an unconfirmed transaction stands and its send has
\* returned, none of its inputs is on offer: for every number of senders that
\* share inputs, every block tree, and every pattern of switches, saves, kills,
\* reopenings, lost replies and drops from the pool.  It holds up to the first
\* reset and the first slip: a fork while something is under way, a cancelled
\* transaction that made a locked input, a send that finds an input gone, or a
\* loss of the scan.
THEOREM InFlightStaysLocked == Spec => []InFlightNotOffered
<1>1. ASSUME LockInv PROVE InFlightNotOffered
  <2> SUFFICES ASSUME Quiet, NEW t \in wallet.lockedTxs, \A s \in Senders : sender[s].tx # t
               PROVE  Ins[t] \cap Keys(wallet.unspent) = {}
    BY Zenon DEF InFlightNotOffered, Quiet
  <2>1. ASSUME NEW o \in Ins[t] \cap Keys(wallet.unspent) PROVE FALSE
    BY Zenon, <1>1, <2>1 DEF LockInv, Covered
  <2> QED BY Zenon, <2>1
<1> QED BY <1>1, SendInvariant, PTL
=============================================================================
