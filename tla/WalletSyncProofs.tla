-------------------------- MODULE WalletSyncProofs --------------------------
(***************************************************************************)
(* Proofs about the wallet, for every block tree, transactions, number of  *)
(* senders and pattern of switches, saves, kills and resets: what a chain  *)
(* and the operations on the lists of inputs compute, and the types of the *)
(* state.                                                                  *)
(***************************************************************************)
EXTENDS WalletSync, FiniteNaturals

\* What is used of the assumptions: a block's height is a natural,
LEMMA Heights == \A b \in Blocks : HeightOf[b] \in Nat
BY WalletAssumption

\* the scan starts above the first block,
LEMMA Starts == StartHeight \in Nat \ {0}
BY WalletAssumption

\* and a block holds transactions.
LEMMA BlockTxs == \A b \in Blocks : TxsOf[b] \subseteq Txs
BY WalletAssumption

(* The chain to a block *)

\* The least set of blocks that holds b and the parents of its members.
ParentClosure(b) ==
    {c \in Blocks :
        \A X \in SUBSET Blocks : (b \in X /\ \A x \in X : Parent[x] \in X) => c \in X}

\* The closure of a block is the block and the closure of its parent.
LEMMA ParentClosureStep ==
    ASSUME NEW b \in Blocks
    PROVE  ParentClosure(b) = {b} \cup (IF Parent[b] = b THEN {} ELSE ParentClosure(Parent[b]))
<1>0. Parent[b] \in Blocks /\ \A x \in Blocks : Parent[x] \in Blocks BY WalletAssumption
<1>1. b \in ParentClosure(b) BY DEF ParentClosure
<1>2. CASE Parent[b] = b
  <2>1. {b} \in SUBSET Blocks OBVIOUS
  <2> QED BY Zenon, <1>1, <1>2, <2>1 DEF ParentClosure
<1>3. CASE Parent[b] # b
  <2>1. ParentClosure(Parent[b]) \subseteq ParentClosure(b) BY <1>0 DEF ParentClosure
  <2> DEFINE X == {b} \cup ParentClosure(Parent[b])
  <2>2. X \in SUBSET Blocks BY DEF ParentClosure
  <2>3. \A x \in X : Parent[x] \in X BY <1>0 DEF ParentClosure
  <2>4. ParentClosure(b) \subseteq X BY Zenon, <2>2, <2>3 DEF ParentClosure
  <2> QED BY <1>1, <1>3, <2>1, <2>4
<1> QED BY <1>2, <1>3

\* The recursive definition of ChainTo has a solution, so ChainTo is one.
LEMMA ChainToStep ==
    \A b \in Blocks : ChainTo[b] = {b} \cup (IF Parent[b] = b THEN {} ELSE ChainTo[Parent[b]])
<1> DEFINE Solves(f) ==
      f = [b \in Blocks |-> {b} \cup (IF Parent[b] = b THEN {} ELSE f[Parent[b]])]
<1>1. \E f : Solves(f)
  <2> DEFINE h == [b \in Blocks |-> ParentClosure(b)]
  <2>1. \A b \in Blocks : h[b] = {b} \cup (IF Parent[b] = b THEN {} ELSE h[Parent[b]])
    BY ParentClosureStep, WalletAssumption
  <2>2. h = [b \in Blocks |-> h[b]] OBVIOUS
  <2> HIDE DEF h
  <2>3. Solves(h) BY <2>1, <2>2
  <2> QED BY <2>3
<1>2. Solves(CHOOSE f : Solves(f)) BY Zenon, <1>1
<1>3. ChainTo = CHOOSE f : Solves(f) BY DEF ChainTo
<1>4. Solves(ChainTo) BY Zenon, <1>2, <1>3
<1> QED BY <1>4

\* What the chain to x is: one block for every height up to that of x.
ChainShape(x) ==
    /\ ChainTo[x] \subseteq Blocks /\ x \in ChainTo[x]
    /\ \A c \in ChainTo[x] : HeightOf[c] <= HeightOf[x]
    /\ \A h \in 0 .. HeightOf[x] : \E c \in ChainTo[x] : HeightOf[c] = h
    /\ \A c, d \in ChainTo[x] : HeightOf[c] = HeightOf[d] => c = d
    /\ \A c \in ChainTo[x] : ChainTo[c] = {d \in ChainTo[x] : HeightOf[d] <= HeightOf[c]}

\* One step up keeps the shape of a chain.
LEMMA ChainShapeStep ==
    ASSUME NEW x \in Blocks, Parent[x] # x, ChainShape(Parent[x])
    PROVE  ChainShape(x)
<1>1. /\ Parent[x] \in Blocks /\ HeightOf[x] = HeightOf[Parent[x]] + 1
      /\ HeightOf[Parent[x]] \in Nat /\ \A b \in Blocks : HeightOf[b] \in Nat
  BY WalletAssumption
<1>2. ChainTo[x] = {x} \cup ChainTo[Parent[x]] BY ChainToStep
<1>3. ChainTo[x] \subseteq Blocks /\ x \in ChainTo[x] BY <1>2 DEF ChainShape
<1>4. \A c \in ChainTo[Parent[x]] : HeightOf[c] \in Nat /\ HeightOf[c] < HeightOf[x]
  BY <1>1 DEF ChainShape
<1>5. \A c \in ChainTo[x] : HeightOf[c] <= HeightOf[x] BY <1>1, <1>2, <1>4
<1>6. \A h \in 0 .. HeightOf[x] : \E c \in ChainTo[x] : HeightOf[c] = h
  <2> TAKE h \in 0 .. HeightOf[x]
  <2>1. h = HeightOf[x] \/ h \in 0 .. HeightOf[Parent[x]] BY <1>1
  <2> QED BY <1>2, <2>1 DEF ChainShape
<1>7. \A c, d \in ChainTo[x] : HeightOf[c] = HeightOf[d] => c = d
  BY <1>1, <1>2, <1>4 DEF ChainShape
<1>8. ASSUME NEW c \in ChainTo[x]
      PROVE  ChainTo[c] = {d \in ChainTo[x] : HeightOf[d] <= HeightOf[c]}
  <2>1. CASE c = x BY <1>5, <2>1
  <2>2. CASE c \in ChainTo[Parent[x]]
    <3>1. ~ (HeightOf[x] <= HeightOf[c]) BY <1>1, <1>4, <2>2
    <3>2. ChainTo[c] = {d \in ChainTo[Parent[x]] : HeightOf[d] <= HeightOf[c]}
      BY <2>2 DEF ChainShape
    <3> QED BY <1>2, <3>1, <3>2
  <2> QED BY <1>2, <2>1, <2>2
<1> QED BY <1>3, <1>5, <1>6, <1>7, <1>8 DEF ChainShape

\* Every chain has that shape: a block of least height without it does not
\* exist.
LEMMA ChainShapes == \A x \in Blocks : ChainShape(x)
<1> DEFINE Bad == {x \in Blocks : ~ChainShape(x)}
           S == {HeightOf[x] : x \in Bad}
<1>1. S \in SUBSET Nat BY WalletAssumption
<1>2. ASSUME NEW y \in Bad PROVE FALSE
  <2>1. HeightOf[y] \in S OBVIOUS
  <2>2. PICK m \in S : \A k \in S : m <= k
    <3> HIDE DEF S
    <3> QED BY Zenon, <1>1, <2>1, LeastNat
  <2>3. PICK x \in Bad : m = HeightOf[x] BY <2>2
  <2>4. x \in Blocks /\ ~ChainShape(x) BY <2>3
  <2>5. CASE Parent[x] = x
    <3>1. HeightOf[x] = 0 BY <2>4, <2>5, WalletAssumption
    <3>2. ChainTo[x] = {x} BY <2>4, <2>5, ChainToStep
    <3> QED BY <2>4, <3>1, <3>2 DEF ChainShape
  <2>6. CASE Parent[x] # x
    <3>1. /\ Parent[x] \in Blocks /\ HeightOf[x] = HeightOf[Parent[x]] + 1
          /\ HeightOf[Parent[x]] \in Nat
      BY <2>4, <2>6, WalletAssumption
    <3>2. Parent[x] \in Bad => HeightOf[Parent[x]] \in S OBVIOUS
    <3>3. Parent[x] \notin Bad
      <4> HIDE DEF S, Bad
      <4> QED BY <2>2, <2>3, <3>1, <3>2
    <3>4. ChainShape(Parent[x]) BY <3>1, <3>3
    <3> QED BY <2>4, <2>6, <3>4, ChainShapeStep
  <2> QED BY <2>5, <2>6
<1> QED BY <1>2

\* The block of a chain at a height.
LEMMA BlockAtIs ==
    ASSUME NEW b \in Blocks, NEW h \in 0 .. HeightOf[b]
    PROVE  BlockAt(b, h) \in ChainTo[b] /\ BlockAt(b, h) \in Blocks /\ HeightOf[BlockAt(b, h)] = h
<1>1. \E c \in ChainTo[b] : HeightOf[c] = h BY ChainShapes DEF ChainShape
<1>2. BlockAt(b, h) \in ChainTo[b] /\ HeightOf[BlockAt(b, h)] = h BY Zenon, <1>1 DEF BlockAt
<1> QED BY <1>2, ChainShapes DEF ChainShape
-----------------------------------------------------------------------------
(* Lists of inputs *)

\* No output twice in a list.
Distinct(q) == \A i, j \in DOMAIN q : q[i].out = q[j].out => i = j

\* The inputs in a list.
Entries(q) == {q[i] : i \in DOMAIN q}

\* Adding an input at the end of a list adds its output.
LEMMA AppendIs ==
    ASSUME NEW q \in Seq(InputRecords), NEW r \in InputRecords
    PROVE  /\ Append(q, r) \in Seq(InputRecords)
           /\ Keys(Append(q, r)) = Keys(q) \cup {r.out}
           /\ Entries(Append(q, r)) = Entries(q) \cup {r}
           /\ Distinct(q) /\ r.out \notin Keys(q) => Distinct(Append(q, r))
<1> DEFINE a == Append(q, r)
           n == Len(q)
<1>1. /\ n \in Nat /\ DOMAIN q = 1 .. n /\ DOMAIN a = 1 .. n + 1
      /\ a \in Seq(InputRecords) /\ a[n + 1] = r /\ \A i \in 1 .. n : a[i] = q[i]
  OBVIOUS
<1> HIDE DEF a, n
<1>2. \A i \in 1 .. n + 1 : i \in 1 .. n \/ i = n + 1 BY <1>1
<1>3. \A i \in 1 .. n : i \in 1 .. n + 1 BY <1>1
<1>4. n + 1 \in 1 .. n + 1 BY <1>1
<1>5. Keys(a) = Keys(q) \cup {r.out}
  <2>1. ASSUME NEW o \in Keys(a) PROVE o \in Keys(q) \cup {r.out}
    <3>1. PICK i \in 1 .. n + 1 : o = a[i].out BY <1>1, <2>1 DEF Keys
    <3> QED BY <1>1, <1>2, <3>1 DEF Keys
  <2>2. ASSUME NEW o \in Keys(q) PROVE o \in Keys(a)
    <3>1. PICK i \in 1 .. n : o = q[i].out BY <1>1, <2>2 DEF Keys
    <3> QED BY <1>1, <1>3, <3>1 DEF Keys
  <2>3. r.out \in Keys(a) BY <1>1, <1>4 DEF Keys
  <2> QED BY <2>1, <2>2, <2>3
<1>6. ASSUME Distinct(q), r.out \notin Keys(q) PROVE Distinct(a)
  <2>1. \A i \in 1 .. n : q[i].out # r.out BY Zenon, <1>1, <1>6 DEF Keys
  <2>2. \A i, j \in 1 .. n : q[i].out = q[j].out => i = j BY Zenon, <1>1, <1>6 DEF Distinct
  <2>3. \A i, j \in 1 .. n + 1 : a[i].out = a[j].out => i = j
    BY Zenon, <1>1, <1>2, <2>1, <2>2
  <2> QED BY Zenon, <1>1, <2>3 DEF Distinct
<1>7. a \in Seq(InputRecords) BY Zenon, <1>1
<1>8. Entries(a) = Entries(q) \cup {r}
  <2>1. ASSUME NEW x \in Entries(a) PROVE x \in Entries(q) \cup {r}
    <3>1. PICK i \in 1 .. n + 1 : x = a[i] BY <1>1, <2>1 DEF Entries
    <3> QED BY Zenon, <1>1, <1>2, <3>1 DEF Entries
  <2>2. ASSUME NEW x \in Entries(q) PROVE x \in Entries(a)
    <3>1. PICK i \in 1 .. n : x = q[i] BY <1>1, <2>2 DEF Entries
    <3> QED BY Zenon, <1>1, <1>3, <3>1 DEF Entries
  <2>3. r \in Entries(a) BY Zenon, <1>1, <1>4 DEF Entries
  <2> QED BY Zenon, <2>1, <2>2, <2>3
<1> QED BY Zenon, <1>5, <1>6, <1>7, <1>8 DEF a

\* Joining two lists joins their outputs.
LEMMA ConcatIs ==
    ASSUME NEW q \in Seq(InputRecords), NEW r \in Seq(InputRecords)
    PROVE  /\ q \o r \in Seq(InputRecords)
           /\ Keys(q \o r) = Keys(q) \cup Keys(r)
           /\ Entries(q \o r) = Entries(q) \cup Entries(r)
           /\ Distinct(q) /\ Distinct(r) /\ Keys(q) \cap Keys(r) = {} => Distinct(q \o r)
<1> DEFINE a == q \o r
           m == Len(q)
           n == Len(r)
<1>1. /\ m \in Nat /\ n \in Nat /\ DOMAIN q = 1 .. m /\ DOMAIN r = 1 .. n
      /\ DOMAIN a = 1 .. m + n /\ a \in Seq(InputRecords)
      /\ \A i \in 1 .. m + n : a[i] = IF i <= m THEN q[i] ELSE r[i - m]
  OBVIOUS
<1> HIDE DEF a, m, n
<1>2. \A i \in 1 .. m : i \in 1 .. m + n /\ a[i] = q[i] BY <1>1
<1>3. \A i \in 1 .. n : m + i \in 1 .. m + n /\ a[m + i] = r[i] BY <1>1
<1>4. ASSUME NEW i \in 1 .. m + n
      PROVE  (i \in 1 .. m /\ a[i] = q[i]) \/ (\E k \in 1 .. n : i = m + k /\ a[i] = r[k])
  <2>1. CASE i <= m BY <1>1, <2>1
  <2>2. CASE ~ (i <= m)
    <3>1. i - m \in 1 .. n /\ i = m + (i - m) /\ a[i] = r[i - m] BY <1>1, <2>2
    <3> QED BY <3>1
  <2> QED BY <2>1, <2>2
<1>5. Keys(a) = Keys(q) \cup Keys(r)
  <2>1. ASSUME NEW o \in Keys(a) PROVE o \in Keys(q) \cup Keys(r)
    <3>1. PICK i \in 1 .. m + n : o = a[i].out BY <1>1, <2>1 DEF Keys
    <3> QED BY Zenon, <1>1, <1>4, <3>1 DEF Keys
  <2>2. ASSUME NEW o \in Keys(q) PROVE o \in Keys(a)
    <3>1. PICK i \in 1 .. m : o = q[i].out BY <1>1, <2>2 DEF Keys
    <3> QED BY Zenon, <1>1, <1>2, <3>1 DEF Keys
  <2>3. ASSUME NEW o \in Keys(r) PROVE o \in Keys(a)
    <3>1. PICK i \in 1 .. n : o = r[i].out BY <1>1, <2>3 DEF Keys
    <3> QED BY Zenon, <1>1, <1>3, <3>1 DEF Keys
  <2> QED BY <2>1, <2>2, <2>3
<1>6. ASSUME Distinct(q), Distinct(r), Keys(q) \cap Keys(r) = {} PROVE Distinct(a)
  <2>1. \A i \in 1 .. m, k \in 1 .. n : q[i].out # r[k].out BY Zenon, <1>1, <1>6 DEF Keys
  <2>2. \A i, j \in 1 .. m : q[i].out = q[j].out => i = j BY Zenon, <1>1, <1>6 DEF Distinct
  <2>3. \A i, j \in 1 .. n : r[i].out = r[j].out => i = j BY Zenon, <1>1, <1>6 DEF Distinct
  <2>4. ASSUME NEW i \in 1 .. m + n, NEW j \in 1 .. m + n, a[i].out = a[j].out PROVE i = j
    <3>1. CASE i \in 1 .. m /\ a[i] = q[i]
      <4>1. CASE j \in 1 .. m /\ a[j] = q[j] BY Zenon, <2>2, <2>4, <3>1, <4>1
      <4>2. CASE \E k \in 1 .. n : j = m + k /\ a[j] = r[k] BY Zenon, <2>1, <2>4, <3>1, <4>2
      <4> QED BY Zenon, <1>4, <4>1, <4>2
    <3>2. CASE \E k \in 1 .. n : i = m + k /\ a[i] = r[k]
      <4>1. PICK k \in 1 .. n : i = m + k /\ a[i] = r[k] BY <3>2
      <4>2. CASE j \in 1 .. m /\ a[j] = q[j] BY Zenon, <2>1, <2>4, <4>1, <4>2
      <4>3. CASE \E l \in 1 .. n : j = m + l /\ a[j] = r[l]
        <5>1. PICK l \in 1 .. n : j = m + l /\ a[j] = r[l] BY <4>3
        <5>2. k = l BY Zenon, <2>3, <2>4, <4>1, <5>1
        <5> QED BY Zenon, <4>1, <5>1, <5>2
      <4> QED BY Zenon, <1>4, <4>2, <4>3
    <3> QED BY Zenon, <1>4, <3>1, <3>2
  <2> QED BY Zenon, <1>1, <2>4 DEF Distinct
<1>7. a \in Seq(InputRecords) BY <1>1
<1>8. Entries(a) = Entries(q) \cup Entries(r)
  <2>1. ASSUME NEW x \in Entries(a) PROVE x \in Entries(q) \cup Entries(r)
    <3>1. PICK i \in 1 .. m + n : x = a[i] BY <1>1, <2>1 DEF Entries
    <3> QED BY Zenon, <1>1, <1>4, <3>1 DEF Entries
  <2>2. ASSUME NEW x \in Entries(q) PROVE x \in Entries(a)
    <3>1. PICK i \in 1 .. m : x = q[i] BY <1>1, <2>2 DEF Entries
    <3> QED BY Zenon, <1>1, <1>2, <3>1 DEF Entries
  <2>3. ASSUME NEW x \in Entries(r) PROVE x \in Entries(a)
    <3>1. PICK i \in 1 .. n : x = r[i] BY <1>1, <2>3 DEF Entries
    <3> QED BY Zenon, <1>1, <1>3, <3>1 DEF Entries
  <2> QED BY Zenon, <2>1, <2>2, <2>3
<1> QED BY Zenon, <1>5, <1>6, <1>7, <1>8 DEF a

\* The place of an output that a list holds.
LEMMA FindIs ==
    ASSUME NEW q \in Seq(InputRecords), NEW o \in Keys(q)
    PROVE  Find(q, o) \in DOMAIN q /\ q[Find(q, o)].out = o
<1> DEFINE S == {i \in DOMAIN q : q[i].out = o}
<1>1. S \in SUBSET Nat OBVIOUS
<1>2. PICK i \in DOMAIN q : o = q[i].out BY DEF Keys
<1>3. PICK k \in S : \A j \in S : k <= j
  <2>1. i \in S BY <1>2
  <2> HIDE DEF S
  <2> QED BY <1>1, <2>1, LeastNat
<1>4. \E k2 \in DOMAIN q : q[k2].out = o /\ \A j \in DOMAIN q : q[j].out = o => k2 <= j
  BY Zenon, <1>3
<1> QED BY Zenon, <1>4 DEF Find

\* Erasing an input of a list.
LEMMA RemoveIs ==
    ASSUME NEW q \in Seq(InputRecords), NEW p \in DOMAIN q
    PROVE  /\ Erase(q, p) \in Seq(InputRecords)
           /\ Keys(q) \ {q[p].out} \subseteq Keys(Erase(q, p))
           /\ Keys(Erase(q, p)) \subseteq Keys(q)
           /\ Entries(q) \ {q[p]} \subseteq Entries(Erase(q, p))
           /\ Entries(Erase(q, p)) \subseteq Entries(q)
           /\ Distinct(q) => Distinct(Erase(q, p)) /\ q[p].out \notin Keys(Erase(q, p))
<1> DEFINE a == Erase(q, p)
           n == Len(q)
<1>1. n \in Nat /\ DOMAIN q = 1 .. n /\ p \in 1 .. n OBVIOUS
<1>2. a = SubSeq(q, 1, p - 1) \o SubSeq(q, p + 1, n) BY DEF Erase
<1>3. /\ a \in Seq(InputRecords) /\ DOMAIN a = 1 .. n - 1
      /\ \A i \in 1 .. n - 1 : a[i] = IF i < p THEN q[i] ELSE q[i + 1]
  <2> DEFINE b == SubSeq(q, 1, p - 1)
             c == SubSeq(q, p + 1, n)
  <2>1. /\ b \in Seq(InputRecords) /\ Len(b) = p - 1 /\ \A i \in 1 .. p - 1 : b[i] = q[i]
    BY <1>1
  <2>2. /\ c \in Seq(InputRecords) /\ Len(c) = n - p /\ \A i \in 1 .. n - p : c[i] = q[p + i]
    BY <1>1
  <2>3. a = b \o c BY <1>2
  <2> HIDE DEF a, b, c, n
  <2>4. /\ a \in Seq(InputRecords) /\ Len(a) = n - 1
        /\ \A i \in 1 .. n - 1 : a[i] = IF i <= p - 1 THEN b[i] ELSE c[i - (p - 1)]
    <3>1. b \in Seq(InputRecords) /\ c \in Seq(InputRecords) BY <2>1, <2>2
    <3>2. /\ a \in Seq(InputRecords) /\ Len(a) = Len(b) + Len(c)
          /\ \A i \in 1 .. Len(b) + Len(c) : a[i] = IF i <= Len(b) THEN b[i] ELSE c[i - Len(b)]
      BY <2>3, <3>1
    <3>3. Len(b) = p - 1 /\ Len(b) + Len(c) = n - 1 BY <1>1, <2>1, <2>2
    <3> QED BY Zenon, <3>2, <3>3
  <2>5. ASSUME NEW i \in 1 .. n - 1 PROVE a[i] = IF i < p THEN q[i] ELSE q[i + 1]
    <3>1. CASE i < p BY <1>1, <2>1, <2>4, <3>1
    <3>2. CASE ~ (i < p)
      <4>1. i - (p - 1) \in 1 .. n - p /\ p + (i - (p - 1)) = i + 1 /\ ~ (i <= p - 1) BY <1>1, <3>2
      <4> QED BY <2>2, <2>4, <3>2, <4>1
    <3> QED BY <3>1, <3>2
  <2> QED BY <1>1, <2>4, <2>5
<1> HIDE DEF a, n
<1>4. ASSUME NEW i \in 1 .. n - 1
      PROVE  \E k \in 1 .. n : k # p /\ a[i] = q[k] /\ (k < p => i = k) /\ (k > p => i = k - 1)
  <2>1. CASE i < p BY <1>1, <1>3, <2>1
  <2>2. CASE ~ (i < p)
    <3>1. i + 1 \in 1 .. n /\ i + 1 > p /\ a[i] = q[i + 1] /\ i = (i + 1) - 1 BY <1>1, <1>3, <2>2
    <3> QED BY <1>1, <3>1
  <2> QED BY <2>1, <2>2
<1>5. ASSUME NEW k \in 1 .. n, k # p PROVE \E i \in 1 .. n - 1 : a[i] = q[k]
  <2>1. CASE k < p BY <1>1, <1>3, <2>1
  <2>2. CASE ~ (k < p)
    <3>1. k - 1 \in 1 .. n - 1 /\ ~ (k - 1 < p) /\ (k - 1) + 1 = k BY <1>1, <1>5, <2>2
    <3>2. a[k - 1] = q[k] BY <1>3, <3>1
    <3> QED BY <3>1, <3>2
  <2> QED BY <2>1, <2>2
<1>6. ASSUME NEW o \in Keys(q), o # q[p].out PROVE o \in Keys(a)
  <2>1. PICK k \in 1 .. n : o = q[k].out BY <1>1 DEF Keys
  <2>2. PICK i \in 1 .. n - 1 : a[i] = q[k] BY <1>5, <1>6, <2>1
  <2> QED BY <1>3, <2>1, <2>2 DEF Keys
<1>7. ASSUME NEW o \in Keys(a) PROVE \E k \in 1 .. n : k # p /\ o = q[k].out
  <2>1. PICK i \in 1 .. n - 1 : o = a[i].out BY <1>3 DEF Keys
  <2> QED BY <1>4, <2>1
<1>9. Keys(a) \subseteq Keys(q) BY Zenon, <1>1, <1>7 DEF Keys
<1>8. ASSUME Distinct(q) PROVE Distinct(a) /\ q[p].out \notin Keys(a)
  <2>1. \A i, j \in 1 .. n : q[i].out = q[j].out => i = j BY Zenon, <1>1, <1>8 DEF Distinct
  <2>2. q[p].out \notin Keys(a) BY Zenon, <1>1, <1>7, <2>1
  <2>3. ASSUME NEW i \in 1 .. n - 1, NEW j \in 1 .. n - 1, a[i].out = a[j].out PROVE i = j
    <3>1. PICK k \in 1 .. n : k # p /\ a[i] = q[k] /\ (k < p => i = k) /\ (k > p => i = k - 1)
      BY <1>4
    <3>2. PICK l \in 1 .. n : l # p /\ a[j] = q[l] /\ (l < p => j = l) /\ (l > p => j = l - 1)
      BY Zenon, <1>4
    <3>3. k = l BY Zenon, <2>1, <2>3, <3>1, <3>2
    <3> QED BY <1>1, <3>1, <3>2, <3>3
  <2> QED BY Zenon, <1>3, <2>2, <2>3 DEF Distinct
<1>10. a \in Seq(InputRecords) BY <1>3
<1>11. ASSUME NEW x \in Entries(q), x # q[p] PROVE x \in Entries(a)
  <2>1. PICK k \in 1 .. n : x = q[k] BY <1>1 DEF Entries
  <2>2. PICK i \in 1 .. n - 1 : a[i] = q[k] BY <1>5, <1>11, <2>1
  <2> QED BY Zenon, <1>3, <2>1, <2>2 DEF Entries
<1>12. ASSUME NEW x \in Entries(a) PROVE x \in Entries(q)
  <2>1. PICK i \in 1 .. n - 1 : x = a[i] BY <1>3 DEF Entries
  <2> QED BY Zenon, <1>1, <1>4, <2>1 DEF Entries
<1> QED BY Zenon, <1>6, <1>8, <1>9, <1>10, <1>11, <1>12 DEF a

\* The ranks of a finite set of places: Nth is a one-to-one map from them to
\* the places.
LEMMA NthIs ==
    ASSUME NEW at \in SUBSET Nat, IsFiniteSet(at)
    PROVE  /\ Cardinality(at) \in Nat
           /\ \A k \in 1 .. Cardinality(at) : Nth(at, k) \in at
           /\ \A k, l \in 1 .. Cardinality(at) : Nth(at, k) = Nth(at, l) => k = l
           /\ \A i \in at : \E k \in 1 .. Cardinality(at) : Nth(at, k) = i
<1> DEFINE rank(i) == Cardinality({j \in at : j <= i})
           n == Cardinality(at)
<1>1. n \in Nat BY FS_CardinalityType
<1>2. ASSUME NEW k \in 1 .. n PROVE Nth(at, k) \in at /\ rank(Nth(at, k)) = k
  <2>1. \E i \in at : Cardinality({j \in at : j <= i}) = k BY RankTaken
  <2> QED BY Zenon, <2>1 DEF Nth
<1>3. ASSUME NEW k \in 1 .. n, NEW l \in 1 .. n, Nth(at, k) = Nth(at, l) PROVE k = l
  <2> HIDE DEF rank
  <2> QED BY Zenon, <1>2, <1>3
<1>4. ASSUME NEW i \in at PROVE rank(i) \in 1 .. n
  <2> DEFINE U == {j \in at : j <= i}
  <2>1. U \in SUBSET at /\ i \in U OBVIOUS
  <2>2. U # {} BY <2>1
  <2> HIDE DEF U
  <2>3. IsFiniteSet(U) /\ Cardinality(U) <= n BY Zenon, <2>1, FS_Subset
  <2>4. Cardinality(U) \in Nat /\ Cardinality(U) # 0 BY <2>2, <2>3, FS_CardinalityType, FS_EmptySet
  <2>5. Cardinality(U) \in 1 .. n
    <3> HIDE DEF n
    <3> QED BY <1>1, <2>3, <2>4
  <2> QED BY <2>5 DEF U
<1>5. ASSUME NEW i \in at, NEW m \in at, i < m PROVE rank(i) # rank(m)
  <2> DEFINE U(x) == {j \in at : j <= x}
  <2>1. i \in Nat /\ m \in Nat OBVIOUS
  <2>2. U(i) \in SUBSET U(m) /\ m \in U(m) /\ m \notin U(i)
    <3>1. \A j \in at : j <= i => j <= m BY <1>5, <2>1
    <3>2. m <= m /\ ~ (m <= i) BY <1>5, <2>1
    <3> QED BY Zenon, <3>1, <3>2
  <2>3. U(m) \in SUBSET at OBVIOUS
  <2>4. U(i) # U(m) BY Zenon, <2>2
  <2> HIDE DEF U
  <2>5. IsFiniteSet(U(m)) BY <2>3, FS_Subset
  <2>6. Cardinality(U(i)) # Cardinality(U(m)) BY <2>2, <2>4, <2>5, FS_Subset
  <2> QED BY <2>6 DEF U
<1>6. ASSUME NEW i \in at PROVE \E k \in 1 .. n : Nth(at, k) = i
  <2>1. rank(i) \in 1 .. n BY <1>4
  <2>2. PICK m \in at : m = Nth(at, rank(i)) /\ rank(m) = rank(i) BY Zenon, <1>2, <2>1
  <2> HIDE DEF rank
  <2>3. ~ (i < m) /\ ~ (m < i) BY Zenon, <1>5, <2>2
  <2>4. i = m
    <3>1. i \in Nat /\ m \in Nat OBVIOUS
    <3> QED BY <2>3, <3>1
  <2> QED BY <2>1, <2>2, <2>4
<1> HIDE DEF rank
<1> QED BY <1>1, <1>2, <1>3, <1>6

\* The inputs at some places of a list.
LEMMA SublistIs ==
    ASSUME NEW q \in Seq(InputRecords), NEW at \in SUBSET DOMAIN q
    PROVE  /\ Sublist(q, at) \in Seq(InputRecords)
           /\ Keys(Sublist(q, at)) = {q[i].out : i \in at}
           /\ Entries(Sublist(q, at)) = {q[i] : i \in at}
           /\ Distinct(q) => Distinct(Sublist(q, at))
<1> DEFINE a == Sublist(q, at)
           n == Cardinality(at)
<1>1. at \in SUBSET Nat /\ IsFiniteSet(at)
  <2>1. PICK m \in Nat : DOMAIN q = 1 .. m OBVIOUS
  <2>2. IsFiniteSet(1 .. m) BY FS_Interval
  <2> QED BY <2>1, <2>2, FS_Subset
<1>2. /\ n \in Nat
      /\ \A k \in 1 .. n : Nth(at, k) \in at
      /\ \A k, l \in 1 .. n : Nth(at, k) = Nth(at, l) => k = l
      /\ \A i \in at : \E k \in 1 .. n : Nth(at, k) = i
  BY <1>1, NthIs
<1>3. a = [k \in 1 .. n |-> q[Nth(at, k)]] BY DEF Sublist
<1>4. \A i \in at : i \in DOMAIN q /\ q[i] \in InputRecords OBVIOUS
<1> HIDE DEF a, n
<1>5. a \in Seq(InputRecords) BY <1>2, <1>3, <1>4
<1>6. DOMAIN a = 1 .. n /\ \A k \in 1 .. n : a[k] = q[Nth(at, k)] BY Zenon, <1>3
<1>7. Keys(a) = {q[i].out : i \in at}
  <2>1. ASSUME NEW o \in Keys(a) PROVE \E i \in at : o = q[i].out
    <3>1. PICK k \in 1 .. n : o = a[k].out BY <1>6 DEF Keys
    <3> QED BY Zenon, <1>2, <1>6, <3>1
  <2>2. ASSUME NEW i \in at PROVE q[i].out \in Keys(a)
    <3>1. PICK k \in 1 .. n : Nth(at, k) = i BY <1>2
    <3> QED BY <1>6, <3>1 DEF Keys
  <2> QED BY <2>1, <2>2
<1>8. ASSUME Distinct(q) PROVE Distinct(a)
  <2>1. ASSUME NEW k \in 1 .. n, NEW l \in 1 .. n, a[k].out = a[l].out PROVE k = l
    <3>1. Nth(at, k) \in at /\ Nth(at, l) \in at BY Zenon, <1>2
    <3>2. a[k] = q[Nth(at, k)] /\ a[l] = q[Nth(at, l)] BY Zenon, <1>6
    <3>3. Nth(at, k) = Nth(at, l) BY Zenon, <1>4, <1>8, <2>1, <3>1, <3>2 DEF Distinct
    <3> QED BY Zenon, <1>2, <3>3
  <2> QED BY Zenon, <1>6, <2>1 DEF Distinct
<1>9. Entries(a) = {q[i] : i \in at}
  <2>1. ASSUME NEW x \in Entries(a) PROVE \E i \in at : x = q[i]
    <3>1. PICK k \in 1 .. n : x = a[k] BY <1>6 DEF Entries
    <3> QED BY Zenon, <1>2, <1>6, <3>1
  <2>2. ASSUME NEW i \in at PROVE q[i] \in Entries(a)
    <3>1. PICK k \in 1 .. n : Nth(at, k) = i BY <1>2
    <3> QED BY Zenon, <1>6, <3>1 DEF Entries
  <2> QED BY Zenon, <2>1, <2>2
<1> QED BY Zenon, <1>5, <1>7, <1>8, <1>9 DEF a

\* Clearing the spend heights of a list keeps its outputs.
LEMMA UnspendIs ==
    ASSUME NEW q \in Seq(InputRecords)
    PROVE  /\ Unspend(q) \in Seq(InputRecords)
           /\ Keys(Unspend(q)) = Keys(q)
           /\ \A x \in Entries(Unspend(q)) : \E r \in Entries(q) : x.out = r.out /\ x.height = r.height
           /\ \A r \in Entries(q) : \E x \in Entries(Unspend(q)) : x.out = r.out /\ x.height = r.height
           /\ Distinct(q) => Distinct(Unspend(q))
<1> DEFINE a == Unspend(q)
           n == Len(q)
<1>1. n \in Nat /\ DOMAIN q = 1 .. n /\ \A i \in 1 .. n : q[i] \in InputRecords OBVIOUS
<1>2. a = [i \in 1 .. n |-> [q[i] EXCEPT !.spend = 0]] BY <1>1 DEF Unspend
<1> HIDE DEF a, n
<1>3. ASSUME NEW r \in InputRecords
      PROVE  /\ [r EXCEPT !.spend = 0] \in InputRecords /\ [r EXCEPT !.spend = 0].out = r.out
             /\ [r EXCEPT !.spend = 0].height = r.height
  BY DEF InputRecords
<1>4. a \in Seq(InputRecords) BY <1>1, <1>2, <1>3
<1>5. DOMAIN a = 1 .. n /\ \A i \in 1 .. n : a[i].out = q[i].out
  <2>1. DOMAIN a = 1 .. n /\ \A i \in 1 .. n : a[i] = [q[i] EXCEPT !.spend = 0] BY Zenon, <1>2
  <2> QED BY Zenon, <1>1, <1>3, <2>1
<1>h. \A i \in 1 .. n : a[i].height = q[i].height
  <2>1. \A i \in 1 .. n : a[i] = [q[i] EXCEPT !.spend = 0] BY Zenon, <1>2
  <2> QED BY Zenon, <1>1, <1>3, <2>1
<1>6. Keys(a) = Keys(q)
  <2>1. \A o : o \in Keys(a) <=> \E i \in 1 .. n : o = a[i].out BY <1>5 DEF Keys
  <2>2. \A o : o \in Keys(q) <=> \E i \in 1 .. n : o = q[i].out BY <1>1 DEF Keys
  <2> QED BY Zenon, <1>5, <2>1, <2>2
<1>7. Distinct(q) => Distinct(a) BY Zenon, <1>1, <1>5 DEF Distinct
<1>8. /\ \A x \in Entries(a) : \E r \in Entries(q) : x.out = r.out /\ x.height = r.height
      /\ \A r \in Entries(q) : \E x \in Entries(a) : x.out = r.out /\ x.height = r.height
  <2>1. \A x : x \in Entries(a) <=> \E i \in 1 .. n : x = a[i] BY Zenon, <1>5 DEF Entries
  <2>2. \A x : x \in Entries(q) <=> \E i \in 1 .. n : x = q[i] BY Zenon, <1>1 DEF Entries
  <2>3. ASSUME NEW x \in Entries(a) PROVE \E r \in Entries(q) : x.out = r.out /\ x.height = r.height
    <3>1. PICK i \in 1 .. n : x = a[i] BY Zenon, <2>1
    <3>2. q[i] \in Entries(q) BY Zenon, <2>2
    <3> QED BY Zenon, <1>5, <1>h, <3>1, <3>2
  <2>4. ASSUME NEW r \in Entries(q) PROVE \E x \in Entries(a) : x.out = r.out /\ x.height = r.height
    <3>1. PICK i \in 1 .. n : r = q[i] BY Zenon, <2>2
    <3>2. a[i] \in Entries(a) BY Zenon, <2>1
    <3> QED BY Zenon, <1>5, <1>h, <3>1, <3>2
  <2> QED BY Zenon, <2>3, <2>4
<1> QED BY Zenon, <1>4, <1>6, <1>7, <1>8 DEF a
-----------------------------------------------------------------------------
(* The operations of SubWallet and SubWallets *)

WalletRecords ==
    [unspent : Seq(InputRecords), locked : Seq(InputRecords), spent : Seq(InputRecords),
     unconfirmed : SUBSET Outputs, txs : SUBSET [tx : Txs, height : Nat],
     lockedTxs : SUBSET Own]

\* The outputs in one of the three lists; those not marked spent.
HeldOf(w) == Keys(w.unspent) \cup Keys(w.locked) \cup Keys(w.spent)
OpenOf(w) == Keys(w.unspent) \cup Keys(w.locked)

\* Every output at most once in the three lists together.
Apart(w) ==
    /\ Distinct(w.unspent) /\ Distinct(w.locked) /\ Distinct(w.spent)
    /\ Keys(w.unspent) \cap Keys(w.locked) = {}
    /\ OpenOf(w) \cap Keys(w.spent) = {}

\* The inputs in the three lists.
All(w) == Entries(w.unspent) \cup Entries(w.locked) \cup Entries(w.spent)

\* Every input of w is one of v, in the same list or in another.
Carried(w, v) == \A r \in All(w) : \E x \in All(v) : x.out = r.out /\ x.height = r.height

\* The outputs in a list are those of its inputs.
LEMMA KeysOf ==
    /\ \A q, o : o \in Keys(q) <=> \E r \in Entries(q) : r.out = o
    /\ \A w, o : o \in HeldOf(w) <=> \E r \in All(w) : r.out = o
    /\ \A w, o : o \in OpenOf(w) <=> \E r \in Entries(w.unspent) \cup Entries(w.locked) : r.out = o
<1>1. \A q, o : o \in Keys(q) <=> \E r \in Entries(q) : r.out = o BY DEF Keys, Entries
<1> QED BY Zenon, <1>1 DEF HeldOf, OpenOf, All

\* The fields of a wallet have their types.
LEMMA WalletFields ==
    ASSUME NEW w \in WalletRecords
    PROVE  /\ w.unspent \in Seq(InputRecords) /\ w.locked \in Seq(InputRecords)
           /\ w.spent \in Seq(InputRecords) /\ w.unconfirmed \in SUBSET Outputs
           /\ w.txs \in SUBSET [tx : Txs, height : Nat] /\ w.lockedTxs \in SUBSET Own
BY DEF WalletRecords

\* storeTransactionInput adds one unspent input.
LEMMA StoreIs ==
    ASSUME NEW w \in WalletRecords, NEW o \in Outputs, NEW h \in Nat,
           NEW v, v = StoreTransactionInput(w, o, h)
    PROVE  /\ v \in WalletRecords /\ v.lockedTxs = w.lockedTxs
           /\ Keys(v.unspent) = Keys(w.unspent) \cup {o}
           /\ Keys(v.locked) = Keys(w.locked) /\ Keys(v.spent) = Keys(w.spent)
           /\ Apart(w) /\ o \notin HeldOf(w) => Apart(v)
<1>1. NewInput(o, h) \in InputRecords /\ NewInput(o, h).out = o BY DEF NewInput, InputRecords
<1>2. /\ v.unspent = Append(w.unspent, NewInput(o, h)) /\ v.locked = w.locked
      /\ v.spent = w.spent /\ v.lockedTxs = w.lockedTxs
  BY DEF StoreTransactionInput, WalletRecords
<1>3. /\ Append(w.unspent, NewInput(o, h)) \in Seq(InputRecords)
      /\ Keys(Append(w.unspent, NewInput(o, h))) = Keys(w.unspent) \cup {o}
      /\ Distinct(w.unspent) /\ o \notin Keys(w.unspent)
            => Distinct(Append(w.unspent, NewInput(o, h)))
  BY <1>1, AppendIs, WalletFields
<1>4. v \in WalletRecords
  <2>1. v = [w EXCEPT !.unconfirmed = w.unconfirmed \ {o}, !.unspent = Append(w.unspent, NewInput(o, h))]
    BY DEF StoreTransactionInput, WalletRecords
  <2> QED BY Zenon, <1>3, <2>1 DEF WalletRecords
<1>5. Apart(w) /\ o \notin HeldOf(w) => Apart(v)
  BY Zenon, <1>2, <1>3 DEF Apart, HeldOf, OpenOf
<1> QED BY Zenon, <1>2, <1>3, <1>4, <1>5

\* The same, as one fact about the wallet before and after.
Stored(w, o, v) ==
    /\ v \in WalletRecords /\ v.lockedTxs = w.lockedTxs
    /\ Keys(v.unspent) = Keys(w.unspent) \cup {o}
    /\ Keys(v.locked) = Keys(w.locked) /\ Keys(v.spent) = Keys(w.spent)
    /\ Apart(w) /\ o \notin HeldOf(w) => Apart(v)

\* storeTransactionInput does that.
LEMMA StoreSays ==
    \A w \in WalletRecords, o \in Outputs, h \in Nat : Stored(w, o, StoreTransactionInput(w, o, h))
<1> TAKE w \in WalletRecords, o \in Outputs, h \in Nat
<1> DEFINE v == StoreTransactionInput(w, o, h)
<1> HIDE DEF v
<1>1. v = StoreTransactionInput(w, o, h) BY DEF v
<1>2. Stored(w, o, v) BY <1>1, StoreIs DEF Stored
<1> QED BY Zenon, <1>1, <1>2

\* markInputAsSpent moves one input to the spent ones.
LEMMA SpendIs ==
    ASSUME NEW w \in WalletRecords, NEW o \in OpenOf(w), NEW h \in Nat,
           NEW v, v = MarkInputAsSpent(w, o, h)
    PROVE  /\ v \in WalletRecords /\ v.lockedTxs = w.lockedTxs
           /\ Keys(v.spent) = Keys(w.spent) \cup {o}
           /\ Keys(v.unspent) \subseteq Keys(w.unspent) /\ OpenOf(v) \subseteq OpenOf(w)
           /\ OpenOf(w) \ {o} \subseteq OpenOf(v) /\ Keys(v.locked) \subseteq Keys(w.locked)
           /\ Apart(w) => Apart(v) /\ o \notin OpenOf(v)
           /\ Carried(w, v) /\ Carried(v, w)
           /\ \A r \in Entries(v.spent) : r \in Entries(w.spent) \/ (r.out = o /\ r.spend = h)
<1>0. /\ w.unspent \in Seq(InputRecords) /\ w.locked \in Seq(InputRecords)
      /\ w.spent \in Seq(InputRecords)
  BY WalletFields
<1>1. ASSUME NEW r \in InputRecords
      PROVE  /\ [r EXCEPT !.spend = h] \in InputRecords /\ [r EXCEPT !.spend = h].out = r.out
             /\ [r EXCEPT !.spend = h].height = r.height /\ [r EXCEPT !.spend = h].spend = h
  BY DEF InputRecords
<1>2. CASE o \in Keys(w.unspent)
  <2> DEFINE i == Find(w.unspent, o)
             a == Erase(w.unspent, i)
             y == w.unspent[i]
             x == [y EXCEPT !.spend = h]
             c == Append(w.spent, x)
  <2>1. i \in DOMAIN w.unspent /\ w.unspent[i].out = o BY <1>0, <1>2, FindIs
  <2>2. w.unspent[i] \in InputRecords BY <1>0, <2>1
  <2>3. x \in InputRecords /\ x.out = o /\ x.height = y.height /\ x.spend = h BY <1>1, <2>1, <2>2
  <2>y. y \in Entries(w.unspent) /\ y.out = o BY Zenon, <2>1 DEF Entries
  <2>4. v = [w EXCEPT !.unspent = a, !.spent = c] BY <1>2 DEF MarkInputAsSpent, WalletRecords
  <2> HIDE DEF i
  <2>5. /\ a \in Seq(InputRecords) /\ Keys(w.unspent) \ {o} \subseteq Keys(a)
        /\ Entries(w.unspent) \ {y} \subseteq Entries(a) /\ Entries(a) \subseteq Entries(w.unspent)
        /\ Keys(a) \subseteq Keys(w.unspent)
        /\ Distinct(w.unspent) => Distinct(a) /\ o \notin Keys(a)
    BY <1>0, <2>1, RemoveIs
  <2> HIDE DEF x, a, y
  <2>6. /\ c \in Seq(InputRecords) /\ Keys(c) = Keys(w.spent) \cup {o}
        /\ Entries(c) = Entries(w.spent) \cup {x}
        /\ Distinct(w.spent) /\ o \notin Keys(w.spent) => Distinct(c)
    BY <1>0, <2>3, AppendIs
  <2> HIDE DEF c
  <2>7. /\ v \in WalletRecords /\ v.lockedTxs = w.lockedTxs
        /\ v.unspent = a /\ v.locked = w.locked /\ v.spent = c
    BY Zenon, <2>4, <2>5, <2>6 DEF WalletRecords
  <2>8. Apart(w) => Apart(v) /\ o \notin OpenOf(v)
    BY Zenon, <1>2, <2>5, <2>6, <2>7 DEF Apart, OpenOf
  <2>9. Carried(w, v) BY Zenon, <2>3, <2>y, <2>5, <2>6, <2>7 DEF Carried, All
  <2>10. Carried(v, w) BY Zenon, <2>3, <2>y, <2>5, <2>6, <2>7 DEF Carried, All
  <2>11. \A r \in Entries(v.spent) : r \in Entries(w.spent) \/ (r.out = o /\ r.spend = h)
    BY Zenon, <2>3, <2>6, <2>7
  <2>12. /\ v \in WalletRecords /\ v.lockedTxs = w.lockedTxs
         /\ Keys(v.spent) = Keys(w.spent) \cup {o}
         /\ Keys(v.unspent) \subseteq Keys(w.unspent) /\ OpenOf(v) \subseteq OpenOf(w)
         /\ OpenOf(w) \ {o} \subseteq OpenOf(v) /\ Keys(v.locked) \subseteq Keys(w.locked)
    BY Zenon, <2>5, <2>6, <2>7 DEF OpenOf
  <2> QED BY Zenon, <2>8, <2>9, <2>10, <2>11, <2>12
<1>3. CASE o \notin Keys(w.unspent)
  <2> DEFINE i == Find(w.locked, o)
             a == Erase(w.locked, i)
             y == w.locked[i]
             x == [y EXCEPT !.spend = h]
             c == Append(w.spent, x)
  <2>0. o \in Keys(w.locked) BY <1>3 DEF OpenOf
  <2>1. i \in DOMAIN w.locked /\ w.locked[i].out = o BY <1>0, <2>0, FindIs
  <2>2. w.locked[i] \in InputRecords BY <1>0, <2>1
  <2>3. x \in InputRecords /\ x.out = o /\ x.height = y.height /\ x.spend = h BY <1>1, <2>1, <2>2
  <2>y. y \in Entries(w.locked) /\ y.out = o BY Zenon, <2>1 DEF Entries
  <2>4. v = [w EXCEPT !.locked = a, !.spent = c] BY <1>3 DEF MarkInputAsSpent, WalletRecords
  <2> HIDE DEF i
  <2>5. /\ a \in Seq(InputRecords) /\ Keys(w.locked) \ {o} \subseteq Keys(a)
        /\ Entries(w.locked) \ {y} \subseteq Entries(a) /\ Entries(a) \subseteq Entries(w.locked)
        /\ Keys(a) \subseteq Keys(w.locked)
        /\ Distinct(w.locked) => Distinct(a) /\ o \notin Keys(a)
    BY <1>0, <2>1, RemoveIs
  <2> HIDE DEF x, a, y
  <2>6. /\ c \in Seq(InputRecords) /\ Keys(c) = Keys(w.spent) \cup {o}
        /\ Entries(c) = Entries(w.spent) \cup {x}
        /\ Distinct(w.spent) /\ o \notin Keys(w.spent) => Distinct(c)
    BY <1>0, <2>3, AppendIs
  <2> HIDE DEF c
  <2>7. /\ v \in WalletRecords /\ v.lockedTxs = w.lockedTxs
        /\ v.unspent = w.unspent /\ v.locked = a /\ v.spent = c
    BY Zenon, <2>4, <2>5, <2>6 DEF WalletRecords
  <2>8. Apart(w) => Apart(v) /\ o \notin OpenOf(v)
    BY Zenon, <1>3, <2>0, <2>5, <2>6, <2>7 DEF Apart, OpenOf
  <2>9. Carried(w, v) BY Zenon, <2>3, <2>y, <2>5, <2>6, <2>7 DEF Carried, All
  <2>10. Carried(v, w) BY Zenon, <2>3, <2>y, <2>5, <2>6, <2>7 DEF Carried, All
  <2>11. \A r \in Entries(v.spent) : r \in Entries(w.spent) \/ (r.out = o /\ r.spend = h)
    BY Zenon, <2>3, <2>6, <2>7
  <2>12. /\ v \in WalletRecords /\ v.lockedTxs = w.lockedTxs
         /\ Keys(v.spent) = Keys(w.spent) \cup {o}
         /\ Keys(v.unspent) \subseteq Keys(w.unspent) /\ OpenOf(v) \subseteq OpenOf(w)
         /\ OpenOf(w) \ {o} \subseteq OpenOf(v) /\ Keys(v.locked) \subseteq Keys(w.locked)
    BY Zenon, <2>5, <2>6, <2>7 DEF OpenOf
  <2> QED BY Zenon, <2>8, <2>9, <2>10, <2>11, <2>12
<1> QED BY Zenon, <1>2, <1>3

\* markInputAsLocked moves one input from the unspent to the locked ones.
LEMMA LockIs ==
    ASSUME NEW w \in WalletRecords, NEW o \in Keys(w.unspent), NEW v, v = MarkInputAsLocked(w, o)
    PROVE  /\ v \in WalletRecords /\ v.lockedTxs = w.lockedTxs
           /\ Keys(v.unspent) \subseteq Keys(w.unspent) /\ Keys(v.locked) = Keys(w.locked) \cup {o}
           /\ OpenOf(v) = OpenOf(w) /\ Keys(v.spent) = Keys(w.spent)
           /\ Apart(w) => Apart(v) /\ o \notin Keys(v.unspent)
           /\ Carried(w, v) /\ Carried(v, w) /\ v.spent = w.spent
<1>0. w.unspent \in Seq(InputRecords) /\ w.locked \in Seq(InputRecords) BY WalletFields
<1> DEFINE i == Find(w.unspent, o)
           a == Erase(w.unspent, i)
           x == w.unspent[i]
           c == Append(w.locked, x)
<1>1. i \in DOMAIN w.unspent /\ x.out = o BY <1>0, FindIs
<1>2. x \in InputRecords BY <1>0, <1>1
<1>y. x \in Entries(w.unspent) BY Zenon, <1>1 DEF Entries
<1>3. v = [w EXCEPT !.unspent = a, !.locked = c] BY DEF MarkInputAsLocked, WalletRecords
<1> HIDE DEF i
<1>4. /\ a \in Seq(InputRecords) /\ Keys(w.unspent) \ {o} \subseteq Keys(a)
      /\ Keys(a) \subseteq Keys(w.unspent)
      /\ Entries(w.unspent) \ {x} \subseteq Entries(a) /\ Entries(a) \subseteq Entries(w.unspent)
      /\ Distinct(w.unspent) => Distinct(a) /\ o \notin Keys(a)
  BY <1>0, <1>1, RemoveIs
<1> HIDE DEF x, a
<1>5. /\ c \in Seq(InputRecords) /\ Keys(c) = Keys(w.locked) \cup {o}
      /\ Entries(c) = Entries(w.locked) \cup {x}
      /\ Distinct(w.locked) /\ o \notin Keys(w.locked) => Distinct(c)
  BY <1>0, <1>1, <1>2, AppendIs
<1> HIDE DEF c
<1>6. /\ v \in WalletRecords /\ v.lockedTxs = w.lockedTxs
      /\ v.unspent = a /\ v.locked = c /\ v.spent = w.spent
  BY Zenon, <1>3, <1>4, <1>5 DEF WalletRecords
<1>7. OpenOf(v) = OpenOf(w) BY Zenon, <1>4, <1>5, <1>6 DEF OpenOf
<1>8. Apart(w) => Apart(v) /\ o \notin Keys(v.unspent)
  BY Zenon, <1>4, <1>5, <1>6, <1>7 DEF Apart
<1>9. Carried(w, v) /\ Carried(v, w) BY Zenon, <1>y, <1>4, <1>5, <1>6 DEF Carried, All
<1> QED BY Zenon, <1>4, <1>5, <1>6, <1>7, <1>8, <1>9

\* removeCancelledTransactions moves locked inputs back to the unspent ones,
\* those that a cancelled transaction created.
LEMMA CancelIs ==
    ASSUME NEW w \in WalletRecords, NEW txs, NEW v, v = RemoveCancelledTransactions(w, txs)
    PROVE  /\ v \in WalletRecords /\ v.lockedTxs = w.lockedTxs \ txs
           /\ Keys(v.unspent) = Keys(w.unspent) \cup {o \in Keys(w.locked) : TxOf(o) \in txs}
           /\ Keys(v.locked) = {o \in Keys(w.locked) : TxOf(o) \notin txs}
           /\ Keys(v.spent) = Keys(w.spent)
           /\ Apart(w) => Apart(v)
           /\ Carried(w, v) /\ Carried(v, w) /\ v.spent = w.spent
<1>0. w.unspent \in Seq(InputRecords) /\ w.locked \in Seq(InputRecords) BY WalletFields
<1> DEFINE back == {i \in DOMAIN w.locked : TxOf(w.locked[i].out) \in txs}
           rest == DOMAIN w.locked \ back
           b == Sublist(w.locked, back)
           u == Unspend(b)
           a == w.unspent \o u
           c == Sublist(w.locked, rest)
<1>1. back \in SUBSET DOMAIN w.locked /\ rest \in SUBSET DOMAIN w.locked OBVIOUS
<1>2. /\ {w.locked[i].out : i \in back} = {o \in Keys(w.locked) : TxOf(o) \in txs}
      /\ {w.locked[i].out : i \in rest} = {o \in Keys(w.locked) : TxOf(o) \notin txs}
  BY Zenon DEF Keys
<1>3. v = [w EXCEPT !.lockedTxs = w.lockedTxs \ txs, !.unspent = a, !.locked = c,
                    !.unconfirmed = {o \in w.unconfirmed : TxOf(o) \notin txs}]
  BY DEF RemoveCancelledTransactions, RemoveCancelledInputs, WalletRecords
<1>e. Entries(w.locked) = {w.locked[i] : i \in back} \cup {w.locked[i] : i \in rest}
  BY Zenon DEF Entries
<1> HIDE DEF back, rest
<1>4. /\ b \in Seq(InputRecords) /\ Keys(b) = {o \in Keys(w.locked) : TxOf(o) \in txs}
      /\ Distinct(w.locked) => Distinct(b)
      /\ Entries(b) = {w.locked[i] : i \in back}
  BY <1>0, <1>1, <1>2, SublistIs
<1>5. /\ c \in Seq(InputRecords) /\ Keys(c) = {o \in Keys(w.locked) : TxOf(o) \notin txs}
      /\ Distinct(w.locked) => Distinct(c)
      /\ Entries(c) = {w.locked[i] : i \in rest}
  BY <1>0, <1>1, <1>2, SublistIs
<1> HIDE DEF b, c
<1>6. /\ u \in Seq(InputRecords) /\ Keys(u) = Keys(b) /\ (Distinct(b) => Distinct(u))
      /\ \A x \in Entries(u) : \E r \in Entries(b) : x.out = r.out /\ x.height = r.height
      /\ \A r \in Entries(b) : \E x \in Entries(u) : x.out = r.out /\ x.height = r.height
  BY <1>4, UnspendIs
<1> HIDE DEF u
<1>7. /\ a \in Seq(InputRecords) /\ Keys(a) = Keys(w.unspent) \cup Keys(u)
      /\ Entries(a) = Entries(w.unspent) \cup Entries(u)
      /\ Distinct(w.unspent) /\ Distinct(u) /\ Keys(w.unspent) \cap Keys(u) = {} => Distinct(a)
  BY <1>0, <1>6, ConcatIs
<1> HIDE DEF a
<1>8. /\ v \in WalletRecords /\ v.lockedTxs = w.lockedTxs \ txs
      /\ v.unspent = a /\ v.locked = c /\ v.spent = w.spent
  BY Zenon, <1>3, <1>5, <1>7 DEF WalletRecords
<1>9. ASSUME Apart(w) PROVE Apart(v)
  <2>1. Distinct(a) /\ Distinct(c)
    <3>1. Keys(w.unspent) \cap Keys(u) = {} BY Zenon, <1>4, <1>6, <1>9 DEF Apart
    <3> QED BY Zenon, <1>4, <1>5, <1>6, <1>7, <1>9, <3>1 DEF Apart
  <2>2. Keys(a) \cap Keys(c) = {} /\ Keys(a) \cup Keys(c) = OpenOf(w)
    BY Zenon, <1>4, <1>5, <1>6, <1>7, <1>9 DEF Apart, OpenOf
  <2> QED BY Zenon, <1>8, <1>9, <2>1, <2>2 DEF Apart, OpenOf
<1>10. Carried(w, v) /\ Carried(v, w)
  <2>1. Entries(w.locked) = Entries(b) \cup Entries(c) BY Zenon, <1>e, <1>4, <1>5
  <2>2. /\ All(v) = Entries(w.unspent) \cup Entries(u) \cup Entries(c) \cup Entries(w.spent)
        /\ All(w) = Entries(w.unspent) \cup Entries(b) \cup Entries(c) \cup Entries(w.spent)
    BY Zenon, <1>7, <1>8, <2>1 DEF All
  <2>3. ASSUME NEW r \in All(w) PROVE \E x \in All(v) : x.out = r.out /\ x.height = r.height
    BY Zenon, <1>6, <2>2
  <2>4. ASSUME NEW x \in All(v) PROVE \E r \in All(w) : r.out = x.out /\ r.height = x.height
    BY Zenon, <1>6, <2>2
  <2> QED BY Zenon, <2>3, <2>4 DEF Carried
<1>11. /\ Keys(v.unspent) = Keys(w.unspent) \cup {o \in Keys(w.locked) : TxOf(o) \in txs}
       /\ Keys(v.locked) = {o \in Keys(w.locked) : TxOf(o) \notin txs}
       /\ Keys(v.spent) = Keys(w.spent)
  BY Zenon, <1>4, <1>5, <1>6, <1>7, <1>8
<1> QED BY Zenon, <1>8, <1>9, <1>10, <1>11

\* The same, as one fact about the wallet before and after.
Returned(w, txs, v) ==
    /\ v \in WalletRecords /\ v.lockedTxs = w.lockedTxs \ txs
    /\ Keys(v.unspent) = Keys(w.unspent) \cup {o \in Keys(w.locked) : TxOf(o) \in txs}
    /\ Keys(v.locked) = {o \in Keys(w.locked) : TxOf(o) \notin txs}
    /\ Keys(v.spent) = Keys(w.spent)
    /\ Apart(w) => Apart(v)
    /\ Carried(w, v) /\ Carried(v, w) /\ v.spent = w.spent

\* removeCancelledTransactions does that.
LEMMA CancelSays ==
    ASSUME NEW w \in WalletRecords, NEW txs
    PROVE  Returned(w, txs, RemoveCancelledTransactions(w, txs))
<1> DEFINE v == RemoveCancelledTransactions(w, txs)
<1> HIDE DEF v
<1>1. v = RemoveCancelledTransactions(w, txs) BY DEF v
<1>2. Returned(w, txs, v) BY <1>1, CancelIs DEF Returned
<1> QED BY Zenon, <1>1, <1>2

\* What a fork leaves: of the unspent inputs those below it, and of the spent
\* ones those spent below it; the others spent come back.
Rolled(w, fork, v) ==
    /\ v \in WalletRecords
    /\ v.locked = <<>>
    /\ Entries(v.spent) = {r \in Entries(w.spent) : ~(r.spend >= fork)}
    /\ \A r \in Entries(w.unspent) : r.height < fork => r \in Entries(v.unspent)
    /\ \A r \in Entries(w.spent) : r.spend >= fork =>
           \E x \in Entries(v.unspent) : x.out = r.out /\ x.height = r.height
    /\ \A x \in Entries(v.unspent) :
           \/ x \in Entries(w.unspent) /\ x.height < fork
           \/ \E r \in Entries(w.spent) : r.spend >= fork /\ x.out = r.out /\ x.height = r.height
    /\ Apart(w) => Apart(v)

\* removeForkedTransactions does that.
LEMMA ForkIs ==
    ASSUME NEW w \in WalletRecords, NEW fork \in Nat, NEW v, v = RemoveForkedTransactions(w, fork)
    PROVE  Rolled(w, fork, v)
<1>0. w.unspent \in Seq(InputRecords) /\ w.spent \in Seq(InputRecords) BY WalletFields
<1> DEFINE kept == {i \in DOMAIN w.unspent : w.unspent[i].height < fork}
           back == {i \in DOMAIN w.spent : w.spent[i].spend >= fork}
           rest == DOMAIN w.spent \ back
           k == Sublist(w.unspent, kept)
           b == Sublist(w.spent, back)
           c == Sublist(w.spent, rest)
           u == Unspend(b)
           a == k \o u
           x == {r \in w.txs : r.height < fork}
<1>1. /\ k \in Seq(InputRecords) /\ Entries(k) = {w.unspent[i] : i \in kept}
      /\ Keys(k) = {w.unspent[i].out : i \in kept} /\ (Distinct(w.unspent) => Distinct(k))
  <2>1. kept \in SUBSET DOMAIN w.unspent OBVIOUS
  <2> HIDE DEF kept
  <2> QED BY <1>0, <2>1, SublistIs
<1>2. /\ b \in Seq(InputRecords) /\ Entries(b) = {w.spent[i] : i \in back}
      /\ Keys(b) = {w.spent[i].out : i \in back} /\ (Distinct(w.spent) => Distinct(b))
  <2>1. back \in SUBSET DOMAIN w.spent OBVIOUS
  <2> HIDE DEF back
  <2> QED BY <1>0, <2>1, SublistIs
<1>3. /\ c \in Seq(InputRecords) /\ Entries(c) = {w.spent[i] : i \in rest}
      /\ Keys(c) = {w.spent[i].out : i \in rest} /\ (Distinct(w.spent) => Distinct(c))
  <2>1. rest \in SUBSET DOMAIN w.spent OBVIOUS
  <2> HIDE DEF rest
  <2> QED BY <1>0, <2>1, SublistIs
<1>4. v = [w EXCEPT !.txs = x, !.locked = <<>>, !.unconfirmed = {}, !.unspent = a, !.spent = c]
  BY DEF RemoveForkedTransactions, RemoveForkedInputs, WalletRecords
<1>5. x \in SUBSET [tx : Txs, height : Nat] BY WalletFields
<1>6. /\ \A r : r \in Entries(k) <=> r \in Entries(w.unspent) /\ r.height < fork
      /\ \A r : r \in Entries(b) <=> r \in Entries(w.spent) /\ r.spend >= fork
      /\ \A r : r \in Entries(c) <=> r \in Entries(w.spent) /\ ~(r.spend >= fork)
  <2>1. \A r : r \in Entries(k) <=> \E i \in kept : r = w.unspent[i] BY Zenon, <1>1
  <2>2. \A r : r \in Entries(b) <=> \E i \in back : r = w.spent[i] BY Zenon, <1>2
  <2>3. \A r : r \in Entries(c) <=> \E i \in rest : r = w.spent[i] BY Zenon, <1>3
  <2>4. \A r : r \in Entries(w.unspent) <=> \E i \in DOMAIN w.unspent : r = w.unspent[i]
    BY Zenon DEF Entries
  <2>5. \A r : r \in Entries(w.spent) <=> \E i \in DOMAIN w.spent : r = w.spent[i]
    BY Zenon DEF Entries
  <2> HIDE DEF k, b, c
  <2>6. \A r : r \in Entries(k) <=> r \in Entries(w.unspent) /\ r.height < fork BY Zenon, <2>1, <2>4
  <2>7. \A r : r \in Entries(b) <=> r \in Entries(w.spent) /\ r.spend >= fork BY Zenon, <2>2, <2>5
  <2>8. \A r : r \in Entries(c) <=> r \in Entries(w.spent) /\ ~(r.spend >= fork)
    BY Zenon, <2>3, <2>5
  <2> QED BY <2>6, <2>7, <2>8
<1>7. /\ Keys(k) \subseteq Keys(w.unspent) /\ Keys(b) \cup Keys(c) \subseteq Keys(w.spent)
      /\ Distinct(w.spent) => Keys(b) \cap Keys(c) = {}
  <2>1. Keys(k) \subseteq Keys(w.unspent) BY Zenon, <1>1 DEF Keys
  <2>2. Keys(b) \cup Keys(c) \subseteq Keys(w.spent) BY Zenon, <1>2, <1>3 DEF Keys
  <2>3. ASSUME Distinct(w.spent), NEW o \in Keys(b), o \in Keys(c) PROVE FALSE
    <3>1. PICK i \in back : o = w.spent[i].out BY Zenon, <1>2, <2>3
    <3>2. PICK j \in rest : o = w.spent[j].out BY Zenon, <1>3, <2>3
    <3>3. i = j BY Zenon, <2>3, <3>1, <3>2 DEF Distinct
    <3> QED BY Zenon, <3>3
  <2> HIDE DEF k, b, c
  <2> QED BY Zenon, <2>1, <2>2, <2>3
<1> HIDE DEF kept, back, rest, k, b, c, x
<1>8. /\ u \in Seq(InputRecords) /\ Keys(u) = Keys(b) /\ (Distinct(b) => Distinct(u))
      /\ \A y \in Entries(u) : \E r \in Entries(b) : y.out = r.out /\ y.height = r.height
      /\ \A r \in Entries(b) : \E y \in Entries(u) : y.out = r.out /\ y.height = r.height
  BY <1>2, UnspendIs
<1> HIDE DEF u
<1>9. /\ a \in Seq(InputRecords) /\ Keys(a) = Keys(k) \cup Keys(u)
      /\ Entries(a) = Entries(k) \cup Entries(u)
      /\ Distinct(k) /\ Distinct(u) /\ Keys(k) \cap Keys(u) = {} => Distinct(a)
  BY <1>1, <1>8, ConcatIs
<1> HIDE DEF a
<1>10. <<>> \in Seq(InputRecords) OBVIOUS
<1>11. v \in WalletRecords /\ v.locked = <<>> /\ v.unspent = a /\ v.spent = c
  BY Zenon, <1>3, <1>4, <1>5, <1>9, <1>10 DEF WalletRecords
<1>12. Entries(v.spent) = {r \in Entries(w.spent) : ~(r.spend >= fork)} BY Zenon, <1>6, <1>11
<1>13. \A r \in Entries(w.unspent) : r.height < fork => r \in Entries(v.unspent)
  BY Zenon, <1>6, <1>9, <1>11
<1>14. ASSUME NEW r \in Entries(w.spent), r.spend >= fork
       PROVE  \E y \in Entries(v.unspent) : y.out = r.out /\ y.height = r.height
  <2>1. r \in Entries(b) BY Zenon, <1>6, <1>14
  <2>2. PICK y \in Entries(u) : y.out = r.out /\ y.height = r.height BY Zenon, <1>8, <2>1
  <2> QED BY Zenon, <1>9, <1>11, <2>2
<1>15. ASSUME NEW y \in Entries(v.unspent)
       PROVE  \/ y \in Entries(w.unspent) /\ y.height < fork
              \/ \E r \in Entries(w.spent) : r.spend >= fork /\ y.out = r.out /\ y.height = r.height
  <2>1. CASE y \in Entries(k) BY Zenon, <1>6, <2>1
  <2>2. CASE y \in Entries(u)
    <3>1. PICK r \in Entries(b) : y.out = r.out /\ y.height = r.height BY Zenon, <1>8, <2>2
    <3> QED BY Zenon, <1>6, <3>1
  <2> QED BY Zenon, <1>9, <1>11, <2>1, <2>2
<1>16. ASSUME Apart(w) PROVE Apart(v)
  <2>1. /\ Distinct(w.unspent) /\ Distinct(w.spent) /\ Keys(w.unspent) \cap Keys(w.spent) = {}
    BY Zenon, <1>16 DEF Apart, OpenOf
  <2>2. Keys(k) \cap Keys(u) = {} /\ Keys(a) \cap Keys(c) = {} BY Zenon, <1>7, <1>8, <1>9, <2>1
  <2>3. Distinct(a) /\ Distinct(c) BY Zenon, <1>1, <1>2, <1>3, <1>8, <1>9, <2>1, <2>2
  <2>4. Keys(<<>>) = {} /\ Distinct(<<>>) BY DEF Keys, Distinct
  <2>5. v.unspent = a /\ Keys(v.locked) = {} /\ Distinct(v.locked) /\ v.spent = c BY Zenon, <1>11, <2>4
  <2> QED BY Zenon, <2>2, <2>3, <2>5 DEF Apart, OpenOf
<1> QED BY Zenon, <1>11, <1>12, <1>13, <1>14, <1>15, <1>16 DEF Rolled

\* addTransaction keeps the lists of inputs.
LEMMA AddIs ==
    ASSUME NEW w \in WalletRecords, NEW t \in Txs, NEW h \in Nat, NEW v, v = AddTransaction(w, t, h)
    PROVE  /\ v \in WalletRecords /\ v.lockedTxs = w.lockedTxs \ {t}
           /\ v.unspent = w.unspent /\ v.locked = w.locked /\ v.spent = w.spent
<1> DEFINE x == IF AddedTwice(w, t) THEN w.txs ELSE w.txs \cup {[tx |-> t, height |-> h]}
<1>1. v = [w EXCEPT !.lockedTxs = w.lockedTxs \ {t}, !.txs = x] BY DEF AddTransaction, WalletRecords
<1>2. x \in SUBSET [tx : Txs, height : Nat] BY WalletFields
<1> HIDE DEF x
<1> QED BY Zenon, <1>1, <1>2 DEF WalletRecords

\* reset forgets the transactions and keeps the lists of inputs.
LEMMA ResetIs ==
    ASSUME NEW w \in WalletRecords, NEW v, v = ResetWallet(w)
    PROVE  /\ v \in WalletRecords /\ v.lockedTxs = {}
           /\ v.unspent = w.unspent /\ v.locked = w.locked /\ v.spent = w.spent
BY Zenon DEF ResetWallet, WalletRecords

\* So does reading a file, which makes the locked transactions ordinary ones.
LEMMA ReadIs ==
    ASSUME NEW w \in WalletRecords, NEW v, v = ReadWallet(w)
    PROVE  /\ v \in WalletRecords /\ v.lockedTxs = {}
           /\ v.unspent = w.unspent /\ v.locked = w.locked /\ v.spent = w.spent
<1> DEFINE x == w.txs \cup {[tx |-> t, height |-> 0] : t \in w.lockedTxs}
<1>1. v = [w EXCEPT !.txs = x, !.lockedTxs = {}] BY DEF ReadWallet, WalletRecords
<1>2. x \in SUBSET [tx : Txs, height : Nat] BY WalletFields, WalletAssumption
<1> HIDE DEF x
<1> QED BY Zenon, <1>1, <1>2 DEF WalletRecords

\* The wallet of a new file.
LEMMA EmptyIs ==
    /\ EmptyWallet \in WalletRecords /\ HeldOf(EmptyWallet) = {} /\ Apart(EmptyWallet)
    /\ All(EmptyWallet) = {}
<1>1. Keys(<<>>) = {} /\ Distinct(<<>>) BY DEF Keys, Distinct
<1>2. <<>> \in Seq(InputRecords) OBVIOUS
<1>3. EmptyWallet \in WalletRecords BY <1>2 DEF EmptyWallet, WalletRecords
<1>4. EmptyWallet.unspent = <<>> /\ EmptyWallet.locked = <<>> /\ EmptyWallet.spent = <<>>
  BY DEF EmptyWallet
<1>5. Entries(<<>>) = {} BY DEF Entries
<1> QED BY Zenon, <1>1, <1>3, <1>4, <1>5 DEF HeldOf, Apart, OpenOf, All
-----------------------------------------------------------------------------
(* The types of the state *)

SyncRecords ==
    {s \in [height : Nat, hashes : Seq(Blocks), checkpoints : Seq(Blocks)] :
        Len(s.hashes) <= KnownSize}

SenderRecords ==
    {r \in [pc : {"idle", "relay", "relayed", "stored", "lock"}, tx : Own \cup {NoTx},
            left : SUBSET Outputs] :
        (r.pc = "idle" <=> r.tx = NoTx) /\ (r.tx # NoTx => r.left \subseteq Ins[r.tx])}

DaemonTyped ==
    tip \in Blocks /\ pool \in SUBSET Own /\ daemonCount \in Nat /\ relayed \in SUBSET Own

WalletTyped ==
    /\ wallet \in WalletRecords /\ sync \in SyncRecords
    /\ file \in [cut : BOOLEAN, wallet : WalletRecords, sync : SyncRecords]
    /\ interruptions \in [save : Nat, reset : Nat, open : Nat]

ScanTyped ==
    /\ batch \in Seq(Blocks)
    /\ pc \in {"idle", "block", "indexes", "process", "check", "cancel", "saving"}
    /\ batch = <<>> <=> pc \in {"idle", "check", "cancel", "saving"}
    /\ scan \in [txs : SUBSET Txs, outs : SUBSET Outputs, spend : SUBSET Outputs]

\* The inputs that a block in hand spends are still there to be marked: it is
\* what markInputAsSpent relies on when it is sure to find them.
SpendFound ==
    /\ pc # "process" => scan = NoScan
    /\ scan.spend \subseteq OpenOf(wallet)

SenderTyped == sender \in [Senders -> SenderRecords]

TypeInv == DaemonTyped /\ WalletTyped /\ ScanTyped /\ SpendFound /\ SenderTyped

\* The blocks of the main chain from a height on, at most BatchSize of them.
From(first) ==
    IF HeightOf[tip] < first THEN <<>>
    ELSE [i \in 1 .. (IF HeightOf[tip] - first + 1 > BatchSize THEN BatchSize
                      ELSE HeightOf[tip] - first + 1) |-> BlockAt(tip, first + i - 1)]

\* They are blocks of the main chain with consecutive heights.
LEMMA FromIs ==
    ASSUME tip \in Blocks, NEW first \in Nat
    PROVE  /\ From(first) \in Seq(Blocks)
           /\ \A i \in DOMAIN From(first) :
                 /\ From(first)[i] \in ChainTo[tip]
                 /\ HeightOf[From(first)[i]] = first + i - 1
<1>0. HeightOf[tip] \in Nat /\ BatchSize \in Nat BY WalletAssumption
<1>1. CASE HeightOf[tip] < first
  <2>1. From(first) = <<>> BY Zenon, <1>1 DEF From
  <2> QED BY <2>1
<1>2. CASE ~ (HeightOf[tip] < first)
  <2> DEFINE n == IF HeightOf[tip] - first + 1 > BatchSize THEN BatchSize
                  ELSE HeightOf[tip] - first + 1
             a == [i \in 1 .. n |-> BlockAt(tip, first + i - 1)]
  <2>1. From(first) = a BY Zenon, <1>2 DEF From
  <2>2. n \in Nat /\ n <= HeightOf[tip] - first + 1 BY <1>0, <1>2
  <2> HIDE DEF n
  <2>3. ASSUME NEW i \in 1 .. n PROVE first + i - 1 \in 0 .. HeightOf[tip] BY <1>0, <1>2, <2>2
  <2>4. ASSUME NEW i \in 1 .. n
        PROVE  /\ BlockAt(tip, first + i - 1) \in ChainTo[tip] /\ BlockAt(tip, first + i - 1) \in Blocks
               /\ HeightOf[BlockAt(tip, first + i - 1)] = first + i - 1
    BY <2>3, BlockAtIs
  <2>5. a \in Seq(Blocks) BY <2>2, <2>4
  <2>6. DOMAIN a = 1 .. n /\ \A i \in 1 .. n : a[i] = BlockAt(tip, first + i - 1) BY Zenon
  <2> HIDE DEF a
  <2> QED BY Zenon, <2>1, <2>4, <2>5, <2>6
<1> QED BY Zenon, <1>1, <1>2

\* The height findBlockchainSupplement answers with, or -1.
LEMMA KnownIs ==
    ASSUME tip \in Blocks, NEW hashes \in Seq(Blocks)
    PROVE  KnownHeight(hashes) \in Int /\ KnownHeight(hashes) >= -1
<1> DEFINE First(i) == hashes[i] \in ChainTo[tip] /\ \A j \in 1 .. i - 1 : ~(hashes[j] \in ChainTo[tip])
           on == {i \in DOMAIN hashes : hashes[i] \in ChainTo[tip]}
           k == CHOOSE i \in DOMAIN hashes : First(i)
<1>1. FindBlockchainSupplement(hashes)
        = IF \A i \in DOMAIN hashes : ~(hashes[i] \in ChainTo[tip]) THEN -1 ELSE HeightOf[hashes[k]]
  BY Zenon DEF FindBlockchainSupplement
<1>2. ASSUME NEW n \in on PROVE k \in DOMAIN hashes
  <2>1. PICK m \in on : \A j \in on : m <= j
    <3>1. on \in SUBSET Nat OBVIOUS
    <3> HIDE DEF on
    <3> QED BY Zenon, <1>2, <3>1, LeastNat
  <2>2. First(m)
    <3>1. \A j \in 1 .. m - 1 : j \in DOMAIN hashes /\ ~(m <= j) BY <2>1
    <3> QED BY Zenon, <2>1, <3>1
  <2>3. m \in DOMAIN hashes OBVIOUS
  <2> HIDE DEF First
  <2> QED BY Zenon, <2>2, <2>3
<1>3. \A i \in DOMAIN hashes : hashes[i] \in Blocks OBVIOUS
<1>4. FindBlockchainSupplement(hashes) \in Int /\ FindBlockchainSupplement(hashes) >= -1
  <2>1. CASE \A i \in DOMAIN hashes : ~(hashes[i] \in ChainTo[tip]) BY <1>1, <2>1
  <2>2. CASE ~ \A i \in DOMAIN hashes : ~(hashes[i] \in ChainTo[tip])
    <3>1. k \in DOMAIN hashes BY Zenon, <1>2, <2>2
    <3> HIDE DEF k
    <3>2. HeightOf[hashes[k]] \in Nat BY Zenon, <1>3, <3>1, Heights
    <3>3. FindBlockchainSupplement(hashes) = HeightOf[hashes[k]] BY Zenon, <1>1, <2>2
    <3> QED BY <3>2, <3>3
  <2> QED BY <2>1, <2>2
<1> QED BY <1>4 DEF KnownHeight

\* The blocks that a request brings: none below StartHeight.
High(blocks) == blocks \in Seq(Blocks) /\ \A i \in DOMAIN blocks : HeightOf[blocks[i]] >= StartHeight

\* getWalletSyncData answers with such blocks.
LEMMA SyncDataIs ==
    ASSUME tip \in Blocks, NEW known \in Int, known >= -1
    PROVE  High(GetWalletSyncData(known, StartHeight))
<1> DEFINE after == IF known = 0 THEN 0 ELSE known + 1
           first == IF after > StartHeight THEN after ELSE StartHeight
           data == GetWalletSyncData(known, StartHeight)
<1>1. data = IF known = -1 THEN <<>> ELSE From(first)
  <2>1. data = IF known = -1 \/ HeightOf[tip] < first THEN <<>>
               ELSE [i \in 1 .. (IF HeightOf[tip] - first + 1 > BatchSize THEN BatchSize
                                 ELSE HeightOf[tip] - first + 1) |-> BlockAt(tip, first + i - 1)]
    BY Zenon DEF GetWalletSyncData
  <2> HIDE DEF after, first
  <2> QED BY Zenon, <2>1 DEF From
<1>2. StartHeight \in Nat \ {0} BY Starts
<1>3. first \in Nat /\ first >= StartHeight BY <1>2
<1> HIDE DEF first, data
<1>4. CASE known = -1
  <2>1. data = <<>> BY <1>1, <1>4
  <2> QED BY <2>1 DEF High, data
<1>5. CASE known # -1
  <2>1. /\ From(first) \in Seq(Blocks)
        /\ \A i \in DOMAIN From(first) : HeightOf[From(first)[i]] = first + i - 1
    BY <1>3, FromIs
  <2>2. \A i \in DOMAIN From(first) : i \in Nat /\ i >= 1 BY <2>1
  <2>3. \A i \in DOMAIN From(first) : HeightOf[From(first)[i]] >= StartHeight
    BY <1>2, <1>3, <2>1, <2>2
  <2>4. data = From(first) BY <1>1, <1>5
  <2> QED BY Zenon, <2>1, <2>3, <2>4 DEF High, data
<1> QED BY <1>4, <1>5

\* A round of the scanning thread: with the blocks that the daemon answered
\* with, or without any.
LEMMA RoundIs ==
    ASSUME TypeInv, DownloadBlocks \/ DownloadFails
    PROVE  \E blocks : High(blocks) /\ Downloaded(blocks) /\ pc = "idle"
<1>0. tip \in Blocks /\ sync.hashes \in Seq(Blocks) /\ sync.checkpoints \in Seq(Blocks)
  BY DEF TypeInv, DaemonTyped, WalletTyped, SyncRecords
<1>1. High(<<>>) BY DEF High
<1>2. CASE DownloadFails BY Zenon, <1>1, <1>2 DEF DownloadFails
<1>3. CASE DownloadBlocks
  <2> DEFINE known == KnownHeight(GetBlockHashCheckpoints(sync))
             blocks == IF daemonCount < sync.height THEN <<>> ELSE GetWalletSyncData(known, StartHeight)
  <2>1. GetBlockHashCheckpoints(sync) \in Seq(Blocks) BY <1>0 DEF GetBlockHashCheckpoints
  <2>2. known \in Int /\ known >= -1 BY <1>0, <2>1, KnownIs
  <2>3. Downloaded(blocks) /\ pc = "idle" BY Zenon, <1>3 DEF DownloadBlocks
  <2> HIDE DEF known
  <2>4. High(GetWalletSyncData(known, StartHeight)) BY <1>0, <2>2, SyncDataIs
  <2>5. High(blocks) BY Zenon, <1>1, <2>4
  <2> QED BY Zenon, <2>3, <2>5
<1> QED BY <1>2, <1>3

\* A step of the daemon keeps the types.
LEMMA DaemonStepTypes ==
    ASSUME TypeInv, DaemonStep \/ GetDaemonInfo PROVE TypeInv'
<1>1. /\ UNCHANGED <<wallet, sync, scanVars, userVars>>
      /\ DaemonTyped'
  <2>1. CASE ExtendChain
    BY <2>1 DEF ExtendChain, DaemonTyped, TypeInv, userVars
  <2>2. CASE SwitchChain
    BY <2>2 DEF SwitchChain, DaemonTyped, TypeInv, userVars
  <2>3. CASE DropFromPool
    BY <2>3 DEF DropFromPool, DaemonTyped, TypeInv, userVars
  <2>4. CASE GetDaemonInfo
    BY <2>4, WalletAssumption DEF GetDaemonInfo, DaemonTyped, TypeInv, userVars
  <2> QED BY <2>1, <2>2, <2>3, <2>4 DEF DaemonStep
<1>2. WalletTyped' BY <1>1 DEF TypeInv, WalletTyped, userVars
<1>3. ScanTyped' /\ SpendFound' BY <1>1 DEF TypeInv, ScanTyped, SpendFound, scanVars
<1>4. SenderTyped' BY <1>1 DEF TypeInv, SenderTyped, userVars
<1> QED BY <1>1, <1>2, <1>3, <1>4 DEF TypeInv

\* What a step of the scanning thread leaves alone.
ScanFrame == UNCHANGED <<daemonVars, userVars>>

\* The steps of the scanning thread, requests without an answer included.
ThreadStep == ScanStep \/ DownloadFails \/ CheckFails

\* Such a step leaves the daemon and the senders alone.
LEMMA ScanFrameHolds == ASSUME ThreadStep PROVE ScanFrame
<1>1. CASE DownloadBlocks \/ DownloadFails
  BY <1>1 DEF DownloadBlocks, DownloadFails, Downloaded, ScanFrame
<1>2. CASE BeginBlock BY <1>2 DEF BeginBlock, ScanFrame
<1>3. CASE GetGlobalIndexes BY <1>3 DEF GetGlobalIndexes, ScanFrame
<1>4. CASE AddTransactions BY <1>4 DEF AddTransactions, ScanFrame
<1>5. CASE StoreInputs BY <1>5 DEF StoreInputs, ScanFrame
<1>6. CASE SpendInputs BY <1>6 DEF SpendInputs, ScanFrame
<1>7. CASE FinishBlock BY <1>7 DEF FinishBlock, ScanFrame
<1>8. CASE CheckLockedTransactions \/ CheckFails
  BY <1>8 DEF CheckLockedTransactions, CheckFails, Answered, ScanFrame
<1>9. CASE CancelTransactions BY <1>9 DEF CancelTransactions, ScanFrame
<1> QED BY Zenon, <1>1, <1>2, <1>3, <1>4, <1>5, <1>6, <1>7, <1>8, <1>9 DEF ScanStep, ThreadStep

\* So the types that it can disturb are those of the wallet and of the scan.
LEMMA ScanFrameTypes ==
    ASSUME TypeInv, ScanFrame, wallet' \in WalletRecords, sync' \in SyncRecords,
           ScanTyped', SpendFound'
    PROVE  TypeInv'
<1>1. DaemonTyped' BY DEF ScanFrame, DaemonTyped, TypeInv, daemonVars, userVars
<1>2. SenderTyped' BY DEF ScanFrame, SenderTyped, TypeInv, userVars
<1>3. WalletTyped' BY DEF ScanFrame, WalletTyped, TypeInv, userVars
<1> QED BY <1>1, <1>2, <1>3 DEF TypeInv

\* The block in hand, and the batch without it.
LEMMA BatchParts ==
    ASSUME batch \in Seq(Blocks), batch # <<>>
    PROVE  /\ Head(batch) \in Blocks /\ HeightOf[Head(batch)] \in Nat
           /\ Head(batch) = batch[1] /\ 1 \in DOMAIN batch
           /\ Tail(batch) \in Seq(Blocks)
           /\ Tail(batch) = <<>> <=> NextBlock = "idle"
           /\ NextBlock \in {"idle", "block"}
           /\ \A i \in DOMAIN Tail(batch) : i \in Nat /\ i + 1 \in DOMAIN batch /\ Tail(batch)[i] = batch[i + 1]
<1>1. Head(batch) \in Blocks /\ Tail(batch) \in Seq(Blocks) /\ Head(batch) = batch[1] OBVIOUS
<1>2. Len(batch) \in Nat /\ Len(batch) > 0 /\ Len(Tail(batch)) = Len(batch) - 1 OBVIOUS
<1>3. 1 \in DOMAIN batch BY <1>2
<1>4. \A i \in DOMAIN Tail(batch) : i \in Nat /\ i + 1 \in DOMAIN batch /\ Tail(batch)[i] = batch[i + 1]
  BY <1>2
<1>5. Tail(batch) = <<>> <=> ~ (Len(batch) > 1)
  <2> DEFINE t == Tail(batch)
             n == Len(batch)
  <2>1. t \in Seq(Blocks) /\ Len(t) = n - 1 /\ n \in Nat /\ n > 0 BY <1>1, <1>2
  <2> HIDE DEF t, n
  <2>2. t = <<>> <=> Len(t) = 0 BY <2>1
  <2>3. Len(t) = 0 <=> ~ (n > 1) BY <2>1
  <2> QED BY <2>2, <2>3 DEF t, n
<1>6. HeightOf[Head(batch)] \in Nat BY <1>1, Heights
<1>7. (NextBlock = "idle" <=> ~ (Len(batch) > 1)) /\ NextBlock \in {"idle", "block"}
  BY Zenon DEF NextBlock
<1> QED BY Zenon, <1>1, <1>3, <1>4, <1>5, <1>6, <1>7

\* storeBlockHash keeps the type of the status and stays within KnownSize.
LEMMA StoreHashIs ==
    ASSUME NEW s \in SyncRecords, NEW b \in Blocks, NEW v, v = StoreBlockHash(s, b)
    PROVE  /\ v \in SyncRecords
           /\ v.hashes # <<>> /\ Head(v.hashes) = b /\ v.height = HeightOf[b]
<1> DEFINE all == <<b>> \o s.hashes
           k == IF HeightOf[b] % Interval = 0 THEN <<b>> \o s.checkpoints ELSE s.checkpoints
           h == IF Len(all) > KnownSize THEN SubSeq(all, 1, Len(all) - 1) ELSE all
<1>1. s.hashes \in Seq(Blocks) /\ s.checkpoints \in Seq(Blocks) /\ Len(s.hashes) <= KnownSize
  BY DEF SyncRecords
<1>2. <<b>> \in Seq(Blocks) OBVIOUS
<1>3. all \in Seq(Blocks) /\ Len(all) = Len(s.hashes) + 1 /\ all[1] = b BY <1>1, <1>2
<1>4. k \in Seq(Blocks) BY <1>1, <1>2
<1>5. HeightOf[b] \in Nat /\ KnownSize \in Nat \ {0} BY WalletAssumption
<1>6. v = [s EXCEPT !.height = HeightOf[b], !.checkpoints = k, !.hashes = h]
  BY DEF StoreBlockHash, SyncRecords
<1>7. Len(s.hashes) \in Nat BY <1>1
<1> HIDE DEF all, k
<1>8. h \in Seq(Blocks) /\ Len(h) <= KnownSize /\ h # <<>> /\ Head(h) = b
  <2>1. CASE Len(all) > KnownSize
    <3>1. Len(all) = KnownSize + 1 BY <1>1, <1>3, <1>5, <1>7, <2>1
    <3>2. h = SubSeq(all, 1, Len(all) - 1) BY <2>1
    <3>3. h \in Seq(Blocks) /\ Len(h) = KnownSize /\ h[1] = b BY <1>3, <1>5, <3>1, <3>2
    <3> HIDE DEF h
    <3> QED BY <1>5, <3>3
  <2>2. CASE ~ (Len(all) > KnownSize)
    <3>1. h = all BY <2>2
    <3> HIDE DEF h
    <3> QED BY <1>3, <1>5, <1>7, <2>2, <3>1
  <2> QED BY <2>1, <2>2
<1> HIDE DEF h
<1>9. v.hashes = h /\ v.height = HeightOf[b] BY <1>6 DEF SyncRecords
<1>10. v \in SyncRecords BY Zenon, <1>4, <1>5, <1>6, <1>8 DEF SyncRecords
<1> QED BY Zenon, <1>8, <1>9, <1>10

\* The parts of TypeInv that the proofs about single steps use.
LEMMA TypeParts ==
    ASSUME TypeInv
    PROVE  /\ tip \in Blocks /\ wallet \in WalletRecords /\ sync \in SyncRecords
           /\ file.wallet \in WalletRecords /\ file.sync \in SyncRecords
           /\ batch \in Seq(Blocks) /\ scan.txs \in SUBSET Txs /\ scan.outs \in SUBSET Outputs
           /\ scan.spend \in SUBSET OpenOf(wallet)
           /\ pc # "process" => scan = NoScan
           /\ pc \in {"block", "indexes", "process"} => batch # <<>>
           /\ pc \in {"idle", "check", "cancel", "saving"} => batch = <<>>
           /\ sync.hashes \in Seq(Blocks) /\ sync.checkpoints \in Seq(Blocks) /\ sync.height \in Nat
           /\ file.sync.hashes \in Seq(Blocks)
<1>1. /\ tip \in Blocks /\ wallet \in WalletRecords /\ sync \in SyncRecords
      /\ file.wallet \in WalletRecords /\ file.sync \in SyncRecords
  BY DEF TypeInv, DaemonTyped, WalletTyped
<1>2. /\ sync.hashes \in Seq(Blocks) /\ sync.checkpoints \in Seq(Blocks) /\ sync.height \in Nat
      /\ file.sync.hashes \in Seq(Blocks)
  BY <1>1 DEF SyncRecords
<1>3. /\ batch \in Seq(Blocks) /\ scan.txs \in SUBSET Txs /\ scan.outs \in SUBSET Outputs
  BY DEF TypeInv, ScanTyped
<1>4. /\ pc \in {"block", "indexes", "process"} => batch # <<>>
      /\ pc \in {"idle", "check", "cancel", "saving"} => batch = <<>>
  BY DEF TypeInv, ScanTyped
<1>5. scan.spend \in SUBSET OpenOf(wallet) /\ (pc # "process" => scan = NoScan)
  BY DEF TypeInv, SpendFound
<1> QED BY Zenon, <1>1, <1>2, <1>3, <1>4, <1>5

\* The outputs a block pays to the wallet are outputs.
LEMMA OutputsOfIs == ASSUME NEW b \in Blocks PROVE OutputsOf(b) \in SUBSET Outputs
<1>1. TxsOf[b] \subseteq Txs BY BlockTxs
<1> QED BY Zenon, <1>1 DEF OutputsOf, Outputs

\* The lists hold outputs.
LEMMA KeysTyped == ASSUME NEW q \in Seq(InputRecords) PROVE Keys(q) \in SUBSET Outputs
<1>1. \A i \in DOMAIN q : q[i].out \in Outputs
  <2>1. \A i \in DOMAIN q : q[i] \in InputRecords OBVIOUS
  <2> QED BY <2>1 DEF InputRecords
<1> QED BY Zenon, <1>1 DEF Keys

\* What processBlockTransactions finds.
LEMMA FoundIs ==
    ASSUME wallet \in WalletRecords, NEW b \in Blocks, NEW v, v = ProcessBlockTransactions(b)
    PROVE  /\ v \in [txs : SUBSET Txs, outs : SUBSET Outputs, spend : SUBSET Outputs]
           /\ v.txs \subseteq TxsOf[b] /\ v.outs = OutputsOf(b)
           /\ v.spend = {o \in OpenOf(wallet) : \E t \in TxsOf[b] : o \in Ins[t]}
<1> DEFINE spends(t) == {o \in Ins[t] : HasKeyImage(wallet, o)}
           ours == {t \in TxsOf[b] : Outs[t] # {} \/ spends(t) # {}}
           found == UNION {spends(t) : t \in ours}
<1>1. v = [txs |-> ours, outs |-> OutputsOf(b), spend |-> found]
  BY Zenon DEF ProcessBlockTransactions
<1>2. \A o : HasKeyImage(wallet, o) <=> o \in OpenOf(wallet) BY DEF HasKeyImage, OpenOf
<1>3. found = {o \in OpenOf(wallet) : \E t \in TxsOf[b] : o \in Ins[t]}
  <2>1. ASSUME NEW o \in found PROVE o \in OpenOf(wallet) /\ \E t \in TxsOf[b] : o \in Ins[t]
    BY Zenon, <1>2, <2>1
  <2>2. ASSUME NEW o \in OpenOf(wallet), NEW t \in TxsOf[b], o \in Ins[t] PROVE o \in found
    <3>1. o \in spends(t) BY Zenon, <1>2, <2>2
    <3>2. t \in ours BY Zenon, <3>1
    <3> QED BY Zenon, <3>1, <3>2
  <2> HIDE DEF found
  <2> QED BY Zenon, <2>1, <2>2
<1>4. OpenOf(wallet) \in SUBSET Outputs BY Zenon, WalletFields, KeysTyped DEF OpenOf
<1>5. TxsOf[b] \subseteq Txs BY BlockTxs
<1>6. ours \in SUBSET TxsOf[b] OBVIOUS
<1>7. OutputsOf(b) \in SUBSET Outputs BY OutputsOfIs
<1> HIDE DEF ours, found
<1>8. found \in SUBSET Outputs BY Zenon, <1>3, <1>4
<1>9. v.txs = ours /\ v.outs = OutputsOf(b) /\ v.spend = found BY <1>1
<1>10. v \in [txs : SUBSET Txs, outs : SUBSET Outputs, spend : SUBSET Outputs]
  BY <1>1, <1>5, <1>6, <1>7, <1>8
<1> QED BY Zenon, <1>3, <1>6, <1>9, <1>10

\* A step of the scanning thread keeps the types.
LEMMA ScanStepTypes == ASSUME TypeInv, ThreadStep PROVE TypeInv'
<1>0. /\ tip \in Blocks /\ wallet \in WalletRecords /\ sync \in SyncRecords
      /\ batch \in Seq(Blocks) /\ scan.txs \in SUBSET Txs /\ scan.outs \in SUBSET Outputs
      /\ scan.spend \in SUBSET OpenOf(wallet)
      /\ pc # "process" => scan = NoScan
      /\ pc \in {"block", "indexes", "process"} => batch # <<>>
      /\ pc \in {"idle", "check", "cancel", "saving"} => batch = <<>>
      /\ sync.hashes \in Seq(Blocks) /\ sync.checkpoints \in Seq(Blocks)
  BY Zenon, TypeParts
<1>s. scan \in [txs : SUBSET Txs, outs : SUBSET Outputs, spend : SUBSET Outputs]
  BY DEF TypeInv, ScanTyped
<1>w. wallet \in WalletRecords BY <1>0
<1>f. ScanFrame BY ScanFrameHolds
<1>1. CASE DownloadBlocks \/ DownloadFails
  <2>1. PICK blocks : High(blocks) /\ Downloaded(blocks) /\ pc = "idle" BY <1>1, RoundIs
  <2>2. blocks \in Seq(Blocks) BY <2>1 DEF High
  <2>3. /\ batch' = blocks /\ UNCHANGED <<wallet, sync, scan>>
        /\ pc' = IF blocks # <<>> THEN "block" ELSE IF sync.height >= daemonCount THEN "check" ELSE "idle"
    BY <2>1 DEF Downloaded
  <2>6. ScanTyped' BY <1>s, <2>2, <2>3 DEF ScanTyped
  <2>7. scan = NoScan BY <1>0, <2>1
  <2>8. SpendFound' BY <1>0, <2>3, <2>7 DEF SpendFound
  <2> QED BY <1>0, <1>f, <2>3, <2>6, <2>8, ScanFrameTypes
<1>2. CASE BeginBlock
  <2>1. /\ pc = "block" /\ pc' = "indexes" /\ UNCHANGED <<sync, batch, scan>>
        /\ wallet' = IF Forked(Head(batch))
                     THEN RemoveForkedTransactions(wallet, HeightOf[Head(batch)]) ELSE wallet
    BY <1>2 DEF BeginBlock
  <2>2. HeightOf[Head(batch)] \in Nat /\ batch # <<>> BY <1>0, <2>1, BatchParts
  <2>3. RemoveForkedTransactions(wallet, HeightOf[Head(batch)]) \in WalletRecords
    BY <1>0, <2>2, ForkIs DEF Rolled
  <2>4. wallet' \in WalletRecords BY Zenon, <1>0, <2>1, <2>3
  <2>5. ScanTyped' BY <1>s, <1>0, <2>1, <2>2 DEF ScanTyped
  <2>6. scan = NoScan /\ scan' = NoScan BY <1>0, <2>1
  <2>7. NoScan.spend = {} BY DEF NoScan
  <2>8. SpendFound' BY Zenon, <2>6, <2>7 DEF SpendFound
  <2> QED BY Zenon, <1>0, <1>f, <2>1, <2>4, <2>5, <2>8, ScanFrameTypes
<1>3. CASE GetGlobalIndexes
  <2>1. pc = "indexes" /\ UNCHANGED <<wallet, sync>> BY <1>3 DEF GetGlobalIndexes
  <2>2. scan = NoScan /\ batch # <<>> BY <1>0, <2>1
  <2>3. Head(batch) \in Blocks BY <1>0, <2>2, BatchParts
  <2>4. CASE /\ scan' = ProcessBlockTransactions(Head(batch)) /\ pc' = "process" /\ UNCHANGED batch
    <3>1. /\ scan' \in [txs : SUBSET Txs, outs : SUBSET Outputs, spend : SUBSET Outputs]
          /\ scan'.spend \subseteq OpenOf(wallet)
      BY <1>0, <2>3, <2>4, FoundIs
    <3>2. ScanTyped' BY <1>0, <2>2, <2>4, <3>1 DEF ScanTyped
    <3>3. SpendFound' BY <2>1, <2>4, <3>1 DEF SpendFound
    <3> QED BY Zenon, <1>0, <1>f, <2>1, <3>2, <3>3, ScanFrameTypes
  <2>5. CASE batch' = Tail(batch) /\ pc' = NextBlock /\ UNCHANGED scan
    <3>1. /\ Tail(batch) \in Seq(Blocks) /\ NextBlock \in {"idle", "block"}
          /\ Tail(batch) = <<>> <=> NextBlock = "idle"
      BY Zenon, <1>0, <2>2, BatchParts
    <3>2. ScanTyped' BY <1>s, <2>5, <3>1 DEF ScanTyped
    <3>3. SpendFound' BY <1>0, <2>1, <2>2, <2>5 DEF SpendFound
    <3> QED BY Zenon, <1>0, <1>f, <2>1, <3>2, <3>3, ScanFrameTypes
  <2> QED BY <1>3, <2>4, <2>5 DEF GetGlobalIndexes
<1>4. CASE AddTransactions
  <2>1. pc = "process" /\ UNCHANGED <<sync, batch, pc>> BY <1>4 DEF AddTransactions
  <2>2. PICK t \in scan.txs : /\ wallet' = AddTransaction(wallet, t, HeightOf[Head(batch)])
                              /\ scan' = [scan EXCEPT !.txs = @ \ {t}]
    BY <1>4 DEF AddTransactions
  <2>3. HeightOf[Head(batch)] \in Nat /\ batch # <<>> BY <1>0, <2>1, BatchParts
  <2>4. /\ wallet' \in WalletRecords
        /\ wallet'.unspent = wallet.unspent /\ wallet'.locked = wallet.locked
    BY <1>0, <2>2, <2>3, AddIs
  <2>5. scan' \in [txs : SUBSET Txs, outs : SUBSET Outputs, spend : SUBSET Outputs]
        /\ scan'.spend = scan.spend
    BY <1>s, <2>2
  <2>6. ScanTyped' BY <1>0, <2>1, <2>3, <2>5 DEF ScanTyped
  <2>7. OpenOf(wallet') = OpenOf(wallet) BY Zenon, <2>4 DEF OpenOf
  <2>8. SpendFound' BY Zenon, <1>0, <2>1, <2>5, <2>7 DEF SpendFound
  <2> QED BY Zenon, <1>0, <1>f, <2>1, <2>4, <2>6, <2>8, ScanFrameTypes
<1>5. CASE StoreInputs
  <2>1. pc = "process" /\ UNCHANGED <<sync, batch, pc>> BY <1>5 DEF StoreInputs
  <2>2. PICK o \in scan.outs : /\ wallet' = StoreTransactionInput(wallet, o, HeightOf[Head(batch)])
                               /\ scan' = [scan EXCEPT !.outs = @ \ {o}]
    BY <1>5 DEF StoreInputs
  <2>3. HeightOf[Head(batch)] \in Nat /\ batch # <<>> BY <1>0, <2>1, BatchParts
  <2>4. /\ wallet' \in WalletRecords
        /\ Keys(wallet'.unspent) = Keys(wallet.unspent) \cup {o}
        /\ Keys(wallet'.locked) = Keys(wallet.locked)
    <3>1. o \in Outputs BY <1>0, <2>2
    <3> DEFINE h == HeightOf[Head(batch)]
    <3>2. wallet' = StoreTransactionInput(wallet, o, h) /\ h \in Nat BY <2>2, <2>3
    <3> HIDE DEF h
    <3>3. Stored(wallet, o, wallet') BY Zenon, <1>w, <3>1, <3>2, StoreSays
    <3> QED BY Zenon, <3>3 DEF Stored
  <2>5. scan' \in [txs : SUBSET Txs, outs : SUBSET Outputs, spend : SUBSET Outputs]
        /\ scan'.spend = scan.spend
    BY <1>s, <2>2
  <2>6. ScanTyped' BY <1>0, <2>1, <2>3, <2>5 DEF ScanTyped
  <2>7. OpenOf(wallet) \subseteq OpenOf(wallet') BY Zenon, <2>4 DEF OpenOf
  <2>8. SpendFound' BY Zenon, <1>0, <2>1, <2>5, <2>7 DEF SpendFound
  <2> QED BY Zenon, <1>0, <1>f, <2>1, <2>4, <2>6, <2>8, ScanFrameTypes
<1>6. CASE SpendInputs
  <2>1. pc = "process" /\ UNCHANGED <<sync, batch, pc>> BY <1>6 DEF SpendInputs
  <2>2. PICK o \in scan.spend : /\ wallet' = MarkInputAsSpent(wallet, o, HeightOf[Head(batch)])
                                /\ scan' = [scan EXCEPT !.spend = @ \ {o}]
    BY <1>6 DEF SpendInputs
  <2>3. HeightOf[Head(batch)] \in Nat /\ batch # <<>> BY <1>0, <2>1, BatchParts
  <2>4. o \in OpenOf(wallet) BY <1>0, <2>2
  <2>5. wallet' \in WalletRecords /\ OpenOf(wallet) \ {o} \subseteq OpenOf(wallet')
    BY <1>0, <2>2, <2>3, <2>4, SpendIs
  <2>6. scan' \in [txs : SUBSET Txs, outs : SUBSET Outputs, spend : SUBSET Outputs]
        /\ scan'.spend = scan.spend \ {o}
    BY <1>s, <2>2
  <2>7. ScanTyped' BY <1>0, <2>1, <2>3, <2>6 DEF ScanTyped
  <2>8. SpendFound' BY Zenon, <1>0, <2>1, <2>5, <2>6 DEF SpendFound
  <2> QED BY Zenon, <1>0, <1>f, <2>1, <2>5, <2>7, <2>8, ScanFrameTypes
<1>7. CASE FinishBlock
  <2>1. pc = "process" /\ scan = NoScan /\ UNCHANGED <<wallet, scan>> BY <1>7 DEF FinishBlock
  <2>2. batch # <<>> /\ Head(batch) \in Blocks BY <1>0, <2>1, BatchParts
  <2>3. SpendFound' BY <1>0, <2>1 DEF SpendFound
  <2>4. CASE UNCHANGED <<sync, batch, pc>>
    <3>1. ScanTyped' BY <1>s, <1>0, <2>1, <2>2, <2>4 DEF ScanTyped
    <3> QED BY Zenon, <1>0, <1>f, <2>1, <2>3, <2>4, <3>1, ScanFrameTypes
  <2>5. CASE sync' = StoreBlockHash(sync, Head(batch)) /\ batch' = Tail(batch) /\ pc' = NextBlock
    <3>1. /\ Tail(batch) \in Seq(Blocks) /\ NextBlock \in {"idle", "block"}
          /\ Tail(batch) = <<>> <=> NextBlock = "idle"
      BY Zenon, <1>0, <2>2, BatchParts
    <3>2. ScanTyped' BY <1>s, <2>1, <2>5, <3>1 DEF ScanTyped
    <3>3. sync' \in SyncRecords BY Zenon, <1>0, <2>2, <2>5, StoreHashIs
    <3> QED BY Zenon, <1>0, <1>f, <2>1, <2>3, <3>2, <3>3, ScanFrameTypes
  <2> QED BY <1>7, <2>4, <2>5 DEF FinishBlock
<1>8. CASE CheckLockedTransactions \/ CheckFails
  <2>1. /\ pc = "check" /\ pc' \in {"idle", "cancel"} /\ UNCHANGED <<wallet, sync, batch, scan>>
    BY <1>8 DEF CheckLockedTransactions, CheckFails, Answered
  <2>2. ScanTyped' BY <1>s, <1>0, <2>1 DEF ScanTyped
  <2>3. SpendFound' BY <1>0, <2>1 DEF SpendFound
  <2> QED BY Zenon, <1>0, <1>f, <2>1, <2>2, <2>3, ScanFrameTypes
<1>9. CASE CancelTransactions
  <2>1. /\ pc = "cancel" /\ pc' = "idle" /\ UNCHANGED <<sync, batch, scan>>
        /\ wallet' = RemoveCancelledTransactions(wallet, cancelled)
    BY <1>9 DEF CancelTransactions
  <2>2. ScanTyped' BY <1>s, <1>0, <2>1 DEF ScanTyped
  <2>3. wallet' \in WalletRecords BY Zenon, <1>0, <2>1, CancelIs
  <2>4. scan = NoScan /\ scan' = NoScan BY <1>0, <2>1
  <2>5. NoScan.spend = {} BY DEF NoScan
  <2>6. SpendFound' BY Zenon, <2>4, <2>5 DEF SpendFound
  <2> QED BY Zenon, <1>0, <1>f, <2>1, <2>2, <2>3, <2>6, ScanFrameTypes
<1> QED BY Zenon, <1>1, <1>2, <1>3, <1>4, <1>5, <1>6, <1>7, <1>8, <1>9 DEF ScanStep, ThreadStep

\* What a step of a sender leaves alone.
SendFrame == UNCHANGED <<tip, daemonCount, sync, scanVars, file, interruptions>>

\* The records of a sender.
LEMMA SenderIs ==
    ASSUME TypeInv, NEW s \in Senders
    PROVE  /\ sender[s] \in SenderRecords
           /\ sender[s].pc # "idle" <=> sender[s].tx # NoTx
           /\ sender[s].tx # NoTx => sender[s].tx \in Own /\ sender[s].tx \in Txs
           /\ sender[s].left \in SUBSET Outputs
           /\ sender[s].tx # NoTx => sender[s].left \subseteq Ins[sender[s].tx]
<1>1. sender[s] \in SenderRecords BY DEF TypeInv, SenderTyped
<1> QED BY <1>1, WalletAssumption DEF SenderRecords

\* An idle sender, and one that moves on with its transaction.
LEMMA SenderMoves ==
    /\ Idle \in SenderRecords
    /\ \A p \in {"relay", "relayed", "stored", "lock"}, t \in Own, left \in SUBSET Outputs :
          left \subseteq Ins[t] => [pc |-> p, tx |-> t, left |-> left] \in SenderRecords
<1>1. Idle \in SenderRecords BY DEF Idle, SenderRecords
<1>2. \A t \in Own : t # NoTx BY WalletAssumption
<1> QED BY <1>1, <1>2 DEF SenderRecords

\* The types that a step of a sender can disturb.
LEMMA SendFrameTypes ==
    ASSUME TypeInv, SendFrame, pool' \in SUBSET Own, relayed' \in SUBSET Own,
           wallet' \in WalletRecords, OpenOf(wallet) \subseteq OpenOf(wallet'),
           SenderTyped'
    PROVE  TypeInv'
<1>1. DaemonTyped' BY DEF SendFrame, DaemonTyped, TypeInv
<1>2. WalletTyped' BY DEF SendFrame, WalletTyped, TypeInv
<1>3. ScanTyped' BY DEF SendFrame, ScanTyped, TypeInv, scanVars
<1>4. SpendFound'
  <2>1. SpendFound /\ UNCHANGED <<pc, scan>> BY DEF SendFrame, TypeInv, scanVars
  <2> QED BY Zenon, <2>1 DEF SpendFound
<1> QED BY <1>1, <1>2, <1>3, <1>4 DEF TypeInv

\* A step of a sender keeps the types.
LEMMA SendStepTypes ==
    ASSUME TypeInv, NEW s \in Senders, GetTransactionInputs(s) \/ SendStep(s) PROVE TypeInv'
<1>0. /\ pool \in SUBSET Own /\ relayed \in SUBSET Own /\ wallet \in WalletRecords
      /\ sender \in [Senders -> SenderRecords]
  BY DEF TypeInv, DaemonTyped, WalletTyped, SenderTyped
<1>m. \A r \in SenderRecords : [sender EXCEPT ![s] = r] \in [Senders -> SenderRecords] BY <1>0
<1>1. CASE GetTransactionInputs(s)
  <2>1. SendFrame /\ UNCHANGED <<pool, wallet, relayed>>
    BY <1>1 DEF GetTransactionInputs, SendFrame, daemonVars
  <2>2. PICK t \in Own \ relayed, n \in {HeightOf[b] : b \in Blocks} :
          /\ Ins[t] \subseteq GetSpendableInputs(wallet, n)
          /\ SetSender(s, "relay", t, Ins[t])
    BY Zenon, <1>1 DEF GetTransactionInputs
  <2>3. Ins[t] \in SUBSET Outputs
    <3>1. Keys(wallet.unspent) \in SUBSET Outputs BY <1>0, WalletFields, KeysTyped
    <3> QED BY <2>2, <3>1 DEF GetSpendableInputs
  <2>4. [pc |-> "relay", tx |-> t, left |-> Ins[t]] \in SenderRecords BY <2>3, SenderMoves
  <2>5. SenderTyped' BY Zenon, <1>m, <2>2, <2>4 DEF SenderTyped, SetSender
  <2> QED BY <1>0, <2>1, <2>5, SendFrameTypes
<1>2. CASE RelayTransaction(s)
  <2>0. SendFrame /\ UNCHANGED wallet /\ sender[s].pc = "relay"
    BY <1>2 DEF RelayTransaction, SendFrame
  <2>1. /\ sender[s].tx \in Own /\ sender[s].left \in SUBSET Outputs
        /\ sender[s].left \subseteq Ins[sender[s].tx]
    BY <2>0, SenderIs
  <2>2. /\ pool' = pool \/ pool' = pool \cup {sender[s].tx}
        /\ relayed' = relayed \/ relayed' = relayed \cup {sender[s].tx}
    BY <1>2 DEF RelayTransaction
  <2>3. \/ sender' = [sender EXCEPT ![s] = Idle]
        \/ SetSender(s, "relayed", sender[s].tx, sender[s].left)
    BY <1>2 DEF RelayTransaction
  <2>4. [pc |-> "relayed", tx |-> sender[s].tx, left |-> sender[s].left] \in SenderRecords
    BY <2>1, SenderMoves
  <2>5. SenderTyped' BY Zenon, <1>m, <2>3, <2>4, SenderMoves DEF SenderTyped, SetSender
  <2>6. pool' \in SUBSET Own /\ relayed' \in SUBSET Own BY <1>0, <2>1, <2>2
  <2> QED BY Zenon, <1>0, <2>0, <2>5, <2>6, SendFrameTypes
<1>3. CASE StoreSentTransaction(s)
  <2>0. /\ SendFrame /\ UNCHANGED <<pool, relayed>> /\ sender[s].pc = "relayed"
        /\ wallet' = [wallet EXCEPT !.lockedTxs = @ \cup {sender[s].tx}]
        /\ SetSender(s, "stored", sender[s].tx, sender[s].left)
    BY <1>3 DEF StoreSentTransaction, SendFrame, daemonVars
  <2>1. /\ sender[s].tx \in Own /\ sender[s].left \in SUBSET Outputs
        /\ sender[s].left \subseteq Ins[sender[s].tx]
    BY <2>0, SenderIs
  <2>2. [pc |-> "stored", tx |-> sender[s].tx, left |-> sender[s].left] \in SenderRecords
    BY <2>1, SenderMoves
  <2>3. SenderTyped' BY Zenon, <1>m, <2>0, <2>2 DEF SenderTyped, SetSender
  <2>4. /\ wallet' \in WalletRecords
        /\ wallet'.unspent = wallet.unspent /\ wallet'.locked = wallet.locked
    BY Zenon, <1>0, <2>0, <2>1 DEF WalletRecords
  <2>5. OpenOf(wallet') = OpenOf(wallet) BY Zenon, <2>4 DEF OpenOf
  <2> QED BY Zenon, <1>0, <2>0, <2>3, <2>4, <2>5, SendFrameTypes
<1>4. CASE StoreUnconfirmedIncomingInputs(s)
  <2>0. /\ SendFrame /\ UNCHANGED <<pool, relayed>> /\ sender[s].pc = "stored"
        /\ wallet' = [wallet EXCEPT !.unconfirmed = @ \cup Outs[sender[s].tx]]
        /\ SetSender(s, "lock", sender[s].tx, sender[s].left)
    BY <1>4 DEF StoreUnconfirmedIncomingInputs, SendFrame, daemonVars
  <2>1. /\ sender[s].tx \in Own /\ sender[s].tx \in Txs /\ sender[s].left \in SUBSET Outputs
        /\ sender[s].left \subseteq Ins[sender[s].tx]
    BY <2>0, SenderIs
  <2>2. [pc |-> "lock", tx |-> sender[s].tx, left |-> sender[s].left] \in SenderRecords
    BY <2>1, SenderMoves
  <2>3. SenderTyped' BY Zenon, <1>m, <2>0, <2>2 DEF SenderTyped, SetSender
  <2>4. Outs[sender[s].tx] \in SUBSET Outputs BY Zenon, <2>1 DEF Outputs
  <2>5. /\ wallet' \in WalletRecords
        /\ wallet'.unspent = wallet.unspent /\ wallet'.locked = wallet.locked
    BY Zenon, <1>0, <2>0, <2>4 DEF WalletRecords
  <2>6. OpenOf(wallet') = OpenOf(wallet) BY Zenon, <2>5 DEF OpenOf
  <2> QED BY Zenon, <1>0, <2>0, <2>3, <2>5, <2>6, SendFrameTypes
<1>5. CASE LockInput(s)
  <2>0. SendFrame /\ UNCHANGED <<pool, relayed>> /\ sender[s].pc = "lock"
    BY <1>5 DEF LockInput, SendFrame, daemonVars
  <2>1. PICK o \in sender[s].left :
          IF o \in Keys(wallet.unspent)
          THEN /\ wallet' = MarkInputAsLocked(wallet, o)
               /\ IF sender[s].left = {o} THEN sender' = [sender EXCEPT ![s] = Idle]
                  ELSE SetSender(s, "lock", sender[s].tx, sender[s].left \ {o})
          ELSE sender' = [sender EXCEPT ![s] = Idle] /\ UNCHANGED wallet
    BY Zenon, <1>5 DEF LockInput
  <2>2. [pc |-> "lock", tx |-> sender[s].tx, left |-> sender[s].left \ {o}] \in SenderRecords
    BY Zenon, <2>0, SenderIs, SenderMoves
  <2>3. CASE o \in Keys(wallet.unspent)
    <3>1. /\ wallet' = MarkInputAsLocked(wallet, o)
          /\ \/ sender' = [sender EXCEPT ![s] = Idle]
             \/ SetSender(s, "lock", sender[s].tx, sender[s].left \ {o})
      BY Zenon, <2>1, <2>3
    <3>2. SenderTyped' BY Zenon, <1>m, <2>2, <3>1, SenderMoves DEF SenderTyped, SetSender
    <3>3. wallet' \in WalletRecords /\ OpenOf(wallet') = OpenOf(wallet) BY Zenon, <1>0, <2>3, <3>1, LockIs
    <3> QED BY Zenon, <1>0, <2>0, <3>2, <3>3, SendFrameTypes
  <2>4. CASE o \notin Keys(wallet.unspent)
    <3>1. sender' = [sender EXCEPT ![s] = Idle] /\ UNCHANGED wallet BY <2>1, <2>4
    <3>2. SenderTyped' BY Zenon, <1>m, <3>1, SenderMoves DEF SenderTyped
    <3> QED BY Zenon, <1>0, <2>0, <3>1, <3>2, SendFrameTypes
  <2> QED BY <2>3, <2>4
<1> QED BY Zenon, <1>1, <1>2, <1>3, <1>4, <1>5 DEF SendStep

\* The steps of WalletBackend.
FileStep == Save \/ ResetSync \/ WriteFile \/ OpenWallet

\* What a reopening finds: the file, or a new wallet when it is cut.
LEMMA OpenIs ==
    ASSUME OpenWallet
    PROVE  /\ \/ wallet' = ReadWallet(file.wallet) /\ sync' = file.sync
              \/ wallet' = EmptyWallet /\ sync' = NewSync
           /\ pc' = "idle" /\ batch' = <<>> /\ scan' = NoScan /\ sender' = [s \in Senders |-> Idle]
           /\ UNCHANGED <<daemonVars, relayed, file, slips>>
           /\ Interrupted("open")
BY DEF OpenWallet

\* What a save writes, and the file after it.
LEMMA SaveIs ==
    ASSUME TypeInv, Save \/ ResetSync
    PROVE  /\ pc' \in {"idle", "saving"} /\ batch' = <<>> /\ scan = NoScan /\ scan' = NoScan
           /\ \/ file' = file
              \/ file' = [cut |-> TRUE, wallet |-> wallet', sync |-> sync']
           /\ pc \in {"idle", "block"} /\ UNCHANGED <<daemonVars, sender, relayed, slips>>
           /\ Save => UNCHANGED <<wallet, sync>> /\ Interrupted("save")
           /\ ResetSync => wallet' = ResetWallet(wallet) /\ sync' = NewSync /\ Interrupted("reset")
<1>1. pc \in {"idle", "block"} /\ batch' = <<>> /\ UNCHANGED scan BY DEF Save, ResetSync, Paused
<1>2. scan = NoScan BY <1>1 DEF TypeInv, SpendFound
<1>3. CASE Save
  <2>1. UNCHANGED <<wallet, sync, daemonVars, sender, relayed, slips>> /\ UnsafeSave(wallet, sync)
        /\ Interrupted("save")
    BY <1>3 DEF Save
  <2>2. ~ResetSync \/ ResetSync OBVIOUS
  <2>3. ResetSync => wallet' = ResetWallet(wallet) /\ sync' = NewSync /\ Interrupted("reset")
    BY DEF ResetSync
  <2> QED BY <1>1, <1>2, <2>1, <2>3 DEF UnsafeSave
<1>4. CASE ResetSync
  <2>1. /\ wallet' = ResetWallet(wallet) /\ sync' = NewSync /\ Interrupted("reset")
        /\ UNCHANGED <<daemonVars, sender, relayed, slips>> /\ UnsafeSave(wallet', sync')
    BY <1>4 DEF ResetSync
  <2>2. Save => UNCHANGED <<wallet, sync>> /\ Interrupted("save") BY DEF Save
  <2> QED BY <1>1, <1>2, <2>1, <2>2 DEF UnsafeSave
<1> QED BY <1>3, <1>4

\* They keep the types.
LEMMA InterruptTypes == ASSUME TypeInv, FileStep PROVE TypeInv'
<1>0. /\ wallet \in WalletRecords /\ sync \in SyncRecords /\ batch \in Seq(Blocks)
      /\ file.wallet \in WalletRecords /\ file.sync \in SyncRecords
      /\ pc = "saving" => batch = <<>> /\ scan = NoScan
  BY TypeParts
<1>1. /\ file \in [cut : BOOLEAN, wallet : WalletRecords, sync : SyncRecords]
      /\ interruptions \in [save : Nat, reset : Nat, open : Nat]
  BY DEF TypeInv, WalletTyped
<1>2. NewSync \in SyncRecords BY WalletAssumption DEF NewSync, SyncRecords
<1>3. /\ NoScan \in [txs : SUBSET Txs, outs : SUBSET Outputs, spend : SUBSET Outputs]
      /\ NoScan.spend = {}
  BY DEF NoScan
<1>4. ASSUME UNCHANGED <<daemonVars, relayed>>, wallet' \in WalletRecords, sync' \in SyncRecords,
             file' \in [cut : BOOLEAN, wallet : WalletRecords, sync : SyncRecords],
             interruptions' \in [save : Nat, reset : Nat, open : Nat],
             pc' \in {"idle", "saving"}, batch' = <<>>, scan' = NoScan,
             UNCHANGED sender \/ sender' = [s \in Senders |-> Idle]
      PROVE  TypeInv'
  <2>1. DaemonTyped' BY <1>4 DEF TypeInv, DaemonTyped, daemonVars
  <2>2. SenderTyped' BY Zenon, <1>4, SenderMoves DEF SenderTyped, TypeInv
  <2>3. WalletTyped' BY <1>4 DEF WalletTyped
  <2>4. ScanTyped' /\ SpendFound' BY <1>3, <1>4 DEF ScanTyped, SpendFound
  <2> QED BY <2>1, <2>2, <2>3, <2>4 DEF TypeInv
<1>5. ASSUME NEW how \in {"save", "reset", "open"}, Interrupted(how)
      PROVE  interruptions' \in [save : Nat, reset : Nat, open : Nat]
  BY <1>1, <1>5 DEF Interrupted
<1>6. CASE Save \/ ResetSync
  <2>1. wallet' \in WalletRecords /\ sync' \in SyncRecords
    BY Zenon, <1>0, <1>2, <1>6, SaveIs, ResetIs
  <2>2. file' \in [cut : BOOLEAN, wallet : WalletRecords, sync : SyncRecords]
    <3>1. file' = file \/ file' = [cut |-> TRUE, wallet |-> wallet', sync |-> sync']
      BY Zenon, <1>6, SaveIs
    <3>2. CASE file' = file BY Zenon, <1>1, <3>2
    <3>3. CASE file' = [cut |-> TRUE, wallet |-> wallet', sync |-> sync'] BY <2>1, <3>3
    <3> QED BY <3>1, <3>2, <3>3
  <2>3. interruptions' \in [save : Nat, reset : Nat, open : Nat] BY Zenon, <1>5, <1>6, SaveIs
  <2>4. /\ UNCHANGED <<daemonVars, relayed, sender>> /\ pc' \in {"idle", "saving"} /\ batch' = <<>>
        /\ scan' = NoScan
    BY <1>6, SaveIs
  <2> QED BY Zenon, <1>4, <2>1, <2>2, <2>3, <2>4
<1>7. CASE WriteFile
  <2>1. /\ pc = "saving" /\ file' = [file EXCEPT !.cut = FALSE] /\ pc' = "idle"
        /\ UNCHANGED <<daemonVars, wallet, sync, batch, scan, sender, relayed, interruptions>>
    BY <1>7 DEF WriteFile
  <2>2. file' \in [cut : BOOLEAN, wallet : WalletRecords, sync : SyncRecords] BY <1>1, <2>1
  <2>3. batch' = <<>> /\ scan' = NoScan BY <1>0, <2>1
  <2> QED BY <1>0, <1>1, <1>4, <2>1, <2>2, <2>3
<1>8. CASE OpenWallet
  <2>1. wallet' \in WalletRecords /\ sync' \in SyncRecords
    BY Zenon, <1>0, <1>2, <1>8, OpenIs, ReadIs, EmptyIs
  <2>2. /\ UNCHANGED <<daemonVars, relayed>> /\ file' = file /\ pc' = "idle" /\ batch' = <<>>
        /\ scan' = NoScan /\ sender' = [s \in Senders |-> Idle]
    BY <1>8, OpenIs
  <2>3. interruptions' \in [save : Nat, reset : Nat, open : Nat] BY Zenon, <1>5, <1>8, OpenIs
  <2> QED BY <1>1, <1>4, <2>1, <2>2, <2>3
<1> QED BY <1>6, <1>7, <1>8 DEF FileStep

\* The initial state has the right types.
LEMMA TypeInit == ASSUME Init PROVE TypeInv
<1>1. DaemonTyped BY WalletAssumption DEF Init, DaemonTyped
<1>2. NewSync \in SyncRecords BY WalletAssumption DEF NewSync, SyncRecords
<1>3. WalletTyped BY <1>2, EmptyIs DEF Init, WalletTyped
<1>4. ScanTyped /\ SpendFound
  <2>1. NoScan \in [txs : SUBSET Txs, outs : SUBSET Outputs, spend : SUBSET Outputs]
    BY DEF NoScan
  <2>2. NoScan.spend = {} BY DEF NoScan
  <2> QED BY <2>1, <2>2 DEF Init, ScanTyped, SpendFound
<1>5. SenderTyped BY SenderMoves DEF Init, SenderTyped
<1> QED BY <1>1, <1>3, <1>4, <1>5 DEF TypeInv

\* Every step keeps the types.
LEMMA TypeStep == ASSUME TypeInv, [Next]_vars PROVE TypeInv'
<1>1. CASE UNCHANGED vars
  <2>1. DaemonTyped' /\ SenderTyped' BY <1>1 DEF TypeInv, DaemonTyped, SenderTyped, vars
  <2>2. WalletTyped' BY <1>1 DEF TypeInv, WalletTyped, vars
  <2>3. ScanTyped' /\ SpendFound' BY <1>1 DEF TypeInv, ScanTyped, SpendFound, vars
  <2> QED BY <2>1, <2>2, <2>3 DEF TypeInv
<1>2. CASE Next
  BY Zenon, <1>2, DaemonStepTypes, ScanStepTypes, SendStepTypes, InterruptTypes
     DEF Next, ThreadStep, FileStep
<1> QED BY <1>1, <1>2

\* TypeInv is an invariant of the wallet.
LEMMA TypeInvariant == Spec => []TypeInv
BY TypeInit, TypeStep, PTL DEF Spec

\* For every block tree and pattern of faults, the state has its type: in
\* particular storeBlockHash never keeps more than KnownSize hashes, and the
\* scanning thread holds a batch exactly while it works on one.
THEOREM WalletTypes == Spec => []WalletTypeOK
<1>1. ASSUME TypeInv PROVE WalletTypeOK
  <2>1. tip \in Blocks /\ pool \subseteq Own /\ daemonCount \in Nat BY <1>1 DEF TypeInv, DaemonTyped
  <2>2. wallet \in WalletRecords /\ sync \in SyncRecords BY <1>1 DEF TypeInv, WalletTyped
  <2>3. sync.height \in Nat /\ Len(sync.hashes) <= KnownSize BY <2>2 DEF SyncRecords
  <2>4. /\ pc \in {"idle", "block", "indexes", "process", "check", "cancel", "saving"}
        /\ batch = <<>> <=> pc \in {"idle", "check", "cancel", "saving"}
    BY <1>1 DEF TypeInv, ScanTyped
  <2>5. /\ wallet.unspent \in Seq(InputRecords) /\ wallet.locked \in Seq(InputRecords)
        /\ wallet.spent \in Seq(InputRecords) /\ wallet.unconfirmed \subseteq Outputs
        /\ wallet.lockedTxs \subseteq Own /\ wallet.txs \subseteq [tx : Txs, height : Nat]
    BY <2>2, WalletFields
  <2> QED BY <2>1, <2>3, <2>4, <2>5 DEF WalletTypeOK
<1> QED BY <1>1, TypeInvariant, PTL
=============================================================================
