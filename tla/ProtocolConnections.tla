------------------------- MODULE ProtocolConnections ------------------------
(***************************************************************************)
(* The control of the connections of the synchronisation protocol, for     *)
(* every network, block tree and transactions: the types of what they keep *)
(* and send, the order of the handshake and that at most one request of a  *)
(* connection is on its way.  Here: the invariant, what the operators of   *)
(* the protocol compute, and that a handler which takes a message and      *)
(* answers it keeps the control of its connection.                         *)
(***************************************************************************)
EXTENDS ProtocolSync, FiniteNaturals

(* the messages of a connection, of which a relay is one of two *)
Announcements ==
    [type : {"liteBlock"}, block : Blocks, height : Nat] \cup [type : {"newTxs"}, txs : SUBSET Txs]
Messages ==
    Announcements
    \cup [type : {"handshake", "handshakeReply", "timedSync", "timedReply"},
          top : Blocks, height : Nat]
    \cup [type : {"requestPool", "missingTxs"}, txs : SUBSET Txs]
    \cup [type : {"requestChain"}, ids : {q \in Seq(Blocks) : \E i \in DOMAIN q : q[i] = Genesis}]
    \cup [type : {"chainEntry"}, ids : Seq(Blocks), start : Nat, total : Nat]
    \cup [type : {"requestObjects"}, blocks : Seq(Blocks)]
    \cup [type : {"objects"}, height : Nat, blocks : Seq(Blocks)]
    \cup [type : {"eof"}]

Context ==
    [state : States, remote : Nat, last : Nat, needed : Seq(Blocks), requested : SUBSET Blocks,
     pending : [block : Blocks, height : Nat, missed : SUBSET Txs]]

(* ProtocolTypeOK with the types of the messages *)
Types ==
    /\ core \in [Nodes -> [known : SUBSET Blocks, tip : Blocks]]
    /\ \A n \in Nodes : core[n].tip \in core[n].known
    /\ pool \in [Nodes -> SUBSET Txs]
    /\ ctx \in [Ends -> Context]
    /\ net \in [Ends -> Seq(Messages)]
    /\ job \in [Ends -> [on : BOOLEAN, left : Seq(Blocks)]]
    /\ spawned \in [Nodes -> Seq([msg : Announcements, skip : SUBSET Ends])]
    /\ seen \in [Nodes -> [observed : Nat, height : Nat, peers : Int, synced : BOOLEAN]]
    /\ breaks \in Nat

-----------------------------------------------------------------------------
(* the control of a connection *)

Has(q, types)       == \E i \in DOMAIN q : q[i].type \in types
AtMostOne(q, types) == \A i, j \in DOMAIN q : q[i].type \in types /\ q[j].type \in types => i = j

Shakes  == {"handshake", "handshakeReply"}
Asks    == {"requestChain", "requestObjects"}
Answers == {"chainEntry", "objects"}
Start   == {"befor_handshake", "sync_required", "pool_sync_required"}

(* The handshake comes first: its messages reach an end that has not shaken
   hands, as the first thing it reads; an end that accepted the connection
   writes nothing before its reply, unless it refuses the peer, and a closed end
   has nothing to read *)
Handshaken(e) ==
    /\ Has(net[Rev(e)], Shakes) => ctx[e].state = "befor_handshake" /\ AtMostOne(net[Rev(e)], Shakes)
    /\ ctx[e].state = "closed" => net[Rev(e)] = <<>>
    /\ ctx[e].state = "befor_handshake" =>
          \/ net[Rev(e)] # <<>> /\ Head(net[Rev(e)]).type \in Shakes \cup {"eof"}
          \/ net[Rev(e)] = <<>> /\ e \in Dialed /\ ctx[Rev(e)].state \in Start \cup {"shutdown"}
    /\ e \notin Dialed /\ ctx[e].state \in Start =>
          \/ ctx[Rev(e)].state = "closed"
          \/ ctx[Rev(e)].state = "befor_handshake" /\ net[e] = <<>>

(* A connection that synchronises has at most one request or answer on its
   way, and none while it adds a batch; one that does not has none *)
OneRequest(e) ==
    /\ ctx[e].state \notin {"synchronizing", "shutdown", "closed"} =>
          ~Has(net[e], Asks) /\ ~Has(net[Rev(e)], Answers)
    /\ ctx[e].state = "synchronizing" =>
          /\ AtMostOne(net[e], Asks) /\ AtMostOne(net[Rev(e)], Answers)
          /\ ~(Has(net[e], Asks) /\ Has(net[Rev(e)], Answers))
    /\ job[e].on => /\ ctx[e].state = "synchronizing"
                    /\ ~Has(net[e], Asks) /\ ~Has(net[Rev(e)], Answers)

(* only an end that accepted the connection is sent a handshake *)
Greeted(e) == Has(net[Rev(e)], {"handshake"}) => e \notin Dialed

(* outside a synchronisation the lists are empty *)
ListsEmpty(e) ==
    ctx[e].state \notin {"synchronizing", "shutdown"} =>
        ctx[e].needed = <<>> /\ ctx[e].requested = {}

Control == \A e \in Ends : Handshaken(e) /\ OneRequest(e) /\ ListsEmpty(e) /\ Greeted(e)

IInv == Types /\ Control /\ PeersCounted
-----------------------------------------------------------------------------
(* Ends and chains *)

\* The two ends of a connection are distinct, and only one of them dials.
LEMMA EndFacts ==
    ASSUME NEW e \in Ends
    PROVE  /\ Rev(e) \in Ends /\ Rev(Rev(e)) = e /\ Rev(e) # e
           /\ e[1] \in Nodes /\ e[2] \in Nodes
           /\ e \in Dialed <=> Rev(e) \notin Dialed
<1>1. \A d \in Dials : d[1] \in Nodes /\ d[2] \in Nodes BY ProtocolAssumption
<1>2. CASE e \in Dialed
  <2>1. PICK d \in Dials : e = <<d[1], d[2], "out">> BY <1>2 DEF Dialed
  <2>2. Rev(e) = <<d[2], d[1], "in">> BY <2>1 DEF Rev
  <2>3. Rev(Rev(e)) = e BY <2>1, <2>2 DEF Rev
  <2>4. Rev(e) # e /\ Rev(e) \notin Dialed BY <2>1, <2>2 DEF Dialed
  <2> QED BY <1>1, <1>2, <2>1, <2>2, <2>3, <2>4 DEF Ends, Accepted
<1>3. CASE e \in Accepted
  <2>1. PICK d \in Dials : e = <<d[2], d[1], "in">> BY <1>3 DEF Accepted
  <2>2. Rev(e) = <<d[1], d[2], "out">> BY <2>1 DEF Rev
  <2>3. Rev(Rev(e)) = e BY <2>1, <2>2 DEF Rev
  <2>4. Rev(e) # e /\ e \notin Dialed BY <2>1, <2>2 DEF Dialed
  <2> QED BY <1>1, <2>1, <2>2, <2>3, <2>4 DEF Ends, Dialed
<1> QED BY <1>2, <1>3 DEF Ends

\* The dial an end belongs to.
LEMMA EndDials ==
    ASSUME NEW e \in Ends
    PROVE  /\ e[1] = e[2] => <<e[1], e[1]>> \in Dials
           /\ e \notin Dialed => \E d \in Dials : d[1] = e[2] /\ d[2] = e[1]
<1>1. \A d \in Dials : d = <<d[1], d[2]>> BY ProtocolAssumption
<1>2. CASE e \in Dialed
  <2>1. PICK d \in Dials : e = <<d[1], d[2], "out">> BY <1>2 DEF Dialed
  <2> QED BY <1>1, <1>2, <2>1
<1>3. CASE e \in Accepted
  <2>1. PICK d \in Dials : e = <<d[2], d[1], "in">> BY <1>3 DEF Accepted
  <2> QED BY <1>1, <2>1
<1> QED BY <1>2, <1>3 DEF Ends

\* There are finitely many ends.
LEMMA EndsFinite == IsFiniteSet(Ends)
<1> DEFINE f == [d \in Dials |-> <<d[1], d[2], "out">>]
           g == [d \in Dials |-> <<d[2], d[1], "in">>]
<1>1. f \in Surjection(Dials, Dialed) BY DEF Surjection, Dialed
<1>2. g \in Surjection(Dials, Accepted) BY DEF Surjection, Accepted
<1>3. IsFiniteSet(Dialed) /\ IsFiniteSet(Accepted)
  <2> HIDE DEF f, g
  <2> QED BY <1>1, <1>2, FS_Surjection, ProtocolAssumption
<1> QED BY <1>3, FS_Union DEF Ends

\* The least set of blocks that holds b and the parents of its members.
ParentClosure(b) ==
    {c \in Blocks :
        \A X \in SUBSET Blocks :
            (b \in X /\ \A x \in X \ {Genesis} : Parent[x] \in X) => c \in X}

\* The closure of a block is the block and the closure of its parent.
LEMMA ParentClosureStep ==
    ASSUME NEW b \in Blocks
    PROVE  ParentClosure(b) = {b} \cup (IF b = Genesis THEN {} ELSE ParentClosure(Parent[b]))
<1>1. b \in ParentClosure(b) BY DEF ParentClosure
<1>2. CASE b = Genesis
  <2>1. {b} \in SUBSET Blocks OBVIOUS
  <2> QED BY <1>1, <1>2, <2>1 DEF ParentClosure
<1>3. CASE b # Genesis
  <2>0. Parent[b] \in Blocks /\ \A x \in Blocks \ {Genesis} : Parent[x] \in Blocks
    BY ProtocolAssumption
  <2>1. ParentClosure(Parent[b]) \subseteq ParentClosure(b) BY <1>3 DEF ParentClosure
  <2> DEFINE X == {b} \cup ParentClosure(Parent[b])
  <2>2. X \in SUBSET Blocks BY DEF ParentClosure
  <2>3. \A x \in X \ {Genesis} : Parent[x] \in X BY <2>0 DEF ParentClosure
  <2>4. ParentClosure(b) \subseteq X BY <2>2, <2>3 DEF ParentClosure
  <2> QED BY <1>1, <1>3, <2>1, <2>4
<1> QED BY <1>2, <1>3

\* The recursive definition of ChainTo has a solution, so ChainTo is one.
LEMMA ChainToStep ==
    \A b \in Blocks : ChainTo[b] = {b} \cup (IF b = Genesis THEN {} ELSE ChainTo[Parent[b]])
<1> DEFINE Solves(f) ==
      f = [b \in Blocks |-> {b} \cup (IF b = Genesis THEN {} ELSE f[Parent[b]])]
<1>1. \E f : Solves(f)
  <2> DEFINE g == [b \in Blocks |-> ParentClosure(b)]
  <2>1. \A b \in Blocks : g[b] = {b} \cup (IF b = Genesis THEN {} ELSE g[Parent[b]])
    BY ParentClosureStep, ProtocolAssumption
  <2>2. g = [b \in Blocks |-> g[b]] OBVIOUS
  <2> HIDE DEF g
  <2>3. Solves(g) BY <2>1, <2>2
  <2> QED BY <2>3
<1>2. Solves(CHOOSE f : Solves(f)) BY <1>1
<1>3. ChainTo = CHOOSE f : Solves(f) BY DEF ChainTo
<1>4. Solves(ChainTo) BY <1>2, <1>3
<1> QED BY <1>4

\* The chain to a block is a set of blocks that starts at genesis, ends at
\* the block and has one at every height between.
LEMMA ChainFacts ==
    ASSUME NEW b \in Blocks
    PROVE  /\ ChainTo[b] \subseteq Blocks /\ Genesis \in ChainTo[b] /\ b \in ChainTo[b]
           /\ \A c \in ChainTo[b] : HeightOf[c] <= HeightOf[b]
           /\ \A h \in 0 .. HeightOf[b] : BlockAt(b, h) \in Blocks
<1> DEFINE Good(x) ==
      /\ ChainTo[x] \subseteq Blocks /\ Genesis \in ChainTo[x] /\ x \in ChainTo[x]
      /\ \A c \in ChainTo[x] : HeightOf[c] <= HeightOf[x]
      /\ \A h \in 0 .. HeightOf[x] : \E c \in ChainTo[x] : HeightOf[c] = h
           Bad == {x \in Blocks : ~Good(x)}
           S == {HeightOf[x] : x \in Bad}
<1>1. S \in SUBSET Nat BY ProtocolAssumption
<1>2. ASSUME NEW y \in Bad PROVE FALSE
  <2>1. HeightOf[y] \in S OBVIOUS
  <2> HIDE DEF S
  <2>2. PICK m \in S : \A k \in S : m <= k BY <1>1, <2>1, LeastNat
  <2> USE DEF S
  <2>3. PICK x \in Bad : m = HeightOf[x] OBVIOUS
  <2>4. x \in Blocks /\ ~Good(x) OBVIOUS
  <2>5. ChainTo[x] = {x} \cup (IF x = Genesis THEN {} ELSE ChainTo[Parent[x]])
    BY <2>4, ChainToStep
  <2>6. CASE x = Genesis
    <3>1. HeightOf[x] = 0 BY <2>6, ProtocolAssumption
    <3>2. ChainTo[x] = {x} BY <2>5, <2>6
    <3> QED BY <2>4, <2>6, <3>1, <3>2
  <2>7. CASE x # Genesis
    <3>1. /\ Parent[x] \in Blocks /\ HeightOf[x] = HeightOf[Parent[x]] + 1
          /\ HeightOf[Parent[x]] \in Nat
      BY <2>4, <2>7, ProtocolAssumption
    <3>2. Good(Parent[x])
      <4>1. Parent[x] \in Bad => HeightOf[Parent[x]] \in S OBVIOUS
      <4> HIDE DEF S, Good
      <4>2. Parent[x] \notin Bad BY <2>2, <2>3, <3>1, <4>1
      <4> QED BY <3>1, <4>2
    <3>3. ChainTo[x] = {x} \cup ChainTo[Parent[x]] BY <2>5, <2>7
    <3>4. \A c \in ChainTo[Parent[x]] : HeightOf[c] \in Nat BY <3>2, ProtocolAssumption
    <3>5. \A c \in ChainTo[x] : HeightOf[c] <= HeightOf[x] BY <3>1, <3>2, <3>3, <3>4
    <3>6. \A h \in 0 .. HeightOf[x] : \E c \in ChainTo[x] : HeightOf[c] = h
      <4> TAKE h \in 0 .. HeightOf[x]
      <4>1. h = HeightOf[x] \/ h \in 0 .. HeightOf[Parent[x]] BY <3>1
      <4> QED BY <3>2, <3>3, <4>1
    <3> QED BY <2>4, <3>2, <3>3, <3>5, <3>6
  <2> QED BY <2>6, <2>7
<1>3. Good(b) BY <1>2
<1>4. ASSUME NEW h \in 0 .. HeightOf[b] PROVE BlockAt(b, h) \in Blocks
  <2>1. \E c \in ChainTo[b] : HeightOf[c] = h BY <1>3
  <2> QED BY <1>3, <2>1 DEF BlockAt
<1> QED BY <1>3, <1>4
-----------------------------------------------------------------------------
(* The operators of the protocol *)

\* The k-th smallest of a finite set of positions is one of them.
LEMMA NthIs ==
    ASSUME NEW at \in SUBSET Nat, IsFiniteSet(at), NEW k \in 1 .. Cardinality(at)
    PROVE  Nth(at, k) \in at
<1>1. \E i \in at : Cardinality({j \in at : j <= i}) = k BY RankTaken
<1> QED BY Zenon, <1>1 DEF Nth

\* Positions of a sequence are a finite set of naturals.
LEMMA PositionsFinite ==
    ASSUME NEW S, NEW q \in Seq(S), NEW at \in SUBSET DOMAIN q
    PROVE  at \in SUBSET Nat /\ IsFiniteSet(at) /\ Cardinality(at) \in Nat
<1>1. PICK n \in Nat : DOMAIN q = 1 .. n OBVIOUS
<1>2. IsFiniteSet(1 .. n) BY FS_Interval
<1>3. IsFiniteSet(at) BY <1>1, <1>2, FS_Subset
<1> QED BY <1>1, <1>3, FS_CardinalityType

\* Filtering a sequence gives a sequence of its members.
LEMMA OnlyType ==
    ASSUME NEW B, NEW q \in Seq(B), NEW S
    PROVE  Only(q, S) \in Seq(B)
<1> DEFINE at == {i \in DOMAIN q : q[i] \in S}
<1>1. at \in SUBSET Nat /\ IsFiniteSet(at) /\ Cardinality(at) \in Nat BY PositionsFinite
<1>2. \A i \in at : q[i] \in B OBVIOUS
<1>3. Only(q, S) = [k \in 1 .. Cardinality(at) |-> q[Nth(at, k)]] BY Zenon DEF Only
<1> HIDE DEF at
<1>4. \A k \in 1 .. Cardinality(at) : q[Nth(at, k)] \in B BY <1>1, <1>2, NthIs
<1> QED BY <1>1, <1>3, <1>4

\* request_missing_objects uses up a prefix of the needed objects.
LEMMA UsedType ==
    ASSUME NEW needed \in Seq(Blocks), NEW known
    PROVE  Used(needed, known) \in 0 .. Len(needed)
<1> DEFINE new == {i \in DOMAIN needed : needed[i] \notin known}
<1>1. new \in SUBSET Nat /\ IsFiniteSet(new) /\ Cardinality(new) \in Nat BY PositionsFinite
<1>2. \A i \in new : i \in 0 .. Len(needed) OBVIOUS
<1>3. Used(needed, known) =
        IF Cardinality(new) < SyncCount THEN Len(needed) ELSE Nth(new, SyncCount)
  BY Zenon DEF Used
<1>4. Len(needed) \in Nat OBVIOUS
<1> HIDE DEF new
<1>5. CASE Cardinality(new) < SyncCount BY <1>3, <1>4, <1>5
<1>6. CASE ~ (Cardinality(new) < SyncCount)
  <2>1. SyncCount \in 1 .. Cardinality(new) BY <1>1, <1>6, ProtocolAssumption
  <2>2. Nth(new, SyncCount) \in new BY <1>1, <2>1, NthIs
  <2> QED BY <1>2, <1>3, <1>6, <2>2
<1> QED BY <1>5, <1>6

\* A sparse chain is a sequence of blocks with the genesis block in it.
LEMMA SparseChainType ==
    ASSUME Types, NEW n \in Nodes
    PROVE  RequestChain(n) \in Messages
<1> DEFINE top == core[n].tip
           h == HeightOf[top]
           below == {d \in 1 .. h - 1 : \E k \in 0 .. h : d = 2^k}
           mid == [k \in 1 .. Cardinality(below) |-> BlockAt(top, h - Nth(below, k))]
           end == IF top = Genesis THEN <<>> ELSE <<Genesis>>
<1>1. top \in Blocks /\ h \in Nat /\ Genesis \in Blocks BY ProtocolAssumption DEF Types
<1>2. below \in SUBSET Nat /\ IsFiniteSet(below) /\ Cardinality(below) \in Nat
  <2>1. IsFiniteSet(1 .. h - 1) BY <1>1, FS_Interval
  <2>2. below \in SUBSET (1 .. h - 1) OBVIOUS
  <2> QED BY <1>1, <2>1, <2>2, FS_Subset, FS_CardinalityType
<1>3. \A d \in below : d \in 1 .. h - 1 OBVIOUS
<1>4. mid \in Seq(Blocks)
  <2> HIDE DEF below
  <2>1. ASSUME NEW k \in 1 .. Cardinality(below)
        PROVE  BlockAt(top, h - Nth(below, k)) \in Blocks
    <3>1. Nth(below, k) \in 1 .. h - 1 BY <1>2, <1>3, NthIs
    <3>2. h - Nth(below, k) \in 0 .. h BY <1>1, <3>1
    <3> HIDE DEF top
    <3> QED BY <1>1, <3>2, ChainFacts
  <2> QED BY <1>2, <2>1
<1>5. <<top>> \in Seq(Blocks) /\ end \in Seq(Blocks) BY <1>1
<1>6. BuildSparseChain(n) = <<top>> \o mid \o end BY Zenon DEF BuildSparseChain
<1> HIDE DEF mid
<1>7. <<top>> \o mid \o end \in Seq(Blocks) BY <1>4, <1>5
<1>8. \E i \in DOMAIN (<<top>> \o mid \o end) : (<<top>> \o mid \o end)[i] = Genesis
  <2> DEFINE q == <<top>> \o mid
  <2>1. q \in Seq(Blocks) /\ Len(q) = Len(mid) + 1 /\ q[1] = top /\ Len(mid) \in Nat
    BY <1>1, <1>4
  <2> HIDE DEF q
  <2>2. CASE top = Genesis
    <3>1. 1 \in DOMAIN (q \o end) /\ (q \o end)[1] = q[1] BY <2>1, <2>2
    <3> QED BY <2>1, <2>2, <3>1 DEF q
  <2>3. CASE top # Genesis
    <3>1. end = <<Genesis>> /\ <<Genesis>> \in Seq(Blocks) BY <1>1, <2>3
    <3>2. Len(q) + 1 \in DOMAIN (q \o <<Genesis>>) /\ (q \o <<Genesis>>)[Len(q) + 1] = Genesis
      BY <2>1, <3>1
    <3> QED BY <3>1, <3>2 DEF q
  <2> QED BY <2>2, <2>3
<1> QED BY <1>6, <1>7, <1>8 DEF RequestChain, Messages

\* The answer to a chain request names blocks, from a height on.
LEMMA SupplementType ==
    ASSUME Types, NEW n \in Nodes, NEW ids \in Seq(Blocks), \E i \in DOMAIN ids : ids[i] = Genesis
    PROVE  LET r == FindBlockchainSupplement(n, ids)
           IN  [type |-> "chainEntry", ids |-> r.ids, start |-> r.start, total |-> r.total]
                  \in Messages
<1> DEFINE top == core[n].tip
           On == {i \in DOMAIN ids : ids[i] \in ChainTo[top]}
           First(i) == /\ ids[i] \in ChainTo[top]
                       /\ \A j \in 1 .. i - 1 : ids[j] \notin ChainTo[top]
           first == CHOOSE i \in DOMAIN ids : First(i)
           start == HeightOf[ids[first]]
           last == IF HeightOf[top] < start + IdsCount - 1 THEN HeightOf[top]
                   ELSE start + IdsCount - 1
           found == [i \in 1 .. last - start + 1 |-> BlockAt(top, start + i - 1)]
<1>1. top \in Blocks /\ HeightOf[top] \in Nat BY ProtocolAssumption DEF Types
<1>2. /\ ChainTo[top] \subseteq Blocks /\ Genesis \in ChainTo[top]
      /\ \A c \in ChainTo[top] : HeightOf[c] <= HeightOf[top]
      /\ \A h \in 0 .. HeightOf[top] : BlockAt(top, h) \in Blocks
  <2> HIDE DEF top
  <2> QED BY <1>1, ChainFacts
<1>3. \E i \in DOMAIN ids : First(i)
  <2>1. PICK g \in DOMAIN ids : ids[g] = Genesis OBVIOUS
  <2>2. On \in SUBSET Nat /\ g \in On BY <1>2, <2>1
  <2>3. PICK m \in On : \A k \in On : m <= k
    <3> HIDE DEF On
    <3> QED BY <2>2, LeastNat
  <2>4. \A j \in 1 .. m - 1 : j \in DOMAIN ids /\ j < m OBVIOUS
  <2>5. \A j \in 1 .. m - 1 : j \notin On BY <2>3, <2>4
  <2> QED BY <2>4, <2>5
<1>4. first \in DOMAIN ids /\ First(first)
  <2> HIDE DEF First
  <2> QED BY <1>3
<1>5. start \in 0 .. HeightOf[top]
  <2>1. ids[first] \in ChainTo[top] BY <1>4
  <2> HIDE DEF first, top
  <2> QED BY <1>1, <1>2, <2>1, ProtocolAssumption
<1> HIDE DEF start
<1>6. last \in Nat /\ last <= HeightOf[top] /\ start <= last /\ start \in Nat
  BY <1>1, <1>5, ProtocolAssumption
<1> HIDE DEF last
<1>7. found \in Seq(Blocks)
  <2>1. ASSUME NEW i \in 1 .. last - start + 1 PROVE BlockAt(top, start + i - 1) \in Blocks
    <3>1. start + i - 1 \in 0 .. HeightOf[top] BY <1>1, <1>6
    <3> QED BY <1>2, <3>1
  <2> QED BY <1>6, <2>1
<1>8. FindBlockchainSupplement(n, ids) = [start |-> start, total |-> HeightOf[top] + 1, ids |-> found]
  BY Zenon DEF FindBlockchainSupplement, start, last
<1> HIDE DEF found, top
<1> QED BY <1>1, <1>6, <1>7, <1>8 DEF Messages
-----------------------------------------------------------------------------
(* Queues of messages *)

\* What the next message and the rest of a queue hold.
LEMMA QueueTail ==
    ASSUME NEW q \in Seq(Messages), q # <<>>, NEW T
    PROVE  /\ Tail(q) \in Seq(Messages) /\ Head(q) \in Messages
           /\ Has(q, T) <=> Head(q).type \in T \/ Has(Tail(q), T)
           /\ AtMostOne(q, T) => /\ AtMostOne(Tail(q), T)
                                 /\ Head(q).type \in T => ~Has(Tail(q), T)
<1>1. /\ Tail(q) \in Seq(Messages) /\ Len(q) \in Nat \ {0} /\ Len(Tail(q)) = Len(q) - 1
      /\ Head(q) = q[1] /\ Head(q) \in Messages
      /\ \A i \in 1 .. Len(q) - 1 : Tail(q)[i] = q[i + 1]
      /\ DOMAIN q = 1 .. Len(q) /\ DOMAIN Tail(q) = 1 .. Len(q) - 1
  OBVIOUS
<1>2. Has(q, T) => Head(q).type \in T \/ Has(Tail(q), T)
  <2> SUFFICES ASSUME NEW i \in DOMAIN q, q[i].type \in T, i # 1
               PROVE  Has(Tail(q), T)
    BY <1>1 DEF Has
  <2>1. i - 1 \in DOMAIN Tail(q) /\ Tail(q)[i - 1] = q[i] BY <1>1
  <2> QED BY <2>1 DEF Has
<1>3. ASSUME NEW i \in DOMAIN Tail(q)
      PROVE  i + 1 \in DOMAIN q /\ Tail(q)[i] = q[i + 1] /\ i \in Nat /\ i + 1 # 1
  BY <1>1
<1>4. Has(Tail(q), T) => Has(q, T) BY <1>3 DEF Has
<1>5. Head(q).type \in T => Has(q, T) BY <1>1 DEF Has
<1>6. AtMostOne(q, T) => AtMostOne(Tail(q), T)
  <2> SUFFICES ASSUME AtMostOne(q, T), NEW i \in DOMAIN Tail(q), NEW j \in DOMAIN Tail(q),
                      Tail(q)[i].type \in T, Tail(q)[j].type \in T
               PROVE  i = j
    BY DEF AtMostOne
  <2>1. i + 1 = j + 1 BY <1>3 DEF AtMostOne
  <2> QED BY <1>3, <2>1
<1>7. AtMostOne(q, T) /\ Head(q).type \in T => ~Has(Tail(q), T)
  <2> SUFFICES ASSUME AtMostOne(q, T), Head(q).type \in T, NEW i \in DOMAIN Tail(q),
                      Tail(q)[i].type \in T
               PROVE  FALSE
    BY DEF Has
  <2>1. 1 \in DOMAIN q /\ q[1].type \in T BY <1>1
  <2>2. i + 1 = 1 BY <1>3, <2>1 DEF AtMostOne
  <2> QED BY <1>3, <2>2
<1> QED BY <1>1, <1>2, <1>4, <1>5, <1>6, <1>7

\* What a queue holds after more messages are written.
LEMMA QueueConcat ==
    ASSUME NEW q \in Seq(Messages), NEW r \in Seq(Messages), NEW T
    PROVE  /\ q \o r \in Seq(Messages)
           /\ Has(q \o r, T) <=> Has(q, T) \/ Has(r, T)
           /\ AtMostOne(q, T) /\ ~Has(r, T) => AtMostOne(q \o r, T)
           /\ ~Has(q, T) /\ AtMostOne(r, T) => AtMostOne(q \o r, T)
           /\ q # <<>> => q \o r # <<>> /\ Head(q \o r) = Head(q)
           /\ q = <<>> => q \o r = r
           /\ r = <<>> => q \o r = q
<1> DEFINE m == Len(q)
           n == Len(r)
           s == q \o r
<1>1. /\ s \in Seq(Messages) /\ m \in Nat /\ n \in Nat /\ Len(s) = m + n
      /\ DOMAIN q = 1 .. m /\ DOMAIN r = 1 .. n /\ DOMAIN s = 1 .. m + n
      /\ \A i \in 1 .. m : s[i] = q[i]
      /\ \A i \in 1 .. n : s[m + i] = r[i]
  OBVIOUS
<1>2. /\ q # <<>> => s # <<>> /\ Head(s) = Head(q)
      /\ q = <<>> => s = r
      /\ r = <<>> => s = q
  OBVIOUS
<1> HIDE DEF m, n, s
<1>3. ASSUME NEW i \in DOMAIN s
      PROVE  \/ i \in DOMAIN q /\ s[i] = q[i]
             \/ i - m \in DOMAIN r /\ s[i] = r[i - m] /\ i \in Int
  <2>1. i \in 1 .. m \/ i - m \in 1 .. n BY <1>1
  <2>2. i = m + (i - m) BY <1>1
  <2> QED BY <1>1, <2>1, <2>2
<1>4. Has(q, T) => Has(s, T)
  <2>1. \A i \in DOMAIN q : i \in DOMAIN s /\ s[i] = q[i] BY <1>1
  <2> QED BY <2>1 DEF Has
<1>5. Has(r, T) => Has(s, T)
  <2>1. \A i \in DOMAIN r : m + i \in DOMAIN s /\ s[m + i] = r[i] BY <1>1
  <2> QED BY <2>1 DEF Has
<1>6. Has(s, T) => Has(q, T) \/ Has(r, T) BY <1>3 DEF Has
<1>7. AtMostOne(q, T) /\ ~Has(r, T) => AtMostOne(s, T)
  <2> SUFFICES ASSUME AtMostOne(q, T), ~Has(r, T), NEW i \in DOMAIN s, NEW j \in DOMAIN s,
                      s[i].type \in T, s[j].type \in T
               PROVE  i = j
    BY DEF AtMostOne
  <2>1. i \in DOMAIN q /\ q[i].type \in T BY <1>3 DEF Has
  <2>2. j \in DOMAIN q /\ q[j].type \in T BY <1>3 DEF Has
  <2> QED BY <2>1, <2>2 DEF AtMostOne
<1>8. ~Has(q, T) /\ AtMostOne(r, T) => AtMostOne(s, T)
  <2> SUFFICES ASSUME ~Has(q, T), AtMostOne(r, T), NEW i \in DOMAIN s, NEW j \in DOMAIN s,
                      s[i].type \in T, s[j].type \in T
               PROVE  i = j
    BY DEF AtMostOne
  <2>1. i - m \in DOMAIN r /\ r[i - m].type \in T /\ i \in Int BY <1>3 DEF Has
  <2>2. j - m \in DOMAIN r /\ r[j - m].type \in T /\ j \in Int BY <1>3 DEF Has
  <2>3. i - m = j - m BY <2>1, <2>2 DEF AtMostOne
  <2> QED BY <1>1, <2>1, <2>2, <2>3
<1> QED BY <1>1, <1>2, <1>4, <1>5, <1>6, <1>7, <1>8 DEF s

\* Short queues.
LEMMA QueueShort ==
    ASSUME NEW T
    PROVE  /\ <<>> \in Seq(Messages) /\ ~Has(<<>>, T) /\ AtMostOne(<<>>, T)
           /\ \A x \in Messages : /\ <<x>> \in Seq(Messages) /\ AtMostOne(<<x>>, T)
                                  /\ Has(<<x>>, T) <=> x.type \in T
                                  /\ <<x>> # <<>> /\ Head(<<x>>) = x
           /\ \A q : ~Has(q, T) => AtMostOne(q, T)
BY DEF Has, AtMostOne
-----------------------------------------------------------------------------
(* The control of a connection under the steps of its ends *)

ConnectionOK(e) == Handshaken(e) /\ OneRequest(e) /\ ListsEmpty(e) /\ Greeted(e)

(* only the connection of e changes *)
OthersKept(e) ==
    \A f \in Ends : f # e /\ f # Rev(e) =>
        ctx'[f] = ctx[f] /\ net'[f] = net[f] /\ job'[f] = job[f]

\* A step on one connection leaves the control of the others alone.
LEMMA OneConnection ==
    ASSUME Control, NEW e \in Ends, OthersKept(e), ConnectionOK(e)', ConnectionOK(Rev(e))'
    PROVE  Control'
<1> SUFFICES ASSUME NEW f \in Ends, f # e, f # Rev(e) PROVE ConnectionOK(f)'
  BY DEF Control, ConnectionOK
<1>1. Rev(f) \in Ends /\ Rev(f) # e /\ Rev(f) # Rev(e)
  <2>1. Rev(f) \in Ends /\ Rev(Rev(f)) = f BY EndFacts
  <2>2. Rev(Rev(e)) = e BY EndFacts
  <2> QED BY <2>1, <2>2
<1>2. /\ ctx'[f] = ctx[f] /\ net'[f] = net[f] /\ job'[f] = job[f]
      /\ ctx'[Rev(f)] = ctx[Rev(f)] /\ net'[Rev(f)] = net[Rev(f)]
  BY <1>1 DEF OthersKept
<1>3. ConnectionOK(f) BY DEF Control, ConnectionOK
<1> QED BY Zenon, <1>2, <1>3 DEF ConnectionOK, Handshaken, OneRequest, ListsEmpty, Greeted

(* What a handler may do with a message of type ty: the context it leaves and
   the messages it writes *)
Handles(e, ty, c, out) ==
    /\ c \in Context /\ out \in Seq(Messages)
    /\ ~Has(out, Shakes)
    /\ Has(out, Answers) => ty \in Asks /\ AtMostOne(out, Answers)
    /\ Has(out, Asks) => /\ c.state \in {"synchronizing", "shutdown"} /\ AtMostOne(out, Asks)
                         /\ ctx[e].state = "synchronizing" => ty \in Answers
    /\ ctx[e].state = "synchronizing" /\ ty \notin Answers =>
          c.state \in {"synchronizing", "shutdown"}
    /\ ty \in Shakes =>
          c.state \in {"sync_required", "pool_sync_required", "shutdown"} /\ out = <<>>
    /\ ty \notin Shakes => c.state \in {"synchronizing", "idle", "normal", "shutdown"}
    /\ c.state \notin {"synchronizing", "shutdown"} => c.needed = <<>> /\ c.requested = {}

\* What Gets and Answer do to the queues and the contexts of a connection.
LEMMA AnswerShape ==
    ASSUME Types, NEW e \in Ends, NEW ty, Gets(e, ty),
           NEW c \in Context, NEW out \in Seq(Messages), Answer(e, c, out)
    PROVE  /\ ctx' \in [Ends -> Context] /\ net' \in [Ends -> Seq(Messages)]
           /\ net[e] \in Seq(Messages) /\ net[Rev(e)] \in Seq(Messages)
           /\ net[Rev(e)] # <<>> /\ Head(net[Rev(e)]).type = ty /\ Head(net[Rev(e)]) \in Messages
           /\ ctx'[e] = c /\ ctx'[Rev(e)] = ctx[Rev(e)]
           /\ net'[Rev(e)] = Tail(net[Rev(e)])
           /\ net'[e] = net[e] \o (IF ctx[Rev(e)].state = "closed" THEN <<>> ELSE out)
           /\ \A f \in Ends : f # e /\ f # Rev(e) => ctx'[f] = ctx[f] /\ net'[f] = net[f]
           /\ ctx[e].state \in {"befor_handshake", "synchronizing", "idle", "normal"}
           /\ job[e].on = FALSE
<1>1. Rev(e) \in Ends /\ Rev(e) # e BY EndFacts
<1>2. /\ ctx \in [Ends -> Context] /\ net \in [Ends -> Seq(Messages)]
      /\ job[e].on \in BOOLEAN /\ ctx[e].state \in States
  BY DEF Types, Context
<1>3. net[Rev(e)] # <<>> /\ Head(net[Rev(e)]).type = ty /\ ~job[e].on BY DEF Gets
<1>4. net[e] \in Seq(Messages) /\ net[Rev(e)] \in Seq(Messages) BY <1>1, <1>2
<1>5. Head(net[Rev(e)]) \in Messages /\ Tail(net[Rev(e)]) \in Seq(Messages)
  BY <1>3, <1>4, QueueTail
<1>6. ctx[e].state \in {"befor_handshake", "synchronizing", "idle", "normal"}
  BY <1>2 DEF Gets, Live, States
<1>7. ctx' = [ctx EXCEPT ![e] = c] /\ ctx' \in [Ends -> Context] BY <1>2 DEF Answer
<1> DEFINE sent == IF ctx[Rev(e)].state = "closed" THEN <<>> ELSE out
<1>8. net' = [net EXCEPT ![Rev(e)] = Tail(@), ![e] = @ \o sent]
  BY Zenon DEF Answer, Send, Live
<1>9. sent \in Seq(Messages) BY QueueShort
<1> HIDE DEF sent
<1>10. net[e] \o sent \in Seq(Messages) BY <1>4, <1>9, QueueConcat
<1>11. /\ net'[Rev(e)] = Tail(net[Rev(e)]) /\ net'[e] = net[e] \o sent
       /\ \A f \in Ends : f # e /\ f # Rev(e) => net'[f] = net[f]
  BY Zenon, <1>1, <1>2, <1>8
<1>12. net' \in [Ends -> Seq(Messages)] BY <1>1, <1>2, <1>5, <1>8, <1>10
<1>13. /\ ctx'[e] = c /\ ctx'[Rev(e)] = ctx[Rev(e)]
       /\ \A f \in Ends : f # e => ctx'[f] = ctx[f]
  BY Zenon, <1>1, <1>2, <1>7
<1> QED BY Zenon, <1>2, <1>3, <1>4, <1>5, <1>6, <1>7, <1>11, <1>12, <1>13 DEF sent

\* Taking a message and answering it as Handles says keeps the control of the
\* connection.
LEMMA AnswerControl ==
    ASSUME Types, Control, NEW e \in Ends, NEW ty, ty # "eof", Gets(e, ty), NEW c, NEW out,
           Handles(e, ty, c, out), Answer(e, c, out),
           NEW j, job' = [job EXCEPT ![e] = j], j.on \in BOOLEAN,
           j.on => ty = "objects" /\ c.state = "synchronizing" /\ ~Has(out, Asks)
    PROVE  Control'
<1> DEFINE r == Rev(e)
           sent == IF ctx[r].state = "closed" THEN <<>> ELSE out
           inn == net[r]
           own == net[e]
<1>1. r \in Ends /\ r # e /\ Rev(r) = e /\ (e \in Dialed <=> r \notin Dialed) BY EndFacts
<1>2. c \in Context /\ out \in Seq(Messages) BY DEF Handles
<1>3. /\ own \in Seq(Messages) /\ inn \in Seq(Messages) /\ inn # <<>> /\ Head(inn).type = ty
      /\ ctx'[e] = c /\ ctx'[r] = ctx[r] /\ net'[r] = Tail(inn) /\ net'[e] = own \o sent
      /\ ctx[e].state \in {"befor_handshake", "synchronizing", "idle", "normal"}
      /\ \A f \in Ends : f # e /\ f # r => ctx'[f] = ctx[f] /\ net'[f] = net[f]
  BY ZenonT(60), <1>2, AnswerShape
<1>4. job'[e] = j /\ job'[r] = job[r] /\ \A f \in Ends : f # e => job'[f] = job[f]
  BY <1>1 DEF Types
<1>5. sent \in Seq(Messages) BY <1>2, QueueShort
<1>6. ctx[r].state = "closed" => sent = <<>> OBVIOUS
<1>7. out = <<>> => sent = <<>> OBVIOUS
<1>8. ASSUME NEW T
      PROVE  /\ Has(inn, T) <=> ty \in T \/ Has(net'[r], T)
             /\ AtMostOne(inn, T) => AtMostOne(net'[r], T) /\ (ty \in T => ~Has(net'[r], T))
             /\ Has(net'[e], T) <=> Has(own, T) \/ Has(sent, T)
             /\ Has(sent, T) => Has(out, T)
             /\ AtMostOne(own, T) /\ ~Has(out, T) => AtMostOne(net'[e], T)
             /\ ~Has(own, T) /\ AtMostOne(out, T) => AtMostOne(net'[e], T)
             /\ ~Has(net'[r], T) => AtMostOne(net'[r], T)
             /\ ~Has(out, T) => AtMostOne(out, T)
  <2>1. Has(sent, T) => Has(out, T) BY QueueShort
  <2>2. AtMostOne(out, T) => AtMostOne(sent, T) BY QueueShort
  <2> HIDE DEF sent, inn, own
  <2>3. /\ Has(inn, T) <=> Head(inn).type \in T \/ Has(Tail(inn), T)
        /\ AtMostOne(inn, T) => AtMostOne(Tail(inn), T) /\ (Head(inn).type \in T => ~Has(Tail(inn), T))
    BY Zenon, <1>3, QueueTail
  <2>4. /\ Has(own \o sent, T) <=> Has(own, T) \/ Has(sent, T)
        /\ AtMostOne(own, T) /\ ~Has(sent, T) => AtMostOne(own \o sent, T)
        /\ ~Has(own, T) /\ AtMostOne(sent, T) => AtMostOne(own \o sent, T)
    BY Zenon, <1>3, <1>5, QueueConcat
  <2>5. \A q : ~Has(q, T) => AtMostOne(q, T) BY Zenon, QueueShort
  <2> QED BY Zenon, <1>3, <2>1, <2>2, <2>3, <2>4, <2>5
<1>9. /\ own # <<>> => net'[e] # <<>> /\ Head(net'[e]) = Head(own)
      /\ own = <<>> /\ sent = <<>> => net'[e] = <<>>
  <2> HIDE DEF sent, inn, own
  <2>1. /\ own # <<>> => own \o sent # <<>> /\ Head(own \o sent) = Head(own)
        /\ own = <<>> => own \o sent = sent
    BY Zenon, <1>3, <1>5, QueueConcat
  <2> QED BY <1>3, <2>1
<1>10. /\ Handshaken(e) /\ OneRequest(e) /\ ListsEmpty(e)
       /\ Handshaken(r) /\ OneRequest(r) /\ ListsEmpty(r) /\ Greeted(e) /\ Greeted(r)
  BY Zenon, <1>1 DEF Control
<1>11. c.state \in {"synchronizing", "shutdown", "sync_required", "pool_sync_required", "idle", "normal"}
  BY DEF Handles
<1> HIDE DEF sent, r
<1>12. ctx[e].state = "befor_handshake" <=> ty \in Shakes
  <2>1. ty \in Shakes => Has(inn, Shakes) BY Zenon, <1>8
  <2> QED BY <1>1, <1>3, <1>10, <2>1 DEF Handshaken, r
<1>13. ~Has(net'[r], Shakes)
  <2>1. /\ Has(inn, Shakes) <=> ty \in Shakes \/ Has(net'[r], Shakes)
        /\ AtMostOne(inn, Shakes) => (ty \in Shakes => ~Has(net'[r], Shakes))
    BY Zenon, <1>8
  <2> QED BY <1>1, <1>10, <1>12, <2>1 DEF Handshaken, r
<1>14. Handshaken(e)'
  <2>1. e \notin Dialed /\ c.state \in Start =>
           \/ ctx[r].state = "closed"
           \/ ctx[r].state = "befor_handshake" /\ net'[e] = <<>>
    <3> SUFFICES ASSUME e \notin Dialed, c.state \in Start
                 PROVE  ctx[r].state = "closed" \/ (ctx[r].state = "befor_handshake" /\ net'[e] = <<>>)
      OBVIOUS
    <3>1. ty \in Shakes /\ out = <<>> BY <1>11 DEF Handles, Start
    <3>2. ctx[e].state \in Start BY <1>12, <3>1 DEF Start
    <3>3. ctx[r].state = "closed" \/ (ctx[r].state = "befor_handshake" /\ own = <<>>)
      BY Zenon, <1>10, <3>2 DEF Handshaken, r
    <3> QED BY Zenon, <1>7, <1>9, <3>1, <3>3
  <2>2. c.state # "closed" /\ c.state # "befor_handshake" BY <1>11
  <2> HIDE DEF inn, own
  <2> QED BY Zenon, <1>3, <1>13, <2>1, <2>2 DEF Handshaken, r
<1>15. OneRequest(e)'
  <2>1. /\ Has(inn, Answers) <=> ty \in Answers \/ Has(net'[r], Answers)
        /\ AtMostOne(inn, Answers) => AtMostOne(net'[r], Answers) /\ (ty \in Answers => ~Has(net'[r], Answers))
        /\ ~Has(net'[r], Answers) => AtMostOne(net'[r], Answers)
    BY Zenon, <1>8
  <2>2. /\ Has(net'[e], Asks) => Has(own, Asks) \/ Has(out, Asks)
        /\ AtMostOne(own, Asks) /\ ~Has(out, Asks) => AtMostOne(net'[e], Asks)
        /\ ~Has(own, Asks) /\ AtMostOne(out, Asks) => AtMostOne(net'[e], Asks)
        /\ ~Has(out, Asks) => AtMostOne(out, Asks)
    BY Zenon, <1>8
  <2>3. /\ ctx[e].state # "synchronizing" => ~Has(own, Asks) /\ ~Has(inn, Answers)
        /\ ctx[e].state = "synchronizing" =>
              /\ AtMostOne(own, Asks) /\ AtMostOne(inn, Answers)
              /\ ~(Has(own, Asks) /\ Has(inn, Answers))
    BY <1>3, <1>10 DEF OneRequest, r
  <2>4. /\ Has(out, Asks) => /\ c.state \in {"synchronizing", "shutdown"} /\ AtMostOne(out, Asks)
                             /\ ctx[e].state = "synchronizing" => ty \in Answers
        /\ ctx[e].state = "synchronizing" /\ ty \notin Answers =>
              c.state \in {"synchronizing", "shutdown"}
    BY Zenon DEF Handles
  <2>5. c.state \notin {"synchronizing", "shutdown", "closed"} =>
           ~Has(net'[e], Asks) /\ ~Has(net'[r], Answers)
    BY Zenon, <2>1, <2>2, <2>3, <2>4
  <2>6. c.state = "synchronizing" =>
          /\ AtMostOne(net'[e], Asks) /\ AtMostOne(net'[r], Answers)
          /\ ~(Has(net'[e], Asks) /\ Has(net'[r], Answers))
    <3>1. CASE ctx[e].state = "synchronizing" /\ ty \in Answers BY Zenon, <2>1, <2>2, <2>3, <2>4, <3>1
    <3>2. CASE ctx[e].state = "synchronizing" /\ ty \notin Answers BY Zenon, <2>1, <2>2, <2>3, <2>4, <3>2
    <3>3. CASE ctx[e].state # "synchronizing" BY Zenon, <2>1, <2>2, <2>3, <2>4, <3>3
    <3> QED BY Zenon, <3>1, <3>2, <3>3
  <2>7. j.on => /\ c.state = "synchronizing"
                /\ ~Has(net'[e], Asks) /\ ~Has(net'[r], Answers)
    <3> SUFFICES ASSUME j.on PROVE /\ c.state = "synchronizing"
                                   /\ ~Has(net'[e], Asks) /\ ~Has(net'[r], Answers)
      OBVIOUS
    <3>1. ty \in Answers /\ c.state = "synchronizing" /\ ~Has(out, Asks) BY DEF Answers
    <3> QED BY Zenon, <2>1, <2>2, <2>3, <3>1
  <2> HIDE DEF inn, own
  <2> QED BY Zenon, <1>3, <1>4, <2>5, <2>6, <2>7 DEF OneRequest, r
<1>16. ListsEmpty(e)' BY Zenon, <1>3 DEF ListsEmpty, Handles
<1>17. Handshaken(r)'
  <2>1. /\ Has(net'[e], Shakes) => Has(own, Shakes)
        /\ AtMostOne(own, Shakes) => AtMostOne(net'[e], Shakes)
    BY Zenon, <1>8 DEF Handles
  <2>2. Has(net'[e], Shakes) => ctx[r].state = "befor_handshake" /\ AtMostOne(net'[e], Shakes)
    BY Zenon, <1>1, <1>10, <2>1 DEF Handshaken
  <2>3. ctx[r].state = "closed" => net'[e] = <<>>
    BY Zenon, <1>1, <1>6, <1>9, <1>10 DEF Handshaken
  <2>4. ctx[r].state = "befor_handshake" =>
          \/ net'[e] # <<>> /\ Head(net'[e]).type \in Shakes \cup {"eof"}
          \/ net'[e] = <<>> /\ r \in Dialed /\ c.state \in Start \cup {"shutdown"}
    <3> SUFFICES ASSUME ctx[r].state = "befor_handshake", own = <<>>
                 PROVE  net'[e] = <<>> /\ r \in Dialed /\ c.state \in Start \cup {"shutdown"}
      BY Zenon, <1>1, <1>9, <1>10 DEF Handshaken
    <3>1. r \in Dialed /\ ctx[e].state \in Start \cup {"shutdown"}
      BY Zenon, <1>1, <1>10 DEF Handshaken
    <3>2. ty \in Shakes BY <1>3, <1>12, <3>1 DEF Start
    <3>3. out = <<>> /\ c.state \in Start \cup {"shutdown"} BY <3>2 DEF Handles, Start
    <3> QED BY Zenon, <1>7, <1>9, <3>1, <3>3
  <2>5. ~(r \notin Dialed /\ ctx[r].state \in Start)
    <3>1. r \notin Dialed /\ ctx[r].state \in Start =>
             ctx[e].state = "closed" \/ net[r] = <<>>
      BY Zenon, <1>1, <1>10 DEF Handshaken
    <3> QED BY <1>3, <3>1
  <2> HIDE DEF inn, own
  <2> QED BY Zenon, <1>1, <1>3, <2>2, <2>3, <2>4, <2>5 DEF Handshaken
<1>18. OneRequest(r)'
  <2>1. /\ Has(inn, Asks) <=> ty \in Asks \/ Has(net'[r], Asks)
        /\ AtMostOne(inn, Asks) => AtMostOne(net'[r], Asks) /\ (ty \in Asks => ~Has(net'[r], Asks))
    BY Zenon, <1>8
  <2>2. /\ Has(net'[e], Answers) => Has(own, Answers) \/ Has(out, Answers)
        /\ AtMostOne(own, Answers) /\ ~Has(out, Answers) => AtMostOne(net'[e], Answers)
        /\ ~Has(own, Answers) /\ AtMostOne(out, Answers) => AtMostOne(net'[e], Answers)
    BY Zenon, <1>8
  <2>3. Has(out, Answers) => ty \in Asks /\ AtMostOne(out, Answers) BY Zenon DEF Handles
  <2>4. ctx[r].state \notin {"synchronizing", "shutdown", "closed"} =>
          ~Has(net'[r], Asks) /\ ~Has(net'[e], Answers)
    BY Zenon, <1>1, <1>10, <2>1, <2>2, <2>3 DEF OneRequest
  <2>5. ctx[r].state = "synchronizing" =>
          /\ AtMostOne(net'[r], Asks) /\ AtMostOne(net'[e], Answers)
          /\ ~(Has(net'[r], Asks) /\ Has(net'[e], Answers))
    <3> SUFFICES ASSUME ctx[r].state = "synchronizing"
                 PROVE  /\ AtMostOne(net'[r], Asks) /\ AtMostOne(net'[e], Answers)
                        /\ ~(Has(net'[r], Asks) /\ Has(net'[e], Answers))
      OBVIOUS
    <3>1. /\ AtMostOne(inn, Asks) /\ AtMostOne(own, Answers)
          /\ ~(Has(inn, Asks) /\ Has(own, Answers))
      BY Zenon, <1>1, <1>10 DEF OneRequest
    <3> QED BY Zenon, <2>1, <2>2, <2>3, <3>1
  <2>6. job[r].on => /\ ctx[r].state = "synchronizing"
                     /\ ~Has(net'[r], Asks) /\ ~Has(net'[e], Answers)
    BY Zenon, <1>1, <1>10, <2>1, <2>2, <2>3 DEF OneRequest
  <2> HIDE DEF inn, own
  <2> QED BY Zenon, <1>1, <1>3, <1>4, <2>4, <2>5, <2>6 DEF OneRequest
<1>19. ListsEmpty(r)' BY Zenon, <1>3, <1>10 DEF ListsEmpty
<1>20. OthersKept(e) BY Zenon, <1>3, <1>4 DEF OthersKept, r
<1>21. Greeted(e)' /\ Greeted(r)'
  <2>1. ~Has(out, {"handshake"}) BY DEF Handles, Has, Shakes
  <2>2. /\ Has(net'[r], {"handshake"}) => Has(inn, {"handshake"})
        /\ Has(net'[e], {"handshake"}) => Has(own, {"handshake"})
    BY Zenon, <1>8, <2>1
  <2>3. Greeted(e)' BY Zenon, <1>10, <2>2 DEF Greeted, r
  <2>4. Greeted(r)' BY Zenon, <1>1, <1>10, <2>2 DEF Greeted
  <2> QED BY <2>3, <2>4
<1>22. ConnectionOK(e)' /\ ConnectionOK(r)'
  BY Zenon, <1>14, <1>15, <1>16, <1>17, <1>18, <1>19, <1>21 DEF ConnectionOK
<1> QED BY Zenon, <1>20, <1>22, OneConnection DEF r
-----------------------------------------------------------------------------
(* What the handlers compute *)

\* The fields of a message, by its type.
LEMMA MessageFields ==
    ASSUME NEW m \in Messages
    PROVE  /\ m.type \in {"handshake", "handshakeReply", "timedSync", "timedReply"} =>
                 m.top \in Blocks /\ m.height \in Nat
           /\ m.type = "requestChain" =>
                 m.ids \in Seq(Blocks) /\ \E i \in DOMAIN m.ids : m.ids[i] = Genesis
           /\ m.type = "chainEntry" => m.ids \in Seq(Blocks) /\ m.start \in Nat /\ m.total \in Nat
           /\ m.type = "requestObjects" => m.blocks \in Seq(Blocks)
           /\ m.type = "objects" => m.height \in Nat /\ m.blocks \in Seq(Blocks)
           /\ m.type = "liteBlock" => m.block \in Blocks /\ m.height \in Nat
           /\ m.type \in {"newTxs", "requestPool", "missingTxs"} => m.txs \in SUBSET Txs
BY DEF Messages, Announcements

\* addBlock keeps the types of the core and of the pool.
LEMMA AddedTypes ==
    ASSUME Types, NEW n \in Nodes, NEW b \in Blocks
    PROVE  /\ CoreAfter(n, b) \in [Nodes -> [known : SUBSET Blocks, tip : Blocks]]
           /\ \A m \in Nodes : CoreAfter(n, b)[m].tip \in CoreAfter(n, b)[m].known
           /\ PoolAfter(n, b) \in [Nodes -> SUBSET Txs]
<1>1. /\ core \in [Nodes -> [known : SUBSET Blocks, tip : Blocks]]
      /\ \A m \in Nodes : core[m].tip \in core[m].known
      /\ pool \in [Nodes -> SUBSET Txs]
  BY DEF Types
<1> DEFINE res == AddResult(n, b)
           after == [known |-> IF Added(res) THEN core[n].known \cup {b} ELSE core[n].known,
                     tip |-> IF Onto(res) THEN b ELSE core[n].tip]
<1>2. CoreAfter(n, b) = [core EXCEPT ![n] = after] BY Zenon DEF CoreAfter
<1>3. after \in [known : SUBSET Blocks, tip : Blocks] /\ after.tip \in after.known
  <2>1. Onto(res) => Added(res) BY DEF Added
  <2> HIDE DEF res
  <2> QED BY <1>1, <2>1
<1> HIDE DEF after
<1>4. TxsTo(core[n].tip) \subseteq Txs
  <2>1. core[n].tip \in Blocks BY <1>1
  <2>2. ChainTo[core[n].tip] \subseteq Blocks BY <2>1, ChainFacts
  <2>3. \A c \in Blocks : TxsOf[c] \subseteq Txs BY ProtocolAssumption
  <2> QED BY <2>2, <2>3 DEF TxsTo
<1>5. PoolAfter(n, b) \in [Nodes -> SUBSET Txs] BY <1>1, <1>4 DEF PoolAfter
<1> QED BY <1>1, <1>2, <1>3, <1>5

Seen == [observed : Nat, height : Nat, peers : Int, synced : BOOLEAN]

\* recalculateMaxObservedHeight finds a height.
LEMMA RecalculatedType ==
    ASSUME Types, NEW e \in Ends, NEW state
    PROVE  Recalculated(e, state) \in Nat
<1> DEFINE n == e[1]
           open == {o \in At(n) \ {e} : Live(o)}
           heights == {ctx[o].remote : o \in open}
           others == heights \cup {Height(n)}
           f == [o \in open |-> ctx[o].remote]
<1>1. n \in Nodes /\ core[n].tip \in Blocks /\ HeightOf[core[n].tip] \in Nat
  <2>1. n \in Nodes BY EndFacts
  <2> HIDE DEF n
  <2> QED BY <2>1, ProtocolAssumption DEF Types
<1>2. Height(n) \in Nat /\ Height(n) - 1 \in Nat
  <2> HIDE DEF n
  <2> QED BY <1>1 DEF Height
<1>3. open \subseteq Ends BY DEF At
<1>4. heights \in SUBSET Nat
  <2> HIDE DEF open
  <2> QED BY <1>3 DEF Types, Context
<1>5. IsFiniteSet(heights)
  <2>1. f \in Surjection(open, heights)
    <3> HIDE DEF open
    <3> QED BY DEF Surjection
  <2>2. IsFiniteSet(open)
    <3> HIDE DEF open
    <3> QED BY <1>3, EndsFinite, FS_Subset
  <2> HIDE DEF f, open, heights
  <2> QED BY <2>1, <2>2, FS_Surjection
<1>6. others \in SUBSET Nat /\ IsFiniteSet(others) /\ others # {}
  <2> HIDE DEF heights, n
  <2> QED BY <1>2, <1>4, <1>5, FS_AddElement
<1>7. Recalculated(e, state) =
        IF state = "normal" THEN Height(n) - 1 ELSE CHOOSE h \in others : \A k \in others : k <= h
  BY Zenon DEF Recalculated
<1> HIDE DEF others, n
<1>8. \E h \in others : \A k \in others : k <= h BY <1>6, GreatestNat
<1>9. (CHOOSE h \in others : \A k \in others : k <= h) \in others BY Zenon, <1>8
<1> QED BY <1>2, <1>6, <1>7, <1>9

\* updateObservedHeight leaves the number of peers alone.
LEMMA ObservedType ==
    ASSUME Types, NEW e \in Ends, NEW state, NEW h \in Nat
    PROVE  /\ Observed(e, state, h) \in Seen
           /\ Observed(e, state, h).peers = seen[e[1]].peers
<1> DEFINE s == seen[e[1]]
           c == ctx[e]
           o == IF c.remote # 0 /\ c.last <= c.remote - 1 THEN c.remote - 1
                ELSE IF h > c.remote THEN (IF h > s.observed THEN h ELSE s.observed)
                ELSE IF h # c.remote /\ c.remote = s.observed THEN Recalculated(e, state)
                ELSE s.observed
<1>1. e[1] \in Nodes BY EndFacts
<1>2. s \in Seen BY <1>1 DEF Types, Seen
<1>3. c.remote \in Nat /\ c.last \in Nat BY DEF Types, Context
<1>4. Recalculated(e, state) \in Nat BY RecalculatedType
<1>5. Observed(e, state, h) = [s EXCEPT !.observed = o, !.height = IF h > @ THEN h ELSE @]
  BY Zenon DEF Observed
<1> HIDE DEF s, c
<1>6. o \in Nat BY <1>2, <1>3, <1>4 DEF Seen
<1> HIDE DEF o
<1>7. [s EXCEPT !.observed = o, !.height = IF h > @ THEN h ELSE @] \in Seen BY <1>2, <1>6 DEF Seen
<1>8. [s EXCEPT !.observed = o, !.height = IF h > @ THEN h ELSE @].peers = s.peers
  BY <1>2 DEF Seen
<1> QED BY <1>5, <1>7, <1>8 DEF s

\* process_payload_sync_data: a connection that synchronises goes on with it.
LEMMA SyncDataTypes ==
    ASSUME Types, NEW e \in Ends, NEW m \in Messages, NEW initial \in BOOLEAN,
           m.type \in {"handshake", "handshakeReply", "timedSync", "timedReply"}
    PROVE  /\ AfterSyncData(e, m, initial) \in Context
           /\ AfterSyncData(e, m, initial).needed = ctx[e].needed
           /\ AfterSyncData(e, m, initial).requested = ctx[e].requested
           /\ AfterSyncData(e, m, initial).state =
                 IF ctx[e].state = "synchronizing" THEN "synchronizing"
                 ELSE IF m.top \in core[e[1]].known
                      THEN (IF initial THEN "pool_sync_required" ELSE "normal")
                      ELSE "sync_required"
           /\ SeenSyncData(e, m, initial) \in Seen
           /\ SeenSyncData(e, m, initial).peers = seen[e[1]].peers + IF initial THEN 1 ELSE 0
<1>1. ctx[e] \in Context BY DEF Types
<1>2. m.top \in Blocks /\ m.height \in Nat BY MessageFields
<1> DEFINE st == IF ctx[e].state = "synchronizing" THEN "synchronizing"
                 ELSE IF m.top \in core[e[1]].known
                      THEN (IF initial THEN "pool_sync_required" ELSE "normal")
                      ELSE "sync_required"
<1>3. AfterSyncData(e, m, initial) = [ctx[e] EXCEPT !.remote = m.height, !.state = st]
  BY <1>1 DEF AfterSyncData, Context
<1>4. st \in States BY DEF States
<1> HIDE DEF st
<1>5. /\ AfterSyncData(e, m, initial) \in Context
      /\ AfterSyncData(e, m, initial).needed = ctx[e].needed
      /\ AfterSyncData(e, m, initial).requested = ctx[e].requested
      /\ AfterSyncData(e, m, initial).state = st
  BY <1>1, <1>2, <1>3, <1>4 DEF Context
<1> DEFINE s == Observed(e, AfterSyncData(e, m, initial).state, m.height)
           now == s.synced \/ (initial /\ m.top \in core[e[1]].known)
           count == IF initial THEN s.peers + 1 ELSE s.peers
<1>6. s \in Seen /\ s.peers = seen[e[1]].peers BY Zenon, <1>2, ObservedType
<1>7. SeenSyncData(e, m, initial) = [s EXCEPT !.peers = count, !.synced = now]
  BY Zenon DEF SeenSyncData
<1> HIDE DEF s
<1>8. now \in BOOLEAN OBVIOUS
<1>9. count \in Int /\ count = seen[e[1]].peers + IF initial THEN 1 ELSE 0 BY <1>6 DEF Seen
<1> HIDE DEF now, count
<1>10. SeenSyncData(e, m, initial) \in Seen BY <1>6, <1>7, <1>8, <1>9 DEF Seen
<1>11. SeenSyncData(e, m, initial).peers = count BY <1>6, <1>7 DEF Seen
<1> QED BY <1>5, <1>9, <1>10, <1>11 DEF st

\* The messages a node makes up from its core and its pool.
LEMMA OwnMessages ==
    ASSUME Types, NEW n \in Nodes
    PROVE  /\ RequestPool(n) \in Messages /\ RequestPool(n).type = "requestPool"
           /\ RequestChain(n) \in Messages /\ RequestChain(n).type = "requestChain"
           /\ \A ty \in {"handshake", "handshakeReply", "timedSync", "timedReply"} :
                 SyncData(ty, n) \in Messages /\ SyncData(ty, n).type = ty
           /\ Height(n) \in Nat
<1>1. core[n].tip \in Blocks /\ HeightOf[core[n].tip] \in Nat /\ pool[n] \in SUBSET Txs
  BY ProtocolAssumption DEF Types
<1>2. Height(n) \in Nat BY <1>1 DEF Height
<1>3. RequestChain(n) \in Messages BY SparseChainType
<1>4. RequestChain(n).type = "requestChain" BY DEF RequestChain
<1>5. RequestPool(n) \in Messages /\ RequestPool(n).type = "requestPool"
  BY <1>1 DEF RequestPool, Messages
<1>6. ASSUME NEW ty \in {"handshake", "handshakeReply", "timedSync", "timedReply"}
      PROVE  SyncData(ty, n) \in Messages /\ SyncData(ty, n).type = ty
  BY <1>1, <1>2 DEF SyncData, Messages
<1> QED BY <1>2, <1>3, <1>4, <1>5, <1>6

(* what request_missing_objects may do with a context: ask for more in the same
   state, or end the synchronisation with empty lists *)
AsksMore(c, r) ==
    /\ r.c \in Context /\ r.out \in Seq(Messages)
    /\ ~Has(r.out, Shakes) /\ ~Has(r.out, Answers) /\ AtMostOne(r.out, Asks)
    /\ \/ r.c.state = c.state
       \/ /\ r.c.state = "normal" /\ ~Has(r.out, Asks)
          /\ r.c.needed = <<>> /\ r.c.requested = {}

\* request_missing_objects asks once, or ends the synchronisation.
LEMMA RequestMissing ==
    ASSUME Types, NEW n \in Nodes, NEW c \in Context, NEW known
    PROVE  AsksMore(c, RequestMissingObjects(n, c, known))
<1> DEFINE r == RequestMissingObjects(n, c, known)
<1>1. ASSUME NEW x \in Messages, x.type \in {"requestObjects", "requestChain", "requestPool"}
      PROVE  /\ <<x>> \in Seq(Messages) /\ AtMostOne(<<x>>, Asks)
             /\ ~Has(<<x>>, Shakes) /\ ~Has(<<x>>, Answers)
             /\ x.type = "requestPool" => ~Has(<<x>>, Asks)
  <2>1. x.type \notin Shakes /\ x.type \notin Answers /\ (x.type = "requestPool" => x.type \notin Asks)
    BY <1>1 DEF Shakes, Asks, Answers
  <2> QED BY Zenon, <2>1, QueueShort
<1>2. CASE c.needed # <<>>
  <2> DEFINE used == Used(c.needed, known)
             asked == Wanted(SubSeq(c.needed, 1, used), known)
             x == [type |-> "requestObjects", blocks |-> asked]
             d == [c EXCEPT !.needed = SubSeq(@, used + 1, Len(@)),
                            !.requested = @ \cup Range(asked)]
  <2>1. c.needed \in Seq(Blocks) BY DEF Context
  <2>2. used \in 0 .. Len(c.needed) BY <2>1, UsedType
  <2>3. r = [c |-> d, out |-> <<x>>] BY Zenon, <1>2 DEF RequestMissingObjects
  <2> HIDE DEF used
  <2>4. /\ SubSeq(c.needed, 1, used) \in Seq(Blocks)
        /\ SubSeq(c.needed, used + 1, Len(c.needed)) \in Seq(Blocks)
    BY <2>1, <2>2
  <2>5. asked \in Seq(Blocks) BY <2>4, OnlyType DEF Wanted
  <2> HIDE DEF asked
  <2>6. Range(asked) \subseteq Blocks BY <2>5 DEF Range
  <2>7. x \in Messages /\ x.type = "requestObjects" BY <2>5 DEF Messages
  <2>8. d \in Context /\ d.state = c.state BY <2>4, <2>6 DEF Context
  <2>9. r.c = d /\ r.out = <<x>> BY <2>3
  <2> HIDE DEF d, x, r
  <2>10. AsksMore(c, r) BY Zenon, <1>1, <2>7, <2>8, <2>9 DEF AsksMore
  <2> QED BY <2>10 DEF r
<1>3. CASE c.needed = <<>> /\ c.last < c.remote - 1
  <2>1. r = [c |-> c, out |-> <<RequestChain(n)>>] BY Zenon, <1>3 DEF RequestMissingObjects
  <2>2. r.c = c /\ r.out = <<RequestChain(n)>> BY <2>1
  <2> HIDE DEF r
  <2>3. AsksMore(c, r) BY <1>1, <2>2, OwnMessages DEF AsksMore
  <2> QED BY <2>3 DEF r
<1>4. CASE c.needed = <<>> /\ ~(c.last < c.remote - 1) /\ c.last = c.remote - 1 /\ c.requested = {}
  <2> DEFINE d == [c EXCEPT !.state = "normal"]
  <2>1. r = [c |-> d, out |-> <<RequestPool(n)>>] BY Zenon, <1>4 DEF RequestMissingObjects
  <2>2. r.c = d /\ r.out = <<RequestPool(n)>> BY <2>1
  <2>3. d \in Context /\ d.state = "normal" /\ d.needed = <<>> /\ d.requested = {}
    BY <1>4 DEF Context, States
  <2> HIDE DEF r, d
  <2>4. AsksMore(c, r) BY <1>1, <2>2, <2>3, OwnMessages DEF AsksMore
  <2> QED BY <2>4 DEF r
<1>5. CASE /\ c.needed = <<>> /\ ~(c.last < c.remote - 1)
           /\ ~(c.last = c.remote - 1 /\ c.requested = {})
  <2>1. r = [c |-> c, out |-> <<>>] BY Zenon, <1>5 DEF RequestMissingObjects
  <2>2. r.c = c /\ r.out = <<>> BY <2>1
  <2> HIDE DEF r
  <2>3. AsksMore(c, r) BY Zenon, <2>2, QueueShort DEF AsksMore
  <2> QED BY <2>3 DEF r
<1> QED BY Zenon, <1>2, <1>3, <1>4, <1>5

\* The top of the connection's loop asks for the chain or for the pool.
LEMMA LoopTopTypes ==
    ASSUME Types, NEW n \in Nodes, NEW c \in Context
    PROVE  /\ LoopTop(n, c).c \in Context
           /\ LoopTop(n, c).c.needed = c.needed /\ LoopTop(n, c).c.requested = c.requested
           /\ LoopTop(n, c).c.state = CASE c.state = "sync_required"      -> "synchronizing"
                                        [] c.state = "pool_sync_required" -> "normal"
                                        [] OTHER                          -> c.state
           /\ LoopTop(n, c).out = CASE c.state = "sync_required"      -> <<RequestChain(n)>>
                                    [] c.state = "pool_sync_required" -> <<RequestPool(n)>>
                                    [] OTHER                          -> <<>>
<1>1. CASE c.state = "sync_required" BY SMTT(20), <1>1 DEF LoopTop, Context, States
<1>2. CASE c.state = "pool_sync_required" BY SMTT(20), <1>2 DEF LoopTop, Context, States
<1>3. CASE c.state # "sync_required" /\ c.state # "pool_sync_required"
  BY <1>3 DEF LoopTop, Context, States
<1> QED BY <1>1, <1>2, <1>3
=============================================================================
