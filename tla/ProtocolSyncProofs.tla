------------------------- MODULE ProtocolSyncProofs -------------------------
(***************************************************************************)
(* Every step of the synchronisation protocol keeps the control of its     *)
(* connections (ProtocolConnections), and what follows from it: a          *)
(* connection comes to a new synchronisation with empty lists, and the     *)
(* peers are counted right but for the two exits of the handshake that     *)
(* PeersCounted names.                                                     *)
(***************************************************************************)
EXTENDS ProtocolConnections

-----------------------------------------------------------------------------
(* The number of peers *)

Out == {"closed", "befor_handshake"}

\* The connections of a node past their handshake are finitely many.
LEMMA PeersFinite ==
    ASSUME NEW n
    PROVE  IsFiniteSet(PeersAt(n)) /\ Cardinality(PeersAt(n)) \in Nat
<1>1. PeersAt(n) \subseteq Ends BY DEF PeersAt, At
<1> QED BY <1>1, EndsFinite, FS_Subset, FS_CardinalityType

\* When the state of one end changes, only its node's peers do: by one where the
\* end gets past its handshake or leaves.
LEMMA PeersChange ==
    ASSUME NEW e \in Ends, NEW n, \A f \in Ends : f # e => ctx'[f].state = ctx[f].state
    PROVE  /\ Cardinality(PeersAt(n)') \in Int /\ Cardinality(PeersAt(n)) \in Int
           /\ n # e[1] => Cardinality(PeersAt(n)') = Cardinality(PeersAt(n))
           /\ (ctx[e].state \in Out <=> ctx'[e].state \in Out) =>
                 Cardinality(PeersAt(n)') = Cardinality(PeersAt(n))
           /\ n = e[1] /\ ctx[e].state \in Out /\ ctx'[e].state \notin Out =>
                 Cardinality(PeersAt(n)') = Cardinality(PeersAt(n)) + 1
           /\ n = e[1] /\ ctx[e].state \notin Out /\ ctx'[e].state \in Out =>
                 Cardinality(PeersAt(n)') = Cardinality(PeersAt(n)) - 1
<1>1. /\ PeersAt(n) = {f \in At(n) : ctx[f].state \notin Out}
      /\ PeersAt(n)' = {f \in At(n) : ctx'[f].state \notin Out}
  BY Zenon DEF PeersAt, Out
<1>2. \A f \in At(n) : f # e => (ctx'[f].state \notin Out <=> ctx[f].state \notin Out)
  BY Zenon DEF At
<1>3. IsFiniteSet(PeersAt(n)) /\ Cardinality(PeersAt(n)) \in Nat BY PeersFinite
<1>4. e \in At(n) <=> n = e[1] BY DEF At
<1>5. CASE n # e[1] \/ (ctx[e].state \in Out <=> ctx'[e].state \in Out)
  <2>1. PeersAt(n)' = PeersAt(n) BY Zenon, <1>1, <1>2, <1>4, <1>5
  <2> QED BY <1>3, <1>5, <2>1
<1>6. CASE n = e[1] /\ ctx[e].state \in Out /\ ctx'[e].state \notin Out
  <2>1. PeersAt(n)' = PeersAt(n) \cup {e} BY Zenon, <1>1, <1>2, <1>4, <1>6
  <2>2. e \notin PeersAt(n) BY Zenon, <1>1, <1>6
  <2>3. Cardinality(PeersAt(n) \cup {e}) = Cardinality(PeersAt(n)) + 1
    BY <1>3, <2>2, FS_AddElement
  <2> QED BY <1>3, <1>6, <2>1, <2>3
<1>7. CASE n = e[1] /\ ctx[e].state \notin Out /\ ctx'[e].state \in Out
  <2>1. PeersAt(n)' = PeersAt(n) \ {e} BY Zenon, <1>1, <1>2, <1>7
  <2>2. e \in PeersAt(n) BY Zenon, <1>1, <1>4, <1>7
  <2>3. Cardinality(PeersAt(n) \ {e}) = Cardinality(PeersAt(n)) - 1
    BY <1>3, <2>2, FS_RemoveElement
  <2> QED BY <1>3, <1>7, <2>1, <2>3
<1> QED BY <1>5, <1>6, <1>7

\* A step that takes no end through its handshake and closes none keeps the
\* count.
LEMMA CountKept ==
    ASSUME PeersCounted, \A n \in Nodes : seen'[n].peers = seen[n].peers,
           \A f \in Ends : ctx'[f].state \in Out <=> ctx[f].state \in Out
    PROVE  PeersCounted'
<1> SUFFICES ASSUME NEW n \in Nodes PROVE PeersAt(n)' = PeersAt(n)
  BY Zenon DEF PeersCounted
<1>1. \A f \in At(n) : ctx'[f].state \notin Out <=> ctx[f].state \notin Out BY Zenon DEF At
<1>2. /\ PeersAt(n) = {f \in At(n) : ctx[f].state \notin Out}
      /\ PeersAt(n)' = {f \in At(n) : ctx'[f].state \notin Out}
  BY Zenon DEF PeersAt, Out
<1> QED BY Zenon, <1>1, <1>2

(* The count changes by d where the end e is, and its node has one peer more or
   less: the two agree, or e is one of the two exits of the handshake *)
Counts(e, d) ==
    LET was == ctx[e].state \in Out
        is  == ctx'[e].state \in Out
    IN  \/ was /\ ~is /\ d = 1
        \/ ~was /\ is /\ d = -1
        \/ (was <=> is) /\ d = 0
        \/ was /\ ~is /\ d = 0 /\ e \notin Dialed /\ e[2] \notin Accepts[e[1]]
        \/ was /\ is /\ d = 1 /\ e[1] = e[2]

\* A step of one end that counts as Counts says keeps PeersCounted.
LEMMA CountStep ==
    ASSUME PeersCounted, NEW e \in Ends, NEW d \in Int, Counts(e, d),
           \A n \in Nodes : seen[n].peers \in Int,
           \A f \in Ends : f # e => ctx'[f].state = ctx[f].state,
           \A n \in Nodes : seen'[n].peers = seen[n].peers + IF n = e[1] THEN d ELSE 0
    PROVE  PeersCounted'
<1> SUFFICES ASSUME NEW n \in Nodes
             PROVE  /\ <<n, n>> \notin Dials => seen'[n].peers <= Cardinality(PeersAt(n)')
                    /\ (\A p \in Dials : p[2] = n => p[1] \in Accepts[n]) =>
                          seen'[n].peers >= Cardinality(PeersAt(n)')
  BY Zenon DEF PeersCounted
<1> DEFINE old == Cardinality(PeersAt(n))
           new == Cardinality(PeersAt(n)')
           self == <<n, n>> \in Dials
           all == \A p \in Dials : p[2] = n => p[1] \in Accepts[n]
<1>1. (~self => seen[n].peers <= old) /\ (all => seen[n].peers >= old)
  BY Zenon DEF PeersCounted
<1>2. /\ new \in Int /\ old \in Int
      /\ n # e[1] => new = old
      /\ (ctx[e].state \in Out <=> ctx'[e].state \in Out) => new = old
      /\ n = e[1] /\ ctx[e].state \in Out /\ ctx'[e].state \notin Out => new = old + 1
      /\ n = e[1] /\ ctx[e].state \notin Out /\ ctx'[e].state \in Out => new = old - 1
  BY Zenon, PeersChange
<1>3. n = e[1] /\ e[1] = e[2] => self BY EndDials
<1>4. n = e[1] /\ e \notin Dialed /\ e[2] \notin Accepts[e[1]] => ~all
  BY Zenon, EndDials
<1>5. seen[n].peers \in Int /\ seen'[n].peers = seen[n].peers + IF n = e[1] THEN d ELSE 0
  OBVIOUS
<1> HIDE DEF old, new, self, all
<1>6. CASE n # e[1]
  <2>1. new = old /\ seen'[n].peers = seen[n].peers BY <1>2, <1>5, <1>6
  <2> QED BY <1>1, <2>1 DEF old, new, self, all
<1>7. CASE n = e[1]
  <2>1. seen'[n].peers = seen[n].peers + d BY <1>5, <1>7
  <2>2. \/ new = old + d
        \/ new = old + 1 /\ d = 0 /\ ~all
        \/ new = old /\ d = 1 /\ self
    BY <1>2, <1>3, <1>4, <1>7 DEF Counts
  <2>3. (~self => seen'[n].peers <= new) /\ (all => seen'[n].peers >= new)
    BY <1>1, <1>2, <1>5, <2>1, <2>2
  <2> QED BY <2>3 DEF new, self, all
<1> QED BY <1>6, <1>7

-----------------------------------------------------------------------------
(* The handlers *)

(* what a handler leaves outside the contexts and the queues *)
Rest(e, ty) ==
    /\ core' \in [Nodes -> [known : SUBSET Blocks, tip : Blocks]]
    /\ \A n \in Nodes : core'[n].tip \in core'[n].known
    /\ pool' \in [Nodes -> SUBSET Txs]
    /\ spawned' \in [Nodes -> Seq([msg : Announcements, skip : SUBSET Ends])]
    /\ seen' \in [Nodes -> Seen]
    /\ \A n \in Nodes : seen'[n].peers = seen[n].peers + IF ty \in Shakes /\ n = e[1] THEN 1 ELSE 0
    /\ breaks' = breaks

(* the batch it starts, if it starts one *)
Batch(e, ty, c, out, j) ==
    /\ j \in [on : BOOLEAN, left : Seq(Blocks)]
    /\ job' = [job EXCEPT ![e] = j]
    /\ j.on => ty = "objects" /\ c.state = "synchronizing" /\ ~Has(out, Asks)

\* A handler keeps the invariant.
LEMMA HandlerKeeps ==
    ASSUME IInv, NEW e \in Ends, NEW ty, ty # "eof", Gets(e, ty), NEW c, NEW out,
           Handles(e, ty, c, out), Answer(e, c, out), NEW j, Batch(e, ty, c, out, j), Rest(e, ty)
    PROVE  IInv'
<1>1. Types /\ Control /\ PeersCounted BY DEF IInv
<1>2. c \in Context /\ out \in Seq(Messages) BY DEF Handles
<1>3. Control'
  <2>1. /\ job' = [job EXCEPT ![e] = j] /\ j.on \in BOOLEAN
        /\ j.on => ty = "objects" /\ c.state = "synchronizing" /\ ~Has(out, Asks)
    BY DEF Batch
  <2> QED BY Zenon, <1>1, <2>1, AnswerControl
<1>4. /\ ctx' \in [Ends -> Context] /\ net' \in [Ends -> Seq(Messages)]
      /\ ctx'[e] = c /\ ctx'[Rev(e)] = ctx[Rev(e)]
      /\ \A f \in Ends : f # e /\ f # Rev(e) => ctx'[f] = ctx[f]
      /\ ctx[e].state \in {"befor_handshake", "synchronizing", "idle", "normal"}
      /\ net[Rev(e)] \in Seq(Messages) /\ net[Rev(e)] # <<>> /\ Head(net[Rev(e)]).type = ty
  BY Zenon, <1>1, <1>2, AnswerShape
<1>5. job' \in [Ends -> [on : BOOLEAN, left : Seq(Blocks)]] BY <1>1 DEF Types, Batch
<1>6. Types'
  <2>1. breaks' \in Nat BY <1>1 DEF Types, Rest
  <2> QED BY Zenon, <1>4, <1>5, <2>1 DEF Types, Rest, Seen
<1>7. ctx[e].state = "befor_handshake" <=> ty \in Shakes
  <2>1. ty \in Shakes => Has(net[Rev(e)], Shakes) BY Zenon, <1>4, QueueTail
  <2>2. Handshaken(e) BY <1>1 DEF Control
  <2> QED BY <1>4, <2>1, <2>2 DEF Handshaken
<1>8. \A f \in Ends : f # e => ctx'[f].state = ctx[f].state BY Zenon, <1>4
<1>9. PeersCounted'
  <2>1. CASE ty \in Shakes
    <3>1. ctx[e].state \in Out /\ ctx'[e].state \notin Out
      BY <1>4, <1>7, <2>1 DEF Out, Handles
    <3>2. \A n \in Nodes : seen'[n].peers = seen[n].peers + IF n = e[1] THEN 1 ELSE 0
      BY Zenon, <2>1 DEF Rest
    <3>3. Counts(e, 1) BY <3>1 DEF Counts
    <3>4. \A n \in Nodes : seen[n].peers \in Int BY <1>1 DEF Types
    <3> QED BY <1>1, <1>8, <3>2, <3>3, <3>4, CountStep
  <2>2. CASE ty \notin Shakes
    <3>1. ctx[e].state \notin Out /\ ctx'[e].state \notin Out
      BY <1>4, <1>7, <2>2 DEF Out, Handles
    <3>2. \A n \in Nodes : seen[n].peers \in Int BY <1>1 DEF Types
    <3>3. \A n \in Nodes : seen'[n].peers = seen[n].peers BY <2>2, <3>2 DEF Rest
    <3>4. \A f \in Ends : ctx'[f].state \in Out <=> ctx[f].state \in Out BY Zenon, <1>8, <3>1
    <3> QED BY Zenon, <1>1, <3>3, <3>4, CountKept
  <2> QED BY <2>1, <2>2
<1> QED BY <1>3, <1>6, <1>9 DEF IInv

\* What an end that reads a message knows of itself and of the message.
LEMMA Received ==
    ASSUME IInv, NEW e \in Ends, NEW ty, ty # "eof", Gets(e, ty)
    PROVE  /\ e[1] \in Nodes /\ ctx[e] \in Context
           /\ Head(net[Rev(e)]) \in Messages /\ Head(net[Rev(e)]).type = ty
           /\ ctx[e].state \in {"befor_handshake", "synchronizing", "idle", "normal"}
           /\ ctx[e].state = "befor_handshake" <=> ty \in Shakes
           /\ ty \in Answers => ctx[e].state = "synchronizing"
           /\ ctx[e].state # "synchronizing" => ctx[e].needed = <<>> /\ ctx[e].requested = {}
           /\ job[e] \in [on : BOOLEAN, left : Seq(Blocks)] /\ job[e].on = FALSE
<1>1. Types /\ Control BY DEF IInv
<1>2. e[1] \in Nodes /\ Rev(e) \in Ends BY EndFacts
<1>3. /\ ctx[e] \in Context /\ net[Rev(e)] \in Seq(Messages)
      /\ job[e] \in [on : BOOLEAN, left : Seq(Blocks)]
  BY <1>1, <1>2 DEF Types
<1>4. net[Rev(e)] # <<>> /\ Head(net[Rev(e)]).type = ty /\ ~job[e].on BY DEF Gets
<1>5. Head(net[Rev(e)]) \in Messages BY <1>3, <1>4, QueueTail
<1>6. ctx[e].state \in {"befor_handshake", "synchronizing", "idle", "normal"}
  BY <1>3 DEF Gets, Live, Context, States
<1>7. /\ ty \in Shakes => Has(net[Rev(e)], Shakes)
      /\ ty \in Answers => Has(net[Rev(e)], Answers)
  BY Zenon, <1>3, <1>4, QueueTail
<1>8. Handshaken(e) /\ OneRequest(e) /\ ListsEmpty(e) BY <1>1 DEF Control
<1>9. ctx[e].state = "befor_handshake" <=> ty \in Shakes BY <1>4, <1>6, <1>7, <1>8 DEF Handshaken
<1>10. ty \in Answers => ctx[e].state = "synchronizing" BY <1>6, <1>7, <1>8 DEF OneRequest
<1>11. ctx[e].state # "synchronizing" => ctx[e].needed = <<>> /\ ctx[e].requested = {}
  BY <1>6, <1>8 DEF ListsEmpty
<1> QED BY <1>2, <1>3, <1>4, <1>5, <1>6, <1>9, <1>10, <1>11

(* the core, the pool and the relays keep their types *)
Stored ==
    /\ core' \in [Nodes -> [known : SUBSET Blocks, tip : Blocks]]
    /\ \A n \in Nodes : core'[n].tip \in core'[n].known
    /\ pool' \in [Nodes -> SUBSET Txs]
    /\ spawned' \in [Nodes -> Seq([msg : Announcements, skip : SUBSET Ends])]

\* A handler that leaves the core, the pool and the spawned calls alone keeps
\* their types.
LEMMA StoredKept ==
    ASSUME Types, UNCHANGED <<core, pool, spawned>>
    PROVE  Stored
BY DEF Types, Stored

\* A handler that only records what it saw of the peer's height, and counts a
\* peer on a handshake, keeps the rest of the state as the invariant needs it.
LEMMA RestOf ==
    ASSUME Types, Stored, NEW e \in Ends, NEW ty, breaks' = breaks,
           NEW s \in Seen, seen' = [seen EXCEPT ![e[1]] = s],
           s.peers = seen[e[1]].peers + IF ty \in Shakes THEN 1 ELSE 0
    PROVE  Rest(e, ty)
<1>1. e[1] \in Nodes BY EndFacts
<1>2. seen \in [Nodes -> Seen] BY DEF Types, Seen
<1>3. seen' \in [Nodes -> Seen] BY <1>2
<1>4. ASSUME NEW n \in Nodes
      PROVE  seen'[n].peers = seen[n].peers + IF ty \in Shakes /\ n = e[1] THEN 1 ELSE 0
  <2>1. seen[n].peers \in Int BY <1>2 DEF Seen
  <2>2. CASE n = e[1] BY <1>1, <1>2, <2>2
  <2>3. CASE n # e[1] BY <1>2, <2>1, <2>3
  <2> QED BY <2>2, <2>3
<1> QED BY <1>3, <1>4 DEF Rest, Stored

\* The same when the observers are told nothing.
LEMMA RestQuiet ==
    ASSUME Types, Stored, NEW e \in Ends, NEW ty, ty \notin Shakes, UNCHANGED <<seen, breaks>>
    PROVE  Rest(e, ty)
<1>1. e[1] \in Nodes BY EndFacts
<1>2. seen \in [Nodes -> Seen] BY DEF Types, Seen
<1>3. \A n \in Nodes : seen[n].peers \in Int BY <1>2 DEF Seen
<1>4. \A n \in Nodes :
        seen'[n].peers = seen[n].peers + IF ty \in Shakes /\ n = e[1] THEN 1 ELSE 0
  BY <1>3
<1> QED BY <1>2, <1>4 DEF Rest, Stored

\* A handler that starts no batch of blocks leaves the connection's one idle.
LEMMA NoBatch ==
    ASSUME IInv, NEW e \in Ends, NEW ty, ty # "eof", Gets(e, ty), UNCHANGED job, NEW c, NEW out
    PROVE  Batch(e, ty, c, out, job[e])
<1>1. job[e] \in [on : BOOLEAN, left : Seq(Blocks)] /\ job[e].on = FALSE BY Received
<1>2. job = [job EXCEPT ![e] = job[e]] BY DEF IInv, Types
<1> QED BY <1>1, <1>2 DEF Batch

\* Handlers that leave the synchronisation alone, or drop the peer.
LEMMA PlainAnswer ==
    ASSUME IInv, NEW e \in Ends, NEW ty, ty # "eof", ty \notin Shakes, Gets(e, ty),
           NEW c \in Context, NEW out \in Seq(Messages),
           c.state \in {ctx[e].state, "shutdown"},
           c.needed = ctx[e].needed, c.requested = ctx[e].requested,
           ~Has(out, Shakes), ~Has(out, Asks),
           Has(out, Answers) => ty \in Asks /\ AtMostOne(out, Answers)
    PROVE  Handles(e, ty, c, out)
<1>1. /\ ctx[e].state \in {"synchronizing", "idle", "normal"}
      /\ ctx[e].state # "synchronizing" => ctx[e].needed = <<>> /\ ctx[e].requested = {}
  BY Received
<1> QED BY <1>1 DEF Handles

(* a handler that only answers *)
LEMMA QuietHandler ==
    ASSUME IInv, NEW e \in Ends, NEW ty, ty # "eof", ty \notin Shakes, Gets(e, ty),
           NEW c, NEW out, Handles(e, ty, c, out), Answer(e, c, out),
           UNCHANGED <<core, pool, job, spawned, seen, breaks>>
    PROVE  IInv'
<1>1. Types BY DEF IInv
<1>2. Stored BY <1>1, StoredKept
<1>3. UNCHANGED <<seen, breaks>> /\ UNCHANGED job OBVIOUS
<1>4. Rest(e, ty) BY Zenon, <1>1, <1>2, <1>3, RestQuiet
<1>5. Batch(e, ty, c, out, job[e]) BY Zenon, <1>3, NoBatch
<1> QED BY Zenon, <1>4, <1>5, HandlerKeeps

\* A handshake or its reply that is taken: process_payload_sync_data counts the
\* peer.
LEMMA ShakesHands ==
    ASSUME IInv, NEW e \in Ends, NEW ty \in Shakes, Gets(e, ty),
           Answer(e, AfterSyncData(e, Head(net[Rev(e)]), TRUE), <<>>),
           seen' = [seen EXCEPT ![e[1]] = SeenSyncData(e, Head(net[Rev(e)]), TRUE)],
           UNCHANGED <<core, pool, job, spawned, breaks>>
    PROVE  IInv'
<1> DEFINE msg == Head(net[Rev(e)])
           c == AfterSyncData(e, msg, TRUE)
           s == SeenSyncData(e, msg, TRUE)
<1>1. Answer(e, c, <<>>) /\ seen' = [seen EXCEPT ![e[1]] = s] BY Zenon
<1>2. Types BY DEF IInv
<1>3. ty # "eof" /\ ty \in {"handshake", "handshakeReply"} BY DEF Shakes
<1>4. /\ msg \in Messages /\ msg.type = ty /\ ctx[e].state = "befor_handshake"
      /\ ctx[e].needed = <<>> /\ ctx[e].requested = {}
  BY <1>3, Received
<1> HIDE DEF msg
<1>5. /\ c \in Context /\ c.needed = <<>> /\ c.requested = {}
      /\ c.state \in {"sync_required", "pool_sync_required"}
      /\ s \in Seen /\ s.peers = seen[e[1]].peers + 1
  BY <1>2, <1>3, <1>4, SyncDataTypes
<1> HIDE DEF c, s
<1>6. Handles(e, ty, c, <<>>)
  <2>1. /\ <<>> \in Seq(Messages) /\ ~Has(<<>>, Shakes) /\ ~Has(<<>>, Asks) /\ ~Has(<<>>, Answers)
    BY Zenon, QueueShort
  <2> QED BY <1>4, <1>5, <2>1 DEF Handles
<1>7. Rest(e, ty)
  <2>1. Stored BY <1>2, StoredKept
  <2>2. s.peers = seen[e[1]].peers + IF ty \in Shakes THEN 1 ELSE 0 BY <1>5
  <2> QED BY <1>1, <1>2, <1>5, <2>1, <2>2, RestOf
<1>8. Batch(e, ty, c, <<>>, job[e]) BY <1>3, NoBatch
<1> QED BY Zenon, <1>1, <1>3, <1>6, <1>7, <1>8, HandlerKeeps

\* A peer that handle_handshake refuses is shut down, and not counted.
LEMMA Refuses ==
    ASSUME IInv, NEW e \in Ends, Gets(e, "handshake"), e[2] \notin Accepts[e[1]],
           Answer(e, [ctx[e] EXCEPT !.state = "shutdown"], <<>>),
           UNCHANGED <<core, pool, job, spawned, seen, breaks>>
    PROVE  IInv'
<1> DEFINE c == [ctx[e] EXCEPT !.state = "shutdown"]
           ty == "handshake"
<1>1. Types /\ Control /\ PeersCounted BY DEF IInv
<1>2. ty # "eof" /\ ty \in Shakes BY DEF Shakes
<1>3. /\ ctx[e] \in Context /\ ctx[e].state = "befor_handshake"
      /\ job[e] \in [on : BOOLEAN, left : Seq(Blocks)] /\ job[e].on = FALSE
  BY <1>2, Received
<1>4. c \in Context /\ c.state = "shutdown" BY <1>3 DEF Context, States
<1>5. Answer(e, c, <<>>) OBVIOUS
<1> HIDE DEF c
<1>6. <<>> \in Seq(Messages) /\ ~Has(<<>>, Shakes) /\ ~Has(<<>>, Asks) /\ ~Has(<<>>, Answers)
  BY Zenon, QueueShort
<1>7. Handles(e, ty, c, <<>>) BY <1>2, <1>3, <1>4, <1>6 DEF Handles
<1>8. Control'
  <2>1. job' = [job EXCEPT ![e] = job[e]] BY <1>1 DEF Types
  <2>2. job[e].on \in BOOLEAN /\ ~job[e].on BY <1>3
  <2> QED BY Zenon, <1>1, <1>2, <1>5, <1>7, <2>1, <2>2, AnswerControl
<1>9. /\ ctx' \in [Ends -> Context] /\ net' \in [Ends -> Seq(Messages)]
      /\ ctx'[e] = c /\ ctx'[Rev(e)] = ctx[Rev(e)]
      /\ \A f \in Ends : f # e /\ f # Rev(e) => ctx'[f] = ctx[f]
      /\ net[Rev(e)] \in Seq(Messages) /\ net[Rev(e)] # <<>> /\ Head(net[Rev(e)]).type = ty
  BY Zenon, <1>1, <1>4, <1>5, <1>6, AnswerShape
<1>10. Types' BY <1>1, <1>9 DEF Types
<1>11. e \notin Dialed
  <2>1. Has(net[Rev(e)], {"handshake"}) BY <1>9, QueueTail
  <2> QED BY <1>1, <2>1 DEF Control, Greeted
<1>12. Counts(e, 0) BY <1>3, <1>4, <1>9, <1>11 DEF Counts, Out
<1>13. PeersCounted'
  <2>1. \A f \in Ends : f # e => ctx'[f].state = ctx[f].state BY Zenon, <1>9
  <2>2. \A n \in Nodes : seen[n].peers \in Int BY <1>1 DEF Types
  <2>3. \A n \in Nodes : seen'[n].peers = seen[n].peers + IF n = e[1] THEN 0 ELSE 0 BY <2>2
  <2> QED BY <1>1, <1>12, <2>1, <2>2, <2>3, CountStep
<1> QED BY <1>8, <1>10, <1>13 DEF IInv

\* handle_handshake.
LEMMA HandshakeKeeps ==
    ASSUME IInv, NEW e \in Ends, HandleHandshake(e)
    PROVE  IInv'
<1>1. Gets(e, "handshake") /\ UNCHANGED <<core, pool, job, spawned, breaks>>
  BY Zenon DEF HandleHandshake
<1>2. "handshake" \in Shakes BY DEF Shakes
<1>3. CASE e[2] \in Accepts[e[1]] BY Zenon, <1>1, <1>2, <1>3, ShakesHands DEF HandleHandshake
<1>4. CASE e[2] \notin Accepts[e[1]] BY Zenon, <1>1, <1>4, Refuses DEF HandleHandshake
<1> QED BY <1>3, <1>4

\* handle_timed_sync and handleTimedSyncResponse.
LEMMA TimedSyncHandled ==
    ASSUME IInv, NEW e \in Ends, HandleTimedSync(e)
    PROVE  IInv'
<1> DEFINE msg == Head(net[Rev(e)])
           n == e[1]
           d == AfterSyncData(e, msg, FALSE)
           top == LoopTop(n, d)
           s == SeenSyncData(e, msg, FALSE)
<1>1. PICK ty \in {"timedSync", "timedReply"} :
         /\ Gets(e, ty)
         /\ Answer(e, top.c, (IF ty = "timedSync" THEN <<SyncData("timedReply", n)>> ELSE <<>>) \o top.out)
         /\ seen' = [seen EXCEPT ![e[1]] = s]
  BY Zenon DEF HandleTimedSync
<1> DEFINE reply == IF ty = "timedSync" THEN <<SyncData("timedReply", n)>> ELSE <<>>
<1>2. Types /\ UNCHANGED <<core, pool, job, spawned, breaks>> BY DEF IInv, HandleTimedSync
<1>3. ty # "eof" /\ ty \notin Shakes /\ ty \notin Answers BY DEF Shakes, Answers
<1>4. /\ msg \in Messages /\ msg.type = ty /\ n \in Nodes
      /\ ctx[e].state \in {"synchronizing", "idle", "normal"}
      /\ ctx[e].state # "synchronizing" => ctx[e].needed = <<>> /\ ctx[e].requested = {}
  BY <1>1, <1>3, Received
<1> HIDE DEF msg
<1>5. /\ d \in Context /\ d.needed = ctx[e].needed /\ d.requested = ctx[e].requested
      /\ ctx[e].state = "synchronizing" => d.state = "synchronizing"
      /\ ctx[e].state # "synchronizing" => d.state \in {"normal", "sync_required"}
      /\ s \in Seen /\ s.peers = seen[e[1]].peers + 0
  BY <1>2, <1>4, SyncDataTypes
<1> HIDE DEF d, s, n
<1>6. /\ top.c \in Context /\ top.c.needed = d.needed /\ top.c.requested = d.requested
      /\ d.state = "sync_required" => top.c.state = "synchronizing" /\ top.out = <<RequestChain(n)>>
      /\ d.state \in {"normal", "synchronizing"} => top.c.state = d.state /\ top.out = <<>>
  BY <1>2, <1>4, <1>5, LoopTopTypes
<1>7. /\ SyncData("timedReply", n) \in Messages /\ SyncData("timedReply", n).type = "timedReply"
      /\ RequestChain(n) \in Messages /\ RequestChain(n).type = "requestChain"
  BY <1>2, <1>4, OwnMessages
<1> HIDE DEF top
<1>8. /\ reply \in Seq(Messages)
      /\ ~Has(reply, Shakes) /\ ~Has(reply, Asks) /\ ~Has(reply, Answers)
  <2>1. "timedReply" \notin Shakes /\ "timedReply" \notin Asks /\ "timedReply" \notin Answers
    BY DEF Shakes, Asks, Answers
  <2> DEFINE x == SyncData("timedReply", n)
  <2>2. x \in Messages /\ x.type \notin Shakes /\ x.type \notin Asks /\ x.type \notin Answers
    BY <1>7, <2>1
  <2>3. reply = <<>> \/ reply = <<x>> BY Zenon
  <2> HIDE DEF x, reply
  <2>4. <<x>> \in Seq(Messages) /\ ~Has(<<x>>, Shakes) /\ ~Has(<<x>>, Asks) /\ ~Has(<<x>>, Answers)
    BY Zenon, <2>2, QueueShort
  <2>5. <<>> \in Seq(Messages) /\ ~Has(<<>>, Shakes) /\ ~Has(<<>>, Asks) /\ ~Has(<<>>, Answers)
    BY Zenon, QueueShort
  <2> QED BY Zenon, <2>3, <2>4, <2>5
<1>9. /\ top.out \in Seq(Messages)
      /\ ~Has(top.out, Shakes) /\ AtMostOne(top.out, Asks) /\ ~Has(top.out, Answers)
      /\ d.state # "sync_required" => ~Has(top.out, Asks)
  <2>1. "requestChain" \notin Shakes /\ "requestChain" \notin Answers BY DEF Shakes, Answers
  <2>2. CASE d.state = "sync_required"
    <3> DEFINE x == RequestChain(n)
    <3>1. x \in Messages /\ x.type \notin Shakes /\ x.type \notin Answers BY <1>7, <2>1
    <3>2. top.out = <<x>> BY <1>6, <2>2
    <3> HIDE DEF x
    <3>3. <<x>> \in Seq(Messages) /\ ~Has(<<x>>, Shakes) /\ AtMostOne(<<x>>, Asks) /\ ~Has(<<x>>, Answers)
      BY Zenon, <3>1, QueueShort
    <3> QED BY Zenon, <2>2, <3>2, <3>3
  <2>3. CASE d.state # "sync_required"
    <3>1. top.out = <<>> BY <1>4, <1>5, <1>6, <2>3
    <3> QED BY Zenon, <2>3, <3>1, QueueShort
  <2> QED BY <2>2, <2>3
<1> HIDE DEF reply
<1>10. /\ reply \o top.out \in Seq(Messages)
       /\ ~Has(reply \o top.out, Shakes) /\ ~Has(reply \o top.out, Answers)
       /\ AtMostOne(reply \o top.out, Asks)
       /\ Has(reply \o top.out, Asks) => d.state = "sync_required"
  BY Zenon, <1>8, <1>9, QueueConcat
<1>11. Handles(e, ty, top.c, reply \o top.out)
  BY <1>3, <1>4, <1>5, <1>6, <1>10 DEF Handles
<1>12. Rest(e, ty)
  <2>1. Stored BY <1>2, StoredKept
  <2>2. s.peers = seen[e[1]].peers + IF ty \in Shakes THEN 1 ELSE 0 BY <1>3, <1>5
  <2> QED BY <1>1, <1>2, <1>5, <2>1, <2>2, RestOf
<1>13. Batch(e, ty, top.c, reply \o top.out, job[e]) BY <1>1, <1>2, <1>3, NoBatch
<1>14. Answer(e, top.c, reply \o top.out) BY Zenon, <1>1 DEF reply
<1> QED BY Zenon, <1>1, <1>3, <1>11, <1>12, <1>13, <1>14, HandlerKeeps

\* A message that is neither a handshake nor a request may be an answer.
LEMMA OneMessage ==
    ASSUME NEW x \in Messages, NEW ty,
           x.type \notin Shakes, x.type \notin Asks, x.type \in Answers => ty \in Asks
    PROVE  /\ <<x>> \in Seq(Messages) /\ ~Has(<<x>>, Shakes) /\ ~Has(<<x>>, Asks)
           /\ Has(<<x>>, Answers) => ty \in Asks /\ AtMostOne(<<x>>, Answers)
BY Zenon, QueueShort

\* An answer of one message or none that leaves the context alone, or drops the
\* peer.
LEMMA PlainHandler ==
    ASSUME IInv, NEW e \in Ends, NEW ty, ty # "eof", ty \notin Shakes, Gets(e, ty), NEW c, NEW out,
           Answer(e, c, out), UNCHANGED <<core, pool, job, spawned, seen, breaks>>,
           \/ c = ctx[e]
           \/ c = [ctx[e] EXCEPT !.state = "shutdown"],
           \/ out = <<>>
           \/ \E x \in Messages : /\ out = <<x>>
                                  /\ x.type \notin Shakes /\ x.type \notin Asks
                                  /\ x.type \in Answers => ty \in Asks
    PROVE  IInv'
<1>1. ctx[e] \in Context BY DEF IInv, Types
<1>2. /\ c \in Context /\ c.state \in {ctx[e].state, "shutdown"}
      /\ c.needed = ctx[e].needed /\ c.requested = ctx[e].requested
  BY <1>1 DEF Context, States
<1>3. /\ out \in Seq(Messages) /\ ~Has(out, Shakes) /\ ~Has(out, Asks)
      /\ Has(out, Answers) => ty \in Asks /\ AtMostOne(out, Answers)
  <2>1. CASE out = <<>> BY Zenon, <2>1, QueueShort
  <2>2. CASE out # <<>> BY Zenon, <2>2, OneMessage
  <2> QED BY <2>1, <2>2
<1>4. Handles(e, ty, c, out) BY Zenon, <1>2, <1>3, PlainAnswer
<1> QED BY Zenon, <1>4, QuietHandler

\* handle_request_chain answers with a chain entry.
LEMMA RequestChainKeeps ==
    ASSUME IInv, NEW e \in Ends, HandleRequestChain(e)
    PROVE  IInv'
<1> DEFINE msg == Head(net[Rev(e)])
           r == FindBlockchainSupplement(e[1], msg.ids)
           x == [type |-> "chainEntry", ids |-> r.ids, start |-> r.start, total |-> r.total]
           ty == "requestChain"
<1>1. /\ Gets(e, ty) /\ Answer(e, ctx[e], <<x>>)
      /\ UNCHANGED <<core, pool, job, spawned, seen, breaks>>
  BY Zenon DEF HandleRequestChain
<1>2. ty # "eof" /\ ty \notin Shakes /\ ty \in Asks BY DEF Shakes, Asks
<1>3. e[1] \in Nodes /\ msg \in Messages /\ msg.type = ty BY <1>1, <1>2, Received
<1>4. x \in Messages
  <2> HIDE DEF msg
  <2>1. msg.ids \in Seq(Blocks) /\ \E i \in DOMAIN msg.ids : msg.ids[i] = Genesis
    BY <1>3, MessageFields
  <2>2. Types BY DEF IInv
  <2> QED BY Zenon, <1>3, <2>1, <2>2, SupplementType
<1>5. x.type \notin Shakes /\ x.type \notin Asks BY DEF Shakes, Asks
<1> HIDE DEF x, ty
<1> QED BY Zenon, <1>1, <1>2, <1>4, <1>5, PlainHandler

\* handle_request_get_objects answers with the blocks it has.
LEMMA RequestObjectsKeeps ==
    ASSUME IInv, NEW e \in Ends, HandleRequestObjects(e)
    PROVE  IInv'
<1> DEFINE msg == Head(net[Rev(e)])
           blocks == Only(msg.blocks, core[e[1]].known)
           x == [type |-> "objects", height |-> Height(e[1]), blocks |-> blocks]
           ty == "requestObjects"
<1>1. /\ Gets(e, ty) /\ Answer(e, ctx[e], <<x>>)
      /\ UNCHANGED <<core, pool, job, spawned, seen, breaks>>
  BY Zenon DEF HandleRequestObjects
<1>2. ty # "eof" /\ ty \notin Shakes /\ ty \in Asks BY DEF Shakes, Asks
<1>3. e[1] \in Nodes /\ msg \in Messages /\ msg.type = ty BY <1>1, <1>2, Received
<1>4. x \in Messages
  <2> HIDE DEF msg
  <2>1. msg.blocks \in Seq(Blocks) BY <1>3, MessageFields
  <2>2. blocks \in Seq(Blocks) BY <2>1, OnlyType
  <2>3. Height(e[1]) \in Nat BY <1>3, OwnMessages DEF IInv
  <2> HIDE DEF blocks
  <2> QED BY <2>2, <2>3 DEF Messages
<1>5. x.type \notin Shakes /\ x.type \notin Asks BY DEF Shakes, Asks
<1> HIDE DEF x, ty
<1> QED BY Zenon, <1>1, <1>2, <1>4, <1>5, PlainHandler

\* handleRequestTxPool answers with the transactions the peer lacks, if any.
LEMMA RequestPoolKeeps ==
    ASSUME IInv, NEW e \in Ends, HandleRequestPool(e)
    PROVE  IInv'
<1> DEFINE more == pool[e[1]] \ Head(net[Rev(e)]).txs
           x == [type |-> "newTxs", txs |-> more]
           out == IF more = {} THEN <<>> ELSE <<x>>
           ty == "requestPool"
<1>1. /\ Gets(e, ty) /\ Answer(e, ctx[e], out)
      /\ UNCHANGED <<core, pool, job, spawned, seen, breaks>>
  BY Zenon DEF HandleRequestPool
<1>2. ty # "eof" /\ ty \notin Shakes BY DEF Shakes
<1>3. e[1] \in Nodes BY EndFacts
<1>4. more \in SUBSET Txs BY <1>3 DEF IInv, Types
<1>5. x \in Messages /\ x.type \notin Shakes /\ x.type \notin Asks /\ x.type \notin Answers
  <2> HIDE DEF more
  <2> QED BY <1>4 DEF Messages, Announcements, Shakes, Asks, Answers
<1>6. out = <<>> \/ out = <<x>> BY Zenon
<1> HIDE DEF x, ty, out
<1> QED BY Zenon, <1>1, <1>2, <1>5, <1>6, PlainHandler

\* handle_notify_missing_txs answers with the transactions, or drops the peer.
LEMMA MissingTxsKeeps ==
    ASSUME IInv, NEW e \in Ends, HandleMissingTxs(e)
    PROVE  IInv'
<1> DEFINE msg == Head(net[Rev(e)])
           x == [type |-> "newTxs", txs |-> msg.txs]
           ty == "missingTxs"
<1>1. /\ Gets(e, ty)
      /\ \/ Answer(e, ctx[e], <<x>>)
         \/ Answer(e, [ctx[e] EXCEPT !.state = "shutdown"], <<>>)
      /\ UNCHANGED <<core, pool, job, spawned, seen, breaks>>
  BY Zenon DEF HandleMissingTxs
<1>2. ty # "eof" /\ ty \notin Shakes BY DEF Shakes
<1>3. msg \in Messages /\ msg.type = ty BY <1>1, <1>2, Received
<1>4. x \in Messages /\ x.type \notin Shakes /\ x.type \notin Asks /\ x.type \notin Answers
  <2> HIDE DEF msg
  <2>1. msg.txs \in SUBSET Txs BY <1>3, MessageFields
  <2> QED BY <2>1 DEF Messages, Announcements, Shakes, Asks, Answers
<1> HIDE DEF x, ty
<1>5. CASE Answer(e, ctx[e], <<x>>) BY Zenon, <1>1, <1>2, <1>4, <1>5, PlainHandler
<1>6. CASE Answer(e, [ctx[e] EXCEPT !.state = "shutdown"], <<>>)
  BY Zenon, <1>1, <1>2, <1>6, PlainHandler
<1> QED BY <1>1, <1>5, <1>6

\* m_synchronized changes nothing else.
LEMMA SyncedType ==
    ASSUME NEW s \in Seen, NEW before, NEW after
    PROVE  Synced(s, before, after) \in Seen /\ Synced(s, before, after).peers = s.peers
<1> DEFINE now == s.synced \/ (before.state = "synchronizing" /\ after.state = "normal")
<1>1. Synced(s, before, after) = [s EXCEPT !.synced = now] BY Zenon DEF Synced
<1>2. now \in BOOLEAN OBVIOUS
<1> HIDE DEF now
<1> QED BY <1>1, <1>2 DEF Seen

\* An answer to a request that goes on or ends the synchronisation, as
\* request_missing_objects does.
LEMMA AsksMoreHandles ==
    ASSUME IInv, NEW e \in Ends, NEW ty \in Answers, Gets(e, ty), NEW c, NEW r, AsksMore(c, r),
           c.state \in {"synchronizing", "shutdown"}
    PROVE  Handles(e, ty, r.c, r.out)
<1>1. ty \notin Shakes BY DEF Shakes, Answers
<1>2. /\ r.c \in Context /\ r.out \in Seq(Messages)
      /\ ~Has(r.out, Shakes) /\ ~Has(r.out, Answers) /\ AtMostOne(r.out, Asks)
      /\ Has(r.out, Asks) => r.c.state \in {"synchronizing", "shutdown"}
      /\ r.c.state \in {"synchronizing", "shutdown", "normal"}
      /\ r.c.state \notin {"synchronizing", "shutdown"} => r.c.needed = <<>> /\ r.c.requested = {}
  BY DEF AsksMore
<1> QED BY <1>1, <1>2 DEF Handles

\* handle_response_chain_entry.
LEMMA ChainEntryKeeps ==
    ASSUME IInv, NEW e \in Ends, HandleChainEntry(e)
    PROVE  IInv'
<1> DEFINE n == e[1]
           ty == "chainEntry"
           msg == Head(net[Rev(e)])
           unknown == {i \in DOMAIN msg.ids : msg.ids[i] \notin core[n].known}
           first == CHOOSE i \in unknown : \A j \in unknown : i <= j
           more == IF unknown = {} THEN <<>> ELSE SubSeq(msg.ids, first, Len(msg.ids))
           last == msg.start + Len(msg.ids) - 1
           c == [ctx[e] EXCEPT !.remote = msg.total, !.last = last,
                               !.state = IF last > msg.total THEN "shutdown" ELSE @,
                               !.needed = @ \o more]
           r == RequestMissingObjects(n, c, {})
           s == Synced(seen[n], ctx[e], r.c)
<1>0. c = AddNeeded(n, ctx[e], msg) BY Zenon DEF AddNeeded
<1>1. /\ Gets(e, ty) /\ UNCHANGED <<core, pool, job, spawned, breaks>>
      /\ \/ Answer(e, [ctx[e] EXCEPT !.state = "shutdown"], <<>>) /\ UNCHANGED seen
         \/ /\ msg.ids # <<>> /\ Answer(e, r.c, r.out)
            /\ seen' = [seen EXCEPT ![n] = s]
  <2> HIDE DEF c
  <2>1. /\ Gets(e, ty) /\ UNCHANGED <<core, pool, job, spawned, breaks>>
        /\ IF msg.ids = <<>> \/ msg.ids[1] \notin core[n].known
           THEN Answer(e, [ctx[e] EXCEPT !.state = "shutdown"], <<>>) /\ UNCHANGED seen
           ELSE \E d \in {c} : \E q \in {RequestMissingObjects(n, d, {})} :
                   /\ Answer(e, q.c, q.out)
                   /\ seen' = [seen EXCEPT ![n] = Synced(@, ctx[e], q.c)]
    BY Zenon, <1>0 DEF HandleChainEntry
  <2> QED BY Zenon, <2>1
<1>2. Types BY DEF IInv
<1>3. ty # "eof" /\ ty \notin Shakes /\ ty \in Answers BY DEF Shakes, Answers
<1>4. /\ n \in Nodes /\ msg \in Messages /\ msg.type = ty
      /\ ctx[e] \in Context /\ ctx[e].state = "synchronizing"
  BY <1>1, <1>3, Received
<1>5. CASE Answer(e, [ctx[e] EXCEPT !.state = "shutdown"], <<>>) /\ UNCHANGED seen
  <2>1. UNCHANGED <<core, pool, job, spawned, seen, breaks>> BY <1>1, <1>5
  <2> QED BY Zenon, <1>1, <1>3, <1>5, <2>1, PlainHandler
<1>6. CASE msg.ids # <<>> /\ Answer(e, r.c, r.out) /\ seen' = [seen EXCEPT ![n] = s]
  <2>1. msg.ids \in Seq(Blocks) /\ msg.start \in Nat /\ msg.total \in Nat
    <3> HIDE DEF msg
    <3> QED BY <1>4, MessageFields
  <2> HIDE DEF msg, n, ty
  <2>2. last \in Nat
    <3>1. msg.ids # <<>> BY Zenon, <1>6
    <3>2. Len(msg.ids) \in Nat /\ Len(msg.ids) >= 1 BY <3>1, <2>1
    <3> QED BY <3>2, <2>1
  <2>3. more \in Seq(Blocks)
    <3>1. CASE unknown = {} BY <3>1
    <3>2. CASE unknown # {}
      <4>1. unknown \in SUBSET Nat /\ \A i \in unknown : i \in 1 .. Len(msg.ids) BY <2>1
      <4>2. more = SubSeq(msg.ids, first, Len(msg.ids)) BY Zenon, <3>2
      <4> HIDE DEF unknown
      <4>3. \E i \in unknown : \A j \in unknown : i <= j BY <3>2, <4>1, LeastNat
      <4>4. first \in unknown BY Zenon, <4>3
      <4> HIDE DEF first, more
      <4> QED BY <2>1, <4>1, <4>2, <4>4
    <3> QED BY <3>1, <3>2
  <2> HIDE DEF more, last
  <2>4. ctx[e].needed \o more \in Seq(Blocks) BY <1>4, <2>3 DEF Context
  <2> DEFINE st == IF last > msg.total THEN "shutdown" ELSE "synchronizing"
             need == ctx[e].needed \o more
  <2>5. c = [ctx[e] EXCEPT !.remote = msg.total, !.last = last, !.state = st, !.needed = need]
    BY <1>4 DEF Context
  <2>6. st \in {"synchronizing", "shutdown"} OBVIOUS
  <2> HIDE DEF st, need, c
  <2>7. c \in Context /\ c.state = st BY <1>4, <2>1, <2>2, <2>4, <2>5, <2>6 DEF Context, States, need
  <2>8. AsksMore(c, r) BY <1>2, <1>4, <2>7, RequestMissing
  <2> HIDE DEF r
  <2>9. Handles(e, ty, r.c, r.out)
    BY Zenon, <1>1, <1>3, <2>6, <2>7, <2>8, AsksMoreHandles
  <2>10. seen[n] \in Seen /\ seen[n].peers \in Int BY <1>2, <1>4 DEF Types, Seen
  <2>11. s \in Seen /\ s.peers = seen[n].peers BY <2>10, SyncedType
  <2> HIDE DEF s
  <2>12. Rest(e, ty)
    <3>1. Stored BY <1>1, <1>2, StoredKept
    <3>2. s.peers = seen[e[1]].peers + IF ty \in Shakes THEN 1 ELSE 0
      BY <1>3, <2>10, <2>11 DEF n
    <3>3. seen' = [seen EXCEPT ![e[1]] = s] /\ breaks' = breaks BY Zenon, <1>1, <1>6 DEF n
    <3> QED BY Zenon, <1>2, <2>11, <3>1, <3>2, <3>3, RestOf
  <2>13. Batch(e, ty, r.c, r.out, job[e]) BY <1>1, <1>3, NoBatch
  <2> QED BY Zenon, <1>1, <1>3, <1>6, <2>9, <2>12, <2>13, HandlerKeeps
<1> QED BY Zenon, <1>1, <1>5, <1>6

\* A connection that goes idle forgets its lists.
LEMMA IdledType ==
    ASSUME NEW c \in Context
    PROVE  /\ Idled(c) \in Context /\ Idled(c).state = "idle"
           /\ Idled(c).needed = <<>> /\ Idled(c).requested = {}
<1> DEFINE none == <<>>
           nothing == {}
<1>1. Idled(c) = [c EXCEPT !.state = "idle", !.needed = none, !.requested = nothing]
  BY Zenon DEF Idled
<1>2. none \in Seq(Blocks) /\ nothing \in SUBSET Blocks /\ "idle" \in States BY DEF States
<1> HIDE DEF none, nothing
<1>3. /\ Idled(c) \in Context /\ Idled(c).state = "idle"
      /\ Idled(c).needed = none /\ Idled(c).requested = nothing
  BY <1>1, <1>2 DEF Context
<1> QED BY <1>3 DEF none, nothing

\* handle_response_get_objects up to the first block.
LEMMA ObjectsKeeps ==
    ASSUME IInv, NEW e \in Ends, HandleObjects(e)
    PROVE  IInv'
<1> DEFINE n == e[1]
           ty == "objects"
           msg == Head(net[Rev(e)])
           low == ctx[e].last > msg.height
           c == [ctx[e] EXCEPT !.remote = IF low THEN @ ELSE msg.height]
           check == IF low THEN "shutdown" ELSE CheckObjects(n, c, msg.blocks)
           got == [c EXCEPT !.requested = {}]
           r == IF msg.blocks = <<>> /\ c.state = "synchronizing"
                THEN RequestMissingObjects(n, got, core[n].known)
                ELSE [c |-> got, out |-> <<>>]
           obs == IF low THEN seen[n] ELSE Observed(e, c.state, msg.height)
           left == IF check = "idle" THEN Idled(c) ELSE [c EXCEPT !.state = "shutdown"]
           s == IF check = "synchronizing" THEN Synced(obs, c, r.c) ELSE obs
           j == IF check = "synchronizing" /\ msg.blocks # <<>>
                THEN [on |-> TRUE, left |-> msg.blocks] ELSE NoJob
           d == IF check = "synchronizing" THEN r.c ELSE left
           out == IF check = "synchronizing" THEN r.out ELSE <<>>
<1>1. /\ Gets(e, ty) /\ Answer(e, d, out) /\ seen' = [seen EXCEPT ![n] = s]
      /\ job' = [job EXCEPT ![e] = j] /\ UNCHANGED <<core, pool, spawned, breaks>>
  BY Zenon DEF HandleObjects
<1>2. Types BY DEF IInv
<1>3. ty # "eof" /\ ty \notin Shakes /\ ty \in Answers BY DEF Shakes, Answers
<1>4. /\ n \in Nodes /\ msg \in Messages /\ msg.type = ty
      /\ ctx[e] \in Context /\ ctx[e].state = "synchronizing"
  BY <1>1, <1>3, Received
<1>5. msg.height \in Nat /\ msg.blocks \in Seq(Blocks)
  <2> HIDE DEF msg
  <2> QED BY <1>4, MessageFields
<1> HIDE DEF msg, n
<1>6. c \in Context /\ c.state = "synchronizing" BY <1>4, <1>5 DEF Context
<1> HIDE DEF c
<1>7. got \in Context /\ got.state = "synchronizing" BY <1>6 DEF Context
<1> HIDE DEF got
<1>8. /\ left \in Context /\ left.state \in {"idle", "shutdown"}
      /\ left.state = "idle" => left.needed = <<>> /\ left.requested = {}
  <2> HIDE DEF check
  <2>1. CASE check = "idle"
    <3>1. left = Idled(c) BY Zenon, <2>1
    <3> HIDE DEF left
    <3> QED BY <1>6, <3>1, IdledType
  <2>2. CASE check # "idle"
    <3>1. left = [c EXCEPT !.state = "shutdown"] BY Zenon, <2>2
    <3> HIDE DEF left
    <3> QED BY <1>6, <3>1 DEF Context, States
  <2> QED BY <2>1, <2>2
<1>9. AsksMore(got, r) /\ (msg.blocks # <<>> => r.c = got /\ r.out = <<>>)
  <2>1. CASE msg.blocks = <<>>
    <3>1. r = RequestMissingObjects(n, got, core[n].known) BY Zenon, <1>6, <2>1
    <3> HIDE DEF r
    <3> QED BY <1>2, <1>4, <1>7, <2>1, <3>1, RequestMissing
  <2>2. CASE msg.blocks # <<>>
    <3>1. r = [c |-> got, out |-> <<>>] BY Zenon, <2>2
    <3>2. r.c = got /\ r.out = <<>> BY <3>1
    <3> HIDE DEF r
    <3> QED BY Zenon, <1>7, <3>2, QueueShort DEF AsksMore
  <2> QED BY <2>1, <2>2
<1>10. obs \in Seen /\ obs.peers = seen[n].peers /\ seen[n].peers \in Int
  <2>1. seen[n] \in Seen /\ seen[n].peers \in Int BY <1>2, <1>4 DEF Types, Seen
  <2>2. /\ Observed(e, c.state, msg.height) \in Seen
        /\ Observed(e, c.state, msg.height).peers = seen[n].peers
    BY Zenon, <1>2, <1>5, ObservedType DEF n
  <2> QED BY Zenon, <2>1, <2>2
<1> HIDE DEF check, left, r, obs
<1>11. s \in Seen /\ s.peers = seen[n].peers BY ZenonT(60), <1>10, SyncedType
<1>12. Handles(e, ty, d, out)
  <2>1. CASE check = "synchronizing"
    <3>1. Handles(e, ty, r.c, r.out) BY Zenon, <1>1, <1>3, <1>7, <1>9, AsksMoreHandles
    <3>2. d = r.c /\ out = r.out BY Zenon, <2>1
    <3> QED BY Zenon, <3>1, <3>2
  <2>2. CASE check # "synchronizing"
    <3>1. <<>> \in Seq(Messages) /\ ~Has(<<>>, Shakes) /\ ~Has(<<>>, Asks) /\ ~Has(<<>>, Answers)
      BY Zenon, QueueShort
    <3>2. d = left /\ out = <<>> BY Zenon, <2>2
    <3> QED BY <1>3, <1>8, <3>1, <3>2 DEF Handles
  <2> QED BY <2>1, <2>2
<1>13. Batch(e, ty, d, out, j)
  <2>1. j \in [on : BOOLEAN, left : Seq(Blocks)] BY <1>5 DEF NoJob
  <2>2. j.on => check = "synchronizing" /\ msg.blocks # <<>> BY DEF NoJob
  <2>3. check = "synchronizing" /\ msg.blocks # <<>> => d.state = "synchronizing" /\ out = <<>>
    BY Zenon, <1>7, <1>9
  <2>4. ~Has(<<>>, Asks) BY Zenon, QueueShort
  <2> HIDE DEF j, d, out
  <2> QED BY <1>1, <2>1, <2>2, <2>3, <2>4 DEF Batch
<1> HIDE DEF s, j, d, out
<1>14. Rest(e, ty)
  <2>1. Stored BY <1>1, <1>2, StoredKept
  <2>2. s.peers = seen[e[1]].peers + IF ty \in Shakes THEN 1 ELSE 0
    BY <1>3, <1>10, <1>11 DEF n
  <2>3. seen' = [seen EXCEPT ![e[1]] = s] /\ breaks' = breaks BY Zenon, <1>1 DEF n
  <2> QED BY Zenon, <1>2, <1>11, <2>1, <2>2, <2>3, RestOf
<1> QED BY Zenon, <1>1, <1>3, <1>12, <1>13, <1>14, HandlerKeeps

\* A relay waits with what it announces.
LEMMA RelayType ==
    ASSUME Types, NEW n \in Nodes, NEW m \in Announcements, NEW skip \in SUBSET Ends
    PROVE  Relay(n, m, skip) \in [Nodes -> Seq([msg : Announcements, skip : SUBSET Ends])]
<1> DEFINE R == [msg : Announcements, skip : SUBSET Ends]
           x == [msg |-> m, skip |-> skip]
<1>1. spawned \in [Nodes -> Seq(R)] BY DEF Types
<1>2. x \in R OBVIOUS
<1>3. Relay(n, m, skip) = [spawned EXCEPT ![n] = Append(@, x)] BY Zenon DEF Relay
<1> HIDE DEF R, x
<1>4. Append(spawned[n], x) \in Seq(R) BY <1>1, <1>2
<1>5. Relay(n, m, skip) \in [Nodes -> Seq(R)] BY <1>1, <1>3, <1>4
<1> QED BY <1>5 DEF R

\* doPushLiteBlock asks for the missing transactions, adds the block, starts a
\* synchronisation or drops the peer.
LEMMA PushLiteBlockHandles ==
    ASSUME IInv, NEW e \in Ends, NEW ty \in {"liteBlock", "newTxs"}, Gets(e, ty),
           NEW c \in Context, c.state = "normal", ctx[e].state = "normal",
           c.needed = ctx[e].needed, c.requested = ctx[e].requested,
           NEW b \in Blocks, NEW h \in Nat, NEW provided, PushLiteBlock(e, c, b, h, provided)
    PROVE  Stored /\ \E d, out : Handles(e, ty, d, out) /\ Answer(e, d, out)
<1> DEFINE n == e[1]
           need == {t \in TxsOf[b] \ provided : ~HasTransaction(n, t)}
           res == AddResult(n, b)
           done == [c EXCEPT !.pending = NoLite]
           drop == [done EXCEPT !.state = "shutdown"]
           wait == [c EXCEPT !.pending = [block |-> b, height |-> h, missed |-> need]]
           missing == [type |-> "missingTxs", txs |-> need]
           ask == [type |-> "requestPool", txs |-> PoolAfter(n, b)[n]]
           sync == [done EXCEPT !.state = "synchronizing"]
           relay == [type |-> "liteBlock", block |-> b, height |-> h]
<1>1. Types BY DEF IInv
<1>2. ty # "eof" /\ ty \notin Shakes /\ ty \notin Answers BY DEF Shakes, Answers
<1>3. n \in Nodes /\ ctx[e].needed = <<>> /\ ctx[e].requested = {} BY <1>2, Received
<1>4. \/ Answer(e, drop, <<>>) /\ UNCHANGED <<core, pool, spawned>>
      \/ Answer(e, wait, <<missing>>) /\ UNCHANGED <<core, pool, spawned>>
      \/ /\ core' = CoreAfter(n, b) /\ pool' = PoolAfter(n, b)
         /\ spawned' = Relay(n, relay, {e}) \/ spawned' = spawned
         /\ \/ Answer(e, done, <<ask>>)
            \/ Answer(e, sync, <<RequestChain(n)>>)
            \/ Answer(e, drop, <<>>)
            \/ Answer(e, done, <<>>)
  BY ZenonT(60) DEF PushLiteBlock
<1>5. need \in SUBSET Txs
  <2>1. TxsOf[b] \in SUBSET Txs BY ProtocolAssumption
  <2> QED BY Zenon, <2>1
<1>6. NoLite \in [block : Blocks, height : Nat, missed : SUBSET Txs]
  BY ProtocolAssumption DEF NoLite
<1> HIDE DEF n, need
<1>7. /\ done \in Context /\ done.state = "normal"
      /\ done.needed = c.needed /\ done.requested = c.requested
  BY <1>6 DEF Context
<1>8. /\ wait \in Context /\ wait.state = "normal"
      /\ wait.needed = c.needed /\ wait.requested = c.requested
  <2> DEFINE lite == [block |-> b, height |-> h, missed |-> need]
  <2>1. lite \in [block : Blocks, height : Nat, missed : SUBSET Txs] BY <1>5
  <2>2. wait = [c EXCEPT !.pending = lite] OBVIOUS
  <2> HIDE DEF lite, wait
  <2> QED BY <2>1, <2>2 DEF Context
<1> HIDE DEF done
<1>9. /\ drop \in Context /\ drop.state = "shutdown"
      /\ drop.needed = c.needed /\ drop.requested = c.requested
      /\ sync \in Context /\ sync.state = "synchronizing"
  BY <1>7 DEF Context, States
<1>10. /\ <<>> \in Seq(Messages) /\ ~Has(<<>>, Shakes) /\ ~Has(<<>>, Asks) /\ ~Has(<<>>, Answers)
  BY Zenon, QueueShort
<1>11. missing \in Messages /\ missing.type = "missingTxs" BY <1>5 DEF Messages
<1>12. /\ CoreAfter(n, b) \in [Nodes -> [known : SUBSET Blocks, tip : Blocks]]
       /\ \A m \in Nodes : CoreAfter(n, b)[m].tip \in CoreAfter(n, b)[m].known
       /\ PoolAfter(n, b) \in [Nodes -> SUBSET Txs]
  BY Zenon, <1>1, <1>3, AddedTypes
<1>13. ask \in Messages /\ ask.type = "requestPool"
  <2>1. PoolAfter(n, b)[n] \in SUBSET Txs BY <1>3, <1>12
  <2> QED BY <2>1 DEF Messages
<1>14. "missingTxs" \notin Shakes \cup Asks \cup Answers /\ "requestPool" \notin Shakes \cup Asks \cup Answers
  BY DEF Shakes, Asks, Answers
<1> HIDE DEF missing, ask, drop, wait, sync
<1>15. ASSUME NEW x \in {missing, ask}
       PROVE  <<x>> \in Seq(Messages) /\ ~Has(<<x>>, Shakes) /\ ~Has(<<x>>, Asks) /\ ~Has(<<x>>, Answers)
  <2>1. x \in Messages /\ x.type \notin Shakes /\ x.type \notin Asks /\ x.type \notin Answers
    BY <1>11, <1>13, <1>14
  <2> QED BY Zenon, <2>1, QueueShort
<1>16. Handles(e, ty, drop, <<>>) BY <1>2, <1>9, <1>10, PlainAnswer
<1>17. Handles(e, ty, done, <<>>) BY <1>2, <1>7, <1>10, PlainAnswer
<1>18. Handles(e, ty, wait, <<missing>>) BY <1>2, <1>8, <1>15, PlainAnswer
<1>19. Handles(e, ty, done, <<ask>>) BY <1>2, <1>7, <1>15, PlainAnswer
<1>20. Handles(e, ty, sync, <<RequestChain(n)>>)
  <2> DEFINE x == RequestChain(n)
  <2>1. x \in Messages /\ x.type = "requestChain" BY <1>1, <1>3, OwnMessages
  <2>2. x.type \notin Shakes /\ x.type \notin Answers BY <2>1 DEF Shakes, Answers
  <2> HIDE DEF x
  <2>3. <<x>> \in Seq(Messages) /\ ~Has(<<x>>, Shakes) /\ ~Has(<<x>>, Answers) /\ AtMostOne(<<x>>, Asks)
    BY Zenon, <2>1, <2>2, QueueShort
  <2>4. Handles(e, ty, sync, <<x>>) BY <1>2, <1>9, <2>3 DEF Handles
  <2> QED BY <2>4 DEF x
<1>21. UNCHANGED <<core, pool, spawned>> => Stored BY <1>1, StoredKept
<1>22. /\ core' = CoreAfter(n, b) /\ pool' = PoolAfter(n, b)
       /\ spawned' = Relay(n, relay, {e}) \/ spawned' = spawned
       => Stored
  <2>1. relay \in Announcements BY DEF Announcements
  <2> HIDE DEF relay
  <2>2. Relay(n, relay, {e}) \in [Nodes -> Seq([msg : Announcements, skip : SUBSET Ends])]
    BY <1>1, <1>3, <2>1, RelayType
  <2>3. spawned \in [Nodes -> Seq([msg : Announcements, skip : SUBSET Ends])] BY <1>1 DEF Types
  <2> QED BY Zenon, <1>12, <2>2, <2>3 DEF Stored
<1> HIDE DEF relay
<1> QED BY Zenon, <1>4, <1>16, <1>17, <1>18, <1>19, <1>20, <1>21, <1>22

\* handle_notify_new_lite_block.
LEMMA LiteBlockKeeps ==
    ASSUME IInv, NEW e \in Ends, HandleLiteBlock(e)
    PROVE  IInv'
<1> DEFINE ty == "liteBlock"
           msg == Head(net[Rev(e)])
           c == [ctx[e] EXCEPT !.remote = msg.height]
           s == Observed(e, c.state, msg.height)
<1>1. /\ Gets(e, ty) /\ UNCHANGED <<job, breaks>> /\ seen' = [seen EXCEPT ![e[1]] = s]
      /\ \/ c.state = "normal" /\ PushLiteBlock(e, c, msg.block, msg.height, {})
         \/ Answer(e, c, <<>>) /\ UNCHANGED <<core, pool, spawned>>
  BY Zenon DEF HandleLiteBlock
<1>2. Types BY DEF IInv
<1>3. ty # "eof" /\ ty \notin Shakes /\ ty \in {"liteBlock", "newTxs"} BY DEF Shakes
<1>4. e[1] \in Nodes /\ msg \in Messages /\ msg.type = ty /\ ctx[e] \in Context
  BY <1>1, <1>3, Received
<1>5. msg.height \in Nat /\ msg.block \in Blocks
  <2> HIDE DEF msg
  <2> QED BY <1>4, MessageFields
<1> HIDE DEF msg
<1>6. /\ c \in Context /\ c.state = ctx[e].state
      /\ c.needed = ctx[e].needed /\ c.requested = ctx[e].requested
  BY <1>4, <1>5 DEF Context
<1>7. s \in Seen /\ s.peers = seen[e[1]].peers BY Zenon, <1>2, <1>5, ObservedType
<1> HIDE DEF c, s, ty
<1>8. Stored /\ \E d, out : Handles(e, ty, d, out) /\ Answer(e, d, out)
  <2>1. CASE c.state = "normal" /\ PushLiteBlock(e, c, msg.block, msg.height, {})
    <3>1. ctx[e].state = "normal" BY <1>6, <2>1
    <3> QED BY Zenon, <1>1, <1>3, <1>5, <1>6, <2>1, <3>1, PushLiteBlockHandles
  <2>2. CASE Answer(e, c, <<>>) /\ UNCHANGED <<core, pool, spawned>>
    <3>1. /\ <<>> \in Seq(Messages) /\ ~Has(<<>>, Shakes) /\ ~Has(<<>>, Asks) /\ ~Has(<<>>, Answers)
      BY Zenon, QueueShort
    <3>2. c.state \in {ctx[e].state, "shutdown"} BY <1>6
    <3>3. Handles(e, ty, c, <<>>) BY Zenon, <1>1, <1>3, <1>6, <3>1, <3>2, PlainAnswer
    <3>4. Stored BY <1>2, <2>2, StoredKept
    <3> QED BY Zenon, <2>2, <3>3, <3>4
  <2> QED BY Zenon, <1>1, <2>1, <2>2
<1>9. PICK d, out : Handles(e, ty, d, out) /\ Answer(e, d, out) BY Zenon, <1>8
<1>10. Rest(e, ty)
  <2>1. seen[e[1]].peers \in Int BY <1>2, <1>4 DEF Types
  <2>2. s.peers = seen[e[1]].peers + IF ty \in Shakes THEN 1 ELSE 0 BY <1>3, <1>7, <2>1
  <2> QED BY <1>1, <1>2, <1>7, <1>8, <2>2, RestOf
<1>11. Batch(e, ty, d, out, job[e]) BY <1>1, <1>3, NoBatch
<1> QED BY Zenon, <1>1, <1>3, <1>9, <1>10, <1>11, HandlerKeeps

\* handle_notify_new_transactions.
LEMMA NewTxsKeeps ==
    ASSUME IInv, NEW e \in Ends, HandleNewTxs(e)
    PROVE  IInv'
<1> DEFINE ty == "newTxs"
           n == e[1]
           c == ctx[e]
           txs == Head(net[Rev(e)]).txs
           good == {t \in txs : AddsToPool(n, t)}
           relay == [type |-> "newTxs", txs |-> good]
<1>1. /\ Gets(e, ty) /\ UNCHANGED <<job, seen, breaks>>
      /\ \/ Answer(e, c, <<>>) /\ UNCHANGED <<core, pool, spawned>>
         \/ c.state = "normal" /\ PushLiteBlock(e, c, c.pending.block, c.pending.height, txs)
         \/ /\ pool' = [pool EXCEPT ![n] = @ \cup good]
            /\ spawned' = spawned \/ spawned' = Relay(n, relay, {e})
            /\ Answer(e, c, <<>>) /\ UNCHANGED core
  BY Zenon DEF HandleNewTxs
<1>2. Types BY DEF IInv
<1>3. ty # "eof" /\ ty \notin Shakes /\ ty \in {"liteBlock", "newTxs"} BY DEF Shakes
<1>4. n \in Nodes /\ Head(net[Rev(e)]) \in Messages /\ Head(net[Rev(e)]).type = ty /\ c \in Context
  BY <1>1, <1>3, Received
<1>5. txs \in SUBSET Txs BY <1>4, MessageFields
<1>6. c.pending.block \in Blocks /\ c.pending.height \in Nat BY <1>4 DEF Context
<1>7. Handles(e, ty, c, <<>>)
  <2>1. /\ <<>> \in Seq(Messages) /\ ~Has(<<>>, Shakes) /\ ~Has(<<>>, Asks) /\ ~Has(<<>>, Answers)
    BY Zenon, QueueShort
  <2> QED BY <1>1, <1>3, <1>4, <2>1, PlainAnswer
<1> HIDE DEF txs, ty
<1>8. Stored /\ \E d, out : Handles(e, ty, d, out) /\ Answer(e, d, out)
  <2>1. CASE Answer(e, c, <<>>) /\ UNCHANGED <<core, pool, spawned>>
    BY Zenon, <1>2, <1>7, <2>1, StoredKept
  <2>2. CASE c.state = "normal" /\ PushLiteBlock(e, c, c.pending.block, c.pending.height, txs)
    BY Zenon, <1>1, <1>3, <1>4, <1>6, <2>2, PushLiteBlockHandles
  <2>3. CASE /\ pool' = [pool EXCEPT ![n] = @ \cup good]
             /\ spawned' = spawned \/ spawned' = Relay(n, relay, {e})
             /\ Answer(e, c, <<>>) /\ UNCHANGED core
    <3>1. good \in SUBSET Txs BY Zenon, <1>5
    <3> HIDE DEF good
    <3>2. relay \in Announcements BY <3>1 DEF Announcements
    <3> HIDE DEF relay, n
    <3>3. Relay(n, relay, {e}) \in [Nodes -> Seq([msg : Announcements, skip : SUBSET Ends])]
      BY <1>2, <1>4, <3>2, RelayType
    <3>4. spawned' \in [Nodes -> Seq([msg : Announcements, skip : SUBSET Ends])]
      BY Zenon, <1>2, <2>3, <3>3 DEF Types
    <3>5. pool' \in [Nodes -> SUBSET Txs] BY <1>2, <1>4, <2>3, <3>1 DEF Types
    <3>6. Stored BY Zenon, <1>2, <2>3, <3>4, <3>5 DEF Stored, Types
    <3> QED BY Zenon, <1>7, <2>3, <3>6
  <2> QED BY Zenon, <1>1, <2>1, <2>2, <2>3
<1>9. PICK d, out : Handles(e, ty, d, out) /\ Answer(e, d, out) BY Zenon, <1>8
<1>10. Rest(e, ty) BY <1>1, <1>2, <1>3, <1>8, RestQuiet
<1>11. Batch(e, ty, d, out, job[e]) BY <1>1, <1>3, NoBatch
<1> QED BY Zenon, <1>1, <1>3, <1>9, <1>10, <1>11, HandlerKeeps
-----------------------------------------------------------------------------
(* The other steps of a connection *)

(* What an end may do when it leaves the start of its loop or a batch: go on
   with context c and write out; the reply of a handshake comes first *)
Writes(e, c, out) ==
    /\ c \in Context /\ out \in Seq(Messages)
    /\ ctx[e].state \in {"sync_required", "pool_sync_required", "synchronizing"}
    /\ c.state \in {"synchronizing", "normal", "idle", "shutdown"}
    /\ ~Has(out, Answers) /\ AtMostOne(out, Asks) /\ ~Has(out, {"handshake"})
    /\ Has(out, Asks) => c.state \in {"synchronizing", "shutdown"}
    /\ \/ ~Has(out, Shakes) /\ (e \in Dialed \/ ctx[e].state = "synchronizing")
       \/ /\ e \notin Dialed /\ ctx[e].state \in Start
          /\ out # <<>> /\ Head(out).type \in Shakes /\ AtMostOne(out, Shakes)
    /\ c.state \notin {"synchronizing", "shutdown"} => c.needed = <<>> /\ c.requested = {}
    /\ ~Has(net[e], Asks) /\ ~Has(net[Rev(e)], Answers)

\* Writing as Writes says keeps the control of the connections.
LEMMA WriteControl ==
    ASSUME Types, Control, NEW e \in Ends, NEW c, NEW out, Writes(e, c, out),
           ctx' = [ctx EXCEPT ![e] = c],
           net' = [net EXCEPT ![e] = @ \o Send(e, out)],
           ~job'[e].on, \A f \in Ends : f # e => job'[f] = job[f]
    PROVE  /\ Control'
           /\ ctx' \in [Ends -> Context] /\ net' \in [Ends -> Seq(Messages)]
           /\ \A f \in Ends : ctx'[f].state \in Out <=> ctx[f].state \in Out
<1> DEFINE r == Rev(e)
           sent == IF ctx[r].state = "closed" THEN <<>> ELSE out
           own == net[e]
<1>1. r \in Ends /\ r # e /\ Rev(r) = e /\ (e \in Dialed <=> r \notin Dialed) BY EndFacts
<1>2. c \in Context /\ out \in Seq(Messages) BY DEF Writes
<1>3. ctx \in [Ends -> Context] /\ net \in [Ends -> Seq(Messages)] BY DEF Types
<1>4. own \in Seq(Messages) /\ sent \in Seq(Messages) /\ net[r] \in Seq(Messages)
  BY <1>1, <1>2, <1>3, QueueShort
<1>5. /\ ctx' \in [Ends -> Context] /\ ctx'[e] = c /\ ctx'[r] = ctx[r]
      /\ \A f \in Ends : f # e => ctx'[f] = ctx[f]
  BY <1>1, <1>2, <1>3
<1>6. Send(e, out) = sent BY Zenon DEF Send, Live
<1>7. ctx[r].state = "closed" => sent = <<>> OBVIOUS
<1>8. ctx[r].state # "closed" => sent = out BY Zenon
<1>9. \A T : Has(sent, T) => Has(out, T) BY QueueShort
<1>10. \A T : AtMostOne(out, T) => AtMostOne(sent, T) BY QueueShort
<1> HIDE DEF sent, r
<1>11. own \o sent \in Seq(Messages) BY <1>4, QueueConcat
<1>12. /\ net' \in [Ends -> Seq(Messages)] /\ net'[e] = own \o sent /\ net'[r] = net[r]
       /\ \A f \in Ends : f # e => net'[f] = net[f]
  BY <1>1, <1>3, <1>6, <1>11
<1> HIDE DEF own
<1>13. ASSUME NEW T
       PROVE  /\ Has(net'[e], T) <=> Has(own, T) \/ Has(sent, T)
              /\ AtMostOne(own, T) /\ ~Has(sent, T) => AtMostOne(net'[e], T)
              /\ ~Has(own, T) /\ AtMostOne(sent, T) => AtMostOne(net'[e], T)
  <2>1. /\ Has(own \o sent, T) <=> Has(own, T) \/ Has(sent, T)
        /\ AtMostOne(own, T) /\ ~Has(sent, T) => AtMostOne(own \o sent, T)
        /\ ~Has(own, T) /\ AtMostOne(sent, T) => AtMostOne(own \o sent, T)
    BY Zenon, <1>4, QueueConcat
  <2> QED BY Zenon, <1>12, <2>1
<1>14. /\ own # <<>> => net'[e] # <<>> /\ Head(net'[e]) = Head(own)
       /\ own = <<>> => net'[e] = sent
  <2>1. /\ own # <<>> => own \o sent # <<>> /\ Head(own \o sent) = Head(own)
        /\ own = <<>> => own \o sent = sent
    BY Zenon, <1>4, QueueConcat
  <2> QED BY <1>12, <2>1
<1>15. /\ Handshaken(e) /\ OneRequest(e) /\ ListsEmpty(e)
       /\ Handshaken(r) /\ OneRequest(r) /\ ListsEmpty(r) /\ Greeted(e) /\ Greeted(r)
  BY Zenon, <1>1 DEF Control
<1>16. /\ ctx[e].state \in {"sync_required", "pool_sync_required", "synchronizing"}
       /\ c.state \in {"synchronizing", "normal", "idle", "shutdown"}
       /\ ~Has(out, Answers) /\ AtMostOne(out, Asks)
       /\ Has(out, Asks) => c.state \in {"synchronizing", "shutdown"}
       /\ c.state \notin {"synchronizing", "shutdown"} => c.needed = <<>> /\ c.requested = {}
       /\ ~Has(own, Asks) /\ ~Has(net[r], Answers)
  BY Zenon DEF Writes, r, own
<1>17. Handshaken(e)'
  <2>1. ~Has(net[r], Shakes) BY <1>15, <1>16 DEF Handshaken, r
  <2>2. c.state # "closed" /\ c.state # "befor_handshake" /\ c.state \notin Start
    BY <1>16 DEF Start
  <2> QED BY Zenon, <1>5, <1>12, <2>1, <2>2 DEF Handshaken, r
<1>18. OneRequest(e)'
  <2>1. c.state \notin {"synchronizing", "shutdown", "closed"} =>
           ~Has(net'[e], Asks) /\ ~Has(net'[r], Answers)
    BY Zenon, <1>9, <1>12, <1>13, <1>16
  <2>2. AtMostOne(net'[e], Asks) BY Zenon, <1>10, <1>13, <1>16
  <2>3. ~Has(net'[r], Answers) BY Zenon, <1>12, <1>16
  <2>4. AtMostOne(net'[r], Answers) BY Zenon, <2>3, QueueShort
  <2> QED BY Zenon, <1>5, <2>1, <2>2, <2>3, <2>4 DEF OneRequest, r
<1>19. ListsEmpty(e)' BY Zenon, <1>5, <1>16 DEF ListsEmpty
<1>20. Handshaken(r)'
  <2>1. CASE ~Has(out, Shakes) /\ (e \in Dialed \/ ctx[e].state = "synchronizing")
    <3>1. /\ Has(net'[e], Shakes) => Has(own, Shakes)
          /\ AtMostOne(own, Shakes) => AtMostOne(net'[e], Shakes)
      BY Zenon, <1>9, <1>13, <2>1
    <3>2. Has(net'[e], Shakes) => ctx[r].state = "befor_handshake" /\ AtMostOne(net'[e], Shakes)
      BY Zenon, <1>1, <1>15, <3>1 DEF Handshaken, own
    <3>3. ctx[r].state = "closed" => net'[e] = <<>>
      BY Zenon, <1>1, <1>7, <1>14, <1>15 DEF Handshaken, own
    <3>4. ctx[r].state = "befor_handshake" =>
            net'[e] # <<>> /\ Head(net'[e]).type \in Shakes \cup {"eof"}
      <4>1. ctx[r].state = "befor_handshake" =>
              \/ own # <<>> /\ Head(own).type \in Shakes \cup {"eof"}
              \/ own = <<>> /\ r \in Dialed /\ ctx[e].state \in Start \cup {"shutdown"}
        BY Zenon, <1>1, <1>15 DEF Handshaken, own
      <4>2. ~(r \in Dialed /\ ctx[e].state \in Start \cup {"shutdown"})
        BY <1>1, <1>16, <2>1 DEF Start
      <4> QED BY Zenon, <1>14, <4>1, <4>2
    <3>5. ~(r \notin Dialed /\ ctx[r].state \in Start)
      <4>1. r \notin Dialed /\ ctx[r].state \in Start =>
               ctx[e].state = "closed" \/ ctx[e].state = "befor_handshake"
        BY Zenon, <1>1, <1>15 DEF Handshaken
      <4> QED BY <1>16, <4>1
    <3> QED BY Zenon, <1>1, <1>5, <1>12, <3>2, <3>3, <3>4, <3>5 DEF Handshaken
  <2>2. CASE /\ e \notin Dialed /\ ctx[e].state \in Start
             /\ out # <<>> /\ Head(out).type \in Shakes /\ AtMostOne(out, Shakes)
    <3>1. \/ ctx[r].state = "closed"
          \/ ctx[r].state = "befor_handshake" /\ own = <<>>
      BY Zenon, <1>15, <2>2 DEF Handshaken, own, r
    <3>2. r \in Dialed BY <1>1, <2>2
    <3>3. CASE ctx[r].state = "closed"
      <4>1. own = <<>> BY Zenon, <1>1, <1>15, <3>3 DEF Handshaken, own
      <4>2. net'[e] = <<>> BY <1>7, <1>14, <3>3, <4>1
      <4>3. ~Has(<<>>, Shakes) BY Zenon, QueueShort
      <4>4. ctx[r].state # "befor_handshake" BY <3>3
      <4> QED BY Zenon, <1>1, <1>5, <3>2, <4>2, <4>3, <4>4 DEF Handshaken
    <3>4. CASE ctx[r].state = "befor_handshake" /\ own = <<>>
      <4>1. ctx[r].state # "closed" BY <3>4
      <4>2. net'[e] = out BY <1>8, <1>14, <3>4, <4>1
      <4> QED BY Zenon, <1>1, <1>5, <2>2, <3>2, <3>4, <4>1, <4>2 DEF Handshaken
    <3> QED BY Zenon, <3>1, <3>3, <3>4
  <2> QED BY Zenon, <2>1, <2>2 DEF Writes
<1>21. OneRequest(r)'
  <2>1. /\ Has(net'[e], Answers) => Has(own, Answers)
        /\ AtMostOne(own, Answers) => AtMostOne(net'[e], Answers)
    BY Zenon, <1>9, <1>13, <1>16
  <2>2. job'[r] = job[r] BY <1>1
  <2> QED BY Zenon, <1>1, <1>5, <1>12, <1>15, <2>1, <2>2 DEF OneRequest, own
<1>22. ListsEmpty(r)' BY Zenon, <1>5, <1>15 DEF ListsEmpty
<1>23. OthersKept(e) BY Zenon, <1>5, <1>12 DEF OthersKept, r
<1>24. Greeted(e)' /\ Greeted(r)'
  <2>1. ~Has(out, {"handshake"}) BY DEF Writes
  <2>2. Has(net'[e], {"handshake"}) => Has(own, {"handshake"}) BY Zenon, <1>9, <1>13, <2>1
  <2>3. Greeted(e)' BY Zenon, <1>12, <1>15 DEF Greeted, r
  <2>4. Greeted(r)' BY Zenon, <1>1, <1>15, <2>2 DEF Greeted, own
  <2> QED BY <2>3, <2>4
<1>25. ConnectionOK(e)' /\ ConnectionOK(r)'
  BY Zenon, <1>17, <1>18, <1>19, <1>20, <1>21, <1>22, <1>24 DEF ConnectionOK
<1>26. Control' BY Zenon, <1>23, <1>25, OneConnection DEF r
<1>27. ctx[e].state \notin Out /\ c.state \notin Out BY <1>16 DEF Out
<1> QED BY Zenon, <1>5, <1>12, <1>26, <1>27

\* A step that leaves the connections alone.
LEMMA SameControl ==
    ASSUME Control, UNCHANGED <<ctx, net>>, \A f \in Ends : job'[f].on = job[f].on
    PROVE  Control'
BY Zenon DEF Control, Handshaken, OneRequest, ListsEmpty, Greeted

\* The steps that touch neither the counters nor the handshakes keep the rest.
LEMMA StepKeeps ==
    ASSUME IInv, Control', Stored, ctx' \in [Ends -> Context], net' \in [Ends -> Seq(Messages)],
           job' \in [Ends -> [on : BOOLEAN, left : Seq(Blocks)]],
           seen' \in [Nodes -> Seen], breaks' \in Nat,
           \A n \in Nodes : seen'[n].peers = seen[n].peers,
           \A f \in Ends : ctx'[f].state \in Out <=> ctx[f].state \in Out
    PROVE  IInv'
<1>1. PeersCounted' BY Zenon, CountKept DEF IInv
<1>2. Types' BY Zenon DEF Types, Stored, Seen
<1> QED BY <1>1, <1>2 DEF IInv

\* The reply of a handshake and the start of the loop.
LEMMA StartLoopKeeps ==
    ASSUME IInv, NEW e \in Ends, StartLoop(e)
    PROVE  IInv'
<1> DEFINE n == e[1]
           top == LoopTop(n, ctx[e])
           reply == IF e \in Dialed THEN <<>> ELSE <<SyncData("handshakeReply", n)>>
           out == reply \o top.out
<1>1. /\ ctx[e].state \in {"sync_required", "pool_sync_required"}
      /\ ctx' = [ctx EXCEPT ![e] = top.c]
      /\ net' = [net EXCEPT ![e] = @ \o Send(e, out)]
      /\ UNCHANGED <<core, pool, job, spawned, seen, breaks>>
  BY Zenon DEF StartLoop
<1>2. Types /\ Control BY DEF IInv
<1>3. n \in Nodes /\ ctx[e] \in Context BY <1>2, EndFacts DEF Types
<1>4. Handshaken(e) /\ OneRequest(e) /\ ListsEmpty(e) BY <1>2 DEF Control
<1>5. ctx[e].needed = <<>> /\ ctx[e].requested = {} BY <1>1, <1>4 DEF ListsEmpty
<1>6. ~Has(net[e], Asks) /\ ~Has(net[Rev(e)], Answers) /\ ~job[e].on
  BY <1>1, <1>4 DEF OneRequest
<1> HIDE DEF n
<1>7. /\ top.c \in Context /\ top.c.needed = <<>> /\ top.c.requested = {}
      /\ \/ top.c.state = "synchronizing" /\ top.out = <<RequestChain(n)>>
         \/ top.c.state = "normal" /\ top.out = <<RequestPool(n)>>
  BY <1>1, <1>2, <1>3, <1>5, LoopTopTypes
<1> HIDE DEF top
<1>8. /\ RequestPool(n) \in Messages /\ RequestPool(n).type = "requestPool"
      /\ RequestChain(n) \in Messages /\ RequestChain(n).type = "requestChain"
      /\ SyncData("handshakeReply", n) \in Messages /\ SyncData("handshakeReply", n).type = "handshakeReply"
  BY <1>2, <1>3, OwnMessages
<1>9. /\ top.out \in Seq(Messages) /\ ~Has(top.out, Shakes) /\ ~Has(top.out, Answers)
      /\ ~Has(top.out, {"handshake"})
      /\ AtMostOne(top.out, Asks)
      /\ Has(top.out, Asks) => top.c.state = "synchronizing"
  <2>1. PICK x \in Messages : /\ top.out = <<x>> /\ x.type \notin Shakes /\ x.type \notin Answers
                              /\ x.type \in Asks => top.c.state = "synchronizing"
                              /\ x.type \notin {"handshake"}
    <3>1. /\ RequestChain(n).type \notin Shakes /\ RequestChain(n).type \notin Answers
          /\ RequestChain(n).type \notin {"handshake"}
      BY <1>8 DEF Shakes, Answers
    <3>2. /\ RequestPool(n).type \notin Shakes /\ RequestPool(n).type \notin Answers
          /\ RequestPool(n).type \notin Asks /\ RequestPool(n).type \notin {"handshake"}
      BY <1>8 DEF Shakes, Answers, Asks
    <3> QED BY Zenon, <1>7, <1>8, <3>1, <3>2
  <2>2. /\ <<x>> \in Seq(Messages) /\ ~Has(<<x>>, Shakes) /\ ~Has(<<x>>, Answers)
        /\ AtMostOne(<<x>>, Asks) /\ ~Has(<<x>>, {"handshake"})
        /\ Has(<<x>>, Asks) => x.type \in Asks
    BY Zenon, <2>1, QueueShort
  <2> QED BY Zenon, <2>1, <2>2
<1>10. /\ reply \in Seq(Messages) /\ ~Has(reply, Answers) /\ ~Has(reply, Asks)
       /\ ~Has(reply, {"handshake"})
       /\ e \in Dialed => ~Has(reply, Shakes)
       /\ e \notin Dialed => /\ reply # <<>> /\ Head(reply).type \in Shakes
                            /\ AtMostOne(reply, Shakes)
  <2> DEFINE x == SyncData("handshakeReply", n)
  <2>1. /\ x \in Messages /\ x.type \in Shakes /\ x.type \notin Answers /\ x.type \notin Asks
        /\ x.type \notin {"handshake"}
    BY <1>8 DEF Shakes, Answers, Asks
  <2> HIDE DEF x
  <2>2. /\ <<x>> \in Seq(Messages) /\ ~Has(<<x>>, Answers) /\ ~Has(<<x>>, Asks)
        /\ AtMostOne(<<x>>, Shakes) /\ <<x>> # <<>> /\ Head(<<x>>) = x
        /\ ~Has(<<x>>, {"handshake"})
    BY Zenon, <2>1, QueueShort
  <2>3. /\ <<>> \in Seq(Messages) /\ ~Has(<<>>, Answers) /\ ~Has(<<>>, Asks) /\ ~Has(<<>>, Shakes)
        /\ ~Has(<<>>, {"handshake"})
    BY Zenon, QueueShort
  <2>4. (e \in Dialed => reply = <<>>) /\ (e \notin Dialed => reply = <<x>>) BY Zenon DEF x
  <2> HIDE DEF reply
  <2> QED BY Zenon, <2>1, <2>2, <2>3, <2>4
<1> HIDE DEF reply
<1>11. /\ out \in Seq(Messages) /\ ~Has(out, Answers) /\ AtMostOne(out, Asks)
       /\ ~Has(out, {"handshake"})
       /\ Has(out, Asks) => top.c.state = "synchronizing"
       /\ e \in Dialed => ~Has(out, Shakes)
       /\ e \notin Dialed => out # <<>> /\ Head(out).type \in Shakes /\ AtMostOne(out, Shakes)
  <2>1. /\ out \in Seq(Messages) /\ ~Has(out, Answers) /\ AtMostOne(out, Asks)
        /\ Has(out, Asks) => top.c.state = "synchronizing"
    <3>1. out \in Seq(Messages) /\ ~Has(out, Answers) BY Zenon, <1>9, <1>10, QueueConcat
    <3>2. AtMostOne(out, Asks) BY Zenon, <1>9, <1>10, QueueConcat
    <3>3. Has(out, Asks) => Has(top.out, Asks) BY Zenon, <1>9, <1>10, QueueConcat
    <3> QED BY Zenon, <1>9, <3>1, <3>2, <3>3
  <2>2. (e \in Dialed => ~Has(out, Shakes)) /\ ~Has(out, {"handshake"})
    BY Zenon, <1>9, <1>10, QueueConcat
  <2>3. e \notin Dialed => out # <<>> /\ Head(out) = Head(reply) /\ AtMostOne(out, Shakes)
    BY Zenon, <1>9, <1>10, QueueConcat
  <2> HIDE DEF out
  <2> QED BY Zenon, <1>10, <2>1, <2>2, <2>3
<1> HIDE DEF out
<1>12. Writes(e, top.c, out)
  <2>1. ctx[e].state \in Start BY <1>1 DEF Start
  <2> QED BY <1>1, <1>6, <1>7, <1>11, <2>1 DEF Writes
<1>13. ~job'[e].on /\ \A f \in Ends : f # e => job'[f] = job[f] BY <1>1, <1>6
<1>14. /\ Control' /\ ctx' \in [Ends -> Context] /\ net' \in [Ends -> Seq(Messages)]
       /\ \A f \in Ends : ctx'[f].state \in Out <=> ctx[f].state \in Out
  BY Zenon, <1>1, <1>2, <1>12, <1>13, WriteControl
<1>15. Stored BY <1>1, <1>2, StoredKept
<1>16. /\ job' \in [Ends -> [on : BOOLEAN, left : Seq(Blocks)]] /\ seen' \in [Nodes -> Seen]
       /\ breaks' \in Nat /\ \A m \in Nodes : seen'[m].peers = seen[m].peers
  BY Zenon, <1>1, <1>2 DEF Types, Seen
<1> QED BY Zenon, <1>14, <1>15, <1>16, StepKeeps

\* An import that ends leaves the other connections' imports alone.
LEMMA ImportEnds ==
    ASSUME job \in [Ends -> [on : BOOLEAN, left : Seq(Blocks)]], NEW e \in Ends,
           job' = [job EXCEPT ![e] = NoJob]
    PROVE  /\ ~job'[e].on /\ \A f \in Ends : f # e => job'[f] = job[f]
           /\ job' \in [Ends -> [on : BOOLEAN, left : Seq(Blocks)]]
BY DEF NoJob

\* processObjects: a block that is refused ends the batch and, unless it is
\* already there, drops the peer.
LEMMA ProcessObjectKeeps ==
    ASSUME IInv, NEW e \in Ends, ProcessObject(e)
    PROVE  IInv'
<1> DEFINE n == e[1]
           b == Head(job[e].left)
           res == AddResult(n, b)
           c == IF res = "ALREADY_EXISTS" THEN Idled(ctx[e]) ELSE [ctx[e] EXCEPT !.state = "shutdown"]
<1>1. /\ job[e].on /\ job[e].left # <<>> /\ core' = CoreAfter(n, b) /\ pool' = PoolAfter(n, b)
      /\ \/ job' = [job EXCEPT ![e].left = Tail(@)] /\ UNCHANGED ctx
         \/ job' = [job EXCEPT ![e] = NoJob] /\ ctx' = [ctx EXCEPT ![e] = c]
      /\ UNCHANGED <<net, spawned, seen, breaks>>
  BY Zenon DEF ProcessObject
<1>2. Types /\ Control BY DEF IInv
<1>3. n \in Nodes BY EndFacts
<1>4. /\ ctx[e] \in Context /\ job \in [Ends -> [on : BOOLEAN, left : Seq(Blocks)]]
      /\ ctx \in [Ends -> Context] /\ net \in [Ends -> Seq(Messages)]
  BY <1>2 DEF Types
<1>5. b \in Blocks /\ Tail(job[e].left) \in Seq(Blocks) BY <1>1, <1>4
<1> HIDE DEF n, b
<1>6. Stored
  <2>1. /\ CoreAfter(n, b) \in [Nodes -> [known : SUBSET Blocks, tip : Blocks]]
        /\ \A m \in Nodes : CoreAfter(n, b)[m].tip \in CoreAfter(n, b)[m].known
        /\ PoolAfter(n, b) \in [Nodes -> SUBSET Txs]
    BY Zenon, <1>2, <1>3, <1>5, AddedTypes
  <2> QED BY Zenon, <1>1, <1>2, <2>1 DEF Stored, Types
<1>7. /\ seen' \in [Nodes -> Seen]
      /\ breaks' \in Nat /\ \A m \in Nodes : seen'[m].peers = seen[m].peers
  BY Zenon, <1>1, <1>2 DEF Types, Seen
<1>8. CASE job' = [job EXCEPT ![e].left = Tail(@)] /\ UNCHANGED ctx
  <2>1. \A f \in Ends : job'[f].on = job[f].on BY <1>4, <1>8
  <2>2. UNCHANGED <<ctx, net>> BY <1>1, <1>8
  <2>3. Control' BY Zenon, <1>2, <2>1, <2>2, SameControl
  <2>4. job' \in [Ends -> [on : BOOLEAN, left : Seq(Blocks)]] BY <1>4, <1>5, <1>8
  <2>5. /\ ctx' \in [Ends -> Context] /\ net' \in [Ends -> Seq(Messages)]
        /\ \A f \in Ends : ctx'[f].state \in Out <=> ctx[f].state \in Out
    BY Zenon, <1>4, <2>2
  <2> QED BY Zenon, <1>6, <1>7, <2>3, <2>4, <2>5, StepKeeps
<1>9. CASE job' = [job EXCEPT ![e] = NoJob] /\ ctx' = [ctx EXCEPT ![e] = c]
  <2>1. OneRequest(e) BY <1>2 DEF Control
  <2>2. ctx[e].state = "synchronizing" /\ ~Has(net[e], Asks) /\ ~Has(net[Rev(e)], Answers)
    BY Zenon, <1>1, <2>1 DEF OneRequest
  <2>3. /\ c \in Context /\ c.state \in {"idle", "shutdown"}
        /\ c.state = "idle" => c.needed = <<>> /\ c.requested = {}
    <3>1. CASE res = "ALREADY_EXISTS"
      <4>1. c = Idled(ctx[e]) BY Zenon, <3>1
      <4> HIDE DEF c
      <4> QED BY <1>4, <4>1, IdledType
    <3>2. CASE res # "ALREADY_EXISTS"
      <4>1. c = [ctx[e] EXCEPT !.state = "shutdown"] BY Zenon, <3>2
      <4> HIDE DEF c
      <4> QED BY <1>4, <4>1 DEF Context, States
    <3> QED BY <3>1, <3>2
  <2> HIDE DEF c
  <2>4. /\ <<>> \in Seq(Messages) /\ ~Has(<<>>, Answers) /\ ~Has(<<>>, Asks) /\ ~Has(<<>>, Shakes)
        /\ AtMostOne(<<>>, Asks) /\ ~Has(<<>>, {"handshake"})
    BY Zenon, QueueShort
  <2>5. Writes(e, c, <<>>) BY <2>2, <2>3, <2>4 DEF Writes
  <2>6. net' = [net EXCEPT ![e] = @ \o Send(e, <<>>)]
    <3>1. Send(e, <<>>) = <<>> BY Zenon DEF Send
    <3>2. net[e] \in Seq(Messages) BY <1>4
    <3>3. net[e] \o <<>> = net[e] BY Zenon, <2>4, <3>2, QueueConcat
    <3>4. net = [net EXCEPT ![e] = net[e]] BY <1>4
    <3> QED BY Zenon, <1>1, <3>1, <3>3, <3>4
  <2>7. /\ ~job'[e].on /\ \A f \in Ends : f # e => job'[f] = job[f]
        /\ job' \in [Ends -> [on : BOOLEAN, left : Seq(Blocks)]]
    BY Zenon, <1>4, <1>9, ImportEnds
  <2>8. /\ Control' /\ ctx' \in [Ends -> Context] /\ net' \in [Ends -> Seq(Messages)]
        /\ \A f \in Ends : ctx'[f].state \in Out <=> ctx[f].state \in Out
    BY Zenon, <1>2, <1>9, <2>5, <2>6, <2>7, WriteControl
  <2> QED BY Zenon, <1>6, <1>7, <2>7, <2>8, StepKeeps
<1> QED BY Zenon, <1>1, <1>8, <1>9

\* The end of handle_response_get_objects.
LEMMA FinishObjectsKeeps ==
    ASSUME IInv, NEW e \in Ends, FinishObjects(e)
    PROVE  IInv'
<1> DEFINE n == e[1]
           r == RequestMissingObjects(n, ctx[e], core[n].known)
           s == Synced(seen[n], ctx[e], r.c)
<1>1. Types /\ Control BY DEF IInv
<1>2. OneRequest(e) BY <1>1 DEF Control
<1>3. /\ job[e].on /\ ctx[e].state = "synchronizing"
      /\ ~Has(net[e], Asks) /\ ~Has(net[Rev(e)], Answers)
  BY Zenon, <1>2 DEF FinishObjects, OneRequest
<1>4. /\ job' = [job EXCEPT ![e] = NoJob]
      /\ ctx' = [ctx EXCEPT ![e] = r.c] /\ net' = [net EXCEPT ![e] = @ \o Send(e, r.out)]
      /\ seen' = [seen EXCEPT ![n] = s] /\ UNCHANGED <<core, pool, spawned, breaks>>
  BY Zenon, <1>3 DEF FinishObjects
<1>5. n \in Nodes BY EndFacts
<1>6. /\ ctx[e] \in Context /\ job \in [Ends -> [on : BOOLEAN, left : Seq(Blocks)]]
      /\ seen \in [Nodes -> Seen] /\ seen[n] \in Seen /\ breaks \in Nat
  BY <1>1, <1>5 DEF Types, Seen
<1>7. AsksMore(ctx[e], r) BY <1>1, <1>5, <1>6, RequestMissing
<1> HIDE DEF r, n
<1>8. s \in Seen /\ s.peers = seen[n].peers BY <1>6, SyncedType
<1> HIDE DEF s
<1>9. Writes(e, r.c, r.out)
  <2>1. ~Has(r.out, Shakes) => ~Has(r.out, {"handshake"}) BY DEF Has, Shakes
  <2> QED BY <1>3, <1>7, <2>1 DEF Writes, AsksMore
<1>10. /\ ~job'[e].on /\ \A f \in Ends : f # e => job'[f] = job[f]
       /\ job' \in [Ends -> [on : BOOLEAN, left : Seq(Blocks)]]
  BY Zenon, <1>4, <1>6, ImportEnds
<1>11. /\ Control' /\ ctx' \in [Ends -> Context] /\ net' \in [Ends -> Seq(Messages)]
       /\ \A f \in Ends : ctx'[f].state \in Out <=> ctx[f].state \in Out
  BY Zenon, <1>1, <1>4, <1>9, <1>10, WriteControl
<1>12. Stored BY <1>1, <1>4, StoredKept
<1>13. /\ seen' \in [Nodes -> Seen] /\ breaks' \in Nat
       /\ \A m \in Nodes : seen'[m].peers = seen[m].peers
  BY <1>4, <1>5, <1>6, <1>8
<1> QED BY Zenon, <1>10, <1>11, <1>12, <1>13, StepKeeps

\* The context of a connection that is not there.
LEMMA ClosedContext ==
    Closed \in Context /\ Closed.state = "closed" /\ Closed.needed = <<>> /\ Closed.requested = {}
<1> DEFINE none == <<>>
<1>1. none \in Seq(Blocks) OBVIOUS
<1>2. NoLite \in [block : Blocks, height : Nat, missed : SUBSET Txs]
  BY ProtocolAssumption DEF NoLite
<1>3. Closed = [state |-> "closed", remote |-> 0, last |-> 0, needed |-> none,
                requested |-> {}, pending |-> NoLite]
  BY DEF Closed
<1>4. Closed.state = "closed" /\ Closed.needed = none /\ Closed.requested = {} BY <1>3
<1>5. Closed \in Context
  <2> HIDE DEF none
  <2> QED BY <1>1, <1>2, <1>3 DEF Context, States
<1> QED BY <1>4, <1>5

\* The end of a connection: what is left to read ends with eof.
LEMMA DisconnectControl ==
    ASSUME Types, Control, NEW e \in Ends, Live(e), ~job[e].on, Disconnect(e), UNCHANGED job
    PROVE  /\ Control'
           /\ ctx' \in [Ends -> Context] /\ net' \in [Ends -> Seq(Messages)]
           /\ ctx'[e].state = "closed" /\ \A f \in Ends : f # e => ctx'[f] = ctx[f]
<1> DEFINE r == Rev(e)
<1>1. PICK sent \in {net[e], <<>>} :
         net' = [net EXCEPT ![e] = Send(e, Append(sent, Eof)), ![r] = <<>>]
  BY Zenon DEF Disconnect
<1>2. ctx' = [ctx EXCEPT ![e] = Closed] BY Zenon DEF Disconnect
<1>3. r \in Ends /\ r # e /\ Rev(r) = e /\ (e \in Dialed <=> r \notin Dialed) BY EndFacts
<1>5. ctx \in [Ends -> Context] /\ net \in [Ends -> Seq(Messages)] BY DEF Types
<1>6. net[e] \in Seq(Messages) /\ sent \in Seq(Messages)
  <2>1. net[e] \in Seq(Messages) BY <1>5
  <2>2. <<>> \in Seq(Messages) BY Zenon, QueueShort
  <2>3. sent = net[e] \/ sent = <<>> BY Zenon, <1>1
  <2> QED BY Zenon, <2>1, <2>2, <2>3
<1>7. Closed \in Context /\ Closed.state = "closed" /\ Closed.needed = <<>> /\ Closed.requested = {}
  BY Zenon, ClosedContext
<1> DEFINE last == IF ctx[r].state = "closed" THEN <<>> ELSE sent \o <<Eof>>
<1>8. Eof \in Messages /\ Eof.type = "eof" BY DEF Eof, Messages
<1>9. Send(e, Append(sent, Eof)) = last
  <2>1. Append(sent, Eof) = sent \o <<Eof>> BY <1>6, <1>8
  <2> QED BY Zenon, <2>1 DEF Send, Live
<1>10. /\ <<Eof>> \in Seq(Messages) /\ <<Eof>> # <<>> /\ Head(<<Eof>>) = Eof
       /\ ~Has(<<Eof>>, Shakes) /\ ~Has(<<Eof>>, Answers) /\ ~Has(<<Eof>>, {"handshake"})
  <2>1. Eof.type \notin Shakes /\ Eof.type \notin Answers /\ Eof.type \notin {"handshake"}
    BY <1>8 DEF Shakes, Answers
  <2> QED BY Zenon, <1>8, <2>1, QueueShort
<1>11. /\ <<>> \in Seq(Messages) /\ ~Has(<<>>, Shakes) /\ ~Has(<<>>, Answers) /\ ~Has(<<>>, Asks)
       /\ AtMostOne(<<>>, Answers) /\ AtMostOne(<<>>, Asks) /\ AtMostOne(<<>>, Shakes)
       /\ ~Has(<<>>, {"handshake"}) /\ AtMostOne(<<>>, {"handshake"})
  BY Zenon, QueueShort
<1>12. /\ sent \o <<Eof>> \in Seq(Messages)
       /\ sent # <<>> => sent \o <<Eof>> # <<>> /\ Head(sent \o <<Eof>>) = Head(sent)
       /\ sent = <<>> => sent \o <<Eof>> = <<Eof>>
  BY Zenon, <1>6, <1>10, QueueConcat
<1>13. ASSUME NEW T \in {Shakes, Answers, {"handshake"}}
       PROVE  /\ Has(last, T) => Has(net[e], T)
              /\ AtMostOne(net[e], T) => AtMostOne(last, T)
  <2>1. ~Has(<<Eof>>, T) /\ ~Has(<<>>, T) /\ AtMostOne(<<>>, T) BY <1>10, <1>11
  <2>2. /\ Has(sent \o <<Eof>>, T) => Has(sent, T)
        /\ AtMostOne(sent, T) => AtMostOne(sent \o <<Eof>>, T)
    BY Zenon, <1>6, <1>10, <2>1, QueueConcat
  <2>3. sent = net[e] \/ sent = <<>> BY <1>1
  <2>4. last = <<>> \/ last = sent \o <<Eof>> OBVIOUS
  <2> HIDE DEF last
  <2> QED BY Zenon, <2>1, <2>2, <2>3, <2>4
<1>14. /\ ctx[r].state = "closed" => last = <<>>
       /\ ctx[r].state # "closed" => last = sent \o <<Eof>>
  BY Zenon
<1>15. last \in Seq(Messages) BY Zenon, <1>11, <1>12
<1> HIDE DEF last, r
<1>16. net' = [net EXCEPT ![e] = last, ![r] = <<>>] BY Zenon, <1>1, <1>9
<1>17. /\ net' \in [Ends -> Seq(Messages)] /\ net'[e] = last /\ net'[r] = <<>>
       /\ \A f \in Ends : f # e /\ f # r => net'[f] = net[f]
  BY <1>3, <1>5, <1>11, <1>15, <1>16
<1>18. /\ ctx' \in [Ends -> Context] /\ ctx'[e] = Closed /\ ctx'[r] = ctx[r]
       /\ \A f \in Ends : f # e => ctx'[f] = ctx[f]
  BY <1>2, <1>3, <1>5, <1>7
<1>19. /\ Handshaken(e) /\ OneRequest(e) /\ ListsEmpty(e)
       /\ Handshaken(r) /\ OneRequest(r) /\ ListsEmpty(r) /\ Greeted(r)
  BY Zenon, <1>3 DEF Control
<1>20. ConnectionOK(e)'
  <2>1. "closed" \notin Start /\ "closed" # "befor_handshake" /\ "closed" # "synchronizing"
    BY DEF Start
  <2>2. Handshaken(e)' BY Zenon, <1>7, <1>11, <1>17, <1>18, <2>1 DEF Handshaken, r
  <2>3. OneRequest(e)' BY Zenon, <1>7, <1>17, <1>18, <2>1 DEF OneRequest
  <2>4. ListsEmpty(e)' BY Zenon, <1>7, <1>18 DEF ListsEmpty
  <2>5. Greeted(e)' BY Zenon, <1>11, <1>17 DEF Greeted, r
  <2> QED BY <2>2, <2>3, <2>4, <2>5 DEF ConnectionOK
<1>21. ConnectionOK(r)'
  <2>1. Handshaken(r)'
    <3>1. Has(last, Shakes) => ctx[r].state = "befor_handshake" /\ AtMostOne(last, Shakes)
      BY Zenon, <1>3, <1>13, <1>19 DEF Handshaken
    <3>2. ctx[r].state = "befor_handshake" =>
            last # <<>> /\ Head(last).type \in Shakes \cup {"eof"}
      <4> SUFFICES ASSUME ctx[r].state = "befor_handshake"
                   PROVE  last # <<>> /\ Head(last).type \in Shakes \cup {"eof"}
        OBVIOUS
      <4>1. last = sent \o <<Eof>> BY <1>14
      <4>2. CASE sent = <<>> BY <1>8, <1>10, <1>12, <4>1, <4>2
      <4>3. CASE sent # <<>>
        <5>1. sent = net[e] BY <1>1, <4>3
        <5>2. Head(sent).type \in Shakes \cup {"eof"}
          BY Zenon, <1>3, <1>19, <4>3, <5>1 DEF Handshaken
        <5> QED BY Zenon, <1>12, <4>1, <4>3, <5>2
      <4> QED BY <4>2, <4>3
    <3> QED BY Zenon, <1>3, <1>7, <1>14, <1>17, <1>18, <3>1, <3>2 DEF Handshaken
  <2>2. OneRequest(r)'
    <3>1. /\ Has(last, Answers) => Has(net[e], Answers)
          /\ AtMostOne(net[e], Answers) => AtMostOne(last, Answers)
      BY Zenon, <1>13
    <3>2. job' = job OBVIOUS
    <3> QED BY Zenon, <1>3, <1>11, <1>17, <1>18, <1>19, <3>1, <3>2 DEF OneRequest
  <2>3. ListsEmpty(r)' BY Zenon, <1>18, <1>19 DEF ListsEmpty
  <2>4. Greeted(r)'
    <3>1. Has(last, {"handshake"}) => Has(net[e], {"handshake"}) BY Zenon, <1>13
    <3> QED BY Zenon, <1>3, <1>17, <1>19, <3>1 DEF Greeted
  <2> QED BY <2>1, <2>2, <2>3, <2>4 DEF ConnectionOK
<1>22. Control'
  <2>1. OthersKept(e) BY Zenon, <1>17, <1>18 DEF OthersKept, r
  <2> QED BY Zenon, <1>20, <1>21, <2>1, OneConnection DEF r
<1> QED BY Zenon, <1>7, <1>17, <1>18, <1>22

\* The handshake's end at the dialer: a peer it takes is counted; a peer it
\* refuses is left uncounted, the node itself is left and stays counted.
LEMMA HandshakeReplyKeeps ==
    ASSUME IInv, NEW e \in Ends, HandleHandshakeReply(e)
    PROVE  IInv'
<1> DEFINE msg == Head(net[Rev(e)])
           s == SeenSyncData(e, msg, TRUE)
<1>1. Gets(e, "handshakeReply") /\ UNCHANGED <<core, pool, job, spawned, breaks>>
  BY Zenon DEF HandleHandshakeReply
<1>2. "handshakeReply" \in Shakes /\ "handshakeReply" # "eof" BY DEF Shakes
<1>3. Types /\ Control /\ PeersCounted BY DEF IInv
<1>4. /\ ctx[e].state = "befor_handshake" /\ msg \in Messages /\ msg.type = "handshakeReply"
      /\ e[1] \in Nodes
  BY <1>1, <1>2, Received
<1>5. Live(e) /\ ~job[e].on BY <1>1 DEF Gets
<1>6. Stored BY <1>1, <1>3, StoredKept
<1>7. /\ job' \in [Ends -> [on : BOOLEAN, left : Seq(Blocks)]] /\ breaks' \in Nat
      /\ seen \in [Nodes -> Seen] /\ \A n \in Nodes : seen[n].peers \in Int
  BY <1>1, <1>3 DEF Types, Seen
<1>8. ASSUME Disconnect(e)
      PROVE  /\ Control'
             /\ ctx' \in [Ends -> Context] /\ net' \in [Ends -> Seq(Messages)]
             /\ ctx[e].state \in Out /\ ctx'[e].state \in Out
             /\ \A f \in Ends : f # e => ctx'[f].state = ctx[f].state
  <2>1. /\ Control'
        /\ ctx' \in [Ends -> Context] /\ net' \in [Ends -> Seq(Messages)]
        /\ ctx'[e].state = "closed" /\ \A f \in Ends : f # e => ctx'[f] = ctx[f]
    BY Zenon, <1>1, <1>3, <1>5, <1>8, DisconnectControl
  <2> QED BY <1>4, <2>1 DEF Out
<1>9. CASE Answer(e, AfterSyncData(e, msg, TRUE), <<>>) /\ seen' = [seen EXCEPT ![e[1]] = s]
  BY Zenon, <1>1, <1>2, <1>9, ShakesHands
<1>10. CASE Disconnect(e) /\ UNCHANGED seen
  <2>1. \A f \in Ends : ctx'[f].state \in Out <=> ctx[f].state \in Out BY Zenon, <1>8, <1>10
  <2>2. seen' \in [Nodes -> Seen] /\ \A n \in Nodes : seen'[n].peers = seen[n].peers
    BY <1>7, <1>10
  <2> QED BY Zenon, <1>6, <1>7, <1>8, <1>10, <2>1, <2>2, StepKeeps
<1>11. CASE Disconnect(e) /\ e[2] = e[1] /\ seen' = [seen EXCEPT ![e[1]] = s]
  <2>1. s \in Seen /\ s.peers = seen[e[1]].peers + 1
    <3> HIDE DEF msg
    <3> QED BY <1>3, <1>4, SyncDataTypes
  <2> HIDE DEF s
  <2>2. seen' \in [Nodes -> Seen] BY <1>7, <1>11, <2>1
  <2>3. \A n \in Nodes : seen'[n].peers = seen[n].peers + IF n = e[1] THEN 1 ELSE 0
    BY <1>4, <1>7, <1>11, <2>1
  <2>4. Counts(e, 1) BY <1>8, <1>11 DEF Counts
  <2>5. PeersCounted'
    <3>1. \A f \in Ends : f # e => ctx'[f].state = ctx[f].state BY Zenon, <1>8, <1>11
    <3> QED BY <1>3, <1>7, <2>3, <2>4, <3>1, CountStep
  <2>6. Types' BY Zenon, <1>6, <1>7, <1>8, <1>11, <2>2 DEF Types, Stored, Seen
  <2> QED BY <1>8, <1>11, <2>5, <2>6 DEF IInv
<1> QED BY Zenon, <1>9, <1>10, <1>11 DEF HandleHandshakeReply

\* The end of connectionHandler: the peer is no longer counted.
LEMMA LeaveKeeps ==
    ASSUME IInv, NEW e \in Ends, Live(e), ~job[e].on, Leave(e), breaks' \in Nat
    PROVE  IInv'
<1> DEFINE n == e[1]
<1>1. Disconnect(e) /\ UNCHANGED <<core, pool, job, spawned>> BY Zenon DEF Leave
<1>2. UNCHANGED job BY <1>1
<1>3. Types /\ Control /\ PeersCounted BY DEF IInv
<1>4. n \in Nodes BY EndFacts
<1>5. seen \in [Nodes -> Seen] BY <1>3 DEF Types, Seen
<1>6. /\ Control'
       /\ ctx' \in [Ends -> Context] /\ net' \in [Ends -> Seq(Messages)]
       /\ ctx'[e].state = "closed" /\ \A f \in Ends : f # e => ctx'[f] = ctx[f]
  BY Zenon, <1>1, <1>2, <1>3, DisconnectControl
<1>7. Stored BY <1>1, <1>3, StoredKept
<1>8. job' \in [Ends -> [on : BOOLEAN, left : Seq(Blocks)]] BY <1>1, <1>3 DEF Types
<1>9. ctx'[e].state \in Out /\ (ctx[e].state \in Out <=> ctx[e].state = "befor_handshake")
  BY <1>6 DEF Out, Live
<1>10. \A f \in Ends : f # e => ctx'[f].state = ctx[f].state BY Zenon, <1>6
<1> DEFINE high == Recalculated(e, ctx[e].state)
           higher == [seen EXCEPT ![n].observed = high]
<1>11. high \in Nat BY <1>3, RecalculatedType
<1> HIDE DEF high
<1>12. higher \in [Nodes -> Seen] /\ \A m \in Nodes : higher[m].peers = seen[m].peers
  BY <1>4, <1>5, <1>11 DEF Seen
<1>13. CASE ctx[e].state = "befor_handshake"
  <2>1. \/ seen' = seen
        \/ seen' = [higher EXCEPT ![n].peers = @]
    BY Zenon, <1>13 DEF Leave, high
  <2>2. seen' \in [Nodes -> Seen] /\ \A m \in Nodes : seen'[m].peers = seen[m].peers
    <3> HIDE DEF higher
    <3> DEFINE s == [higher[n] EXCEPT !.peers = higher[n].peers]
    <3>1. seen' = seen \/ seen' = [higher EXCEPT ![n] = s] BY Zenon, <2>1
    <3>2. s \in Seen /\ s.peers = seen[n].peers BY <1>4, <1>12 DEF Seen
    <3> HIDE DEF s, n
    <3> QED BY <1>4, <1>5, <1>12, <3>1, <3>2
  <2>3. \A f \in Ends : ctx'[f].state \in Out <=> ctx[f].state \in Out
    BY Zenon, <1>9, <1>10, <1>13
  <2> QED BY Zenon, <1>6, <1>7, <1>8, <2>2, <2>3, StepKeeps
<1>14. CASE ctx[e].state # "befor_handshake"
  <2>1. seen' = [higher EXCEPT ![n].peers = @ - 1]
    BY Zenon, <1>14 DEF Leave, high
  <2> HIDE DEF higher
  <2> DEFINE fewer == higher[n].peers - 1
             s == [higher[n] EXCEPT !.peers = fewer]
  <2>2. seen' = [higher EXCEPT ![n] = s] BY Zenon, <2>1
  <2>3. higher[n] \in Seen /\ fewer \in Int /\ fewer = seen[n].peers - 1
    <3>1. higher[n] \in Seen /\ higher[n].peers = seen[n].peers BY Zenon, <1>4, <1>12
    <3>2. higher[n].peers \in Int BY <3>1 DEF Seen
    <3> QED BY <3>1, <3>2
  <2> HIDE DEF fewer
  <2>4. s \in Seen /\ s.peers = fewer BY <2>3 DEF Seen
  <2>5. \A m \in Nodes : seen[m].peers \in Int BY <1>5 DEF Seen
  <2> HIDE DEF s, n
  <2>6. seen' \in [Nodes -> Seen] BY <1>4, <1>12, <2>2, <2>4
  <2>7. \A m \in Nodes : seen'[m].peers = seen[m].peers + IF m = n THEN -1 ELSE 0
    <3> TAKE m \in Nodes
    <3>1. CASE m = n
      <4>1. seen'[m] = s BY Zenon, <3>1, <1>12, <2>2
      <4> QED BY <4>1, <3>1, <2>3, <2>4
    <3>2. CASE m # n
      <4>1. seen'[m] = higher[m] BY Zenon, <3>2, <1>12, <2>2
      <4>2. seen'[m].peers = seen[m].peers BY Zenon, <4>1, <1>12
      <4> QED BY <4>2, <3>2, <2>5
    <3> QED BY Zenon, <3>1, <3>2
  <2>8. \A m \in Nodes : seen'[m].peers = seen[m].peers + IF m = e[1] THEN -1 ELSE 0
    BY <2>7 DEF n
  <2>9. PeersCounted'
    <3>1. Counts(e, -1) BY <1>9, <1>14 DEF Counts
    <3> QED BY <1>3, <1>10, <2>5, <2>8, <3>1, CountStep
  <2>10. Types' BY Zenon, <1>6, <1>7, <1>8, <2>6 DEF Types, Stored, Seen
  <2> QED BY <1>6, <2>9, <2>10 DEF IInv
<1> QED BY <1>13, <1>14

\* A new connection starts with the dialer's handshake on its way.
LEMMA DialKeeps ==
    ASSUME IInv, NEW d \in Dialed, Dial(d)
    PROVE  IInv'
<1> DEFINE r == Rev(d)
           x == SyncData("handshake", d[1])
<1>1. /\ ~Live(d) /\ ~Live(r)
      /\ ctx' = [ctx EXCEPT ![d] = Fresh, ![r] = Fresh]
      /\ net' = [net EXCEPT ![d] = <<x>>, ![r] = <<>>]
      /\ UNCHANGED <<core, pool, job, spawned, seen>>
      /\ breaks' = breaks \/ breaks' = breaks + 1
  BY Zenon DEF Dial
<1>2. Types /\ Control BY DEF IInv
<1>3. d \in Ends BY DEF Ends
<1>4. /\ r \in Ends /\ r # d /\ Rev(r) = d /\ r \notin Dialed /\ d[1] \in Nodes
  BY <1>3, EndFacts
<1>5. ctx[d].state = "closed" /\ ctx[r].state = "closed" BY <1>1 DEF Live
<1>6. Fresh \in Context /\ Fresh.state = "befor_handshake" /\ Fresh.needed = <<>> /\ Fresh.requested = {}
  <2>1. Closed \in Context /\ Closed.needed = <<>> /\ Closed.requested = {}
    BY Zenon, ClosedContext
  <2> QED BY <2>1 DEF Fresh, Context, States
<1>7. x \in Messages /\ x.type = "handshake" BY <1>2, <1>4, OwnMessages
<1> HIDE DEF x, r
<1>8. /\ <<x>> \in Seq(Messages) /\ <<x>> # <<>> /\ Head(<<x>>) = x
      /\ ~Has(<<x>>, Asks) /\ ~Has(<<x>>, Answers) /\ AtMostOne(<<x>>, Shakes)
      /\ x.type \in Shakes
  <2>1. x.type \in Shakes /\ x.type \notin Asks /\ x.type \notin Answers
    BY <1>7 DEF Shakes, Asks, Answers
  <2> QED BY Zenon, <1>7, <2>1, QueueShort
<1>9. /\ <<>> \in Seq(Messages) /\ ~Has(<<>>, Shakes) /\ ~Has(<<>>, Answers) /\ ~Has(<<>>, Asks)
      /\ ~Has(<<>>, {"handshake"})
  BY Zenon, QueueShort
<1>10. ctx \in [Ends -> Context] /\ net \in [Ends -> Seq(Messages)] BY <1>2 DEF Types
<1>11. /\ ctx' \in [Ends -> Context] /\ ctx'[d] = Fresh /\ ctx'[r] = Fresh
       /\ \A f \in Ends : f # d /\ f # r => ctx'[f] = ctx[f]
  BY <1>1, <1>3, <1>4, <1>6, <1>10
<1>12. /\ net' \in [Ends -> Seq(Messages)] /\ net'[d] = <<x>> /\ net'[r] = <<>>
       /\ \A f \in Ends : f # d /\ f # r => net'[f] = net[f]
  BY <1>1, <1>3, <1>4, <1>8, <1>9, <1>10
<1>13. ~job'[d].on /\ ~job'[r].on
  <2>1. OneRequest(d) /\ OneRequest(r) BY <1>2, <1>3, <1>4 DEF Control
  <2>2. "closed" # "synchronizing" OBVIOUS
  <2> QED BY Zenon, <1>1, <1>5, <2>1, <2>2 DEF OneRequest
<1>14. "befor_handshake" \in Start /\ "befor_handshake" # "closed" /\ "befor_handshake" # "synchronizing"
  BY DEF Start
<1>15. ConnectionOK(d)'
  <2>1. Handshaken(d)' BY Zenon, <1>6, <1>9, <1>11, <1>12, <1>14 DEF Handshaken, r
  <2>2. OneRequest(d)' BY Zenon, <1>6, <1>8, <1>9, <1>11, <1>12, <1>13, <1>14 DEF OneRequest, r
  <2>3. ListsEmpty(d)' BY Zenon, <1>6, <1>11 DEF ListsEmpty
  <2>4. Greeted(d)' BY Zenon, <1>9, <1>12 DEF Greeted, r
  <2> QED BY <2>1, <2>2, <2>3, <2>4 DEF ConnectionOK
<1>16. ConnectionOK(r)'
  <2>1. Handshaken(r)' BY Zenon, <1>4, <1>6, <1>8, <1>11, <1>12, <1>14 DEF Handshaken
  <2>2. OneRequest(r)' BY Zenon, <1>4, <1>6, <1>8, <1>9, <1>11, <1>12, <1>13, <1>14 DEF OneRequest
  <2>3. ListsEmpty(r)' BY Zenon, <1>6, <1>11 DEF ListsEmpty
  <2>4. Greeted(r)' BY Zenon, <1>4 DEF Greeted
  <2> QED BY <2>1, <2>2, <2>3, <2>4 DEF ConnectionOK
<1>17. Control'
  <2>1. OthersKept(d) BY Zenon, <1>1, <1>11, <1>12 DEF OthersKept, r
  <2> QED BY Zenon, <1>2, <1>3, <1>15, <1>16, <2>1, OneConnection DEF r
<1>18. \A f \in Ends : ctx'[f].state \in Out <=> ctx[f].state \in Out
  <2>1. "befor_handshake" \in Out /\ "closed" \in Out BY DEF Out
  <2> QED BY Zenon, <1>5, <1>6, <1>11, <2>1
<1>19. Stored BY <1>1, <1>2, StoredKept
<1>20. /\ job' \in [Ends -> [on : BOOLEAN, left : Seq(Blocks)]] /\ seen' \in [Nodes -> Seen]
       /\ \A m \in Nodes : seen'[m].peers = seen[m].peers
  BY Zenon, <1>1, <1>2 DEF Types, Seen
<1>21. breaks' \in Nat
  <2>1. breaks \in Nat BY <1>2 DEF Types
  <2> QED BY <1>1, <2>1
<1> QED BY Zenon, <1>11, <1>12, <1>17, <1>18, <1>19, <1>20, <1>21, StepKeeps
-----------------------------------------------------------------------------
(* What a node does by itself *)

\* A message that is no handshake, request or answer may be written to any set of
\* open connections past their start.
LEMMA SpreadKeeps ==
    ASSUME IInv, NEW S \in SUBSET Ends, NEW x \in Messages,
           x.type \notin Shakes, x.type \notin Asks, x.type \notin Answers,
           \A e \in S : /\ ctx[e].state \notin Start \cup {"shutdown"}
                        /\ ctx[Rev(e)].state # "closed",
           net' = [e \in Ends |-> IF e \in S THEN net[e] \o <<x>> ELSE net[e]],
           UNCHANGED <<core, pool, ctx, job, seen, breaks>>,
           spawned' \in [Nodes -> Seq([msg : Announcements, skip : SUBSET Ends])]
    PROVE  IInv'
<1>1. Types /\ Control BY DEF IInv
<1>2. net \in [Ends -> Seq(Messages)] BY <1>1 DEF Types
<1>3. /\ <<x>> \in Seq(Messages) /\ ~Has(<<x>>, Shakes) /\ ~Has(<<x>>, Asks) /\ ~Has(<<x>>, Answers)
      /\ ~Has(<<x>>, {"handshake"})
  <2>1. x.type \notin {"handshake"} BY DEF Shakes
  <2> QED BY Zenon, <2>1, QueueShort
<1>4. ASSUME NEW f \in Ends
      PROVE  /\ net'[f] \in Seq(Messages)
             /\ f \notin S => net'[f] = net[f]
             /\ net[f] # <<>> => net'[f] # <<>> /\ Head(net'[f]) = Head(net[f])
             /\ \A T \in {Shakes, Asks, Answers, {"handshake"}} :
                   /\ Has(net'[f], T) <=> Has(net[f], T)
                   /\ AtMostOne(net[f], T) => AtMostOne(net'[f], T)
  <2>1. net[f] \in Seq(Messages) BY <1>2
  <2>2. CASE f \in S
    <3>1. net'[f] = net[f] \o <<x>> BY Zenon, <2>2
    <3>2. /\ net[f] \o <<x>> \in Seq(Messages)
          /\ net[f] # <<>> => net[f] \o <<x>> # <<>> /\ Head(net[f] \o <<x>>) = Head(net[f])
      BY Zenon, <1>3, <2>1, QueueConcat
    <3>3. ASSUME NEW T \in {Shakes, Asks, Answers, {"handshake"}}
          PROVE  /\ Has(net[f] \o <<x>>, T) <=> Has(net[f], T)
                 /\ AtMostOne(net[f], T) => AtMostOne(net[f] \o <<x>>, T)
      <4>1. ~Has(<<x>>, T) BY Zenon, <1>3
      <4> QED BY Zenon, <1>3, <2>1, <4>1, QueueConcat
    <3> QED BY Zenon, <2>2, <3>1, <3>2, <3>3
  <2>3. CASE f \notin S
    <3>1. net'[f] = net[f] BY Zenon, <2>3
    <3> QED BY Zenon, <2>1, <3>1
  <2> QED BY <2>2, <2>3
<1>5. ASSUME NEW f \in Ends PROVE Handshaken(f)'
  <2>1. Rev(f) \in Ends /\ Rev(Rev(f)) = f /\ Handshaken(f) BY <1>1, EndFacts DEF Control
  <2>2. ctx'[f] = ctx[f] /\ ctx'[Rev(f)] = ctx[Rev(f)] OBVIOUS
  <2>3. /\ Has(net'[Rev(f)], Shakes) <=> Has(net[Rev(f)], Shakes)
        /\ AtMostOne(net[Rev(f)], Shakes) => AtMostOne(net'[Rev(f)], Shakes)
        /\ net[Rev(f)] # <<>> => net'[Rev(f)] # <<>> /\ Head(net'[Rev(f)]) = Head(net[Rev(f)])
    BY Zenon, <1>4, <2>1
  <2>4. ctx[f].state = "closed" \/ ctx[Rev(f)].state \in Start \cup {"shutdown"} =>
          net'[Rev(f)] = net[Rev(f)]
    BY Zenon, <1>4, <2>1
  <2>5. ctx[f].state \in Start => net'[f] = net[f] BY Zenon, <1>4
  <2>6. Has(net'[Rev(f)], Shakes) => ctx[f].state = "befor_handshake" /\ AtMostOne(net'[Rev(f)], Shakes)
    BY Zenon, <2>1, <2>3 DEF Handshaken
  <2>7. ctx[f].state = "closed" => net'[Rev(f)] = <<>> BY Zenon, <2>1, <2>4 DEF Handshaken
  <2>8. ctx[f].state = "befor_handshake" =>
          \/ net'[Rev(f)] # <<>> /\ Head(net'[Rev(f)]).type \in Shakes \cup {"eof"}
          \/ net'[Rev(f)] = <<>> /\ f \in Dialed /\ ctx[Rev(f)].state \in Start \cup {"shutdown"}
    BY Zenon, <2>1, <2>3, <2>4 DEF Handshaken
  <2>9. f \notin Dialed /\ ctx[f].state \in Start =>
          \/ ctx[Rev(f)].state = "closed"
          \/ ctx[Rev(f)].state = "befor_handshake" /\ net'[f] = <<>>
    BY Zenon, <2>1, <2>5 DEF Handshaken
  <2> QED BY Zenon, <2>2, <2>6, <2>7, <2>8, <2>9 DEF Handshaken
<1>6. ASSUME NEW f \in Ends PROVE OneRequest(f)'
  <2>1. Rev(f) \in Ends /\ OneRequest(f) BY <1>1, EndFacts DEF Control
  <2>2. ctx'[f] = ctx[f] /\ job'[f] = job[f] OBVIOUS
  <2>3. /\ Has(net'[f], Asks) <=> Has(net[f], Asks)
        /\ AtMostOne(net[f], Asks) => AtMostOne(net'[f], Asks)
    BY Zenon, <1>4
  <2>4. /\ Has(net'[Rev(f)], Answers) <=> Has(net[Rev(f)], Answers)
        /\ AtMostOne(net[Rev(f)], Answers) => AtMostOne(net'[Rev(f)], Answers)
    BY Zenon, <1>4, <2>1
  <2> QED BY Zenon, <2>1, <2>2, <2>3, <2>4 DEF OneRequest
<1>7. ASSUME NEW f \in Ends PROVE ListsEmpty(f)' /\ Greeted(f)'
  <2>1. Rev(f) \in Ends /\ ListsEmpty(f) /\ Greeted(f) BY <1>1, EndFacts DEF Control
  <2>2. Has(net'[Rev(f)], {"handshake"}) <=> Has(net[Rev(f)], {"handshake"}) BY Zenon, <1>4, <2>1
  <2> QED BY Zenon, <2>1, <2>2 DEF ListsEmpty, Greeted
<1>8. Control' BY Zenon, <1>5, <1>6, <1>7 DEF Control
<1>9. Stored BY Zenon, <1>1 DEF Types, Stored
<1>10. net' \in [Ends -> Seq(Messages)]
  <2>1. net' = [e \in Ends |-> net'[e]] BY Zenon
  <2> QED BY Zenon, <1>4, <2>1
<1>11. /\ ctx' \in [Ends -> Context] /\ job' \in [Ends -> [on : BOOLEAN, left : Seq(Blocks)]]
       /\ seen' \in [Nodes -> Seen] /\ breaks' \in Nat
       /\ \A m \in Nodes : seen'[m].peers = seen[m].peers
       /\ \A f \in Ends : ctx'[f].state \in Out <=> ctx[f].state \in Out
  BY Zenon, <1>1 DEF Types, Seen
<1> QED BY Zenon, <1>8, <1>9, <1>10, <1>11, StepKeeps

\* externalRelayNotifyToAll and externalRelayNotifyToList.
LEMMA RunSpawnedKeeps ==
    ASSUME IInv, NEW n \in Nodes, RunSpawned(n)
    PROVE  IInv'
<1> DEFINE R == [msg : Announcements, skip : SUBSET Ends]
           x == Head(spawned[n]).msg
           T == {e \in Ends : /\ e[1] = n /\ ctx[e].state \in {"normal", "synchronizing"}
                              /\ e \notin Head(spawned[n]).skip}
           S == {e \in T : ctx[Rev(e)].state # "closed"}
<1>1. Types BY DEF IInv
<1>2. spawned[n] # <<>> /\ spawned' = [spawned EXCEPT ![n] = Tail(@)] BY DEF RunSpawned
<1>3. spawned \in [Nodes -> Seq(R)] BY <1>1 DEF Types
<1>4. Head(spawned[n]) \in R /\ Tail(spawned[n]) \in Seq(R)
  <2> HIDE DEF R
  <2> QED BY <1>2, <1>3
<1>5. spawned' \in [Nodes -> Seq(R)]
  <2> HIDE DEF R
  <2> QED BY <1>2, <1>3, <1>4
<1>6. x \in Announcements BY <1>4
<1> HIDE DEF x
<1>7. x \in Messages /\ x.type \in {"liteBlock", "newTxs"} BY <1>6 DEF Messages, Announcements
<1>8. x.type \notin Shakes /\ x.type \notin Asks /\ x.type \notin Answers
  BY <1>7 DEF Shakes, Asks, Answers
<1>9. net' = [e \in Ends |-> IF e \in S THEN net[e] \o <<x>> ELSE net[e]]
  <2>1. net' = [e \in Ends |-> IF e \in T THEN net[e] \o Send(e, <<x>>) ELSE net[e]]
    <3>1. net' = [e \in Ends |->
                    IF e[1] = n /\ ctx[e].state \in {"normal", "synchronizing"}
                       /\ e \notin Head(spawned[n]).skip
                    THEN net[e] \o Send(e, <<x>>) ELSE net[e]]
      BY Zenon DEF RunSpawned, x
    <3> QED BY Zenon, <3>1
  <2> HIDE DEF T
  <2>2. ASSUME NEW e \in Ends
        PROVE  (IF e \in T THEN net[e] \o Send(e, <<x>>) ELSE net[e])
               = (IF e \in S THEN net[e] \o <<x>> ELSE net[e])
    <3>1. net[e] \in Seq(Messages) BY <1>1 DEF Types
    <3>2. <<>> \in Seq(Messages) BY Zenon, QueueShort
    <3>3. net[e] \o <<>> = net[e] BY Zenon, <3>1, <3>2, QueueConcat
    <3>4. CASE e \in S BY Zenon, <3>4 DEF Send, Live
    <3>5. CASE e \notin S BY Zenon, <3>3, <3>5 DEF Send, Live
    <3> QED BY <3>4, <3>5
  <2> QED BY Zenon, <2>1, <2>2
<1>10. \A e \in S : ctx[e].state \notin Start \cup {"shutdown"} /\ ctx[Rev(e)].state # "closed"
  BY DEF Start
<1>11. S \in SUBSET Ends BY Zenon
<1>12. UNCHANGED <<core, pool, ctx, job, seen, breaks>> BY DEF RunSpawned
<1> HIDE DEF S
<1> QED BY Zenon, <1>5, <1>7, <1>8, <1>9, <1>10, <1>11, <1>12, SpreadKeeps

\* timedSync.
LEMMA TimedSyncKeeps ==
    ASSUME IInv, NEW n \in Nodes, TimedSync(n)
    PROVE  IInv'
<1> DEFINE S == {e \in At(n) : ctx[e].state \in {"normal", "idle"} /\ Live(Rev(e))}
           x == SyncData("timedSync", n)
<1>1. Types BY DEF IInv
<1>2. x \in Messages /\ x.type = "timedSync" BY <1>1, OwnMessages
<1>3. x.type \notin Shakes /\ x.type \notin Asks /\ x.type \notin Answers
  BY <1>2 DEF Shakes, Asks, Answers
<1>4. /\ net' = [e \in Ends |-> IF e \in S THEN Append(net[e], x) ELSE net[e]]
      /\ UNCHANGED <<core, pool, ctx, job, spawned, seen, breaks>>
  BY Zenon DEF TimedSync
<1>5. /\ S \in SUBSET Ends
      /\ \A e \in S : ctx[e].state \notin Start \cup {"shutdown"} /\ ctx[Rev(e)].state # "closed"
  BY DEF At, Start, Live
<1> HIDE DEF S, x
<1>6. \A e \in Ends : Append(net[e], x) = net[e] \o <<x>>
  <2> TAKE e \in Ends
  <2>1. net[e] \in Seq(Messages) BY <1>1 DEF Types
  <2> QED BY <1>2, <2>1
<1>7. net' = [e \in Ends |-> IF e \in S THEN net[e] \o <<x>> ELSE net[e]] BY Zenon, <1>4, <1>6
<1>8. /\ UNCHANGED <<core, pool, ctx, job, seen, breaks>>
      /\ spawned' \in [Nodes -> Seq([msg : Announcements, skip : SUBSET Ends])]
  BY <1>1, <1>4 DEF Types
<1> QED BY Zenon, <1>2, <1>3, <1>5, <1>7, <1>8, SpreadKeeps

\* Blocks and transactions submitted at a node leave its connections alone.
LEMMA StoreKeeps ==
    ASSUME IInv, Stored, UNCHANGED <<ctx, net, job, seen, breaks>>
    PROVE  IInv'
<1>1. Types /\ Control BY DEF IInv
<1>2. UNCHANGED <<ctx, net>> /\ \A f \in Ends : job'[f].on = job[f].on BY Zenon
<1>3. Control' BY Zenon, <1>1, <1>2, SameControl
<1>4. /\ ctx' \in [Ends -> Context] /\ job' \in [Ends -> [on : BOOLEAN, left : Seq(Blocks)]]
      /\ net' \in [Ends -> Seq(Messages)] /\ seen' \in [Nodes -> Seen] /\ breaks' \in Nat
      /\ \A m \in Nodes : seen'[m].peers = seen[m].peers
      /\ \A f \in Ends : ctx'[f].state \in Out <=> ctx[f].state \in Out
  BY Zenon, <1>1 DEF Types, Seen
<1> QED BY Zenon, <1>3, <1>4, StepKeeps

\* on_submitblock.
LEMMA SubmitBlockKeeps ==
    ASSUME IInv, NEW n \in Nodes, NEW b \in Blocks, SubmitBlock(n, b)
    PROVE  IInv'
<1> DEFINE relay == [type |-> "liteBlock", block |-> b, height |-> HeightOf[b] + 1]
           skip == {e \in At(n) : ~Live(e)}
<1>1. Types BY DEF IInv
<1>2. /\ core' = CoreAfter(n, b) /\ pool' = PoolAfter(n, b)
      /\ spawned' = Relay(n, relay, skip) \/ spawned' = spawned
      /\ UNCHANGED <<ctx, net, job, seen, breaks>>
  BY Zenon DEF SubmitBlock
<1>3. relay \in Announcements
  <2>1. HeightOf[b] + 1 \in Nat BY ProtocolAssumption
  <2> QED BY <2>1 DEF Announcements
<1>4. skip \in SUBSET Ends BY DEF At
<1> HIDE DEF relay, skip
<1>5. Relay(n, relay, skip) \in [Nodes -> Seq([msg : Announcements, skip : SUBSET Ends])]
  BY <1>1, <1>3, <1>4, RelayType
<1>6. spawned \in [Nodes -> Seq([msg : Announcements, skip : SUBSET Ends])] BY <1>1 DEF Types
<1>7. /\ CoreAfter(n, b) \in [Nodes -> [known : SUBSET Blocks, tip : Blocks]]
      /\ \A m \in Nodes : CoreAfter(n, b)[m].tip \in CoreAfter(n, b)[m].known
      /\ PoolAfter(n, b) \in [Nodes -> SUBSET Txs]
  BY Zenon, <1>1, AddedTypes
<1>8. Stored BY Zenon, <1>2, <1>5, <1>6, <1>7 DEF Stored
<1> QED BY Zenon, <1>2, <1>8, StoreKeeps

\* on_send_raw_tx.
LEMMA SendRawTxKeeps ==
    ASSUME IInv, NEW n \in Nodes, NEW t \in Txs, SendRawTx(n, t)
    PROVE  IInv'
<1> DEFINE relay == [type |-> "newTxs", txs |-> {t}]
<1>1. Types BY DEF IInv
<1>2. /\ pool' = [pool EXCEPT ![n] = @ \cup {t}] /\ spawned' = Relay(n, relay, {})
      /\ UNCHANGED <<ctx, net, job, seen, breaks>> /\ core' = core
  BY Zenon DEF SendRawTx
<1>3. relay \in Announcements BY DEF Announcements
<1> HIDE DEF relay
<1>4. Relay(n, relay, {}) \in [Nodes -> Seq([msg : Announcements, skip : SUBSET Ends])]
  BY <1>1, <1>3, RelayType
<1>5. pool' \in [Nodes -> SUBSET Txs] BY <1>1, <1>2 DEF Types
<1>6. Stored BY Zenon, <1>1, <1>2, <1>4, <1>5 DEF Stored, Types
<1> QED BY Zenon, <1>2, <1>6, StoreKeeps
-----------------------------------------------------------------------------
(* The theorems *)

\* A daemon starts without connections.
LEMMA InitHolds == Init => IInv
<1> SUFFICES ASSUME Init PROVE IInv OBVIOUS
<1> DEFINE none == <<>>
           rest == [observed |-> 0, height |-> 0, peers |-> 0, synced |-> FALSE]
<1>1. none \in Seq(Messages) /\ none \in Seq(Blocks)
      /\ none \in Seq([msg : Announcements, skip : SUBSET Ends])
      /\ \A T : ~Has(none, T)
  BY DEF Has
<1>2. Closed \in Context BY Zenon, ClosedContext
<1>3. NoJob \in [on : BOOLEAN, left : Seq(Blocks)] /\ ~NoJob.on BY <1>1 DEF NoJob
<1>4. rest \in Seen BY DEF Seen
<1>5. Closed.state = "closed" /\ Closed.needed = <<>> /\ Closed.requested = {}
  BY Zenon, ClosedContext
<1>6. /\ core = Begin /\ pool = [n \in Nodes |-> {}] /\ ctx = [e \in Ends |-> Closed]
      /\ net = [e \in Ends |-> none] /\ job = [e \in Ends |-> NoJob]
      /\ spawned = [n \in Nodes |-> none] /\ seen = [n \in Nodes |-> rest] /\ breaks = 0
  BY Zenon DEF Init
<1>7. \A n \in Nodes : seen[n].peers = 0 BY <1>6
<1> HIDE DEF none, rest
<1>8. Types
  <2>1. Begin \in [Nodes -> [known : SUBSET Blocks, tip : Blocks]]
        /\ \A n \in Nodes : Begin[n].tip \in Begin[n].known
    BY ProtocolAssumption
  <2>2. ctx \in [Ends -> Context] /\ net \in [Ends -> Seq(Messages)]
        /\ job \in [Ends -> [on : BOOLEAN, left : Seq(Blocks)]]
    BY Zenon, <1>1, <1>2, <1>3, <1>6
  <2>3. /\ pool \in [Nodes -> SUBSET Txs] /\ breaks \in Nat
        /\ spawned \in [Nodes -> Seq([msg : Announcements, skip : SUBSET Ends])]
    BY <1>1, <1>6
  <2>4. seen \in [Nodes -> Seen] BY Zenon, <1>4, <1>6
  <2> QED BY Zenon, <1>6, <2>1, <2>2, <2>3, <2>4 DEF Types, Seen
<1>9. Control
  <2> SUFFICES ASSUME NEW e \in Ends
               PROVE  Handshaken(e) /\ OneRequest(e) /\ ListsEmpty(e) /\ Greeted(e)
    BY DEF Control
  <2>1. Rev(e) \in Ends BY EndFacts
  <2>2. /\ ctx[e].state = "closed" /\ ctx[Rev(e)].state = "closed" /\ ctx[e].needed = <<>>
        /\ ctx[e].requested = {}
    BY Zenon, <1>5, <1>6, <2>1
  <2>3. net[e] = <<>> /\ net[Rev(e)] = <<>> /\ ~job[e].on
        /\ ~Has(net[e], Asks) /\ ~Has(net[Rev(e)], Answers) /\ ~Has(net[Rev(e)], Shakes)
        /\ ~Has(net[Rev(e)], {"handshake"})
    BY Zenon, <1>1, <1>3, <1>6, <2>1 DEF none
  <2>4. Handshaken(e) BY <2>2, <2>3 DEF Handshaken
  <2>5. OneRequest(e) BY <2>2, <2>3 DEF OneRequest
  <2> QED BY <2>2, <2>3, <2>4, <2>5 DEF ListsEmpty, Greeted
<1>10. PeersCounted
  <2> SUFFICES ASSUME NEW n \in Nodes
               PROVE  /\ seen[n].peers <= Cardinality(PeersAt(n))
                      /\ seen[n].peers >= Cardinality(PeersAt(n))
    BY Zenon DEF PeersCounted
  <2>1. PeersAt(n) = {} BY <1>5, <1>6 DEF PeersAt, At
  <2> QED BY <1>7, <2>1, FS_EmptySet
<1> QED BY <1>8, <1>9, <1>10 DEF IInv

\* A connection ends by a shutdown, by its peer, or by a fault of the network.
LEMMA ConnectionEnds ==
    ASSUME IInv, NEW e \in Ends, Shutdown(e) \/ PeerLeft(e) \/ Break(e)
    PROVE  IInv'
<1>1. Types /\ OneRequest(e) /\ breaks \in Nat BY DEF IInv, Types, Control
<1>2. CASE Shutdown(e)
  <2>1. ctx[e].state = "shutdown" /\ Leave(e) /\ breaks' = breaks BY <1>2 DEF Shutdown
  <2>2. Live(e) /\ ~job[e].on BY <1>1, <2>1 DEF OneRequest, Live
  <2> QED BY Zenon, <1>1, <2>1, <2>2, LeaveKeeps
<1>3. CASE PeerLeft(e)
  <2>1. Live(e) /\ ~job[e].on /\ Leave(e) /\ breaks' = breaks BY <1>3 DEF PeerLeft, Gets
  <2> QED BY Zenon, <1>1, <2>1, LeaveKeeps
<1>4. CASE Break(e)
  <2>1. Live(e) /\ ~job[e].on /\ Leave(e) /\ breaks' = breaks + 1 BY <1>4 DEF Break
  <2>2. breaks' \in Nat BY <1>1, <2>1
  <2> QED BY Zenon, <2>1, <2>2, LeaveKeeps
<1> QED BY <1>2, <1>3, <1>4

\* Every handler preserves the invariant.
LEMMA HandleKeeps ==
    ASSUME IInv, NEW e \in Ends, Handle(e)
    PROVE  IInv'
<1>1. CASE HandleHandshake(e) BY Zenon, <1>1, HandshakeKeeps
<1>11. CASE HandleHandshakeReply(e) BY Zenon, <1>11, HandshakeReplyKeeps
<1>2. CASE HandleTimedSync(e) BY Zenon, <1>2, TimedSyncHandled
<1>3. CASE HandleRequestChain(e) BY Zenon, <1>3, RequestChainKeeps
<1>4. CASE HandleChainEntry(e) BY Zenon, <1>4, ChainEntryKeeps
<1>5. CASE HandleRequestObjects(e) BY Zenon, <1>5, RequestObjectsKeeps
<1>6. CASE HandleObjects(e) BY Zenon, <1>6, ObjectsKeeps
<1>7. CASE HandleLiteBlock(e) BY Zenon, <1>7, LiteBlockKeeps
<1>8. CASE HandleNewTxs(e) BY Zenon, <1>8, NewTxsKeeps
<1>9. CASE HandleRequestPool(e) BY Zenon, <1>9, RequestPoolKeeps
<1>10. CASE HandleMissingTxs(e) BY Zenon, <1>10, MissingTxsKeeps
<1> QED BY <1>1, <1>2, <1>3, <1>4, <1>5, <1>6, <1>7, <1>8, <1>9, <1>10, <1>11 DEF Handle

\* Every step preserves the invariant.
LEMMA NextKeeps == IInv /\ [Next]_vars => IInv'
<1> SUFFICES ASSUME IInv, [Next]_vars PROVE IInv' OBVIOUS
<1>1. ASSUME NEW e \in Ends, Fiber(e) \/ Break(e) PROVE IInv'
  <2>1. CASE Handle(e) BY Zenon, <2>1, HandleKeeps
  <2>2. CASE StartLoop(e) BY Zenon, <2>2, StartLoopKeeps
  <2>3. CASE ProcessObject(e) BY Zenon, <2>3, ProcessObjectKeeps
  <2>4. CASE FinishObjects(e) BY Zenon, <2>4, FinishObjectsKeeps
  <2>5. CASE Shutdown(e) \/ PeerLeft(e) \/ Break(e) BY Zenon, <2>5, ConnectionEnds
  <2> QED BY Zenon, <1>1, <2>1, <2>2, <2>3, <2>4, <2>5 DEF Fiber
<1>2. ASSUME NEW d \in Dialed, Dial(d) PROVE IInv' BY Zenon, <1>2, DialKeeps
<1>3. ASSUME NEW n \in Nodes, RunSpawned(n) \/ TimedSync(n) PROVE IInv'
  BY Zenon, <1>3, RunSpawnedKeeps, TimedSyncKeeps
<1>4. ASSUME NEW n \in Nodes, NEW b \in Blocks, SubmitBlock(n, b) PROVE IInv'
  BY Zenon, <1>4, SubmitBlockKeeps
<1>5. ASSUME NEW n \in Nodes, NEW t \in Txs, SendRawTx(n, t) PROVE IInv'
  BY Zenon, <1>5, SendRawTxKeeps
<1>6. CASE UNCHANGED vars
  BY Zenon, <1>6 DEF vars, IInv, Types, Control, Handshaken, OneRequest, ListsEmpty, Greeted,
                         PeersCounted, PeersAt, At
<1> QED BY Zenon, <1>1, <1>2, <1>3, <1>4, <1>5, <1>6 DEF Next

\* The inductive invariant holds in every state.
THEOREM ProtocolInvariant == Spec => []IInv
BY InitHolds, NextKeeps, PTL DEF Spec

\* ProtocolTypeOK holds in every reachable state, for every network and tree.
THEOREM ProtocolTypes == Spec => []ProtocolTypeOK
<1>1. ASSUME IInv PROVE ProtocolTypeOK
  <2>1. Types BY <1>1 DEF IInv
  <2>2. ASSUME NEW e \in Ends
        PROVE  /\ ctx[e].state \in States /\ ctx[e].remote \in Nat /\ ctx[e].last \in Nat
               /\ Range(ctx[e].needed) \subseteq Blocks /\ ctx[e].requested \subseteq Blocks
               /\ ctx[e].pending.missed \subseteq Txs
               /\ Range(job[e].left) \subseteq Blocks
    <3>1. ctx[e] \in Context /\ job[e] \in [on : BOOLEAN, left : Seq(Blocks)]
      BY <2>1 DEF Types
    <3>2. /\ ctx[e].state \in States /\ ctx[e].remote \in Nat /\ ctx[e].last \in Nat
          /\ ctx[e].needed \in Seq(Blocks) /\ ctx[e].requested \subseteq Blocks
          /\ ctx[e].pending.missed \subseteq Txs /\ job[e].left \in Seq(Blocks)
      BY <3>1 DEF Context
    <3>3. ASSUME NEW q \in Seq(Blocks) PROVE Range(q) \subseteq Blocks BY DEF Range
    <3> QED BY Zenon, <3>2, <3>3
  <2>3. ASSUME NEW n \in Nodes
        PROVE  /\ seen[n].observed \in Nat /\ seen[n].height \in Nat
               /\ seen[n].peers \in Int /\ seen[n].synced \in BOOLEAN
    BY <2>1 DEF Types
  <2> QED BY Zenon, <2>1, <2>2, <2>3 DEF ProtocolTypeOK, Types
<1> QED BY <1>1, ProtocolInvariant, PTL

\* m_peersCount counts the connections past their handshake, whatever way
\* connections break and come back: it is never too high at a node that does not
\* dial itself, and never too low at one that refuses none of its dialers.
THEOREM PeersAlwaysCounted == Spec => []PeersCounted
<1>1. IInv => PeersCounted BY DEF IInv
<1> QED BY <1>1, ProtocolInvariant, PTL

\* The asserts of start_sync hold: wherever a connection may come to a new
\* synchronisation, both lists of blocks are empty.
THEOREM NothingEverLeftOver == Spec => []NothingLeftOver
<1>1. IInv => NothingLeftOver
  BY DEF IInv, Control, ListsEmpty, NothingLeftOver
<1> QED BY <1>1, ProtocolInvariant, PTL

\* No connection has two requests, or a request and an answer, on their way; one
\* that does not synchronise has none, and none comes while a batch is added.
THEOREM NeverTwoRequests == Spec => [](\A e \in Ends : OneRequest(e))
<1>1. IInv => \A e \in Ends : OneRequest(e) BY DEF IInv, Control
<1> QED BY <1>1, ProtocolInvariant, PTL
=============================================================================
