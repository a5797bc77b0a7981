---------------------------- MODULE MCCorePool ----------------------------
(***************************************************************************)
(* Chain switches under a pool. The main chain a1 a2 is forked at Genesis  *)
(* by b1 b2 b3 and above a1 by c2, so that it spans two segments when it   *)
(* is abandoned. t and u spend the same key image; v's ring uses an output *)
(* of a1 and its mixin is not allowed from height 3 on. f is a fusion      *)
(* transaction whose extra field is as large as no block may hold, h a     *)
(* boxed message sent at time 2. Other nodes may put f in a block.         *)
(***************************************************************************)
EXTENDS CorePool, TLC

CONSTANTS g, a1, a2, c2, b1, b2, b3, t, u, v, f, h, k, m, n, o

MCBlock == {g, a1, a2, c2, b1, b2, b3}
MCPrev == a1 :> g @@ a2 :> a1 @@ c2 :> a1 @@ b1 :> g @@ b2 :> b1 @@ b3 :> b2
MCIndex[b \in MCBlock] == IF b = g THEN 0 ELSE MCIndex[MCPrev[b]] + 1
MCNextDifficulty == [b \in MCBlock |-> 1]
MCCumulative[b \in MCBlock] == IF b = g THEN 1 ELSE MCCumulative[MCPrev[b]] + 1
MCTx == {t, u, v, f, h}
MCSpends == t :> {k} @@ u :> {k} @@ v :> {m} @@ f :> {n} @@ h :> {o}
MCTxsOf == [b \in MCBlock |-> IF b = a1 THEN {t, f} ELSE IF b = a2 THEN {v}
                              ELSE IF b = b2 THEN {u} ELSE {}]
MCCheckpoint == <<>>
MCNeeds == t :> {} @@ u :> {} @@ v :> {a1} @@ f :> {} @@ h :> {}
MCMixin == [x \in MCTx |-> IF x = v THEN 7 ELSE 3]
MCAllowedMixin == [i \in 0 .. 4 |-> IF i >= 3 THEN {3} ELSE {3, 7}]
MCExtraSize == [x \in MCTx |-> IF x = f THEN 2 ELSE IF x = h THEN 3 ELSE 0]
MCBoxTime == [x \in MCTx |-> IF x = h THEN 2 ELSE NoBox]
=============================================================================
