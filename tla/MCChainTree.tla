---------------------------- MODULE MCChainTree ----------------------------
(***************************************************************************)
(* A block tree with forks at three depths, two of them nested: the main   *)
(* chain a1 a2 a3 a4, a branch b1 b2 b3 from Genesis, a branch c2 c3 inside *)
(* it, d2 on a1, e1 on Genesis and f3 on b2. Transactions t and u both     *)
(* spend k, so a4 double-spends on a's branch and c3 does on c's; w2 has   *)
(* too little work, x3 a malformed coinbase.                               *)
(***************************************************************************)
EXTENDS ChainTree, TLC

CONSTANTS g, a1, a2, a3, a4, b1, b2, b3, c2, c3, d2, e1, f3, w2, x3, t, u, k

MCBlock == {g, a1, a2, a3, a4, b1, b2, b3, c2, c3, d2, e1, f3, w2, x3}

MCPrev == a1 :> g @@ a2 :> a1 @@ a3 :> a2 @@ a4 :> a3
            @@ b1 :> g @@ b2 :> b1 @@ b3 :> b2 @@ c2 :> b1 @@ c3 :> c2
            @@ d2 :> a1 @@ e1 :> g @@ f3 :> b2 @@ w2 :> b1 @@ x3 :> a2

MCIndex[b \in MCBlock] == IF b = g THEN 0 ELSE MCIndex[MCPrev[b]] + 1

\* The children of b1 and a2 need twice the work of the others.
MCNextDifficulty == [b \in MCBlock |-> IF b \in {b1, a2} THEN 2 ELSE 1]

MCCumulative[b \in MCBlock] ==
    IF b = g THEN 1 ELSE MCCumulative[MCPrev[b]] + MCNextDifficulty[MCPrev[b]]

MCTx == {t, u}
MCSpends == [x \in MCTx |-> {k}]
MCTxsOf == [b \in MCBlock |->
              IF b \in {a2, b3, c2} THEN {t} ELSE IF b \in {a4, c3} THEN {u} ELSE {}]
MCCheckpoint == <<>>
=============================================================================
