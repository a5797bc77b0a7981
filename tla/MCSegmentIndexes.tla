-------------------------- MODULE MCSegmentIndexes --------------------------
(***************************************************************************)
(* A chain a1..a4 with branches that leave it at the genesis block (d1),   *)
(* at a1 (b2 to b4) and at a2 (c3).  Branches repeat each other's          *)
(* transactions (v) and spend the same key image (t and u), amounts recur  *)
(* within a transaction and between branches, and blocks of one chain      *)
(* share a timestamp.  In the second instance both t and v pay to one      *)
(* payment id in one block.                                                *)
(***************************************************************************)
EXTENDS SegmentIndexes

CONSTANTS g, a1, a2, a3, a4, b2, b3, b4, c3, d1, t, u, v, pid, noId

MCBlocks == {g, a1, a2, a3, a4, b2, b3, b4, c3, d1}
MCPrev == a1 :> g @@ a2 :> a1 @@ a3 :> a2 @@ a4 :> a3 @@ b2 :> a1 @@ b3 :> b2 @@ b4 :> b3
          @@ c3 :> a2 @@ d1 :> g
Base(b) == <<"base", b>>
MCTxs == [b \in MCBlocks |-> <<Base(b)>> \o
            (CASE b = a2 -> <<t>> [] b = a3 -> <<v>> [] b = b2 -> <<u>> [] b = b3 -> <<v>>
               [] OTHER -> <<>>)]
PaidTwice == [MCTxs EXCEPT ![a2] = <<Base(a2), t, v>>, ![a3] = <<Base(a3)>>]
AllTxs == {t, u, v} \cup {Base(b) : b \in MCBlocks}
MCOutputs == [x \in AllTxs |-> CASE x = t -> <<1, 1>> [] x = u -> <<2, 1>> [] x = v -> <<1, 2, 1>>
                                 [] x \in {Base(a1), Base(b2)} -> <<2>> [] OTHER -> <<1>>]
MCSpends == [x \in AllTxs |-> CASE x \in {t, u} -> {"k"} [] x = v -> {"l"} [] OTHER -> {}]
MCDifficulty == [b \in MCBlocks |-> IF b = b3 THEN 2 ELSE 1]
MCTimestamp == [b \in MCBlocks |-> CASE b = g -> 0 [] b = a1 -> 1 [] b \in {a2, b2} -> 2
                                     [] b = c3 -> 3 [] OTHER -> 4]
MCPaymentIds == [x \in AllTxs |-> IF x \in {t, v} THEN pid ELSE noId]
=============================================================================
