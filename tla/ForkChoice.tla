----------------------------- MODULE ForkChoice -----------------------------
(***************************************************************************)
(* What the block tree of cryptonote::Core promises, without segments: a   *)
(* growing set of blocks closed under parents and a tip that is the first  *)
(* block to have reached the greatest cumulative difficulty.               *)
(***************************************************************************)
EXTENDS Integers

CONSTANTS Block, Genesis, Prev, Cumulative

VARIABLES known, tip

Init == known = {Genesis} /\ tip = Genesis

\* A new block becomes the tip exactly when it is strictly heavier.
Add(b) ==
    /\ b \notin known
    /\ Prev[b] \in known
    /\ known' = known \cup {b}
    /\ tip' = IF Cumulative[b] > Cumulative[tip] THEN b ELSE tip

Next == \E b \in Block \ {Genesis} : Add(b)

Spec == Init /\ [][Next]_<<known, tip>>
=============================================================================
