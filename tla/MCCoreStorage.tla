--------------------------- MODULE MCCoreStorage ---------------------------
(***************************************************************************)
(* Flat: two branches above a1, a2 a3 and b2 b3 b4, and c2 beside them. No *)
(* branch forks off a branch, so every switch goes to a segment whose      *)
(* parent is on the main chain. A checkpoint asks for a1 and refuses e1.   *)
(*                                                                         *)
(* Nested: d3 d4 fork off the branch b2 b3, and e1 forks off below all of  *)
(* them. A switch to d4 leaves blocks of two chains in the file.           *)
(***************************************************************************)
EXTENDS CoreStorage, TLC

CONSTANTS g, a1, a2, a3, b2, b3, b4, c2, d3, d4, e1

FlatBlock == {g, a1, a2, a3, b2, b3, b4, c2, e1}
NestedBlock == {g, a1, a2, a3, b2, b3, d3, d4, e1}

AllPrev == a1 :> g @@ a2 :> a1 @@ a3 :> a2 @@ b2 :> a1 @@ b3 :> b2 @@ b4 :> b3
             @@ c2 :> a1 @@ d3 :> b2 @@ d4 :> d3 @@ e1 :> g
FlatPrev == [b \in FlatBlock \ {g} |-> AllPrev[b]]
NestedPrev == [b \in NestedBlock \ {g} |-> AllPrev[b]]

Depth[b \in FlatBlock \cup NestedBlock] == IF b = g THEN 0 ELSE Depth[AllPrev[b]] + 1
FlatIndex == [b \in FlatBlock |-> Depth[b]]
NestedIndex == [b \in NestedBlock |-> Depth[b]]

\* Every block needs the same work.
FlatNextDifficulty == [b \in FlatBlock |-> 1]
NestedNextDifficulty == [b \in NestedBlock |-> 1]
FlatCumulative == [b \in FlatBlock |-> Depth[b] + 1]
NestedCumulative == [b \in NestedBlock |-> Depth[b] + 1]

FlatTxsOf == [b \in FlatBlock |-> {}]
NestedTxsOf == [b \in NestedBlock |-> {}]
FlatCheckpoint == 1 :> a1
MCNone == <<>>
=============================================================================
