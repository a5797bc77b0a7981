---------------------------- MODULE MCWalletSync ----------------------------
(***************************************************************************)
(* Small block trees for WalletSync.  Every tree starts at block g, height *)
(* 0, and a1 on top of it.                                                 *)
(***************************************************************************)
EXTENDS WalletSync, TLC

CONSTANTS g, a1, a2, a3, a4, b2, b3, b4,   \* blocks
          c1, c2, c3, c4, c5, t1, t2,      \* transactions
          o1, o2, o3, p1, p2               \* outputs

(* A fork at height 2.  The branches share the payment c2 and the spending c3
   (made with another copy of the keys) at different heights; c4 pays on one of
   them and c5 spends on the other.  b2 is heavier than the higher a3, and a4
   heavier than b3, so the daemon may leave a branch and come back to it. *)
ForkParent == g :> g @@ a1 :> g @@ a2 :> a1 @@ a3 :> a2 @@ a4 :> a3 @@ b2 :> a1 @@ b3 :> b2 @@ b4 :> b3
ForkHeight == g :> 0 @@ a1 :> 1 @@ a2 :> 2 @@ a3 :> 3 @@ a4 :> 4 @@ b2 :> 2 @@ b3 :> 3 @@ b4 :> 4
ForkWeight == g :> 1 @@ a1 :> 2 @@ a2 :> 3 @@ a3 :> 4 @@ a4 :> 7 @@ b2 :> 5 @@ b3 :> 6 @@ b4 :> 8
ForkTxs    == g :> {} @@ a1 :> {c1} @@ a2 :> {c2} @@ a3 :> {c3} @@ a4 :> {c5}
              @@ b2 :> {c4} @@ b3 :> {c2} @@ b4 :> {c3}
ForkOuts   == c1 :> {o1} @@ c2 :> {o2} @@ c3 :> {} @@ c4 :> {o3} @@ c5 :> {}
ForkIns    == c1 :> {} @@ c2 :> {} @@ c3 :> {o1} @@ c4 :> {} @@ c5 :> {o2}
ForkUnlock == o1 :> 0 @@ o2 :> 0 @@ o3 :> 0

(* c1 pays o1 and o2; t1 spends o1 with change p1, t2 spends o1 and o2 with
   change p2.  The daemon may mine either, on a branch of its own, and b2 is
   heavier than a3. *)
SendParent == g :> g @@ a1 :> g @@ a2 :> a1 @@ a3 :> a2 @@ b2 :> a1
SendHeight == g :> 0 @@ a1 :> 1 @@ a2 :> 2 @@ a3 :> 3 @@ b2 :> 2
SendWeight == g :> 1 @@ a1 :> 2 @@ a2 :> 3 @@ a3 :> 4 @@ b2 :> 5
SendTxs    == g :> {} @@ a1 :> {c1} @@ a2 :> {t1} @@ a3 :> {} @@ b2 :> {t2}
SendOuts   == c1 :> {o1, o2} @@ t1 :> {p1} @@ t2 :> {p2}
SendIns    == c1 :> {} @@ t1 :> {o1} @@ t2 :> {o1, o2}
SendUnlock == o1 :> 0 @@ o2 :> 2 @@ p1 :> 0 @@ p2 :> 0

(* One chain, with blocks that hold nothing sent. *)
LineParent == g :> g @@ a1 :> g @@ a2 :> a1 @@ a3 :> a2 @@ a4 :> a3
LineHeight == g :> 0 @@ a1 :> 1 @@ a2 :> 2 @@ a3 :> 3 @@ a4 :> 4
LineTxs    == g :> {} @@ a1 :> {c1} @@ a2 :> {c2} @@ a3 :> {} @@ a4 :> {}
LineOuts   == c1 :> {o1} @@ c2 :> {o2} @@ t1 :> {p1}
LineIns    == c1 :> {} @@ c2 :> {} @@ t1 :> {o1}
LineUnlock == o1 :> 0 @@ o2 :> 0 @@ p1 :> 0
=============================================================================
