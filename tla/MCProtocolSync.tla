----------------------------- MODULE MCProtocolSync -----------------------------
(* Small networks for ProtocolSync *)
EXTENDS ProtocolSync

NoNode(N) == [n \in N |-> {}]

(* Two nodes on different branches of one tree: n1 behind, n2 with the longer
   branch, which finds one more block and pays the transaction t in it *)
PairNodes  == {"n1", "n2"}
PairBlocks == {"g", "a1", "a2", "a3", "a4", "b1"}
PairParent == [g |-> "g", a1 |-> "g", a2 |-> "a1", a3 |-> "a2", a4 |-> "a3", b1 |-> "g"]
PairHeight == [g |-> 0, a1 |-> 1, a2 |-> 2, a3 |-> 3, a4 |-> 4, b1 |-> 1]
PairWeight == [b \in PairBlocks |-> PairHeight[b] + 1]
PairBegin  == [n1 |-> [known |-> {"g", "b1"}, tip |-> "b1"],
               n2 |-> [known |-> {"g", "a1", "a2", "a3"}, tip |-> "a3"]]
PairMines  == [n1 |-> {}, n2 |-> {"a4"}]
PairDials  == {<<"n1", "n2">>}
PairTxsOf  == [b \in PairBlocks |-> IF b = "a4" THEN {"t"} ELSE {}]
PairPays   == [n1 |-> {}, n2 |-> {"t"}]
PairNone   == NoNode(PairNodes)
PairAccepts == [n \in PairNodes |-> PairNodes]

(* A node that synchronises with two others at once, and they with one another.
   n3 finds a3 invalid; n2 finds two more blocks and pays t in the first; n2
   refuses the handshake of n3, which also dials itself *)
TrioNodes  == {"n1", "n2", "n3"}
TrioBlocks == {"g", "a1", "a2", "a3", "a4", "a5"}
TrioParent == [g |-> "g", a1 |-> "g", a2 |-> "a1", a3 |-> "a2", a4 |-> "a3", a5 |-> "a4"]
TrioHeight == [g |-> 0, a1 |-> 1, a2 |-> 2, a3 |-> 3, a4 |-> 4, a5 |-> 5]
TrioWeight == [b \in TrioBlocks |-> TrioHeight[b] + 1]
TrioBegin  == [n1 |-> [known |-> {"g"}, tip |-> "g"],
               n2 |-> [known |-> {"g", "a1", "a2", "a3"}, tip |-> "a3"],
               n3 |-> [known |-> {"g", "a1", "a2"}, tip |-> "a2"]]
TrioRefused == [n1 |-> {}, n2 |-> {}, n3 |-> {"a3"}]
TrioMines  == [n1 |-> {}, n2 |-> {"a4", "a5"}, n3 |-> {}]
TrioTxsOf  == [b \in TrioBlocks |-> IF b = "a4" THEN {"t"} ELSE {}]
TrioPays   == [n1 |-> {}, n2 |-> {"t"}, n3 |-> {}]
TrioDials  == {<<"n1", "n2">>, <<"n1", "n3">>, <<"n3", "n2">>, <<"n3", "n3">>}
TrioAccepts == [n1 |-> TrioNodes, n2 |-> {"n1", "n2"}, n3 |-> TrioNodes]

(* Bound: one of the three at a time, the two downloads, the announcements of n2
   or a dial of n3 that miscounts *)
TrioApart ==
    LET downloads == Live(<<"n1", "n3", "out">>) \/ Live(<<"n3", "n1", "in">>)
        announces == core["n2"] # TrioBegin["n2"] \/ pool["n2"] # {}
    IN  /\ downloads => ~announces /\ breaks = 0
        /\ announces => breaks = 0

=============================================================================
