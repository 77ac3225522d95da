------------------------------ MODULE MCChain ------------------------------
(***************************************************************************)
(* Small block trees for Chain.  A block is named after its branch and its *)
(* height, a coinbase after its block.                                     *)
(***************************************************************************)
EXTENDS Chain

\* The ancestors and the heights that a tree of parents implies.
AncOf(prev) ==
  LET anc[b \in DOMAIN prev] == IF b = "G" THEN {b} ELSE anc[prev[b]] \cup {b} IN anc
HeightOf(prev) ==
  LET h[b \in DOMAIN prev] == IF b = "G" THEN 0 ELSE 1 + h[prev[b]] IN h

CbHeightOf(vtx, height) ==
  [t \in Txs |-> IF \E b \in DOMAIN vtx : vtx[b][1] = t
                   THEN height[CHOOSE b \in DOMAIN vtx : vtx[b][1] = t] ELSE -1]
AllTxs == Txs
AllBlocks == Blocks

----------------------------------------------------------------------------
(* Fork: two branches from p2 that spend the same coinbase.  x4 spends it  *)
(* a second time and y5 builds on x4; a5 spends a coinbase too early, z4   *)
(* an output whose lock has not passed; c5 pays itself more than it may.   *)

ForkPrev == [G |-> "G", p1 |-> "G", p2 |-> "p1", a3 |-> "p2", a4 |-> "a3", a5 |-> "a4",
             b3 |-> "p2", b4 |-> "b3", b5 |-> "b4", c5 |-> "b4", x4 |-> "b3", y5 |-> "x4", z4 |-> "b3"]
ForkBlocks == DOMAIN ForkPrev
ForkAnc == AncOf(ForkPrev)
ForkHeight == HeightOf(ForkPrev)

\* ta and tb conflict, tc spends tb in the same block, td is on both branches,
\* te spends tb with a lock of two blocks, tm spends a4's coinbase; b3's
\* coinbase takes the fee of tb.
ForkVtx == [G |-> <<"cG">>, p1 |-> <<"c1">>, p2 |-> <<"c2">>,
            a3 |-> <<"ca3", "ta">>, a4 |-> <<"ca4", "td">>, a5 |-> <<"ca5", "tm">>,
            b3 |-> <<"cb3", "tb", "tc">>, b4 |-> <<"cb4", "td">>, b5 |-> <<"cb5", "te">>, c5 |-> <<"cc5">>,
            x4 |-> <<"cx4", "td", "ta">>, y5 |-> <<"cy5">>, z4 |-> <<"cz4", "te">>]
ForkOut == [cG |-> <<4>>, c1 |-> <<4>>, c2 |-> <<4>>, ca3 |-> <<4>>, ca4 |-> <<2>>, ca5 |-> <<2>>,
            cb3 |-> <<5>>, cb4 |-> <<2>>, cb5 |-> <<2>>, cc5 |-> <<3>>, cx4 |-> <<2>>, cy5 |-> <<2>>, cz4 |-> <<2>>,
            ta |-> <<4>>, tb |-> <<1, 2>>, tc |-> <<1>>, td |-> <<4>>, te |-> <<2>>, tm |-> <<2>>]
ForkTxs == DOMAIN ForkOut
ForkIn == [t \in ForkTxs |-> CASE t \in {"ta", "tb"} -> {<<"c1", 1>>}
                               [] t = "tc" -> {<<"tb", 1>>}
                               [] t = "td" -> {<<"c2", 1>>}
                               [] t = "te" -> {<<"tb", 2>>}
                               [] t = "tm" -> {<<"ca4", 1>>}
                               [] OTHER -> {}]
ForkLock == [t \in ForkTxs |-> IF t \in {"td", "te"} THEN 2 ELSE 0]
ForkCbHeight == CbHeightOf(ForkVtx, ForkHeight)

----------------------------------------------------------------------------
(* Broken: the a branch is good (under a later build a3 is not), x2 pays   *)
(* out more than it takes in and has two children with a child each.       *)

BrokenPrev == [G |-> "G", p1 |-> "G", a2 |-> "p1", a3 |-> "a2", a4 |-> "a3",
               x2 |-> "p1", y3 |-> "x2", y4 |-> "y3", z3 |-> "x2", z4 |-> "z3"]
BrokenBlocks == DOMAIN BrokenPrev
BrokenAnc == AncOf(BrokenPrev)
BrokenHeight == HeightOf(BrokenPrev)
BrokenVtx == [G |-> <<"cG">>, p1 |-> <<"c1">>, a2 |-> <<"ca2", "ta">>, a3 |-> <<"ca3">>,
              a4 |-> <<"ca4">>, x2 |-> <<"cx2", "tx">>, y3 |-> <<"cy3">>, y4 |-> <<"cy4">>,
              z3 |-> <<"cz3">>, z4 |-> <<"cz4">>]
BrokenTxs == {BrokenVtx[b][1] : b \in BrokenBlocks} \cup {"ta", "tx"}
BrokenOut == [t \in BrokenTxs |-> IF t = "tx" THEN <<5>> ELSE <<4>>]
BrokenIn == [t \in BrokenTxs |-> IF t \in {"ta", "tx"} THEN {<<"c1", 1>>} ELSE {}]
BrokenLock == [t \in BrokenTxs |-> 0]
BrokenCbHeight == CbHeightOf(BrokenVtx, BrokenHeight)
BrokenStrict == BrokenBlocks \ {"a3"}

----------------------------------------------------------------------------
(* Own: s1 spends its own coinbase.                                        *)

OwnPrev == [G |-> "G", s1 |-> "G"]
OwnBlocks == DOMAIN OwnPrev
OwnAnc == AncOf(OwnPrev)
OwnHeight == HeightOf(OwnPrev)
OwnVtx == [G |-> <<"cG">>, s1 |-> <<"cs1", "ts">>]
OwnOut == [cG |-> <<4>>, cs1 |-> <<4>>, ts |-> <<4>>]
OwnTxs == DOMAIN OwnOut
OwnIn == [cG |-> {}, cs1 |-> {}, ts |-> {<<"cs1", 1>>}]
OwnLock == [t \in OwnTxs |-> 0]
OwnCbHeight == CbHeightOf(OwnVtx, OwnHeight)

=============================================================================
