----------------------------- MODULE MCMempool -----------------------------
(***************************************************************************)
(* A small tree of blocks and the transactions around it, for Mempool.     *)
(***************************************************************************)
EXTENDS Mempool, MCChain

\* Two branches on p1: a2 confirms tb and its child tx, b3 confirms tr.
PoolPrev == [G |-> "G", p1 |-> "G", a2 |-> "p1", b2 |-> "p1", b3 |-> "b2"]
PoolBlocks == DOMAIN PoolPrev
PoolAnc == AncOf(PoolPrev)
PoolHeight == HeightOf(PoolPrev)
PoolVtx == [G |-> <<"cG">>, p1 |-> <<"c1">>, a2 |-> <<"ca2", "tb", "tx">>, b2 |-> <<"cb2">>,
            b3 |-> <<"cb3", "tr">>]

\* ta spends the first two outputs of c1, tb the first, tr the second, tn the
\* third; tk is a child of ta; te, with a lock of one block, and tx are children
\* of tb, and tx spends the third output of c1 too.
PoolOut == [cG |-> <<12>>, c1 |-> <<3, 5, 4>>, ca2 |-> <<12>>, cb2 |-> <<12>>, cb3 |-> <<12>>,
            ta |-> <<5>>, tb |-> <<1>>, tr |-> <<0>>, tk |-> <<4>>, te |-> <<0>>, tx |-> <<0>>, tn |-> <<3>>]
PoolTxs == DOMAIN PoolOut
PoolIn == [t \in PoolTxs |-> CASE t = "ta" -> {<<"c1", 1>>, <<"c1", 2>>}
                               [] t = "tb" -> {<<"c1", 1>>}
                               [] t = "tr" -> {<<"c1", 2>>}
                               [] t = "tk" -> {<<"ta", 1>>}
                               [] t = "te" -> {<<"tb", 1>>}
                               [] t = "tx" -> {<<"tb", 1>>, <<"c1", 3>>}
                               [] t = "tn" -> {<<"c1", 3>>}
                               [] OTHER -> {}]
PoolLock == [t \in PoolTxs |-> IF t = "te" THEN 1 ELSE 0]
PoolCbHeight == CbHeightOf(PoolVtx, PoolHeight)
PoolReplaceable == {"ta", "tb", "te", "tn"}
PoolSize == [t \in PoolTxs |-> IF t = "ta" THEN 4 ELSE 1]
PoolRelayFee == [t \in PoolTxs |-> 1]
PoolMinFee == [t \in PoolTxs |-> 2]

\* The block a miner would build on the best block spends only coins that
\* exist there, and its coinbase claims the fees that are really paid: at any
\* moment the miner can take cs_main, with whatever conflicting or resurrected
\* transactions the pool then holds.
TemplateConnects ==
  Quiet =>
    \A order \in FeeOrders :
       LET m == Template(order)
           end == FoldLeft(LAMBDA s, t : SpendTx(s, t, Height[best] + 1),
                           [Reference[best] EXCEPT !.fees = 0], m.vtx)
       IN end.ok /\ end.fees = m.fees
=============================================================================
