------------------------------ MODULE Mempool ------------------------------
(***************************************************************************)
(* The memory pool of a node, composed with its block chain: what          *)
(* AcceptTransaction takes in or replaces (BIP125), the orphan             *)
(* transactions, what a new best chain puts back and takes out, and the    *)
(* block a miner would build.                                              *)
(*                                                                         *)
(* The pool is in memory only.  Its maps are locked by cs_mapTransactions, *)
(* inside handlers that hold cs_main: a transaction is never processed in  *)
(* the middle of a block, and a miner reads the pool between handlers.     *)
(***************************************************************************)
EXTENDS Chain, SequencesExt

CONSTANTS
  Standard,                  \* passes CheckTransaction, IsStandard and the sigop limit
  Replaceable,               \* SignalsReplacement
  Size,                      \* serialized size
  RelayFee,                  \* FeeForSize(MIN_RELAY_FEE_PER_KB, size)
  MinFee,                    \* GetMinFee(false)
  FREE_SIZE, FREE_TRANSACTIONS,  \* the discount of GetMinFee(true)
  MAX_MEMPOOL_TRANSACTIONS, MAX_REPLACED_TXS, MAX_ORPHAN_TRANSACTIONS,
  MAX_BLOCK_SIZE

ASSUME PoolAssumption ==
  /\ Standard \subseteq Txs /\ Replaceable \subseteq Txs
  /\ Size \in [Txs -> Nat \ {0}] /\ RelayFee \in [Txs -> Nat \ {0}] /\ MinFee \in [Txs -> Nat]
  /\ {MAX_MEMPOOL_TRANSACTIONS, MAX_REPLACED_TXS, MAX_ORPHAN_TRANSACTIONS,
      MAX_BLOCK_SIZE, FREE_SIZE, FREE_TRANSACTIONS} \subseteq Nat

VARIABLES
  pool,       \* mapTransactions
  nextTx,     \* mapNextTx: the pool transaction that spends an outpoint
  orphanTxs,  \* mapOrphanTransactions
  txQueue,    \* vWorkQueue of the "tx" handler under way, from position i on
  tried,      \* orphans of its head that were tried
  taken,      \* the whole of vWorkQueue
  back, gone  \* vResurrect and vDelete of the Reorganize under way

poolVars == <<pool, nextTx, orphanTxs, txQueue, tried, taken, back, gone>>
nodeVars == <<vars, poolVars>>

----------------------------------------------------------------------------
(* mapTransactions and mapNextTx.                                          *)

AddToMemoryPool(t) ==
  /\ pool' = pool \cup {t}
  /\ nextTx' = [o \in Outpoints |-> IF o \in In[t] THEN t ELSE nextTx[o]]

\* The entries go whatever transaction they name.
RemoveFromMemoryPool(t) ==
  /\ pool' = pool \ {t}
  /\ nextTx' = [o \in Outpoints |-> IF o \in In[t] THEN None ELSE nextTx[o]]

\* Mutant: the entries of what is replaced stay.
ReplaceKeepsEntries(S, t) ==
  /\ pool' = (pool \ S) \cup {t}
  /\ nextTx' = [o \in Outpoints |-> IF o \in In[t] THEN t ELSE nextTx[o]]

\* RemoveFromMemoryPool of each of S, then AddToMemoryPool.
Replace(S, t) ==
  /\ pool' = (pool \ S) \cup {t}
  /\ nextTx' = [o \in Outpoints |->
                  IF o \in In[t] THEN t
                  ELSE IF \E h \in S : o \in In[h] THEN None ELSE nextTx[o]]

----------------------------------------------------------------------------
(* AcceptTransaction.                                                      *)

Conflicts(t) == {nextTx[o] : o \in In[t]} \ {None}

\* What may be replaced at all, before any money is counted.
MayReplace(S) ==
  /\ Cardinality(S) <= MAX_REPLACED_TXS
  /\ S \subseteq Replaceable
  /\ \A h \in S : \A o \in Outpoints : o[1] = h => nextTx[o] = None

\* The input exists, in the index or in the pool, and its age and its script
\* let it be spent in the next block.
InputConnects(t, o) ==
  /\ db.pos[o[1]] # None \/ o[1] \in pool
  /\ o[2] \in DOMAIN Out[o[1]]
  /\ IF db.pos[o[1]] # None
       THEN /\ ~ Immature(o[1], db.pos[o[1]], best)
            /\ SequenceLockPasses(t, db.pos[o[1]], best)
            /\ db.spent[o] = None
       ELSE Lock[t] = 0

\* ConnectInputs with neither fBlock nor fMiner: spent pointers of the index
\* only; what else in the pool spends the input is Conflicts' business.
PoolInputsConnect(t) ==
  /\ \A o \in In[t] : InputConnects(t, o)
  /\ t \in ScriptsOk
  /\ ValueIn(t) >= ValueOut(t)

\* GetMempoolTxFee, where it has an answer.
Fee == [t \in Txs |-> ValueIn(t) - ValueOut(t)]
HasFee(t) ==
  /\ \A o \in In[t] : (o[1] \in pool \/ db.pos[o[1]] # None) /\ o[2] \in DOMAIN Out[o[1]]
  /\ Fee[t] >= 0

\* Mutant: only the fee per byte counts.
ReplacementPaysRate(t, S) == \A h \in S : Fee[t] * Size[h] > Fee[h] * Size[t]

ReplacementPaysEnough(t, S) ==
  /\ \A h \in S : Fee[t] * Size[h] > Fee[h] * Size[t]
  /\ Fee[t] >= SumFunctionOnSet(Fee, S) + RelayFee[t]

\* AcceptTransaction(fCheckInputs = true) gets as far as ConnectInputs.
ReachesInputs(t) ==
  /\ ~ IsCoinBase(t) /\ t \in Standard
  /\ t \notin pool /\ db.pos[t] = None
  /\ Conflicts(t) # {} => MayReplace(Conflicts(t))

\* ... and through the rest of it.
Accepts(t) ==
  /\ ReachesInputs(t) /\ PoolInputsConnect(t)
  /\ IF Conflicts(t) = {}
       THEN Cardinality(pool) < MAX_MEMPOOL_TRANSACTIONS \/ Fee[t] >= MinFee[t]
       ELSE /\ \A h \in Conflicts(t) : HasFee(h)
            /\ ReplacementPaysEnough(t, Conflicts(t))

\* AcceptTransaction(fCheckInputs = false).
AcceptsUnchecked(t) ==
  /\ ~ IsCoinBase(t) /\ t \in Standard
  /\ t \notin pool /\ Conflicts(t) = {}

----------------------------------------------------------------------------
(* The "tx" message.                                                       *)

\* cs_main is free, and no memory of a finished handler is left over.
Quiet == Idle /\ queue = <<>> /\ txQueue = <<>> /\ back = {} /\ gone = {}

AcceptTx(t) ==
  /\ Quiet /\ Accepts(t)
  /\ Replace(Conflicts(t), t)
  /\ txQueue' = <<t>> /\ tried' = {} /\ taken' = {t}
  /\ UNCHANGED <<orphanTxs, back, gone>>

\* AddOrphanTx with LimitOrphanTx: whatever made ConnectInputs fail counts as
\* a missing input.
AddOrphanTx(t) ==
  /\ Quiet /\ ReachesInputs(t) /\ ~ PoolInputsConnect(t)
  /\ LET held == orphanTxs \cup {t} IN
     IF Cardinality(held) <= MAX_ORPHAN_TRANSACTIONS
       THEN orphanTxs' = held
       ELSE \E e \in held : orphanTxs' = held \ {e}
  /\ UNCHANGED <<pool, nextTx, txQueue, tried, taken, back, gone>>

RefuseTx(t) ==
  /\ Quiet
  /\ ~ ReachesInputs(t) \/ (PoolInputsConnect(t) /\ ~ Accepts(t))
  /\ UNCHANGED poolVars

\* An orphan that spends the transaction at the head of the queue.
TryOrphan(t) ==
  /\ txQueue # <<>> /\ t \in orphanTxs \ tried
  /\ \E o \in In[t] : o[1] = Head(txQueue)
  /\ tried' = tried \cup {t}
  /\ IF Accepts(t)
       THEN /\ Replace(Conflicts(t), t)
            /\ txQueue' = Append(txQueue, t) /\ taken' = taken \cup {t}
       ELSE UNCHANGED <<pool, nextTx, txQueue, taken>>
  /\ UNCHANGED <<orphanTxs, back, gone>>

\* The next in the queue; after the last, EraseOrphanTx of all that got in.
NextTx ==
  /\ txQueue # <<>>
  /\ \A t \in orphanTxs \ tried : \A o \in In[t] : o[1] # Head(txQueue)
  /\ txQueue' = Tail(txQueue) /\ tried' = {}
  /\ IF Len(txQueue) = 1
       THEN orphanTxs' = orphanTxs \ taken /\ taken' = {}
       ELSE UNCHANGED <<orphanTxs, taken>>
  /\ UNCHANGED <<pool, nextTx, back, gone>>

----------------------------------------------------------------------------
(* A new best chain.                                                       *)

TxsOf(S) == UNION {Range(Vtx[b]) : b \in S}

\* Mutant: vDelete is never filled.
ReorganizedForgets ==
  /\ back' = {t \in TxsOf(Anc[best] \ Anc[new]) : ~ IsCoinBase(t) /\ new \notin Anc[best]}
  /\ gone' = {}
  /\ UNCHANGED <<pool, nextTx, orphanTxs, txQueue, tried, taken>>

\* Reorganize has committed: the transactions of the branch that went are to
\* be put back, those of the branch that came to be taken out.  The repair at
\* start does neither.
Reorganized ==
  /\ back' = {t \in TxsOf(Anc[best] \ Anc[new]) : ~ IsCoinBase(t) /\ new \notin Anc[best]}
  /\ gone' = TxsOf(Anc[new] \ Anc[best])
  /\ UNCHANGED <<pool, nextTx, orphanTxs, txQueue, tried, taken>>

\* Within one branch no two transactions conflict, so their order does not
\* matter; each goes back without a look at its inputs.
Resurrect(t) ==
  /\ t \in back
  /\ back' = back \ {t}
  /\ IF AcceptsUnchecked(t) THEN AddToMemoryPool(t) ELSE UNCHANGED <<pool, nextTx>>
  /\ UNCHANGED <<orphanTxs, txQueue, tried, taken, gone>>

TakeOut(t) ==
  /\ back = {} /\ t \in gone
  /\ gone' = gone \ {t}
  /\ RemoveFromMemoryPool(t)
  /\ UNCHANGED <<orphanTxs, txQueue, tried, taken, back>>

PoolLost ==
  /\ pool' = {} /\ nextTx' = [o \in Outpoints |-> None] /\ orphanTxs' = {}
  /\ txQueue' = <<>> /\ tried' = {} /\ taken' = {} /\ back' = {} /\ gone' = {}

----------------------------------------------------------------------------
(* The block BitcoinMiner and the pool server build.                       *)

\* MempoolByFeeRate: best fee per byte first, the hash decides between equals.
Rate(t) == IF HasFee(t) THEN (Fee[t] * 1000) \div Size[t] ELSE 0
FeeOrders ==
  {s \in SetToSeqs(pool) : \A i, j \in DOMAIN s : i < j => Rate(s[i]) >= Rate(s[j])}

\* GetMinFee with the discount for the first transactions of the block, of
\* which the coinbase is one.
GetMinFee(m, t) ==
  IF Len(m.vtx) + 1 < FREE_TRANSACTIONS /\ Size[t] < FREE_SIZE THEN 0 ELSE MinFee[t]

\* Mutant: no look at what the block under construction spends already.
MinerTakesTwice(m, t) ==
  /\ t \notin Range(m.vtx)
  /\ m.size + Size[t] <= MAX_BLOCK_SIZE
  /\ t \in ScriptsOk
  /\ \A o \in In[t] :
       /\ o[1] \in Range(m.vtx) \/ db.pos[o[1]] # None
       /\ o[2] \in DOMAIN Out[o[1]]
       /\ db.pos[o[1]] # None => db.spent[o] = None
       /\ o[1] \in Range(m.vtx) => Lock[t] = 0
  /\ Fee[t] >= GetMinFee(m, t)

\* ConnectInputs with fMiner, against mapTestPool and then the index.
MinerTakes(m, t) ==
  /\ t \notin Range(m.vtx)
  /\ m.size + Size[t] <= MAX_BLOCK_SIZE
  /\ t \in ScriptsOk
  /\ \A o \in In[t] :
       /\ o[1] \in Range(m.vtx) \/ db.pos[o[1]] # None
       /\ o[2] \in DOMAIN Out[o[1]]
       /\ o \notin m.spent
       /\ IF o[1] \in Range(m.vtx)
            THEN Lock[t] = 0
            ELSE /\ ~ Immature(o[1], db.pos[o[1]], best)
                 /\ SequenceLockPasses(t, db.pos[o[1]], best)
                 /\ db.spent[o] = None
  /\ Fee[t] >= GetMinFee(m, t)

MinerStep(m, t) ==
  IF MinerTakes(m, t)
    THEN [vtx |-> Append(m.vtx, t), spent |-> m.spent \cup In[t],
          size |-> m.size + Size[t], fees |-> m.fees + Fee[t]]
    ELSE m

\* Passes over the pool until one finds nothing; each but the last finds one.
Template(order) ==
  LET pass[n \in 0 .. Len(order)] ==
        IF n = 0 THEN [vtx |-> <<>>, spent |-> {}, size |-> 0, fees |-> 0]
                 ELSE FoldLeft(MinerStep, pass[n - 1], order)
  IN pass[Len(order)]

----------------------------------------------------------------------------
\* Mutant: the map starts without its keys.
PoolInitNoMap ==
  /\ pool = {} /\ nextTx = <<>> /\ orphanTxs = {}
  /\ txQueue = <<>> /\ tried = {} /\ taken = {} /\ back = {} /\ gone = {}

PoolInit ==
  /\ pool = {} /\ nextTx = [o \in Outpoints |-> None] /\ orphanTxs = {}
  /\ txQueue = <<>> /\ tried = {} /\ taken = {} /\ back = {} /\ gone = {}

\* What a step of the chain means for the pool.
PoolFollows ==
  IF pc = "commit" /\ pc' = "idle" THEN Reorganized
  ELSE IF pc' = "down" THEN PoolLost ELSE UNCHANGED poolVars

ChainStep == txQueue = <<>> /\ back = {} /\ gone = {} /\ Next /\ PoolFollows

PoolStep ==
  /\ \E t \in Txs : TryOrphan(t) \/ Resurrect(t) \/ TakeOut(t)
  /\ UNCHANGED vars

ReceiveTx ==
  /\ \E t \in Txs : AcceptTx(t) \/ AddOrphanTx(t) \/ RefuseTx(t)
  /\ UNCHANGED vars

NodeNext == ChainStep \/ PoolStep \/ (NextTx /\ UNCHANGED vars) \/ ReceiveTx

NodeInit == Init /\ PoolInit

NodeSpec == NodeInit /\ [][NodeNext]_nodeVars
----------------------------------------------------------------------------
(* Properties.                                                             *)

\* Type invariant of the pool's maps and of the handlers that work on them.
PoolTypeOK ==
  /\ pool \subseteq Txs /\ orphanTxs \subseteq Txs
  /\ nextTx \in [Outpoints -> Txs \cup {None}]
  /\ txQueue \in Seq(Txs) /\ tried \subseteq Txs /\ taken \subseteq Txs
  /\ back \subseteq Txs /\ gone \subseteq Txs

\* mapNextTx holds pointers into mapTransactions.  None of them outlives the
\* transaction it points at, though removals erase entries they do not own.
NextTxAlive == \A o \in Outpoints : nextTx[o] # None => nextTx[o] \in pool /\ o \in In[nextTx[o]]

\* A transaction of the chain does not wait in the pool: through replacement,
\* orphans, reorganizations that put it back and blocks that carry it again.
PoolNotConfirmed == Quiet => \A t \in pool : db.pos[t] = None

\* Between handlers no two transactions of the pool spend the same output
\* ("Conflicts with what is already waiting: a replacement (BIP125), or not
\* at all" in AcceptTransaction).
NoPoolConflict == Quiet => \A s, t \in pool : In[s] \cap In[t] # {} => s = t

\* A transaction leaves the pool for a block, with the process, or for one
\* replacement that pays more than all it drops together, each of which it
\* conflicts with (ReplacementPaysEnough, MAX_REPLACED_TXS).
ReplacementPays ==
  [][LET out == pool \ pool' IN
     out # {} /\ gone = {} /\ pc' # "down" =>
        \E t \in pool' \ pool : /\ pool' \ pool = {t}
                                /\ Fee[t] > SumFunctionOnSet(Fee, out)
                                /\ \A s \in out : In[s] \cap In[t] # {}]_nodeVars

----------------------------------------------------------------------------
(* The inductive invariant behind PoolNotConfirmed.                        *)

\* Between the commit and the end of vDelete the pool, and what is still to
\* be put back, may hold a transaction of the new chain, but only one that is
\* still to be taken out.
PoolInv ==
  /\ PoolTypeOK /\ NextTxAlive
  /\ \A t \in pool \cup back : db.pos[t] # None => t \in gone
=============================================================================
