--------------------------- MODULE MempoolProofs ---------------------------
(***************************************************************************)
(* Proofs about Mempool, for every tree of blocks, every set of            *)
(* transactions and every limit of the pool.  They rest on the invariant   *)
(* of the chain (ChainProofs): what a reorganization takes out of the pool *)
(* is right because the committed index is that of the committed chain.    *)
(***************************************************************************)
EXTENDS Mempool, ChainProofs

----------------------------------------------------------------------------
(* What the chain does to its transaction index.                           *)

\* A step of the node is a step of its chain, or leaves the chain alone.
LEMMA NodeStepIsChainStep == [NodeNext]_nodeVars => [Next]_vars
BY DEF NodeNext, nodeVars, ChainStep, PoolStep, ReceiveTx

\* Two views of the same chain give every transaction the same block.
LEMMA SameChainSamePos ==
  ASSUME NEW d \in DbType, NEW e \in DbType, NEW a \in Blocks,
         View(d, a, None, 0), View(e, a, None, 0)
  PROVE  d.pos = e.pos
<1>1. d.pos \in [Txs -> Blocks \cup {None}] /\ e.pos \in [Txs -> Blocks \cup {None}]
  BY DEF DbType
<1>2. ASSUME NEW t \in Txs, NEW b \in Blocks
      PROVE  d.pos[t] = b <=> e.pos[t] = b
  BY DEF View, PosOK
<1>3. ASSUME NEW t \in Txs
      PROVE  d.pos[t] = e.pos[t]
  BY <1>1, <1>2
<1> QED
  BY <1>1, <1>3

\* Only Commit moves hashBestChain, and it ends the reorganization.
LEMMA BestMovesAtCommit ==
  ASSUME IndInv, Next
  PROVE  /\ pc = "commit" /\ pc' = "idle" => Commit
         /\ ~ (pc = "commit" /\ pc' = "idle") => db'.best = db.best
<1>1. db \in DbType /\ txn.best = db.best
  BY DEF IndInv, TypeOK, JobOK
<1>2. ASSUME NEW b \in Blocks, AcceptBlock(b) \/ FollowFreedEntry(b) \/ RefuseBlock(b)
                                 \/ StoreOrphan(b) \/ RefuseOrphan(b)
      PROVE  pc # "commit" /\ db' = db
  BY <1>2 DEF AcceptBlock, FollowFreedEntry, RefuseBlock, StoreOrphan, RefuseOrphan, Arrives, Idle,
              ProcessEnds, vars
<1>3. ASSUME NextInQueue \/ AddWithoutFork \/ AddNewBest \/ DisconnectTx \/ DisconnectBlock \/ ConnectTx
               \/ ConnectBlock \/ ConnectFails \/ ReadFails \/ ReadNullBlock \/ EraseBlockFromDisk
      PROVE  pc # "commit" /\ db' = db
  BY <1>3 DEF NextInQueue, AddWithoutFork, AddNewBest, DisconnectTx, DisconnectBlock, ConnectTx,
              ConnectBlock, ConnectFails, ReadFails, ReadNullBlock, EraseBlockFromDisk, ProcessEnds, Idle
<1>4. CASE AddSideBlock
  BY <1>1, <1>4 DEF AddSideBlock
<1>5. CASE EraseBlockIndex
  <2>1. db'.best = db.best
    BY <1>1, <1>5 DEF EraseBlockIndex, DbType
  <2> QED
    BY <1>5, <2>1 DEF EraseBlockIndex
<1>6. CASE Restart \/ \E kind \in CrashKinds : Crash(kind)
  BY <1>6 DEF Restart, Crash, ProcessEnds, Rest
<1>7. CASE Commit
  BY <1>7 DEF Commit, Rest
<1> QED
  BY <1>2, <1>3, <1>4, <1>5, <1>6, <1>7 DEF Next, HandlerStep, ReceiveBlock

\* At the commit: what the new chain has and the old one had not is in vDelete,
\* and what is put back was not on the part both have in common.
LEMMA CommitTakesOut ==
  ASSUME IndInv, IndInv', Commit, Reorganized,
         NEW t \in Txs, db'.pos[t] # None, db.pos[t] = None \/ t \in back'
  PROVE  t \in gone'
<1>1. /\ View(db, best, None, 0) /\ View(db', new, None, 0)
      /\ db'.pos[t] \in Blocks /\ best \in Blocks /\ new \in Blocks
  <2>1. db'.best = new /\ new \in Blocks /\ best = db.best /\ best \in Blocks
    BY DEF Commit, IndInv, TypeOK, JobOK, DbType
  <2>2. db'.pos[t] \in Blocks
    BY DEF IndInv, TypeOK, DbType
  <2> QED
    BY <2>1, <2>2 DEF IndInv
<1>2. PICK b \in Blocks : b = db'.pos[t]
  BY <1>1
<1>3. PICK i \in DOMAIN Vtx[b] : Vtx[b][i] = t /\ b \in Anc[new] /\ b # Genesis
  <2>1. \E i \in DOMAIN Vtx[b] : Applied(b, i, new, None, 0) /\ Vtx[b][i] = t
    BY <1>1, <1>2 DEF View, PosOK
  <2> QED
    BY <2>1, Basics DEF Applied
<1>4. b \in Anc[best] => db.pos[t] = b
  BY <1>1, <1>3 DEF View, PosOK, Applied
<1>5. ASSUME t \in back'
      PROVE  \E c \in Anc[best] \ Anc[new] : db.pos[t] = c
  <2>1. PICK c \in Anc[best] \ Anc[new] : t \in Range(Vtx[c])
    BY <1>5 DEF Reorganized, TxsOf
  <2>2. PICK j \in DOMAIN Vtx[c] : Vtx[c][j] = t
    BY <2>1 DEF Range
  <2>3. c \in Blocks /\ c # Genesis
    BY <1>1, <2>1, Basics
  <2>4. Applied(c, j, best, None, 0)
    BY <2>1, <2>2, <2>3 DEF Applied
  <2> QED
    BY <1>1, <2>1, <2>2, <2>3, <2>4 DEF View, PosOK
<1>6. b \notin Anc[best]
  BY <1>3, <1>4, <1>5, Basics
<1> QED
  BY <1>3, <1>6 DEF Reorganized, TxsOf, Range

----------------------------------------------------------------------------
(* What the pool's own steps keep.                                         *)

\* A replacement leaves no entry of what it drops (RemoveFromMemoryPool of
\* each conflict, AddToMemoryPool of the new one).
LEMMA ReplaceKeeps ==
  ASSUME PoolTypeOK, NextTxAlive, NEW t \in Txs, Replace(Conflicts(t), t)
  PROVE  /\ pool' \subseteq Txs /\ nextTx' \in [Outpoints -> Txs \cup {None}]
         /\ pool' \subseteq pool \cup {t}
         /\ NextTxAlive'
<1> DEFINE S == Conflicts(t)
<1>1. pool' = (pool \ S) \cup {t}
  BY DEF Replace
<1>2. nextTx' \in [Outpoints -> Txs \cup {None}]
  BY DEF Replace, PoolTypeOK
<1>3. ASSUME NEW o \in Outpoints, nextTx'[o] # None
      PROVE  nextTx'[o] \in pool' /\ o \in In[nextTx'[o]]
  <2>1. CASE o \in In[t]
    BY <1>1, <2>1 DEF Replace
  <2>2. CASE o \notin In[t]
    <3>1. nextTx'[o] = nextTx[o] /\ ~ \E h \in S : o \in In[h]
      BY <1>3, <2>2 DEF Replace
    <3>2. nextTx[o] \in pool /\ o \in In[nextTx[o]]
      BY <1>3, <3>1 DEF NextTxAlive
    <3> QED
      BY <1>1, <3>1, <3>2
  <2> QED
    BY <2>1, <2>2
<1> QED
  BY <1>1, <1>2, <1>3 DEF PoolTypeOK, NextTxAlive

\* A transaction taken in by its inputs is not in the index.
LEMMA AcceptsFresh == ASSUME NEW t, Accepts(t) PROVE db.pos[t] = None
BY DEF Accepts, ReachesInputs

LEMMA PoolInitInv == NodeInit => PoolInv
BY DEF NodeInit, PoolInit, PoolInv, PoolTypeOK, NextTxAlive

\* The "tx" handler.
LEMMA TxKeeps ==
  ASSUME PoolInv, NEW t \in Txs, UNCHANGED db,
         AcceptTx(t) \/ AddOrphanTx(t) \/ RefuseTx(t) \/ TryOrphan(t)
  PROVE  PoolInv'
<1>1. CASE AcceptTx(t)
  <2>1. /\ pool' \subseteq Txs /\ nextTx' \in [Outpoints -> Txs \cup {None}]
        /\ pool' \subseteq pool \cup {t} /\ NextTxAlive'
    BY <1>1, ReplaceKeeps DEF AcceptTx, PoolInv
  <2>2. PoolTypeOK'
    BY <1>1, <2>1 DEF AcceptTx, PoolInv, PoolTypeOK
  <2>3. db.pos[t] = None
    BY <1>1, AcceptsFresh DEF AcceptTx
  <2> QED
    BY <1>1, <2>1, <2>2, <2>3 DEF AcceptTx, PoolInv
<1>2. CASE AddOrphanTx(t)
  <2>1. orphanTxs' \subseteq orphanTxs \cup {t}
    BY <1>2 DEF AddOrphanTx
  <2> QED
    BY <1>2, <2>1 DEF AddOrphanTx, PoolInv, PoolTypeOK, NextTxAlive
<1>3. CASE RefuseTx(t)
  BY <1>3 DEF RefuseTx, poolVars, PoolInv, PoolTypeOK, NextTxAlive
<1>4. CASE TryOrphan(t)
  <2>1. CASE Accepts(t)
    <3>1. /\ pool' \subseteq Txs /\ nextTx' \in [Outpoints -> Txs \cup {None}]
          /\ pool' \subseteq pool \cup {t} /\ NextTxAlive'
      BY <1>4, <2>1, ReplaceKeeps DEF TryOrphan, PoolInv
    <3>2. txQueue' \in Seq(Txs)
      BY <1>4, <2>1 DEF TryOrphan, PoolInv, PoolTypeOK
    <3>3. PoolTypeOK'
      BY <1>4, <2>1, <3>1, <3>2 DEF TryOrphan, PoolInv, PoolTypeOK
    <3>4. db.pos[t] = None
      BY <2>1, AcceptsFresh
    <3> QED
      BY <1>4, <3>1, <3>3, <3>4 DEF TryOrphan, PoolInv
  <2>2. CASE ~ Accepts(t)
    BY <1>4, <2>2 DEF TryOrphan, PoolInv, PoolTypeOK, NextTxAlive
  <2> QED
    BY <2>1, <2>2
<1> QED
  BY <1>1, <1>2, <1>3, <1>4

\* The end of the queue.
LEMMA NextTxKeeps == ASSUME PoolInv, UNCHANGED db, NextTx PROVE PoolInv'
<1>1. txQueue' \in Seq(Txs)
  BY DEF NextTx, PoolInv, PoolTypeOK
<1> QED
  BY <1>1 DEF NextTx, PoolInv, PoolTypeOK, NextTxAlive

\* After the commit: the branch that went, then the branch that came.
LEMMA ReorganizedKeeps ==
  ASSUME PoolInv, UNCHANGED db, NEW t \in Txs, Resurrect(t) \/ TakeOut(t)
  PROVE  PoolInv'
<1>1. CASE Resurrect(t) /\ AcceptsUnchecked(t)
  <2>1. pool' = pool \cup {t} /\ back' = back \ {t} /\ t \in back /\ gone' = gone
    BY <1>1 DEF Resurrect, AddToMemoryPool
  <2>2. nextTx' \in [Outpoints -> Txs \cup {None}]
    BY <1>1 DEF Resurrect, AddToMemoryPool, PoolInv, PoolTypeOK
  <2>3. NextTxAlive'
    BY <1>1, <2>1 DEF Resurrect, AddToMemoryPool, PoolInv, PoolTypeOK, NextTxAlive
  <2> QED
    BY <1>1, <2>1, <2>2, <2>3 DEF Resurrect, PoolInv, PoolTypeOK
<1>2. CASE Resurrect(t) /\ ~ AcceptsUnchecked(t)
  BY <1>2 DEF Resurrect, PoolInv, PoolTypeOK, NextTxAlive
<1>3. CASE TakeOut(t)
  <2>1. pool' = pool \ {t} /\ back = {} /\ back' = back /\ gone' = gone \ {t}
    BY <1>3 DEF TakeOut, RemoveFromMemoryPool
  <2>2. nextTx' \in [Outpoints -> Txs \cup {None}]
    BY <1>3 DEF TakeOut, RemoveFromMemoryPool, PoolInv, PoolTypeOK
  <2>3. NextTxAlive'
    BY <1>3, <2>1 DEF TakeOut, RemoveFromMemoryPool, PoolInv, PoolTypeOK, NextTxAlive
  <2> QED
    BY <1>3, <2>1, <2>2, <2>3 DEF TakeOut, PoolInv, PoolTypeOK
<1> QED
  BY <1>1, <1>2, <1>3

\* A step of the chain, and what it means for the pool.
LEMMA ChainKeeps == ASSUME PoolInv, IndInv, IndInv', ChainStep PROVE PoolInv'
<1>1. Next /\ back = {} /\ gone = {} /\ PoolFollows
  BY DEF ChainStep
<1>2. CASE pc = "commit" /\ pc' = "idle"
  <2>1. Commit /\ Reorganized
    BY <1>1, <1>2, BestMovesAtCommit DEF PoolFollows
  <2>2. back' \subseteq Txs /\ gone' \subseteq Txs
    <3>1. \A b \in Blocks : Range(Vtx[b]) \subseteq Txs
      BY Basics DEF Range
    <3>2. best \in Blocks /\ new \in Blocks
      BY <1>2 DEF IndInv, TypeOK, JobOK
    <3>3. Anc[best] \subseteq Blocks /\ Anc[new] \subseteq Blocks
      BY <3>2, Basics
    <3> QED
      BY <2>1, <3>1, <3>3 DEF Reorganized, TxsOf
  <2>3. PoolTypeOK' /\ NextTxAlive' /\ pool' = pool
    BY <2>1, <2>2 DEF Reorganized, PoolInv, PoolTypeOK, NextTxAlive
  <2>4. ASSUME NEW t \in pool' \cup back', db'.pos[t] # None
        PROVE  t \in gone'
    <3>1. t \in Txs
      BY <2>3 DEF PoolTypeOK
    <3>2. db.pos[t] = None \/ t \in back'
      BY <1>1, <2>3 DEF PoolInv
    <3> QED
      BY <2>1, <2>4, <3>1, <3>2, CommitTakesOut
  <2> QED
    BY <2>3, <2>4 DEF PoolInv
<1>3. CASE pc' = "down"
  BY <1>1, <1>3 DEF PoolFollows, PoolLost, PoolInv, PoolTypeOK, NextTxAlive
<1>4. CASE ~ (pc = "commit" /\ pc' = "idle") /\ pc' # "down"
  <2>1. UNCHANGED poolVars
    BY <1>1, <1>4 DEF PoolFollows
  <2>2. db'.best = db.best
    BY <1>1, <1>4, BestMovesAtCommit
  <2>3. db'.pos = db.pos
    <3>1. db \in DbType /\ db' \in DbType /\ db.best \in Blocks
      BY DEF IndInv, TypeOK, DbType
    <3>2. View(db, db.best, None, 0) /\ View(db', db.best, None, 0)
      BY <2>2 DEF IndInv
    <3> QED
      BY <3>1, <3>2, SameChainSamePos
  <2> QED
    BY <2>1, <2>3 DEF poolVars, PoolInv, PoolTypeOK, NextTxAlive
<1> QED
  BY <1>2, <1>3, <1>4

----------------------------------------------------------------------------
(* The theorems.                                                           *)

\* The invariants of chain and pool hold in every state of the node.
THEOREM NodeInvariance == NodeSpec => [](IndInv /\ PoolInv)
<1>1. NodeInit => IndInv /\ PoolInv
  BY InitIndInv, PoolInitInv DEF NodeInit
<1>2. IndInv /\ PoolInv /\ [NodeNext]_nodeVars => (IndInv /\ PoolInv)'
  <2> SUFFICES ASSUME IndInv, PoolInv, [NodeNext]_nodeVars PROVE IndInv' /\ PoolInv'
    OBVIOUS
  <2>1. IndInv'
    BY NodeStepIsChainStep, NextIndInv
  <2>2. CASE UNCHANGED nodeVars
    BY <2>1, <2>2 DEF nodeVars, vars, poolVars, PoolInv, PoolTypeOK, NextTxAlive
  <2>3. CASE ChainStep
    BY <2>1, <2>3, ChainKeeps
  <2>4. CASE PoolStep
    BY <2>1, <2>4, TxKeeps, ReorganizedKeeps DEF PoolStep, vars
  <2>5. CASE NextTx /\ UNCHANGED vars
    BY <2>1, <2>5, NextTxKeeps DEF vars
  <2>6. CASE ReceiveTx
    BY <2>1, <2>6, TxKeeps DEF ReceiveTx, vars
  <2> QED
    BY <2>1, <2>2, <2>3, <2>4, <2>5, <2>6 DEF NodeNext
<1> QED
  BY <1>1, <1>2, PTL DEF NodeSpec

\* The pool's maps and its handlers keep their types.
THEOREM PoolTypeCorrect == NodeSpec => []PoolTypeOK
<1>1. IndInv /\ PoolInv => PoolTypeOK
  BY DEF PoolInv
<1> QED
  BY <1>1, NodeInvariance, PTL

\* mapNextTx never points at a transaction that has left mapTransactions,
\* although RemoveFromMemoryPool erases entries of other transactions.
THEOREM NextTxAliveCorrect == NodeSpec => []NextTxAlive
<1>1. IndInv /\ PoolInv => NextTxAlive
  BY DEF PoolInv
<1> QED
  BY <1>1, NodeInvariance, PTL

\* The fee of a transaction all of whose inputs exist is a number.
LEMMA FeeType ==
  ASSUME NEW t \in Txs, \A o \in In[t] : o[2] \in DOMAIN Out[o[1]]
  PROVE  Fee[t] \in Int
<1>1. IsFiniteSet(In[t]) /\ IsFiniteSet(Outputs(t))
  BY TxAssumption, OutputsType
<1>2. \A o \in In[t] : Value[o] \in Int
  BY OutputsType, Basics
<1>3. \A o \in Outputs(t) : Value[o] \in Int
  BY OutputsType
<1>4. ValueIn(t) \in Int
  BY <1>1, <1>2, SumType DEF ValueIn
<1> DEFINE S == Outputs(t)
<1>5. SumFunctionOnSet(Value, S) \in Int
  <2> HIDE DEF S
  <2> QED
    BY <1>1, <1>3, SumType DEF S
<1> QED
  BY <1>4, <1>5 DEF Fee, ValueOut

\* A replacement pays for all it drops, and drops nothing it does not
\* conflict with.
LEMMA ReplacePays ==
  ASSUME PoolTypeOK, NextTxAlive, NEW t \in Txs, Accepts(t), Replace(Conflicts(t), t), pool \ pool' # {}
  PROVE  /\ pool' \ pool = {t}
         /\ Fee[t] > SumFunctionOnSet(Fee, pool \ pool')
         /\ \A s \in pool \ pool' : In[s] \cap In[t] # {}
<1> DEFINE S == Conflicts(t)
<1>1. t \notin pool
  BY DEF Accepts, ReachesInputs
<1>2. ASSUME NEW s \in S
      PROVE  s \in pool /\ s \in Txs /\ In[s] \cap In[t] # {}
  <2>1. PICK o \in In[t] : nextTx[o] = s /\ s # None
    BY DEF Conflicts
  <2> QED
    BY <2>1, Basics DEF NextTxAlive, PoolTypeOK
<1>3. pool' \ pool = {t} /\ pool \ pool' = S
  BY <1>1, <1>2 DEF Replace
<1>4. IsFiniteSet(S)
  <2> DEFINE f == [o \in In[t] |-> nextTx[o]]
             T == {nextTx[o] : o \in In[t]}
  <2>1. f \in Surjection(In[t], T)
    BY DEF Surjection
  <2>2. IsFiniteSet(In[t])
    BY TxAssumption
  <2>3. IsFiniteSet(T)
    <3> HIDE DEF f, T
    <3> QED
      BY <2>1, <2>2, FS_Surjection
  <2>4. S \subseteq T
    BY DEF Conflicts
  <2> HIDE DEF S, T
  <2> QED
    BY <2>3, <2>4, FS_Subset
<1>5. ReplacementPaysEnough(t, S) /\ \A h \in S : HasFee(h)
  BY <1>3 DEF Accepts
<1>6. \A h \in S : Fee[h] \in Int
  BY <1>2, <1>5, FeeType DEF HasFee
<1>7. SumFunctionOnSet(Fee, S) \in Int
  <2> HIDE DEF S
  <2> QED
    BY <1>4, <1>6, SumType
<1>8. RelayFee[t] \in Nat \ {0}
  BY PoolAssumption
<1>9. Fee[t] \in Int
  BY FeeType DEF Accepts, PoolInputsConnect, InputConnects
<1>10. Fee[t] >= SumFunctionOnSet(Fee, S) + RelayFee[t]
  BY <1>5 DEF ReplacementPaysEnough
<1>11. Fee[t] > SumFunctionOnSet(Fee, S)
  <2> HIDE DEF S
  <2> QED
    BY <1>7, <1>8, <1>9, <1>10
<1> HIDE DEF S
<1> QED
  BY <1>2, <1>3, <1>11

\* Between handlers no transaction of the best chain waits in the pool,
\* whatever was reorganized, resurrected without a look at its inputs,
\* replaced or received again (vResurrect and vDelete in Reorganize).
THEOREM PoolNotConfirmedCorrect == NodeSpec => []PoolNotConfirmed
<1>1. IndInv /\ PoolInv => PoolNotConfirmed
  BY DEF PoolInv, PoolNotConfirmed, Quiet
<1> QED
  BY <1>1, NodeInvariance, PTL

\* A transaction leaves the pool for a block, with the process, or for one
\* replacement that pays more than all it drops together and conflicts with
\* each of them, orphans that replace something included.
THEOREM ReplacementPaysCorrect == NodeSpec => ReplacementPays
<1> DEFINE Pays1 ==
      pool \ pool' # {} /\ gone = {} /\ pc' # "down" =>
        \E t \in pool' \ pool : /\ pool' \ pool = {t}
                                /\ Fee[t] > SumFunctionOnSet(Fee, pool \ pool')
                                /\ \A s \in pool \ pool' : In[s] \cap In[t] # {}
<1>1. IndInv /\ PoolInv /\ [NodeNext]_nodeVars => [Pays1]_nodeVars
  <2> SUFFICES ASSUME PoolInv, NodeNext, pool \ pool' # {}, gone = {}, pc' # "down"
               PROVE  \E t \in pool' \ pool : /\ pool' \ pool = {t}
                                              /\ Fee[t] > SumFunctionOnSet(Fee, pool \ pool')
                                              /\ \A s \in pool \ pool' : In[s] \cap In[t] # {}
    OBVIOUS
  <2>1. \E t \in Txs : Accepts(t) /\ Replace(Conflicts(t), t)
    <3>1. CASE ChainStep
      BY <3>1 DEF ChainStep, PoolFollows, Reorganized, poolVars
    <3>2. CASE PoolStep
      BY <3>2 DEF PoolStep, TryOrphan, Resurrect, AddToMemoryPool, TakeOut
    <3>3. CASE NextTx
      BY <3>3 DEF NextTx
    <3>4. CASE ReceiveTx
      BY <3>4 DEF ReceiveTx, AcceptTx, AddOrphanTx, RefuseTx, poolVars
    <3> QED
      BY <3>1, <3>2, <3>3, <3>4 DEF NodeNext
  <2>2. PICK t \in Txs : Accepts(t) /\ Replace(Conflicts(t), t)
    BY <2>1
  <2>3. /\ pool' \ pool = {t}
        /\ Fee[t] > SumFunctionOnSet(Fee, pool \ pool')
        /\ \A s \in pool \ pool' : In[s] \cap In[t] # {}
    BY <2>2, ReplacePays DEF PoolInv
  <2> QED
    BY <2>3
<1>2. ReplacementPays <=> [][Pays1]_nodeVars
  BY DEF ReplacementPays
<1> HIDE DEF Pays1
<1> QED
  BY <1>1, <1>2, NodeInvariance, PTL DEF NodeSpec
=============================================================================
