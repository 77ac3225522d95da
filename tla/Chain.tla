------------------------------- MODULE Chain -------------------------------
(***************************************************************************)
(* The block chain of a Bitflash node: how a block a peer sends becomes    *)
(* part of the best chain (ProcessBlock, AcceptBlock, AddToBlockIndex,     *)
(* Reorganize, ConnectBlock, DisconnectBlock in main.cpp), what is kept in *)
(* memory, what is kept in the database and in the block files, and what a *)
(* restart makes of the two (LoadBlockIndex in main.cpp and db.cpp).       *)
(*                                                                         *)
(* Every message handler runs under cs_main, so two blocks are never       *)
(* processed at once.  What interleaves with a handler is the end of the   *)
(* process: the handler is therefore split into the steps between which a  *)
(* crash leaves a different disk behind, one transaction at a time.        *)
(***************************************************************************)
EXTENDS Integers, Sequences, FiniteSets, FiniteSetsExt, Functions

CONSTANTS
  Blocks, Genesis,  \* the blocks that exist anywhere, and hashGenesisBlock
  Prev, Height,     \* hashPrevBlock, and the height it implies
  Anc,              \* a block and all its ancestors
  Txs, Vtx,         \* transactions, and the sequence of them in a block
  In, Out,          \* outpoints <<tx, n>> a transaction spends, values it pays
  ScriptsOk,        \* transactions all of whose signatures verify
  Lock,             \* BIP68: blocks its coins must have aged (0: no lock)
  CbHeight,         \* the height a coinbase starts with, if it does (BIP34)
  RulesV2,          \* blocks with RulesV2Active(nTime)
  CheckOk,          \* blocks this build's CheckBlock lets through ...
  StrictOk,         \* ... and those a later build's does
  ContextOk,        \* blocks with the time and nBits their parent asks for
  COINBASE_MATURITY, SUBSIDY, HALVING,
  MAX_ORPHAN_BLOCKS,
  CheckBlocks,      \* nCheckBlocksOnLoad
  NetHeight,        \* GetPeerMedianHeight()
  SyncEvery,        \* while catching up, fsync before heights divisible by it
  CrashKinds,       \* which of "kill", "power" may happen
  MaxCrashes,       \* bound: how many of them
  None, Absent      \* no block; no record of the block

Outpoints == UNION {In[t] : t \in Txs}
IsCoinBase(t) == In[t] = {}

ASSUME TreeAssumption ==
  /\ Genesis \in Blocks
  /\ None \notin Blocks \cup Txs /\ Absent \notin Blocks /\ None # Absent
  /\ Prev \in [Blocks -> Blocks] /\ Height \in [Blocks -> Nat]
  /\ Anc \in [Blocks -> SUBSET Blocks]
  /\ Anc[Genesis] = {Genesis} /\ Prev[Genesis] = Genesis
  /\ \A b \in Blocks \ {Genesis} :
       /\ Anc[b] = Anc[Prev[b]] \cup {b} 
       /\ Height[b] = Height[Prev[b]] + 1
       /\ Genesis \in Anc[b]
  /\ \A b \in Blocks : \A a \in Anc[b] :
       /\ Anc[a] \subseteq Anc[b]
       /\ Height[a] <= Height[b]
       /\ Height[a] = Height[b] => a = b

ASSUME TxAssumption ==
  /\ Vtx \in [Blocks -> Seq(Txs)]
  /\ Out \in [Txs -> Seq(Nat)]
  /\ In \in [Txs -> SUBSET (Txs \X (Nat \ {0}))] /\ \A t \in Txs : IsFiniteSet(In[t])
  /\ Lock \in [Txs -> Nat]
  /\ CbHeight \in [Txs -> Int]
  /\ ScriptsOk \subseteq Txs /\ RulesV2 \subseteq Blocks

ASSUME ParameterAssumption ==
  /\ StrictOk \subseteq CheckOk /\ CheckOk \subseteq Blocks
  /\ ContextOk \subseteq Blocks
  /\ {COINBASE_MATURITY, SUBSIDY, MAX_ORPHAN_BLOCKS, MaxCrashes, NetHeight} \subseteq Nat
  /\ {HALVING, CheckBlocks, SyncEvery} \subseteq Nat \ {0}
  /\ CrashKinds \subseteq {"kill", "power"}

\* Before rules v2 nothing kept two coinbases of one branch from being the
\* same transaction; that none were is a fact about the history.
ASSUME LegacyCoinbases ==
  \A b \in Blocks : \A a \in Anc[b] \ {b} :
     ~ {a, b} \subseteq RulesV2 /\ Vtx[a] # <<>> /\ Vtx[b] # <<>>
        => Vtx[a][1] # Vtx[b][1]

VARIABLES
  index,      \* mapBlockIndex: blocks with an entry read from a real block
  hollow,     \* entries InsertBlockIndex made for a hash nobody has a record of
  dangling,   \* entries whose pprev points at an entry that was deleted
  pnext,      \* CBlockIndex::pnext
  best,       \* pindexBest
  orphans,    \* mapOrphanBlocks
  queue,      \* vWorkQueue of the ProcessBlock under way, from position i on
  disk,       \* what the block file holds for a block
  dirty,      \* blocks whose bytes no fsync has covered
  db,         \* the database: block index, hashBestChain, transaction index
  txn,        \* the same as the open transaction sees it
  pc, new,    \* where AddToBlockIndex is, and the block it is for
  at, cur,    \* the view in txn is the chain up to at ...
  done,       \* ... plus the first done transactions of at's child cur
  fees,       \* nFees of the ConnectBlock under way
  strict,     \* the build that is running is the later one
  crashes

memVars  == <<index, hollow, dangling, pnext, best>>
recvVars == <<orphans, queue>>
fileVars == <<disk, dirty>>
jobVars  == <<pc, new, at, cur, done, fees>>
envVars  == <<strict, crashes>>
vars == <<memVars, recvVars, fileVars, db, txn, jobVars, envVars>>

----------------------------------------------------------------------------
(* The transaction index.  pos says in which block a transaction sits,     *)
(* spent which transaction took an outpoint; outpoints of a transaction    *)
(* without an entry are not spent.                                         *)

\* Mutant: the transaction keeps its entry.
DisconnectInputsKeepsEntry(d, t) ==
  [d EXCEPT !.spent = [o \in Outpoints |->
                         IF o \in In[t] \/ o[1] = t THEN None ELSE d.spent[o]]]

\* CTransaction::DisconnectInputs: give the inputs back, drop the entry.
DisconnectInputs(d, t) ==
  [d EXCEPT !.pos[t] = None,
            !.spent = [o \in Outpoints |->
                         IF o \in In[t] \/ o[1] = t THEN None ELSE d.spent[o]]]

\* Mutants: the walk starts at the new block's own height, or goes one block
\* further down than COINBASE_MATURITY allows.
ImmatureTooLate(t, b, parent) ==
  IsCoinBase(t) /\ b \in Anc[parent] /\ Height[parent] - Height[b] < COINBASE_MATURITY
ImmatureTooEarly(t, b, parent) ==
  IsCoinBase(t) /\ b \in Anc[parent] /\ Height[parent] - Height[b] < COINBASE_MATURITY - 2

\* The walk back from pindexPrev stops COINBASE_MATURITY - 1 blocks down.
Immature(t, b, parent) ==
  IsCoinBase(t) /\ b \in Anc[parent] /\ Height[parent] - Height[b] < COINBASE_MATURITY - 1

SequenceLockPasses(t, b, parent) == Height[parent] + 1 >= Height[b] + Lock[t]

Outputs(t) == {<<t, n>> : n \in DOMAIN Out[t]}
Value == [o \in UNION {Outputs(t) : t \in DOMAIN Out} |-> Out[o[1]][o[2]]]
ValueOut(t) == SumFunctionOnSet(Value, Outputs(t))
ValueIn(t) == SumFunctionOnSet(Value, In[t])

\* Rules v2 (BIP30): the transaction is in the index with an output unspent.
AlreadyUnspent(d, t) ==
  d.pos[t] # None /\ \E n \in DOMAIN Out[t] : <<t, n>> \notin Outpoints \/ d.spent[<<t, n>>] = None

\* Mutant: no look at vSpent.
InputsConnectSpent(d, t, parent) ==
  /\ \A o \in In[t] :
       /\ d.pos[o[1]] # None
       /\ o[2] \in DOMAIN Out[o[1]]
       /\ ~ Immature(o[1], d.pos[o[1]], parent)
       /\ SequenceLockPasses(t, d.pos[o[1]], parent)
  /\ t \in ScriptsOk
  /\ IsCoinBase(t) \/ ValueIn(t) >= ValueOut(t)

\* CTransaction::ConnectInputs with fBlock, up to where it starts to write.
InputsConnect(d, t, parent) ==
  /\ \A o \in In[t] :
       /\ d.pos[o[1]] # None
       /\ o[2] \in DOMAIN Out[o[1]]
       /\ ~ Immature(o[1], d.pos[o[1]], parent)
       /\ SequenceLockPasses(t, d.pos[o[1]], parent)
       /\ d.spent[o] = None
  /\ t \in ScriptsOk
  /\ IsCoinBase(t) \/ ValueIn(t) >= ValueOut(t)

\* ... and what it writes: spent pointers, and a fresh entry for t itself.
ConnectInputs(d, t, b) ==
  [d EXCEPT !.pos[t] = b,
            !.spent = [o \in Outpoints |->
                         IF o \in In[t] THEN t
                         ELSE IF o[1] = t THEN None ELSE d.spent[o]]]

\* v >> k
ShiftRight(v, k) ==
  LET shifted[n \in 0 .. k] == IF n = 0 THEN v ELSE shifted[n - 1] \div 2 IN shifted[k]

GetBlockValue(h, f) == ShiftRight(SUBSIDY, h \div HALVING) + f

\* The rules of CheckBlock that say what a block looks like: a coinbase, then
\* others, none of them twice (CVE-2012-2459).
WellShaped(b) ==
  /\ Vtx[b] # <<>>
  /\ \A i \in DOMAIN Vtx[b] : IsCoinBase(Vtx[b][i]) <=> i = 1
  /\ \A i, j \in DOMAIN Vtx[b] : Vtx[b][i] = Vtx[b][j] => i = j

\* CBlock::CheckBlock of the build that runs.
CheckBlock(b, later) == b \in (IF later THEN StrictOk ELSE CheckOk) /\ WellShaped(b)

\* Rules v2 (BIP34): the coinbase starts with the height of its block.
CoinbaseHeightOk(b) == b \in RulesV2 => CbHeight[Vtx[b][1]] = Height[b]

\* The checks of AcceptBlock that need the parent's entry.  A hollow parent
\* has no nBits, so no block's nBits is the one it asks for.
ContextualChecks(b) ==
  /\ Prev[b] \in index \ hollow
  /\ b \in ContextOk
  /\ CoinbaseHeightOk(b)

\* GetMedianTimePast, and later Reorganize, follow pprev down from the
\* parent; a hollow entry's pprev is NULL and ends the walk.
WalksFreedEntry(b) ==
  \E a \in dangling \cap Anc[Prev[b]] : \A h \in hollow \cap Anc[b] : a \notin Anc[h]

----------------------------------------------------------------------------
(* ProcessBlock: from a block that arrives to AddToBlockIndex.             *)

Idle == pc = "idle"

\* No block being worked on: the view is the chain up to the best block.
Rest(b, p) ==
  /\ pc' = p /\ at' = b
  /\ new' = None /\ cur' = None /\ done' = 0 /\ fees' = 0

\* The process is gone, and with it the open transaction and all it had in
\* memory.  (Variables of a process that is down have their start values.)
ProcessEnds ==
  /\ txn' = db
  /\ index' = {} /\ hollow' = {} /\ dangling' = {}
  /\ pnext' = [b \in Blocks |-> None] /\ best' = db.best
  /\ orphans' = {} /\ queue' = <<>>
  /\ Rest(db.best, "down")
  /\ UNCHANGED <<db, strict>>

\* A block AcceptBlock is called for: one a peer sent, which CheckBlock has
\* passed, or an orphan of the block at the head of the work queue.
Arrives(b) ==
  /\ Idle
  /\ \/ queue = <<>> /\ b \notin orphans /\ CheckBlock(b, strict)
     \/ queue # <<>> /\ b \in orphans /\ Prev[b] = Head(queue)

IsInitialBlockDownload == Height[best] < NetHeight - 3

\* Mutant: the file is left to the page cache.
WriteNeverSyncs == FALSE

\* CBlock::WriteToDisk: when it ends with an fsync of the block file.
WriteSyncs == ~ IsInitialBlockDownload \/ (Height[best] + 1) % SyncEvery = 0

\* CBlock::AcceptBlock up to AddToBlockIndex's TxnBegin: the block is in
\* the file, has an entry in memory, and its record is in the open transaction.
AcceptBlock(b) ==
  /\ Arrives(b)
  /\ b \notin index \cup hollow /\ ContextualChecks(b)
  /\ ~ WalksFreedEntry(b)
  /\ orphans' = orphans \ {b}
  /\ disk' = [disk EXCEPT ![b] = "ok"]
  /\ dirty' = IF WriteSyncs THEN {} ELSE dirty \cup {b}
  /\ index' = index \cup {b}
  /\ txn' = [db EXCEPT !.idx[b] = None]
  /\ pc' = "index" /\ new' = b
  /\ UNCHANGED <<hollow, dangling, pnext, best, queue, db, at, cur, done, fees, envVars>>

\* The walk from the parent reads freed memory: the process is lost.
FollowFreedEntry(b) ==
  /\ Arrives(b)
  /\ b \notin index \cup hollow /\ Prev[b] \in index \ hollow
  /\ WalksFreedEntry(b)
  /\ ProcessEnds
  /\ UNCHANGED <<fileVars, crashes>>

\* The early returns for a block a peer sent leave everything as it is ...
RefuseBlock(b) ==
  /\ Idle /\ queue = <<>>
  /\ \/ b \in index \cup hollow \cup orphans
     \/ ~ CheckBlock(b, strict)
     \/ Prev[b] \in index \cup hollow /\ ~ ContextualChecks(b)
  /\ UNCHANGED vars

\* ... and those for an orphan drop it.
RefuseOrphan(b) ==
  /\ Idle /\ queue # <<>>
  /\ b \in orphans /\ Prev[b] = Head(queue)
  /\ b \in index \cup hollow \/ ~ ContextualChecks(b)
  /\ orphans' = orphans \ {b}
  /\ UNCHANGED <<memVars, queue, fileVars, db, txn, jobVars, envVars>>

\* A block whose parent is not known is held, LimitOrphanBlocks included:
\* any orphan may be the one that is dropped, the new one too.
StoreOrphan(b) ==
  /\ Idle /\ queue = <<>>
  /\ b \notin index \cup hollow \cup orphans /\ CheckBlock(b, strict)
  /\ Prev[b] \notin index \cup hollow
  /\ LET held == orphans \cup {b} IN
     IF Cardinality(held) <= MAX_ORPHAN_BLOCKS
       THEN orphans' = held
       ELSE \E o \in held : orphans' = held \ {o}
  /\ UNCHANGED <<memVars, queue, fileVars, db, txn, jobVars, envVars>>

\* Mutants: the queue moves on after one orphan; the queue does not move.
NextInQueueEarly ==
  /\ Idle /\ queue # <<>>
  /\ queue' = Tail(queue)
  /\ UNCHANGED <<memVars, orphans, fileVars, db, txn, jobVars, envVars>>
NextInQueueStuck ==
  /\ Idle /\ queue # <<>>
  /\ \A b \in orphans : Prev[b] # Head(queue)
  /\ UNCHANGED vars

\* The work queue moves on when no orphan of its head is left.
NextInQueue ==
  /\ Idle /\ queue # <<>>
  /\ \A b \in orphans : Prev[b] # Head(queue)
  /\ queue' = Tail(queue)
  /\ UNCHANGED <<memVars, orphans, fileVars, db, txn, jobVars, envVars>>

----------------------------------------------------------------------------
(* AddToBlockIndex and Reorganize.  The longest chain by height wins.      *)

\* Not higher than the best block: only its record is committed.
AddSideBlock ==
  /\ pc = "index" /\ Height[new] <= Height[best]
  /\ db' = txn
  /\ queue' = Append(queue, new)
  /\ Rest(best, "idle")
  /\ UNCHANGED <<memVars, orphans, fileVars, txn, envVars>>

\* The search for the fork runs into a hollow entry, which has no pprev.
\* Reorganize gives up; the new block keeps its entry in memory.
AddWithoutFork ==
  /\ pc = "index" /\ Height[new] > Height[best]
  /\ hollow \cap Anc[new] # {}
  /\ txn' = db
  /\ Rest(best, "idle")
  /\ UNCHANGED <<memVars, recvVars, fileVars, db, envVars>>

\* From a view of the chain up to a: take a off if new does not build on it,
\* else put the next block of new's branch on, else it is complete.
Seek(a) ==
  /\ fees' = 0 /\ new' = new
  /\ \/ /\ a \notin Anc[new]
        /\ pc' = "disconnect" /\ cur' = a /\ at' = Prev[a] /\ done' = Len(Vtx[a])
     \/ /\ a \in Anc[new] \ {new}
        /\ \E c \in index \cap Anc[new] : Prev[c] = a /\ c # a /\ cur' = c
        /\ pc' = "connect" /\ at' = a /\ done' = 0
     \/ /\ a = new
        /\ pc' = "commit" /\ at' = a /\ cur' = None /\ done' = 0

\* Mutant: a block as high as the best one replaces it.
AddNewBestTie ==
  /\ pc = "index" /\ Height[new] >= Height[best]
  /\ hollow \cap Anc[new] = {}
  /\ Seek(best)
  /\ UNCHANGED <<memVars, recvVars, fileVars, db, txn, envVars>>

AddNewBest ==
  /\ pc = "index" /\ Height[new] > Height[best]
  /\ hollow \cap Anc[new] = {}
  /\ Seek(best)
  /\ UNCHANGED <<memVars, recvVars, fileVars, db, txn, envVars>>

\* Mutants: first transaction first; writes that no transaction holds back.
DisconnectTxForward ==
  /\ pc = "disconnect" /\ done > 0
  /\ disk[cur] = "ok"
  /\ txn' = DisconnectInputs(txn, Vtx[cur][Len(Vtx[cur]) + 1 - done])
  /\ done' = done - 1
  /\ UNCHANGED <<memVars, recvVars, fileVars, db, pc, new, at, cur, fees, envVars>>
DisconnectTxWritesThrough ==
  /\ pc = "disconnect" /\ done > 0
  /\ disk[cur] = "ok"
  /\ txn' = DisconnectInputs(txn, Vtx[cur][done])
  /\ db' = txn'
  /\ done' = done - 1
  /\ UNCHANGED <<memVars, recvVars, fileVars, pc, new, at, cur, fees, envVars>>

\* DisconnectBlock, last transaction first ...
DisconnectTx ==
  /\ pc = "disconnect" /\ done > 0
  /\ disk[cur] = "ok"
  /\ txn' = DisconnectInputs(txn, Vtx[cur][done])
  /\ done' = done - 1
  /\ UNCHANGED <<memVars, recvVars, fileVars, db, pc, new, at, cur, fees, envVars>>

\* Mutant: the parent's record keeps its hashNext.
DisconnectBlockKeepsNext ==
  /\ pc = "disconnect" /\ done = 0
  /\ Seek(at)
  /\ UNCHANGED <<memVars, recvVars, fileVars, db, txn, envVars>>

\* ... then the parent's record loses its hashNext.
DisconnectBlock ==
  /\ pc = "disconnect" /\ done = 0
  /\ txn' = [txn EXCEPT !.idx[at] = None]
  /\ Seek(at)
  /\ UNCHANGED <<memVars, recvVars, fileVars, db, envVars>>

\* One transaction of ConnectBlock.
TxConnects(t) ==
  /\ cur \in RulesV2 => ~ AlreadyUnspent(txn, t)
  /\ InputsConnect(txn, t, at)

\* ConnectInputs reads the transactions it spends from the block files.
LostInput(t) == \E o \in In[t] : txn.pos[o[1]] # None /\ disk[txn.pos[o[1]]] = "lost"

ConnectTx ==
  /\ pc = "connect" /\ done < Len(Vtx[cur])
  /\ disk[cur] = "ok"
  /\ LET t == Vtx[cur][done + 1] IN
     /\ ~ LostInput(t) /\ TxConnects(t)
     /\ txn' = ConnectInputs(txn, t, cur)
     /\ fees' = IF IsCoinBase(t) THEN fees ELSE fees + ValueIn(t) - ValueOut(t)
  /\ done' = done + 1
  /\ UNCHANGED <<memVars, recvVars, fileVars, db, pc, new, at, cur, envVars>>

\* Mutant: the subsidy never halves.
CoinbaseValueUnhalved == ValueOut(Vtx[cur][1]) <= SUBSIDY + fees

CoinbaseValueOk == ValueOut(Vtx[cur][1]) <= GetBlockValue(Height[cur], fees)

ConnectBlock ==
  /\ pc = "connect" /\ done = Len(Vtx[cur])
  /\ disk[cur] = "ok"
  /\ CoinbaseValueOk
  /\ txn' = [txn EXCEPT !.idx[at] = cur]
  /\ Seek(cur)
  /\ UNCHANGED <<memVars, recvVars, fileVars, db, envVars>>

\* Mutant: a transaction that does not connect is passed over.
ConnectFailsSkips ==
  /\ pc = "connect" /\ disk[cur] = "ok"
  /\ done < Len(Vtx[cur]) /\ ~ TxConnects(Vtx[cur][done + 1])
  /\ done' = done + 1
  /\ UNCHANGED <<memVars, recvVars, fileVars, db, txn, pc, new, at, cur, fees, envVars>>

\* ConnectBlock failed: TxnAbort, then the rest of the branch is deleted.  (A
\* transaction with a bad input and a lost one fails on whichever comes first.)
ConnectFails ==
  /\ pc = "connect" /\ disk[cur] = "ok"
  /\ \/ done < Len(Vtx[cur]) /\ ~ TxConnects(Vtx[cur][done + 1])
     \/ done = Len(Vtx[cur]) /\ ~ CoinbaseValueOk
  /\ txn' = db
  /\ pc' = "purge" /\ at' = best /\ done' = 0 /\ fees' = 0
  /\ UNCHANGED <<memVars, recvVars, fileVars, db, new, cur, envVars>>

\* Mutant: the read is tried again.
ReadFailsRetries ==
  /\ pc \in {"disconnect", "connect"} /\ disk[cur] = "lost"
  /\ UNCHANGED vars

\* ReadFromDisk, of a block or of an input, meets the end of the file: the
\* exception leaves ProcessBlock, the transaction is aborted.  The new block
\* keeps its entry in memory, and if it was an orphan it is still held as one.
ReadFails ==
  /\ pc \in {"disconnect", "connect"}
  /\ \/ disk[cur] = "lost"
     \/ pc = "connect" /\ done < Len(Vtx[cur]) /\ LostInput(Vtx[cur][done + 1])
  /\ txn' = db
  /\ orphans' = IF queue = <<>> THEN orphans ELSE orphans \cup {new}
  /\ queue' = <<>>
  /\ Rest(best, "idle")
  /\ UNCHANGED <<memVars, fileVars, db, envVars>>

\* A null block reads back well, with no transactions, and ConnectBlock takes
\* vtx[0] of it all the same.
ReadNullBlock ==
  /\ pc = "connect" /\ disk[cur] = "null"
  /\ ProcessEnds
  /\ UNCHANGED <<fileVars, crashes>>

\* WriteHashBestChain, TxnCommit, and the pointers in memory.  The branch
\* that went and the one that came have their pnext set; a repair at start
\* only has the first.
Commit ==
  /\ pc = "commit"
  /\ db' = [txn EXCEPT !.best = new]
  /\ txn' = db'
  /\ best' = new
  /\ pnext' = [b \in Blocks |->
       IF \E c \in Anc[new] \ Anc[best] : Prev[c] = b
         THEN CHOOSE c \in Anc[new] \ Anc[best] : Prev[c] = b
       ELSE IF \E c \in Anc[best] \ Anc[new] : Prev[c] = b THEN None
       ELSE pnext[b]]
  /\ queue' = IF new \in Anc[best] THEN queue ELSE Append(queue, new)
  /\ Rest(new, "idle")
  /\ UNCHANGED <<index, hollow, dangling, orphans, fileVars, envVars>>

\* The deletion of one block of a failed branch: EraseBlockFromDisk ...
EraseBlockFromDisk ==
  /\ pc = "purge" /\ disk[cur] # "null"
  /\ disk' = [disk EXCEPT ![cur] = "null"]
  /\ UNCHANGED <<memVars, recvVars, dirty, db, txn, jobVars, envVars>>

\* ... EraseBlockIndex, committed by itself, mapBlockIndex.erase and delete.
\* Whatever else has the block for its pprev is left with a freed pointer.
EraseBlockIndex ==
  /\ pc = "purge" /\ disk[cur] = "null"
  /\ db' = [db EXCEPT !.idx[cur] = Absent]
  /\ txn' = db'
  /\ index' = index \ {cur}
  /\ dangling' = (dangling \cup {b \in index : Prev[b] = cur}) \ {cur}
  /\ IF cur = new
       THEN Rest(best, "idle")
       ELSE /\ \E c \in index \cap Anc[new] : Prev[c] = cur /\ cur' = c
            /\ UNCHANGED <<pc, new, at, done, fees>>
  /\ UNCHANGED <<hollow, pnext, best, recvVars, fileVars, envVars>>

----------------------------------------------------------------------------
(* The end of the process, and its next start.                             *)

\* "kill" leaves the page cache behind, "power" loses what was not synced.
Crash(kind) ==
  /\ pc # "down" /\ crashes < MaxCrashes
  /\ crashes' = crashes + 1
  /\ \E lost \in SUBSET dirty :
       /\ kind = "kill" => lost = {}
       /\ disk' = [b \in Blocks |-> IF b \in lost THEN "lost" ELSE disk[b]]
  /\ dirty' = IF kind = "kill" THEN dirty ELSE {}
  /\ ProcessEnds

Recorded == {b \in Blocks : db.idx[b] # Absent}

\* The blocks LoadBlockIndex verifies: the last ones, genesis never.
CheckedTail == {b \in Anc[db.best] \ {Genesis} : Height[db.best] - Height[b] < CheckBlocks}

\* LoadBlockIndex: read the index, verify the tail with this build's rules;
\* if some of it is bad, take the chain back to before the oldest bad block.
Restart ==
  /\ pc = "down"
  /\ \A b \in CheckedTail : disk[b] # "lost"
  /\ strict' \in {strict, TRUE}
  /\ index' = Recorded
  /\ hollow' = {Prev[b] : b \in Recorded} \ Recorded
  /\ pnext' = [b \in Blocks |-> IF db.idx[b] = Absent THEN None ELSE db.idx[b]]
  /\ LET bad == {b \in CheckedTail : disk[b] = "null" \/ ~ CheckBlock(b, strict')} IN
     IF bad = {}
       THEN Rest(best, "idle")
       ELSE /\ \E b \in bad : new' = Prev[b] /\ \A c \in bad : Height[b] <= Height[c]
            /\ pc' = "disconnect" /\ cur' = best /\ at' = Prev[best]
            /\ done' = Len(Vtx[best]) /\ fees' = 0
  /\ UNCHANGED <<dangling, best, recvVars, fileVars, db, txn, crashes>>

----------------------------------------------------------------------------
\* Mutant: a new directory has no hashBestChain.
FreshDbNoBest == [idx   |-> [b \in Blocks |-> IF b = Genesis THEN None ELSE Absent],
                  best  |-> None,
                  pos   |-> [t \in Txs |-> None],
                  spent |-> [o \in Outpoints |-> None]]

FreshDb == [idx   |-> [b \in Blocks |-> IF b = Genesis THEN None ELSE Absent],
            best  |-> Genesis,
            pos   |-> [t \in Txs |-> None],
            spent |-> [o \in Outpoints |-> None]]

\* LoadBlockIndex of an empty directory writes the genesis block; its
\* coinbase never gets an entry in the transaction index.
Init ==
  /\ index = {Genesis} /\ hollow = {} /\ dangling = {}
  /\ pnext = [b \in Blocks |-> None] /\ best = Genesis
  /\ orphans = {} /\ queue = <<>>
  /\ disk = [b \in Blocks |-> IF b = Genesis THEN "ok" ELSE "none"] /\ dirty = {}
  /\ db = FreshDb /\ txn = FreshDb
  /\ pc = "idle" /\ new = None /\ at = Genesis /\ cur = None /\ done = 0 /\ fees = 0
  /\ strict = FALSE /\ crashes = 0

\* What the thread that runs the handler does by itself.
HandlerStep ==
  \/ queue # <<>> /\ \E b \in Blocks : AcceptBlock(b) \/ FollowFreedEntry(b) \/ RefuseOrphan(b)
  \/ NextInQueue
  \/ AddSideBlock \/ AddWithoutFork \/ AddNewBest
  \/ DisconnectTx \/ DisconnectBlock
  \/ ConnectTx \/ ConnectBlock \/ ConnectFails \/ ReadFails \/ ReadNullBlock
  \/ Commit \/ EraseBlockFromDisk \/ EraseBlockIndex

\* A block from a peer.
ReceiveBlock(b) == AcceptBlock(b) \/ FollowFreedEntry(b) \/ RefuseBlock(b) \/ StoreOrphan(b)

Next ==
  \/ queue = <<>> /\ \E b \in Blocks : ReceiveBlock(b)
  \/ HandlerStep
  \/ \E kind \in CrashKinds : Crash(kind)
  \/ Restart

\* A handler that has started goes on unless the process ends.
Spec == Init /\ [][Next]_vars /\ WF_vars(HandlerStep)
----------------------------------------------------------------------------
(* Properties.                                                             *)

\* The records of the database and of the open transaction.
DbType == [idx : [Blocks -> Blocks \cup {None, Absent}], best : Blocks,
           pos : [Txs -> Blocks \cup {None}], spent : [Outpoints -> Txs \cup {None}]]

\* Type invariant of the variables of main.cpp's block handling.
TypeOK ==
  /\ index \subseteq Blocks /\ hollow \subseteq Blocks /\ dangling \subseteq Blocks
  /\ pnext \in [Blocks -> Blocks \cup {None}] /\ best \in Blocks
  /\ orphans \subseteq Blocks /\ queue \in Seq(Blocks)
  /\ disk \in [Blocks -> {"none", "ok", "null", "lost"}] /\ dirty \subseteq Blocks
  /\ db \in DbType /\ txn \in DbType
  /\ pc \in {"idle", "index", "disconnect", "connect", "commit", "purge", "down"}
  /\ new \in Blocks \cup {None} /\ cur \in Blocks \cup {None} /\ at \in Blocks
  /\ done \in Nat
  /\ strict \in BOOLEAN /\ crashes \in 0 .. MaxCrashes

\* The blocks of the committed chain that ConnectBlock has been run for.
Connected == Anc[db.best] \ {Genesis}

\* Whatever reorganizations failed half way and wherever the process ended,
\* the committed transaction index is the one of the committed best chain:
\* an entry for each of its transactions and no other, each outpoint marked
\* with the transaction of the chain that spends it (ConnectInputs,
\* DisconnectInputs, TxnAbort and TxnCommit taken together).
TxIndexMatchesChain ==
  /\ \A t \in Txs, b \in Blocks :
       db.pos[t] = b <=> b \in Connected /\ \E i \in DOMAIN Vtx[b] : Vtx[b][i] = t
  /\ \A o \in Outpoints, t \in Txs :
       db.spent[o] = t <=> o \in In[t] /\ db.pos[t] # None

\* No outpoint is spent twice on the committed chain, on whichever branches
\* and in whatever order its blocks were first seen (ConnectInputs' "prev tx
\* already used" against a view rebuilt by DisconnectInputs).
NoDoubleSpend ==
  \A a, b \in Connected : \A i \in DOMAIN Vtx[a], j \in DOMAIN Vtx[b] :
     (In[Vtx[a][i]] \cap In[Vtx[b][j]] # {}) => a = b /\ i = j

\* Every input of the committed chain is an output of an earlier transaction
\* of the same chain, and one that fulfils the ages ConnectInputs asks for:
\* BIP68 locks, and for a coinbase of an earlier block COINBASE_MATURITY.
InputsOldEnough ==
  \A b \in Connected : \A i \in DOMAIN Vtx[b] : \A o \in In[Vtx[b][i]] :
     \E a \in Connected \cap Anc[b] : \E j \in DOMAIN Vtx[a] :
        /\ Vtx[a][j] = o[1] /\ o[2] \in DOMAIN Out[o[1]]
        /\ a = b => j < i
        /\ Height[b] >= Height[a] + Lock[Vtx[b][i]]
        /\ IsCoinBase(o[1]) /\ a # b => Height[b] - Height[a] >= COINBASE_MATURITY

\* Mined coins are spent only after COINBASE_MATURITY blocks, also by the
\* block that mines them (docs/p2pool.md, README: "before mined coins can be
\* spent").
CoinbaseMature ==
  \A b \in Connected : \A i \in DOMAIN Vtx[b] : \A o \in In[Vtx[b][i]] :
     IsCoinBase(o[1]) =>
        \A a \in Connected : (\E j \in DOMAIN Vtx[a] : Vtx[a][j] = o[1])
                               => Height[b] - Height[a] >= COINBASE_MATURITY

\* The coins that a transaction index holds, and what each block may mint.
Unspent(d) ==
  {o \in UNION {Outputs(t) : t \in {u \in Txs : d.pos[u] # None}} :
     o \notin Outpoints \/ d.spent[o] = None}
Subsidy == [b \in Blocks |-> GetBlockValue(Height[b], 0)]

\* The coins of the committed chain are never more than its subsidies: fees
\* move coins, and a reorganization mints none (GetBlockValue on the block's
\* own height, nFees of its own ConnectBlock).
SupplyBound ==
  SumFunctionOnSet(Value, Unspent(db)) <= SumFunctionOnSet(Subsidy, Connected)

\* The reference for what a valid chain is: the coins that exist after it, each
\* with the height it was made at, as each transaction in turn takes its inputs
\* from them and adds its outputs.
SpendTx(s, t, h) ==
  LET taken == In[t] \cap DOMAIN s.coins IN
  [ok    |-> /\ s.ok /\ taken = In[t] /\ Outputs(t) \cap DOMAIN s.coins = {}
             /\ t \in ScriptsOk
             /\ IsCoinBase(t) \/ SumFunctionOnSet(Value, taken) >= ValueOut(t)
             /\ \A o \in taken : /\ h >= s.coins[o] + Lock[t]
                                 /\ IsCoinBase(o[1]) => s.coins[o] = h \/ h >= s.coins[o] + COINBASE_MATURITY,
   coins |-> [o \in (DOMAIN s.coins \ taken) \cup Outputs(t) |-> IF o \in Outputs(t) THEN h ELSE s.coins[o]],
   fees  |-> IF IsCoinBase(t) THEN s.fees ELSE s.fees + SumFunctionOnSet(Value, taken) - ValueOut(t)]

\* After the first n transactions of b, and after all of it.
SpendTxs(s, b) ==
  LET after[n \in 0 .. Len(Vtx[b])] ==
        IF n = 0 THEN [ok |-> s.ok, coins |-> s.coins, fees |-> 0]
        ELSE SpendTx(after[n - 1], Vtx[b][n], Height[b])
  IN after
SpendBlock(s, b) ==
  LET end == SpendTxs(s, b)[Len(Vtx[b])]
  IN [ok    |-> end.ok /\ ValueOut(Vtx[b][1]) <= GetBlockValue(Height[b], end.fees),
      coins |-> end.coins, fees |-> end.fees]

Reference[b \in Blocks] ==
  IF b = Genesis THEN [ok |-> TRUE, coins |-> [o \in {} |-> 0], fees |-> 0] ELSE SpendBlock(Reference[Prev[b]], b)

\* Between handlers the node is on a valid chain and no chain of blocks it has
\* is both valid and longer, and what Reorganize deletes is never valid: what
\* its abort, purge and retry arrive at, whatever order the blocks came in,
\* against coins counted independently of the transaction index.
BestIsLongestValid ==
  /\ Idle /\ queue = <<>> =>
       /\ Reference[best].ok
       /\ \A b \in index : Reference[b].ok => Height[b] <= Height[best]
  /\ pc = "purge" => ~ Reference[cur].ok

\* IsInMainChain tells the truth between handlers: an entry has a pnext, or is
\* the best one, exactly when it is an ancestor of the best block, pnext is
\* the next block up, and the records on disk say the same.
MainChainLinks ==
  LET links(b, n) == n # None <=> \E c \in Anc[db.best] \ {b} : Prev[c] = b
      up(b, n)    == n # None => n \in Anc[db.best] /\ Prev[n] = b
  IN /\ \A b \in Recorded : links(b, db.idx[b]) /\ up(b, db.idx[b])
     /\ pc # "down" =>
          /\ Anc[best] \subseteq index \cap Recorded
          /\ \A b \in index : links(b, pnext[b]) /\ up(b, pnext[b])

\* DisconnectInputs never takes one of its error returns: what it undoes is
\* there to be undone, through any sequence of reorganizations.
DisconnectSucceeds ==
  pc = "disconnect" /\ done > 0 =>
     LET t == Vtx[cur][done] IN
     /\ txn.pos[t] # None
     /\ \A o \in In[t] : txn.pos[o[1]] # None /\ o[2] \in DOMAIN Out[o[1]] /\ txn.spent[o] = t

\* An orphan waits only for a parent the node does not have: once ProcessBlock
\* has returned, none is held whose parent has an entry.
OrphansLackParents ==
  Idle /\ queue = <<>> => \A b \in orphans : Prev[b] \notin index

\* Between handlers no entry of mapBlockIndex points at an entry that was deleted ("Invalid
\* block, delete the rest of this branch" in Reorganize).
NoFreedParent == Idle => dangling = {}

\* A node that has caught up with its peers starts again after any crash:
\* LoadBlockIndex can read all that it verifies (WriteToDisk, "what a hard
\* reset loses first, and the node then fails to start").  Said of a node that
\* was not repaired: after a repair the best block may rise by several heights
\* at once, with blocks written while it still counted as behind.
Restartable ==
  pc = "down" /\ ~ strict /\ Height[db.best] > NetHeight - 3
     => \A b \in CheckedTail : disk[b] # "lost"

\* A node that fell back to the last block good under the rules it runs does
\* not go back to the bad ones ("fall back to the last good block").
TailPassesCheck ==
  Idle /\ queue = <<>> => \A b \in CheckedTail : CheckBlock(b, strict)

\* ProcessBlock returns: the work queue drains and no reorganization, failed
\* branch or repair leaves the handler without a next step.
HandlerReturns == (pc \notin {"idle", "down"} \/ queue # <<>>) ~> (pc \in {"idle", "down"} /\ queue = <<>>)

L == INSTANCE Ledger WITH tip <- db.best

\* The committed best chain is a ledger: through every reorganization, failed
\* branch, purge, crash and repair it moves in one step from a line to a
\* higher valid one, or at a start back along itself (AddToBlockIndex,
\* Reorganize, ConnectBlock and LoadBlockIndex implement Ledger).
ImplementsLedger == L!Spec

----------------------------------------------------------------------------
(* The inductive invariant behind TxIndexMatchesChain.  The committed      *)
(* index alone is not inductive: a commit replaces it by the open          *)
(* transaction's, so that one has to be the replay of at plus the first    *)
(* done transactions of cur at every step, forward and back.               *)

\* What CheckBlock and AcceptBlock have established of a block with an entry.
Good(b) == WellShaped(b) /\ CoinbaseHeightOk(b)

\* Transaction i of block b is in the view.
Applied(b, i, a, c, n) ==
  /\ b \in Blocks /\ i \in DOMAIN Vtx[b]
  /\ (b \in Anc[a] /\ b # Genesis) \/ (b = c /\ i <= n)

Before(e, j, b, i) == (e \in Anc[b] /\ e # b) \/ (e = b /\ j < i)

Position(a, c, n) ==
  /\ a \in Blocks /\ n \in Nat
  /\ \A b \in Anc[a] : b # Genesis => Good(b)
  /\ c = None => n = 0
  /\ c # None => c \in Blocks \ {Genesis} /\ Prev[c] = a /\ Good(c) /\ n <= Len(Vtx[c])

PosOK(d, a, c, n) ==
  \A t \in Txs, b \in Blocks :
     d.pos[t] = b <=> \E i \in DOMAIN Vtx[b] : Applied(b, i, a, c, n) /\ Vtx[b][i] = t

SpentOK(d) ==
  \A o \in Outpoints, t \in Txs : d.spent[o] = t <=> o \in In[t] /\ d.pos[t] # None

\* Transaction t of block b may spend an output of transaction s of block e.
Aged(s, e, t, b) ==
  /\ Height[b] >= Height[e] + Lock[t]
  /\ IsCoinBase(s) /\ e # b => Height[b] - Height[e] >= COINBASE_MATURITY

Pays(t) == IsCoinBase(t) \/ ValueIn(t) >= ValueOut(t)

\* A transaction pays no more than it spends, and what it spends comes from
\* an earlier transaction that is old enough.
OrderOK(a, c, n) ==
  \A b \in Blocks : \A i \in DOMAIN Vtx[b] : Applied(b, i, a, c, n) =>
     /\ Pays(Vtx[b][i])
     /\ \A o \in In[Vtx[b][i]] :
          /\ o[2] \in DOMAIN Out[o[1]]
          /\ \E e \in Blocks : \E j \in DOMAIN Vtx[e] :
               /\ Applied(e, j, a, c, n) /\ Vtx[e][j] = o[1]
               /\ Before(e, j, b, i) /\ Aged(o[1], e, Vtx[b][i], b)

View(d, a, c, n) == Position(a, c, n) /\ PosOK(d, a, c, n) /\ SpentOK(d) /\ OrderOK(a, c, n)

Moving == pc \in {"disconnect", "connect"}

\* Every entry, in memory or on disk, is of a block that passed its checks,
\* and every orphan of one that passed CheckBlock's.
EntriesGood ==
  /\ \A b \in Blocks \ {Genesis} :
       b \in index \/ db.idx[b] # Absent \/ txn.idx[b] # Absent => Good(b)
  /\ \A b \in orphans \ {Genesis} : WellShaped(b)

JobOK ==
  /\ best = db.best /\ txn.best = db.best
  /\ ~ Moving /\ pc # "commit" => at = best /\ done = 0
  /\ pc = "commit" => at = new /\ done = 0
  /\ pc \notin {"idle", "down"} => new \in Blocks /\ (new # Genesis => Good(new))
  /\ pc = "purge" => cur \in Blocks \ {Genesis}
  /\ Moving => cur # None
  /\ Moving \/ pc = "commit" => Height[new] > Height[best] \/ new \in Anc[best] \ {best}

IndInv ==
  /\ TypeOK /\ EntriesGood /\ JobOK
  /\ View(db, db.best, None, 0)
  /\ View(txn, at, IF Moving THEN cur ELSE None, done)

----------------------------------------------------------------------------
(* The inductive invariant behind SupplyBound: the coins a chain leaves are *)
(* a matter of its blocks alone, so the bound is kept for each block a     *)
(* reorganization may go back to or set out from; in the middle of a block *)
(* what its transactions have left over is what nFees says of them.        *)

\* The transactions of the chain up to a, and the coins they leave.
LineTxs(a) == {t \in Txs : \E b \in Anc[a] \ {Genesis} : \E i \in DOMAIN Vtx[b] : Vtx[b][i] = t}
LineCoins(a) == (UNION {Outputs(t) : t \in LineTxs(a)}) \ (UNION {In[t] : t \in LineTxs(a)})

Minted(a) == SumFunctionOnSet(Subsidy, Anc[a] \ {Genesis})

LineBounded(a) ==
  /\ IsFiniteSet(Anc[a]) /\ IsFiniteSet(LineCoins(a))
  /\ SumFunctionOnSet(Value, LineCoins(a)) <= Minted(a)

JobBounded ==
  pc = "connect" =>
    /\ IsFiniteSet(Unspent(txn)) /\ fees \in Int
    /\ SumFunctionOnSet(Value, Unspent(txn)) + fees
         <= Minted(at) + IF done = 0 THEN 0 ELSE ValueOut(Vtx[cur][1])

MintInv == JobBounded /\ \A a \in Anc[db.best] \cup Anc[at] : LineBounded(a)

----------------------------------------------------------------------------
(* The inductive invariant behind BestIsLongestValid, while the process     *)
(* runs: the transaction index is the reference's coins, for every block a *)
(* reorganization may go back to or set out from and in the middle of one, *)
(* so ConnectBlock fails for what is not valid and nothing else.           *)

\* The coins an index holds and those a chain leaves, with their heights.
CoinsOf(d) == [o \in Unspent(d) |-> Height[d.pos[o[1]]]]
Maker(t, a) == CHOOSE b \in Anc[a] \ {Genesis} : \E i \in DOMAIN Vtx[b] : Vtx[b][i] = t
CoinsOfLine(a) == [o \in LineCoins(a) |-> Height[Maker(o[1], a)]]

LineMatches(a) == Reference[a].ok /\ Reference[a].coins = CoinsOfLine(a)

JobMatches ==
  pc = "connect" =>
    LET s == SpendTxs(Reference[at], cur)[done]
    IN s.ok /\ s.coins = CoinsOf(txn) /\ s.fees = fees

\* No file lost a block and no entry its parent, as long as no process ended.
NothingLost == hollow = {} /\ \A b \in Blocks : disk[b] # "lost"

LongestInv ==
  /\ JobMatches /\ \A a \in Anc[db.best] \cup Anc[at] : LineMatches(a)
  /\ NothingLost
  /\ Moving \/ pc = "commit" => Height[new] > Height[best]
  /\ pc \in {"connect", "purge"} => cur \in Anc[new]
  /\ pc = "purge" => ~ Reference[cur].ok
  /\ \A b \in index : Reference[b].ok /\ Height[b] > Height[best] => pc # "idle" /\ b = new

----------------------------------------------------------------------------
(* The inductive invariant behind MainChainLinks: the records the open     *)
(* transaction sees link the chain up to the block it has come to, and a   *)
(* branch on its way in or out is off, or on, the best chain.              *)

\* n is what hashNext or pnext of b has to be when the chain ends in e.
NextOn(b, n, e) ==
  /\ n = None <=> \A c \in Anc[e] \ {b} : Prev[c] # b
  /\ n # None => n \in Anc[e] \ {b} /\ Prev[n] = b

\* The last block whose links the open transaction has.
LinkedTo == IF pc = "disconnect" THEN cur ELSE at

RecordsLinked ==
  /\ \A b \in Blocks : db.idx[b] # Absent => NextOn(b, db.idx[b], db.best)
  /\ \A b \in Blocks : txn.idx[b] # Absent => NextOn(b, txn.idx[b], LinkedTo)
  /\ \A b \in Anc[db.best] : db.idx[b] # Absent
  /\ \A b \in Anc[LinkedTo] \ {LinkedTo} : txn.idx[b] # Absent

MemoryLinked ==
  pc # "down" =>
    /\ Anc[best] \subseteq index /\ Anc[LinkedTo] \subseteq index
    /\ \A b \in Blocks : NextOn(b, pnext[b], best)

BranchPlaced ==
  /\ pc \in {"index", "disconnect", "connect", "commit"} => txn.idx[new] # Absent
  /\ pc = "index" => txn.idx[best] # Absent
  /\ pc = "disconnect" => cur \in Anc[best] \ Anc[new]
  /\ pc \in {"connect", "purge"} => cur \in Anc[new] \ Anc[best]
  /\ pc = "connect" => cur \in index
  /\ ~ Moving /\ pc # "index" /\ pc # "commit" => txn.idx = db.idx

LinksInv == RecordsLinked /\ MemoryLinked /\ BranchPlaced

----------------------------------------------------------------------------
(* The inductive invariant behind OrphansLackParents, for as long as the   *)
(* process runs: an orphan whose parent has an entry is in the work queue  *)
(* of the handler under way, or will be when the handler is done with the  *)
(* parent.                                                                 *)

OrphansInv ==
  /\ hollow = {} /\ \A b \in Blocks : disk[b] # "lost"
  /\ Moving \/ pc = "commit" => Height[new] > Height[best]
  /\ \A b \in orphans : Prev[b] \in index =>
       \/ \E i \in DOMAIN queue : queue[i] = Prev[b]
       \/ pc \notin {"idle", "down"} /\ Prev[b] = new

----------------------------------------------------------------------------
(* The inductive invariant behind Restartable: until there is a repair the *)
(* best chain grows by one block at a time, so that the block that takes   *)
(* it past NetHeight - 3 was written by a node that syncs.  What stands    *)
(* above the best block and is not on its way to be it never will be while *)
(* the process runs: the walk to it ends in an entry that is hollow or was *)
(* freed, or the reorganization needs a block that is lost.                *)

\* ConnectBlock of c cannot read what it has to.
Unreadable(c) ==
  \/ disk[c] = "lost"
  \/ \E i \in DOMAIN Vtx[c] : \E o \in In[Vtx[c][i]] : \E e \in Anc[c] \ {Genesis} :
       disk[e] = "lost" /\ \E j \in DOMAIN Vtx[e] : Vtx[e][j] = o[1]

\* A reorganization to b has to take off, or to put on, what is not there.
Unreachable(b) ==
  \/ \E e \in Anc[best] \ Anc[b] : disk[e] = "lost"
  \/ \E c \in Anc[b] \ Anc[best] : Unreadable(c)

Barred(b) ==
  (hollow \cup dangling) \cap Anc[b] # {} \/ Unreachable(b) \/ (pc = "purge" /\ cur \in Anc[b])

Joining == Moving \/ pc \in {"index", "commit"}

\* Entries and records are no higher than the best block, but for those.
EntriesLow ==
  /\ \A b \in index \ {Genesis} : Prev[b] \in index \cup hollow \/ b \in dangling
  /\ \A b \in index :
       Height[b] <= Height[best] \/ Barred(b) \/ (pc \notin {"idle", "down"} /\ b = new)
  /\ Joining => Height[new] <= Height[best] + 1 \/ hollow \cap Anc[new] # {} \/ Unreachable(new)

RecordsLow ==
  \A b \in Blocks :
    /\ db.idx[b] # Absent => Height[b] <= Height[best]
    /\ txn.idx[b] # Absent => Height[b] <= Height[best] \/ (Joining /\ Height[b] <= Height[new])

\* What a reorganization has gone through was there to be read.
BranchRead ==
  /\ Moving \/ pc = "commit" =>
       /\ hollow \cap Anc[new] = {} /\ new \notin Anc[best]
       /\ \A e \in Anc[best] \ Anc[LinkedTo] : disk[e] # "lost"
       /\ \A c \in Anc[at] \ Anc[best] : disk[c] = "ok" /\ ~ Unreadable(c)
  /\ pc = "disconnect" => done = Len(Vtx[cur]) \/ disk[cur] = "ok"
  /\ pc = "connect" =>
       \A i \in 1 .. done : \A o \in In[Vtx[cur][i]] : \A e \in Anc[at] \ {Genesis} :
         (\E j \in DOMAIN Vtx[e] : Vtx[e][j] = o[1]) => disk[e] # "lost"

\* The best chain on disk: none of it was erased, what is lost lies below the
\* tail, and once the node has caught up nothing waits for an fsync.
ChainOnDisk ==
  /\ \A b \in Anc[best] \ {Genesis} :
       /\ disk[b] # "null"
       /\ disk[b] = "lost" /\ (pc # "down" \/ Height[best] > NetHeight - 3) =>
            Height[best] - Height[b] >= CheckBlocks
  /\ Height[best] > NetHeight - 3 \/ (pc \notin {"idle", "down"} /\ Height[best] = NetHeight - 3)
       => dirty = {}

EntriesChecked ==
  \A b \in Blocks \ {Genesis} :
    b \in index \cup orphans \/ db.idx[b] # Absent \/ txn.idx[b] # Absent => b \in CheckOk

RestartInv ==
  ~ strict => EntriesLow /\ RecordsLow /\ BranchRead /\ ChainOnDisk /\ EntriesChecked
=============================================================================
