--------------------------- MODULE RestartProofs ---------------------------
(***************************************************************************)
(* Proofs about Chain: a node that has caught up and was not repaired can  *)
(* read all that LoadBlockIndex verifies, wherever the process ended and   *)
(* whatever of the page cache was lost with it.                            *)
(***************************************************************************)
EXTENDS ChainProofs

----------------------------------------------------------------------------
(* The tree.                                                               *)

\* Between an entry and an ancestor without one lies a hollow entry, or one
\* whose parent was freed: LoadBlockIndex and EraseBlockIndex leave nothing else.
LEMMA PathBroken ==
  ASSUME NEW X \in SUBSET Blocks, NEW H, NEW D,
         \A b \in X \ {Genesis} : Prev[b] \in X \cup H \/ b \in D,
         NEW x \in X, NEW a \in Anc[x], a \notin X
  PROVE  (H \cup D) \cap Anc[x] # {}
<1> DEFINE T == {n \in Nat : \E y \in X : y \in Anc[x] /\ a \in Anc[y] /\ n = Height[y]}
<1>1. Height[x] \in T
  BY SelfAncestor, TreeAssumption
<1>2. PICK n \in T : \A m \in T : n <= m
  BY <1>1, LeastNat
<1>3. PICK y \in X : y \in Anc[x] /\ a \in Anc[y] /\ n = Height[y]
  BY <1>2
<1>4. y # a /\ y # Genesis
  BY <1>3, TreeAssumption
<1>5. /\ Prev[y] \in Blocks /\ Anc[y] = Anc[Prev[y]] \cup {y} /\ Height[y] = Height[Prev[y]] + 1
      /\ Prev[y] \in Anc[y] /\ Height[Prev[y]] \in Nat
  BY <1>4, TreeAssumption, ChildFacts
<1>6. a \in Anc[Prev[y]] /\ Prev[y] \in Anc[x]
  BY <1>3, <1>4, <1>5, Basics
<1>7. Prev[y] \notin X
  <2>1. SUFFICES ASSUME Prev[y] \in X PROVE FALSE
    OBVIOUS
  <2>2. Height[Prev[y]] \in T
    BY <1>5, <1>6, <2>1
  <2> HIDE DEF T
  <2> QED
    BY <1>2, <1>3, <1>5, <2>2
<1> QED
  BY <1>3, <1>4, <1>6, <1>7

LEMMA HeightFacts ==
  /\ NetHeight \in Nat /\ CheckBlocks \in Nat
  /\ \A b \in Blocks : Height[b] \in Nat
  /\ \A b \in Blocks : \A a \in Anc[b] : a \in Blocks /\ Height[a] <= Height[b]
BY TreeAssumption, ParameterAssumption

----------------------------------------------------------------------------
(* Steps that leave the entries and the block files as they are.           *)

Straight == EntriesLow /\ RecordsLow /\ BranchRead /\ ChainOnDisk /\ EntriesChecked

LEMMA SameReach ==
  ASSUME UNCHANGED <<best, disk>>, NEW b
  PROVE  /\ Unreadable(b)' <=> Unreadable(b)
         /\ Unreachable(b)' <=> Unreachable(b)
BY DEF Unreadable, Unreachable

\* The block that was worked on is done with: it is low, or barred.
LEMMA QuietEntries ==
  ASSUME EntriesLow, UNCHANGED <<memVars, fileVars>>, pc # "purge",
         \/ pc \in {"idle", "down"}
         \/ pc' \notin {"idle", "down"} /\ new' = new
         \/ Height[new] <= Height[best]
         \/ hollow \cap Anc[new] # {}
         \/ Unreachable(new),
         Joining' => Joining /\ new' = new
  PROVE  EntriesLow'
<1>0. UNCHANGED <<index, hollow, dangling, best, disk, dirty>>
  BY DEF memVars, fileVars
<1>1. \A b \in index \ {Genesis} : Prev[b] \in index \cup hollow \/ b \in dangling
  BY DEF EntriesLow
<1>2. ASSUME NEW b \in index
      PROVE  Height[b] <= Height[best] \/ Barred(b)' \/ (pc' \notin {"idle", "down"} /\ b = new')
  <2>1. Barred(b) => Barred(b)'
    BY <1>0, SameReach DEF Barred
  <2>2. Unreachable(b) \/ hollow \cap Anc[b] # {} => Barred(b)
    BY DEF Barred
  <2> QED
    BY <2>1, <2>2 DEF EntriesLow
<1>3. Joining' => Height[new'] <= Height[best] + 1 \/ hollow \cap Anc[new'] # {} \/ Unreachable(new)'
  BY <1>0 DEF EntriesLow, Unreachable, Unreadable
<1> QED
  BY <1>0, <1>1, <1>2, <1>3 DEF EntriesLow

LEMMA QuietDisk ==
  ASSUME ChainOnDisk, UNCHANGED <<best, disk, dirty>>, pc # "down",
         pc' \in {"idle", "down"} \/ pc \notin {"idle", "down"}
  PROVE  ChainOnDisk'
BY DEF ChainOnDisk

\* What is known of a state, in the form the steps below need it.
LEMMA StateFacts ==
  ASSUME IndInv, LinksInv
  PROVE  /\ best = db.best /\ best \in Blocks /\ at \in Blocks /\ index \subseteq Blocks
         /\ orphans \subseteq Blocks
         /\ db \in DbType /\ txn \in DbType
         /\ pc # "down" => Anc[best] \subseteq index /\ Anc[LinkedTo] \subseteq index
         /\ Anc[best] \subseteq Recorded
         /\ pc \notin {"idle", "down"} => new \in Blocks
         /\ Moving => cur \in Blocks \ {Genesis} /\ Prev[cur] = at /\ Anc[cur] = Anc[at] \cup {cur}
                      /\ Vtx[cur] # <<>>
         /\ pc = "commit" => at = new
         /\ pc \in {"index", "disconnect", "connect", "commit"} => txn.idx[new] # Absent
         /\ pc = "disconnect" => cur \in Anc[best] \ Anc[new]
         /\ pc \in {"connect", "purge"} => cur \in Anc[new] \ Anc[best]
<1>1. TypeOK /\ JobOK /\ TxnView
  BY IndInvParts
<1>2. /\ best = db.best /\ best \in Blocks /\ at \in Blocks /\ db \in DbType /\ txn \in DbType
      /\ pc \notin {"idle", "down"} => new \in Blocks
      /\ Moving => cur \in Blocks \ {Genesis} /\ Prev[cur] = at
      /\ CommittedLinked
  BY LinksParts
<1>3. Moving => Anc[cur] = Anc[at] \cup {cur}
  BY <1>2, ParentFacts
<1>4. Anc[best] \subseteq Recorded
  BY <1>2, Basics DEF CommittedLinked, Recorded
<1>5. Moving => Vtx[cur] # <<>>
  BY <1>1 DEF TxnView, View, Position, Good, WellShaped, JobOK
<1>6. /\ pc # "down" => Anc[best] \subseteq index /\ Anc[LinkedTo] \subseteq index
      /\ pc \in {"index", "disconnect", "connect", "commit"} => txn.idx[new] # Absent
      /\ pc = "disconnect" => cur \in Anc[best] \ Anc[new]
      /\ pc \in {"connect", "purge"} => cur \in Anc[new] \ Anc[best]
  BY DEF LinksInv, MemoryLinked, BranchPlaced
<1> QED
  BY <1>1, <1>2, <1>3, <1>4, <1>5, <1>6 DEF TypeOK, JobOK

----------------------------------------------------------------------------
(* A block that arrives.                                                   *)

LEMMA RefuseRestart ==
  ASSUME IndInv, LinksInv, Straight, ~ strict, NEW b \in Blocks,
         RefuseBlock(b) \/ RefuseOrphan(b) \/ StoreOrphan(b) \/ NextInQueue
  PROVE  Straight'
<1>1. /\ UNCHANGED <<memVars, fileVars, db, txn, jobVars>> /\ pc = "idle"
      /\ orphans' \subseteq orphans \/ (orphans' \subseteq orphans \cup {b} /\ CheckBlock(b, strict))
  BY DEF RefuseBlock, RefuseOrphan, StoreOrphan, NextInQueue, Idle, vars, recvVars
<1>2. UNCHANGED <<index, hollow, dangling, best, disk, dirty, pc, new, at, cur, done>>
  BY <1>1 DEF memVars, fileVars, jobVars
<1>3. EntriesLow'
  BY <1>1, <1>2, QuietEntries DEF Straight, Joining, Moving
<1>4. RecordsLow'
  BY <1>1, <1>2 DEF Straight, RecordsLow, Joining, Moving
<1>5. BranchRead'
  BY <1>1, <1>2 DEF BranchRead, Moving
<1>6. ChainOnDisk'
  BY <1>1, <1>2, QuietDisk DEF Straight
<1>7. EntriesChecked'
  <2>1. CheckBlock(b, strict) => b \in CheckOk
    BY ParameterAssumption DEF CheckBlock
  <2> QED
    BY <1>1, <1>2, <2>1 DEF Straight, EntriesChecked
<1> QED
  BY <1>3, <1>4, <1>5, <1>6, <1>7 DEF Straight

\* A new entry: one above the best block, or on an entry that is barred, and
\* then it is barred too.  Its bytes reach the disk with all before them, once
\* the node has caught up.
LEMMA AcceptRestart ==
  ASSUME IndInv, LinksInv, Straight, ~ strict, NEW b \in Blocks, AcceptBlock(b)
  PROVE  Straight'
<1>0. /\ best = db.best /\ best \in Blocks /\ index \subseteq Blocks /\ db \in DbType
      /\ pc # "down" => Anc[best] \subseteq index
      /\ Anc[best] \subseteq Recorded
  BY StateFacts
<1>1. /\ pc = "idle" /\ b \notin index \cup hollow /\ Prev[b] \in index \ hollow
      /\ ~ WalksFreedEntry(b)
      /\ orphans' = orphans \ {b} /\ disk' = [disk EXCEPT ![b] = "ok"]
      /\ dirty' = (IF WriteSyncs THEN {} ELSE dirty \cup {b})
      /\ index' = index \cup {b} /\ txn' = [db EXCEPT !.idx[b] = None]
      /\ pc' = "index" /\ new' = b
      /\ UNCHANGED <<hollow, dangling, best, db, cur>>
      /\ b \in CheckOk \/ b \in orphans
  BY ParameterAssumption DEF AcceptBlock, Arrives, Idle, ContextualChecks, CheckBlock
<1>2. Anc[best] \subseteq index /\ b \notin Anc[best] /\ Genesis \in index
  BY <1>0, <1>1, Basics
<1>3. \A c \in Blocks : c # b => disk'[c] = disk[c]
  BY <1>1 DEF IndInv, TypeOK
<1>4. /\ b # Genesis /\ Prev[b] \in index /\ Anc[b] = Anc[Prev[b]] \cup {b}
      /\ b \notin Anc[Prev[b]] /\ Prev[b] \in Blocks /\ Height[b] = Height[Prev[b]] + 1
      /\ Prev[b] \in Anc[b]
  BY <1>0, <1>1, <1>2, ParentFacts, ChildFacts
\* The bytes of b, which had no entry, barred nothing that had one.
<1>5. ASSUME NEW x \in index, Unreachable(x)
      PROVE  (hollow \cup dangling) \cap Anc[x] # {} \/ (b \notin Anc[x] /\ Unreachable(x)')
  <2>1. CASE b \in Anc[x]
    <3>1. \A y \in index \ {Genesis} : Prev[y] \in index \cup hollow \/ y \in dangling
      BY DEF Straight, EntriesLow
    <3> QED
      BY <1>0, <1>1, <2>1, <3>1, PathBroken
  <2>2. CASE b \notin Anc[x]
    <3>1. ASSUME NEW c \in Anc[x], Unreadable(c)
          PROVE  Unreadable(c)'
      <4>1. Anc[c] \subseteq Anc[x] /\ Anc[x] \subseteq Blocks
        BY <1>0, Basics
      <4>2. \A e \in Anc[c] : disk'[e] = disk[e]
        BY <1>3, <2>2, <4>1
      <4> QED
        BY <3>1, <4>1, <4>2, <1>3, <2>2 DEF Unreadable
    <3>2. \A e \in Anc[best] : disk'[e] = disk[e]
      BY <1>0, <1>2, <1>3, Basics
    <3>3. best' = best
      BY <1>1
    <3>4. CASE \E e \in Anc[best] \ Anc[x] : disk[e] = "lost"
      BY <2>2, <3>2, <3>3, <3>4 DEF Unreachable
    <3>5. CASE \E c \in Anc[x] \ Anc[best] : Unreadable(c)
      BY <2>2, <3>1, <3>3, <3>5 DEF Unreachable
    <3> QED
      BY <1>5, <3>4, <3>5 DEF Unreachable
  <2> QED
    BY <2>1, <2>2
<1>6. EntriesLow'
  <2>1. \A y \in index' \ {Genesis} : Prev[y] \in index' \cup hollow' \/ y \in dangling'
    BY <1>1 DEF Straight, EntriesLow
  <2>2. ASSUME NEW x \in index
        PROVE  Height[x] <= Height[best] \/ Barred(x)'
    <3>1. Height[x] <= Height[best] \/ Barred(x)
      BY <1>1 DEF Straight, EntriesLow
    <3>2. Barred(x) => (hollow \cup dangling) \cap Anc[x] # {} \/ Unreachable(x)
      BY <1>1 DEF Barred
    <3>3. (hollow \cup dangling) \cap Anc[x] # {} \/ Unreachable(x)' => Barred(x)'
      BY <1>1 DEF Barred
    <3> QED
      BY <1>5, <3>1, <3>2, <3>3
  <2>3. Height[b] <= Height[best] + 1 \/ hollow \cap Anc[b] # {} \/ Unreachable(b)'
    <3>1. Height[Prev[b]] <= Height[best] \/ (hollow \cup dangling) \cap Anc[Prev[b]] # {}
          \/ Unreachable(Prev[b])
      BY <1>1, <1>4 DEF Straight, EntriesLow, Barred
    <3>2. CASE Height[Prev[b]] <= Height[best]
      BY <1>0, <1>4, <3>2, HeightFacts
    <3>3. CASE (hollow \cup dangling) \cap Anc[Prev[b]] # {}
      BY <1>1, <1>4, <3>3 DEF WalksFreedEntry
    <3>4. CASE Unreachable(Prev[b]) /\ (hollow \cup dangling) \cap Anc[Prev[b]] = {}
      <4>1. Unreachable(Prev[b])'
        BY <1>4, <1>5, <3>4
      <4> QED
        BY <1>1, <1>2, <1>4, <4>1 DEF Unreachable
    <3> QED
      BY <3>1, <3>2, <3>3, <3>4
  <2> QED
    BY <1>1, <2>1, <2>2, <2>3 DEF EntriesLow
<1>7. RecordsLow'
  <2>1. txn'.idx = [db.idx EXCEPT ![b] = None] /\ db.idx \in [Blocks -> Blocks \cup {None, Absent}]
    BY <1>0, <1>1, RecordUpdate
  <2>2. \A x \in Blocks : x # b => txn'.idx[x] = db.idx[x]
    BY <2>1
  <2>3. Joining'
    BY <1>1 DEF Joining
  <2>4. Height[b] <= Height[b]
    BY HeightFacts
  <2> QED
    BY <1>1, <2>2, <2>3, <2>4 DEF Straight, RecordsLow
<1>8. BranchRead'
  BY <1>1 DEF BranchRead, Moving
<1>9. ChainOnDisk'
  <2>1. \A x \in Anc[best] : disk'[x] = disk[x]
    BY <1>0, <1>2, <1>3, Basics
  <2>2. Height[best] > NetHeight - 3 \/ Height[best] = NetHeight - 3 => dirty' = {}
    BY <1>0, <1>1, HeightFacts DEF WriteSyncs, IsInitialBlockDownload
  <2> QED
    BY <1>1, <2>1, <2>2 DEF Straight, ChainOnDisk
<1>10. EntriesChecked'
  <2>1. txn'.idx = [db.idx EXCEPT ![b] = None] /\ db.idx \in [Blocks -> Blocks \cup {None, Absent}]
    BY <1>0, <1>1, RecordUpdate
  <2>2. b \in CheckOk
    BY <1>1, <1>4 DEF Straight, EntriesChecked
  <2> QED
    BY <1>1, <2>1, <2>2 DEF Straight, EntriesChecked
<1> QED
  BY <1>6, <1>7, <1>8, <1>9, <1>10 DEF Straight

----------------------------------------------------------------------------
(* AddToBlockIndex and Reorganize.                                         *)

\* Steps that give a job up: the entry that stays is low, or barred.
LEMMA LeaveRestart ==
  ASSUME IndInv, LinksInv, Straight, AddSideBlock \/ AddWithoutFork \/ ReadFails
  PROVE  Straight'
<1>0. /\ best \in Blocks
      /\ Joining => new \in Blocks
      /\ Moving => Anc[cur] = Anc[at] \cup {cur} /\ cur \in Blocks \ {Genesis}
      /\ Joining => txn.idx[new] # Absent
      /\ pc = "disconnect" => cur \in Anc[best] \ Anc[new]
      /\ pc = "connect" => cur \in Anc[new] \ Anc[best]
  BY StateFacts DEF Joining, Moving
<1>1. /\ Joining /\ pc # "purge" /\ pc' = "idle" /\ best' = best
      /\ UNCHANGED <<memVars, fileVars>> /\ txn' = db' /\ orphans' \subseteq orphans \cup {new}
      /\ db' = db \/ (db' = txn /\ Height[new] <= Height[best])
  BY DEF AddSideBlock, AddWithoutFork, ReadFails, Rest, Joining, Moving, memVars, recvVars
<1>2. UNCHANGED <<index, hollow, dangling, best, disk, dirty>>
  BY <1>1 DEF memVars, fileVars
<1>3. Height[new] <= Height[best] \/ hollow \cap Anc[new] # {} \/ Unreachable(new)
  <2>1. CASE AddSideBlock \/ AddWithoutFork
    BY <2>1 DEF AddSideBlock, AddWithoutFork
  <2>2. CASE ReadFails /\ disk[cur] = "lost"
    <3>1. CASE pc = "disconnect"
      BY <1>0, <2>2, <3>1 DEF Unreachable
    <3>2. CASE pc = "connect"
      BY <1>0, <2>2, <3>2 DEF Unreachable, Unreadable
    <3> QED
      BY <2>2, <3>1, <3>2 DEF ReadFails
  <2>3. CASE ReadFails /\ disk[cur] # "lost"
    <3>1. pc = "connect" /\ done < Len(Vtx[cur]) /\ LostInput(Vtx[cur][done + 1])
      BY <2>3 DEF ReadFails
    <3>2. cur \in Anc[new] \ Anc[best] /\ Moving /\ cur \in Blocks /\ Anc[cur] = Anc[at] \cup {cur}
      BY <1>0, <3>1 DEF Moving
    <3>3. done + 1 \in DOMAIN Vtx[cur] /\ Vtx[cur][done + 1] \in Txs
      BY <3>1, <3>2, Basics DEF IndInv, TypeOK
    <3>4. PICK o \in In[Vtx[cur][done + 1]] : txn.pos[o[1]] # None /\ disk[txn.pos[o[1]]] = "lost"
      BY <3>1 DEF LostInput
    <3>5. o[1] \in Txs /\ txn.pos[o[1]] \in Blocks
      BY <3>3, <3>4, Basics DEF IndInv, TypeOK, DbType
    <3>6. PICK e \in Blocks : txn.pos[o[1]] = e
      BY <3>5
    <3>7. View(txn, at, cur, done)
      BY <3>2 DEF IndInv
    <3>8. PICK j \in DOMAIN Vtx[e] : Applied(e, j, at, cur, done) /\ Vtx[e][j] = o[1]
      BY <3>5, <3>6, <3>7 DEF View, PosOK
    <3>9. e \in Anc[cur] \ {Genesis}
      BY <1>0, <3>2, <3>8 DEF Applied
    <3>10. Unreadable(cur)
      BY <3>3, <3>4, <3>6, <3>8, <3>9 DEF Unreadable
    <3> QED
      BY <3>2, <3>10 DEF Unreachable
  <2> QED
    BY <2>1, <2>2, <2>3
<1>4. EntriesLow'
  BY <1>1, <1>3, QuietEntries DEF Straight, Joining, Moving
<1>5. RecordsLow'
  <2>1. ASSUME NEW b \in Blocks, db'.idx[b] # Absent
        PROVE  Height[b] <= Height[best]
    <3>1. CASE db' = db
      BY <2>1, <3>1 DEF Straight, RecordsLow
    <3>2. CASE db' = txn /\ Height[new] <= Height[best]
      BY <1>0, <1>1, <2>1, <3>2, HeightFacts DEF Straight, RecordsLow, Joining, Moving
    <3> QED
      BY <1>1, <3>1, <3>2
  <2> QED
    BY <1>1, <2>1 DEF RecordsLow
<1>6. BranchRead'
  BY <1>1 DEF BranchRead, Moving
<1>7. ChainOnDisk'
  BY <1>1, <1>2, QuietDisk DEF Straight, Joining, Moving
<1>8. EntriesChecked'
  <2>1. new # Genesis => new \in CheckOk
    BY <1>0, <1>1 DEF Straight, EntriesChecked, Joining, Moving
  <2> QED
    BY <1>1, <1>2, <2>1 DEF Straight, EntriesChecked
<1> QED
  BY <1>4, <1>5, <1>6, <1>7, <1>8 DEF Straight

\* A step within a reorganization keeps what does not depend on how far it is.
LEMMA OnwardRestart ==
  ASSUME IndInv, LinksInv, Straight, Joining, Joining', UNCHANGED <<memVars, recvVars, fileVars, db, new>>,
         \A b \in Blocks : txn'.idx[b] # Absent => txn.idx[b] # Absent \/ b = at
  PROVE  EntriesLow' /\ RecordsLow' /\ ChainOnDisk' /\ EntriesChecked'
<1>0. /\ best \in Blocks /\ new \in Blocks /\ at \in Blocks
      /\ pc # "down" => Anc[best] \subseteq index /\ Anc[LinkedTo] \subseteq index
      /\ Moving => cur \in Blocks \ {Genesis} /\ Prev[cur] = at
      /\ pc = "commit" => at = new
      /\ pc = "disconnect" => cur \in Anc[best] \ Anc[new]
      /\ pc = "connect" => cur \in Anc[new] \ Anc[best]
      /\ txn.idx[new] # Absent
  BY StateFacts DEF Joining, Moving
<1>1. UNCHANGED <<index, hollow, dangling, best, disk, dirty, orphans>>
  BY DEF memVars, recvVars, fileVars
<1>2. pc \notin {"idle", "down", "purge"} /\ pc' \notin {"idle", "down", "purge"}
  BY DEF Joining, Moving
<1>3. EntriesLow'
  BY <1>1, <1>2, QuietEntries DEF Straight
<1>4. RecordsLow'
  <2>1. Height[at] <= Height[best] \/ Height[at] <= Height[new]
    <3>1. CASE Moving
      <4>1. at \in Anc[cur] /\ (cur \in Anc[best] \/ cur \in Anc[new])
        BY <1>0, <3>1, ChildFacts DEF Moving
      <4> QED
        BY <1>0, <4>1, Basics, HeightFacts
    <3>2. CASE ~ Moving
      <4>1. at = best \/ at = new
        BY <1>0, <1>2, <3>2 DEF IndInv, JobOK
      <4> QED
        BY <1>0, <4>1, HeightFacts
    <3> QED
      BY <3>1, <3>2
  <2> QED
    BY <1>1, <2>1 DEF Straight, RecordsLow
<1>5. ChainOnDisk'
  BY <1>1, <1>2, QuietDisk DEF Straight
<1>6. EntriesChecked'
  <2>1. at \in index
    <3>1. CASE pc = "disconnect"
      <4>1. at \in Anc[cur] /\ Anc[cur] \subseteq Anc[best]
        BY <1>0, <3>1, ChildFacts, Basics DEF Moving
      <4> QED
        BY <1>0, <1>2, <4>1
    <3>2. CASE pc # "disconnect"
      BY <1>0, <1>2, <3>2, SelfAncestor DEF LinkedTo
    <3> QED
      BY <3>1, <3>2
  <2> QED
    BY <1>1, <2>1 DEF Straight, EntriesChecked
<1> QED
  BY <1>3, <1>4, <1>5, <1>6

\* Seek goes on from a branch that was read as far as a.
LEMMA SeekRead ==
  ASSUME NEW a \in Blocks, new \in Blocks, Seek(a), UNCHANGED <<hollow, best, disk>>,
         hollow \cap Anc[new] = {} /\ new \notin Anc[best],
         \A e \in Anc[best] \ Anc[a] : disk[e] # "lost",
         \A c \in Anc[a] \ Anc[best] : disk[c] = "ok" /\ ~ Unreadable(c)
  PROVE  BranchRead'
<1>1. new' = new /\ LinkedTo' = a
  BY DEF Seek, LinkedTo
<1>2. Anc[at'] \subseteq Anc[a]
  BY ChildFacts, Basics DEF Seek
<1>3. pc' = "disconnect" => done' = Len(Vtx[cur'])
  BY DEF Seek
<1>4. pc' = "connect" => done' = 0
  BY DEF Seek
<1>5. \A c \in Anc[at'] \ Anc[best] : disk[c] = "ok" /\ ~ Unreadable(c)'
  BY <1>2, SameReach
<1>6. pc' = "connect" => 1 .. done' = {}
  BY <1>4
<1> QED
  BY <1>1, <1>3, <1>5, <1>6 DEF BranchRead

LEMMA ReorganizeRestart ==
  ASSUME IndInv, LinksInv, Straight,
         AddNewBest \/ DisconnectTx \/ DisconnectBlock \/ ConnectTx \/ ConnectBlock
  PROVE  Straight'
<1>0. /\ best \in Blocks /\ at \in Blocks /\ txn \in DbType
      /\ Moving => cur \in Blocks \ {Genesis} /\ Prev[cur] = at /\ Anc[cur] = Anc[at] \cup {cur}
                   /\ Vtx[cur] # <<>>
      /\ Joining => new \in Blocks
      /\ pc = "disconnect" => cur \in Anc[best] \ Anc[new]
      /\ pc = "connect" => cur \in Anc[new] \ Anc[best]
  BY StateFacts DEF Joining, Moving
<1>1. /\ UNCHANGED <<memVars, recvVars, fileVars, db, new>> /\ Joining /\ Joining'
  BY DEF AddNewBest, DisconnectTx, DisconnectBlock, ConnectTx, ConnectBlock, Seek, Joining, Moving
<1>2. UNCHANGED <<index, hollow, dangling, best, disk, dirty>>
  BY <1>1 DEF memVars, fileVars
<1>3. Moving => /\ hollow \cap Anc[new] = {} /\ new \notin Anc[best]
                /\ \A e \in Anc[best] \ Anc[LinkedTo] : disk[e] # "lost"
                /\ \A c \in Anc[at] \ Anc[best] : disk[c] = "ok" /\ ~ Unreadable(c)
  BY DEF Straight, BranchRead
<1>4. (\A b \in Blocks : txn'.idx[b] # Absent => txn.idx[b] # Absent \/ b = at) /\ BranchRead'
      => Straight'
  BY <1>1, OnwardRestart DEF Straight
<1>5. CASE AddNewBest
  <2>1. /\ pc = "index" /\ Height[new] > Height[best] /\ hollow \cap Anc[new] = {}
        /\ Seek(best) /\ txn' = txn /\ new \in Blocks
    BY <1>0, <1>5 DEF AddNewBest, Joining
  <2>2. new \notin Anc[best]
    BY <1>0, <2>1, HeightFacts
  <2>3. BranchRead'
    BY <1>0, <1>2, <2>1, <2>2, SeekRead
  <2> QED
    BY <1>4, <2>1, <2>3
<1>6. CASE DisconnectTx
  <2>1. /\ pc = "disconnect" /\ disk[cur] = "ok" /\ UNCHANGED <<pc, new, at, cur>>
        /\ \E t : txn' = DisconnectInputs(txn, t)
    BY <1>6 DEF DisconnectTx
  <2>2. txn'.idx = txn.idx
    BY <1>0, <2>1 DEF DisconnectInputs, DbType
  <2>3. \A c : Unreadable(c)' <=> Unreadable(c)
    BY <1>2, SameReach
  <2>4. BranchRead'
    BY <1>2, <1>3, <2>1, <2>3 DEF BranchRead, LinkedTo, Moving
  <2> QED
    BY <1>4, <2>2, <2>4
<1>7. CASE DisconnectBlock
  <2>1. /\ pc = "disconnect" /\ done = 0 /\ txn' = [txn EXCEPT !.idx[at] = None] /\ Seek(at)
        /\ Moving /\ LinkedTo = cur /\ new \in Blocks
    BY <1>0, <1>7 DEF DisconnectBlock, Moving, LinkedTo, Joining
  <2>2. disk[cur] = "ok"
    <3>1. Len(Vtx[cur]) # 0
      BY <1>0, <2>1, Basics
    <3> QED
      BY <2>1, <3>1 DEF Straight, BranchRead
  <2>3. txn'.idx = [txn.idx EXCEPT ![at] = None] /\ txn.idx \in [Blocks -> Blocks \cup {None, Absent}]
    BY <1>0, <2>1, RecordUpdate
  <2>4. \A e \in Anc[best] \ Anc[at] : disk[e] # "lost"
    BY <1>0, <1>3, <2>1, <2>2
  <2>5. BranchRead'
    BY <1>0, <1>2, <1>3, <2>1, <2>4, SeekRead
  <2> QED
    BY <1>4, <2>3, <2>5
<1>8. CASE ConnectTx
  <2> DEFINE t == Vtx[cur][done + 1]
  <2>1. /\ pc = "connect" /\ disk[cur] = "ok" /\ UNCHANGED <<pc, new, at, cur>>
        /\ done < Len(Vtx[cur]) /\ done' = done + 1
        /\ ~ LostInput(t) /\ txn' = ConnectInputs(txn, t, cur) /\ InputsConnect(txn, t, at)
        /\ Moving /\ done \in Nat
    BY <1>8 DEF ConnectTx, TxConnects, Moving, IndInv, TypeOK
  <2>2. txn'.idx = txn.idx
    BY <1>0, <2>1 DEF ConnectInputs, DbType
  <2>3. \A c : Unreadable(c)' <=> Unreadable(c)
    BY <1>2, SameReach
  <2>4. ASSUME NEW o \in In[t], NEW e \in Anc[at] \ {Genesis}, NEW j \in DOMAIN Vtx[e], Vtx[e][j] = o[1]
        PROVE  disk[e] # "lost"
    <3>1. View(txn, at, cur, done)
      BY <2>1 DEF IndInv
    <3>2. e \in Blocks /\ o[1] \in Txs
      BY <1>0, <2>4, Basics
    <3>3. Applied(e, j, at, cur, done)
      BY <2>4, <3>2 DEF Applied
    <3>4. txn.pos[o[1]] = e
      BY <2>4, <3>1, <3>2, <3>3 DEF View, PosOK
    <3>5. txn.pos[o[1]] # None
      BY <3>2, <3>4, Basics
    <3> QED
      BY <2>1, <3>4, <3>5 DEF LostInput
  <2>5. ASSUME NEW i \in 1 .. done', NEW o \in In[Vtx[cur][i]], NEW e \in Anc[at] \ {Genesis},
               \E j \in DOMAIN Vtx[e] : Vtx[e][j] = o[1]
        PROVE  disk[e] # "lost"
    <3>1. i \in 1 .. done \/ i = done + 1
      BY <2>1
    <3>2. CASE i \in 1 .. done
      BY <2>1, <2>5, <3>2 DEF Straight, BranchRead
    <3>3. CASE i = done + 1
      BY <2>4, <2>5, <3>3
    <3> QED
      BY <3>1, <3>2, <3>3
  <2> HIDE DEF t
  <2>6. BranchRead'
    BY <1>2, <1>3, <2>1, <2>3, <2>5 DEF BranchRead, LinkedTo, Moving
  <2> QED
    BY <1>4, <2>2, <2>6
<1>9. CASE ConnectBlock
  <2>1. /\ pc = "connect" /\ done = Len(Vtx[cur]) /\ disk[cur] = "ok"
        /\ txn' = [txn EXCEPT !.idx[at] = cur] /\ Seek(cur)
        /\ Moving /\ LinkedTo = at /\ new \in Blocks
    BY <1>0, <1>9 DEF ConnectBlock, Moving, LinkedTo, Joining
  <2>2. txn'.idx = [txn.idx EXCEPT ![at] = cur] /\ txn.idx \in [Blocks -> Blocks \cup {None, Absent}]
    BY <1>0, <2>1, RecordUpdate
  <2>3. ~ Unreadable(cur)
    <3> SUFFICES ASSUME NEW i \in DOMAIN Vtx[cur], NEW o \in In[Vtx[cur][i]],
                        NEW e \in Anc[cur] \ {Genesis}, disk[e] = "lost",
                        \E j \in DOMAIN Vtx[e] : Vtx[e][j] = o[1]
                 PROVE  FALSE
      BY <2>1 DEF Unreadable
    <3>1. i \in 1 .. done
      BY <1>0, <2>1, Basics
    <3>2. e \in Anc[at] \ {Genesis}
      BY <1>0, <2>1
    <3> QED
      BY <2>1, <3>1, <3>2 DEF Straight, BranchRead
  <2>4. \A c \in Anc[cur] \ Anc[best] : disk[c] = "ok" /\ ~ Unreadable(c)
    BY <1>0, <1>3, <2>1, <2>3
  <2>5. \A e \in Anc[best] \ Anc[cur] : disk[e] # "lost"
    BY <1>0, <1>3, <2>1
  <2>6. BranchRead'
    BY <1>0, <1>2, <1>3, <2>1, <2>4, <2>5, SeekRead
  <2>7. cur \in Blocks /\ Absent \notin Blocks
    BY <1>0, <2>1, Basics
  <2> QED
    BY <1>4, <2>2, <2>6, <2>7
<1> QED
  BY <1>5, <1>6, <1>7, <1>8, <1>9

\* The abort before a purge.
LEMMA FailRestart ==
  ASSUME IndInv, LinksInv, Straight, ConnectFails
  PROVE  Straight'
<1>1. /\ pc = "connect" /\ pc' = "purge" /\ new' = new /\ txn' = db /\ db' = db
      /\ UNCHANGED <<memVars, recvVars, fileVars>>
  BY DEF ConnectFails
<1>2. UNCHANGED <<index, best, disk, dirty, orphans>>
  BY <1>1 DEF memVars, fileVars, recvVars
<1>3. EntriesLow'
  BY <1>1, QuietEntries DEF Straight, Joining, Moving
<1>4. RecordsLow' /\ BranchRead' /\ EntriesChecked'
  BY <1>1, <1>2 DEF Straight, RecordsLow, BranchRead, EntriesChecked, Moving
<1>5. ChainOnDisk'
  BY <1>1, <1>2, QuietDisk DEF Straight
<1> QED
  BY <1>3, <1>4, <1>5 DEF Straight

\* The best chain grows by one block, all of it is there to be read, and if it
\* passes NetHeight - 3 with this block, the block and all before it were synced.
LEMMA CommitRestart ==
  ASSUME IndInv, LinksInv, Straight, Commit
  PROVE  Straight'
<1>0. /\ best = db.best /\ best \in Blocks /\ new \in Blocks /\ at = new /\ index \subseteq Blocks
      /\ txn \in DbType
  BY StateFacts DEF Commit
<1>1. /\ pc = "commit" /\ best' = new /\ pc' = "idle"
      /\ db' = [txn EXCEPT !.best = new] /\ txn' = db'
      /\ UNCHANGED <<index, hollow, dangling, orphans, disk, dirty>>
  BY DEF Commit, Rest, fileVars
<1>2. db'.idx = txn.idx /\ txn'.idx = txn.idx
  BY <1>0, <1>1 DEF DbType
<1>3. /\ hollow \cap Anc[new] = {} /\ new \notin Anc[best]
      /\ \A e \in Anc[best] \ Anc[new] : disk[e] # "lost"
      /\ \A c \in Anc[new] \ Anc[best] : disk[c] = "ok" /\ ~ Unreadable(c)
  BY <1>0, <1>1 DEF Straight, BranchRead, LinkedTo
<1>4. /\ Height[best] < Height[new] /\ Height[new] = Height[best] + 1
      /\ Height[new] \in Nat /\ Height[best] \in Nat
  <2>1. ~ Unreachable(new)
    BY <1>3 DEF Unreachable
  <2>2. Height[new] <= Height[best] + 1
    BY <1>1, <1>3, <2>1 DEF Straight, EntriesLow, Joining
  <2>3. Height[new] > Height[best]
    BY <1>1, <1>3 DEF IndInv, JobOK
  <2> QED
    BY <1>0, <2>2, <2>3, HeightFacts
<1>5. ASSUME NEW x, Unreachable(x)
      PROVE  Unreachable(x)'
  <2>1. \A c : Unreadable(c)' <=> Unreadable(c)
    BY <1>1 DEF Unreadable
  <2>2. CASE \E e \in Anc[best] \ Anc[x] : disk[e] = "lost"
    BY <1>1, <1>3, <2>2 DEF Unreachable
  <2>3. CASE \E c \in Anc[x] \ Anc[best] : Unreadable(c)
    BY <1>1, <1>3, <2>1, <2>3 DEF Unreachable
  <2> QED
    BY <1>5, <2>2, <2>3 DEF Unreachable
<1>6. EntriesLow'
  <2>1. ASSUME NEW x \in index
        PROVE  Height[x] <= Height[new] \/ Barred(x)'
    <3>1. Height[x] <= Height[best] \/ Barred(x) \/ x = new
      BY DEF Straight, EntriesLow
    <3>2. Barred(x) => Barred(x)'
      BY <1>1, <1>5 DEF Barred
    <3> QED
      BY <1>0, <1>4, <3>1, <3>2, HeightFacts
  <2> QED
    BY <1>1, <2>1 DEF Straight, EntriesLow, Joining, Moving
<1>7. RecordsLow'
  <2>1. ASSUME NEW b \in Blocks, txn.idx[b] # Absent
        PROVE  Height[b] <= Height[new]
    <3>1. Height[b] <= Height[best] \/ Height[b] <= Height[new]
      BY <2>1 DEF Straight, RecordsLow
    <3> QED
      BY <1>4, <3>1, HeightFacts
  <2> QED
    BY <1>1, <1>2, <2>1 DEF RecordsLow
<1>8. BranchRead'
  BY <1>1 DEF BranchRead, Moving
<1>9. ChainOnDisk'
  <2>1. ASSUME NEW b \in Anc[new] \ {Genesis}
        PROVE  disk[b] # "null" /\ (disk[b] = "lost" => Height[new] - Height[b] >= CheckBlocks)
    <3>1. CASE b \in Anc[best]
      <4>1. disk[b] # "null" /\ (disk[b] = "lost" => Height[best] - Height[b] >= CheckBlocks)
        BY <1>1, <2>1, <3>1 DEF Straight, ChainOnDisk
      <4> QED
        BY <1>0, <1>4, <3>1, <4>1, HeightFacts
    <3>2. CASE b \notin Anc[best]
      BY <1>3, <2>1, <3>2
    <3> QED
      BY <3>1, <3>2
  <2>2. Height[new] > NetHeight - 3 => dirty = {}
    <3>1. Height[new] > NetHeight - 3 => Height[best] > NetHeight - 3 \/ Height[best] = NetHeight - 3
      BY <1>4, HeightFacts
    <3> QED
      BY <1>1, <3>1 DEF Straight, ChainOnDisk
  <2> QED
    BY <1>1, <2>1, <2>2 DEF ChainOnDisk
<1>10. EntriesChecked'
  BY <1>1, <1>2 DEF Straight, EntriesChecked
<1> QED
  BY <1>6, <1>7, <1>8, <1>9, <1>10 DEF Straight

----------------------------------------------------------------------------
(* The deletion of a failed branch.                                        *)

LEMMA PurgeRestart ==
  ASSUME IndInv, LinksInv, Straight, EraseBlockFromDisk \/ EraseBlockIndex
  PROVE  Straight'
<1>0. /\ best \in Blocks /\ index \subseteq Blocks /\ db \in DbType
      /\ cur \in Anc[new] \ Anc[best] /\ new \in Blocks /\ cur \in Blocks
  <2>1. pc = "purge"
    BY DEF EraseBlockFromDisk, EraseBlockIndex
  <2>2. /\ best \in Blocks /\ index \subseteq Blocks /\ db \in DbType
        /\ cur \in Anc[new] \ Anc[best] /\ new \in Blocks
    BY <2>1, StateFacts
  <2> QED
    BY <2>2, Basics
<1>1. CASE EraseBlockFromDisk
  <2>1. /\ pc = "purge" /\ disk' = [disk EXCEPT ![cur] = "null"]
        /\ UNCHANGED <<index, hollow, dangling, best, orphans, dirty, db, txn, pc, new, at, cur, done>>
    BY <1>1 DEF EraseBlockFromDisk, memVars, recvVars, jobVars
  <2>2. \A c \in Blocks : c # cur => disk'[c] = disk[c]
    BY <2>1 DEF IndInv, TypeOK
  <2>3. ASSUME NEW x \in index, Unreachable(x)
        PROVE  Barred(x)'
    <3>1. CASE cur \in Anc[x]
      BY <2>1, <3>1 DEF Barred
    <3>2. CASE cur \notin Anc[x]
      <4>1. \A c \in Anc[x] : Anc[c] \subseteq Anc[x] /\ c \in Blocks
        BY <1>0, Basics
      <4>2. ASSUME NEW c \in Anc[x], Unreadable(c)
            PROVE  Unreadable(c)'
        <5>1. \A e \in Anc[c] : disk'[e] = disk[e]
          BY <2>2, <3>2, <4>1
        <5> QED
          BY <2>2, <3>2, <4>1, <4>2, <5>1 DEF Unreadable
      <4>3. \A e \in Anc[best] : disk'[e] = disk[e]
        BY <1>0, <2>2, Basics
      <4>4. CASE \E e \in Anc[best] \ Anc[x] : disk[e] = "lost"
        BY <2>1, <4>3, <4>4 DEF Barred, Unreachable
      <4>5. CASE \E c \in Anc[x] \ Anc[best] : Unreadable(c)
        BY <2>1, <4>2, <4>5 DEF Barred, Unreachable
      <4> QED
        BY <2>3, <4>4, <4>5 DEF Unreachable
    <3> QED
      BY <3>1, <3>2
  <2>4. EntriesLow'
    <3>1. ASSUME NEW x \in index, Barred(x)
          PROVE  Barred(x)'
      BY <2>1, <2>3, <3>1 DEF Barred
    <3> QED
      BY <2>1, <3>1 DEF Straight, EntriesLow, Joining, Moving
  <2>5. RecordsLow' /\ BranchRead' /\ EntriesChecked'
    BY <2>1 DEF Straight, RecordsLow, BranchRead, EntriesChecked, Joining, Moving
  <2>6. ChainOnDisk'
    <3>1. \A b \in Anc[best] : disk'[b] = disk[b]
      BY <1>0, <2>2, Basics
    <3> QED
      BY <2>1, <3>1 DEF Straight, ChainOnDisk
  <2> QED
    BY <2>4, <2>5, <2>6 DEF Straight
<1>2. CASE EraseBlockIndex
  <2>1. /\ pc = "purge" /\ db' = [db EXCEPT !.idx[cur] = Absent] /\ txn' = db'
        /\ index' = index \ {cur}
        /\ dangling' = (dangling \cup {b \in index : Prev[b] = cur}) \ {cur}
        /\ UNCHANGED <<hollow, best, orphans, disk, dirty>>
        /\ (cur = new /\ pc' = "idle") \/ (cur # new /\ pc' = "purge" /\ new' = new)
    BY <1>2 DEF EraseBlockIndex, Rest, recvVars, fileVars
  <2>2. db'.idx = [db.idx EXCEPT ![cur] = Absent] /\ db.idx \in [Blocks -> Blocks \cup {None, Absent}]
    BY <1>0, <2>1, RecordUpdate
  <2>3. \A b \in index' \ {Genesis} : Prev[b] \in index' \cup hollow \/ b \in dangling'
    BY <2>1 DEF Straight, EntriesLow
  \* Whoever stands on the block that goes, stands on a freed entry from now on.
  <2>4. ASSUME NEW x \in index', cur \in Anc[x]
        PROVE  (hollow \cup dangling') \cap Anc[x] # {}
    <3>1. index' \in SUBSET Blocks /\ cur \notin index'
      BY <1>0, <2>1
    <3> QED
      BY <2>3, <2>4, <3>1, PathBroken
  <2>5. ASSUME NEW x \in index', Barred(x)
        PROVE  Barred(x)'
    <3>1. CASE cur \in Anc[x]
      BY <2>1, <2>4, <3>1 DEF Barred
    <3>2. CASE cur \notin Anc[x]
      <4>1. (hollow \cup dangling) \cap Anc[x] # {} => (hollow \cup dangling') \cap Anc[x] # {}
        BY <2>1, <3>2
      <4>2. Unreachable(x) => Unreachable(x)'
        BY <2>1, SameReach
      <4> QED
        BY <2>1, <2>5, <3>2, <4>1, <4>2 DEF Barred
    <3> QED
      BY <3>1, <3>2
  <2>6. EntriesLow'
    <3>1. ASSUME NEW x \in index'
          PROVE  Height[x] <= Height[best] \/ Barred(x)' \/ (pc' \notin {"idle", "down"} /\ x = new')
      <4>1. x \in index /\ x # cur
        BY <2>1
      <4>2. Height[x] <= Height[best] \/ Barred(x) \/ x = new
        BY <4>1 DEF Straight, EntriesLow
      <4> QED
        BY <2>1, <2>5, <4>1, <4>2
    <3>2. ~ Joining'
      BY <2>1 DEF Joining, Moving
    <3> QED
      BY <2>1, <2>3, <3>1, <3>2 DEF EntriesLow
  <2>7. \A b \in Blocks : db'.idx[b] # Absent => db.idx[b] # Absent
    BY <2>2
  <2>8. RecordsLow' /\ BranchRead' /\ EntriesChecked'
    BY <2>1, <2>7 DEF Straight, RecordsLow, BranchRead, EntriesChecked, Moving
  <2>9. ChainOnDisk'
    BY <2>1, QuietDisk DEF Straight
  <2> QED
    BY <2>6, <2>8, <2>9 DEF Straight
<1> QED
  BY <1>1, <1>2

----------------------------------------------------------------------------
(* The end of the process, and its next start.                             *)

\* What is lost was not synced, and once the node has caught up that is nothing.
LEMMA EndsRestart ==
  ASSUME IndInv, LinksInv, Straight,
         \/ \E b \in Blocks : FollowFreedEntry(b)
         \/ ReadNullBlock
         \/ \E kind \in CrashKinds : Crash(kind)
  PROVE  Straight'
<1>0. best = db.best /\ best \in Blocks
  BY StateFacts
<1>1. /\ pc # "down" /\ pc' = "down" /\ index' = {} /\ orphans' = {} /\ best' = best
      /\ txn' = db /\ db' = db
  BY <1>0 DEF FollowFreedEntry, Arrives, Idle, ReadNullBlock, Crash, ProcessEnds, Rest
<1>2. /\ dirty = {} => dirty' = {}
      /\ \A b \in Blocks : disk'[b] = disk[b] \/ (disk'[b] = "lost" /\ b \in dirty)
  <2>1. CASE \E kind \in CrashKinds : Crash(kind)
    <3>1. PICK kind \in CrashKinds : Crash(kind)
      BY <2>1
    <3>2. PICK lost \in SUBSET dirty :
             disk' = [b \in Blocks |-> IF b \in lost THEN "lost" ELSE disk[b]]
      BY <3>1 DEF Crash
    <3>3. dirty' = dirty \/ dirty' = {}
      BY <3>1 DEF Crash
    <3> QED
      BY <3>2, <3>3
  <2>2. CASE ReadNullBlock \/ \E b \in Blocks : FollowFreedEntry(b)
    <3>1. disk' = disk /\ dirty' = dirty
      BY <2>2 DEF ReadNullBlock, FollowFreedEntry, fileVars
    <3> QED
      BY <3>1
  <2> QED
    BY <2>1, <2>2
<1>3. EntriesLow'
  BY <1>1 DEF EntriesLow, Joining, Moving
<1>4. RecordsLow' /\ BranchRead' /\ EntriesChecked'
  BY <1>1 DEF Straight, RecordsLow, BranchRead, EntriesChecked, Moving
<1>5. ChainOnDisk'
  <2>1. Height[best] > NetHeight - 3 => dirty = {}
    BY DEF Straight, ChainOnDisk
  <2>2. ASSUME NEW b \in Anc[best] \ {Genesis}
        PROVE  /\ disk'[b] # "null"
               /\ disk'[b] = "lost" /\ Height[best] > NetHeight - 3 => Height[best] - Height[b] >= CheckBlocks
    <3>1. b \in Blocks
      BY <1>0, Basics
    <3>2. disk[b] # "null" /\ (disk[b] = "lost" => Height[best] - Height[b] >= CheckBlocks)
      BY <1>1 DEF Straight, ChainOnDisk
    <3> QED
      BY <1>2, <2>1, <3>1, <3>2
  <2> QED
    BY <1>1, <1>2, <2>1, <2>2 DEF ChainOnDisk
<1> QED
  BY <1>3, <1>4, <1>5 DEF Straight

\* A start with the rules the blocks were taken under finds no bad block in the
\* tail, so there is no repair; it goes on from records that are all low.
LEMMA StartRestart ==
  ASSUME IndInv, LinksInv, Straight, Restart, ~ strict'
  PROVE  Straight'
<1>0. /\ best = db.best /\ best \in Blocks /\ Anc[best] \subseteq Recorded
  BY StateFacts
<1>1. /\ pc = "down" /\ \A b \in CheckedTail : disk[b] # "lost"
      /\ index' = Recorded /\ hollow' = {Prev[b] : b \in Recorded} \ Recorded
      /\ UNCHANGED <<dangling, best, orphans, disk, dirty, db, txn>>
  BY DEF Restart, recvVars, fileVars
<1> DEFINE bad == {b \in CheckedTail : disk[b] = "null" \/ ~ CheckBlock(b, strict')}
<1>2. bad = {}
  <2> SUFFICES ASSUME NEW b \in CheckedTail
               PROVE  disk[b] # "null" /\ CheckBlock(b, strict')
    OBVIOUS
  <2>1. b \in Anc[best] \ {Genesis} /\ b \in Blocks /\ db.idx[b] # Absent
    BY <1>0, Basics DEF CheckedTail, Recorded
  <2>2. b \in CheckOk
    BY <2>1 DEF Straight, EntriesChecked
  <2>3. WellShaped(b)
    BY <2>1 DEF IndInv, EntriesGood, Good
  <2>4. disk[b] # "null"
    BY <2>1 DEF Straight, ChainOnDisk
  <2> QED
    BY <2>2, <2>3, <2>4 DEF CheckBlock
<1>3. pc' = "idle"
  BY <1>2 DEF Restart, Rest
<1>4. EntriesLow'
  <2>1. \A b \in Recorded : b \in Blocks /\ Height[b] <= Height[best]
    BY DEF Recorded, Straight, RecordsLow
  <2> QED
    BY <1>1, <1>3, <2>1 DEF EntriesLow, Joining, Moving
<1>5. RecordsLow' /\ BranchRead'
  BY <1>1, <1>3 DEF Straight, RecordsLow, BranchRead, Joining, Moving
<1>6. ChainOnDisk'
  <2>1. ASSUME NEW b \in Anc[best] \ {Genesis}
        PROVE  disk[b] # "null" /\ (disk[b] = "lost" => Height[best] - Height[b] >= CheckBlocks)
    <3>1. disk[b] # "null"
      BY DEF Straight, ChainOnDisk
    <3>2. disk[b] = "lost" => ~ (Height[best] - Height[b] < CheckBlocks)
      BY <1>0, <1>1 DEF CheckedTail
    <3> QED
      BY <1>0, <3>1, <3>2, HeightFacts
  <2> QED
    BY <1>1, <1>3, <2>1 DEF Straight, ChainOnDisk
<1>7. EntriesChecked'
  BY <1>1 DEF Straight, EntriesChecked, Recorded
<1> QED
  BY <1>4, <1>5, <1>6, <1>7 DEF Straight

LEMMA NextRestart == IndInv /\ LinksInv /\ RestartInv /\ [Next]_vars => RestartInv'
<1> SUFFICES ASSUME IndInv, LinksInv, RestartInv, [Next]_vars, ~ strict' PROVE Straight'
  BY DEF RestartInv, Straight
<1>0. ~ strict => Straight
  BY DEF RestartInv, Straight
<1>1. CASE UNCHANGED vars
  BY <1>0, <1>1 DEF vars, memVars, recvVars, fileVars, jobVars, envVars, Straight, EntriesLow, RecordsLow,
              BranchRead, ChainOnDisk, EntriesChecked, Barred, Unreachable, Unreadable, LinkedTo,
              Joining, Moving
<1>2. CASE Restart
  <2>1. ~ strict
    BY <1>2 DEF Restart, IndInv, TypeOK
  <2> QED
    BY <1>0, <1>2, <2>1, StartRestart
<1>3. ASSUME NEW b \in Blocks, AcceptBlock(b) \/ RefuseBlock(b) \/ RefuseOrphan(b) \/ StoreOrphan(b)
      PROVE  Straight'
  <2>1. strict' = strict
    BY <1>3 DEF AcceptBlock, RefuseBlock, RefuseOrphan, StoreOrphan, vars, envVars
  <2> QED
    BY <1>0, <1>3, <2>1, AcceptRestart, RefuseRestart
<1>4. CASE \/ \E b \in Blocks : FollowFreedEntry(b)
           \/ ReadNullBlock
           \/ \E kind \in CrashKinds : Crash(kind)
  <2>1. strict' = strict
    BY <1>4 DEF FollowFreedEntry, ReadNullBlock, Crash, ProcessEnds
  <2> QED
    BY <1>0, <1>4, <2>1, EndsRestart
<1>5. CASE \/ NextInQueue \/ AddSideBlock \/ AddWithoutFork \/ ReadFails
           \/ AddNewBest \/ DisconnectTx \/ DisconnectBlock \/ ConnectTx \/ ConnectBlock
           \/ ConnectFails \/ Commit \/ EraseBlockFromDisk \/ EraseBlockIndex
  <2>1. strict' = strict
    BY <1>5 DEF NextInQueue, AddSideBlock, AddWithoutFork, ReadFails, AddNewBest, DisconnectTx,
                DisconnectBlock, ConnectTx, ConnectBlock, ConnectFails, Commit, EraseBlockFromDisk,
                EraseBlockIndex, envVars
  <2>2. Straight /\ ~ strict /\ Genesis \in Blocks
    BY <1>0, <2>1, Basics
  <2> QED
    BY <1>5, <2>2, RefuseRestart, LeaveRestart, ReorganizeRestart, FailRestart, CommitRestart, PurgeRestart
<1> QED
  BY <1>1, <1>2, <1>3, <1>4, <1>5 DEF Next, ReceiveBlock, HandlerStep

\* A fresh data directory has the genesis block only.
LEMMA InitRestart == Init => RestartInv
<1> SUFFICES ASSUME Init PROVE Straight
  BY DEF RestartInv, Straight
<1> USE DEF Init, FreshDb
<1>1. Anc[Genesis] = {Genesis} /\ Genesis \in Blocks /\ None # Absent
  BY TreeAssumption
<1>2. EntriesLow
  BY <1>1, HeightFacts DEF EntriesLow, Joining, Moving
<1>3. RecordsLow
  BY <1>1, HeightFacts DEF RecordsLow
<1>4. BranchRead /\ ChainOnDisk /\ EntriesChecked
  BY <1>1 DEF BranchRead, ChainOnDisk, EntriesChecked, Moving
<1> QED
  BY <1>2, <1>3, <1>4 DEF Straight

\* For every tree of blocks, every depth of the check at start, every distance
\* between two fsyncs while catching up, and any number of crashes.
THEOREM RestartableCorrect == Spec => []Restartable
<1>1. Init => IndInv /\ LinksInv /\ RestartInv
  BY InitIndInv, InitLinks, InitRestart
<1>2. IndInv /\ LinksInv /\ RestartInv /\ [Next]_vars => (IndInv /\ LinksInv /\ RestartInv)'
  BY NextIndInv, NextLinks, NextRestart
<1>3. IndInv /\ LinksInv /\ RestartInv => Restartable
  <2> SUFFICES ASSUME IndInv, LinksInv, RestartInv, pc = "down", ~ strict,
                      Height[db.best] > NetHeight - 3, NEW b \in CheckedTail
               PROVE  disk[b] # "lost"
    BY DEF Restartable
  <2>1. best = db.best /\ best \in Blocks
    BY StateFacts
  <2>2. b \in Anc[best] \ {Genesis} /\ Height[best] - Height[b] < CheckBlocks
    BY <2>1 DEF CheckedTail
  <2>3. disk[b] = "lost" => Height[best] - Height[b] >= CheckBlocks
    BY <2>1, <2>2 DEF RestartInv, ChainOnDisk
  <2> QED
    BY <2>1, <2>2, <2>3, HeightFacts
<1> QED
  BY <1>1, <1>2, <1>3, PTL DEF Spec
=============================================================================
