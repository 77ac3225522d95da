----------------------------- MODULE KeysProofs -----------------------------
(***************************************************************************)
(* Proofs about Keys, for every plan: any order of requests, any number of *)
(* refused writes, of ends of the process and of phrases.                  *)
(***************************************************************************)
EXTENDS Keys, NaturalSets

----------------------------------------------------------------------------
(* Pools, wallets and files.                                               *)

LEMMA EmptyPool == PoolOK(<<>>) /\ DOMAIN <<>> = {} /\ Range(<<>>) = {}
<1>1. DOMAIN <<>> = {}
  OBVIOUS
<1> QED
  BY <1>1, FS_EmptySet DEF PoolOK, PoolType, Range

\* A record of the pool is added or replaced.
LEMMA PutPool ==
  ASSUME NEW f, PoolOK(f), NEW i \in Nat \ {0}, NEW k \in KeySet
  PROVE  /\ PoolOK(Put(f, i, k))
         /\ DOMAIN Put(f, i, k) = DOMAIN f \cup {i}
         /\ Put(f, i, k)[i] = k
         /\ \A j \in DOMAIN f : j # i => Put(f, i, k)[j] = f[j]
         /\ Range(Put(f, i, k)) \subseteq Range(f) \cup {k}
<1>1. IsFiniteSet(DOMAIN f \cup {i})
  BY FS_AddElement DEF PoolOK
<1> QED
  BY <1>1 DEF PoolOK, PoolType, Put, Range

\* A record leaves the pool.
LEMMA DropPool ==
  ASSUME NEW f, PoolOK(f), NEW i
  PROVE  /\ PoolOK(Drop(f, i))
         /\ DOMAIN Drop(f, i) = DOMAIN f \ {i}
         /\ \A j \in DOMAIN f \ {i} : Drop(f, i)[j] = f[j]
         /\ Range(Drop(f, i)) \subseteq Range(f)
<1>1. IsFiniteSet(DOMAIN f \ {i})
  BY FS_RemoveElement DEF PoolOK
<1> QED
  BY <1>1 DEF PoolOK, PoolType, Drop, Restrict, Range


----------------------------------------------------------------------------
(* Where the two threads are.                                              *)

USE DEF JobOK, RstOK, Idle, Pcs, Filling, Installing, Searching, Running

LEMMA KeyTypes ==
  /\ \A n \in Nat : Random(n) \in KeySet
  /\ \A b \in Branches, s \in Seeds \cup {None}, i \in Nat : Key(b, s, i) \in KeySet
  /\ \A b, s, i : Key(b, s, i)[1] = b /\ Key(b, s, i)[2] = s /\ Key(b, s, i)[3] = i
  /\ None \notin KeySet
BY KeysAssumption DEF KeySet, Random, Key, Branches

\* The next key of the active schema, and its counter.
LEMMA CounterTypes ==
  ASSUME WalletOK(mem), NEW use
  PROVE  /\ Counter(use) \in Branches /\ mem.next[Counter(use)] \in Nat
         /\ DeriveHDKey(use, mem.next[Counter(use)]) \in KeySet
         /\ mem.seed \in Seeds \cup {None} /\ mem.next \in [Branches -> Nat]
<1>1. Counter(use) \in Branches
  BY DEF Counter, Branches
<1>2. mem.next \in [Branches -> Nat] /\ mem.seed \in Seeds \cup {None}
  BY DEF WalletOK
<1> QED
  BY <1>1, <1>2, KeyTypes DEF DeriveHDKey

\* A return of TopUpKeyPool: to what called it, or the end of a restore.
LEMMA ReturnOK ==
  ASSUME JobOK, RstOK, Return, job.pc \in {"fill", "random", "pool"}
  PROVE  JobOK' /\ RstOK' /\ Running'
<1>1. CASE job.then = "take"
  BY <1>1 DEF Return, Go
<1>2. CASE job.then = "give"
  BY <1>2 DEF Return, Go
<1>3. CASE job.then = "restored"
  <2>1. job' = Idle /\ rst' = Resting
    BY <1>3 DEF Return
  <2> QED
    BY <2>1 DEF Resting
<1>4. CASE job.then = "idle"
  BY <1>4 DEF Return
<1> QED
  BY <1>1, <1>2, <1>3, <1>4

\* A refusal within SetHDSeedFromMnemonic ends it, and the restore with it.
LEMMA RefusedOK ==
  ASSUME JobOK, RstOK, Refused, job.pc \in Installing
  PROVE  JobOK' /\ RstOK' /\ Running'
<1>1. CASE job.then = "restore"
  BY <1>1 DEF Refused, Resting
<1>2. CASE job.then = "idle"
  BY <1>2 DEF Refused
<1> QED
  BY <1>1, <1>2

LEMMA DeriveFailsOK ==
  ASSUME JobOK, RstOK, DeriveFails, UNCHANGED rst, job.pc \in {"derive", "count"}
  PROVE  JobOK' /\ RstOK' /\ Running'
<1>1. CASE job.then = "change"
  BY <1>1 DEF DeriveFails
<1>2. CASE job.then # "change"
  BY <1>2 DEF DeriveFails, Go
<1> QED
  BY <1>1, <1>2

\* Any other step of the holder of cs_keyPool goes to a next point.
LEMMA GoOK ==
  ASSUME JobOK, RstOK, NEW p, Go(p), UNCHANGED rst,
         \/ job.pc = "fill" /\ p \in {"derive", "random"}
         \/ job.pc = "count" /\ job.then # "change" /\ p = "pool"
         \/ job.pc = "pool" /\ p = "fill"
         \/ job.pc = "seed" /\ p = "default"
         \/ job.pc = "default" /\ p = "defaultkey"
         \/ job.pc = "defaultkey" /\ job.then = "idle" /\ p = "fill"
  PROVE  JobOK' /\ RstOK' /\ Running'
<1>1. CASE job.pc = "fill" /\ p \in {"derive", "random"}
  BY <1>1 DEF Go
<1>2. CASE job.pc = "count" /\ job.then # "change" /\ p = "pool"
  BY <1>2 DEF Go
<1>3. CASE job.pc = "pool" /\ p = "fill"
  BY <1>3 DEF Go
<1>4. CASE job.pc \in Installing
  BY <1>4 DEF Go
<1> QED
  BY <1>1, <1>2, <1>3, <1>4

----------------------------------------------------------------------------
(* Control: every step keeps JobOK and RstOK.                              *)

LEMMA TakesControl ==
  ASSUME TypeInv, GetKeyFromPool \/ DeriveNextHDChangeKey \/ TopUpKeyPool
  PROVE  JobOK' /\ RstOK'
<1>1. CASE GetKeyFromPool
  BY <1>1 DEF TypeInv, GetKeyFromPool, Ask
<1>2. CASE DeriveNextHDChangeKey
  BY <1>2 DEF TypeInv, DeriveNextHDChangeKey, Ask
<1>3. CASE TopUpKeyPool
  BY <1>3, ReturnOK, GoOK DEF TypeInv, TopUpKeyPool
<1> QED
  BY <1>1, <1>2, <1>3

LEMMA DeriveControl ==
  ASSUME TypeInv, DeriveNext \/ RereadCounter \/ AdvanceCounter
  PROVE  JobOK' /\ RstOK'
<1> USE DEF TypeInv
<1>1. CASE DeriveNext
  <2> DEFINE n == mem.next[Counter(job.then)]
             k == DeriveHDKey(job.then, n)
             at == IF job.then = "change" THEN "reread" ELSE "count"
  <2>1. n \in Nat /\ k \in KeySet /\ k[1] \in Branches
    BY CounterTypes, KeyTypes DEF DeriveHDKey
  <2>2. job.pc = "derive" /\ UNCHANGED rst
        /\ (DeriveFails \/ job' = [job EXCEPT !.pc = at, !.key = k, !.n = n])
    BY <1>1 DEF DeriveNext, AddKey
  <2> HIDE DEF n, k
  <2>3. CASE job' = [job EXCEPT !.pc = at, !.key = k, !.n = n]
    <3>1. /\ job'.key = k /\ job'.n = n /\ job'.then = job.then /\ job'.out = job.out
          /\ job'.pc = IF job.then = "change" THEN "reread" ELSE "count"
      BY <2>2, <2>3
    <3>2. k # None /\ job.then \in {"take", "give", "idle", "restored", "change"}
      BY <2>1, <2>2, KeyTypes
    <3>3. JobOK'
      <4>1. job' \in [pc : Pcs, then : {"none", "idle", "take", "give", "change", "restore", "restored"},
                      key : KeySet \cup {None}, n : Nat, out : KeySet \cup {None}]
        BY <2>1, <2>3
      <4>2. job.pc = "derive" /\ (job.then = "give" => job.out # None)
        BY <2>2
      <4> HIDE DEF TypeInv
      <4> QED
        BY <2>1, <3>1, <3>2, <4>1, <4>2
    <3>4. Running' /\ job'.pc \in {"reread", "count"}
      BY <3>1
    <3> HIDE DEF JobOK
    <3> QED
      BY <2>2, <3>1, <3>3, <3>4
  <2> QED
    BY <2>2, <2>3, DeriveFailsOK
<1>2. CASE RereadCounter
  <2>1. mem.next[job.key[1]] \in Nat
    BY <1>2 DEF RereadCounter, WalletOK
  <2> QED
    BY <1>2, <2>1 DEF RereadCounter
<1>3. CASE AdvanceCounter
  <2>1. /\ job.pc = "count" /\ UNCHANGED rst
        /\ \/ job.then = "change" /\ job' = [job EXCEPT !.pc = "give", !.out = job.key]
           \/ job.then # "change" /\ Go("pool")
           \/ DeriveFails
    BY <1>3 DEF AdvanceCounter
  <2>2. CASE job.then = "change" /\ job' = [job EXCEPT !.pc = "give", !.out = job.key]
    BY <2>1, <2>2
  <2> QED
    BY <2>1, <2>2, DeriveFailsOK, GoOK
<1> QED
  BY <1>1, <1>2, <1>3

LEMMA PoolControl ==
  ASSUME TypeInv, RandomKey \/ WritePool \/ TakeFromPool \/ GenerateNewKey
                    \/ \E coin \in BOOLEAN : Give(coin)
  PROVE  JobOK' /\ RstOK'
<1> USE DEF TypeInv
<1>1. CASE RandomKey
  <2>1. Random(made) \in KeySet
    BY KeyTypes
  <2>2. /\ job.pc = "random"
        /\ \/ job' = [job EXCEPT !.pc = "pool", !.key = Random(made)] /\ UNCHANGED rst
           \/ Return
    BY <1>1 DEF RandomKey, AddKey
  <2>3. CASE job' = [job EXCEPT !.pc = "pool", !.key = Random(made)] /\ UNCHANGED rst
    BY <2>1, <2>2, <2>3, KeyTypes
  <2> QED
    BY <2>2, <2>3, ReturnOK
<1>2. CASE WritePool
  <2>1. job.pc = "pool" /\ (Return \/ (Go("fill") /\ UNCHANGED rst))
    BY <1>2 DEF WritePool
  <2> QED
    BY <2>1, ReturnOK, GoOK
<1>3. CASE TakeFromPool
  <2> DEFINE i == Min(DOMAIN mem.pool)
  <2>1. i \in DOMAIN mem.pool
    BY <1>3, MinIsLeast DEF TakeFromPool, WalletOK, PoolOK, PoolType
  <2>2. mem.pool[i] \in KeySet
    BY <2>1 DEF WalletOK, PoolOK, PoolType, Range
  <2>3. job.pc = "take" /\ job' = [job EXCEPT !.pc = "fill", !.then = "give", !.out = mem.pool[i]]
        /\ UNCHANGED rst
    BY <1>3 DEF TakeFromPool
  <2> HIDE DEF i
  <2> QED
    BY <2>2, <2>3, KeyTypes
<1>4. CASE GenerateNewKey
  <2>1. Random(made) \in KeySet
    BY KeyTypes
  <2>2. /\ job.pc = "take" /\ UNCHANGED rst
        /\ job' = [job EXCEPT !.pc = "give", !.out = Random(made)] \/ job' = Idle
    BY <1>4 DEF GenerateNewKey, AddKey
  <2>3. CASE job' = [job EXCEPT !.pc = "give", !.out = Random(made)]
    BY <2>1, <2>2, <2>3, KeyTypes
  <2>4. CASE job' = Idle
    BY <2>2, <2>4
  <2> QED
    BY <2>2, <2>3, <2>4
<1>5. CASE \E coin \in BOOLEAN : Give(coin)
  BY <1>5 DEF Give
<1> QED
  BY <1>1, <1>2, <1>3, <1>4, <1>5

LEMMA InstallControl ==
  ASSUME TypeInv, ClearKeyPoolRecords \/ WriteSeed \/ AddDefaultKey \/ SetDefaultKey
                    \/ \E s \in Seeds : NewPhrase(s) \/ RestoreFromPhrase(s)
  PROVE  JobOK' /\ RstOK'
<1> USE DEF TypeInv
<1>1. CASE ClearKeyPoolRecords
  <2>1. /\ job.pc = "clear"
        /\ \/ job' = [job EXCEPT !.pc = "seed", !.n = 1] /\ UNCHANGED rst
           \/ UNCHANGED <<job, rst>>
           \/ Refused
    BY <1>1 DEF ClearKeyPoolRecords
  <2>2. CASE job' = [job EXCEPT !.pc = "seed", !.n = 1] /\ UNCHANGED rst
    <3>1. job'.pc = "seed" /\ job'.n = 1 /\ job'.then = job.then /\ job'.key = job.key
      BY <2>2
    <3>2. JobOK'
      <4>1. JobOK /\ job.pc \in Installing
        BY <2>1
      <4> HIDE DEF TypeInv
      <4>2. job' \in [pc : Pcs, then : {"none", "idle", "take", "give", "change", "restore", "restored"},
                      key : KeySet \cup {None}, n : Nat, out : KeySet \cup {None}]
        BY <2>2, <4>1
      <4>3. \E s \in Seeds : job'.key = Key("recv", s, 0)
        BY <3>1, <4>1
      <4>4. job'.then \in {"idle", "restore"}
        BY <3>1, <4>1
      <4> QED
        BY <3>1, <4>2, <4>3, <4>4
    <3> QED
      BY <2>1, <2>2, <3>1, <3>2
  <2>3. CASE UNCHANGED <<job, rst>>
    BY <2>3
  <2> QED
    BY <2>1, <2>2, <2>3, RefusedOK
<1>2. CASE WriteSeed
  <2>1. /\ job.pc = "seed"
        /\ \/ job.n < 5 /\ job' = [job EXCEPT !.n = @ + 1] /\ UNCHANGED rst
           \/ Go("default") /\ UNCHANGED rst
           \/ Refused
    BY <1>2 DEF WriteSeed
  <2>2. CASE job.n < 5 /\ job' = [job EXCEPT !.n = @ + 1] /\ UNCHANGED rst
    BY <2>1, <2>2
  <2> QED
    BY <2>1, <2>2, RefusedOK, GoOK
<1>3. CASE AddDefaultKey
  <2>1. job.pc = "default" /\ (Refused \/ (Go("defaultkey") /\ UNCHANGED rst))
    BY <1>3 DEF AddDefaultKey, AddKey
  <2> QED
    BY <2>1, RefusedOK, GoOK
<1>4. CASE SetDefaultKey
  <2>1. /\ job.pc = "defaultkey"
        /\ \/ /\ job.then = "restore" /\ job' = Idle
              /\ rst' = [rst EXCEPT !.at = "recv", !.total = 1, !.before = Cardinality(got)]
           \/ job.then # "restore" /\ Go("fill") /\ UNCHANGED rst
           \/ Refused
    BY <1>4 DEF SetDefaultKey
  <2>2. CASE /\ job.then = "restore" /\ job' = Idle
             /\ rst' = [rst EXCEPT !.at = "recv", !.total = 1, !.before = Cardinality(got)]
    BY <2>1, <2>2
  <2>3. job.then \in {"idle", "restore"}
    BY <2>1
  <2> QED
    BY <2>1, <2>2, <2>3, RefusedOK, GoOK
<1>5. CASE \E s \in Seeds : NewPhrase(s)
  <2>1. PICK s \in Seeds : NewPhrase(s)
    BY <1>5
  <2>2. /\ job.pc = "idle" /\ rst.at = "off" /\ UNCHANGED rst
        /\ job' = [Idle EXCEPT !.pc = "clear", !.then = "idle", !.key = Key("recv", s, 0)]
    BY <2>1 DEF NewPhrase, Ask, Install
  <2>3. Key("recv", s, 0) \in KeySet
    BY KeyTypes DEF Branches
  <2> QED
    BY <2>2, <2>3
<1>6. CASE \E s \in Seeds : RestoreFromPhrase(s)
  <2>1. PICK s \in Seeds : RestoreFromPhrase(s)
    BY <1>6
  <2>2. /\ job.pc = "idle"
        /\ job' = [Idle EXCEPT !.pc = "clear", !.then = "restore", !.key = Key("recv", s, 0)]
    BY <2>1 DEF RestoreFromPhrase, Ask, Install
  <2>5. PICK fresh, whole \in BOOLEAN :
          rst' = [Resting EXCEPT !.at = "seed", !.seed = s, !.fresh = fresh, !.whole = whole]
    BY <2>1 DEF RestoreFromPhrase
  <2>3. Key("recv", s, 0) \in KeySet
    BY KeyTypes DEF Branches
  <2>4. JobOK'
    BY <2>2, <2>3
  <2>6. job'.then = "restore" /\ job'.pc = "clear"
    BY <2>2
  <2> HIDE DEF TypeInv, JobOK
  <2> QED
    BY <2>4, <2>5, <2>6 DEF Resting
<1> QED
  BY <1>1, <1>2, <1>3, <1>4, <1>5, <1>6

LEMMA SearchControl ==
  ASSUME TypeInv,
         \/ \E b \in {"recv", "change"} : RestoreKey(b) \/ RestoreCount(b) \/ RestoreWriteNext(b)
         \/ RestoreLegacyKey \/ RestoreScan \/ RestoreFinish
  PROVE  JobOK' /\ RstOK'
<1> USE DEF TypeInv
<1>1. ASSUME NEW b \in {"recv", "change"}, RestoreKey(b)
      PROVE  JobOK' /\ RstOK'
  <2>1. UNCHANGED job /\ (Stored \/ CutShort)
    BY <1>1 DEF RestoreKey, StoreKey, AddKey
  <2>2. JobOK'
    BY <2>1
  <2>3. rst.at = b
    BY <1>1 DEF RestoreKey
  <2> HIDE DEF JobOK
  <2>4. CASE Stored
    BY <2>1, <2>2, <2>3, <2>4 DEF Stored
  <2>5. CASE CutShort
    BY <2>1, <2>2, <2>3, <2>5 DEF CutShort
  <2> QED
    BY <2>1, <2>4, <2>5
<1>2. ASSUME NEW b \in {"recv", "change"}, RestoreCount(b)
      PROVE  JobOK' /\ RstOK'
  <2>1. /\ UNCHANGED job
    BY <1>2 DEF RestoreCount
  <2>2. PICK step \in {"key", "write"} :
          rst' = [rst EXCEPT !.n = @ + 1, !.total = @ + 1, !.step = step]
    BY <1>2 DEF RestoreCount
  <2>3. JobOK'
    BY <2>1
  <2>4. rst.n + 1 \in Nat /\ rst.total + 1 \in Nat /\ rst.at = b
    BY <1>2 DEF RestoreCount
  <2> HIDE DEF JobOK
  <2> QED
    BY <2>1, <2>2, <2>3, <2>4
<1>3. ASSUME NEW b \in {"recv", "change"}, RestoreWriteNext(b)
      PROVE  JobOK' /\ RstOK'
  <2>1. /\ UNCHANGED job /\ rst.at = b
    BY <1>3 DEF RestoreWriteNext
  <2>2. PICK at \in {"change", "legacy"} : rst' = [rst EXCEPT !.n = 0, !.step = "key", !.at = at]
    BY <1>3 DEF RestoreWriteNext
  <2>3. JobOK'
    BY <2>1
  <2> HIDE DEF JobOK
  <2> QED
    BY <2>1, <2>2, <2>3
<1>4. CASE RestoreLegacyKey
  <2>1. /\ UNCHANGED job /\ rst.at = "legacy"
        /\ \/ rst' = [rst EXCEPT !.at = "scan", !.n = 0, !.whole = FALSE]
           \/ rst' = [rst EXCEPT !.n = @ + 1, !.legacy = @ + 1, !.total = @ + 1]
           \/ rst' = [rst EXCEPT !.at = "scan", !.n = 0, !.legacy = @ + 1, !.total = @ + 1]
    BY <1>4 DEF RestoreLegacyKey
  <2>2. rst.n + 1 \in Nat /\ rst.legacy + 1 \in Nat /\ rst.total + 1 \in Nat
    OBVIOUS
  <2>3. JobOK'
    BY <2>1
  <2> HIDE DEF JobOK
  <2>4. CASE rst' = [rst EXCEPT !.at = "scan", !.n = 0, !.whole = FALSE]
    BY <2>1, <2>3, <2>4
  <2>5. CASE rst' = [rst EXCEPT !.n = @ + 1, !.legacy = @ + 1, !.total = @ + 1]
    BY <2>1, <2>2, <2>3, <2>5
  <2>6. CASE rst' = [rst EXCEPT !.at = "scan", !.n = 0, !.legacy = @ + 1, !.total = @ + 1]
    BY <2>1, <2>2, <2>3, <2>6
  <2> QED
    BY <2>1, <2>4, <2>5, <2>6
<1>5. CASE RestoreScan
  <2>1. /\ UNCHANGED job /\ rst.at = "scan"
        /\ \E quiet \in {0, Min({rst.quiet + 1, RESTORE_QUIET_BATCHES})}, at \in {"finish", "recv"} :
             rst' = [rst EXCEPT !.quiet = quiet, !.before = Cardinality(got'), !.at = at]
    BY <1>5 DEF RestoreScan
  <2>2. Min({rst.quiet + 1, RESTORE_QUIET_BATCHES}) \in Nat
    <3>1. {rst.quiet + 1, RESTORE_QUIET_BATCHES} \in SUBSET Nat
      BY KeysAssumption
    <3> QED
      BY <3>1, MinIsLeast
  <2> DEFINE m == Min({rst.quiet + 1, RESTORE_QUIET_BATCHES})
             To(quiet, at) == [rst EXCEPT !.quiet = quiet, !.before = Cardinality(got'), !.at = at]
  <2> HIDE DEF m, JobOK
  <2>3. PICK quiet \in {0, m}, at \in {"finish", "recv"} : rst' = To(quiet, at)
    BY <2>1 DEF m
  <2>4. quiet \in Nat
    BY <2>2, <2>3 DEF m
  <2>5. JobOK'
    BY <2>1 DEF JobOK
  <2> QED
    BY <2>1, <2>3, <2>4, <2>5
<1>6. CASE RestoreFinish
  BY <1>6 DEF RestoreFinish
<1> QED
  BY <1>1, <1>2, <1>3, <1>4, <1>5, <1>6

LEMMA LifeControl ==
  ASSUME TypeInv,
         \/ EncryptWallet \/ InstallEncrypted \/ BackupWallet \/ Crash \/ Lose \/ CreateNewWallet \/ CreationFails
         \/ \E unlock \in BOOLEAN : LoadWallet(unlock)
  PROVE  JobOK' /\ RstOK'
<1> USE DEF TypeInv
<1>1. CASE Ends
  BY <1>1 DEF Ends, Resting
<1>2. CASE EncryptWallet
  BY <1>2 DEF EncryptWallet, Ask
<1>3. CASE BackupWallet
  BY <1>3 DEF BackupWallet, Ask
<1>4. CASE CreateNewWallet \/ \E unlock \in BOOLEAN : LoadWallet(unlock)
  <2>1. job.pc = "down" /\ job' = Idle /\ UNCHANGED rst
    BY <1>4 DEF CreateNewWallet, LoadWallet
  <2> QED
    BY <2>1
<1>5. CASE CreationFails
  BY <1>5 DEF CreationFails
<1> QED
  BY <1>1, <1>2, <1>3, <1>4, <1>5 DEF InstallEncrypted, Crash, Lose

LEMMA NextControl == TypeInv /\ Next => JobOK' /\ RstOK'
BY TakesControl, DeriveControl, PoolControl, InstallControl, SearchControl, LifeControl
   DEF Next, HolderStep, RestoreStep

----------------------------------------------------------------------------
(* What each step does to the wallet in memory and to the file, field by   *)
(* field.                                                                  *)

HIDE DEF JobOK, RstOK, Idle, Pcs, Filling, Installing, Searching

MemIs(keys, pool, seed, schema, next) ==
  /\ WalletOK(mem') /\ mem'.keys = keys /\ mem'.pool = pool /\ mem'.seed = seed
  /\ mem'.schema = schema /\ mem'.next = next
FileIs(keys, pool, seed, schema, next) ==
  /\ FileOK(file') /\ file'.wallet.keys = keys /\ file'.wallet.pool = pool
  /\ file'.wallet.seed = seed /\ file'.wallet.schema = schema /\ file'.wallet.next = next
  /\ file'.cseed = file.cseed /\ file'.enc = file.enc

MemKeys(x) == MemIs(x, mem.pool, mem.seed, mem.schema, mem.next)
MemPool(x) == MemIs(mem.keys, x, mem.seed, mem.schema, mem.next)
MemNext(c, n) == MemIs(mem.keys, mem.pool, mem.seed, mem.schema, [mem.next EXCEPT ![c] = n])
FileKeys(x) ==
  FileIs(x, file.wallet.pool, file.wallet.seed, file.wallet.schema, file.wallet.next)
FilePool(x) ==
  FileIs(file.wallet.keys, x, file.wallet.seed, file.wallet.schema, file.wallet.next)
FileNext(c, n) ==
  FileIs(file.wallet.keys, file.wallet.pool, file.wallet.seed, file.wallet.schema,
         [file.wallet.next EXCEPT ![c] = n])

Kept == UNCHANGED fails
Lost == fails' = fails + 1
KeyStored(k) ==
  MemKeys(mem.keys \cup {k}) /\ FileKeys(file.wallet.keys \cup {k}) /\ Kept /\ UNCHANGED unsaved
KeyRefused(k) ==
  MemKeys(mem.keys \cup {k}) /\ UNCHANGED file /\ Lost /\ unsaved' = unsaved \cup {k}

LEMMA MemKeysSet ==
  ASSUME WalletOK(mem), NEW k \in KeySet, mem' = [mem EXCEPT !.keys = @ \cup {k}]
  PROVE  MemKeys(mem.keys \cup {k})
BY DEF WalletOK, MemKeys, MemIs

LEMMA FileKeysSet ==
  ASSUME FileOK(file), NEW k \in KeySet, file' = [file EXCEPT !.wallet.keys = @ \cup {k}]
  PROVE  FileKeys(file.wallet.keys \cup {k})
BY DEF WalletOK, FileOK, FileKeys, FileIs

LEMMA MemPoolSet ==
  ASSUME WalletOK(mem), NEW x, PoolOK(x), mem' = [mem EXCEPT !.pool = x]
  PROVE  MemPool(x)
BY DEF WalletOK, MemPool, MemIs

LEMMA FilePoolSet ==
  ASSUME FileOK(file), NEW x, PoolOK(x), file' = [file EXCEPT !.wallet.pool = x]
  PROVE  FilePool(x)
BY DEF WalletOK, FileOK, FilePool, FileIs

LEMMA MemNextSet ==
  ASSUME WalletOK(mem), NEW c \in Branches, NEW n \in Nat, mem' = [mem EXCEPT !.next[c] = n]
  PROVE  MemNext(c, n)
BY DEF WalletOK, MemNext, MemIs

LEMMA FileNextSet ==
  ASSUME FileOK(file), NEW c \in Branches, NEW n \in Nat, file' = [file EXCEPT !.wallet.next[c] = n]
  PROVE  FileNext(c, n)
BY DEF WalletOK, FileOK, FileNext, FileIs

\* A write that is made, or refused; AddKey either way.
LEMMA AddKeyEffect ==
  ASSUME TypeInv, NEW k \in KeySet, NEW ok \in BOOLEAN, Write(ok),
         mem' = [mem EXCEPT !.keys = @ \cup {k}],
         ok => file' = [file EXCEPT !.wallet.keys = @ \cup {k}] /\ UNCHANGED unsaved,
         ~ ok => unsaved' = unsaved \cup {k} /\ UNCHANGED file
  PROVE  /\ ok => KeyStored(k)
         /\ ~ ok => KeyRefused(k)
<1>1. MemKeys(mem.keys \cup {k})
  BY MemKeysSet DEF TypeInv
<1>2. CASE ok = TRUE
  <2>1. FileKeys(file.wallet.keys \cup {k})
    BY <1>2, FileKeysSet DEF TypeInv
  <2> QED
    BY <1>1, <1>2, <2>1 DEF Write, KeyStored, Kept
<1>3. CASE ok = FALSE
  BY <1>1, <1>3 DEF Write, KeyRefused, Lost
<1> QED
  BY <1>2, <1>3

----------------------------------------------------------------------------
(* ... and where it takes the two threads.                                 *)

JobIs(pc, then, key, n, out_) ==
  job'.pc = pc /\ job'.then = then /\ job'.key = key /\ job'.n = n /\ job'.out = out_
JobAt(pc) == JobIs(pc, job.then, job.key, job.n, job.out)
JobIdle == JobIs("idle", "none", None, 0, None)
RstAt(at, step) == rst'.at = at /\ rst'.step = step /\ rst'.seed = rst.seed /\ rst'.fresh = rst.fresh

Returned ==
  \/ job.then \in {"take", "give"} /\ JobAt(job.then) /\ UNCHANGED rst
  \/ job.then = "restored" /\ JobIdle /\ rst'.at = "off"
  \/ job.then = "idle" /\ JobIdle /\ UNCHANGED rst
NotDerived ==
  \/ job.then = "change" /\ JobIdle
  \/ job.then # "change" /\ JobAt("random")
Refusal ==
  /\ JobIdle
  /\ \/ job.then = "restore" /\ rst'.at = "off" /\ blame' = blame \cup {"cut"}
     \/ job.then = "idle" /\ UNCHANGED <<rst, blame>>

LEMMA GoEffect == ASSUME JobOK, NEW p, Go(p) PROVE JobAt(p)
BY DEF JobOK, Go, JobAt, JobIs

LEMMA IdleEffect == job' = Idle => JobIdle
BY DEF Idle, JobIdle, JobIs

LEMMA ReturnEffect ==
  ASSUME JobOK, Return, job.pc \in {"fill", "random", "pool"}
  PROVE  Returned
<1>1. job.then \in {"take", "give", "idle", "restored"}
  BY DEF JobOK, Filling
<1>2. CASE job.then = "take"
  BY <1>2, GoEffect DEF Return, Returned
<1>3. CASE job.then = "give"
  BY <1>3, GoEffect DEF Return, Returned
<1>4. CASE job.then = "restored"
  <2>1. job' = Idle /\ rst' = Resting
    BY <1>4 DEF Return
  <2> QED
    BY <1>4, <2>1, IdleEffect DEF Returned, Resting
<1>5. CASE job.then = "idle"
  BY <1>5, IdleEffect DEF Return, Returned
<1> QED
  BY <1>1, <1>2, <1>3, <1>4, <1>5

LEMMA DeriveFailsEffect == ASSUME JobOK, DeriveFails PROVE NotDerived
<1>1. CASE job.then = "change"
  BY <1>1, IdleEffect DEF DeriveFails, NotDerived
<1>2. CASE job.then # "change"
  BY <1>2, GoEffect DEF DeriveFails, NotDerived
<1> QED
  BY <1>1, <1>2

LEMMA RefusedEffect == ASSUME JobOK, Refused, job.pc \in Installing PROVE Refusal
<1>1. job.then \in {"restore", "idle"}
  BY DEF JobOK
<1>2. CASE job.then = "restore"
  BY <1>2, IdleEffect DEF Refused, Refusal, Resting
<1>3. CASE job.then = "idle"
  BY <1>3, IdleEffect DEF Refused, Refusal
<1> QED
  BY <1>1, <1>2, <1>3

LEMMA DeriveNextEffect ==
  ASSUME TypeInv, DeriveNext
  PROVE  LET c == Counter(job.then)
             k == DeriveHDKey(job.then, mem.next[c])
             counted == JobIs(IF job.then = "change" THEN "reread" ELSE "count", job.then, k,
                              mem.next[c], job.out)
         IN /\ k \in KeySet /\ c \in Branches /\ job.pc = "derive"
            /\ UNCHANGED <<locked, spare, aside, rst, made, got, ghosts, blame, left>>
            /\ \/ k \in mem.keys /\ counted /\ UNCHANGED <<mem, file, unsaved>> /\ Kept
               \/ k \notin mem.keys /\ locked /\ NotDerived /\ UNCHANGED <<mem, file, unsaved>> /\ Kept
               \/ k \notin mem.keys /\ ~ locked /\ counted /\ KeyStored(k)
               \/ k \notin mem.keys /\ ~ locked /\ NotDerived /\ KeyRefused(k)
<1> DEFINE n == mem.next[Counter(job.then)]
           k == DeriveHDKey(job.then, n)
           at == IF job.then = "change" THEN "reread" ELSE "count"
           moved == job' = [job EXCEPT !.pc = at, !.key = k, !.n = n]
           counted == JobIs(at, job.then, k, n, job.out)
<1>1. k \in KeySet /\ Counter(job.then) \in Branches /\ JobOK
  BY CounterTypes DEF TypeInv
<1>2. moved => counted
  <2> HIDE DEF n, k, at
  <2> QED
    BY <1>1 DEF JobOK, JobIs
<1>3. /\ job.pc = "derive"
      /\ UNCHANGED <<locked, spare, aside, rst, made, got, ghosts, blame, left>>
      /\ \/ k \in mem.keys /\ moved /\ UNCHANGED <<mem, file, unsaved, fails>>
         \/ k \notin mem.keys /\ locked /\ DeriveFails /\ UNCHANGED <<mem, file, unsaved, fails>>
         \/ k \notin mem.keys /\ ~ locked /\ AddKey(k, moved, DeriveFails)
  BY DEF DeriveNext
<1> HIDE DEF n, k, at, moved, counted
<1>4. ASSUME AddKey(k, moved, DeriveFails)
      PROVE  (moved /\ KeyStored(k)) \/ (DeriveFails /\ KeyRefused(k))
  <2>1. PICK ok \in BOOLEAN :
          /\ Write(ok) /\ mem' = [mem EXCEPT !.keys = @ \cup {k}]
          /\ ok => moved /\ file' = [file EXCEPT !.wallet.keys = @ \cup {k}] /\ UNCHANGED unsaved
          /\ ~ ok => DeriveFails /\ unsaved' = unsaved \cup {k} /\ UNCHANGED file
    BY <1>4 DEF AddKey
  <2> QED
    BY <1>1, <2>1, AddKeyEffect
<1>5. \/ k \in mem.keys /\ counted /\ UNCHANGED <<mem, file, unsaved>> /\ Kept
      \/ k \notin mem.keys /\ locked /\ NotDerived /\ UNCHANGED <<mem, file, unsaved>> /\ Kept
      \/ k \notin mem.keys /\ ~ locked /\ counted /\ KeyStored(k)
      \/ k \notin mem.keys /\ ~ locked /\ NotDerived /\ KeyRefused(k)
  BY <1>1, <1>2, <1>3, <1>4, DeriveFailsEffect DEF Kept
<1> QED
  BY <1>1, <1>3, <1>5 DEF n, k, at, counted

LEMMA AdvanceEffect ==
  ASSUME TypeInv, AdvanceCounter
  PROVE  LET c == IF job.then = "change" THEN job.key[1] ELSE Counter(job.then)
         IN /\ job.pc = "count" /\ c \in Branches /\ job.key \in KeySet
            /\ UNCHANGED <<locked, spare, aside, rst, made, got, ghosts, blame, unsaved, left>>
            /\ \/ /\ MemNext(c, job.n + 1) /\ FileNext(c, job.n + 1) /\ Kept
                  /\ \/ job.then = "change" /\ JobIs("give", "change", job.key, job.n, job.key)
                     \/ job.then # "change" /\ JobAt("pool")
               \/ NotDerived /\ UNCHANGED <<mem, file>> /\ Lost
<1> DEFINE c == IF job.then = "change" THEN job.key[1] ELSE Counter(job.then)
<1>1. job.pc = "count" /\ c \in Branches /\ job.key \in KeySet /\ JobOK /\ job.n + 1 \in Nat
  BY CounterTypes DEF TypeInv, JobOK, AdvanceCounter
<1>2. UNCHANGED <<locked, spare, aside, rst, made, got, ghosts, blame, unsaved, left>>
  BY DEF AdvanceCounter
<1>3. PICK ok \in BOOLEAN :
        /\ Write(ok)
        /\ ok => /\ file' = [file EXCEPT !.wallet.next[c] = job.n + 1]
                 /\ mem' = [mem EXCEPT !.next[c] = job.n + 1]
                 /\ IF job.then = "change" THEN job' = [job EXCEPT !.pc = "give", !.out = job.key]
                    ELSE Go("pool")
        /\ ~ ok => DeriveFails /\ UNCHANGED <<mem, file>>
  BY DEF AdvanceCounter
<1>4. CASE ok = TRUE
  <2> HIDE DEF c
  <2>1. MemNext(c, job.n + 1) /\ FileNext(c, job.n + 1) /\ Kept
    BY <1>1, <1>3, <1>4, MemNextSet, FileNextSet DEF TypeInv, Write, Kept
  <2>2. CASE job.then = "change"
    <3>1. job' = [job EXCEPT !.pc = "give", !.out = job.key]
      BY <1>3, <1>4, <2>2
    <3>2. JobIs("give", "change", job.key, job.n, job.key)
      BY <1>1, <2>2, <3>1 DEF JobOK, JobIs
    <3> QED
      BY <1>1, <1>2, <2>1, <2>2, <3>2 DEF c
  <2>3. CASE job.then # "change"
    <3>1. JobAt("pool")
      BY <1>1, <1>3, <1>4, <2>3, GoEffect
    <3> QED
      BY <1>1, <1>2, <2>1, <2>3, <3>1 DEF c
  <2> QED
    BY <2>2, <2>3
<1>5. CASE ok = FALSE
  <2>1. NotDerived /\ UNCHANGED <<mem, file>> /\ Lost
    BY <1>1, <1>3, <1>5, DeriveFailsEffect DEF Write, Lost
  <2> QED
    BY <1>1, <1>2, <2>1
<1> QED
  BY <1>4, <1>5

LEMMA RandomKeyEffect ==
  ASSUME TypeInv, RandomKey
  PROVE  LET k == Random(made)
         IN /\ k \in KeySet /\ job.pc = "random" /\ made' = made + 1
            /\ UNCHANGED <<locked, spare, aside, got, ghosts, blame, left>>
            /\ \/ KeyStored(k) /\ JobIs("pool", job.then, k, job.n, job.out) /\ UNCHANGED rst
               \/ KeyRefused(k) /\ Returned
<1> DEFINE k == Random(made)
           moved == job' = [job EXCEPT !.pc = "pool", !.key = k]
<1>1. k \in KeySet /\ JobOK
  BY KeyTypes DEF TypeInv
<1>2. /\ job.pc = "random" /\ made' = made + 1 /\ AddKey(k, moved /\ UNCHANGED rst, Return)
      /\ UNCHANGED <<locked, spare, aside, got, ghosts, blame, left>>
  BY DEF RandomKey
<1>3. moved => JobIs("pool", job.then, k, job.n, job.out)
  BY <1>1 DEF JobOK, JobIs
<1> HIDE DEF k, moved
<1>4. PICK ok \in BOOLEAN :
        /\ Write(ok) /\ mem' = [mem EXCEPT !.keys = @ \cup {k}]
        /\ ok => /\ moved /\ UNCHANGED rst
                 /\ file' = [file EXCEPT !.wallet.keys = @ \cup {k}] /\ UNCHANGED unsaved
        /\ ~ ok => Return /\ unsaved' = unsaved \cup {k} /\ UNCHANGED file
  BY <1>2 DEF AddKey
<1>5. (ok => KeyStored(k)) /\ (~ ok => KeyRefused(k))
  BY <1>1, <1>4, AddKeyEffect
<1> QED
  BY <1>1, <1>2, <1>3, <1>4, <1>5, ReturnEffect DEF k

LEMMA GenerateEffect ==
  ASSUME TypeInv, GenerateNewKey
  PROVE  LET k == Random(made)
         IN /\ k \in KeySet /\ job.pc = "take" /\ made' = made + 1 /\ DOMAIN mem.pool = {}
            /\ UNCHANGED <<locked, spare, aside, rst, got, ghosts, blame, left>>
            /\ \/ KeyStored(k) /\ JobIs("give", job.then, job.key, job.n, k)
               \/ KeyRefused(k) /\ JobIdle
<1> DEFINE k == Random(made)
           moved == job' = [job EXCEPT !.pc = "give", !.out = k]
           ended == job' = Idle
<1>1. k \in KeySet /\ JobOK
  BY KeyTypes DEF TypeInv
<1>2. /\ job.pc = "take" /\ made' = made + 1 /\ AddKey(k, moved, ended) /\ DOMAIN mem.pool = {}
      /\ UNCHANGED <<locked, spare, aside, rst, got, ghosts, blame, left>>
  BY DEF GenerateNewKey
<1>3. (moved => JobIs("give", job.then, job.key, job.n, k)) /\ (ended => JobIdle)
  BY <1>1, IdleEffect DEF JobOK, JobIs
<1> HIDE DEF k, moved, ended
<1>4. PICK ok \in BOOLEAN :
        /\ Write(ok) /\ mem' = [mem EXCEPT !.keys = @ \cup {k}]
        /\ ok => moved /\ file' = [file EXCEPT !.wallet.keys = @ \cup {k}] /\ UNCHANGED unsaved
        /\ ~ ok => ended /\ unsaved' = unsaved \cup {k} /\ UNCHANGED file
  BY <1>2 DEF AddKey
<1>5. (ok => KeyStored(k)) /\ (~ ok => KeyRefused(k))
  BY <1>1, <1>4, AddKeyEffect
<1> QED
  BY <1>1, <1>2, <1>3, <1>4, <1>5 DEF k

LEMMA WritePoolEffect ==
  ASSUME TypeInv, WritePool
  PROVE  /\ job.pc = "pool" /\ job.key \in KeySet
         /\ UNCHANGED <<locked, spare, aside, made, got, ghosts, blame, unsaved, left>>
         /\ \/ \E i \in Nat \ {0} :
                 /\ \A j \in DOMAIN mem.pool : j < i
                 /\ MemPool(Put(mem.pool, i, job.key)) /\ FilePool(Put(file.wallet.pool, i, job.key))
                 /\ JobAt("fill") /\ UNCHANGED rst /\ Kept
            \/ UNCHANGED <<mem, file>> /\ Returned /\ Lost
<1> DEFINE i == IF DOMAIN mem.pool = {} THEN 1 ELSE Max(DOMAIN mem.pool) + 1
<1>1. /\ PoolOK(mem.pool) /\ PoolOK(file.wallet.pool) /\ WalletOK(mem) /\ FileOK(file) /\ JobOK
      /\ job.pc = "pool" /\ job.key \in KeySet
  BY DEF TypeInv, WalletOK, FileOK, JobOK, WritePool
<1>2. i \in Nat \ {0} /\ \A j \in DOMAIN mem.pool : j < i
  BY <1>1, MaxIsGreatest DEF PoolOK, PoolType
<1>3. UNCHANGED <<locked, spare, aside, made, got, ghosts, blame, unsaved, left>>
  BY DEF WritePool
<1>4. PICK ok \in BOOLEAN :
        /\ Write(ok)
        /\ ok => /\ file' = [file EXCEPT !.wallet.pool = Put(file.wallet.pool, i, job.key)]
                 /\ mem' = [mem EXCEPT !.pool = Put(mem.pool, i, job.key)]
                 /\ Go("fill") /\ UNCHANGED rst
        /\ ~ ok => Return /\ UNCHANGED <<mem, file>>
  BY DEF WritePool
<1> HIDE DEF i
<1>5. CASE ok = TRUE
  <2>1. MemPool(Put(mem.pool, i, job.key)) /\ FilePool(Put(file.wallet.pool, i, job.key))
    BY <1>1, <1>2, <1>4, <1>5, PutPool, MemPoolSet, FilePoolSet
  <2>2. JobAt("fill") /\ UNCHANGED rst /\ Kept
    BY <1>1, <1>4, <1>5, GoEffect DEF Write, Kept
  <2> QED
    BY <1>1, <1>2, <1>3, <2>1, <2>2
<1>6. CASE ok = FALSE
  BY <1>1, <1>3, <1>4, <1>6, ReturnEffect DEF Write, Lost
<1> QED
  BY <1>5, <1>6

LEMMA TakeEffect ==
  ASSUME TypeInv, TakeFromPool
  PROVE  /\ job.pc = "take" /\ job.then = "take"
         /\ UNCHANGED <<locked, spare, aside, rst, made, got, handed, again, out, paid, bare, unsaved, left>>
         /\ \E i \in DOMAIN mem.pool :
              /\ \A j \in DOMAIN mem.pool : i <= j
              /\ MemPool(Drop(mem.pool, i)) /\ mem.pool[i] \in KeySet
              /\ JobIs("fill", "give", job.key, job.n, mem.pool[i])
              /\ \/ FilePool(Drop(file.wallet.pool, i)) /\ Kept /\ UNCHANGED blame
                 \/ UNCHANGED file /\ Lost /\ blame' = blame \cup {"erase"}
              /\ bak' = [bak EXCEPT !.left = IF @ > 0 THEN @ - 1 ELSE 0]
              /\ missed' = IF bak.left > 0 /\ mem.pool[i] \notin bak.keys
                             THEN missed \cup {mem.pool[i]} ELSE missed
<1> DEFINE i == Min(DOMAIN mem.pool)
<1>1. /\ PoolOK(mem.pool) /\ PoolOK(file.wallet.pool) /\ WalletOK(mem) /\ FileOK(file) /\ JobOK
      /\ job.pc = "take" /\ job.then = "take"
  BY DEF TypeInv, WalletOK, FileOK, JobOK, TakeFromPool
<1>2. i \in DOMAIN mem.pool /\ \A j \in DOMAIN mem.pool : i <= j
  BY <1>1, MinIsLeast DEF PoolOK, PoolType, TakeFromPool
<1>3. /\ mem' = [mem EXCEPT !.pool = Drop(mem.pool, i)]
      /\ job' = [job EXCEPT !.pc = "fill", !.then = "give", !.out = mem.pool[i]]
      /\ bak' = [bak EXCEPT !.left = IF @ > 0 THEN @ - 1 ELSE 0]
      /\ missed' = IF bak.left > 0 /\ mem.pool[i] \notin bak.keys
                     THEN missed \cup {mem.pool[i]} ELSE missed
      /\ UNCHANGED <<locked, spare, aside, rst, made, got, handed, again, out, paid, bare, unsaved, left>>
  BY DEF TakeFromPool
<1>4. PICK ok \in BOOLEAN :
        /\ Write(ok)
        /\ ok => file' = [file EXCEPT !.wallet.pool = Drop(file.wallet.pool, i)] /\ UNCHANGED blame
        /\ ~ ok => blame' = blame \cup {"erase"} /\ UNCHANGED file
  BY DEF TakeFromPool
<1> HIDE DEF i
<1>5. MemPool(Drop(mem.pool, i)) /\ mem.pool[i] \in KeySet
  <2>1. PoolOK(Drop(mem.pool, i))
    BY <1>1, DropPool
  <2>2. mem.pool[i] \in KeySet
    BY <1>1, <1>2 DEF PoolOK, PoolType, Range
  <2> QED
    BY <1>1, <1>3, <2>1, <2>2, MemPoolSet
<1>6. JobIs("fill", "give", job.key, job.n, mem.pool[i])
  BY <1>1, <1>3 DEF JobOK, JobIs
<1>7. \/ FilePool(Drop(file.wallet.pool, i)) /\ Kept /\ UNCHANGED blame
      \/ UNCHANGED file /\ Lost /\ blame' = blame \cup {"erase"}
  <2>1. CASE ok = TRUE
    BY <1>1, <1>4, <2>1, DropPool, FilePoolSet DEF Write, Kept
  <2>2. CASE ok = FALSE
    BY <1>4, <2>2 DEF Write, Lost
  <2> QED
    BY <2>1, <2>2
<1> QED
  BY <1>1, <1>2, <1>3, <1>5, <1>6, <1>7

LEMMA ClearEffect ==
  ASSUME TypeInv, ClearKeyPoolRecords
  PROVE  LET on == DOMAIN mem.pool \cap DOMAIN file.wallet.pool
         IN /\ job.pc = "clear"
            /\ UNCHANGED <<locked, spare, aside, made, got, ghosts, unsaved, left>>
            /\ \/ /\ on = {} /\ MemPool(<<>>) /\ JobIs("seed", job.then, job.key, 1, job.out)
                  /\ UNCHANGED <<file, rst, blame>> /\ Kept
               \/ /\ \E i \in on : FilePool(Drop(file.wallet.pool, i))
                  /\ UNCHANGED <<mem, job, rst, blame>> /\ Kept
               \/ Refusal /\ UNCHANGED <<mem, file>> /\ Lost
<1> DEFINE on == DOMAIN mem.pool \cap DOMAIN file.wallet.pool
<1>1. /\ PoolOK(mem.pool) /\ PoolOK(file.wallet.pool) /\ WalletOK(mem) /\ FileOK(file) /\ JobOK
      /\ job.pc = "clear" /\ UNCHANGED <<locked, spare, aside, made, got, ghosts, unsaved, left>>
  BY DEF TypeInv, WalletOK, FileOK, ClearKeyPoolRecords
<1>2. CASE on = {}
  <2>1. /\ mem' = [mem EXCEPT !.pool = <<>>] /\ job' = [job EXCEPT !.pc = "seed", !.n = 1]
        /\ UNCHANGED <<file, rst, blame, fails>>
    BY <1>2 DEF ClearKeyPoolRecords
  <2>2. MemPool(<<>>)
    BY <1>1, <2>1, EmptyPool, MemPoolSet
  <2>3. JobIs("seed", job.then, job.key, 1, job.out)
    BY <1>1, <2>1 DEF JobOK, JobIs
  <2> QED
    BY <1>1, <1>2, <2>1, <2>2, <2>3 DEF Kept
<1>3. CASE on # {}
  <2> DEFINE i == Min(on)
  <2>1. i \in on
    BY <1>1, <1>3, MinIsLeast DEF PoolOK, PoolType
  <2>2. UNCHANGED mem
    BY <1>3 DEF ClearKeyPoolRecords
  <2>3. PICK ok \in BOOLEAN :
          /\ Write(ok)
          /\ ok => /\ file' = [file EXCEPT !.wallet.pool = Drop(file.wallet.pool, i)]
                   /\ UNCHANGED <<job, rst, blame>>
          /\ ~ ok => Refused /\ UNCHANGED file
    BY <1>3 DEF ClearKeyPoolRecords
  <2> HIDE DEF i, on
  <2>4. CASE ok = TRUE
    <3>1. FilePool(Drop(file.wallet.pool, i)) /\ Kept
      BY <1>1, <2>3, <2>4, DropPool, FilePoolSet DEF Write, Kept
    <3> QED
      BY <1>1, <2>1, <2>2, <2>3, <2>4, <3>1 DEF on
  <2>5. CASE ok = FALSE
    <3>1. Refusal /\ Lost
      BY <1>1, <2>3, <2>5, RefusedEffect DEF Write, Lost, Installing
    <3> QED
      BY <1>1, <2>2, <2>3, <2>5, <3>1
  <2> QED
    BY <2>4, <2>5
<1> QED
  BY <1>2, <1>3

\* What the n-th record of a seed leaves of a wallet.
SeedIs(w, s, n) ==
  FileIs(w.keys, w.pool, IF n = 1 THEN s ELSE w.seed, IF n = 2 THEN "bip44" ELSE w.schema,
         CASE n = 3 -> [w.next EXCEPT !.legacy = 0]
           [] n = 4 -> [w.next EXCEPT !.recv = 1]
           [] n = 5 -> [w.next EXCEPT !.change = 0]
           [] OTHER -> w.next)

LEMMA WriteSeedEffect ==
  ASSUME TypeInv, WriteSeed
  PROVE  LET s == SeedOf(job.key)
         IN /\ job.pc = "seed" /\ s \in Seeds /\ job.n \in 1 .. 5
            /\ UNCHANGED <<locked, spare, aside, made, got, ghosts, unsaved, left>>
            /\ \/ /\ job.n < 5 /\ UNCHANGED mem /\ JobIs("seed", job.then, job.key, job.n + 1, job.out)
                  /\ SeedIs(file.wallet, s, job.n) /\ UNCHANGED <<rst, blame>> /\ Kept
               \/ /\ job.n = 5
                  /\ MemIs(mem.keys, mem.pool, s, "bip44", [recv |-> 1, change |-> 0, legacy |-> 0])
                  /\ SeedIs(file.wallet, s, 5) /\ UNCHANGED <<rst, blame>> /\ JobAt("default") /\ Kept
               \/ Refusal /\ UNCHANGED <<mem, file>> /\ Lost
<1> DEFINE s == SeedOf(job.key)
<1>1. /\ WalletOK(mem) /\ FileOK(file) /\ JobOK /\ job.pc = "seed" /\ job.n \in 1 .. 5
      /\ UNCHANGED <<locked, spare, aside, made, got, ghosts, unsaved, left>>
  BY DEF TypeInv, WriteSeed, JobOK
<1>2. s \in Seeds
  BY <1>1, KeyTypes DEF JobOK, SeedOf, Installing
<1>3. PICK ok \in BOOLEAN :
        /\ Write(ok)
        /\ ok => /\ file' = [file EXCEPT !.wallet = SeedRecord(file.wallet, s, job.n)]
                 /\ IF job.n < 5 THEN job' = [job EXCEPT !.n = @ + 1] /\ UNCHANGED mem
                    ELSE /\ Go("default")
                         /\ mem' = [mem EXCEPT !.seed = s, !.schema = "bip44",
                                               !.next = [recv |-> 1, change |-> 0, legacy |-> 0]]
                 /\ UNCHANGED <<rst, blame>>
        /\ ~ ok => Refused /\ UNCHANGED <<mem, file>>
  BY DEF WriteSeed
<1> HIDE DEF s
<1>4. CASE ok = TRUE
  <2>1. file' = [file EXCEPT !.wallet = SeedRecord(file.wallet, s, job.n)]
    BY <1>3, <1>4
  <2>2. SeedIs(file.wallet, s, job.n)
    <3>1. CASE job.n = 1
      BY <1>1, <1>2, <2>1, <3>1 DEF SeedIs, SeedRecord, FileIs, FileOK, WalletOK
    <3>2. CASE job.n = 2
      BY <1>1, <1>2, <2>1, <3>2 DEF SeedIs, SeedRecord, FileIs, FileOK, WalletOK
    <3>3. CASE job.n = 3
      BY <1>1, <1>2, <2>1, <3>3 DEF SeedIs, SeedRecord, FileIs, FileOK, WalletOK, Branches
    <3>4. CASE job.n = 4
      BY <1>1, <1>2, <2>1, <3>4 DEF SeedIs, SeedRecord, FileIs, FileOK, WalletOK, Branches
    <3>5. CASE job.n = 5
      BY <1>1, <1>2, <2>1, <3>5 DEF SeedIs, SeedRecord, FileIs, FileOK, WalletOK, Branches
    <3> QED
      BY <1>1, <3>1, <3>2, <3>3, <3>4, <3>5
  <2>3. CASE job.n < 5
    <3>1. job' = [job EXCEPT !.n = @ + 1] /\ UNCHANGED <<mem, rst, blame>>
      BY <1>3, <1>4, <2>3
    <3>2. JobIs("seed", job.then, job.key, job.n + 1, job.out) /\ Kept
      BY <1>1, <1>3, <1>4, <3>1 DEF JobOK, JobIs, Write, Kept
    <3> QED
      BY <1>1, <1>2, <2>2, <2>3, <3>1, <3>2 DEF s
  <2>4. CASE job.n = 5
    <3>1. /\ mem' = [mem EXCEPT !.seed = s, !.schema = "bip44",
                               !.next = [recv |-> 1, change |-> 0, legacy |-> 0]]
          /\ Go("default") /\ UNCHANGED <<rst, blame>>
      BY <1>3, <1>4, <2>4
    <3>2. MemIs(mem.keys, mem.pool, s, "bip44", [recv |-> 1, change |-> 0, legacy |-> 0])
      <4> DEFINE n == [recv |-> 1, change |-> 0, legacy |-> 0]
      <4>1. n \in [Branches -> Nat]
        <5>1. DOMAIN n = Branches
          BY DEF Branches
        <5>2. \A b \in Branches : n[b] \in Nat
          BY DEF Branches
        <5>3. n = [b \in Branches |-> n[b]]
          BY <5>1
        <5> QED
          BY <5>2, <5>3
      <4>2. mem' = [mem EXCEPT !.seed = s, !.schema = "bip44", !.next = n]
        BY <3>1
      <4> HIDE DEF n
      <4>3. MemIs(mem.keys, mem.pool, s, "bip44", n)
        BY <1>1, <1>2, <4>1, <4>2 DEF MemIs, WalletOK
      <4> QED
        BY <4>3 DEF n
    <3>3. JobAt("default") /\ Kept
      BY <1>1, <1>3, <1>4, <3>1, GoEffect DEF Write, Kept
    <3> QED
      BY <1>1, <1>2, <2>2, <2>4, <3>1, <3>2, <3>3 DEF s
  <2> QED
    BY <1>1, <2>3, <2>4
<1>5. CASE ok = FALSE
  <2>1. Refusal /\ UNCHANGED <<mem, file>> /\ Lost
    BY <1>1, <1>3, <1>5, RefusedEffect DEF Write, Lost, Installing
  <2> QED
    BY <1>1, <1>2, <2>1 DEF s
<1> QED
  BY <1>4, <1>5

LEMMA AddDefaultEffect ==
  ASSUME TypeInv, AddDefaultKey
  PROVE  /\ job.pc = "default" /\ job.key \in KeySet
         /\ UNCHANGED <<locked, spare, aside, made, got, ghosts, left>>
         /\ \/ /\ job.key \in mem.keys /\ JobAt("defaultkey")
               /\ UNCHANGED <<mem, file, rst, unsaved, blame>> /\ Kept
            \/ job.key \notin mem.keys /\ locked /\ Refusal /\ UNCHANGED <<mem, file, unsaved>> /\ Kept
            \/ /\ job.key \notin mem.keys /\ ~ locked /\ KeyStored(job.key)
               /\ JobAt("defaultkey") /\ UNCHANGED <<rst, blame>>
            \/ job.key \notin mem.keys /\ ~ locked /\ KeyRefused(job.key) /\ Refusal
<1> DEFINE moved == Go("defaultkey") /\ UNCHANGED <<rst, blame>>
<1>1. JobOK /\ job.pc = "default"
  BY DEF TypeInv, AddDefaultKey
<1>2. job.key \in KeySet
  BY <1>1, KeyTypes DEF JobOK, Installing, Branches
<1>3. /\ UNCHANGED <<locked, spare, aside, made, got, ghosts, left>>
      /\ \/ job.key \in mem.keys /\ moved /\ UNCHANGED <<mem, file, unsaved, fails>>
         \/ job.key \notin mem.keys /\ locked /\ Refused /\ UNCHANGED <<mem, file, unsaved, fails>>
         \/ job.key \notin mem.keys /\ ~ locked /\ AddKey(job.key, moved, Refused)
  BY DEF AddDefaultKey
<1>4. (moved => JobAt("defaultkey") /\ UNCHANGED <<rst, blame>>) /\ (Refused => Refusal)
  BY <1>1, GoEffect, RefusedEffect DEF Installing
<1> HIDE DEF moved
<1>5. ASSUME AddKey(job.key, moved, Refused)
      PROVE  (moved /\ KeyStored(job.key)) \/ (Refused /\ KeyRefused(job.key))
  <2>1. PICK ok \in BOOLEAN :
          /\ Write(ok) /\ mem' = [mem EXCEPT !.keys = @ \cup {job.key}]
          /\ ok => moved /\ file' = [file EXCEPT !.wallet.keys = @ \cup {job.key}] /\ UNCHANGED unsaved
          /\ ~ ok => Refused /\ unsaved' = unsaved \cup {job.key} /\ UNCHANGED file
    BY <1>5 DEF AddKey
  <2> QED
    BY <1>2, <2>1, AddKeyEffect
<1> QED
  BY <1>1, <1>2, <1>3, <1>4, <1>5 DEF Kept

LEMMA SetDefaultEffect ==
  ASSUME TypeInv, SetDefaultKey
  PROVE  /\ job.pc = "defaultkey" /\ MemIs(mem.keys, mem.pool, mem.seed, mem.schema, mem.next)
         /\ FileKeys(file.wallet.keys)
         /\ UNCHANGED <<locked, spare, aside, made, got, again, out, paid, bare, bak, missed, unsaved, left>>
         /\ \/ /\ handed' = handed \cup {job.key} /\ UNCHANGED blame /\ Kept
               /\ \/ job.then = "restore" /\ JobIdle /\ RstAt("recv", rst.step)
                  \/ job.then = "idle" /\ JobAt("fill") /\ UNCHANGED rst
            \/ Refusal /\ UNCHANGED handed /\ Lost
<1>1. /\ WalletOK(mem) /\ FileOK(file) /\ JobOK /\ RstOK /\ job.pc = "defaultkey"
      /\ UNCHANGED <<locked, spare, aside, made, got, again, out, paid, bare, bak, missed, unsaved, left>>
  BY DEF TypeInv, SetDefaultKey
<1>2. job.key \in KeySet /\ job.then \in {"idle", "restore"}
  BY <1>1, KeyTypes DEF JobOK, Installing, Branches
<1>3. PICK ok \in BOOLEAN, recorded \in BOOLEAN :
        /\ Write(ok)
        /\ file' = IF recorded THEN [file EXCEPT !.wallet.def = job.key] ELSE file
        /\ ok => /\ mem' = [mem EXCEPT !.def = job.key]
                 /\ handed' = handed \cup {job.key} /\ UNCHANGED blame
                 /\ IF job.then = "restore"
                      THEN job' = Idle /\ rst' = [rst EXCEPT !.at = "recv", !.total = 1,
                                                             !.before = Cardinality(got)]
                      ELSE Go("fill") /\ UNCHANGED rst
        /\ ~ ok => Refused /\ UNCHANGED <<mem, handed>>
  BY DEF SetDefaultKey
<1>4. FileKeys(file.wallet.keys)
  <2>1. CASE file' = file
    BY <1>1, <2>1 DEF FileKeys, FileIs
  <2>2. CASE file' = [file EXCEPT !.wallet.def = job.key]
    BY <1>1, <1>2, <2>2, KeyTypes DEF FileKeys, FileIs, FileOK, WalletOK
  <2> QED
    BY <1>3, <2>1, <2>2
<1>5. CASE ok = TRUE
  <2>1. MemIs(mem.keys, mem.pool, mem.seed, mem.schema, mem.next)
    BY <1>1, <1>2, <1>3, <1>5 DEF MemIs, WalletOK
  <2>2. CASE job.then = "restore"
    <3>1. JobIdle
      BY <1>3, <1>5, <2>2, IdleEffect
    <3>2. RstAt("recv", rst.step)
      BY <1>1, <1>3, <1>5, <2>2 DEF RstOK, RstAt
    <3> QED
      BY <1>1, <1>3, <1>4, <1>5, <2>1, <2>2, <3>1, <3>2 DEF Write, Kept
  <2>3. CASE job.then = "idle"
    BY <1>1, <1>3, <1>4, <1>5, <2>1, <2>3, GoEffect DEF Write, Kept
  <2> QED
    BY <1>2, <2>2, <2>3
<1>6. CASE ok = FALSE
  <2>1. MemIs(mem.keys, mem.pool, mem.seed, mem.schema, mem.next)
    BY <1>1, <1>3, <1>6 DEF MemIs
  <2>2. Refusal /\ UNCHANGED handed /\ Lost
    BY <1>1, <1>3, <1>6, RefusedEffect DEF Write, Lost, Installing
  <2> QED
    BY <1>1, <1>4, <2>1, <2>2
<1> QED
  BY <1>5, <1>6

LEMMA NewPhraseEffect ==
  ASSUME TypeInv, NEW s \in Seeds, NewPhrase(s) \/ RestoreFromPhrase(s)
  PROVE  /\ job.pc = "idle" /\ rst.at = "off" /\ Kept
         /\ \E then \in {"idle", "restore"} : JobIs("clear", then, Key("recv", s, 0), 0, None)
         /\ UNCHANGED <<mem, locked, file, spare, aside, made, got, handed, again, out, paid, bare, missed,
                        unsaved>>
<1>1. /\ job.pc = "idle" /\ rst.at = "off" /\ Kept
      /\ UNCHANGED <<mem, locked, file, spare, aside, made, got, handed, again, out, paid, bare, missed,
                     unsaved>>
  BY DEF NewPhrase, RestoreFromPhrase, Ask, Kept
<1>2. PICK then \in {"idle", "restore"} :
        job' = [Idle EXCEPT !.pc = "clear", !.then = then, !.key = Key("recv", s, 0)]
  BY DEF NewPhrase, RestoreFromPhrase, Install
<1>3. JobIs("clear", then, Key("recv", s, 0), 0, None)
  BY <1>2 DEF Idle, JobIs
<1> QED
  BY <1>1, <1>3

\* What AddKey takes into memory of a key that the file does not take.
Unlocked(k) == IF locked THEN {} ELSE {k}

LEMMA RestoreKeyEffect ==
  ASSUME TypeInv, NEW b \in {"recv", "change"}, RestoreKey(b)
  PROVE  LET k == Key(b, mem.seed, mem.next[b])
         IN /\ k \in KeySet /\ rst.at = b /\ rst.step = "key"
            /\ UNCHANGED <<locked, spare, aside, job, made, got, ghosts, blame, left>>
            /\ \/ /\ locked \/ k \in file.wallet.keys
                  /\ MemKeys(mem.keys \cup Unlocked(k)) /\ RstAt(b, "write")
                  /\ UNCHANGED <<file, unsaved>> /\ Kept
               \/ k \notin file.wallet.keys /\ KeyStored(k) /\ RstAt(b, "count")
               \/ k \notin file.wallet.keys /\ KeyRefused(k) /\ RstAt(b, "write")
<1> DEFINE k == Key(b, mem.seed, mem.next[b])
<1>1. k \in KeySet /\ RstOK /\ WalletOK(mem)
  <2>1. b \in Branches /\ mem.seed \in Seeds \cup {None} /\ mem.next \in [Branches -> Nat]
    BY DEF TypeInv, WalletOK, Branches
  <2> QED
    BY <2>1, KeyTypes DEF TypeInv
<1>2. /\ rst.at = b /\ rst.step = "key" /\ StoreKey(k, Stored, CutShort)
      /\ UNCHANGED <<locked, spare, aside, job, made, got, ghosts, blame, left>>
  BY DEF RestoreKey
<1>3. (Stored => RstAt(b, "count")) /\ (CutShort => RstAt(b, "write"))
  BY <1>1, <1>2 DEF Stored, CutShort, RstAt, RstOK
<1> HIDE DEF k
<1>4. CASE /\ locked \/ k \in file.wallet.keys
           /\ mem' = [mem EXCEPT !.keys = IF locked THEN @ ELSE @ \cup {k}] /\ CutShort
           /\ UNCHANGED <<file, unsaved, fails>>
  <2> DEFINE keys == mem.keys \cup Unlocked(k)
  <2>1. keys \subseteq KeySet /\ mem' = [mem EXCEPT !.keys = keys]
    BY <1>1, <1>4 DEF Unlocked, WalletOK
  <2> HIDE DEF keys
  <2>2. MemKeys(keys)
    BY <1>1, <2>1 DEF MemKeys, MemIs, WalletOK
  <2> QED
    BY <1>1, <1>2, <1>3, <1>4, <2>2 DEF k, keys, Kept
<1>5. CASE k \notin file.wallet.keys /\ AddKey(k, Stored, CutShort)
  <2>1. PICK ok \in BOOLEAN :
          /\ Write(ok) /\ mem' = [mem EXCEPT !.keys = @ \cup {k}]
          /\ ok => Stored /\ file' = [file EXCEPT !.wallet.keys = @ \cup {k}] /\ UNCHANGED unsaved
          /\ ~ ok => CutShort /\ unsaved' = unsaved \cup {k} /\ UNCHANGED file
    BY <1>5 DEF AddKey
  <2>2. (ok => KeyStored(k)) /\ (~ ok => KeyRefused(k))
    BY <1>1, <2>1, AddKeyEffect
  <2>3. (ok => RstAt(b, "count")) /\ (~ ok => RstAt(b, "write"))
    BY <1>3, <2>1
  <2> QED
    BY <1>1, <1>2, <1>5, <2>2, <2>3 DEF k
<1> QED
  BY <1>2, <1>4, <1>5 DEF StoreKey

LEMMA RestoreCountEffect ==
  ASSUME TypeInv, NEW b \in {"recv", "change"}, RestoreCount(b)
  PROVE  /\ rst.at = b /\ rst.step = "count" /\ mem.next[b] \in Nat /\ MemNext(b, mem.next[b] + 1)
         /\ RstAt(b, "key") \/ RstAt(b, "write")
         /\ UNCHANGED <<locked, file, spare, aside, job, made, got, ghosts, blame, unsaved, left>> /\ Kept
<1>1. /\ WalletOK(mem) /\ RstOK /\ b \in Branches /\ rst.at = b /\ rst.step = "count"
      /\ mem' = [mem EXCEPT !.next[b] = mem.next[b] + 1]
      /\ UNCHANGED <<locked, file, spare, aside, job, made, got, ghosts, blame, unsaved, left, fails>>
  BY DEF TypeInv, RestoreCount, Branches
<1>2. mem.next[b] \in Nat
  BY <1>1 DEF WalletOK
<1>3. PICK step \in {"key", "write"} : rst' = [rst EXCEPT !.n = @ + 1, !.total = @ + 1, !.step = step]
  BY DEF RestoreCount
<1>4. RstAt(b, step)
  BY <1>1, <1>3 DEF RstOK, RstAt
<1>5. MemNext(b, mem.next[b] + 1)
  BY <1>1, <1>2, MemNextSet
<1> QED
  BY <1>1, <1>2, <1>4, <1>5 DEF Kept

LEMMA RestoreWriteNextEffect ==
  ASSUME TypeInv, NEW b \in {"recv", "change"}, RestoreWriteNext(b)
  PROVE  /\ rst.at = b /\ rst.step = "write"
         /\ MemIs(mem.keys, mem.pool, mem.seed, IF b = "recv" THEN mem.schema ELSE "legacy", mem.next)
         /\ (FileNext(b, mem.next[b]) /\ Kept) \/ (UNCHANGED file /\ Lost)
         /\ RstAt(IF b = "recv" THEN "change" ELSE "legacy", "key")
         /\ UNCHANGED <<locked, spare, aside, job, made, got, ghosts, blame, unsaved, left>>
<1>1. /\ WalletOK(mem) /\ FileOK(file) /\ RstOK /\ b \in Branches /\ rst.at = b /\ rst.step = "write"
      /\ rst' = [rst EXCEPT !.n = 0, !.step = "key", !.at = IF b = "recv" THEN "change" ELSE "legacy"]
      /\ mem' = IF b = "recv" THEN mem ELSE [mem EXCEPT !.schema = "legacy"]
      /\ UNCHANGED <<locked, spare, aside, job, made, got, ghosts, blame, unsaved, left>>
  BY DEF TypeInv, RestoreWriteNext, Branches
<1>2. mem.next[b] \in Nat
  BY <1>1 DEF WalletOK
<1>3. PICK ok \in BOOLEAN :
        /\ Write(ok)
        /\ ok => file' = [file EXCEPT !.wallet.next[b] = mem.next[b]]
        /\ ~ ok => UNCHANGED file
  BY DEF RestoreWriteNext
<1>4. (FileNext(b, mem.next[b]) /\ Kept) \/ (UNCHANGED file /\ Lost)
  <2>1. CASE ok = TRUE
    BY <1>1, <1>2, <1>3, <2>1, FileNextSet DEF Write, Kept
  <2>2. CASE ok = FALSE
    BY <1>3, <2>2 DEF Write, Lost
  <2> QED
    BY <2>1, <2>2
<1>5. MemIs(mem.keys, mem.pool, mem.seed, IF b = "recv" THEN mem.schema ELSE "legacy", mem.next)
  <2>1. CASE b = "recv"
    BY <1>1, <2>1 DEF MemIs
  <2>2. CASE b = "change"
    BY <1>1, <2>2 DEF MemIs, WalletOK
  <2> QED
    BY <2>1, <2>2
<1>6. RstAt(IF b = "recv" THEN "change" ELSE "legacy", "key")
  BY <1>1 DEF RstOK, RstAt
<1> QED
  BY <1>1, <1>4, <1>5, <1>6

LEMMA RestoreLegacyEffect ==
  ASSUME TypeInv, RestoreLegacyKey
  PROVE  LET k == Key("legacy", mem.seed, rst.legacy)
         IN /\ k \in KeySet /\ rst.at = "legacy"
            /\ \E schema \in {"legacy", "bip44"} :
                 MemIs(mem.keys \cup Unlocked(k), mem.pool, mem.seed, schema, mem.next)
            /\ RstAt("legacy", rst.step) \/ RstAt("scan", rst.step)
            /\ UNCHANGED <<locked, spare, aside, job, made, got, ghosts, blame, left>>
            /\ \/ (locked \/ k \in file.wallet.keys) /\ UNCHANGED <<file, unsaved>> /\ Kept
               \/ ~ locked /\ FileKeys(file.wallet.keys \cup {k}) /\ UNCHANGED unsaved /\ Kept
               \/ ~ locked /\ UNCHANGED file /\ unsaved' = unsaved \cup {k} /\ Lost
<1> DEFINE k == Key("legacy", mem.seed, rst.legacy)
           scan == [rst EXCEPT !.at = "scan", !.n = 0]
<1>1. /\ WalletOK(mem) /\ FileOK(file) /\ RstOK /\ rst.at = "legacy"
      /\ UNCHANGED <<locked, spare, aside, job, made, got, ghosts, blame, left>>
  BY DEF TypeInv, RestoreLegacyKey
<1>2. k \in KeySet
  <2>1. mem.seed \in Seeds \cup {None} /\ rst.legacy \in Nat
    BY <1>1 DEF WalletOK, RstOK
  <2> QED
    BY <2>1, KeyTypes DEF Branches
<1> DEFINE more == rst.n + 1 < RESTORE_BATCH
<1>7. PICK stored \in BOOLEAN :
        /\ mem' = [mem EXCEPT !.keys = IF locked THEN mem.keys ELSE mem.keys \cup {k},
                              !.schema = IF stored /\ more THEN "legacy" ELSE "bip44"]
        /\ rst' = IF ~ stored THEN [scan EXCEPT !.whole = FALSE]
                  ELSE [(IF more THEN [rst EXCEPT !.n = @ + 1] ELSE scan)
                          EXCEPT !.legacy = @ + 1, !.total = @ + 1]
        /\ IF locked \/ k \in file.wallet.keys THEN ~ stored /\ UNCHANGED <<file, unsaved, fails>>
           ELSE /\ Write(stored)
                /\ file' = IF stored THEN [file EXCEPT !.wallet.keys = @ \cup {k}] ELSE file
                /\ unsaved' = IF stored THEN unsaved ELSE unsaved \cup {k}
  BY DEF RestoreLegacyKey
<1> HIDE DEF more, k
<1> DEFINE keys == mem.keys \cup Unlocked(k)
<1>8. keys = (IF locked THEN mem.keys ELSE mem.keys \cup {k})
  BY DEF Unlocked
<1> HIDE DEF keys
<1>3. /\ \E schema \in {"legacy", "bip44"} :
           mem' = [mem EXCEPT !.keys = keys, !.schema = schema]
      /\ rst' \in {[scan EXCEPT !.whole = FALSE], [[rst EXCEPT !.n = @ + 1] EXCEPT !.legacy = @ + 1, !.total = @ + 1],
                   [scan EXCEPT !.legacy = @ + 1, !.total = @ + 1]}
      /\ locked \/ k \in file.wallet.keys => UNCHANGED <<file, unsaved, fails>>
      /\ ~ locked /\ k \notin file.wallet.keys =>
           /\ Write(stored)
           /\ stored => file' = [file EXCEPT !.wallet.keys = @ \cup {k}] /\ UNCHANGED unsaved
           /\ ~ stored => UNCHANGED file /\ unsaved' = unsaved \cup {k}
  BY <1>7, <1>8
<1>4. RstAt("legacy", rst.step) \/ RstAt("scan", rst.step)
  BY <1>1, <1>3 DEF RstOK, RstAt
<1> HIDE DEF k, scan
<1>5. \E schema \in {"legacy", "bip44"} : MemIs(keys, mem.pool, mem.seed, schema, mem.next)
  <2>1. PICK schema \in {"legacy", "bip44"} :
          mem' = [mem EXCEPT !.keys = keys, !.schema = schema]
    BY <1>3
  <2>3. keys \subseteq KeySet
    BY <1>1, <1>2, <1>8 DEF WalletOK
  <2>2. MemIs(keys, mem.pool, mem.seed, schema, mem.next)
    BY <1>1, <2>1, <2>3 DEF MemIs, WalletOK
  <2> QED
    BY <2>2
<1>6. \/ (locked \/ k \in file.wallet.keys) /\ UNCHANGED <<file, unsaved>> /\ Kept
      \/ ~ locked /\ FileKeys(file.wallet.keys \cup {k}) /\ UNCHANGED unsaved /\ Kept
      \/ ~ locked /\ UNCHANGED file /\ unsaved' = unsaved \cup {k} /\ Lost
  <2>1. CASE locked \/ k \in file.wallet.keys
    BY <1>3, <2>1 DEF Kept
  <2>2. CASE ~ locked /\ k \notin file.wallet.keys /\ stored = TRUE
    BY <1>1, <1>2, <1>3, <2>2, FileKeysSet DEF Write, Kept
  <2>3. CASE ~ locked /\ k \notin file.wallet.keys /\ stored = FALSE
    BY <1>3, <2>3 DEF Write, Lost
  <2> QED
    BY <2>1, <2>2, <2>3
<1> QED
  BY <1>1, <1>2, <1>4, <1>5, <1>6 DEF k, keys

LEMMA RestoreScanEffect ==
  ASSUME TypeInv, RestoreScan
  PROVE  /\ rst.at = "scan" /\ got' = got \cup (paid \cap mem.keys)
         /\ WalletLastUsedIndexNext \in Nat
         /\ MemNext("legacy", WalletLastUsedIndexNext)
         /\ \/ FileNext("legacy", WalletLastUsedIndexNext) /\ Kept
            \/ UNCHANGED file /\ Kept /\ WalletLastUsedIndexNext = mem.next.legacy
            \/ UNCHANGED file /\ Lost
         /\ RstAt("finish", rst.step) \/ RstAt("recv", rst.step)
         /\ UNCHANGED <<locked, spare, aside, job, made, ghosts, blame, unsaved, left>>
<1> DEFINE used == WalletLastUsedIndexNext
<1>1. /\ WalletOK(mem) /\ FileOK(file) /\ RstOK /\ rst.at = "scan" /\ got' = got \cup (paid \cap mem.keys)
      /\ mem' = [mem EXCEPT !.next.legacy = used]
      /\ UNCHANGED <<locked, spare, aside, job, made, ghosts, blame, unsaved, left>>
  BY DEF TypeInv, RestoreScan
<1>2. used \in Nat
  <2> DEFINE S == {i \in 0 .. rst.legacy - 1 : Key("legacy", mem.seed, i) \in got'}
  <2>1. S \subseteq 0 .. rst.legacy - 1 /\ rst.legacy \in Nat
    BY <1>1 DEF RstOK
  <2>2. S \in SUBSET Nat /\ IsFiniteSet(S)
    <3>1. IsFiniteSet(0 .. rst.legacy - 1)
      BY <2>1, FS_Interval
    <3> QED
      BY <2>1, <3>1, FS_Subset
  <2>3. used = IF S = {} THEN 0 ELSE Max(S) + 1
    BY DEF WalletLastUsedIndexNext
  <2> HIDE DEF S, used
  <2>4. CASE S = {}
    BY <2>3, <2>4
  <2>5. CASE S # {}
    <3>1. Max(S) \in S
      BY <2>2, <2>5, MaxIsGreatest
    <3>2. Max(S) + 1 \in Nat
      <4>1. \A m \in Nat : m + 1 \in Nat
        OBVIOUS
      <4> QED
        BY <2>2, <3>1, <4>1
    <3> QED
      BY <2>3, <2>5, <3>2
  <2> QED
    BY <2>4, <2>5
<1>3. PICK ok \in BOOLEAN :
        /\ Write(ok) /\ (used = mem.next.legacy => ok)
        /\ file' = IF ok /\ used # mem.next.legacy
                     THEN [file EXCEPT !.wallet.next.legacy = used] ELSE file
  BY DEF RestoreScan
<1>4. \E quiet, at :
        /\ at \in {"finish", "recv"}
        /\ rst' = [rst EXCEPT !.quiet = quiet, !.before = Cardinality(got'), !.at = at]
  BY DEF RestoreScan
<1> HIDE DEF used
<1>5. MemNext("legacy", used)
  BY <1>1, <1>2, MemNextSet DEF Branches
<1>6. \/ FileNext("legacy", used) /\ Kept
      \/ UNCHANGED file /\ Kept /\ used = mem.next.legacy
      \/ UNCHANGED file /\ Lost
  <2>1. CASE ok = TRUE /\ used # mem.next.legacy
    BY <1>1, <1>2, <1>3, <2>1, FileNextSet DEF Write, Kept, Branches
  <2>2. CASE ok = TRUE /\ used = mem.next.legacy
    BY <1>3, <2>2 DEF Write, Kept
  <2>3. CASE ok = FALSE
    BY <1>3, <2>3 DEF Write, Lost
  <2> QED
    BY <2>1, <2>2, <2>3
<1>7. RstAt("finish", rst.step) \/ RstAt("recv", rst.step)
  BY <1>1, <1>4 DEF RstOK, RstAt
<1> QED
  BY <1>1, <1>2, <1>5, <1>6, <1>7 DEF used

LEMMA RestoreFinishEffect ==
  ASSUME TypeInv, RestoreFinish
  PROVE  /\ rst.at = "finish" /\ job.pc = "idle" /\ MemPool(<<>>)
         /\ JobIs("fill", "restored", None, 0, None) /\ RstAt("filling", rst.step)
         /\ handed' = handed \cap mem.keys
         /\ blame' = IF Behind THEN blame \cup {"behind"} ELSE blame
         /\ UNCHANGED <<locked, file, spare, aside, made, got, again, out, paid, bare, bak, missed, unsaved,
                        left>> /\ Kept
<1>1. /\ WalletOK(mem) /\ RstOK /\ mem' = [mem EXCEPT !.pool = <<>>]
      /\ job' = [Idle EXCEPT !.pc = "fill", !.then = "restored"]
      /\ rst' = [rst EXCEPT !.at = "filling"]
  BY DEF TypeInv, RestoreFinish
<1>2. MemPool(<<>>)
  BY <1>1, EmptyPool, MemPoolSet
<1>3. JobIs("fill", "restored", None, 0, None)
  BY <1>1 DEF Idle, JobIs
<1>4. RstAt("filling", rst.step)
  BY <1>1 DEF RstOK, RstAt
<1> QED
  BY <1>2, <1>3, <1>4 DEF RestoreFinish, Kept

----------------------------------------------------------------------------
(* Encryption, the end of the process and the next start.                  *)

LEMMA BlankOK == WalletOK(Blank) /\ FileOK(NoFile) /\ NoFile.wallet.def = None
<1>1. WalletOK(Blank)
  <2>1. [b \in Branches |-> 0] \in [Branches -> Nat]
    OBVIOUS
  <2> DEFINE next == [b \in Branches |-> 0]
  <2> HIDE DEF next
  <2>2. WalletOK([keys |-> {}, pool |-> <<>>, seed |-> None, schema |-> "none", next |-> next, def |-> None])
    BY <2>1, EmptyPool DEF WalletOK, next
  <2> QED
    BY <2>2 DEF Blank, next
<1> DEFINE blank == Blank
<1>2. blank.def = None /\ WalletOK(blank)
  BY <1>1 DEF Blank
<1>3. NoFile = [wallet |-> blank, cseed |-> None, enc |-> FALSE]
  BY DEF NoFile
<1> HIDE DEF blank
<1>4. FileOK([wallet |-> blank, cseed |-> None, enc |-> FALSE])
  BY <1>2 DEF FileOK
<1>5. NoFile.wallet = blank
  BY <1>3
<1> QED
  BY <1>1, <1>2, <1>3, <1>4, <1>5

LEMMA EndsEffect ==
  Ends => /\ WalletOK(mem') /\ mem' = Blank /\ locked' = FALSE
          /\ JobIs("down", "none", None, 0, None) /\ rst'.at = "off"
BY BlankOK DEF Ends, JobIs, Idle, Resting

\* The encrypted file: every key of memory, and a new pool.
LEMMA EncryptedOK ==
  ASSUME TypeInv
  PROVE  LET w == Encrypted.wallet
         IN /\ FileOK(Encrypted) /\ Encrypted.enc = TRUE /\ Encrypted.cseed = mem.seed
            /\ w.seed = None /\ w.def = file.wallet.def /\ w.schema = file.wallet.schema
            /\ w.keys = mem.keys \cup Range(w.pool) /\ DOMAIN w.pool = 1 .. KEYPOOL_SIZE
            /\ \A i \in 1 .. KEYPOOL_SIZE :
                 w.pool[i] = IF HaveHDSeed THEN Key(Counter("receive"), mem.seed, mem.next.legacy + i - 1)
                             ELSE Random(made + i - 1)
            /\ w.next = [file.wallet.next EXCEPT !.legacy = IF HaveHDSeed THEN mem.next.legacy + KEYPOOL_SIZE
                                                            ELSE mem.next.legacy]
<1> DEFINE n == mem.next.legacy
           at(i) == IF HaveHDSeed THEN DeriveHDKey("receive", n + i - 1) ELSE Random(made + i - 1)
           new == [i \in 1 .. KEYPOOL_SIZE |-> at(i)]
           m == IF HaveHDSeed THEN n + KEYPOOL_SIZE ELSE n
           w == [file.wallet EXCEPT !.keys = mem.keys \cup Range(new), !.pool = new, !.seed = None,
                                    !.next.legacy = m]
<1>1. KEYPOOL_SIZE \in Nat /\ n \in Nat /\ m \in Nat /\ made \in Nat /\ WalletOK(mem)
      /\ FileOK(file) /\ WalletOK(file.wallet)
  <2>1. mem.next \in [Branches -> Nat]
    BY DEF TypeInv, WalletOK
  <2> QED
    BY <2>1, KeysAssumption DEF TypeInv, FileOK, Branches
<1>2. \A i \in 1 .. KEYPOOL_SIZE : at(i) \in KeySet
  <2>1. Counter("receive") \in Branches /\ mem.seed \in Seeds \cup {None}
    BY <1>1, CounterTypes
  <2>2. \A i \in 1 .. KEYPOOL_SIZE : n + i - 1 \in Nat /\ made + i - 1 \in Nat
    <3> HIDE DEF n
    <3> QED
      BY <1>1
  <2> QED
    BY <2>1, <2>2, KeyTypes DEF DeriveHDKey
<1>3. Encrypted = [wallet |-> w, cseed |-> mem.seed, enc |-> TRUE]
  BY DEF Encrypted
<1>4. DOMAIN new = 1 .. KEYPOOL_SIZE /\ \A i \in 1 .. KEYPOOL_SIZE : new[i] = at(i)
  OBVIOUS
<1> HIDE DEF n, m, at, new
<1>5. PoolOK(new)
  <2>1. IsFiniteSet(1 .. KEYPOOL_SIZE)
    BY <1>1, FS_Interval
  <2> QED
    BY <1>1, <1>2, <1>4, <2>1 DEF PoolOK, PoolType, Range
<1>6. /\ WalletOK(w) /\ w.seed = None /\ w.def = file.wallet.def /\ w.schema = file.wallet.schema
      /\ w.keys = mem.keys \cup Range(new) /\ w.pool = new
      /\ w.next = [file.wallet.next EXCEPT !.legacy = m]
  <2>1. mem.keys \cup Range(new) \subseteq KeySet
    BY <1>1, <1>5 DEF WalletOK, PoolOK, PoolType
  <2>2. [file.wallet.next EXCEPT !.legacy = m] \in [Branches -> Nat]
    BY <1>1 DEF WalletOK
  <2> DEFINE keys == mem.keys \cup Range(new)
             next == [file.wallet.next EXCEPT !.legacy = m]
  <2>3. w = [file.wallet EXCEPT !.keys = keys, !.pool = new, !.seed = None, !.next = next]
    OBVIOUS
  <2>4. keys \subseteq KeySet /\ next \in [Branches -> Nat]
    BY <2>1, <2>2
  <2> HIDE DEF keys, next, w
  <2>5. /\ WalletOK(w) /\ w.seed = None /\ w.def = file.wallet.def /\ w.schema = file.wallet.schema
        /\ w.keys = keys /\ w.pool = new /\ w.next = next
    BY <1>1, <1>5, <2>3, <2>4 DEF WalletOK
  <2> QED
    BY <2>5 DEF keys, next
<1> HIDE DEF w
<1>7. mem.seed \in Seeds \cup {None}
  BY <1>1 DEF WalletOK
<1>8. FileOK(Encrypted) /\ Encrypted.wallet = w /\ Encrypted.enc = TRUE /\ Encrypted.cseed = mem.seed
  BY <1>3, <1>6, <1>7 DEF FileOK
<1> QED
  BY <1>4, <1>6, <1>8 DEF at, n, m, DeriveHDKey

LEMMA LoadEffect ==
  ASSUME TypeInv, NEW unlock \in BOOLEAN, LoadWallet(unlock)
  PROVE  LET w == file.wallet
             seeded == w.seed # None \/ file.cseed # None
         IN /\ job.pc = "down" /\ locked' = (file.enc /\ ~ unlock)
            /\ unlock => file.enc
            /\ MemIs(w.keys, w.pool,
                     IF unlock /\ file.cseed # None THEN file.cseed ELSE w.seed,
                     IF ~ seeded THEN "none" ELSE IF w.schema = "none" THEN "legacy" ELSE w.schema,
                     IF seeded THEN w.next ELSE [b \in Branches |-> 0])
            /\ JobIdle /\ Kept
            /\ UNCHANGED <<file, spare, aside, rst, made, got, ghosts, blame, unsaved, left>>
<1> DEFINE w == file.wallet
           seeded == w.seed # None \/ file.cseed # None
           seed == IF unlock /\ file.cseed # None THEN file.cseed ELSE w.seed
           schema == IF ~ seeded THEN "none" ELSE IF w.schema = "none" THEN "legacy" ELSE w.schema
           next == IF seeded THEN w.next ELSE [b \in Branches |-> 0]
<1>1. WalletOK(w) /\ FileOK(file) /\ WalletOK(Blank)
  BY BlankOK DEF TypeInv, FileOK
<1>2. seed \in Seeds \cup {None} /\ schema \in {"none", "legacy", "bip44"} /\ next \in [Branches -> Nat]
  BY <1>1 DEF WalletOK, FileOK
<1>3. mem' = [w EXCEPT !.seed = seed, !.schema = schema, !.next = next]
  <2>1. Blank.next = [b \in Branches |-> 0]
    BY DEF Blank
  <2> QED
    BY <2>1 DEF LoadWallet
<1> HIDE DEF seeded, seed, schema, next
<1>4. MemIs(w.keys, w.pool, seed, schema, next)
  BY <1>1, <1>2, <1>3 DEF MemIs, WalletOK
<1> QED
  BY <1>4, IdleEffect DEF LoadWallet, Kept, seeded, seed, schema, next

LEMMA CreateEffect ==
  ASSUME TypeInv, CreateNewWallet
  PROVE  LET k == Random(made)
         IN /\ k \in KeySet /\ job.pc = "down" /\ file = NoFile /\ made' = made + 1 /\ got' = {}
            /\ MemIs({k}, <<>>, None, "none", [b \in Branches |-> 0])
            /\ FileOK(file') /\ file'.cseed = None /\ file'.enc = FALSE
            /\ file'.wallet.keys = {k} /\ file'.wallet.pool = <<>> /\ file'.wallet.seed = None
            /\ JobIdle /\ (Kept \/ Lost)
            /\ UNCHANGED <<locked, spare, aside, rst, ghosts, blame, unsaved, left>>
<1> DEFINE k == Random(made)
           next == [b \in Branches |-> 0]
           w(def) == [keys |-> {k}, pool |-> <<>>, seed |-> None, schema |-> "none", next |-> next, def |-> def]
<1>1. k \in KeySet
  BY KeyTypes DEF TypeInv
<1>2. /\ mem' = w(k)
      /\ \E def \in {k, None} : file' = [wallet |-> w(def), cseed |-> None, enc |-> FALSE]
  BY DEF CreateNewWallet, Blank, NoFile
<1>3. next \in [Branches -> Nat]
  OBVIOUS
<1> HIDE DEF k, next
<1>4. ASSUME NEW def \in {k, None}
      PROVE  /\ WalletOK(w(def)) /\ w(def).keys = {k} /\ w(def).pool = <<>> /\ w(def).seed = None
             /\ w(def).schema = "none" /\ w(def).next = next
  BY <1>1, <1>3, EmptyPool DEF WalletOK
<1> HIDE DEF w
<1>5. /\ FileOK(file') /\ file'.cseed = None /\ file'.enc = FALSE
      /\ file'.wallet.keys = {k} /\ file'.wallet.pool = <<>> /\ file'.wallet.seed = None
  BY <1>2, <1>4 DEF FileOK
<1>6. MemIs({k}, <<>>, None, "none", next)
  BY <1>2, <1>4 DEF MemIs
<1>7. Kept \/ Lost
  BY DEF CreateNewWallet, Write, Kept, Lost
<1> QED
  BY <1>1, <1>5, <1>6, <1>7, IdleEffect DEF CreateNewWallet, k, next

LEMMA FailsEffect ==
  ASSUME TypeInv, CreationFails
  PROVE  LET k == Random(made)
         IN /\ k \in KeySet /\ job.pc = "down" /\ file = NoFile /\ made' = made + 1 /\ got' = {}
            /\ FileOK(file') /\ file'.cseed = None /\ file'.wallet.keys \subseteq {k}
            /\ file'.wallet.pool = <<>> /\ file'.wallet.seed = None
            /\ (Kept \/ Lost)
            /\ UNCHANGED <<mem, locked, spare, aside, job, rst, ghosts, blame, unsaved>>
<1> DEFINE k == Random(made)
           w == [Blank EXCEPT !.keys = {k}]
<1>1. k \in KeySet
  BY KeyTypes DEF TypeInv
<1>2. file = NoFile /\ (file' = NoFile \/ file' = [wallet |-> w, cseed |-> None, enc |-> FALSE])
  BY DEF CreationFails, NoFile
<1> HIDE DEF k
<1>3. WalletOK(w) /\ w.keys = {k} /\ w.pool = <<>> /\ w.seed = None
  <2>1. WalletOK(Blank) /\ Blank.pool = <<>> /\ Blank.seed = None
    BY BlankOK DEF Blank
  <2> DEFINE blank == Blank
  <2> HIDE DEF blank
  <2>2. w = [blank EXCEPT !.keys = {k}] /\ WalletOK(blank) /\ blank.pool = <<>> /\ blank.seed = None
    BY <2>1 DEF blank
  <2> HIDE DEF w
  <2> QED
    BY <1>1, <2>2 DEF WalletOK
<1>4. /\ FileOK(NoFile) /\ NoFile.cseed = None /\ NoFile.wallet.keys = {}
      /\ NoFile.wallet.pool = <<>> /\ NoFile.wallet.seed = None
  BY BlankOK DEF NoFile, Blank
<1> HIDE DEF w
<1>5. /\ FileOK(file') /\ file'.cseed = None /\ file'.wallet.keys \subseteq {k}
      /\ file'.wallet.pool = <<>> /\ file'.wallet.seed = None
  <2>1. CASE file' = NoFile
    BY <1>4, <2>1
  <2>2. CASE file' = [wallet |-> w, cseed |-> None, enc |-> FALSE]
    BY <1>3, <2>2 DEF FileOK
  <2> QED
    BY <1>2, <2>1, <2>2
<1>6. Kept \/ Lost
  BY DEF CreationFails, Write, Kept, Lost
<1> QED
  BY <1>1, <1>2, <1>5, <1>6 DEF CreationFails, k

----------------------------------------------------------------------------
(* TypeInv is inductive.                                                   *)

\* The part of it that is not control.
DataOK ==
  /\ WalletOK(mem) /\ FileOK(file) /\ FileOK(spare)
  /\ locked \in BOOLEAN /\ made \in Nat /\ fails \in Nat
  /\ Running => file.wallet.keys \subseteq mem.keys

LEMMA TypeInvParts == TypeInv <=> DataOK /\ JobOK /\ RstOK
BY DEF TypeInv, DataOK

LEMMA PoolTypes ==
  ASSUME TypeInv, \/ GetKeyFromPool \/ DeriveNextHDChangeKey \/ TopUpKeyPool \/ DeriveNext \/ RereadCounter
                  \/ AdvanceCounter \/ RandomKey \/ WritePool \/ TakeFromPool \/ GenerateNewKey
                  \/ \E coin \in BOOLEAN : Give(coin)
  PROVE  DataOK'
<1> USE DEF DataOK
<1>1. DataOK /\ (\A n \in Nat : n + 1 \in Nat)
  BY TypeInvParts
<1>2. Running /\ UNCHANGED <<spare, locked>>
  BY DEF GetKeyFromPool, DeriveNextHDChangeKey, TopUpKeyPool, DeriveNext, RereadCounter, AdvanceCounter,
         RandomKey, WritePool, TakeFromPool, GenerateNewKey, Give, Ask
<1>3. CASE GetKeyFromPool \/ DeriveNextHDChangeKey \/ TopUpKeyPool \/ RereadCounter
           \/ \E coin \in BOOLEAN : Give(coin)
  <2>1. UNCHANGED <<mem, file, made, fails>>
    BY <1>3 DEF GetKeyFromPool, DeriveNextHDChangeKey, TopUpKeyPool, RereadCounter, Give
  <2> QED
    BY <1>1, <1>2, <2>1
<1>4. ASSUME NEW k, KeyStored(k) \/ KeyRefused(k), made' = made \/ made' = made + 1
      PROVE  DataOK'
  BY <1>1, <1>2, <1>4 DEF KeyStored, KeyRefused, MemKeys, FileKeys, MemIs, FileIs, Kept, Lost
<1>5. CASE DeriveNext
  BY <1>1, <1>2, <1>4, <1>5, DeriveNextEffect DEF Kept
<1>6. CASE AdvanceCounter
  BY <1>1, <1>2, <1>6, AdvanceEffect DEF MemNext, FileNext, MemIs, FileIs, Kept, Lost
<1>7. CASE RandomKey
  BY <1>4, <1>7, RandomKeyEffect
<1>8. CASE GenerateNewKey
  BY <1>4, <1>8, GenerateEffect
<1>9. CASE WritePool
  BY <1>1, <1>2, <1>9, WritePoolEffect DEF MemPool, FilePool, MemIs, FileIs, Kept, Lost
<1>10. CASE TakeFromPool
  BY <1>1, <1>2, <1>10, TakeEffect DEF MemPool, FilePool, MemIs, FileIs, Kept, Lost
<1> QED
  BY <1>3, <1>5, <1>6, <1>7, <1>8, <1>9, <1>10

LEMMA InstallTypes ==
  ASSUME TypeInv, \/ ClearKeyPoolRecords \/ WriteSeed \/ AddDefaultKey \/ SetDefaultKey
                  \/ \E s \in Seeds : NewPhrase(s) \/ RestoreFromPhrase(s)
  PROVE  DataOK'
<1> USE DEF DataOK
<1>1. DataOK /\ (\A n \in Nat : n + 1 \in Nat)
  BY TypeInvParts
<1>2. Running /\ UNCHANGED <<spare, locked, made>>
  BY DEF ClearKeyPoolRecords, WriteSeed, AddDefaultKey, SetDefaultKey, NewPhrase, RestoreFromPhrase, Ask
<1>3. CASE \E s \in Seeds : NewPhrase(s) \/ RestoreFromPhrase(s)
  BY <1>1, <1>2, <1>3, NewPhraseEffect DEF Kept
<1>4. CASE ClearKeyPoolRecords
  BY <1>1, <1>2, <1>4, ClearEffect DEF MemPool, FilePool, MemIs, FileIs, Kept, Lost
<1>5. CASE WriteSeed
  BY <1>1, <1>2, <1>5, WriteSeedEffect DEF SeedIs, MemIs, FileIs, Kept, Lost
<1>6. CASE AddDefaultKey
  BY <1>1, <1>2, <1>6, AddDefaultEffect
     DEF KeyStored, KeyRefused, MemKeys, FileKeys, MemIs, FileIs, Kept, Lost
<1>7. CASE SetDefaultKey
  BY <1>1, <1>2, <1>7, SetDefaultEffect DEF FileKeys, MemIs, FileIs, Kept, Lost
<1> QED
  BY <1>3, <1>4, <1>5, <1>6, <1>7

LEMMA SearchTypes ==
  ASSUME TypeInv, RestoreStep
  PROVE  DataOK'
<1> USE DEF DataOK
<1>1. DataOK /\ Running /\ (\A n \in Nat : n + 1 \in Nat)
  <2>1. rst.at \in Searching
    BY DEF RestoreStep, RestoreKey, RestoreCount, RestoreWriteNext, RestoreLegacyKey, RestoreScan,
           RestoreFinish, Searching
  <2>2. DataOK /\ RstOK
    BY TypeInvParts
  <2> QED
    BY <2>1, <2>2 DEF RstOK
<1>2. ASSUME NEW b \in {"recv", "change"}, RestoreKey(b)
      PROVE  DataOK'
  BY <1>1, <1>2, RestoreKeyEffect
     DEF Unlocked, KeyStored, KeyRefused, MemKeys, FileKeys, MemIs, FileIs, Kept, Lost
<1>3. ASSUME NEW b \in {"recv", "change"}, RestoreCount(b)
      PROVE  DataOK'
  BY <1>1, <1>3, RestoreCountEffect DEF MemNext, MemIs, Kept
<1>4. ASSUME NEW b \in {"recv", "change"}, RestoreWriteNext(b)
      PROVE  DataOK'
  BY <1>1, <1>4, RestoreWriteNextEffect DEF FileNext, MemIs, FileIs, Kept, Lost
<1>5. CASE RestoreLegacyKey
  BY <1>1, <1>5, RestoreLegacyEffect DEF Unlocked, FileKeys, MemIs, FileIs, Kept, Lost
<1>6. CASE RestoreScan
  BY <1>1, <1>6, RestoreScanEffect DEF MemNext, FileNext, MemIs, FileIs, Kept, Lost
<1>7. CASE RestoreFinish
  BY <1>1, <1>7, RestoreFinishEffect DEF MemPool, MemIs, Kept
<1> QED
  BY <1>2, <1>3, <1>4, <1>5, <1>6, <1>7 DEF RestoreStep

LEMMA LifeTypes ==
  ASSUME TypeInv,
         \/ EncryptWallet \/ InstallEncrypted \/ BackupWallet \/ Crash \/ Lose \/ CreateNewWallet \/ CreationFails
         \/ \E unlock \in BOOLEAN : LoadWallet(unlock)
  PROVE  DataOK'
<1> USE DEF DataOK
<1>1. DataOK /\ (\A n \in Nat : n + 1 \in Nat /\ n + KEYPOOL_SIZE \in Nat)
  BY TypeInvParts, KeysAssumption
<1>2. CASE EncryptWallet
  <2>1. /\ spare' = Encrypted /\ file' = NoFile /\ UNCHANGED <<mem, locked, fails>>
        /\ made' \in {made, made + KEYPOOL_SIZE} /\ ~ Running'
    BY <1>2 DEF EncryptWallet, Idle
  <2> QED
    BY <1>1, <2>1, EncryptedOK, BlankOK
<1>3. ASSUME Ends, file' \in {file, spare, NoFile}, spare' \in {spare, NoFile}, UNCHANGED <<made, fails>>
      PROVE  DataOK'
  BY <1>1, <1>3, EndsEffect, BlankOK DEF JobIs
<1>4. CASE InstallEncrypted \/ Crash \/ Lose
  BY <1>3, <1>4 DEF InstallEncrypted, Crash, Lose
<1>5. CASE BackupWallet
  BY <1>1, <1>5 DEF BackupWallet
<1>6. CASE CreateNewWallet
  BY <1>1, <1>6, CreateEffect DEF MemIs, Kept, Lost
<1>8. CASE CreationFails
  BY <1>1, <1>8, FailsEffect DEF Running, Kept, Lost
<1>7. ASSUME NEW unlock \in BOOLEAN, LoadWallet(unlock)
      PROVE  DataOK'
  <2>1. (file.enc /\ ~ unlock) \in BOOLEAN
    OBVIOUS
  <2>2. locked' \in BOOLEAN
    BY <1>7, <2>1 DEF LoadWallet
  <2>3. /\ UNCHANGED <<file, spare, made>> /\ Kept
        /\ \E s, x, n : MemIs(file.wallet.keys, file.wallet.pool, s, x, n)
    BY <1>7, LoadEffect
  <2>4. WalletOK(mem') /\ mem'.keys = file.wallet.keys
    BY <2>3 DEF MemIs
  <2> HIDE DEF Running
  <2> QED
    BY <1>1, <2>2, <2>3, <2>4 DEF Kept
<1> QED
  BY <1>2, <1>4, <1>5, <1>6, <1>7, <1>8

LEMMA NextTypes == TypeInv /\ [Next]_vars => TypeInv'
<1> SUFFICES ASSUME TypeInv, [Next]_vars PROVE TypeInv'
  OBVIOUS
<1>1. CASE Next
  <2>1. DataOK'
    BY <1>1, PoolTypes, InstallTypes, SearchTypes, LifeTypes DEF Next, HolderStep
  <2> QED
    BY <1>1, <2>1, NextControl DEF TypeInv, DataOK
<1>2. CASE UNCHANGED vars
  BY <1>2 DEF vars, TypeInv, JobOK, RstOK, Running
<1> QED
  BY <1>1, <1>2

----------------------------------------------------------------------------
(* StoredInv is inductive.                                                 *)

Safe == file.wallet.keys \cup unsaved

\* Its parts: the wallet, what the holder of cs_keyPool has in hand, the files.
WalletStored ==
  /\ mem.keys \cup Range(mem.pool) \cup Range(file.wallet.pool) \subseteq Safe
  /\ out \subseteq Safe \cup aside
HandStored ==
  /\ job.pc \in {"reread", "count", "pool"} => job.key \in Safe
  /\ job.pc = "give" \/ job.then = "give" => job.out \in Safe
FilesStored ==
  /\ Range(spare.wallet.pool) \subseteq spare.wallet.keys
  /\ job.pc = "swap" => file = NoFile

LEMMA StoredParts ==
  StoredInv => (job.pc # "swap" => WalletStored) /\ HandStored /\ FilesStored
BY DEF StoredInv, WalletStored, HandStored, FilesStored, Safe

\* A step of a program that runs on leaves the files in place.
LEMMA FilesStay ==
  ASSUME FilesStored, Running, UNCHANGED spare, job'.pc # "swap"
  PROVE  FilesStored'
BY DEF FilesStored

\* A key that AddKey took, stored or refused.
LEMMA KeyAdded ==
  ASSUME WalletStored, NEW k, KeyStored(k) \/ KeyRefused(k), UNCHANGED <<aside, out>>
  PROVE  /\ WalletStored' /\ Safe' = Safe \cup {k}
BY DEF WalletStored, Safe, KeyStored, KeyRefused, MemKeys, FileKeys, MemIs, FileIs

LEMMA PoolStored ==
  ASSUME TypeInv, StoredInv,
         \/ GetKeyFromPool \/ DeriveNextHDChangeKey \/ TopUpKeyPool \/ DeriveNext \/ RereadCounter
         \/ AdvanceCounter \/ RandomKey \/ WritePool \/ TakeFromPool \/ GenerateNewKey
         \/ \E coin \in BOOLEAN : Give(coin)
  PROVE  WalletStored' /\ HandStored' /\ FilesStored' /\ job'.pc # "swap"
<1> USE DEF ghosts
<1>1. WalletStored /\ HandStored /\ FilesStored /\ JobOK
  <2>1. job.pc # "swap"
    BY DEF GetKeyFromPool, DeriveNextHDChangeKey, TopUpKeyPool, DeriveNext, RereadCounter, AdvanceCounter,
           RandomKey, WritePool, TakeFromPool, GenerateNewKey, Give, Ask
  <2> QED
    BY <2>1, StoredParts DEF TypeInv
<1>2. Running /\ UNCHANGED <<spare, aside>>
  BY DEF GetKeyFromPool, DeriveNextHDChangeKey, TopUpKeyPool, DeriveNext, RereadCounter, AdvanceCounter,
         RandomKey, WritePool, TakeFromPool, GenerateNewKey, Give, Ask
<1>3. CASE GetKeyFromPool \/ DeriveNextHDChangeKey
  <2>1. UNCHANGED <<mem, file, unsaved, out>>
    BY <1>3 DEF GetKeyFromPool, DeriveNextHDChangeKey
  <2>2. job'.pc \in {"fill", "derive"} /\ job'.then \in {"take", "change"}
    BY <1>3 DEF GetKeyFromPool, DeriveNextHDChangeKey, Idle
  <2> QED
    BY <1>1, <1>2, <2>1, <2>2, FilesStay DEF WalletStored, HandStored, Safe
<1>4. CASE TopUpKeyPool
  <2>1. UNCHANGED <<mem, file, unsaved, out>> /\ job.pc = "fill"
    BY <1>4 DEF TopUpKeyPool
  <2>2. Returned \/ JobAt("derive") \/ JobAt("random")
    BY <1>1, <1>4, <2>1, ReturnEffect, GoEffect DEF TopUpKeyPool
  <2> QED
    BY <1>1, <1>2, <2>1, <2>2, FilesStay DEF WalletStored, HandStored, Safe, Returned, JobAt, JobIdle, JobIs
<1>5. CASE DeriveNext
  <2> DEFINE c == Counter(job.then)
             k == DeriveHDKey(job.then, mem.next[c])
  <2>1. /\ UNCHANGED out /\ job.pc = "derive"
        /\ \/ UNCHANGED <<mem, file, unsaved>>
           \/ KeyStored(k) \/ KeyRefused(k)
        /\ \/ NotDerived
           \/ /\ job'.key = k /\ job'.then = job.then /\ job'.out = job.out
              /\ job'.pc \in {"reread", "count"} /\ (k \in mem.keys \/ KeyStored(k))
    BY <1>5, DeriveNextEffect DEF JobIs
  <2> HIDE DEF c, k
  <2>2. WalletStored' /\ (k \in mem.keys \/ KeyStored(k) => k \in Safe') /\ Safe \subseteq Safe'
    BY <1>1, <1>2, <2>1, KeyAdded DEF WalletStored, Safe
  <2>3. HandStored' /\ job'.pc # "swap"
    BY <1>1, <2>1, <2>2 DEF HandStored, NotDerived, JobAt, JobIdle, JobIs
  <2> QED
    BY <1>1, <1>2, <2>2, <2>3, FilesStay
<1>6. CASE RereadCounter
  <2>1. /\ UNCHANGED <<mem, file, unsaved, out>> /\ job.pc = "reread"
        /\ job'.pc = "count" /\ job'.key = job.key /\ job'.then = job.then /\ job'.out = job.out
    BY <1>1, <1>6 DEF RereadCounter, JobOK
  <2> QED
    BY <1>1, <1>2, <2>1, FilesStay DEF WalletStored, HandStored, Safe
<1>7. CASE AdvanceCounter
  <2>1. /\ UNCHANGED <<unsaved, out>> /\ job.pc = "count"
        /\ mem'.keys = mem.keys /\ mem'.pool = mem.pool
        /\ file'.wallet.keys = file.wallet.keys /\ file'.wallet.pool = file.wallet.pool
        /\ JobIs("give", "change", job.key, job.n, job.key) \/ JobAt("pool") \/ NotDerived
    BY <1>7, AdvanceEffect DEF MemNext, FileNext, MemIs, FileIs
  <2> QED
    BY <1>1, <1>2, <2>1, FilesStay DEF WalletStored, HandStored, Safe, NotDerived, JobAt, JobIdle, JobIs
<1>8. CASE RandomKey
  <2> DEFINE k == Random(made)
  <2>1. /\ UNCHANGED out /\ job.pc = "random" /\ (KeyStored(k) \/ KeyRefused(k))
        /\ JobIs("pool", job.then, k, job.n, job.out) \/ Returned
    BY <1>8, RandomKeyEffect
  <2> HIDE DEF k
  <2>2. WalletStored' /\ Safe' = Safe \cup {k}
    BY <1>1, <1>2, <1>8, <2>1, KeyAdded DEF RandomKey
  <2>3. HandStored' /\ job'.pc # "swap"
    BY <1>1, <2>1, <2>2 DEF HandStored, Returned, JobAt, JobIdle, JobIs
  <2> QED
    BY <1>1, <1>2, <2>2, <2>3, FilesStay
<1>9. CASE GenerateNewKey
  <2> DEFINE k == Random(made)
  <2>1. /\ UNCHANGED out /\ (KeyStored(k) \/ KeyRefused(k))
        /\ JobIs("give", job.then, job.key, job.n, k) \/ JobIdle
    BY <1>9, GenerateEffect
  <2> HIDE DEF k
  <2>2. WalletStored' /\ Safe' = Safe \cup {k}
    BY <1>1, <1>2, <1>9, <2>1, KeyAdded DEF GenerateNewKey
  <2>3. HandStored' /\ job'.pc # "swap"
    BY <1>1, <2>1, <2>2 DEF HandStored, JobIdle, JobIs
  <2> QED
    BY <1>1, <1>2, <2>2, <2>3, FilesStay
<1>10. CASE WritePool
  <2> DEFINE Moved == /\ Range(mem'.pool) \subseteq Range(mem.pool) \cup {job.key}
                      /\ Range(file'.wallet.pool) \subseteq Range(file.wallet.pool) \cup {job.key}
                      /\ mem'.keys = mem.keys /\ file'.wallet.keys = file.wallet.keys
                      /\ JobAt("fill") \/ Returned
  <2>1. PoolOK(mem.pool) /\ PoolOK(file.wallet.pool)
    BY DEF TypeInv, FileOK, WalletOK
  <2>2. UNCHANGED <<unsaved, out>> /\ job.pc = "pool" /\ job.key \in KeySet
    BY <1>10, WritePoolEffect
  <2>3. ASSUME UNCHANGED <<mem, file>>, Returned
        PROVE  Moved
    BY <2>3
  <2>4. ASSUME NEW i \in Nat \ {0}, MemPool(Put(mem.pool, i, job.key)), JobAt("fill"),
               FilePool(Put(file.wallet.pool, i, job.key))
        PROVE  Moved
    <3>1. /\ Range(Put(mem.pool, i, job.key)) \subseteq Range(mem.pool) \cup {job.key}
          /\ Range(Put(file.wallet.pool, i, job.key)) \subseteq Range(file.wallet.pool) \cup {job.key}
      <4>1. \A f, n, k : PoolOK(f) /\ n \in Nat \ {0} /\ k \in KeySet =>
                         Range(Put(f, n, k)) \subseteq Range(f) \cup {k}
        BY PutPool
      <4> QED
        BY <2>1, <2>2, <2>4, <4>1
    <3>2. Range(mem'.pool) \subseteq Range(mem.pool) \cup {job.key} /\ mem'.keys = mem.keys
      BY <2>4, <3>1 DEF MemPool, MemIs
    <3>3. /\ Range(file'.wallet.pool) \subseteq Range(file.wallet.pool) \cup {job.key}
          /\ file'.wallet.keys = file.wallet.keys
      BY <2>4, <3>1 DEF FilePool, FileIs
    <3> QED
      BY <2>4, <3>2, <3>3
  <2>5. Moved
    BY <1>10, <2>3, <2>4, WritePoolEffect
  <2> QED
    BY <1>1, <1>2, <2>2, <2>5, FilesStay DEF WalletStored, HandStored, Safe, Returned, JobAt, JobIdle, JobIs
<1>11. CASE TakeFromPool
  <2>1. /\ UNCHANGED <<unsaved, out>> /\ Range(mem'.pool) \subseteq Range(mem.pool)
        /\ Range(file'.wallet.pool) \subseteq Range(file.wallet.pool)
        /\ mem'.keys = mem.keys /\ file'.wallet.keys = file.wallet.keys
        /\ \E i \in DOMAIN mem.pool : JobIs("fill", "give", job.key, job.n, mem.pool[i])
    <3>1. PoolOK(mem.pool) /\ PoolOK(file.wallet.pool)
      BY DEF TypeInv, FileOK, WalletOK
    <3>2. PICK i \in DOMAIN mem.pool :
            /\ MemPool(Drop(mem.pool, i)) /\ JobIs("fill", "give", job.key, job.n, mem.pool[i])
            /\ FilePool(Drop(file.wallet.pool, i)) \/ UNCHANGED file
      BY <1>11, TakeEffect
    <3>3. Range(file'.wallet.pool) \subseteq Range(file.wallet.pool)
      <4>1. Range(Drop(file.wallet.pool, i)) \subseteq Range(file.wallet.pool)
        BY <3>1, DropPool
      <4>2. file'.wallet.pool = Drop(file.wallet.pool, i) \/ UNCHANGED file
        BY <3>2 DEF FilePool, FileIs
      <4> QED
        BY <4>1, <4>2
    <3>4. Range(mem'.pool) \subseteq Range(mem.pool) /\ mem'.keys = mem.keys
      <4>1. Range(Drop(mem.pool, i)) \subseteq Range(mem.pool)
        BY <3>1, DropPool
      <4>2. mem'.pool = Drop(mem.pool, i) /\ mem'.keys = mem.keys
        BY <3>2 DEF MemPool, MemIs
      <4> QED
        BY <4>1, <4>2
    <3>5. /\ file'.wallet.keys = file.wallet.keys
      BY <3>2 DEF FilePool, FileIs
    <3>6. UNCHANGED <<unsaved, out>>
      BY <1>11, TakeEffect
    <3> QED
      BY <3>2, <3>3, <3>4, <3>5, <3>6
  <2>2. job'.out \in Range(mem.pool) /\ job'.pc = "fill"
    BY <2>1 DEF JobIs, Range
  <2> QED
    BY <1>1, <1>2, <2>1, <2>2, FilesStay DEF WalletStored, HandStored, Safe
<1>12. CASE \E coin \in BOOLEAN : Give(coin)
  <2>1. /\ UNCHANGED <<mem, file, unsaved>> /\ job.pc = "give" /\ out' = out \cup {job.out} /\ job' = Idle
    BY <1>12 DEF Give
  <2> QED
    BY <1>1, <1>2, <2>1, FilesStay, IdleEffect DEF WalletStored, HandStored, Safe, JobIdle, JobIs
<1> QED
  BY <1>3, <1>4, <1>5, <1>6, <1>7, <1>8, <1>9, <1>10, <1>11, <1>12

LEMMA InstallStored ==
  ASSUME TypeInv, StoredInv,
         \/ ClearKeyPoolRecords \/ WriteSeed \/ AddDefaultKey \/ SetDefaultKey
         \/ \E s \in Seeds : NewPhrase(s) \/ RestoreFromPhrase(s)
  PROVE  WalletStored' /\ HandStored' /\ FilesStored' /\ job'.pc # "swap"
<1> USE DEF ghosts
<1>1. WalletStored /\ HandStored /\ FilesStored /\ JobOK
  <2>1. job.pc # "swap"
    BY DEF ClearKeyPoolRecords, WriteSeed, AddDefaultKey, SetDefaultKey, NewPhrase, RestoreFromPhrase, Ask
  <2> QED
    BY <2>1, StoredParts DEF TypeInv
<1>2. Running /\ UNCHANGED <<spare, aside, out>>
  BY DEF ClearKeyPoolRecords, WriteSeed, AddDefaultKey, SetDefaultKey, NewPhrase, RestoreFromPhrase, Ask
<1>3. job.pc \in Installing => job.then # "give"
  BY <1>1 DEF JobOK
<1>4. ASSUME NEW p, p \in {"clear", "seed", "default", "defaultkey", "fill", "idle"}, job'.pc = p,
             job'.then # "give"
      PROVE  HandStored' /\ job'.pc # "swap"
  BY <1>4 DEF HandStored
<1>5. CASE \E s \in Seeds : NewPhrase(s) \/ RestoreFromPhrase(s)
  <2>1. /\ UNCHANGED <<mem, file, unsaved>>
        /\ job'.pc = "clear" /\ job'.then \in {"idle", "restore"}
    BY <1>5, NewPhraseEffect DEF JobIs
  <2> QED
    BY <1>1, <1>2, <1>4, <2>1, FilesStay DEF WalletStored, Safe
<1>6. CASE ClearKeyPoolRecords
  <2>1. /\ UNCHANGED unsaved /\ job.pc = "clear"
        /\ job'.pc \in {"seed", "idle", "clear"} /\ job'.then \in {job.then, "none"}
        /\ mem'.keys = mem.keys /\ mem'.pool \in {mem.pool, <<>>}
    BY <1>6, ClearEffect DEF MemPool, MemIs, Refusal, JobIdle, JobIs
  <2>2. /\ file'.wallet.keys = file.wallet.keys /\ Range(file'.wallet.pool) \subseteq Range(file.wallet.pool)
    <3>1. UNCHANGED file \/ \E i : FilePool(Drop(file.wallet.pool, i))
      BY <1>6, ClearEffect
    <3>2. PoolOK(file.wallet.pool)
      BY DEF TypeInv, FileOK, WalletOK
    <3>3. \A i : Range(Drop(file.wallet.pool, i)) \subseteq Range(file.wallet.pool)
      BY <3>2, DropPool
    <3>4. CASE UNCHANGED file
      BY <3>4
    <3>5. CASE \E i : FilePool(Drop(file.wallet.pool, i))
      BY <3>3, <3>5 DEF FilePool, FileIs
    <3> QED
      BY <3>1, <3>4, <3>5
  <2>3. Range(mem'.pool) \subseteq Range(mem.pool)
    BY <2>1, EmptyPool
  <2> QED
    BY <1>1, <1>2, <1>3, <1>4, <2>1, <2>2, <2>3, FilesStay DEF WalletStored, Safe, Installing
<1>7. CASE WriteSeed
  <2>1. /\ UNCHANGED unsaved /\ job.pc = "seed"
        /\ job'.pc \in {"seed", "default", "idle"} /\ job'.then \in {job.then, "none"}
        /\ mem'.keys = mem.keys /\ mem'.pool = mem.pool
        /\ file'.wallet.keys = file.wallet.keys /\ file'.wallet.pool = file.wallet.pool
    BY <1>7, WriteSeedEffect DEF SeedIs, MemIs, FileIs, Refusal, JobIdle, JobAt, JobIs
  <2> QED
    BY <1>1, <1>2, <1>3, <1>4, <2>1, FilesStay DEF WalletStored, Safe, Installing
<1>8. CASE AddDefaultKey
  <2>1. /\ job.pc = "default" /\ job'.pc \in {"defaultkey", "idle"} /\ job'.then \in {job.then, "none"}
        /\ UNCHANGED <<mem, file, unsaved>> \/ KeyStored(job.key) \/ KeyRefused(job.key)
    BY <1>8, AddDefaultEffect DEF Refusal, JobIdle, JobAt, JobIs
  <2>2. WalletStored'
    <3>1. CASE UNCHANGED <<mem, file, unsaved>>
      BY <1>1, <1>2, <3>1 DEF WalletStored, Safe
    <3> QED
      BY <1>1, <1>2, <2>1, <3>1, KeyAdded
  <2> QED
    BY <1>1, <1>2, <1>3, <1>4, <2>1, <2>2, FilesStay DEF Installing
<1>9. CASE SetDefaultKey
  <2>1. /\ UNCHANGED unsaved /\ job.pc = "defaultkey"
        /\ job'.pc \in {"fill", "idle"} /\ job'.then \in {job.then, "none"}
        /\ mem'.keys = mem.keys /\ mem'.pool = mem.pool
        /\ file'.wallet.keys = file.wallet.keys /\ file'.wallet.pool = file.wallet.pool
    BY <1>9, SetDefaultEffect DEF FileKeys, MemIs, FileIs, Refusal, JobIdle, JobAt, JobIs
  <2> QED
    BY <1>1, <1>2, <1>3, <1>4, <2>1, FilesStay DEF WalletStored, Safe, Installing
<1> QED
  BY <1>5, <1>6, <1>7, <1>8, <1>9

LEMMA SearchStored ==
  ASSUME TypeInv, StoredInv, RestoreStep
  PROVE  WalletStored' /\ HandStored' /\ FilesStored' /\ job'.pc # "swap"
<1> USE DEF ghosts
<1>2. Running /\ JobOK
  <2>1. rst.at \in Searching
    BY DEF RestoreStep, RestoreKey, RestoreCount, RestoreWriteNext, RestoreLegacyKey, RestoreScan,
           RestoreFinish, Searching
  <2> QED
    BY <2>1 DEF TypeInv, RstOK
<1>1. WalletStored /\ HandStored /\ FilesStored
  BY <1>2, StoredParts
<1>3. UNCHANGED <<spare, aside, out>>
  BY DEF RestoreStep, RestoreKey, RestoreCount, RestoreWriteNext, RestoreLegacyKey, RestoreScan,
         RestoreFinish
<1>4. ASSUME WalletStored', UNCHANGED job, Safe \subseteq Safe'
      PROVE  HandStored' /\ FilesStored' /\ job'.pc # "swap"
  BY <1>1, <1>2, <1>3, <1>4, FilesStay DEF HandStored
<1>5. ASSUME NEW b \in {"recv", "change"}, RestoreKey(b)
      PROVE  WalletStored' /\ HandStored' /\ FilesStored' /\ job'.pc # "swap"
  <2> DEFINE k == Key(b, mem.seed, mem.next[b])
  <2>1. /\ UNCHANGED job
        /\ \/ /\ locked \/ k \in file.wallet.keys
              /\ MemKeys(mem.keys \cup Unlocked(k)) /\ UNCHANGED <<file, unsaved>>
           \/ KeyStored(k) \/ KeyRefused(k)
    BY <1>5, RestoreKeyEffect
  <2> HIDE DEF k
  <2>2. CASE /\ locked \/ k \in file.wallet.keys
             /\ MemKeys(mem.keys \cup Unlocked(k)) /\ UNCHANGED <<file, unsaved>>
    BY <1>1, <1>3, <1>4, <2>1, <2>2 DEF Unlocked, WalletStored, Safe, MemKeys, MemIs
  <2> QED
    BY <1>1, <1>3, <1>4, <2>1, <2>2, KeyAdded
<1>6. ASSUME NEW b \in {"recv", "change"}, RestoreCount(b) \/ RestoreWriteNext(b)
      PROVE  WalletStored' /\ HandStored' /\ FilesStored' /\ job'.pc # "swap"
  <2>1. /\ UNCHANGED <<unsaved, job>>
        /\ mem'.keys = mem.keys /\ mem'.pool = mem.pool
        /\ file'.wallet.keys = file.wallet.keys /\ file'.wallet.pool = file.wallet.pool
    BY <1>6, RestoreCountEffect, RestoreWriteNextEffect DEF MemNext, FileNext, MemIs, FileIs
  <2> QED
    BY <1>1, <1>3, <1>4, <2>1 DEF WalletStored, Safe
<1>7. CASE RestoreLegacyKey
  <2> DEFINE k == Key("legacy", mem.seed, rst.legacy)
  <2>1. /\ UNCHANGED job /\ mem'.keys \subseteq mem.keys \cup Unlocked(k) /\ mem'.pool = mem.pool
        /\ file'.wallet.pool = file.wallet.pool
        /\ \/ (locked \/ k \in file.wallet.keys) /\ UNCHANGED <<file, unsaved>>
           \/ file'.wallet.keys = file.wallet.keys \cup {k} /\ UNCHANGED unsaved
           \/ UNCHANGED file /\ unsaved' = unsaved \cup {k}
    BY <1>7, RestoreLegacyEffect DEF FileKeys, MemIs, FileIs
  <2> HIDE DEF k
  <2> QED
    BY <1>1, <1>3, <1>4, <2>1 DEF Unlocked, WalletStored, Safe
<1>8. CASE RestoreScan
  <2>1. /\ UNCHANGED <<unsaved, job>>
        /\ mem'.keys = mem.keys /\ mem'.pool = mem.pool
        /\ file'.wallet.keys = file.wallet.keys /\ file'.wallet.pool = file.wallet.pool
    BY <1>8, RestoreScanEffect DEF MemNext, FileNext, MemIs, FileIs
  <2> QED
    BY <1>1, <1>3, <1>4, <2>1 DEF WalletStored, Safe
<1>9. CASE RestoreFinish
  <2>1. /\ UNCHANGED <<file, unsaved>> /\ mem'.keys = mem.keys /\ mem'.pool = <<>>
        /\ job'.pc = "fill" /\ job'.then = "restored"
    BY <1>9, RestoreFinishEffect DEF MemPool, MemIs, JobIs
  <2>2. FilesStored'
    BY <1>1, <1>2, <1>3, <2>1, FilesStay
  <2> QED
    BY <1>1, <1>3, <2>1, <2>2, EmptyPool DEF WalletStored, HandStored, Safe
<1> QED
  BY <1>5, <1>6, <1>7, <1>8, <1>9 DEF RestoreStep

LEMMA LifeStored ==
  ASSUME TypeInv, StoredInv,
         \/ EncryptWallet \/ InstallEncrypted \/ BackupWallet \/ Crash \/ Lose \/ CreateNewWallet \/ CreationFails
         \/ \E unlock \in BOOLEAN : LoadWallet(unlock)
  PROVE  StoredInv'
<1> USE DEF ghosts
<1>1. (job.pc # "swap" => WalletStored) /\ HandStored /\ FilesStored
  BY StoredParts
<1>2. /\ Blank.keys = {} /\ Range(Blank.pool) = {} /\ NoFile.wallet = Blank
  BY EmptyPool DEF Blank, NoFile
<1>3. CASE EncryptWallet
  <2>1. /\ spare' = Encrypted /\ file' = NoFile /\ aside' = aside \cup file.wallet.keys
        /\ UNCHANGED <<mem, out, unsaved>> /\ job' = [Idle EXCEPT !.pc = "swap"] /\ job.pc = "idle"
    BY <1>3 DEF EncryptWallet, Ask
  <2>2. job'.pc = "swap" /\ job'.then = "none"
    BY <2>1 DEF Idle
  <2>3. Range(Encrypted.wallet.pool) \subseteq Encrypted.wallet.keys
    BY EncryptedOK
  <2>4. WalletStored
    BY <1>1, <2>1
  <2>5. out' \subseteq unsaved' \cup aside' /\ Range(mem'.pool) \subseteq unsaved' \cup aside'
    BY <2>1, <2>4 DEF WalletStored, Safe
  <2> QED
    BY <1>1, <1>2, <2>1, <2>2, <2>3, <2>4, <2>5 DEF StoredInv, FilesStored
<1>4. ASSUME Ends PROVE HandStored' /\ mem' = Blank /\ ~ Running' /\ job'.pc = "down"
  BY <1>4, EndsEffect DEF HandStored, JobIs
<1>5. CASE InstallEncrypted
  <2>1. /\ job.pc = "swap" /\ file' = spare /\ spare' = NoFile /\ UNCHANGED <<aside, out, unsaved>> /\ Ends
    BY <1>5 DEF InstallEncrypted
  <2>2. file = NoFile /\ Range(spare.wallet.pool) \subseteq spare.wallet.keys
    BY <1>1, <2>1 DEF FilesStored
  <2>3. out \subseteq unsaved \cup aside
    BY <1>2, <2>1, <2>2 DEF StoredInv
  <2>4. WalletStored' /\ FilesStored'
    BY <1>2, <1>4, <2>1, <2>2, <2>3 DEF WalletStored, FilesStored, Safe
  <2> QED
    BY <1>4, <2>1, <2>4 DEF StoredInv, WalletStored, HandStored, FilesStored, Safe
<1>6. CASE Crash
  <2>1. UNCHANGED <<file, spare, aside, out, unsaved>> /\ Ends
    BY <1>6 DEF Crash
  <2>2. Range(file.wallet.pool) \subseteq Safe /\ out \subseteq Safe \cup aside
    BY <1>2 DEF StoredInv, Safe
  <2>3. WalletStored' /\ FilesStored'
    BY <1>1, <1>2, <1>4, <2>1, <2>2 DEF WalletStored, FilesStored, Safe
  <2> QED
    BY <1>4, <2>1, <2>3 DEF StoredInv, WalletStored, HandStored, FilesStored, Safe
<1>7. CASE Lose
  <2>1. file' = NoFile /\ spare' = NoFile /\ out' = {} /\ Ends
    BY <1>7 DEF Lose
  <2>2. WalletStored' /\ FilesStored'
    BY <1>2, <1>4, <2>1 DEF WalletStored, FilesStored
  <2> QED
    BY <1>4, <2>1, <2>2 DEF StoredInv, WalletStored, HandStored, FilesStored, Safe
<1>8. CASE BackupWallet
  <2>1. UNCHANGED <<mem, file, spare, aside, out, unsaved, job>>
    BY <1>8 DEF BackupWallet
  <2> QED
    BY <2>1 DEF StoredInv
<1>9. CASE CreateNewWallet
  <2> DEFINE k == Random(made)
  <2>1. /\ mem'.keys = {k} /\ mem'.pool = <<>> /\ file'.wallet.keys = {k} /\ file'.wallet.pool = <<>>
        /\ UNCHANGED <<spare, aside, out, unsaved>> /\ file = NoFile /\ job.pc = "down"
        /\ job'.pc = "idle" /\ job'.then = "none"
    BY <1>9, CreateEffect DEF MemIs, JobIdle, JobIs
  <2> HIDE DEF k
  <2> QED
    BY <1>1, <1>2, <2>1, EmptyPool DEF StoredInv, WalletStored, FilesStored, Safe
<1>11. CASE CreationFails
  <2>1. /\ file'.wallet.pool = <<>> /\ UNCHANGED <<mem, job, spare, aside, out, unsaved>>
        /\ file = NoFile /\ job.pc = "down"
    BY <1>11, FailsEffect
  <2> QED
    BY <1>1, <1>2, <2>1, EmptyPool DEF StoredInv, WalletStored, FilesStored, Safe
<1>10. ASSUME NEW unlock \in BOOLEAN, LoadWallet(unlock)
       PROVE  StoredInv'
  <2>1. /\ \E s, x, n : MemIs(file.wallet.keys, file.wallet.pool, s, x, n)
        /\ UNCHANGED <<file, spare, aside, out, unsaved>>
        /\ job'.pc = "idle" /\ job'.then = "none"
    BY <1>10, LoadEffect DEF JobIdle, JobIs
  <2>2. mem'.keys = file.wallet.keys /\ mem'.pool = file.wallet.pool
    BY <2>1 DEF MemIs
  <2>3. job.pc = "down"
    BY <1>10 DEF LoadWallet
  <2>4. WalletStored'
    BY <1>1, <2>1, <2>2, <2>3 DEF WalletStored, Safe
  <2>5. FilesStored'
    BY <1>1, <2>1, <2>3 DEF FilesStored
  <2> QED
    BY <2>1, <2>4, <2>5 DEF StoredInv, WalletStored, FilesStored, Safe
<1> QED
  BY <1>3, <1>5, <1>6, <1>7, <1>8, <1>9, <1>10, <1>11

LEMMA NextStored == TypeInv /\ StoredInv /\ [Next]_vars => StoredInv'
<1> SUFFICES ASSUME TypeInv, StoredInv, [Next]_vars PROVE StoredInv'
  OBVIOUS
<1>1. CASE Next
  <2>1. StoredInv' \/ (WalletStored' /\ HandStored' /\ FilesStored' /\ job'.pc # "swap")
    BY <1>1, PoolStored, InstallStored, SearchStored, LifeStored DEF Next, HolderStep
  <2> QED
    BY <2>1 DEF StoredInv, WalletStored, HandStored, FilesStored, Safe
<1>2. CASE UNCHANGED vars
  BY <1>2 DEF vars, ghosts, StoredInv
<1> QED
  BY <1>1, <1>2

----------------------------------------------------------------------------
(* The start, and the theorems.                                            *)

\* The wallets there may be at the start.
LEMMA StartOK ==
  ASSUME NEW start \in {"fresh", "legacy"}
  PROVE  LET w == StartWallet(start)
         IN /\ WalletOK(w) /\ w.def # None /\ Range(w.pool) \subseteq w.keys
            /\ start = "legacy" => Key("legacy", w.seed, 0) \in w.keys
<1> DEFINE k == Random(0)
<1>1. k \in KeySet /\ k # None
  BY KeyTypes
<1>2. CASE start = "fresh"
  <2> DEFINE w == [keys |-> {k}, pool |-> <<>>, seed |-> None, schema |-> "none",
                   next |-> [b \in Branches |-> 0], def |-> k]
  <2>1. StartWallet(start) = w
    BY <1>2 DEF StartWallet, Blank
  <2>2. WalletOK(w) /\ w.def # None /\ Range(w.pool) \subseteq w.keys
    <3>1. [b \in Branches |-> 0] \in [Branches -> Nat]
      OBVIOUS
    <3> DEFINE next == [b \in Branches |-> 0]
    <3> HIDE DEF k, next
    <3>2. WalletOK([keys |-> {k}, pool |-> <<>>, seed |-> None, schema |-> "none", next |-> next, def |-> k])
      BY <1>1, <3>1, EmptyPool DEF WalletOK, next
    <3> QED
      BY <1>1, <3>2, EmptyPool DEF next
  <2> QED
    BY <1>2, <2>1, <2>2
<1>3. CASE start = "legacy"
  <2> DEFINE s == CHOOSE s \in Seeds : TRUE
             keys == {k} \cup {Key("legacy", s, i) : i \in 0 .. KEYPOOL_SIZE}
             pool == [i \in 2 .. KEYPOOL_SIZE + 1 |-> Key("legacy", s, i - 1)]
             next == [[b \in Branches |-> 0] EXCEPT !.legacy = KEYPOOL_SIZE + 1]
             w == [keys |-> keys, pool |-> pool, seed |-> s, schema |-> "none", next |-> next, def |-> k]
  <2>1. StartWallet(start) = w
    BY <1>3 DEF StartWallet, Blank
  <2>2. s \in Seeds /\ KEYPOOL_SIZE \in Nat
    BY KeysAssumption
  <2>3. next \in [Branches -> Nat]
    BY <2>2
  <2> HIDE DEF s
  <2>4. \A i \in Nat : Key("legacy", s, i) \in KeySet
    BY <2>2, KeyTypes DEF Branches
  <2>5. keys \subseteq KeySet /\ Key("legacy", s, 0) \in keys
    BY <1>1, <2>2, <2>4
  <2>6. PoolOK(pool) /\ Range(pool) \subseteq keys
    <3>1. IsFiniteSet(2 .. KEYPOOL_SIZE + 1)
      BY <2>2, FS_Interval
    <3>2. 2 .. KEYPOOL_SIZE + 1 \subseteq Nat \ {0}
      BY <2>2
    <3>3. \A i \in 2 .. KEYPOOL_SIZE + 1 : i - 1 \in 0 .. KEYPOOL_SIZE
      BY <2>2
    <3>4. Range(pool) \subseteq keys
      BY <3>3 DEF Range
    <3> QED
      BY <2>5, <3>1, <3>2, <3>4 DEF PoolOK, PoolType
  <2> HIDE DEF k, keys, pool, next
  <2>7. WalletOK(w) /\ w.def = k /\ w.pool = pool /\ w.keys = keys /\ w.seed = s
    BY <1>1, <2>2, <2>3, <2>5, <2>6 DEF WalletOK
  <2> QED
    BY <1>1, <1>3, <2>1, <2>5, <2>6, <2>7
<1> QED
  BY <1>2, <1>3

LEMMA InitOK == Init => TypeInv /\ StoredInv
<1> SUFFICES ASSUME Init PROVE TypeInv /\ StoredInv
  OBVIOUS
<1>1. PICK plan \in Plans :
        /\ file = [NoFile EXCEPT !.wallet = StartWallet(plan.start)]
        /\ handed = IF plan.start = "fresh" THEN {} ELSE {Key("legacy", file.wallet.seed, 0)}
  BY DEF Init
<1>2. plan.start \in {"fresh", "legacy"}
  BY KeysAssumption
<1>3. /\ out = handed /\ mem = Blank /\ locked = FALSE /\ spare = NoFile /\ aside = {}
      /\ job = [Idle EXCEPT !.pc = "down"] /\ rst = Resting /\ made = 1 /\ fails = 0
  BY DEF Init
<1> DEFINE w == StartWallet(plan.start)
<1>4. /\ WalletOK(w) /\ w.def # None /\ Range(w.pool) \subseteq w.keys
      /\ plan.start = "legacy" => Key("legacy", w.seed, 0) \in w.keys
  BY <1>2, StartOK
<1> HIDE DEF w
<1>5. FileOK(file) /\ file.wallet = w
  <2>1. file = [wallet |-> w, cseed |-> None, enc |-> FALSE]
    BY <1>1 DEF NoFile, w
  <2> QED
    BY <1>4, <2>1 DEF FileOK
<1>6. JobOK /\ RstOK
  BY <1>3 DEF JobOK, RstOK, Idle, Pcs, Filling, Installing, Searching, Resting
<1>7. job.pc = "down" /\ job.then = "none"
  BY <1>3 DEF Idle
<1>8. TypeInv
  BY <1>3, <1>5, <1>6, <1>7, BlankOK DEF TypeInv
<1>9. out \subseteq file.wallet.keys
  BY <1>1, <1>2, <1>3, <1>4, <1>5
<1>10. StoredInv
  <2>1. mem.keys = {} /\ Range(mem.pool) = {} /\ Range(spare.wallet.pool) = {}
    BY <1>3, EmptyPool DEF Blank, NoFile
  <2> QED
    BY <1>4, <1>5, <1>7, <1>9, <2>1 DEF StoredInv
<1> QED
  BY <1>8, <1>10

LEMMA Invariant == Spec => [](TypeInv /\ StoredInv)
<1>1. TypeInv /\ StoredInv /\ [Next]_vars => (TypeInv /\ StoredInv)'
  BY NextTypes, NextStored
<1> QED
  BY <1>1, InitOK, PTL DEF Spec

\* The types of the wallet, of its file and of the two threads; and every key
\* of the file is in mapKeys while the program runs (LoadWallet, AddKey).
THEOREM TypesCorrect == Spec => []KeysTypeOK
<1>1. TypeInv /\ StoredInv => KeysTypeOK
  <2> SUFFICES ASSUME TypeInv, StoredInv PROVE KeysTypeOK
    OBVIOUS
  <2>1. \A w : WalletOK(w) => WalletType(w)
    BY DEF WalletOK, WalletType, PoolOK
  <2>2. WalletType(mem) /\ WalletType(file.wallet) /\ WalletType(spare.wallet)
    BY <2>1 DEF TypeInv, FileOK
  <2>3. job.pc \in Pcs /\ job.then \in {"none", "idle", "take", "give", "change", "restore", "restored"}
        /\ rst.at \in {"off", "seed", "filling"} \cup Searching
    BY DEF TypeInv, JobOK, RstOK
  <2>4. job.pc # "down" => file.wallet.keys \subseteq mem.keys
    <3>1. NoFile.wallet.keys = {}
      BY DEF NoFile, Blank
    <3> QED
      BY <3>1 DEF TypeInv, StoredInv
  <2> QED
    BY <2>2, <2>3, <2>4 DEF TypeInv, KeysTypeOK, Pcs, Searching
<1> QED
  BY <1>1, Invariant, PTL

\* A key is written before it is offered to anybody: what is in the pool, in
\* memory or on disk, and what was given out is in a wallet file, or its own
\* write was refused (AddKey, WritePool, EncryptWallet).
THEOREM OfferedStoredCorrect == Spec => []OfferedStored
<1>1. StoredInv => OfferedStored
  BY EmptyPool DEF StoredInv, OfferedStored, NoFile, Blank
<1> QED
  BY <1>1, Invariant, PTL

----------------------------------------------------------------------------
(* PhraseInv is inductive: what is on offer is of the seed.                *)

Clean == fails = 0 /\ "relabel" \notin blame
Covers ==
  /\ bare = {} /\ FileCovered(file) /\ (job.pc = "swap" => FileCovered(spare))
  /\ SeedsAgree /\ PoolCovered /\ HandCovered

LEMMA KeySeeds ==
  /\ \A n : SeedOf(Random(n)) = None
  /\ \A b, s, i : SeedOf(Key(b, s, i)) = s
BY DEF SeedOf, Random, Key

\* What a step of the program that leaves seeds and pools as they are keeps.
SameSeeds ==
  /\ UNCHANGED <<locked, bare>> /\ mem'.seed = mem.seed
  /\ file'.wallet.seed = file.wallet.seed /\ file'.cseed = file.cseed /\ file'.enc = file.enc
SamePools == mem'.pool = mem.pool /\ file'.wallet.pool = file.wallet.pool

LEMMA SeedsStay ==
  ASSUME Covers, Running, Running', SameSeeds, ~ (job.pc = "seed" /\ job.n > 1)
  PROVE  /\ bare' = {} /\ SeedsAgree' /\ SeedOn(file)' = SeedOn(file) /\ (job.pc = "swap")' = FALSE
         /\ SamePools => FileCovered(file)'
BY DEF Covers, SameSeeds, SamePools, SeedsAgree, FileCovered, SeedOn

\* The holder of cs_keyPool, at a point where it has no key in hand.
LEMMA HandEmpty ==
  ASSUME Covers, Running, SameSeeds, SamePools, rst'.at \in Searching => rst.at \in Searching,
         \/ JobIdle
         \/ JobAt("fill") /\ job.then \notin {"give"}
  PROVE  PoolCovered' /\ HandCovered'
BY DEF Covers, SameSeeds, SamePools, PoolCovered, HandCovered, JobIdle, JobAt, JobIs, Filling, Installing,
       Searching

LEMMA PoolCovers ==
  ASSUME TypeInv, Covers, fails' = 0, Clean,
         \/ GetKeyFromPool \/ DeriveNextHDChangeKey \/ TopUpKeyPool \/ DeriveNext \/ RereadCounter
         \/ AdvanceCounter \/ RandomKey \/ WritePool \/ TakeFromPool \/ GenerateNewKey
         \/ \E coin \in BOOLEAN : Give(coin)
  PROVE  Covers'
<1> USE DEF ghosts
<1>1. JobOK /\ RstOK /\ PoolOK(mem.pool) /\ PoolOK(file.wallet.pool) /\ ~ Lost
  BY DEF TypeInv, WalletOK, FileOK, Lost, Clean
<1>2. Running /\ job.pc # "seed"
  BY DEF GetKeyFromPool, DeriveNextHDChangeKey, TopUpKeyPool, DeriveNext, RereadCounter, AdvanceCounter,
         RandomKey, WritePool, TakeFromPool, GenerateNewKey, Give, Ask
<1>3. PoolCovered /\ HandCovered /\ bare = {}
  BY DEF Covers
<1>4. ASSUME SameSeeds, SamePools, Running', PoolCovered', HandCovered'
      PROVE  Covers'
  BY <1>2, <1>4, SeedsStay DEF Covers
<1>5. CASE GetKeyFromPool \/ DeriveNextHDChangeKey
  <2>1. /\ SameSeeds /\ SamePools /\ UNCHANGED rst
        /\ \/ JobIs("fill", "take", None, 0, None) /\ ~ locked
           \/ JobIs("derive", "change", None, 0, None)
    BY <1>5 DEF GetKeyFromPool, DeriveNextHDChangeKey, SameSeeds, SamePools, Idle, JobIs
  <2>2. PoolCovered' /\ HandCovered'
    BY <1>2, <1>3, <2>1 DEF PoolCovered, HandCovered, SameSeeds, SamePools, JobIs, Filling, Installing
  <2> QED
    BY <1>4, <2>1, <2>2 DEF JobIs
<1>6. CASE TopUpKeyPool
  <2>1. /\ SameSeeds /\ SamePools /\ job.pc = "fill"
        /\ \/ Returned /\ (locked \/ Cardinality(DOMAIN mem.pool) >= KEYPOOL_SIZE)
           \/ JobAt("derive") /\ ~ locked /\ UNCHANGED rst
           \/ JobAt("random") /\ ~ locked /\ mem.seed = None /\ UNCHANGED rst
    BY <1>1, <1>6, ReturnEffect, GoEffect DEF TopUpKeyPool, HaveHDSeed, SameSeeds, SamePools
  <2>2. Cardinality(DOMAIN mem.pool) >= KEYPOOL_SIZE => DOMAIN mem.pool # {}
    <3>1. Cardinality({}) = 0 /\ KEYPOOL_SIZE \in Nat \ {0}
      BY FS_EmptySet, KeysAssumption
    <3>2. ~ (Cardinality({}) >= KEYPOOL_SIZE)
      BY <3>1
    <3> QED
      BY <3>2
  <2>3. CASE Returned
    <3>1. (locked \/ Cardinality(DOMAIN mem.pool) >= KEYPOOL_SIZE) \/ JobAt("derive") \/ JobAt("random")
      BY <2>1
    <3>2. PoolCovered' /\ HandCovered' /\ Running'
      BY <1>2, <1>3, <2>1, <2>2, <2>3, <3>1
         DEF PoolCovered, HandCovered, SameSeeds, SamePools, Returned, JobIdle, JobAt, JobIs, Filling,
             Installing, Searching
    <3> QED
      BY <1>4, <2>1, <3>2
  <2>4. CASE (JobAt("derive") \/ (JobAt("random") /\ mem.seed = None)) /\ ~ locked /\ UNCHANGED rst
    <3>1. PoolCovered' /\ HandCovered' /\ Running'
      BY <1>1, <1>2, <1>3, <2>1, <2>4
         DEF PoolCovered, HandCovered, SameSeeds, SamePools, JobAt, JobIs, Filling, Installing
    <3> QED
      BY <1>4, <2>1, <3>1
  <2> QED
    BY <2>1, <2>3, <2>4
<1>7. CASE DeriveNext
  <2> DEFINE c == Counter(job.then)
             k == DeriveHDKey(job.then, mem.next[c])
  <2>1. /\ job.pc = "derive" /\ SameSeeds /\ SamePools /\ UNCHANGED rst
        /\ \/ /\ job'.key = k /\ job'.then = job.then /\ job'.out = job.out
              /\ job'.pc = IF job.then = "change" THEN "reread" ELSE "count"
           \/ NotDerived /\ locked
    BY <1>1, <1>7, DeriveNextEffect
       DEF JobIs, SameSeeds, SamePools, KeyStored, KeyRefused, MemKeys, FileKeys, MemIs, FileIs
  <2>2. SeedOf(k) = mem.seed
    BY KeySeeds DEF DeriveHDKey
  <2> HIDE DEF c, k
  <2>3. PoolCovered' /\ HandCovered' /\ Running'
    BY <1>2, <1>3, <2>1, <2>2
       DEF PoolCovered, HandCovered, SameSeeds, SamePools, NotDerived, JobIdle, JobAt, JobIs, Filling, Installing
  <2> QED
    BY <1>4, <2>1, <2>3
<1>8. CASE RereadCounter
  <2>1. /\ job.pc = "reread" /\ SameSeeds /\ SamePools /\ UNCHANGED rst
        /\ job'.pc = "count" /\ job'.key = job.key /\ job'.then = job.then /\ job'.out = job.out
        /\ job.then = "change"
    BY <1>1, <1>8 DEF RereadCounter, JobOK, SameSeeds, SamePools
  <2>2. PoolCovered' /\ HandCovered' /\ Running'
    BY <1>2, <1>3, <2>1 DEF PoolCovered, HandCovered, SameSeeds, SamePools, Filling, Installing
  <2> QED
    BY <1>4, <2>1, <2>2
<1>9. CASE AdvanceCounter
  <2>1. /\ job.pc = "count" /\ SameSeeds /\ SamePools /\ UNCHANGED rst
        /\ \/ job.then = "change" /\ JobIs("give", "change", job.key, job.n, job.key)
           \/ job.then # "change" /\ JobAt("pool")
    BY <1>1, <1>9, AdvanceEffect DEF SameSeeds, SamePools, MemNext, FileNext, MemIs, FileIs
  <2>2. PoolCovered' /\ HandCovered' /\ Running'
    BY <1>2, <1>3, <2>1 DEF PoolCovered, HandCovered, SameSeeds, SamePools, JobAt, JobIs, Filling, Installing
  <2> QED
    BY <1>4, <2>1, <2>2
<1>10. CASE RandomKey
  <2>1. /\ job.pc = "random" /\ SameSeeds /\ SamePools /\ UNCHANGED rst
        /\ JobIs("pool", job.then, Random(made), job.n, job.out)
    BY <1>1, <1>10, RandomKeyEffect
       DEF SameSeeds, SamePools, KeyStored, KeyRefused, MemKeys, FileKeys, MemIs, FileIs
  <2>2. SeedOf(Random(made)) = None
    BY KeySeeds
  <2>3. PoolCovered' /\ HandCovered' /\ Running'
    BY <1>1, <1>2, <1>3, <2>1, <2>2
       DEF PoolCovered, HandCovered, SameSeeds, SamePools, JobIs, Filling, Installing
  <2> QED
    BY <1>4, <2>1, <2>3
<1>11. CASE WritePool
  <2>1. job.pc = "pool" /\ job.key \in KeySet /\ UNCHANGED <<locked, rst, bare>> /\ JobAt("fill")
    BY <1>1, <1>11, WritePoolEffect
  <2>2. PICK i \in Nat \ {0} :
          MemPool(Put(mem.pool, i, job.key)) /\ FilePool(Put(file.wallet.pool, i, job.key))
    BY <1>1, <1>11, WritePoolEffect
  <2>3. \A f : PoolOK(f) => /\ DOMAIN Put(f, i, job.key) = DOMAIN f \cup {i}
                            /\ Range(Put(f, i, job.key)) \subseteq Range(f) \cup {job.key}
    <3> SUFFICES ASSUME NEW f, PoolOK(f)
                 PROVE  /\ DOMAIN Put(f, i, job.key) = DOMAIN f \cup {i}
                        /\ Range(Put(f, i, job.key)) \subseteq Range(f) \cup {job.key}
      OBVIOUS
    <3> QED
      BY <2>1, <2>2, PutPool
  <2>4. /\ DOMAIN mem'.pool = DOMAIN mem.pool \cup {i}
        /\ DOMAIN file'.wallet.pool = DOMAIN file.wallet.pool \cup {i}
        /\ Range(mem'.pool) \subseteq Range(mem.pool) \cup {job.key}
        /\ Range(file'.wallet.pool) \subseteq Range(file.wallet.pool) \cup {job.key}
        /\ SameSeeds
    BY <1>1, <2>1, <2>2, <2>3 DEF MemPool, FilePool, MemIs, FileIs, SameSeeds
  <2>5. Running' /\ rst.at \notin Searching /\ job.then # "change"
    BY <1>1, <2>1 DEF JobAt, JobIs, JobOK, RstOK, Filling
  <2>6. PoolCovered' /\ HandCovered'
    BY <1>2, <1>3, <2>1, <2>4, <2>5
       DEF PoolCovered, HandCovered, SameSeeds, JobAt, JobIs, Filling, Installing
  <2>7. SeedOf(job.key) = mem.seed /\ ~ locked
    BY <1>3, <2>1, <2>5 DEF HandCovered, Filling
  <2>8. mem.seed = SeedOn(file)
    BY <1>2, <2>7 DEF Covers, SeedsAgree
  <2>9. /\ bare' = {} /\ SeedsAgree' /\ SeedOn(file)' = SeedOn(file) /\ (job.pc = "swap")' = FALSE
    BY <1>2, <2>4, <2>5, SeedsStay
  <2>10. FileCovered(file)'
    BY <2>4, <2>7, <2>8, <2>9 DEF Covers, FileCovered, SameSeeds
  <2> QED
    BY <2>6, <2>9, <2>10 DEF Covers
<1>12. CASE TakeFromPool
  <2>1. job.pc = "take" /\ job.then = "take" /\ UNCHANGED <<locked, rst, bare>>
    BY <1>12, TakeEffect
  <2>2. PICK i \in DOMAIN mem.pool :
          /\ MemPool(Drop(mem.pool, i)) /\ FilePool(Drop(file.wallet.pool, i))
          /\ JobIs("fill", "give", job.key, job.n, mem.pool[i])
    BY <1>1, <1>12, TakeEffect
  <2>3. \A f : PoolOK(f) => /\ DOMAIN Drop(f, i) = DOMAIN f \ {i} /\ Range(Drop(f, i)) \subseteq Range(f)
    BY DropPool
  <2>4. /\ DOMAIN mem'.pool = DOMAIN mem.pool \ {i}
        /\ DOMAIN file'.wallet.pool = DOMAIN file.wallet.pool \ {i}
        /\ Range(mem'.pool) \subseteq Range(mem.pool)
        /\ Range(file'.wallet.pool) \subseteq Range(file.wallet.pool)
        /\ SameSeeds
    BY <1>1, <2>1, <2>2, <2>3 DEF MemPool, FilePool, MemIs, FileIs, SameSeeds
  <2>5. Running' /\ rst.at \notin Searching /\ mem.pool[i] \in Range(mem.pool)
    BY <1>1, <2>1, <2>2 DEF JobIs, RstOK, Range
  <2>6. PoolCovered' /\ HandCovered'
    BY <1>2, <1>3, <2>1, <2>2, <2>4, <2>5
       DEF PoolCovered, HandCovered, SameSeeds, JobIs, Filling, Installing
  <2>9. /\ bare' = {} /\ SeedsAgree' /\ SeedOn(file)' = SeedOn(file) /\ (job.pc = "swap")' = FALSE
    BY <1>2, <2>4, <2>5, SeedsStay
  <2>10. FileCovered(file)'
    BY <2>4, <2>9 DEF Covers, FileCovered, SameSeeds
  <2> QED
    BY <2>6, <2>9, <2>10 DEF Covers
<1>13. CASE GenerateNewKey
  BY <1>3, <1>13 DEF GenerateNewKey, PoolCovered
<1>14. CASE \E coin \in BOOLEAN : Give(coin)
  <2>1. /\ job.pc = "give" /\ UNCHANGED <<mem, file, locked, rst>> /\ job' = Idle
        /\ bare' = IF HaveHDSeed /\ SeedOf(job.out) # mem.seed THEN bare \cup {job.out} ELSE bare
    BY <1>14 DEF Give
  <2>2. SameSeeds /\ SamePools /\ JobIdle
    BY <1>3, <2>1, IdleEffect DEF HandCovered, SameSeeds, SamePools, HaveHDSeed
  <2>3. PoolCovered' /\ HandCovered' /\ Running'
    BY <1>2, <2>1, <2>2, HandEmpty DEF JobIdle, JobIs
  <2> QED
    BY <1>4, <2>2, <2>3
<1> QED
  BY <1>5, <1>6, <1>7, <1>8, <1>9, <1>10, <1>11, <1>12, <1>13, <1>14

LEMMA InstallCovers ==
  ASSUME TypeInv, Covers, fails' = 0, Clean, Clean',
         \/ ClearKeyPoolRecords \/ WriteSeed \/ AddDefaultKey \/ SetDefaultKey
         \/ \E s \in Seeds : NewPhrase(s) \/ RestoreFromPhrase(s)
  PROVE  Covers'
<1> USE DEF ghosts
<1>1. JobOK /\ RstOK /\ PoolOK(mem.pool) /\ PoolOK(file.wallet.pool) /\ ~ Lost
  BY DEF TypeInv, WalletOK, FileOK, Lost, Clean
<1>2. Running /\ UNCHANGED <<locked, bare>>
  BY DEF ClearKeyPoolRecords, WriteSeed, AddDefaultKey, SetDefaultKey, NewPhrase, RestoreFromPhrase, Ask
<1>3. PoolCovered /\ HandCovered /\ bare = {}
  BY DEF Covers
<1>4. ASSUME SameSeeds, SamePools, Running', PoolCovered', HandCovered', job.pc # "seed"
      PROVE  Covers'
  BY <1>2, <1>4, SeedsStay DEF Covers
<1>5. job.pc \in Installing => job.then \in {"idle", "restore"} /\ rst.at \notin Searching
  BY <1>1 DEF JobOK, RstOK
<1>6. CASE \E s \in Seeds : NewPhrase(s) \/ RestoreFromPhrase(s)
  <2>1. PICK s \in Seeds : NewPhrase(s) \/ RestoreFromPhrase(s)
    BY <1>6
  <2>2. job.pc = "idle" /\ SameSeeds /\ SamePools
    BY <1>2, <2>1, NewPhraseEffect DEF SameSeeds, SamePools
  <2>3. job'.pc = "clear" /\ job'.then \in {"idle", "restore"} /\ rst'.at \notin Searching
    <3>1. job'.pc = "clear" /\ job'.then \in {"idle", "restore"}
      BY <2>1, NewPhraseEffect DEF JobIs
    <3>2. rst'.at \in {"off", "seed"}
      BY <2>1 DEF NewPhrase, RestoreFromPhrase, Resting
    <3> QED
      BY <3>1, <3>2 DEF Searching
  <2>4. file.cseed = None
    BY <2>1 DEF NewPhrase, RestoreFromPhrase, Clean
  <2>5. PoolCovered' /\ HandCovered' /\ Running'
    BY <1>2, <1>3, <2>2, <2>3, <2>4 DEF PoolCovered, HandCovered, SameSeeds, SamePools, Filling, Installing
  <2> QED
    BY <1>4, <2>2, <2>5
<1>7. CASE ClearKeyPoolRecords
  <2> DEFINE on == DOMAIN mem.pool \cap DOMAIN file.wallet.pool
  <2>1. job.pc = "clear" /\ UNCHANGED rst
    BY <1>1, <1>7, ClearEffect DEF ClearKeyPoolRecords
  <2>2. CASE on = {} /\ MemPool(<<>>) /\ JobIs("seed", job.then, job.key, 1, job.out) /\ UNCHANGED file
    <3>1. DOMAIN file.wallet.pool = {} /\ DOMAIN mem'.pool = {} /\ Range(mem'.pool) = {} /\ SameSeeds
      BY <1>2, <1>3, <2>2, EmptyPool DEF MemPool, MemIs, PoolCovered, SameSeeds
    <3>2. PoolCovered' /\ HandCovered' /\ Running'
      BY <1>2, <1>3, <1>5, <2>1, <2>2, <3>1
         DEF PoolCovered, HandCovered, SameSeeds, JobIs, Filling, Installing, Searching
    <3>3. FileCovered(file)'
      BY <2>2 DEF Covers, FileCovered, SeedOn
    <3> QED
      BY <1>2, <2>1, <3>1, <3>2, <3>3, SeedsStay DEF Covers
  <2>3. CASE UNCHANGED <<mem, job>> /\ \E i \in on : FilePool(Drop(file.wallet.pool, i))
    <3>1. PICK i \in on : FilePool(Drop(file.wallet.pool, i))
      BY <2>3
    <3>2. /\ DOMAIN file'.wallet.pool \subseteq DOMAIN file.wallet.pool
          /\ Range(file'.wallet.pool) \subseteq Range(file.wallet.pool) /\ SameSeeds
      <4>1. /\ DOMAIN Drop(file.wallet.pool, i) \subseteq DOMAIN file.wallet.pool
            /\ Range(Drop(file.wallet.pool, i)) \subseteq Range(file.wallet.pool)
        <5>1. \A f : PoolOK(f) => DOMAIN Drop(f, i) = DOMAIN f \ {i} /\ Range(Drop(f, i)) \subseteq Range(f)
          BY DropPool
        <5> QED
          BY <1>1, <5>1
      <4> QED
        BY <1>2, <2>3, <3>1, <4>1 DEF FilePool, FileIs, SameSeeds
    <3>3. PoolCovered' /\ HandCovered' /\ Running'
      BY <1>2, <1>3, <2>1, <2>3, <3>2
         DEF PoolCovered, HandCovered, SameSeeds, Filling, Installing, Searching
    <3>4. /\ bare' = {} /\ SeedsAgree' /\ SeedOn(file)' = SeedOn(file) /\ (job.pc = "swap")' = FALSE
      BY <1>2, <2>1, <3>2, <3>3, SeedsStay
    <3>5. FileCovered(file)'
      BY <3>2, <3>4 DEF Covers, FileCovered, SameSeeds
    <3> QED
      BY <3>3, <3>4, <3>5 DEF Covers
  <2> QED
    BY <1>1, <1>7, <2>2, <2>3, ClearEffect
<1>8. CASE WriteSeed
  <2> DEFINE s == SeedOf(job.key)
  <2>1. /\ job.pc = "seed" /\ s \in Seeds /\ job.n \in 1 .. 5 /\ UNCHANGED rst /\ SeedIs(file.wallet, s, job.n)
        /\ \/ job.n < 5 /\ UNCHANGED mem /\ JobIs("seed", job.then, job.key, job.n + 1, job.out)
           \/ /\ job.n = 5 /\ JobAt("default")
              /\ MemIs(mem.keys, mem.pool, s, "bip44", [recv |-> 1, change |-> 0, legacy |-> 0])
    BY <1>1, <1>8, WriteSeedEffect
  <2>2. /\ file'.wallet.pool = file.wallet.pool /\ file'.cseed = file.cseed /\ file'.enc = file.enc
        /\ file'.wallet.seed = IF job.n = 1 THEN s ELSE file.wallet.seed
    BY <2>1 DEF SeedIs, FileIs
  <2>9. mem'.pool = mem.pool
    BY <2>1 DEF MemIs
  <2>3. DOMAIN mem.pool = {} /\ DOMAIN file.wallet.pool = {} /\ file.cseed = None
        /\ Range(mem.pool) = {} /\ Range(file.wallet.pool) = {}
    <3>1. DOMAIN mem.pool = {} /\ DOMAIN file.wallet.pool = {} /\ file.cseed = None
      BY <1>2, <1>3, <2>1 DEF PoolCovered, HandCovered, Installing
    <3> QED
      BY <3>1 DEF Range
  <2>4. file'.wallet.seed = s
    <3>1. job.n # 1 => job.n > 1
      BY <2>1
    <3>2. job.n > 1 => file.wallet.seed = s
      BY <1>3, <2>1 DEF HandCovered
    <3> QED
      BY <2>2, <3>1, <3>2
  <2>5. FileCovered(file)' /\ bare' = {}
    BY <1>2, <1>3, <2>2, <2>3 DEF FileCovered
  <2> HIDE DEF s
  <2>6. CASE job.n < 5 /\ UNCHANGED mem /\ JobIs("seed", job.then, job.key, job.n + 1, job.out)
    <3>1. job'.pc = "seed" /\ job'.n > 1 /\ job'.key = job.key /\ job'.then = job.then /\ job'.out = job.out
      BY <2>1, <2>6 DEF JobIs
    <3>2. SeedsAgree'
      BY <3>1 DEF SeedsAgree
    <3>3. PoolCovered'
      BY <2>2, <2>3, <2>9, <3>1 DEF PoolCovered
    <3>4. HandCovered'
      BY <1>3, <1>5, <2>1, <2>2, <2>3, <2>4, <3>1 DEF HandCovered, Filling, Installing, s
    <3> QED
      BY <2>5, <3>1, <3>2, <3>3, <3>4 DEF Covers
  <2>7. CASE job.n = 5 /\ JobAt("default")
             /\ MemIs(mem.keys, mem.pool, s, "bip44", [recv |-> 1, change |-> 0, legacy |-> 0])
    <3>1. job'.pc = "default" /\ job'.key = job.key /\ job'.then = job.then /\ mem'.seed = s
      BY <2>1, <2>7 DEF JobAt, JobIs, MemIs
    <3>2. SeedsAgree'
      BY <2>2, <2>3, <2>4, <3>1 DEF SeedsAgree, SeedOn
    <3>3. PoolCovered'
      BY <2>2, <2>3, <2>9, <3>1 DEF PoolCovered
    <3>4. HandCovered'
      BY <1>3, <1>5, <2>1, <2>2, <2>3, <3>1 DEF HandCovered, Filling, Installing
    <3> QED
      BY <2>5, <3>1, <3>2, <3>3, <3>4 DEF Covers
  <2> QED
    BY <2>1, <2>6, <2>7
<1>9. CASE AddDefaultKey
  <2>1. /\ job.pc = "default" /\ SameSeeds /\ SamePools
        /\ \/ JobAt("defaultkey") /\ UNCHANGED rst
           \/ Refusal
    BY <1>1, <1>2, <1>9, AddDefaultEffect
       DEF SameSeeds, SamePools, KeyStored, KeyRefused, MemKeys, FileKeys, MemIs, FileIs
  <2>2. PoolCovered' /\ HandCovered' /\ Running'
    BY <1>2, <1>3, <1>5, <2>1
       DEF PoolCovered, HandCovered, SameSeeds, SamePools, Refusal, JobIdle, JobAt, JobIs, Filling, Installing,
           Searching
  <2> QED
    BY <1>4, <2>1, <2>2
<1>10. CASE SetDefaultKey
  <2>1. /\ job.pc = "defaultkey" /\ SameSeeds /\ SamePools
        /\ \/ job.then = "restore" /\ JobIdle
           \/ job.then = "idle" /\ JobAt("fill") /\ UNCHANGED rst
    BY <1>1, <1>2, <1>10, SetDefaultEffect DEF SameSeeds, SamePools, FileKeys, MemIs, FileIs
  <2>2. PoolCovered' /\ HandCovered' /\ Running'
    BY <1>2, <1>3, <1>5, <2>1
       DEF PoolCovered, HandCovered, SameSeeds, SamePools, JobIdle, JobAt, JobIs, Filling, Installing, Searching
  <2> QED
    BY <1>4, <2>1, <2>2
<1> QED
  BY <1>6, <1>7, <1>8, <1>9, <1>10

LEMMA SearchCovers ==
  ASSUME TypeInv, Covers, RestoreStep
  PROVE  Covers'
<1> USE DEF ghosts
<1>1. JobOK /\ RstOK /\ rst.at \in Searching /\ Running /\ job.then \in {"none", "change"}
  <2>1. rst.at \in Searching
    BY DEF RestoreStep, RestoreKey, RestoreCount, RestoreWriteNext, RestoreLegacyKey, RestoreScan,
           RestoreFinish, Searching
  <2> QED
    BY <2>1 DEF TypeInv, RstOK
<1>2. job.pc \notin Installing
  BY <1>1 DEF JobOK
<1>3. PoolCovered /\ HandCovered
  BY DEF Covers
<1>4. CASE UNCHANGED job
  <2>1. SameSeeds /\ SamePools
    <3>1. ASSUME NEW b \in {"recv", "change"}, RestoreKey(b)
          PROVE  SameSeeds /\ SamePools
      BY <3>1, RestoreKeyEffect
         DEF SameSeeds, SamePools, KeyStored, KeyRefused, MemKeys, FileKeys, MemIs, FileIs
    <3>2. ASSUME NEW b \in {"recv", "change"}, RestoreCount(b) \/ RestoreWriteNext(b)
          PROVE  SameSeeds /\ SamePools
      BY <3>2, RestoreCountEffect, RestoreWriteNextEffect
         DEF SameSeeds, SamePools, MemNext, FileNext, MemIs, FileIs
    <3>3. CASE RestoreLegacyKey
      BY <3>3, RestoreLegacyEffect DEF SameSeeds, SamePools, FileKeys, MemIs, FileIs
    <3>4. CASE RestoreScan
      BY <3>4, RestoreScanEffect DEF SameSeeds, SamePools, MemNext, FileNext, MemIs, FileIs
    <3>5. CASE RestoreFinish
      <4>1. job.pc = "idle" /\ job'.pc = "fill"
        BY <3>5, RestoreFinishEffect DEF JobIs
      <4> QED
        BY <1>4, <4>1
    <3> QED
      BY <3>1, <3>2, <3>3, <3>4, <3>5 DEF RestoreStep
  <2>2. PoolCovered' /\ HandCovered' /\ Running'
    BY <1>1, <1>2, <1>3, <1>4, <2>1 DEF PoolCovered, HandCovered, SameSeeds, SamePools, Installing
  <2> QED
    BY <1>1, <1>2, <2>1, <2>2, SeedsStay DEF Covers, Installing
<1>5. CASE RestoreFinish
  <2>1. /\ MemPool(<<>>) /\ UNCHANGED <<file, locked, bare>> /\ job'.pc = "fill" /\ job'.then = "restored"
        /\ rst'.at = "filling"
    BY <1>5, RestoreFinishEffect DEF JobIs, RstAt
  <2>2. SameSeeds /\ DOMAIN mem'.pool = {} /\ Range(mem'.pool) = {}
    BY <2>1, EmptyPool DEF SameSeeds, MemPool, MemIs
  <2>3. DOMAIN file.wallet.pool = {}
    BY <1>1, <1>3 DEF PoolCovered
  <2>4. PoolCovered' /\ HandCovered' /\ Running'
    BY <2>1, <2>2, <2>3 DEF PoolCovered, HandCovered, Filling, Installing, Searching
  <2>5. FileCovered(file)'
    BY <2>1 DEF Covers, FileCovered, SeedOn
  <2> QED
    BY <1>1, <1>2, <2>2, <2>4, <2>5, SeedsStay DEF Covers, Installing
<1>6. RestoreFinish \/ UNCHANGED job
  BY DEF RestoreStep, RestoreKey, RestoreCount, RestoreWriteNext, RestoreLegacyKey, RestoreScan
<1> QED
  BY <1>4, <1>5, <1>6

LEMMA LifeCovers ==
  ASSUME TypeInv, StoredInv, Covers,
         \/ EncryptWallet \/ InstallEncrypted \/ BackupWallet \/ Crash \/ Lose \/ CreateNewWallet \/ CreationFails
         \/ \E unlock \in BOOLEAN : LoadWallet(unlock)
  PROVE  Covers'
<1> USE DEF ghosts
<1>1. /\ Blank.seed = None /\ Range(Blank.pool) = {} /\ DOMAIN Blank.pool = {}
      /\ NoFile.wallet = Blank /\ NoFile.cseed = None
  BY EmptyPool DEF Blank, NoFile
<1>2. FileCovered(NoFile)
  BY <1>1 DEF FileCovered
<1>3. FileCovered(file) /\ bare = {}
  BY DEF Covers
<1>4. ASSUME Ends, FileCovered(file)', UNCHANGED bare
      PROVE  Covers'
  <2>1. job'.pc = "down" /\ job'.then = "none" /\ rst'.at = "off"
    BY <1>4, EndsEffect DEF JobIs
  <2> QED
    BY <1>3, <1>4, <2>1 DEF Covers, SeedsAgree, PoolCovered, HandCovered, Filling, Installing, Searching
<1>5. CASE EncryptWallet
  <2>1. /\ spare' = Encrypted /\ file' = NoFile /\ UNCHANGED <<bare, rst>> /\ rst.at = "off"
        /\ job' = [Idle EXCEPT !.pc = "swap"]
    BY <1>5 DEF EncryptWallet
  <2>2. job'.pc = "swap" /\ job'.then = "none"
    BY <2>1 DEF Idle
  <2>3. FileCovered(Encrypted)
    <3> DEFINE w == Encrypted.wallet
    <3>1. /\ w.seed = None /\ Encrypted.cseed = mem.seed /\ Encrypted.enc = TRUE
          /\ DOMAIN w.pool = 1 .. KEYPOOL_SIZE
          /\ \A i \in 1 .. KEYPOOL_SIZE :
               w.pool[i] = IF HaveHDSeed THEN Key(Counter("receive"), mem.seed, mem.next.legacy + i - 1)
                           ELSE Random(made + i - 1)
      BY EncryptedOK
    <3>2. CASE mem.seed = None
      BY <3>1, <3>2 DEF FileCovered, SeedOn
    <3>3. CASE mem.seed # None
      <4>1. \A i \in DOMAIN w.pool : SeedOf(w.pool[i]) = mem.seed
        BY <3>1, <3>3, KeySeeds DEF HaveHDSeed
      <4> HIDE DEF w
      <4>2. \A k \in Range(w.pool) : SeedOf(k) = mem.seed
        BY <4>1 DEF Range
      <4> QED
        BY <3>1, <3>3, <4>2 DEF FileCovered, SeedOn, w
    <3> QED
      BY <3>2, <3>3
  <2> QED
    BY <1>2, <1>3, <2>1, <2>2, <2>3
       DEF Covers, SeedsAgree, PoolCovered, HandCovered, Filling, Installing, Searching
<1>6. CASE InstallEncrypted
  BY <1>4, <1>6 DEF InstallEncrypted, Covers
<1>7. CASE Crash
  BY <1>3, <1>4, <1>7 DEF Crash, FileCovered, SeedOn
<1>8. CASE Lose
  BY <1>2, <1>4, <1>8 DEF Lose
<1>9. CASE BackupWallet
  <2>1. UNCHANGED <<mem, locked, file, spare, job, rst, bare>>
    BY <1>9 DEF BackupWallet
  <2> QED
    BY <2>1 DEF Covers, FileCovered, SeedOn, SeedsAgree, PoolCovered, HandCovered
<1>10. CASE CreateNewWallet
  <2>1. /\ mem'.pool = <<>> /\ mem'.seed = None /\ file'.cseed = None
        /\ file'.wallet.pool = <<>> /\ file'.wallet.seed = None
        /\ UNCHANGED <<bare, rst>> /\ job.pc = "down" /\ job'.pc = "idle" /\ job'.then = "none"
    BY <1>10, CreateEffect DEF MemIs, JobIdle, JobIs
  <2>2. rst.at \notin Searching
    BY <2>1 DEF TypeInv, RstOK
  <2> QED
    BY <1>3, <2>1, <2>2, EmptyPool
       DEF Covers, FileCovered, SeedOn, SeedsAgree, PoolCovered, HandCovered, Filling, Installing
<1>12. CASE CreationFails
  <2>1. /\ file'.cseed = None /\ file'.wallet.seed = None /\ job.pc = "down"
        /\ UNCHANGED <<mem, job, rst, bare>>
    BY <1>12, FailsEffect
  <2>2. rst.at \notin Searching /\ job.then = "none"
    BY <2>1 DEF TypeInv, RstOK, JobOK
  <2> QED
    BY <1>3, <2>1, <2>2
       DEF Covers, FileCovered, SeedOn, SeedsAgree, PoolCovered, HandCovered, Filling, Installing
<1>11. ASSUME NEW unlock \in BOOLEAN, LoadWallet(unlock)
       PROVE  Covers'
  <2>1. /\ mem'.pool = file.wallet.pool
        /\ mem'.seed = IF unlock /\ file.cseed # None THEN file.cseed ELSE file.wallet.seed
        /\ locked' = (file.enc /\ ~ unlock) /\ UNCHANGED <<file, spare, bare, rst>>
        /\ job.pc = "down" /\ job'.pc = "idle" /\ job'.then = "none"
    BY <1>11, LoadEffect DEF MemIs, JobIdle, JobIs
  <2>2. rst.at \notin Searching
    BY <2>1 DEF TypeInv, RstOK
  <2>3. mem'.seed = IF locked' /\ file.cseed # None THEN None ELSE SeedOn(file)
    BY <1>3, <2>1 DEF FileCovered, SeedOn
  <2>4. PoolCovered' /\ SeedsAgree' /\ FileCovered(file)'
    BY <1>3, <2>1, <2>2, <2>3 DEF FileCovered, SeedOn, SeedsAgree, PoolCovered
  <2> QED
    BY <1>3, <2>1, <2>4 DEF Covers, HandCovered, Filling, Installing
<1> QED
  BY <1>5, <1>6, <1>7, <1>8, <1>9, <1>10, <1>11, <1>12

\* A refused write and a phrase over another stay on record.
LEMMA CleanBefore ==
  ASSUME TypeInv, Next, Clean'
  PROVE  Clean
<1> USE DEF ghosts
<1>1. fails \in Nat
  BY DEF TypeInv
<1>2. ASSUME Kept \/ Lost, blame \subseteq blame'
      PROVE  Clean
  BY <1>1, <1>2 DEF Clean, Kept, Lost
<1>3. CASE GetKeyFromPool \/ DeriveNextHDChangeKey \/ TopUpKeyPool \/ RereadCounter
           \/ \E coin \in BOOLEAN : Give(coin)
  BY <1>2, <1>3 DEF GetKeyFromPool, DeriveNextHDChangeKey, TopUpKeyPool, RereadCounter, Give, Kept
<1>4. CASE DeriveNext
  BY <1>2, <1>4, DeriveNextEffect DEF KeyStored, KeyRefused
<1>5. CASE AdvanceCounter \/ RandomKey \/ GenerateNewKey \/ WritePool
  BY <1>2, <1>5, AdvanceEffect, RandomKeyEffect, GenerateEffect, WritePoolEffect DEF KeyStored, KeyRefused
<1>6. CASE TakeFromPool
  BY <1>2, <1>6, TakeEffect
<1>7. CASE ClearKeyPoolRecords
  BY <1>2, <1>7, ClearEffect DEF Refusal
<1>8. CASE WriteSeed
  BY <1>2, <1>8, WriteSeedEffect DEF Refusal
<1>9. CASE AddDefaultKey
  BY <1>2, <1>9, AddDefaultEffect DEF KeyStored, KeyRefused, Refusal
<1>10. CASE SetDefaultKey
  BY <1>2, <1>10, SetDefaultEffect DEF Refusal
<1>11. CASE \E s \in Seeds : NewPhrase(s) \/ RestoreFromPhrase(s)
  BY <1>2, <1>11 DEF NewPhrase, RestoreFromPhrase, Kept
<1>12. CASE RestoreStep
  <2>1. ASSUME NEW b \in {"recv", "change"}, RestoreKey(b)
        PROVE  Clean
    BY <1>2, <2>1, RestoreKeyEffect DEF KeyStored, KeyRefused
  <2>2. ASSUME NEW b \in {"recv", "change"}, RestoreCount(b) \/ RestoreWriteNext(b)
        PROVE  Clean
    BY <1>2, <2>2, RestoreCountEffect, RestoreWriteNextEffect
  <2>3. CASE RestoreLegacyKey
    BY <1>2, <2>3, RestoreLegacyEffect
  <2>4. CASE RestoreScan
    BY <1>2, <2>4, RestoreScanEffect
  <2>5. CASE RestoreFinish
    BY <1>2, <2>5, RestoreFinishEffect
  <2> QED
    BY <1>12, <2>1, <2>2, <2>3, <2>4, <2>5 DEF RestoreStep
<1>14. CASE CreateNewWallet \/ CreationFails
  BY <1>2, <1>14, CreateEffect, FailsEffect
<1>13. CASE EncryptWallet \/ InstallEncrypted \/ BackupWallet \/ Crash \/ Lose
            \/ \E unlock \in BOOLEAN : LoadWallet(unlock)
  BY <1>2, <1>13 DEF EncryptWallet, InstallEncrypted, BackupWallet, Crash, Lose, LoadWallet, Kept
<1> QED
  BY <1>3, <1>4, <1>5, <1>6, <1>7, <1>8, <1>9, <1>10, <1>11, <1>12, <1>13, <1>14
     DEF Next, HolderStep

LEMMA NextCovers == TypeInv /\ StoredInv /\ PhraseInv /\ [Next]_vars => PhraseInv'
<1> SUFFICES ASSUME TypeInv, StoredInv, PhraseInv, [Next]_vars, Clean'
             PROVE  Covers'
  BY DEF PhraseInv, Clean, Covers
<1>1. CASE Next
  <2>1. Clean /\ Covers /\ fails' = 0
    BY <1>1, CleanBefore DEF PhraseInv, Clean, Covers
  <2> QED
    BY <1>1, <2>1, PoolCovers, InstallCovers, SearchCovers, LifeCovers DEF Next, HolderStep
<1>2. CASE UNCHANGED vars
  BY <1>2 DEF vars, ghosts, PhraseInv, Clean, Covers, FileCovered, SeedOn, SeedsAgree, PoolCovered, HandCovered
<1> QED
  BY <1>1, <1>2

LEMMA InitCovers == Init => PhraseInv
<1> SUFFICES ASSUME Init PROVE Covers
  BY DEF PhraseInv, Covers
<1>1. PICK plan \in Plans : file = [NoFile EXCEPT !.wallet = StartWallet(plan.start)]
  BY DEF Init
<1>2. plan.start \in {"fresh", "legacy"}
  BY KeysAssumption
<1>3. job.pc = "down" /\ job.then = "none" /\ rst.at = "off" /\ bare = {}
  BY DEF Init, Idle, Resting
<1> DEFINE w == StartWallet(plan.start)
<1>4. file.wallet = w /\ file.cseed = None
  BY <1>1 DEF NoFile
<1>5. \A k \in Range(w.pool) : w.seed # None => SeedOf(k) = w.seed
  <2>1. CASE plan.start = "fresh"
    BY <2>1 DEF StartWallet, Blank
  <2>2. CASE plan.start = "legacy"
    <3> DEFINE s == CHOOSE s \in Seeds : TRUE
    <3>1. w.seed = s /\ w.pool = [i \in 2 .. KEYPOOL_SIZE + 1 |-> Key("legacy", s, i - 1)]
      BY <2>2 DEF StartWallet, Blank
    <3> HIDE DEF s, w
    <3> QED
      BY <3>1, KeySeeds DEF Range
  <2> QED
    BY <1>2, <2>1, <2>2
<1>6. FileCovered(file)
  BY <1>4, <1>5 DEF FileCovered, SeedOn
<1> QED
  BY <1>3, <1>6 DEF Covers, SeedsAgree, PoolCovered, HandCovered, Filling, Installing, Searching

\* Once the wallet has a phrase, every key it gives out can be derived from it,
\* however often the process ends within SetHDSeedFromMnemonic: the old pool is
\* gone before the first record of the new seed is written.
THEOREM PhraseCoversCorrect == Spec => []PhraseCovers
<1>1. TypeInv /\ StoredInv /\ PhraseInv /\ [Next]_vars => (TypeInv /\ StoredInv /\ PhraseInv)'
  BY NextTypes, NextStored, NextCovers
<1>2. PhraseInv => PhraseCovers
  BY DEF PhraseInv, PhraseCovers
<1> QED
  BY <1>1, <1>2, InitOK, InitCovers, PTL DEF Spec
----------------------------------------------------------------------------
(* BackupInv is inductive: a backup is good for the keys of its pool.      *)

UpTo(D, t) == {i \in D : i <= t}

\* The backup accounts for the keys of the pool up to index t, and they last
\* for the draws it must cover; the parts for the file and for memory.
AccountsFor(f, t) == \A i \in UpTo(DOMAIN f, t) : f[i] \in bak.keys \cup unsaved
FileLasts(t) ==
  /\ t \in DOMAIN file.wallet.pool /\ AccountsFor(file.wallet.pool, t)
  /\ Cardinality(UpTo(DOMAIN file.wallet.pool, t)) >= bak.left
MemLasts(t) ==
  /\ t \in DOMAIN mem.pool /\ AccountsFor(mem.pool, t)
  /\ Cardinality(UpTo(DOMAIN mem.pool \cap DOMAIN file.wallet.pool, t)) >= bak.left
Lasts(t) == FileLasts(t) /\ (Running => MemLasts(t))
BakOK == missed \subseteq unsaved /\ bak \in [keys : {bak.keys}, left : Nat]
Replacing == job.pc \in Installing \cup {"swap"} \/ rst.at # "off"

LEMMA BackupParts ==
  BackupInv <=> /\ BakOK /\ (Replacing => bak.left = 0)
                /\ bak.left > 0 => \E t : Lasts(t)
BY DEF BackupInv, BakOK, Replacing, Lasts, FileLasts, MemLasts, AccountsFor, UpTo

\* What a step that leaves the backup and the pools alone keeps.
LEMMA BackupStays ==
  ASSUME BackupInv, UNCHANGED <<bak, missed>>, unsaved \subseteq unsaved',
         bak.left = 0 \/ (SamePools /\ (Running' => Running) /\ (Replacing' => Replacing))
  PROVE  BackupInv'
<1>1. BakOK' /\ (Replacing' => bak'.left = 0)
  BY BackupParts DEF BakOK
<1>2. CASE bak.left = 0
  BY <1>1, <1>2 DEF BackupInv, BakOK, Replacing
<1>3. CASE SamePools /\ (Running' => Running)
  <2>1. ASSUME NEW t, Lasts(t) PROVE Lasts(t)'
    BY <1>3, <2>1 DEF Lasts, FileLasts, MemLasts, AccountsFor, SamePools
  <2> QED
    BY <1>1, <2>1, BackupParts DEF BackupInv, BakOK, Replacing, Lasts, FileLasts, MemLasts, AccountsFor, UpTo
<1> QED
  BY <1>2, <1>3
\* The step that draws a key: the oldest one, and t itself is the last.
LEMMA TakeLasts ==
  ASSUME TypeInv, BackupInv, TakeFromPool
  PROVE  BackupInv'
<1>1. /\ PoolOK(mem.pool) /\ PoolOK(file.wallet.pool)
      /\ DOMAIN mem.pool \subseteq Nat /\ DOMAIN file.wallet.pool \subseteq Nat
  BY DEF TypeInv, WalletOK, FileOK, PoolOK, PoolType
<1>2. job.pc = "take" /\ UNCHANGED <<rst, unsaved>> /\ job'.pc = "fill"
  BY TakeEffect DEF JobIs
<1>3. PICK i \in DOMAIN mem.pool :
        /\ \A j \in DOMAIN mem.pool : i <= j
        /\ MemPool(Drop(mem.pool, i))
        /\ FilePool(Drop(file.wallet.pool, i)) \/ UNCHANGED file
        /\ bak' = [bak EXCEPT !.left = IF @ > 0 THEN @ - 1 ELSE 0]
        /\ missed' = IF bak.left > 0 /\ mem.pool[i] \notin bak.keys
                       THEN missed \cup {mem.pool[i]} ELSE missed
  BY TakeEffect
<1>4. \A f : PoolOK(f) => /\ DOMAIN Drop(f, i) = DOMAIN f \ {i}
                          /\ \A j \in DOMAIN f \ {i} : Drop(f, i)[j] = f[j]
  BY DropPool
<1>5. BakOK /\ (Replacing => bak.left = 0)
  BY BackupParts
<1>6. bak'.keys = bak.keys /\ bak'.left = (IF bak.left > 0 THEN bak.left - 1 ELSE 0)
      /\ bak' \in [keys : {bak'.keys}, left : Nat]
  BY <1>3, <1>5 DEF BakOK
<1>7. ASSUME NEW t, bak.left > 0, Lasts(t)
      PROVE  mem.pool[i] \in bak.keys \cup unsaved
  <2>1. t \in DOMAIN mem.pool /\ AccountsFor(mem.pool, t)
    BY <1>2, <1>7 DEF Lasts, MemLasts
  <2> QED
    BY <1>3, <2>1 DEF AccountsFor, UpTo
<1>8. BakOK'
  BY <1>2, <1>3, <1>5, <1>6, <1>7, BackupParts DEF BakOK
<1>9. Replacing' => bak'.left = 0
  <2>1. Replacing' => Replacing
    BY <1>2 DEF Replacing, Installing
  <2> HIDE DEF Replacing
  <2> QED
    BY <1>5, <1>6, <2>1
<1>10. ASSUME NEW t, bak'.left > 0, Lasts(t)
       PROVE  Lasts(t)'
  <2> DEFINE F == DOMAIN file.wallet.pool
             M == DOMAIN mem.pool
             S == UpTo(M \cap F, t)
  <2>1. FileLasts(t) /\ MemLasts(t)
    BY <1>2, <1>10 DEF Lasts
  <2>2. /\ \A D : IsFiniteSet(D) => IsFiniteSet(UpTo(D, t))
    BY FS_Subset DEF UpTo
  <2>3. IsFiniteSet(S) /\ IsFiniteSet(UpTo(F, t)) /\ IsFiniteSet(M \cap F)
    <3>1. IsFiniteSet(M) /\ IsFiniteSet(F) /\ IsFiniteSet(M \cap F)
      BY <1>1, FS_Intersection DEF PoolOK
    <3> QED
      BY <2>2, <3>1
  <2>4. bak.left \in Nat /\ bak.left >= 2 /\ bak'.left = bak.left - 1
    BY <1>5, <1>6, <1>10 DEF BakOK
  <2>5. i # t
    <3>1. SUFFICES ASSUME i = t PROVE FALSE
      OBVIOUS
    <3>2. S \subseteq {t}
      <4>1. \A j \in S : j \in M /\ j <= t /\ j \in Nat
        BY <1>1 DEF UpTo
      <4>2. t \in Nat
        BY <1>1, <2>1 DEF FileLasts
      <4> QED
        <5>1. \A j \in S : i <= j /\ j <= i /\ j \in Nat /\ i \in Nat
          BY <1>3, <3>1, <4>1, <4>2
        <5> HIDE DEF S
        <5>2. \A j \in S : j = i
          BY <5>1
        <5> QED
          BY <3>1, <5>2
    <3>3. Cardinality(S) <= 1
      <4>1. IsFiniteSet({t}) /\ Cardinality({t}) = 1
        BY FS_Singleton
      <4> QED
        BY <3>2, <4>1, FS_Subset
    <3>4. Cardinality(S) >= bak.left /\ Cardinality(S) \in Nat
      BY <2>1, <2>3, FS_CardinalityType DEF MemLasts
    <3> QED
      BY <2>4, <3>3, <3>4
  <2>6. /\ mem'.pool = Drop(mem.pool, i)
        /\ file'.wallet.pool \in {Drop(file.wallet.pool, i), file.wallet.pool}
    BY <1>3 DEF MemPool, MemIs, FilePool, FileIs
  <2>7. /\ DOMAIN mem'.pool = M \ {i} /\ F \ {i} \subseteq DOMAIN file'.wallet.pool
        /\ DOMAIN file'.wallet.pool \subseteq F
    BY <1>1, <1>4, <2>6
  <2>8. /\ \A j \in DOMAIN mem'.pool : mem'.pool[j] = mem.pool[j]
        /\ \A j \in DOMAIN file'.wallet.pool : file'.wallet.pool[j] = file.wallet.pool[j]
    <3>1. /\ \A j \in DOMAIN Drop(mem.pool, i) : Drop(mem.pool, i)[j] = mem.pool[j]
          /\ \A j \in DOMAIN Drop(file.wallet.pool, i) :
               Drop(file.wallet.pool, i)[j] = file.wallet.pool[j]
      BY <1>1, <1>4
    <3> QED
      BY <2>6, <3>1
  <2>9. /\ UpTo(DOMAIN mem'.pool \cap DOMAIN file'.wallet.pool, t) = S \ {i}
        /\ S \ {i} \subseteq UpTo(DOMAIN file'.wallet.pool, t)
        /\ IsFiniteSet(UpTo(DOMAIN file'.wallet.pool, t))
    <3>1. DOMAIN mem'.pool \cap DOMAIN file'.wallet.pool = (M \cap F) \ {i}
      BY <2>7
    <3>2. UpTo(DOMAIN file'.wallet.pool, t) \subseteq UpTo(F, t)
      BY <2>7 DEF UpTo
    <3> QED
      BY <2>3, <2>7, <3>1, <3>2, FS_Subset DEF UpTo
  <2>10. Cardinality(S \ {i}) >= bak'.left
    <3>1. IsFiniteSet(S \ {i}) /\ Cardinality(S \ {i}) \in {Cardinality(S), Cardinality(S) - 1}
      BY <2>3, FS_RemoveElement
    <3>2. Cardinality(S) >= bak.left /\ Cardinality(S) \in Nat
      BY <2>1, <2>3, FS_CardinalityType DEF MemLasts
    <3> QED
      BY <2>4, <3>1, <3>2
  <2>11. Cardinality(UpTo(DOMAIN file'.wallet.pool, t)) >= bak'.left
    <3>1. Cardinality(S \ {i}) <= Cardinality(UpTo(DOMAIN file'.wallet.pool, t))
          /\ IsFiniteSet(S \ {i})
      BY <2>9, FS_Subset
    <3>2. Cardinality(S \ {i}) \in Nat /\ Cardinality(UpTo(DOMAIN file'.wallet.pool, t)) \in Nat
      BY <2>9, <3>1, FS_CardinalityType
    <3> QED
      BY <2>4, <2>10, <3>1, <3>2
  <2>12. t \in DOMAIN mem'.pool /\ t \in DOMAIN file'.wallet.pool
    BY <2>1, <2>5, <2>7 DEF FileLasts, MemLasts
  <2>13. AccountsFor(mem.pool, t)' /\ AccountsFor(file.wallet.pool, t)'
    <3>1. /\ \A j \in DOMAIN mem'.pool : j <= t => mem'.pool[j] \in bak.keys \cup unsaved
          /\ \A j \in DOMAIN file'.wallet.pool : j <= t => file'.wallet.pool[j] \in bak.keys \cup unsaved
      BY <2>1, <2>7, <2>8 DEF AccountsFor, UpTo, FileLasts, MemLasts
    <3> QED
      BY <1>2, <1>6, <3>1 DEF AccountsFor, UpTo
  <2>14. FileLasts(t)' /\ MemLasts(t)'
    <3> HIDE DEF S, M, F
    <3> QED
      BY <2>9, <2>10, <2>11, <2>12, <2>13 DEF FileLasts, MemLasts
  <2> QED
    BY <2>14 DEF Lasts
<1> QED
  <2>1. bak'.left > 0 => \E t : Lasts(t)'
    BY <1>5, <1>6, <1>10, BackupParts DEF BakOK
  <2> QED
    BY <1>8, <1>9, <2>1 DEF BackupInv, BakOK, Replacing, Lasts, FileLasts, MemLasts, AccountsFor, UpTo
\* A new key goes behind t, in memory and in the file.
LEMMA WriteLasts ==
  ASSUME TypeInv, BackupInv, WritePool
  PROVE  BackupInv'
<1>1. /\ PoolOK(mem.pool) /\ PoolOK(file.wallet.pool)
      /\ DOMAIN mem.pool \subseteq Nat /\ DOMAIN file.wallet.pool \subseteq Nat
      /\ JobOK /\ RstOK
  BY DEF TypeInv, WalletOK, FileOK, PoolOK, PoolType
<1>2. job.pc = "pool" /\ job.key \in KeySet /\ UNCHANGED <<bak, missed, unsaved>>
  BY WritePoolEffect DEF ghosts
<1>3. CASE UNCHANGED <<mem, file>> /\ Returned
  <2>1. (Running' => Running) /\ (Replacing' => Replacing)
    BY <1>1, <1>2, <1>3 DEF Returned, JobIdle, JobAt, JobIs, Replacing, Running, Installing
  <2> QED
    BY <1>2, <1>3, <2>1, BackupStays DEF SamePools
<1>4. ASSUME NEW i \in Nat \ {0}, \A j \in DOMAIN mem.pool : j < i,
             MemPool(Put(mem.pool, i, job.key)), FilePool(Put(file.wallet.pool, i, job.key)),
             JobAt("fill"), UNCHANGED rst
      PROVE  BackupInv'
  <2>1. \A f : PoolOK(f) => /\ DOMAIN Put(f, i, job.key) = DOMAIN f \cup {i}
                            /\ \A j \in DOMAIN f : j # i => Put(f, i, job.key)[j] = f[j]
    <3> SUFFICES ASSUME NEW f, PoolOK(f)
                 PROVE  /\ DOMAIN Put(f, i, job.key) = DOMAIN f \cup {i}
                        /\ \A j \in DOMAIN f : j # i => Put(f, i, job.key)[j] = f[j]
      OBVIOUS
    <3> QED
      BY <1>2, PutPool
  <2>2. /\ mem'.pool = Put(mem.pool, i, job.key)
        /\ file'.wallet.pool = Put(file.wallet.pool, i, job.key)
    BY <1>4 DEF MemPool, MemIs, FilePool, FileIs
  <2>3. /\ DOMAIN mem'.pool = DOMAIN mem.pool \cup {i}
        /\ DOMAIN file'.wallet.pool = DOMAIN file.wallet.pool \cup {i}
        /\ \A j \in DOMAIN mem.pool : j # i => mem'.pool[j] = mem.pool[j]
        /\ \A j \in DOMAIN file.wallet.pool : j # i => file'.wallet.pool[j] = file.wallet.pool[j]
    BY <1>1, <2>1, <2>2
  <2>4. Running /\ Running' /\ (Replacing' => Replacing)
    BY <1>2, <1>4 DEF JobAt, JobIs, Replacing, Running, Installing
  <2>5. BakOK' /\ (Replacing' => bak'.left = 0)
    BY <1>2, <2>4, BackupParts DEF BakOK
  <2>6. ASSUME NEW t, Lasts(t) PROVE Lasts(t)'
    <3>1. FileLasts(t) /\ MemLasts(t)
      BY <2>4, <2>6 DEF Lasts
    <3>2. t \in Nat /\ t < i
      BY <1>1, <1>4, <3>1 DEF MemLasts
    <3>3. \A D : D \subseteq Nat => UpTo(D \cup {i}, t) = UpTo(D, t)
      BY <3>2 DEF UpTo
    <3>4. /\ UpTo(DOMAIN mem'.pool, t) = UpTo(DOMAIN mem.pool, t)
          /\ UpTo(DOMAIN file'.wallet.pool, t) = UpTo(DOMAIN file.wallet.pool, t)
          /\ UpTo(DOMAIN mem'.pool \cap DOMAIN file'.wallet.pool, t)
               = UpTo(DOMAIN mem.pool \cap DOMAIN file.wallet.pool, t)
      <4>1. DOMAIN mem'.pool \cap DOMAIN file'.wallet.pool = (DOMAIN mem.pool \cap DOMAIN file.wallet.pool) \cup {i}
        BY <2>3
      <4> QED
        BY <1>1, <2>3, <3>3, <4>1
    <3>5. \A D : \A j \in UpTo(D, t) : j \in D /\ (D \subseteq Nat => j # i)
      BY <3>2 DEF UpTo
    <3>6. /\ \A j \in UpTo(DOMAIN mem.pool, t) : mem'.pool[j] = mem.pool[j]
          /\ \A j \in UpTo(DOMAIN file.wallet.pool, t) : file'.wallet.pool[j] = file.wallet.pool[j]
      BY <1>1, <2>3, <3>5
    <3>7. AccountsFor(mem.pool, t)' /\ AccountsFor(file.wallet.pool, t)'
      BY <1>2, <3>1, <3>4, <3>6 DEF AccountsFor, FileLasts, MemLasts
    <3> QED
      BY <1>2, <2>3, <3>1, <3>4, <3>7 DEF Lasts, FileLasts, MemLasts
  <2> QED
    BY <1>2, <2>5, <2>6, BackupParts
       DEF BackupInv, BakOK, Replacing, Lasts, FileLasts, MemLasts, AccountsFor, UpTo
<1> QED
  BY <1>3, <1>4, WritePoolEffect

\* A backup is made: of a file that has all keys of the pool, up to the newest
\* that is in the pool both in memory and on disk.
LEMMA BackupLasts ==
  ASSUME TypeInv, StoredInv, BackupInv, BackupWallet
  PROVE  BackupInv'
<1> DEFINE F == DOMAIN file.wallet.pool
           M == DOMAIN mem.pool
<1>1. /\ F \subseteq Nat /\ M \subseteq Nat /\ IsFiniteSet(F) /\ IsFiniteSet(M \cap F)
  <2>1. F \subseteq Nat /\ M \subseteq Nat /\ IsFiniteSet(F) /\ IsFiniteSet(M)
    BY DEF TypeInv, WalletOK, FileOK, PoolOK, PoolType
  <2> QED
    BY <2>1, FS_Intersection
<1>2. /\ job.pc = "idle" /\ rst.at = "off" /\ UNCHANGED <<mem, file, job, rst, missed, unsaved>>
      /\ bak' = [keys |-> file.wallet.keys, left |-> Cardinality(M \cap F)]
  BY DEF BackupWallet, Ask
<1>3. Cardinality(M \cap F) \in Nat
  BY <1>1, FS_CardinalityType
<1>4. BakOK' /\ ~ Replacing'
  BY <1>2, <1>3, BackupParts DEF BakOK, Replacing, Installing
<1>5. \A i \in M : mem.pool[i] \in file.wallet.keys \cup unsaved
  BY <1>2 DEF StoredInv, Range
<1>6. \A i \in F : file.wallet.pool[i] \in file.wallet.keys \cup unsaved
  BY <1>2 DEF StoredInv, Range
<1>7. ASSUME bak'.left > 0
      PROVE  \E t : Lasts(t)'
  <2>1. M \cap F # {}
    <3>1. Cardinality(M \cap F) > 0
      BY <1>2, <1>7
    <3>2. Cardinality({}) = 0
      BY FS_EmptySet
    <3>3. ~ (Cardinality({}) > 0)
      BY <3>2
    <3> HIDE DEF M, F
    <3> QED
      BY <3>1, <3>3
  <2>2. PICK t \in M \cap F : \A j \in M \cap F : j <= t
    BY <1>1, <2>1, GreatestNat
  <2>3. UpTo(M \cap F, t) = M \cap F
    BY <2>2 DEF UpTo
  <2>4. IsFiniteSet(UpTo(F, t)) /\ M \cap F \subseteq UpTo(F, t)
    BY <1>1, <2>2, FS_Subset DEF UpTo
  <2>5. Cardinality(UpTo(F, t)) >= Cardinality(M \cap F)
    BY <1>1, <1>3, <2>4, FS_Subset, FS_CardinalityType
  <2>6. AccountsFor(mem.pool, t)' /\ AccountsFor(file.wallet.pool, t)'
    BY <1>2, <1>5, <1>6 DEF AccountsFor, UpTo
  <2>7. bak'.left = Cardinality(M \cap F)
    BY <1>2
  <2>8. FileLasts(t)' /\ MemLasts(t)'
    BY <1>2, <1>3, <2>2, <2>3, <2>5, <2>6, <2>7 DEF FileLasts, MemLasts
  <2> QED
    BY <2>8 DEF Lasts
<1> QED
  BY <1>4, <1>7 DEF BackupInv, BakOK, Replacing, Lasts, FileLasts, MemLasts, AccountsFor, UpTo
\* The other steps of the holder of cs_keyPool leave the pools alone.
LEMMA PoolLasts ==
  ASSUME TypeInv, BackupInv,
         \/ GetKeyFromPool \/ DeriveNextHDChangeKey \/ TopUpKeyPool \/ DeriveNext \/ RereadCounter
         \/ AdvanceCounter \/ RandomKey \/ GenerateNewKey \/ \E coin \in BOOLEAN : Give(coin)
  PROVE  BackupInv'
<1> USE DEF ghosts
<1>1. JobOK /\ RstOK
  BY DEF TypeInv
<1>2. /\ UNCHANGED <<bak, missed>> /\ Running
      /\ job.pc \notin Installing \cup {"swap"}
  BY DEF GetKeyFromPool, DeriveNextHDChangeKey, TopUpKeyPool, DeriveNext, RereadCounter, AdvanceCounter,
         RandomKey, GenerateNewKey, Give, Ask, Running, Installing
<1>3. ASSUME unsaved \subseteq unsaved', SamePools, job'.pc \notin Installing \cup {"swap"},
             rst'.at # "off" => rst.at # "off"
      PROVE  BackupInv'
  BY <1>2, <1>3, BackupStays DEF Replacing
<1>4. CASE GetKeyFromPool \/ DeriveNextHDChangeKey \/ RereadCounter \/ \E coin \in BOOLEAN : Give(coin)
  <2>1. UNCHANGED <<unsaved, rst>> /\ SamePools
    BY <1>4 DEF GetKeyFromPool, DeriveNextHDChangeKey, RereadCounter, Give, SamePools
  <2>2. job'.pc \in {"fill", "derive", "count", "idle"}
    <3>1. CASE RereadCounter
      BY <1>1, <3>1 DEF RereadCounter, JobOK
    <3>2. CASE GetKeyFromPool
      BY <3>2 DEF GetKeyFromPool, Idle
    <3>3. CASE DeriveNextHDChangeKey
      BY <3>3 DEF DeriveNextHDChangeKey, Idle
    <3>4. CASE \E coin \in BOOLEAN : Give(coin)
      <4>1. job' = Idle
        BY <3>4 DEF Give
      <4> QED
        BY <4>1 DEF Idle
    <3> QED
      BY <1>4, <3>1, <3>2, <3>3, <3>4
  <2> QED
    BY <1>3, <2>1, <2>2 DEF Installing
<1>5. CASE TopUpKeyPool
  <2>1. /\ UNCHANGED unsaved /\ SamePools
        /\ Returned \/ (UNCHANGED rst /\ (JobAt("derive") \/ JobAt("random")))
    BY <1>1, <1>5, ReturnEffect, GoEffect DEF TopUpKeyPool, SamePools
  <2> QED
    BY <1>3, <2>1 DEF Returned, JobIdle, JobAt, JobIs, Installing
<1>6. CASE DeriveNext
  <2>1. /\ SamePools /\ UNCHANGED rst /\ unsaved \subseteq unsaved'
        /\ NotDerived \/ job'.pc \in {"reread", "count"}
    BY <1>6, DeriveNextEffect
       DEF JobIs, SamePools, KeyStored, KeyRefused, MemKeys, FileKeys, MemIs, FileIs
  <2> QED
    BY <1>3, <2>1 DEF NotDerived, JobIdle, JobAt, JobIs, Installing
<1>7. CASE AdvanceCounter
  <2>1. /\ SamePools /\ UNCHANGED <<rst, unsaved>>
        /\ NotDerived \/ job'.pc \in {"give", "pool"}
    BY <1>7, AdvanceEffect DEF JobAt, JobIs, SamePools, MemNext, FileNext, MemIs, FileIs
  <2> QED
    BY <1>3, <2>1 DEF NotDerived, JobIdle, JobAt, JobIs, Installing
<1>8. CASE RandomKey
  <2>1. /\ SamePools /\ unsaved \subseteq unsaved'
        /\ Returned \/ (job'.pc = "pool" /\ UNCHANGED rst)
    BY <1>8, RandomKeyEffect
       DEF JobIs, SamePools, KeyStored, KeyRefused, MemKeys, FileKeys, MemIs, FileIs
  <2> QED
    BY <1>3, <2>1 DEF Returned, JobIdle, JobAt, JobIs, Installing
<1>9. CASE GenerateNewKey
  <2>1. SamePools /\ unsaved \subseteq unsaved' /\ UNCHANGED rst /\ job'.pc \in {"give", "idle"}
    BY <1>9, GenerateEffect
       DEF JobIdle, JobIs, SamePools, KeyStored, KeyRefused, MemKeys, FileKeys, MemIs, FileIs
  <2> QED
    BY <1>3, <2>1 DEF Installing
<1> QED
  BY <1>4, <1>5, <1>6, <1>7, <1>8, <1>9

\* While a phrase is installed or searched no draw is covered any more.
LEMMA InstallLasts ==
  ASSUME TypeInv, BackupInv,
         \/ ClearKeyPoolRecords \/ WriteSeed \/ AddDefaultKey \/ SetDefaultKey \/ RestoreStep
         \/ \E s \in Seeds : NewPhrase(s) \/ RestoreFromPhrase(s)
  PROVE  BackupInv'
<1> USE DEF ghosts
<1>1. BakOK /\ (Replacing => bak.left = 0)
  BY BackupParts
<1>2. ASSUME Replacing, UNCHANGED <<bak, missed>>, unsaved \subseteq unsaved'
      PROVE  BackupInv'
  BY <1>1, <1>2, BackupStays
<1>3. CASE ClearKeyPoolRecords
  BY <1>2, <1>3 DEF ClearKeyPoolRecords, Replacing, Installing
<1>4. CASE WriteSeed
  BY <1>2, <1>4 DEF WriteSeed, Replacing, Installing
<1>5. CASE AddDefaultKey
  <2>1. job.pc = "default" /\ UNCHANGED <<bak, missed>> /\ unsaved \subseteq unsaved'
    BY <1>5, AddDefaultEffect DEF KeyStored, KeyRefused
  <2> QED
    BY <1>2, <2>1 DEF Replacing, Installing
<1>6. CASE SetDefaultKey
  BY <1>2, <1>6 DEF SetDefaultKey, Replacing, Installing
<1>7. CASE RestoreStep
  <2>1. ASSUME NEW b \in {"recv", "change"}, RestoreKey(b)
        PROVE  rst.at # "off" /\ UNCHANGED <<bak, missed>> /\ unsaved \subseteq unsaved'
    BY <2>1, RestoreKeyEffect DEF KeyStored, KeyRefused
  <2>2. ASSUME NEW b \in {"recv", "change"}, RestoreCount(b) \/ RestoreWriteNext(b)
        PROVE  rst.at # "off" /\ UNCHANGED <<bak, missed>> /\ unsaved \subseteq unsaved'
    BY <2>2 DEF RestoreCount, RestoreWriteNext
  <2>3. CASE RestoreLegacyKey
    BY <1>2, <2>3, RestoreLegacyEffect DEF Replacing
  <2>4. CASE RestoreScan \/ RestoreFinish
    BY <1>2, <2>4 DEF RestoreScan, RestoreFinish, Replacing
  <2> QED
    BY <1>2, <1>7, <2>1, <2>2, <2>3, <2>4 DEF RestoreStep, Replacing
<1>8. ASSUME NEW s \in Seeds, NewPhrase(s) \/ RestoreFromPhrase(s)
      PROVE  BackupInv'
  <2>1. bak' = [bak EXCEPT !.left = 0] /\ UNCHANGED <<missed, unsaved>>
    BY <1>8 DEF NewPhrase, RestoreFromPhrase, Install
  <2>2. BakOK' /\ bak'.left = 0
    BY <1>1, <2>1 DEF BakOK
  <2> QED
    BY <2>2 DEF BackupInv, BakOK
<1> QED
  BY <1>3, <1>4, <1>5, <1>6, <1>7, <1>8

LEMMA LifeLasts ==
  ASSUME TypeInv, StoredInv, BackupInv,
         \/ EncryptWallet \/ InstallEncrypted \/ Crash \/ Lose \/ CreateNewWallet \/ CreationFails
         \/ \E unlock \in BOOLEAN : LoadWallet(unlock)
  PROVE  BackupInv'
<1> USE DEF ghosts
<1>1. BakOK /\ (Replacing => bak.left = 0) /\ (bak.left > 0 => \E t : Lasts(t))
  BY BackupParts
<1>2. ASSUME bak'.left = 0, BakOK'
      PROVE  BackupInv'
  BY <1>2 DEF BackupInv, BakOK
<1>3. CASE EncryptWallet
  <2>1. bak' = [bak EXCEPT !.left = 0] /\ UNCHANGED <<missed, unsaved>>
    BY <1>3 DEF EncryptWallet
  <2> QED
    BY <1>1, <1>2, <2>1 DEF BakOK
<1>4. CASE InstallEncrypted
  <2>1. job.pc = "swap" /\ UNCHANGED <<bak, missed, unsaved>>
    BY <1>4 DEF InstallEncrypted
  <2> QED
    BY <1>1, <1>2, <2>1 DEF BakOK, Replacing
<1>5. CASE Lose
  <2>1. bak' = [keys |-> {}, left |-> 0] /\ UNCHANGED <<missed, unsaved>>
    BY <1>5 DEF Lose
  <2> QED
    BY <1>1, <1>2, <2>1 DEF BakOK
<1>6. CASE CreateNewWallet \/ CreationFails
  <2>1. file = NoFile /\ UNCHANGED <<bak, missed, unsaved>>
    BY <1>6, CreateEffect, FailsEffect
  <2>2. DOMAIN file.wallet.pool = {}
    BY <2>1, EmptyPool DEF NoFile, Blank
  <2>3. bak.left = 0
    BY <1>1, <2>2 DEF Lasts, FileLasts, BakOK
  <2> QED
    BY <1>1, <1>2, <2>1, <2>3 DEF BakOK
<1>7. ASSUME UNCHANGED <<file, bak, missed, unsaved>>, ~ Replacing',
             \/ ~ Running'
             \/ mem'.pool = file.wallet.pool
      PROVE  BackupInv'
  <2>1. ASSUME NEW t, Lasts(t) PROVE Lasts(t)'
    <3>1. FileLasts(t)'
      BY <1>7, <2>1 DEF Lasts, FileLasts, AccountsFor
    <3>2. ASSUME mem'.pool = file.wallet.pool PROVE MemLasts(t)'
      <4>1. DOMAIN mem'.pool \cap DOMAIN file'.wallet.pool = DOMAIN file.wallet.pool
        BY <1>7, <3>2
      <4> QED
        BY <1>7, <2>1, <3>2, <4>1 DEF Lasts, FileLasts, MemLasts, AccountsFor
    <3> QED
      BY <1>7, <3>1, <3>2 DEF Lasts
  <2> QED
    BY <1>1, <1>7, <2>1 DEF BackupInv, BakOK, Replacing, Lasts, FileLasts, MemLasts, AccountsFor, UpTo
<1>8. CASE Crash
  <2>1. UNCHANGED <<file, bak, missed, unsaved>> /\ job'.pc = "down" /\ rst'.at = "off"
    BY <1>8, EndsEffect DEF Crash, JobIs
  <2> QED
    BY <1>7, <2>1 DEF Replacing, Running, Installing
<1>9. ASSUME NEW unlock \in BOOLEAN, LoadWallet(unlock)
      PROVE  BackupInv'
  <2>1. UNCHANGED <<file, bak, missed, unsaved, rst>> /\ job'.pc = "idle" /\ job.pc = "down"
        /\ mem'.pool = file.wallet.pool
    BY <1>9, LoadEffect DEF JobIdle, JobIs, MemIs
  <2>2. rst.at = "off" \/ bak.left = 0
    BY <1>1 DEF Replacing
  <2>3. CASE rst.at = "off"
    BY <1>7, <2>1, <2>3 DEF Replacing, Installing
  <2>4. CASE bak.left = 0
    BY <1>1, <1>2, <2>1, <2>4 DEF BakOK
  <2> QED
    BY <2>2, <2>3, <2>4
<1> QED
  BY <1>3, <1>4, <1>5, <1>6, <1>8, <1>9

LEMMA NextLasts == TypeInv /\ StoredInv /\ BackupInv /\ [Next]_vars => BackupInv'
<1> SUFFICES ASSUME TypeInv, StoredInv, BackupInv, [Next]_vars PROVE BackupInv'
  OBVIOUS
<1>1. CASE Next
  BY <1>1, TakeLasts, WriteLasts, BackupLasts, PoolLasts, InstallLasts, LifeLasts DEF Next, HolderStep
<1>2. CASE UNCHANGED vars
  BY <1>2, BackupStays DEF vars, ghosts, SamePools, Running, Replacing
<1> QED
  BY <1>1, <1>2

\* A backup of the wallet covers the keys that were in the pool when it was
\* made (KEYPOOL_SIZE): through restarts, refused erasures and new keys, the
\* next draws are of these.
THEOREM BackupCoversCorrect == Spec => []BackupCovers
<1>1. Init => BackupInv
  BY DEF Init, BackupInv
<1>2. TypeInv /\ StoredInv /\ BackupInv /\ [Next]_vars => (TypeInv /\ StoredInv /\ BackupInv)'
  BY NextTypes, NextStored, NextLasts
<1>3. BackupInv => BackupCovers
  BY DEF BackupInv, BackupCovers
<1> QED
  BY <1>1, <1>2, <1>3, InitOK, PTL DEF Spec

----------------------------------------------------------------------------
(* Blame stays.                                                            *)

LEMMA BlameStays ==
  ASSUME TypeInv, Next
  PROVE  blame \subseteq blame'
<1> USE DEF ghosts
<1>1. CASE GetKeyFromPool \/ DeriveNextHDChangeKey \/ TopUpKeyPool \/ RereadCounter \/ DeriveNext
           \/ AdvanceCounter \/ RandomKey \/ WritePool \/ GenerateNewKey
           \/ \E coin \in BOOLEAN : Give(coin)
  BY <1>1 DEF GetKeyFromPool, DeriveNextHDChangeKey, TopUpKeyPool, RereadCounter, DeriveNext,
              AdvanceCounter, RandomKey, WritePool, GenerateNewKey, Give
<1>2. CASE TakeFromPool
  BY <1>2, TakeEffect
<1>3. CASE ClearKeyPoolRecords \/ WriteSeed \/ AddDefaultKey \/ SetDefaultKey
  BY <1>3, ClearEffect, WriteSeedEffect, AddDefaultEffect, SetDefaultEffect DEF Refusal
<1>4. CASE \E s \in Seeds : NewPhrase(s) \/ RestoreFromPhrase(s)
  BY <1>4 DEF NewPhrase, RestoreFromPhrase
<1>5. CASE RestoreStep
  BY <1>5 DEF RestoreStep, RestoreKey, RestoreCount, RestoreWriteNext, RestoreLegacyKey, RestoreScan,
              RestoreFinish
<1>6. CASE EncryptWallet \/ InstallEncrypted \/ BackupWallet \/ Crash \/ Lose \/ CreateNewWallet \/ CreationFails
           \/ \E unlock \in BOOLEAN : LoadWallet(unlock)
  BY <1>6 DEF EncryptWallet, InstallEncrypted, BackupWallet, Crash, Lose, CreateNewWallet, CreationFails,
              LoadWallet
<1> QED
  BY <1>1, <1>2, <1>3, <1>4, <1>5, <1>6 DEF Next, HolderStep
=============================================================================
