---------------------------- MODULE SearchProofs ----------------------------
(***************************************************************************)
(* Proofs about Keys: what a restore misses lies behind a long silence,    *)
(* for every plan and every depth of the search.                           *)
(***************************************************************************)
EXTENDS KeysProofs

----------------------------------------------------------------------------
(* KeysKnown is inductive: a random key is of no phrase, wherever it is.   *)

Proper(k) == k \in KeySet /\ (k[1] = "random" => SeedOf(k) = None)

LEMMA ProperKeys ==
  /\ \A n \in Nat : Proper(Random(n))
  /\ \A b \in Branches, s \in Seeds \cup {None}, i \in Nat : Proper(Key(b, s, i))
BY KeyTypes, KeySeeds DEF Proper, Branches

\* A step that adds no key but those of X, and takes the coins of known keys.
LEMMA KnownGrows ==
  ASSUME KeysKnown, NEW X, \A k \in X : Proper(k),
         mem'.keys \cup file'.wallet.keys \cup spare'.wallet.keys \cup aside' \cup unsaved' \cup paid'
           \subseteq KnownKeys \cup X,
         IsFiniteSet(paid'), got' \subseteq paid'
  PROVE  KeysKnown'
<1>1. KnownKeys' \subseteq KnownKeys \cup X
  BY DEF KnownKeys
<1>2. \A k \in KnownKeys : Proper(k)
  BY DEF KeysKnown, Proper
<1>3. \A k \in KnownKeys' : Proper(k)
  BY <1>1, <1>2
<1> QED
  BY <1>3 DEF KeysKnown, Proper

\* A step of the program that runs: coins stay, and at most one key is new.
LEMMA KnownAdds ==
  ASSUME KeysKnown, NEW k, Proper(k), UNCHANGED <<spare, aside, paid>>, got' \subseteq paid,
         mem'.keys \subseteq mem.keys \cup {k}, file'.wallet.keys \subseteq file.wallet.keys \cup {k},
         unsaved' \subseteq unsaved \cup {k}
  PROVE  KeysKnown'
<1>1. KnownKeys' \subseteq KnownKeys \cup {k}
  BY DEF KnownKeys
<1> QED
  BY <1>1 DEF KeysKnown, Proper

\* AddKey of a key, stored or refused.
LEMMA KnownKey ==
  ASSUME KeysKnown, NEW k, Proper(k), UNCHANGED <<spare, aside, paid, got>>,
         UNCHANGED <<mem, file, unsaved>> \/ KeyStored(k) \/ KeyRefused(k)
  PROVE  KeysKnown'
<1>1. /\ mem'.keys \subseteq mem.keys \cup {k} /\ file'.wallet.keys \subseteq file.wallet.keys \cup {k}
      /\ unsaved' \subseteq unsaved \cup {k}
  BY DEF KeyStored, KeyRefused, MemKeys, FileKeys, MemIs, FileIs
<1>2. got' \subseteq paid
  BY DEF KeysKnown
<1> QED
  BY <1>1, <1>2, KnownAdds

\* A step that leaves the keys where they are.
LEMMA KnownStay ==
  ASSUME KeysKnown, UNCHANGED <<spare, aside, paid, unsaved>>, mem'.keys = mem.keys,
         file'.wallet.keys = file.wallet.keys, got' = got \/ got' \subseteq paid
  PROVE  KeysKnown'
BY DEF KeysKnown, KnownKeys

LEMMA PoolKnown ==
  ASSUME TypeInv, StoredInv, KeysKnown,
         \/ GetKeyFromPool \/ DeriveNextHDChangeKey \/ TopUpKeyPool \/ DeriveNext \/ RereadCounter
         \/ AdvanceCounter \/ RandomKey \/ WritePool \/ TakeFromPool \/ GenerateNewKey
         \/ \E coin \in BOOLEAN : Give(coin)
  PROVE  KeysKnown'
<1> USE DEF ghosts
<1>1. CASE GetKeyFromPool \/ DeriveNextHDChangeKey \/ TopUpKeyPool \/ RereadCounter
  <2>1. UNCHANGED <<mem, file, spare, aside, paid, got, unsaved>>
    BY <1>1 DEF GetKeyFromPool, DeriveNextHDChangeKey, TopUpKeyPool, RereadCounter
  <2> QED
    BY <2>1, KnownStay
<1>2. CASE DeriveNext
  <2> DEFINE c == Counter(job.then)
             k == DeriveHDKey(job.then, mem.next[c])
  <2>1. Proper(k)
    BY CounterTypes, ProperKeys DEF TypeInv, DeriveHDKey
  <2>2. /\ UNCHANGED <<spare, aside, paid, got>>
        /\ UNCHANGED <<mem, file, unsaved>> \/ KeyStored(k) \/ KeyRefused(k)
    BY <1>2, DeriveNextEffect
  <2> HIDE DEF k
  <2> QED
    BY <2>1, <2>2, KnownKey
<1>3. CASE RandomKey \/ GenerateNewKey
  <2>1. /\ UNCHANGED <<spare, aside, paid, got>>
        /\ KeyStored(Random(made)) \/ KeyRefused(Random(made))
    BY <1>3, RandomKeyEffect, GenerateEffect
  <2>2. Proper(Random(made))
    BY ProperKeys DEF TypeInv
  <2> QED
    BY <2>1, <2>2, KnownKey
<1>4. CASE AdvanceCounter
  <2>1. UNCHANGED <<spare, aside, paid, got, unsaved>> /\ mem'.keys = mem.keys
        /\ file'.wallet.keys = file.wallet.keys
    BY <1>4, AdvanceEffect DEF MemNext, FileNext, MemIs, FileIs
  <2> QED
    BY <2>1, KnownStay
<1>5. CASE WritePool
  <2>1. UNCHANGED <<spare, aside, paid, got, unsaved>> /\ mem'.keys = mem.keys
        /\ file'.wallet.keys = file.wallet.keys
    BY <1>5, WritePoolEffect DEF MemPool, FilePool, MemIs, FileIs
  <2> QED
    BY <2>1, KnownStay
<1>6. CASE TakeFromPool
  <2>1. UNCHANGED <<spare, aside, paid, got, unsaved>> /\ mem'.keys = mem.keys
        /\ file'.wallet.keys = file.wallet.keys
    BY <1>6, TakeEffect DEF MemPool, FilePool, MemIs, FileIs
  <2> QED
    BY <2>1, KnownStay
<1>7. CASE \E coin \in BOOLEAN : Give(coin)
  <2>1. PICK coin \in BOOLEAN : Give(coin)
    BY <1>7
  <2>2. /\ UNCHANGED <<mem, file, spare, aside, unsaved>> /\ job.pc = "give"
        /\ \/ UNCHANGED <<paid, got>>
           \/ paid' = paid \cup {job.out} /\ got' = got \cup {job.out}
    BY <2>1 DEF Give
  <2>3. job.out \in KnownKeys
    BY <2>2 DEF StoredInv, KnownKeys
  <2>4. IsFiniteSet(paid \cup {job.out}) /\ got \subseteq paid /\ IsFiniteSet(paid)
    BY FS_AddElement DEF KeysKnown
  <2>5. KnownKeys' \subseteq KnownKeys
    BY <2>2, <2>3 DEF KnownKeys
  <2>6. IsFiniteSet(paid') /\ got' \subseteq paid'
    BY <2>2, <2>4
  <2> QED
    BY <2>5, <2>6 DEF KeysKnown
<1> QED
  BY <1>1, <1>2, <1>3, <1>4, <1>5, <1>6, <1>7

LEMMA InstallKnown ==
  ASSUME TypeInv, KeysKnown,
         \/ ClearKeyPoolRecords \/ WriteSeed \/ AddDefaultKey \/ SetDefaultKey
         \/ \E s \in Seeds : NewPhrase(s) \/ RestoreFromPhrase(s)
  PROVE  KeysKnown'
<1> USE DEF ghosts
<1>1. CASE \E s \in Seeds : NewPhrase(s) \/ RestoreFromPhrase(s)
  BY <1>1, NewPhraseEffect, KnownStay
<1>2. CASE ClearKeyPoolRecords
  <2>1. UNCHANGED <<spare, aside, paid, got, unsaved>> /\ mem'.keys = mem.keys
        /\ file'.wallet.keys = file.wallet.keys
    BY <1>2, ClearEffect DEF MemPool, FilePool, MemIs, FileIs
  <2> QED
    BY <2>1, KnownStay
<1>3. CASE WriteSeed
  <2>1. UNCHANGED <<spare, aside, paid, got, unsaved>> /\ mem'.keys = mem.keys
        /\ file'.wallet.keys = file.wallet.keys
    BY <1>3, WriteSeedEffect DEF SeedIs, MemIs, FileIs
  <2> QED
    BY <2>1, KnownStay
<1>4. CASE AddDefaultKey
  <2>1. /\ UNCHANGED <<spare, aside, paid, got>> /\ job.pc = "default"
        /\ UNCHANGED <<mem, file, unsaved>> \/ KeyStored(job.key) \/ KeyRefused(job.key)
    BY <1>4, AddDefaultEffect
  <2>2. Proper(job.key)
    BY <2>1, ProperKeys DEF TypeInv, JobOK, Installing, Branches
  <2> QED
    BY <2>1, <2>2, KnownKey
<1>5. CASE SetDefaultKey
  <2>1. UNCHANGED <<spare, aside, paid, got, unsaved>> /\ mem'.keys = mem.keys
        /\ file'.wallet.keys = file.wallet.keys
    BY <1>5, SetDefaultEffect DEF FileKeys, MemIs, FileIs
  <2> QED
    BY <2>1, KnownStay
<1> QED
  BY <1>1, <1>2, <1>3, <1>4, <1>5

LEMMA SearchKnown ==
  ASSUME TypeInv, KeysKnown, RestoreStep
  PROVE  KeysKnown'
<1> USE DEF ghosts
<1>0. got \subseteq paid
  BY DEF KeysKnown
<1>1. ASSUME NEW b \in {"recv", "change"}, RestoreKey(b)
      PROVE  KeysKnown'
  <2> DEFINE k == Key(b, mem.seed, mem.next[b])
  <2>1. Proper(k)
    <3>1. b \in Branches /\ mem.seed \in Seeds \cup {None} /\ mem.next \in [Branches -> Nat]
      BY DEF TypeInv, WalletOK, Branches
    <3> QED
      BY <3>1, ProperKeys
  <2>2. /\ UNCHANGED <<spare, aside, paid, got>>
        /\ \/ MemKeys(mem.keys \cup Unlocked(k)) /\ UNCHANGED <<file, unsaved>>
           \/ KeyStored(k) \/ KeyRefused(k)
    BY <1>1, RestoreKeyEffect
  <2> HIDE DEF k
  <2>3. CASE MemKeys(mem.keys \cup Unlocked(k)) /\ UNCHANGED <<file, unsaved>>
    BY <1>0, <2>1, <2>2, <2>3, KnownAdds DEF Unlocked, MemKeys, MemIs
  <2> QED
    BY <2>1, <2>2, <2>3, KnownKey
<1>2. ASSUME NEW b \in {"recv", "change"}, RestoreCount(b) \/ RestoreWriteNext(b)
      PROVE  KeysKnown'
  <2>1. UNCHANGED <<spare, aside, paid, got, unsaved>> /\ mem'.keys = mem.keys
        /\ file'.wallet.keys = file.wallet.keys
    BY <1>2, RestoreCountEffect, RestoreWriteNextEffect DEF MemNext, FileNext, MemIs, FileIs
  <2> QED
    BY <2>1, KnownStay
<1>3. CASE RestoreLegacyKey
  <2> DEFINE k == Key("legacy", mem.seed, rst.legacy)
  <2>1. Proper(k)
    BY ProperKeys DEF TypeInv, WalletOK, RstOK, Branches
  <2>2. /\ UNCHANGED <<spare, aside, paid, got>> /\ mem'.keys \subseteq mem.keys \cup {k}
        /\ file'.wallet.keys \subseteq file.wallet.keys \cup {k} /\ unsaved' \subseteq unsaved \cup {k}
    BY <1>3, RestoreLegacyEffect DEF Unlocked, MemIs, FileKeys, FileIs
  <2> HIDE DEF k
  <2> QED
    BY <1>0, <2>1, <2>2, KnownAdds
<1>4. CASE RestoreScan
  <2>1. UNCHANGED <<spare, aside, paid, unsaved>> /\ mem'.keys = mem.keys
        /\ file'.wallet.keys = file.wallet.keys /\ got' = got \cup (paid \cap mem.keys)
    BY <1>4, RestoreScanEffect DEF MemNext, FileNext, MemIs, FileIs
  <2> QED
    BY <1>0, <2>1, KnownStay
<1>5. CASE RestoreFinish
  <2>1. UNCHANGED <<spare, aside, paid, got, unsaved, file>> /\ mem'.keys = mem.keys
    BY <1>5, RestoreFinishEffect DEF MemPool, MemIs
  <2> QED
    BY <2>1, KnownStay
<1> QED
  BY <1>1, <1>2, <1>3, <1>4, <1>5 DEF RestoreStep

\* The new pool of an encrypted file.
LEMMA EncryptedKnown ==
  ASSUME TypeInv, KeysKnown
  PROVE  /\ Encrypted.wallet.keys = mem.keys \cup Range(Encrypted.wallet.pool)
         /\ \A k \in Range(Encrypted.wallet.pool) : Proper(k)
<1> DEFINE pool == Encrypted.wallet.pool
           n == mem.next.legacy
<1>1. /\ Encrypted.wallet.keys = mem.keys \cup Range(pool) /\ DOMAIN pool = 1 .. KEYPOOL_SIZE
      /\ \A i \in 1 .. KEYPOOL_SIZE :
           pool[i] = IF HaveHDSeed THEN Key(Counter("receive"), mem.seed, n + i - 1) ELSE Random(made + i - 1)
  BY EncryptedOK
<1>2. n \in Nat /\ made \in Nat /\ Counter("receive") \in Branches /\ mem.seed \in Seeds \cup {None}
  <2>1. mem.next \in [Branches -> Nat]
    BY DEF TypeInv, WalletOK
  <2> QED
    BY <2>1, CounterTypes DEF TypeInv, Branches
<1> HIDE DEF pool, n
<1>3. \A i \in 1 .. KEYPOOL_SIZE : n + i - 1 \in Nat /\ made + i - 1 \in Nat
  BY <1>2, KeysAssumption
<1>4. \A i \in 1 .. KEYPOOL_SIZE : Proper(pool[i])
  BY <1>1, <1>2, <1>3, ProperKeys
<1> QED
  BY <1>1, <1>4 DEF Range, pool

LEMMA LifeKnown ==
  ASSUME TypeInv, KeysKnown,
         \/ EncryptWallet \/ InstallEncrypted \/ BackupWallet \/ Crash \/ Lose \/ CreateNewWallet \/ CreationFails
         \/ \E unlock \in BOOLEAN : LoadWallet(unlock)
  PROVE  KeysKnown'
<1> USE DEF ghosts
<1>0. got \subseteq paid /\ IsFiniteSet(paid) /\ Blank.keys = {} /\ NoFile.wallet.keys = {}
  BY DEF KeysKnown, Blank, NoFile
<1>1. CASE EncryptWallet
  <2>1. /\ spare' = Encrypted /\ file' = NoFile /\ aside' = aside \cup file.wallet.keys
        /\ UNCHANGED <<mem, unsaved, paid, got>>
    BY <1>1 DEF EncryptWallet
  <2> DEFINE X == Range(Encrypted.wallet.pool)
  <2>2. spare'.wallet.keys = mem.keys \cup X /\ \A k \in X : Proper(k)
    BY <2>1, EncryptedKnown
  <2> HIDE DEF X
  <2> QED
    BY <1>0, <2>1, <2>2, KnownGrows DEF KnownKeys
<1>2. CASE InstallEncrypted \/ Crash
  <2>1. /\ mem'.keys = {} /\ UNCHANGED <<aside, unsaved, paid, got>>
        /\ \/ UNCHANGED <<file, spare>>
           \/ file' = spare /\ spare' = NoFile
    BY <1>0, <1>2 DEF InstallEncrypted, Crash, Ends
  <2>2. mem'.keys \cup file'.wallet.keys \cup spare'.wallet.keys \cup aside' \cup unsaved' \cup paid'
          \subseteq KnownKeys \cup {}
    BY <1>0, <2>1 DEF KnownKeys
  <2> QED
    BY <1>0, <2>1, <2>2, KnownGrows
<1>3. CASE Lose
  <2>1. /\ mem'.keys = {} /\ file' = NoFile /\ spare' = NoFile /\ aside' = {} /\ got' = {}
        /\ UNCHANGED <<unsaved, paid>>
    BY <1>0, <1>3 DEF Lose, Ends
  <2>2. mem'.keys \cup file'.wallet.keys \cup spare'.wallet.keys \cup aside' \cup unsaved' \cup paid'
          \subseteq KnownKeys \cup {}
    BY <1>0, <2>1 DEF KnownKeys
  <2> QED
    BY <1>0, <2>1, <2>2, KnownGrows
<1>4. CASE BackupWallet
  BY <1>4, KnownStay DEF BackupWallet
<1>5. CASE CreateNewWallet
  <2>1. /\ mem'.keys = {Random(made)} /\ file'.wallet.keys = {Random(made)} /\ got' = {}
        /\ UNCHANGED <<spare, aside, unsaved, paid>>
    BY <1>5, CreateEffect DEF MemIs
  <2>2. Proper(Random(made))
    BY ProperKeys DEF TypeInv
  <2> QED
    BY <1>0, <2>1, <2>2, KnownGrows DEF KnownKeys
<1>7. CASE CreationFails
  <2>1. /\ UNCHANGED <<mem, spare, aside, unsaved, paid>> /\ got' = {}
        /\ file'.wallet.keys \subseteq {Random(made)}
    BY <1>7, FailsEffect
  <2>2. Proper(Random(made))
    BY ProperKeys DEF TypeInv
  <2> QED
    BY <1>0, <2>1, <2>2, KnownAdds
<1>6. CASE \E unlock \in BOOLEAN : LoadWallet(unlock)
  <2>1. /\ mem'.keys = file.wallet.keys /\ UNCHANGED <<file, spare, aside, unsaved, paid, got>>
    BY <1>6, LoadEffect DEF MemIs
  <2>2. mem'.keys \cup file'.wallet.keys \cup spare'.wallet.keys \cup aside' \cup unsaved' \cup paid'
          \subseteq KnownKeys \cup {}
    BY <2>1 DEF KnownKeys
  <2> QED
    BY <1>0, <2>1, <2>2, KnownGrows
<1> QED
  BY <1>1, <1>2, <1>3, <1>4, <1>5, <1>6, <1>7

LEMMA NextKnown == TypeInv /\ StoredInv /\ KeysKnown /\ [Next]_vars => KeysKnown'
<1> SUFFICES ASSUME TypeInv, StoredInv, KeysKnown, [Next]_vars PROVE KeysKnown'
  OBVIOUS
<1>1. CASE Next
  BY <1>1, PoolKnown, InstallKnown, SearchKnown, LifeKnown DEF Next, HolderStep
<1>2. CASE UNCHANGED vars
  BY <1>2 DEF vars, ghosts, KeysKnown, KnownKeys
<1> QED
  BY <1>1, <1>2

----------------------------------------------------------------------------
(* Which steps may be taken while a restore works undisturbed.             *)

\* Nothing but a new restore makes a restore undisturbed.
LEMMA DisturbedStays ==
  ASSUME TypeInv, Next, Undisturbed', rst.at # "off"
  PROVE  Undisturbed
<1> USE DEF ghosts
<1>1. "during" \notin blame /\ RstOK
  BY BlameStays DEF Undisturbed, TypeInv
<1>2. rst' # Resting
  BY DEF Undisturbed, Resting
<1>3. SUFFICES rst'.fresh = rst.fresh /\ (rst'.whole => rst.whole)
  BY <1>1 DEF Undisturbed
<1>4. CASE UNCHANGED rst
  BY <1>4
<1>5. UNCHANGED rst \/ SetDefaultKey \/ RestoreStep
  <2>1. CASE GetKeyFromPool \/ DeriveNextHDChangeKey \/ RereadCounter \/ DeriveNext \/ AdvanceCounter
             \/ TakeFromPool \/ GenerateNewKey \/ \E coin \in BOOLEAN : Give(coin)
    BY <2>1 DEF GetKeyFromPool, DeriveNextHDChangeKey, RereadCounter, DeriveNext, AdvanceCounter,
                TakeFromPool, GenerateNewKey, Give
  <2>2. CASE TopUpKeyPool \/ RandomKey \/ WritePool
    <3>1. Return => UNCHANGED rst
      BY <1>2 DEF Return
    <3> QED
      BY <2>2, <3>1 DEF TopUpKeyPool, RandomKey, AddKey, WritePool
  <2>3. CASE ClearKeyPoolRecords \/ WriteSeed \/ AddDefaultKey
    <3>1. Refused => UNCHANGED rst
      BY <1>2 DEF Refused
    <3> QED
      BY <2>3, <3>1 DEF ClearKeyPoolRecords, WriteSeed, AddDefaultKey, AddKey
  <2>4. CASE \E s \in Seeds : NewPhrase(s) \/ RestoreFromPhrase(s)
    BY <2>4 DEF NewPhrase, RestoreFromPhrase
  <2>5. CASE EncryptWallet \/ InstallEncrypted \/ BackupWallet \/ Crash \/ Lose \/ CreateNewWallet \/ CreationFails
             \/ \E unlock \in BOOLEAN : LoadWallet(unlock)
    BY <1>2, <2>5 DEF EncryptWallet, InstallEncrypted, BackupWallet, Crash, Lose, CreateNewWallet, CreationFails, LoadWallet,
                      Ends
  <2> QED
    BY <2>1, <2>2, <2>3, <2>4, <2>5 DEF Next, HolderStep
<1>6. CASE SetDefaultKey
  <2>1. \/ UNCHANGED rst
        \/ rst' = [rst EXCEPT !.at = "recv", !.total = 1, !.before = Cardinality(got)]
    BY <1>2, <1>6 DEF SetDefaultKey, Refused
  <2> QED
    BY <1>1, <1>4, <2>1 DEF RstOK
<1>7. ASSUME NEW b \in {"recv", "change"}, RestoreKey(b) \/ RestoreCount(b) \/ RestoreWriteNext(b)
      PROVE  rst'.fresh = rst.fresh /\ (rst'.whole => rst.whole)
  <2>1. CASE RestoreKey(b)
    <3>1. Stored \/ CutShort
      BY <2>1 DEF RestoreKey, StoreKey, AddKey
    <3> QED
      BY <1>1, <3>1 DEF Stored, CutShort, RstOK
  <2>2. CASE RestoreCount(b) \/ RestoreWriteNext(b)
    BY <1>1, <2>2 DEF RestoreCount, RestoreWriteNext, RstOK
  <2> QED
    BY <1>7, <2>1, <2>2
<1>8. CASE RestoreLegacyKey
  <2> DEFINE scan == [rst EXCEPT !.at = "scan", !.n = 0]
  <2>1. \/ rst' = [scan EXCEPT !.whole = FALSE]
        \/ rst' = [[rst EXCEPT !.n = @ + 1] EXCEPT !.legacy = @ + 1, !.total = @ + 1]
        \/ rst' = [scan EXCEPT !.legacy = @ + 1, !.total = @ + 1]
    BY <1>8 DEF RestoreLegacyKey
  <2> QED
    BY <1>1, <2>1 DEF RstOK
<1>9. CASE RestoreScan \/ RestoreFinish
  <2>1. \/ \E quiet, at : rst' = [rst EXCEPT !.quiet = quiet, !.before = Cardinality(got'), !.at = at]
        \/ rst' = [rst EXCEPT !.at = "filling"]
    BY <1>9 DEF RestoreScan, RestoreFinish
  <2> QED
    BY <1>1, <2>1 DEF RstOK
<1> QED
  BY <1>4, <1>5, <1>6, <1>7, <1>8, <1>9 DEF RestoreStep

\* While a phrase is installed for a restore nothing else is done.
LEMMA InstallAlone ==
  ASSUME TypeInv, Next, rst.at = "seed", Undisturbed'
  PROVE  ClearKeyPoolRecords \/ WriteSeed \/ AddDefaultKey \/ SetDefaultKey
<1>1. job.pc \in Installing
  BY DEF TypeInv, JobOK, RstOK, Pcs, Filling, Installing
<1>2. rst' # Resting
  BY DEF Undisturbed, Resting
<1>3. ~ RestoreStep
  BY DEF RestoreStep, RestoreKey, RestoreCount, RestoreWriteNext, RestoreLegacyKey, RestoreScan, RestoreFinish
<1>4. ~ (GetKeyFromPool \/ DeriveNextHDChangeKey \/ EncryptWallet \/ BackupWallet \/ Lose
         \/ \E s \in Seeds : NewPhrase(s) \/ RestoreFromPhrase(s))
  BY <1>1 DEF GetKeyFromPool, DeriveNextHDChangeKey, EncryptWallet, BackupWallet, Lose, NewPhrase,
              RestoreFromPhrase, Ask, Installing
<1>5. ~ (InstallEncrypted \/ Crash \/ CreateNewWallet \/ CreationFails \/ \E unlock \in BOOLEAN : LoadWallet(unlock))
  BY <1>1, <1>2 DEF InstallEncrypted, Crash, CreateNewWallet, CreationFails, LoadWallet, Ends, Installing
<1>6. ~ (TopUpKeyPool \/ DeriveNext \/ RereadCounter \/ AdvanceCounter \/ RandomKey \/ WritePool
         \/ TakeFromPool \/ GenerateNewKey \/ \E coin \in BOOLEAN : Give(coin))
  BY <1>1 DEF TopUpKeyPool, DeriveNext, RereadCounter, AdvanceCounter, RandomKey, WritePool, TakeFromPool,
              GenerateNewKey, Give, Installing
<1> QED
  BY <1>3, <1>4, <1>5, <1>6 DEF Next, HolderStep

\* While it searches the holder of cs_keyPool rests.
LEMMA SearchAlone ==
  ASSUME Next, rst.at \in Searching, job.pc = "idle", Undisturbed'
  PROVE  RestoreStep
<1>1. rst.at # "off" /\ job.pc \notin {"down", "swap"}
  BY DEF Searching
<1>2. rst' # Resting
  BY DEF Undisturbed, Resting
<1>3. ~ DeriveNextHDChangeKey
  BY <1>1 DEF DeriveNextHDChangeKey, Undisturbed
<1>4. ~ (GetKeyFromPool \/ EncryptWallet \/ BackupWallet \/ Lose
         \/ \E s \in Seeds : NewPhrase(s) \/ RestoreFromPhrase(s))
  BY <1>1 DEF GetKeyFromPool, EncryptWallet, BackupWallet, Lose, NewPhrase, RestoreFromPhrase
<1>5. ~ (InstallEncrypted \/ Crash \/ CreateNewWallet \/ CreationFails \/ \E unlock \in BOOLEAN : LoadWallet(unlock))
  BY <1>1, <1>2 DEF InstallEncrypted, Crash, CreateNewWallet, CreationFails, LoadWallet, Ends
<1>6. ~ HolderStep
  BY DEF HolderStep, TopUpKeyPool, DeriveNext, RereadCounter, AdvanceCounter, RandomKey, WritePool, TakeFromPool,
         GenerateNewKey, Give, ClearKeyPoolRecords, WriteSeed, AddDefaultKey, SetDefaultKey, InstallEncrypted
<1> QED
  BY <1>3, <1>4, <1>5, <1>6 DEF Next

\* Outside of a restore nothing but RestoreFromPhrase begins one.
LEMMA RestoreBegins ==
  ASSUME TypeInv, Next, rst.at \in {"off", "filling"}, rst'.at \in {"seed"} \cup Searching
  PROVE  \E s \in Seeds : RestoreFromPhrase(s)
<1> USE DEF ghosts
<1>1. rst' # Resting /\ rst' # rst
  BY DEF Resting, Searching
<1>2. ~ RestoreStep
  BY DEF RestoreStep, RestoreKey, RestoreCount, RestoreWriteNext, RestoreLegacyKey, RestoreScan, RestoreFinish
<1>3. ~ (GetKeyFromPool \/ DeriveNextHDChangeKey \/ RereadCounter \/ DeriveNext \/ AdvanceCounter
         \/ TakeFromPool \/ GenerateNewKey \/ \E coin \in BOOLEAN : Give(coin))
  BY <1>1 DEF GetKeyFromPool, DeriveNextHDChangeKey, RereadCounter, DeriveNext, AdvanceCounter,
              TakeFromPool, GenerateNewKey, Give
<1>4. ~ (TopUpKeyPool \/ RandomKey \/ WritePool)
  <2>1. ~ Return
    BY <1>1 DEF Return
  <2> QED
    BY <1>1, <2>1 DEF TopUpKeyPool, RandomKey, AddKey, WritePool
<1>5. ~ (ClearKeyPoolRecords \/ WriteSeed \/ AddDefaultKey \/ SetDefaultKey)
  <2>1. ~ Refused
    BY <1>1 DEF Refused
  <2>2. SetDefaultKey => job.then = "restore" /\ job.pc \in Installing
    BY <1>1, <2>1 DEF SetDefaultKey, Installing
  <2>3. ~ SetDefaultKey
    <3>1. rst.at = "filling" => job.then = "restored"
      BY DEF TypeInv, RstOK
    <3>2. rst.at = "off" => job.then # "restore"
      BY DEF TypeInv, RstOK
    <3> QED
      BY <2>2, <3>1, <3>2
  <2> QED
    BY <1>1, <2>1, <2>3 DEF ClearKeyPoolRecords, WriteSeed, AddDefaultKey, AddKey
<1>6. ~ \E s \in Seeds : NewPhrase(s)
  BY <1>1 DEF NewPhrase
<1>7. ~ (EncryptWallet \/ InstallEncrypted \/ BackupWallet \/ Crash \/ Lose \/ CreateNewWallet \/ CreationFails
         \/ \E unlock \in BOOLEAN : LoadWallet(unlock))
  BY <1>1 DEF EncryptWallet, InstallEncrypted, BackupWallet, Crash, Lose, CreateNewWallet, CreationFails, LoadWallet, Ends
<1> QED
  BY <1>2, <1>3, <1>4, <1>5, <1>6, <1>7 DEF Next, HolderStep

----------------------------------------------------------------------------
(* A restore begins, and its phrase is installed.                          *)

LEMMA BeginsFinds ==
  ASSUME TypeInv, NEW s \in Seeds, RestoreFromPhrase(s), Undisturbed'
  PROVE  rst'.at = "seed" /\ NothingFound'
<1>1. /\ UNCHANGED <<mem, got>>
      /\ job' = [Idle EXCEPT !.pc = "clear", !.then = "restore", !.key = Key("recv", s, 0)]
  BY DEF RestoreFromPhrase, Install
<1>2. rst' = [Resting EXCEPT !.at = "seed", !.seed = s, !.fresh = \A k \in mem.keys : SeedOf(k) # s,
                             !.whole = \A k \in got : SeedOf(k) # s]
  BY DEF RestoreFromPhrase
<1>3. (\A k \in mem.keys : SeedOf(k) # s) /\ (\A k \in got : SeedOf(k) # s)
  <2> DEFINE x == \A k \in mem.keys : SeedOf(k) # s
             y == \A k \in got : SeedOf(k) # s
  <2>1. rst' = [Resting EXCEPT !.at = "seed", !.seed = s, !.fresh = x, !.whole = y]
    BY <1>2
  <2> HIDE DEF x, y
  <2>2. rst'.fresh = x /\ rst'.whole = y
    BY <2>1 DEF Resting
  <2>3. x /\ y
    BY <2>2 DEF Undisturbed
  <2> QED
    BY <2>3 DEF x, y
<1>4. /\ rst'.at = "seed" /\ rst'.seed = s /\ rst'.n = 0 /\ rst'.quiet = 0 /\ rst'.legacy = 0
      /\ rst'.step = "key"
  BY <1>2 DEF Resting
<1>5. job'.pc = "clear" /\ job'.key = Key("recv", s, 0)
  BY <1>1 DEF Idle
<1> QED
  BY <1>1, <1>3, <1>4, <1>5 DEF NothingFound

\* How a refusal ends a restore.
LEMMA RefusalEnds ==
  ASSUME TypeInv, rst.at = "seed", Refused
  PROVE  ~ Undisturbed'
<1>1. job.then = "restore"
  BY DEF TypeInv, RstOK
<1> QED
  BY <1>1 DEF Refused, Resting, Undisturbed

LEMMA InstallFinds ==
  ASSUME TypeInv, rst.at = "seed", NothingFound, Undisturbed',
         ClearKeyPoolRecords \/ WriteSeed \/ AddDefaultKey
  PROVE  rst'.at = "seed" /\ NothingFound'
<1> USE DEF ghosts
<1>1. ~ Refused /\ JobOK /\ job.then = "restore"
  BY RefusalEnds DEF TypeInv, RstOK
<1>2. CASE ClearKeyPoolRecords
  <2>1. /\ mem'.keys = mem.keys /\ UNCHANGED <<rst, got>> /\ job.pc = "clear"
        /\ job'.pc \in {"clear", "seed"} /\ job'.key = job.key
    <3>1. UNCHANGED rst
      BY <1>1, <1>2 DEF ClearKeyPoolRecords
    <3>2. ~ Refusal
      BY <1>1, <3>1 DEF Refusal
    <3> QED
      BY <1>2, <3>1, <3>2, ClearEffect DEF MemPool, MemIs, JobIs
  <2> QED
    BY <2>1 DEF NothingFound
<1>3. CASE WriteSeed
  <2>1. UNCHANGED rst
    BY <1>1, <1>3 DEF WriteSeed
  <2>2. ~ Refusal
    BY <1>1, <2>1 DEF Refusal
  <2>3. SeedOf(job.key) = rst.seed
    BY KeySeeds DEF NothingFound
  <2>4. job.pc = "seed" /\ job'.key = job.key /\ UNCHANGED got /\ mem'.keys = mem.keys
        /\ \/ job'.pc = "seed"
           \/ job'.pc = "default" /\ mem'.seed = rst.seed /\ mem'.next = [recv |-> 1, change |-> 0, legacy |-> 0]
    BY <1>3, <2>2, <2>3, WriteSeedEffect DEF MemIs, JobIs, JobAt
  <2> QED
    BY <2>1, <2>4 DEF NothingFound
<1>4. CASE AddDefaultKey
  <2>1. UNCHANGED rst
    BY <1>1, <1>4 DEF AddDefaultKey, AddKey
  <2>2. ~ Refusal
    BY <1>1, <2>1 DEF Refusal
  <2>3. /\ job.pc = "default" /\ JobAt("defaultkey") /\ UNCHANGED got
        /\ (job.key \in mem.keys /\ UNCHANGED mem) \/ MemKeys(mem.keys \cup {job.key})
    BY <1>4, <2>2, AddDefaultEffect DEF KeyStored
  <2>4. mem'.keys = mem.keys \cup {job.key} /\ mem'.seed = mem.seed /\ mem'.next = mem.next
    BY <2>3 DEF MemKeys, MemIs
  <2> QED
    BY <2>1, <2>3, <2>4 DEF NothingFound, JobAt, JobIs
<1> QED
  BY <1>2, <1>3, <1>4

----------------------------------------------------------------------------
(* The search, step by step.                                               *)

\* Where the restore goes, and with which counts.
RstTo(at, step, n, legacy, quiet) ==
  /\ rst'.at = at /\ rst'.step = step /\ rst'.n = n /\ rst'.legacy = legacy /\ rst'.quiet = quiet
  /\ rst'.seed = rst.seed
MemSame == mem'.seed = mem.seed /\ mem'.next = mem.next

LEMMA KeyMoves ==
  ASSUME TypeInv, NEW b \in {"recv", "change"}, RestoreKey(b), Undisturbed'
  PROVE  /\ rst.at = b /\ rst.step = "key" /\ RstTo(b, "count", rst.n, rst.legacy, rst.quiet)
         /\ mem'.keys = mem.keys \cup {Key(b, mem.seed, mem.next[b])} /\ MemSame
         /\ rst'.before = rst.before /\ UNCHANGED <<job, got, paid>>
<1> USE DEF ghosts
<1> DEFINE k == Key(b, mem.seed, mem.next[b])
<1>1. RstOK /\ rst.at = b /\ rst.step = "key"
  BY DEF TypeInv, RestoreKey
<1>2. ~ CutShort
  BY <1>1 DEF CutShort, Undisturbed, RstOK
<1>3. Stored
  BY <1>2 DEF RestoreKey, StoreKey, AddKey
<1>4. RstTo(b, "count", rst.n, rst.legacy, rst.quiet) /\ rst'.before = rst.before
  BY <1>1, <1>3 DEF Stored, RstTo, RstOK
<1>5. MemKeys(mem.keys \cup {k}) /\ UNCHANGED <<job, got, paid>>
  BY <1>1, <1>3, RestoreKeyEffect DEF Stored, RstAt, RstOK, KeyStored, KeyRefused
<1> QED
  BY <1>1, <1>4, <1>5 DEF MemKeys, MemIs, MemSame

LEMMA CountMoves ==
  ASSUME TypeInv, NEW b \in {"recv", "change"}, RestoreCount(b)
  PROVE  /\ rst.at = b /\ rst.step = "count"
         /\ RstTo(b, IF rst.n + 1 < RESTORE_BATCH THEN "key" ELSE "write", rst.n + 1, rst.legacy, rst.quiet)
         /\ mem'.keys = mem.keys /\ mem'.seed = mem.seed /\ mem'.next = [mem.next EXCEPT ![b] = mem.next[b] + 1]
         /\ rst'.before = rst.before /\ UNCHANGED <<job, got, paid>>
<1> USE DEF ghosts
<1>1. RstOK /\ rst.at = b /\ rst.step = "count"
  BY DEF TypeInv, RestoreCount
<1> DEFINE step == IF rst.n + 1 < RESTORE_BATCH THEN "key" ELSE "write"
<1>2. rst' = [rst EXCEPT !.n = @ + 1, !.total = @ + 1, !.step = step]
  BY DEF RestoreCount
<1> HIDE DEF step
<1>3. RstTo(b, step, rst.n + 1, rst.legacy, rst.quiet) /\ rst'.before = rst.before
  BY <1>1, <1>2 DEF RstTo, RstOK
<1>4. MemNext(b, mem.next[b] + 1) /\ UNCHANGED <<job, got, paid>>
  BY RestoreCountEffect
<1> QED
  BY <1>1, <1>3, <1>4 DEF MemNext, MemIs, step

LEMMA WriteMoves ==
  ASSUME TypeInv, NEW b \in {"recv", "change"}, RestoreWriteNext(b)
  PROVE  /\ rst.at = b /\ rst.step = "write"
         /\ RstTo(IF b = "recv" THEN "change" ELSE "legacy", "key", 0, rst.legacy, rst.quiet)
         /\ mem'.keys = mem.keys /\ MemSame
         /\ rst'.before = rst.before /\ UNCHANGED <<job, got, paid>>
<1> USE DEF ghosts
<1>1. RstOK /\ rst.at = b /\ rst.step = "write"
  BY DEF TypeInv, RestoreWriteNext
<1> DEFINE at == IF b = "recv" THEN "change" ELSE "legacy"
<1>2. rst' = [rst EXCEPT !.n = 0, !.step = "key", !.at = at]
  BY DEF RestoreWriteNext
<1> HIDE DEF at
<1>3. RstTo(at, "key", 0, rst.legacy, rst.quiet) /\ rst'.before = rst.before
  BY <1>1, <1>2 DEF RstTo, RstOK
<1>4. /\ mem'.keys = mem.keys /\ mem'.seed = mem.seed /\ mem'.next = mem.next /\ UNCHANGED <<job, got, paid>>
  BY RestoreWriteNextEffect DEF MemIs
<1> QED
  BY <1>1, <1>3, <1>4 DEF MemSame, at

LEMMA LegacyMoves ==
  ASSUME TypeInv, RestoreLegacyKey, Undisturbed'
  PROVE  /\ rst.at = "legacy"
         /\ \/ rst.n + 1 < RESTORE_BATCH /\ RstTo("legacy", rst.step, rst.n + 1, rst.legacy + 1, rst.quiet)
            \/ rst.n + 1 >= RESTORE_BATCH /\ RstTo("scan", rst.step, 0, rst.legacy + 1, rst.quiet)
         /\ mem'.keys = mem.keys \cup {Key("legacy", mem.seed, rst.legacy)} /\ MemSame
         /\ rst'.before = rst.before /\ UNCHANGED <<job, got, paid>>
<1> USE DEF ghosts
<1> DEFINE scan == [rst EXCEPT !.at = "scan", !.n = 0]
           more == rst.n + 1 < RESTORE_BATCH
<1>1. RstOK /\ rst.at = "legacy" /\ RESTORE_BATCH \in Nat
  BY KeysAssumption DEF TypeInv, RestoreLegacyKey
<1>2. \/ rst' = [scan EXCEPT !.whole = FALSE]
      \/ more /\ rst' = [[rst EXCEPT !.n = @ + 1] EXCEPT !.legacy = @ + 1, !.total = @ + 1]
      \/ ~ more /\ rst' = [scan EXCEPT !.legacy = @ + 1, !.total = @ + 1]
  BY DEF RestoreLegacyKey
<1> HIDE DEF more
<1>3. rst' # [scan EXCEPT !.whole = FALSE]
  BY <1>1 DEF Undisturbed, RstOK
<1>4. /\ \/ more /\ RstTo("legacy", rst.step, rst.n + 1, rst.legacy + 1, rst.quiet)
         \/ ~ more /\ RstTo("scan", rst.step, 0, rst.legacy + 1, rst.quiet)
      /\ rst'.before = rst.before
  BY <1>1, <1>2, <1>3 DEF RstTo, RstOK
<1>5. /\ mem'.keys = mem.keys \cup {Key("legacy", mem.seed, rst.legacy)} /\ MemSame
      /\ UNCHANGED <<job, got, paid>>
  <2>1. ~ locked
    BY <1>3 DEF RestoreLegacyKey
  <2> QED
    BY <2>1, RestoreLegacyEffect DEF Unlocked, MemIs, MemSame
<1>6. ~ more => rst.n + 1 >= RESTORE_BATCH
  BY <1>1 DEF more, RstOK
<1> QED
  BY <1>1, <1>4, <1>5, <1>6 DEF more

LEMMA ScanMoves ==
  ASSUME TypeInv, RestoreScan
  PROVE  LET quiet == IF Cardinality(got') = rst.before THEN Min({rst.quiet + 1, RESTORE_QUIET_BATCHES}) ELSE 0
             stop == quiet >= RESTORE_QUIET_BATCHES /\ RestoreScanReachedDepth
         IN /\ rst.at = "scan" /\ got' = got \cup (paid \cap mem.keys)
            /\ RstTo(IF stop \/ rst.total >= RESTORE_MAX THEN "finish" ELSE "recv", rst.step, rst.n, rst.legacy,
                     quiet)
            /\ rst'.total = rst.total /\ rst'.before = Cardinality(got')
            /\ mem'.keys = mem.keys /\ mem'.seed = mem.seed
            /\ mem'.next["recv"] = mem.next["recv"] /\ mem'.next["change"] = mem.next["change"]
            /\ UNCHANGED <<job, paid>>
<1> USE DEF ghosts
<1> DEFINE quiet == IF Cardinality(got') = rst.before THEN Min({rst.quiet + 1, RESTORE_QUIET_BATCHES}) ELSE 0
           stop == quiet >= RESTORE_QUIET_BATCHES /\ RestoreScanReachedDepth
           at == IF stop \/ rst.total >= RESTORE_MAX THEN "finish" ELSE "recv"
<1>1. RstOK /\ rst.at = "scan"
  BY DEF TypeInv, RestoreScan
<1>2. rst' = [rst EXCEPT !.quiet = quiet, !.before = Cardinality(got'), !.at = at]
  BY DEF RestoreScan
<1> HIDE DEF quiet, at
<1>3. RstTo(at, rst.step, rst.n, rst.legacy, quiet) /\ rst'.total = rst.total /\ rst'.before = Cardinality(got')
  BY <1>1, <1>2 DEF RstTo, RstOK
<1>4. /\ got' = got \cup (paid \cap mem.keys) /\ mem'.keys = mem.keys /\ mem'.seed = mem.seed
      /\ \E n : mem'.next = [mem.next EXCEPT !["legacy"] = n]
      /\ UNCHANGED <<job, paid>>
  BY RestoreScanEffect DEF MemNext, MemIs
<1>5. mem'.next["recv"] = mem.next["recv"] /\ mem'.next["change"] = mem.next["change"]
  <2>1. mem.next \in [Branches -> Nat]
    BY DEF TypeInv, WalletOK
  <2> QED
    BY <1>4, <2>1 DEF Branches
<1> QED
  BY <1>1, <1>3, <1>4, <1>5 DEF at, quiet

----------------------------------------------------------------------------
(* ... keeps Searched.                                                     *)

LEMMA SearchNumbers ==
  ASSUME TypeInv
  PROVE  /\ RESTORE_BATCH \in Nat /\ RESTORE_BATCH > 0 /\ RESTORE_QUIET_BATCHES \in Nat
         /\ rst.n \in Nat /\ rst.quiet \in Nat /\ rst.legacy \in Nat /\ rst.total \in Nat
         /\ rst.seed \in Seeds \cup {None} /\ mem.keys \subseteq KeySet
         /\ \A b \in Branches : mem.next[b] \in Nat /\ Derived(b) \in Nat /\ Batch(b) \in Nat
<1>1. rst.n \in Nat /\ rst.quiet \in Nat /\ rst.legacy \in Nat /\ rst.total \in Nat
      /\ rst.seed \in Seeds \cup {None} /\ mem.keys \subseteq KeySet /\ mem.next \in [Branches -> Nat]
  BY DEF TypeInv, RstOK, WalletOK
<1>2. RESTORE_BATCH \in Nat /\ RESTORE_BATCH > 0 /\ RESTORE_QUIET_BATCHES \in Nat
  BY KeysAssumption
<1>3. \A b \in Branches : mem.next[b] \in Nat /\ Derived(b) \in Nat /\ Batch(b) \in Nat
  BY <1>1, <1>2 DEF Derived, Batch
<1> QED
  BY <1>1, <1>2, <1>3

\* A branch the step does not work on.
LEMMA BranchStays ==
  ASSUME NEW b \in Branches, BranchSearched(b), UNCHANGED <<got, paid>>, rst'.seed = rst.seed,
         rst'.quiet = rst.quiet, Derived(b)' = Derived(b), Batch(b)' = Batch(b),
         mem.keys \subseteq mem'.keys, \A k \in mem'.keys : k \in mem.keys \/ k[1] # b,
         ~ (rst.at = b /\ rst.step = "count"), ~ (rst'.at = b /\ rst'.step = "count")
  PROVE  BranchSearched(b)'
<1> DEFINE d == Derived(b)
           n == Batch(b)
<1>1. d' = d /\ n' = n
  OBVIOUS
<1> HIDE DEF d, n
<1>2. /\ d - n >= 0
      /\ \A i \in 0 .. d - 1 : Key(b, rst.seed, i) \in mem.keys
      /\ \A k \in mem.keys : k[1] = b /\ SeedOf(k) = rst.seed => k[3] < d
      /\ \A k \in got : k[1] = b /\ SeedOf(k) = rst.seed => k[3] < d - n
      /\ \A i \in (d - n) - rst.quiet * RESTORE_BATCH .. (d - n) - 1 : Key(b, rst.seed, i) \notin paid
  BY DEF BranchSearched, Looked, d, n
<1>3. /\ d' - n' >= 0
      /\ \A i \in 0 .. d' - 1 : Key(b, rst'.seed, i) \in mem'.keys
      /\ \A k \in mem'.keys : k[1] = b /\ SeedOf(k) = rst'.seed => k[3] < d'
      /\ \A k \in got' : k[1] = b /\ SeedOf(k) = rst'.seed => k[3] < d' - n'
      /\ \A i \in (d' - n') - rst'.quiet * RESTORE_BATCH .. (d' - n') - 1 : Key(b, rst'.seed, i) \notin paid'
  BY <1>1, <1>2
<1> QED
  BY <1>3 DEF BranchSearched, Looked, d, n

LEMMA CountsStay ==
  /\ MemSame /\ rst'.legacy = rst.legacy => \A b \in Branches : Derived(b)' = Derived(b)
  /\ rst'.at = rst.at /\ rst'.n = rst.n => \A b \in Branches : Batch(b)' = Batch(b)
BY DEF MemSame, Derived, Batch

LEMMA KeyFinds ==
  ASSUME TypeInv, Searched, NEW b \in {"recv", "change"}, RestoreKey(b), Undisturbed'
  PROVE  Searched'
<1> DEFINE k == Key(b, mem.seed, mem.next[b])
<1>1. /\ rst.at = b /\ rst.step = "key" /\ RstTo(b, "count", rst.n, rst.legacy, rst.quiet)
      /\ mem'.keys = mem.keys \cup {k} /\ MemSame
      /\ rst'.before = rst.before /\ UNCHANGED <<job, got, paid>>
  BY KeyMoves
<1>2. /\ job.pc = "idle" /\ rst.seed \in Seeds /\ mem.seed = rst.seed /\ rst.before = Cardinality(got)
      /\ rst.n <= RESTORE_BATCH /\ rst.n # RESTORE_BATCH /\ rst.quiet <= RESTORE_QUIET_BATCHES
      /\ \A c \in Branches : BranchSearched(c)
  BY <1>1 DEF Searched
<1>3. \A c \in Branches : Derived(c)' = Derived(c) /\ Batch(c)' = Batch(c)
  BY <1>1, CountsStay DEF RstTo
<1>4. ASSUME NEW c \in Branches, c # b
      PROVE  BranchSearched(c)'
  <2>1. k[1] # c
    BY <1>4, KeyTypes
  <2> HIDE DEF k
  <2> QED
    BY <1>1, <1>2, <1>3, <1>4, <2>1, BranchStays DEF RstTo
<1>5. BranchSearched(b)'
  <2> DEFINE d == Derived(b)
             n == Batch(b)
  <2>1. b \in Branches /\ d' = d /\ n' = n /\ d = mem.next[b] /\ d \in Nat
    BY <1>3, SearchNumbers DEF Branches, Derived
  <2>2. k = Key(b, rst.seed, d) /\ k[3] = d
    BY <1>2, <2>1, KeyTypes
  <2> HIDE DEF d, n, k
  <2>3. /\ d - n >= 0
        /\ \A i \in 0 .. d - 1 : Key(b, rst.seed, i) \in mem.keys
        /\ \A x \in mem.keys : x[1] = b /\ SeedOf(x) = rst.seed => x[3] < d
        /\ \A x \in got : x[1] = b /\ SeedOf(x) = rst.seed => x[3] < d - n
        /\ \A i \in (d - n) - rst.quiet * RESTORE_BATCH .. (d - n) - 1 : Key(b, rst.seed, i) \notin paid
    BY <1>1, <1>2, <2>1 DEF BranchSearched, Looked, d, n
  <2>4. rst'.at = b /\ rst'.step = "count" /\ rst'.seed = rst.seed /\ rst'.quiet = rst.quiet
    BY <1>1 DEF RstTo
  <2>5. /\ d' - n' >= 0
        /\ \A i \in 0 .. d' - 1 : Key(b, rst'.seed, i) \in mem'.keys
        /\ Key(b, rst'.seed, d') \in mem'.keys
        /\ \A x \in mem'.keys : x[1] = b /\ SeedOf(x) = rst'.seed => x[3] < d' \/ x[3] = d'
        /\ \A x \in got' : x[1] = b /\ SeedOf(x) = rst'.seed => x[3] < d' - n'
        /\ \A i \in (d' - n') - rst'.quiet * RESTORE_BATCH .. (d' - n') - 1 : Key(b, rst'.seed, i) \notin paid'
    BY <1>1, <2>1, <2>2, <2>3, <2>4
  <2> QED
    BY <2>4, <2>5 DEF BranchSearched, Looked, d, n
<1>6. \A c \in Branches : BranchSearched(c)'
  BY <1>4, <1>5
<1> QED
  BY <1>1, <1>2, <1>6 DEF Searched, RstTo, MemSame

LEMMA CountFinds ==
  ASSUME TypeInv, Searched, NEW b \in {"recv", "change"}, RestoreCount(b)
  PROVE  Searched'
<1> DEFINE step == IF rst.n + 1 < RESTORE_BATCH THEN "key" ELSE "write"
<1>1. /\ rst.at = b /\ rst.step = "count" /\ RstTo(b, step, rst.n + 1, rst.legacy, rst.quiet)
      /\ mem'.keys = mem.keys /\ mem'.seed = mem.seed /\ mem'.next = [mem.next EXCEPT ![b] = mem.next[b] + 1]
      /\ rst'.before = rst.before /\ UNCHANGED <<job, got, paid>>
  BY CountMoves
<1>2. /\ job.pc = "idle" /\ rst.seed \in Seeds /\ mem.seed = rst.seed /\ rst.before = Cardinality(got)
      /\ rst.n <= RESTORE_BATCH /\ rst.n # RESTORE_BATCH /\ rst.quiet <= RESTORE_QUIET_BATCHES
      /\ \A c \in Branches : BranchSearched(c)
  BY <1>1 DEF Searched
<1>3. mem.next \in [Branches -> Nat] /\ b \in Branches /\ rst.n \in Nat /\ RESTORE_BATCH \in Nat
  BY SearchNumbers DEF TypeInv, WalletOK, Branches
<1>4. rst.n + 1 <= RESTORE_BATCH /\ (rst.n + 1 = RESTORE_BATCH <=> step = "write") /\ step # "count"
  BY <1>2, <1>3
<1> HIDE DEF step
<1>5. ASSUME NEW c \in Branches, c # b
      PROVE  BranchSearched(c)'
  <2>1. Derived(c)' = Derived(c)
    BY <1>1, <1>3, <1>5 DEF Derived, RstTo
  <2>2. Batch(c)' = Batch(c)
    BY <1>1, <1>5 DEF Batch, RstTo
  <2> QED
    BY <1>1, <1>2, <1>4, <1>5, <2>1, <2>2, BranchStays DEF RstTo
<1>6. BranchSearched(b)'
  <2> DEFINE d == Derived(b)
             n == Batch(b)
  <2>1. d' = d + 1 /\ d \in Nat
    BY <1>1, <1>3, SearchNumbers DEF Derived, RstTo, Branches
  <2>2. n' = n + 1 /\ n \in Nat
    BY <1>1, <1>3 DEF Batch, RstTo
  <2> HIDE DEF d, n
  <2>3. /\ d - n >= 0
        /\ \A i \in 0 .. d - 1 : Key(b, rst.seed, i) \in mem.keys
        /\ Key(b, rst.seed, d) \in mem.keys
        /\ \A x \in mem.keys : x[1] = b /\ SeedOf(x) = rst.seed => x[3] < d \/ x[3] = d
        /\ \A x \in got : x[1] = b /\ SeedOf(x) = rst.seed => x[3] < d - n
        /\ \A i \in (d - n) - rst.quiet * RESTORE_BATCH .. (d - n) - 1 : Key(b, rst.seed, i) \notin paid
    BY <1>1, <1>2, <1>3 DEF BranchSearched, Looked, d, n
  <2>4. rst'.at = b /\ rst'.step # "count" /\ rst'.seed = rst.seed /\ rst'.quiet = rst.quiet
    BY <1>1, <1>4 DEF RstTo
  <2>5. d' - n' = d - n
    BY <2>1, <2>2
  <2>6. /\ d' - n' >= 0
        /\ \A x \in got' : x[1] = b /\ SeedOf(x) = rst'.seed => x[3] < d' - n'
        /\ \A i \in (d' - n') - rst'.quiet * RESTORE_BATCH .. (d' - n') - 1 : Key(b, rst'.seed, i) \notin paid'
    BY <1>1, <2>3, <2>4, <2>5
  <2>7. \A i \in 0 .. d' - 1 : Key(b, rst'.seed, i) \in mem'.keys
    <3>1. \A i \in 0 .. d' - 1 : i \in 0 .. d - 1 \/ i = d
      BY <2>1
    <3> QED
      BY <1>1, <2>3, <2>4, <3>1
  <2>8. \A x \in mem'.keys : x[1] = b /\ SeedOf(x) = rst'.seed => x[3] < d'
    <3>1. \A x \in mem.keys : x[3] \in Nat
      BY SearchNumbers DEF KeySet
    <3> QED
      BY <1>1, <2>1, <2>3, <2>4, <3>1
  <2> QED
    BY <2>4, <2>6, <2>7, <2>8 DEF BranchSearched, Looked, d, n
<1>7. \A c \in Branches : BranchSearched(c)'
  BY <1>5, <1>6
<1>8. rst'.at \notin {"scan", "finish"} /\ rst'.at \in {"recv", "change"}
  BY <1>1 DEF RstTo
<1> QED
  BY <1>1, <1>2, <1>4, <1>7, <1>8 DEF Searched, RstTo

LEMMA WriteFinds ==
  ASSUME TypeInv, Searched, NEW b \in {"recv", "change"}, RestoreWriteNext(b)
  PROVE  Searched'
<1> DEFINE at == IF b = "recv" THEN "change" ELSE "legacy"
<1>1. /\ rst.at = b /\ rst.step = "write" /\ RstTo(at, "key", 0, rst.legacy, rst.quiet)
      /\ mem'.keys = mem.keys /\ MemSame /\ rst'.before = rst.before /\ UNCHANGED <<job, got, paid>>
  BY WriteMoves
<1>2. /\ job.pc = "idle" /\ rst.seed \in Seeds /\ mem.seed = rst.seed /\ rst.before = Cardinality(got)
      /\ rst.n = RESTORE_BATCH /\ rst.quiet <= RESTORE_QUIET_BATCHES
      /\ \A c \in Branches : BranchSearched(c)
  BY <1>1 DEF Searched
<1>3. \A c \in Branches : Derived(c)' = Derived(c)
  BY <1>1, CountsStay DEF RstTo
<1>4. \A c \in Branches : Batch(c)' = Batch(c)
  BY <1>1, <1>2 DEF Batch, RstTo, Branches
<1>5. \A c \in Branches : BranchSearched(c)'
  BY <1>1, <1>2, <1>3, <1>4, BranchStays DEF RstTo
<1>6. RESTORE_BATCH \in Nat /\ RESTORE_BATCH > 0
  BY SearchNumbers
<1>7. rst'.at \in {"change", "legacy"} /\ rst'.n = 0 /\ rst'.step = "key"
  BY <1>1 DEF RstTo
<1> QED
  BY <1>1, <1>2, <1>5, <1>6, <1>7 DEF Searched, RstTo, MemSame

LEMMA LegacyFinds ==
  ASSUME TypeInv, Searched, RestoreLegacyKey, Undisturbed'
  PROVE  Searched'
<1> DEFINE k == Key("legacy", mem.seed, rst.legacy)
<1>1. /\ rst.at = "legacy"
      /\ \/ rst.n + 1 < RESTORE_BATCH /\ RstTo("legacy", rst.step, rst.n + 1, rst.legacy + 1, rst.quiet)
         \/ rst.n + 1 >= RESTORE_BATCH /\ RstTo("scan", rst.step, 0, rst.legacy + 1, rst.quiet)
      /\ mem'.keys = mem.keys \cup {k} /\ MemSame
      /\ rst'.before = rst.before /\ UNCHANGED <<job, got, paid>>
  BY LegacyMoves
<1>2. /\ job.pc = "idle" /\ rst.seed \in Seeds /\ mem.seed = rst.seed /\ rst.before = Cardinality(got)
      /\ rst.step = "key"
      /\ rst.n <= RESTORE_BATCH /\ rst.n # RESTORE_BATCH /\ rst.quiet <= RESTORE_QUIET_BATCHES
      /\ \A c \in Branches : BranchSearched(c)
  BY <1>1 DEF Searched
<1>3. RESTORE_BATCH \in Nat /\ RESTORE_BATCH > 0 /\ rst.n \in Nat /\ rst.legacy \in Nat
  BY SearchNumbers
<1>4. \/ rst'.at = "legacy" /\ rst'.n = rst.n + 1 /\ rst.n + 1 < RESTORE_BATCH
      \/ rst'.at = "scan" /\ rst'.n = 0 /\ rst.n + 1 = RESTORE_BATCH
  BY <1>1, <1>2, <1>3 DEF RstTo
<1>5. rst'.step = "key" /\ rst'.seed = rst.seed /\ rst'.quiet = rst.quiet /\ rst'.legacy = rst.legacy + 1
  BY <1>1, <1>2 DEF RstTo
<1>6. ASSUME NEW c \in {"recv", "change"}
      PROVE  BranchSearched(c)'
  <2>1. Derived(c)' = Derived(c)
    BY <1>1, <1>6 DEF Derived, MemSame
  <2>2. Batch(c)' = Batch(c)
    BY <1>1, <1>4, <1>6 DEF Batch
  <2>3. k[1] # c /\ c \in Branches
    BY <1>6, KeyTypes DEF Branches
  <2> HIDE DEF k
  <2> QED
    BY <1>1, <1>2, <1>5, <2>1, <2>2, <2>3, BranchStays
<1>7. BranchSearched("legacy")'
  <2> DEFINE d == Derived("legacy")
             n == Batch("legacy")
  <2>1. d' = d + 1 /\ d \in Nat /\ d = rst.legacy
    BY <1>3, <1>5 DEF Derived
  <2>2. n' = n + 1 /\ n \in Nat
    BY <1>1, <1>3, <1>4 DEF Batch
  <2>3. k = Key("legacy", rst.seed, d) /\ k[3] = d
    BY <1>2, <2>1, KeyTypes
  <2> HIDE DEF d, n, k
  <2>4. /\ d - n >= 0
        /\ \A i \in 0 .. d - 1 : Key("legacy", rst.seed, i) \in mem.keys
        /\ \A x \in mem.keys : x[1] = "legacy" /\ SeedOf(x) = rst.seed => x[3] < d
        /\ \A x \in got : x[1] = "legacy" /\ SeedOf(x) = rst.seed => x[3] < d - n
        /\ \A i \in (d - n) - rst.quiet * RESTORE_BATCH .. (d - n) - 1 : Key("legacy", rst.seed, i) \notin paid
    BY <1>1, <1>2 DEF BranchSearched, Looked, d, n, Branches
  <2>5. d' - n' = d - n
    BY <2>1, <2>2
  <2>6. /\ d' - n' >= 0
        /\ \A x \in got' : x[1] = "legacy" /\ SeedOf(x) = rst'.seed => x[3] < d' - n'
        /\ \A i \in (d' - n') - rst'.quiet * RESTORE_BATCH .. (d' - n') - 1 :
             Key("legacy", rst'.seed, i) \notin paid'
    BY <1>1, <1>5, <2>4, <2>5
  <2>7. \A i \in 0 .. d' - 1 : Key("legacy", rst'.seed, i) \in mem'.keys
    <3>1. \A i \in 0 .. d' - 1 : i \in 0 .. d - 1 \/ i = d
      BY <2>1
    <3> QED
      BY <1>1, <1>5, <2>3, <2>4, <3>1
  <2>8. \A x \in mem'.keys : x[1] = "legacy" /\ SeedOf(x) = rst'.seed => x[3] < d'
    <3>1. \A x \in mem.keys : x[3] \in Nat
      BY SearchNumbers DEF KeySet
    <3> QED
      BY <1>1, <1>5, <2>1, <2>3, <2>4, <3>1
  <2> QED
    BY <1>5, <2>6, <2>7, <2>8 DEF BranchSearched, Looked, d, n
<1>8. \A c \in Branches : BranchSearched(c)'
  BY <1>6, <1>7 DEF Branches
<1> QED
  BY <1>1, <1>2, <1>3, <1>4, <1>5, <1>8 DEF Searched, MemSame

\* The scan of a branch: if it was quiet, the batch in hand joins the silence.
LEMMA ScanBranch ==
  ASSUME TypeInv, NEW b \in Branches, BranchSearched(b), KeysKnown,
         rst.at = "scan", rst.step = "key", got' = got \cup (paid \cap mem.keys),
         rst'.at \in {"finish", "recv"}, rst'.n = 0, rst'.seed = rst.seed, rst'.step = "key",
         mem'.keys = mem.keys, UNCHANGED paid, Derived(b)' = Derived(b),
         \/ rst'.quiet = 0
         \/ got' = got /\ rst'.quiet \in {rst.quiet, rst.quiet + 1}
  PROVE  BranchSearched(b)'
<1> DEFINE d == Derived(b)
           B == RESTORE_BATCH
<1>1. d' = d /\ d \in Nat /\ B \in Nat /\ rst.quiet \in Nat
  BY SearchNumbers
<1>2. Looked(b) = d - B
  BY DEF Looked, Batch, Branches
<1>3. Looked(b)' = d'
  <2>1. Batch(b)' = 0
    BY DEF Batch, Branches
  <2> QED
    BY <1>1, <2>1 DEF Looked
<1> HIDE DEF d, B
<1>4. /\ d - B >= 0
      /\ \A i \in 0 .. d - 1 : Key(b, rst.seed, i) \in mem.keys
      /\ \A k \in mem.keys : k[1] = b /\ SeedOf(k) = rst.seed => k[3] < d
      /\ \A k \in got : k[1] = b /\ SeedOf(k) = rst.seed => k[3] < d - B
      /\ \A i \in (d - B) - rst.quiet * B .. (d - B) - 1 : Key(b, rst.seed, i) \notin paid
  BY <1>2 DEF BranchSearched, d, B
<1>5. \A k \in got' : k[1] = b /\ SeedOf(k) = rst.seed => k[3] < d
  <2>1. \A k \in got : k[3] \in Nat
    BY DEF KeysKnown, KnownKeys, KeySet
  <2> QED
    BY <1>1, <1>4, <2>1
<1>6. \A i \in d - rst'.quiet * B .. d - 1 : Key(b, rst.seed, i) \notin paid
  <2>1. SUFFICES ASSUME NEW i \in Int, d - rst'.quiet * B <= i, i <= d - 1, rst'.quiet # 0,
                        Key(b, rst.seed, i) \in paid
                 PROVE  FALSE
    <3>1. CASE rst'.quiet = 0
      <4>1. rst'.quiet * B = 0
        BY <1>1, <3>1
      <4> QED
        BY <1>1, <4>1
    <3>2. rst'.quiet * B \in Int
      BY <1>1
    <3> QED
      BY <1>1, <3>1, <3>2
  <2>2. got' = got /\ rst'.quiet \in {rst.quiet, rst.quiet + 1}
    BY <2>1
  <2>3. rst'.quiet * B <= rst.quiet * B + B /\ rst.quiet * B \in Int
    <3>1. (rst.quiet + 1) * B = rst.quiet * B + B /\ rst.quiet * B \in Int
      BY <1>1
    <3> QED
      BY <1>1, <2>2, <3>1
  <2>4. CASE i < d - B
    <3>1. (d - B) - rst.quiet * B <= i /\ i <= (d - B) - 1
      <4> DEFINE q == rst.quiet * B
                 r == rst'.quiet * B
      <4>1. r <= q + B /\ q \in Int /\ r \in Int
        BY <1>1, <2>2, <2>3
      <4>2. d - r <= i
        BY <2>1
      <4> HIDE DEF q, r
      <4>3. (d - B) - q <= i /\ i <= (d - B) - 1
        BY <1>1, <2>1, <2>4, <4>1, <4>2
      <4> QED
        BY <4>3 DEF q
    <3>2. rst.quiet * B \in Int
      BY <1>1
    <3>3. Key(b, rst.seed, i) \notin paid
      BY <1>1, <1>4, <2>1, <3>1, <3>2
    <3> QED
      BY <2>1, <3>3
  <2>5. CASE d - B <= i
    <3>1. Key(b, rst.seed, i) \in mem.keys
      BY <1>1, <1>4, <2>1, <2>5
    <3>2. Key(b, rst.seed, i) \in got
      BY <2>1, <2>2, <3>1
    <3>3. i < d - B
      BY <1>4, <3>2, KeyTypes, KeySeeds
    <3> QED
      BY <1>1, <2>1, <2>5, <3>3
  <2> QED
    BY <1>1, <2>1, <2>4, <2>5
<1>7. /\ d' >= 0
      /\ \A i \in 0 .. d' - 1 : Key(b, rst'.seed, i) \in mem'.keys
      /\ \A k \in mem'.keys : k[1] = b /\ SeedOf(k) = rst'.seed => k[3] < d'
      /\ \A k \in got' : k[1] = b /\ SeedOf(k) = rst'.seed => k[3] < d'
      /\ \A i \in d' - rst'.quiet * B .. d' - 1 : Key(b, rst'.seed, i) \notin paid'
  BY <1>1, <1>4, <1>5, <1>6
<1> QED
  BY <1>3, <1>7 DEF BranchSearched, d, B

LEMMA ScanFinds ==
  ASSUME TypeInv, KeysKnown, Searched, RestoreScan
  PROVE  Searched'
<1> DEFINE quiet == IF Cardinality(got') = rst.before THEN Min({rst.quiet + 1, RESTORE_QUIET_BATCHES}) ELSE 0
           stop == quiet >= RESTORE_QUIET_BATCHES /\ RestoreScanReachedDepth
           at == IF stop \/ rst.total >= RESTORE_MAX THEN "finish" ELSE "recv"
<1>1. /\ rst.at = "scan" /\ got' = got \cup (paid \cap mem.keys)
      /\ RstTo(at, rst.step, rst.n, rst.legacy, quiet)
      /\ rst'.total = rst.total /\ rst'.before = Cardinality(got')
      /\ mem'.keys = mem.keys /\ mem'.seed = mem.seed
      /\ mem'.next["recv"] = mem.next["recv"] /\ mem'.next["change"] = mem.next["change"]
      /\ UNCHANGED <<job, paid>>
  BY ScanMoves
<1>2. /\ job.pc = "idle" /\ rst.seed \in Seeds /\ mem.seed = rst.seed /\ rst.before = Cardinality(got)
      /\ rst.step = "key"
      /\ rst.n = 0 /\ rst.quiet <= RESTORE_QUIET_BATCHES
      /\ \A c \in Branches : BranchSearched(c)
  BY <1>1 DEF Searched
<1>3. /\ RESTORE_BATCH \in Nat /\ RESTORE_BATCH > 0 /\ RESTORE_QUIET_BATCHES \in Nat /\ rst.quiet \in Nat
  BY SearchNumbers
<1>4. Cardinality(got') = rst.before => got' = got
  <2>1. IsFiniteSet(got') /\ got \subseteq got'
    <3>1. IsFiniteSet(paid) /\ got' \subseteq paid
      BY <1>1 DEF KeysKnown
    <3> QED
      BY <1>1, <3>1, FS_Subset
  <2> QED
    BY <1>2, <2>1, FS_Subset
<1>5. quiet = 0 \/ (got' = got /\ quiet \in {rst.quiet, rst.quiet + 1})
  <2>1. CASE Cardinality(got') # rst.before
    BY <2>1
  <2>2. CASE Cardinality(got') = rst.before
    <3> DEFINE two == {rst.quiet + 1, RESTORE_QUIET_BATCHES}
    <3>1. quiet = Min(two)
      BY <2>2
    <3>2. Min(two) \in two /\ \A m \in two : Min(two) <= m
      <4>1. two \in SUBSET Nat /\ two # {}
        BY <1>3
      <4> QED
        BY <4>1, MinIsLeast
    <3> HIDE DEF quiet
    <3>3. quiet = rst.quiet + 1 \/ (quiet = RESTORE_QUIET_BATCHES /\ quiet <= rst.quiet + 1)
      BY <3>1, <3>2
    <3>4. quiet \in {rst.quiet, rst.quiet + 1}
      BY <1>2, <1>3, <3>3
    <3> QED
      BY <1>4, <2>2, <3>4
  <2> QED
    BY <2>1, <2>2
<1>6. quiet <= RESTORE_QUIET_BATCHES /\ quiet \in Nat
  <2>1. {rst.quiet + 1, RESTORE_QUIET_BATCHES} \in SUBSET Nat
    BY <1>3
  <2>2. Min({rst.quiet + 1, RESTORE_QUIET_BATCHES}) <= RESTORE_QUIET_BATCHES
    BY <2>1, MinIsLeast
  <2>3. quiet <= RESTORE_QUIET_BATCHES
    BY <1>3, <2>2
  <2> HIDE DEF quiet
  <2> QED
    BY <1>3, <1>5, <2>3
<1> HIDE DEF quiet
<1>7. at = "finish" => rst.total >= RESTORE_MAX \/ (quiet = RESTORE_QUIET_BATCHES /\ RestoreScanReachedDepth)
  BY <1>3, <1>6
<1>8. at \in {"finish", "recv"}
  OBVIOUS
<1> HIDE DEF at
<1>9. /\ rst'.at = at /\ rst'.step = "key" /\ rst'.n = 0 /\ rst'.legacy = rst.legacy /\ rst'.quiet = quiet
      /\ rst'.seed = rst.seed
  BY <1>1, <1>2 DEF RstTo
<1>10. \A b \in Branches : Derived(b)' = Derived(b)
  BY <1>1, <1>9 DEF Derived, Branches
<1>11. \A b \in Branches : BranchSearched(b)'
  BY <1>1, <1>2, <1>5, <1>8, <1>9, <1>10, ScanBranch
<1>12. RestoreScanReachedDepth => \A b \in Branches : Derived(b)' >= RESTORE_MIN_SCAN
  BY <1>10 DEF RestoreScanReachedDepth, Derived, Branches
<1>13. paid' \cap mem'.keys \subseteq got'
  BY <1>1
<1> QED
  BY <1>1, <1>2, <1>3, <1>6, <1>7, <1>8, <1>9, <1>11, <1>12, <1>13 DEF Searched

\* The search begins where the phrase was installed.
LEMMA SetDefaultFinds ==
  ASSUME TypeInv, rst.at = "seed", NothingFound, Undisturbed', SetDefaultKey
  PROVE  Searched'
<1>1. JobOK /\ RstOK /\ job.then = "restore" /\ job.pc = "defaultkey" /\ ~ Refused
  BY RefusalEnds DEF TypeInv, RstOK, SetDefaultKey
<1>2. job' = Idle /\ rst' = [rst EXCEPT !.at = "recv", !.total = 1, !.before = Cardinality(got)]
      /\ UNCHANGED <<got, paid>>
  BY <1>1 DEF SetDefaultKey
<1>3. mem'.keys = mem.keys /\ mem'.seed = mem.seed /\ mem'.next = mem.next
  BY SetDefaultEffect DEF MemIs
<1>4. /\ rst'.at = "recv" /\ rst'.n = 0 /\ rst'.quiet = 0 /\ rst'.legacy = 0 /\ rst'.step = "key"
      /\ rst'.seed = rst.seed /\ rst'.before = Cardinality(got)
  BY <1>1, <1>2 DEF RstOK, NothingFound
<1>5. /\ rst.seed \in Seeds /\ job.key = Key("recv", rst.seed, 0) /\ job.key \in mem.keys
      /\ mem.seed = rst.seed /\ mem.next.recv = 1 /\ mem.next.change = 0
      /\ \A k \in got : SeedOf(k) # rst.seed
      /\ \A k \in mem.keys : SeedOf(k) = rst.seed => k = job.key
  BY <1>1 DEF NothingFound
<1>6. RESTORE_BATCH \in Nat /\ RESTORE_BATCH > 0 /\ RESTORE_QUIET_BATCHES \in Nat
  BY SearchNumbers
<1>7. ASSUME NEW b \in Branches
      PROVE  BranchSearched(b)'
  <2>1. Derived(b)' = IF b = "recv" THEN 1 ELSE 0
    BY <1>3, <1>4, <1>5 DEF Derived, Branches
  <2>2. Looked(b)' = IF b = "recv" THEN 1 ELSE 0
    <3>1. Batch(b)' = 0
      BY <1>4 DEF Batch, Branches
    <3> QED
      BY <2>1, <3>1 DEF Looked
  <2>3. \A i \in 0 .. Derived(b)' - 1 : b = "recv" /\ i = 0
    BY <2>1
  <2>4. rst'.quiet * RESTORE_BATCH = 0
    BY <1>4, <1>6
  <2>5. job.key[1] = "recv" /\ job.key[3] = 0
    BY <1>5, KeyTypes
  <2>6. \A k \in mem'.keys : k[1] = b /\ SeedOf(k) = rst'.seed => k[3] < Derived(b)'
    BY <1>3, <1>4, <1>5, <2>1, <2>5
  <2>7. \A i \in Looked(b)' - rst'.quiet * RESTORE_BATCH .. Looked(b)' - 1 : FALSE
    BY <2>2, <2>4
  <2> QED
    BY <1>2, <1>3, <1>4, <1>5, <2>2, <2>3, <2>6, <2>7 DEF BranchSearched
<1>8. job'.pc = "idle"
  BY <1>2 DEF Idle
<1> QED
  BY <1>2, <1>3, <1>4, <1>5, <1>6, <1>7, <1>8 DEF Searched

----------------------------------------------------------------------------
(* SearchInv is inductive, and gives RestoreFinds.                         *)

LEMMA StepFinds ==
  ASSUME TypeInv, KeysKnown, Searched, RestoreStep, Undisturbed'
  PROVE  (rst'.at = "seed" => NothingFound') /\ (rst'.at \in Searching => Searched')
<1>1. CASE RestoreFinish
  <2>1. rst'.at = "filling"
    BY <1>1, RestoreFinishEffect DEF RstAt
  <2> QED
    BY <2>1 DEF Searching
<1>2. CASE RestoreLegacyKey
  BY <1>2, LegacyFinds, LegacyMoves DEF RstTo
<1>3. CASE RestoreScan
  <2>1. rst'.at \in {"finish", "recv"}
    BY <1>3, RestoreScanEffect DEF RstAt
  <2> QED
    BY <1>3, <2>1, ScanFinds
<1>4. ASSUME NEW b \in {"recv", "change"}, RestoreKey(b) \/ RestoreCount(b) \/ RestoreWriteNext(b)
      PROVE  rst'.at # "seed" /\ Searched'
  <2>1. CASE RestoreKey(b)
    BY <2>1, KeyFinds, KeyMoves DEF RstTo
  <2>2. CASE RestoreCount(b)
    BY <2>2, CountFinds, CountMoves DEF RstTo
  <2>3. CASE RestoreWriteNext(b)
    BY <2>3, WriteFinds, WriteMoves DEF RstTo
  <2> QED
    BY <1>4, <2>1, <2>2, <2>3
<1> QED
  BY <1>1, <1>2, <1>3, <1>4 DEF RestoreStep

LEMMA NextFinds == TypeInv /\ KeysKnown /\ SearchInv /\ [Next]_vars => SearchInv'
<1> SUFFICES ASSUME TypeInv, KeysKnown, SearchInv, [Next]_vars PROVE SearchInv'
  OBVIOUS
<1>1. CASE UNCHANGED vars
  BY <1>1 DEF vars, ghosts, SearchInv, Undisturbed, NothingFound, Searched, BranchSearched, Looked, Derived, Batch
<1>2. CASE Next
  <2>1. SUFFICES ASSUME Undisturbed'
                 PROVE  (rst'.at = "seed" => NothingFound') /\ (rst'.at \in Searching => Searched')
    BY DEF SearchInv
  <2>2. RstOK
    BY DEF TypeInv
  <2>3. CASE rst.at \in {"off", "filling"}
    <3>1. CASE rst'.at \in {"seed"} \cup Searching
      <4>1. PICK s \in Seeds : RestoreFromPhrase(s)
        BY <1>2, <2>3, <3>1, RestoreBegins
      <4> QED
        BY <2>1, <4>1, BeginsFinds DEF Searching
    <3> QED
      BY <3>1
  <2>4. CASE rst.at = "seed"
    <3>1. NothingFound
      BY <1>2, <2>1, <2>4, DisturbedStays DEF SearchInv
    <3>2. CASE SetDefaultKey
      <4>1. rst'.at = "recv"
        <5>1. job.then = "restore" /\ ~ Refused
          BY <2>1, <2>2, <2>4, RefusalEnds DEF RstOK
        <5>2. rst' = [rst EXCEPT !.at = "recv", !.total = 1, !.before = Cardinality(got)]
          BY <3>2, <5>1 DEF SetDefaultKey
        <5> QED
          BY <2>2, <5>2 DEF RstOK
      <4> QED
        BY <2>1, <2>4, <3>1, <3>2, <4>1, SetDefaultFinds
    <3>3. CASE ClearKeyPoolRecords \/ WriteSeed \/ AddDefaultKey
      BY <2>1, <2>4, <3>1, <3>3, InstallFinds DEF Searching
    <3> QED
      BY <1>2, <2>1, <2>4, <3>2, <3>3, InstallAlone
  <2>5. CASE rst.at \in Searching
    <3>1. Searched
      BY <1>2, <2>1, <2>5, DisturbedStays DEF SearchInv, Searching
    <3>2. RestoreStep
      BY <1>2, <2>1, <2>5, <3>1, SearchAlone DEF Searched
    <3> QED
      BY <2>1, <3>1, <3>2, StepFinds
  <2> QED
    BY <2>2, <2>3, <2>4, <2>5 DEF RstOK
<1> QED
  BY <1>1, <1>2

LEMMA InitFinds == Init => KeysKnown /\ SearchInv
<1> SUFFICES ASSUME Init PROVE KeysKnown /\ SearchInv
  OBVIOUS
<1>1. PICK plan \in Plans :
        /\ file = [NoFile EXCEPT !.wallet = StartWallet(plan.start)]
        /\ handed = IF plan.start = "fresh" THEN {} ELSE {Key("legacy", file.wallet.seed, 0)}
  BY DEF Init
<1>2. /\ paid = handed /\ got = handed /\ mem = Blank /\ spare = NoFile /\ aside = {} /\ unsaved = {}
      /\ rst = Resting
  BY DEF Init
<1>3. plan.start \in {"fresh", "legacy"}
  BY KeysAssumption
<1> DEFINE w == StartWallet(plan.start)
<1>4. /\ WalletOK(w)
      /\ plan.start = "legacy" => Key("legacy", w.seed, 0) \in w.keys
  BY <1>3, StartOK
<1>5. file.wallet = w
  BY <1>1 DEF NoFile
<1>6. \A k \in w.keys : Proper(k)
  <2>1. CASE plan.start = "fresh"
    <3>1. w.keys = {Random(0)}
      BY <2>1 DEF StartWallet, Blank
    <3> QED
      BY <3>1, ProperKeys
  <2>2. CASE plan.start = "legacy"
    <3> DEFINE s == CHOOSE s \in Seeds : TRUE
    <3>1. w.keys = {Random(0)} \cup {Key("legacy", s, i) : i \in 0 .. KEYPOOL_SIZE}
      BY <2>2 DEF StartWallet, Blank
    <3>2. s \in Seeds /\ KEYPOOL_SIZE \in Nat
      BY KeysAssumption
    <3> HIDE DEF s, w
    <3>3. \A i \in 0 .. KEYPOOL_SIZE : Proper(Key("legacy", s, i))
      BY <3>2, ProperKeys DEF Branches
    <3> QED
      BY <3>1, <3>3, ProperKeys
  <2> QED
    BY <1>3, <2>1, <2>2
<1> HIDE DEF w
<1>7. handed \subseteq w.keys /\ IsFiniteSet(handed)
  <2>1. IsFiniteSet({}) /\ IsFiniteSet({Key("legacy", file.wallet.seed, 0)})
    BY FS_EmptySet, FS_Singleton
  <2> QED
    BY <1>1, <1>3, <1>4, <1>5, <2>1
<1>8. mem.keys = {} /\ spare.wallet.keys = {}
  BY <1>2 DEF Blank, NoFile
<1>9. KeysKnown
  <2>1. KnownKeys \subseteq w.keys
    BY <1>2, <1>5, <1>7, <1>8 DEF KnownKeys
  <2> QED
    BY <1>2, <1>6, <1>7, <2>1 DEF KeysKnown, Proper
<1>10. SearchInv
  BY <1>2 DEF SearchInv, Undisturbed, Resting
<1> QED
  BY <1>9, <1>10

\* Before the least key of a branch that the search missed there is nothing for
\* as long as the search takes to give up.
LEMMA SilenceBefore ==
  ASSUME TypeInv, KeysKnown, Searched, rst.at = "finish", rst.quiet = RESTORE_QUIET_BATCHES,
         NEW b \in Branches, Derived(b) >= RESTORE_MIN_SCAN,
         NEW i \in Nat, Key(b, rst.seed, i) \in paid \ got,
         \A j \in Nat : Key(b, rst.seed, j) \in paid \ got => i <= j
  PROVE  LongSilence(Key(b, rst.seed, i))
<1> DEFINE d == Derived(b)
           q == RESTORE_QUIET_BATCHES * RESTORE_BATCH
<1>1. /\ BranchSearched(b) /\ paid \cap mem.keys \subseteq got
      /\ RESTORE_QUIET_BATCHES * RESTORE_BATCH = rst.quiet * RESTORE_BATCH
  BY DEF Searched
<1>2. d \in Nat /\ q \in Nat
  <2>1. RESTORE_QUIET_BATCHES \in Nat /\ RESTORE_BATCH \in Nat /\ Derived(b) \in Nat
    BY SearchNumbers
  <2> QED
    BY <2>1
<1>3. Looked(b) = d
  <2>1. Batch(b) = 0
    BY DEF Batch, Branches
  <2> QED
    BY <1>2, <2>1 DEF Looked
<1>4. rst.quiet * RESTORE_BATCH = q
  BY <1>1
<1>5. Key(b, rst.seed, i)[1] = b /\ Key(b, rst.seed, i)[2] = rst.seed /\ Key(b, rst.seed, i)[3] = i
  BY KeyTypes
<1> HIDE DEF d, q
<1>6. /\ \A j \in 0 .. d - 1 : Key(b, rst.seed, j) \in mem.keys
      /\ \A k \in got : k[1] = b /\ SeedOf(k) = rst.seed => k[3] < d
      /\ \A j \in d - q .. d - 1 : Key(b, rst.seed, j) \notin paid
  BY <1>1, <1>3, <1>4 DEF BranchSearched, d
<1>7. i >= d
  <2>1. Key(b, rst.seed, i) \notin mem.keys
    BY <1>1
  <2> QED
    BY <1>2, <1>6, <2>1
<1>8. d >= RESTORE_MIN_SCAN
  BY DEF d
<1>9. i >= RESTORE_MIN_SCAN
  <2>1. RESTORE_MIN_SCAN \in Nat
    BY KeysAssumption DEF RESTORE_MIN_SCAN
  <2> QED
    BY <1>2, <1>7, <1>8, <2>1
<1>10. ASSUME NEW j \in i - q .. i - 1, Key(b, rst.seed, j) \in paid
       PROVE  FALSE
  <2>1. j \in Nat
    <3>1. Key(b, rst.seed, j) \in KeySet
      BY <1>10 DEF KeysKnown, KnownKeys
    <3> QED
      BY <3>1 DEF KeySet, Key
  <2>2. j < i /\ i - q <= j
    BY <1>2, <1>10
  <2>3. Key(b, rst.seed, j) \in got
    BY <1>10, <2>1, <2>2
  <2>4. j < d
    BY <1>6, <2>3, KeyTypes, KeySeeds
  <2>5. j \in d - q .. d - 1
    BY <1>2, <1>7, <2>1, <2>2, <2>4
  <2> QED
    BY <1>6, <1>10, <2>5
<1> QED
  BY <1>5, <1>9, <1>10 DEF LongSilence, q

\* The search ended, so what it missed lies behind a silence.
LEMMA Finds ==
  ASSUME TypeInv, KeysKnown, SearchInv
  PROVE  RestoreFinds
<1>1. SUFFICES ASSUME rst.at = "finish", Undisturbed, rst.total < RESTORE_MAX,
                      NEW k \in paid \ got, SeedOf(k) = rst.seed
               PROVE  \E i \in 0 .. k[3] : /\ Key(k[1], k[2], i) \in paid \ got
                                           /\ LongSilence(Key(k[1], k[2], i))
  BY DEF RestoreFinds
<1>2. Searched
  BY <1>1 DEF SearchInv, Searching
<1>3. rst.quiet = RESTORE_QUIET_BATCHES /\ \A b \in Branches : Derived(b) >= RESTORE_MIN_SCAN
  <2>1. rst.total \in Nat /\ RESTORE_MAX \in Nat
    BY SearchNumbers, KeysAssumption
  <2> QED
    BY <1>1, <1>2, <2>1 DEF Searched
<1>4. k[1] \in Branches /\ k[2] = rst.seed /\ k[3] \in Nat /\ k = Key(k[1], rst.seed, k[3])
  <2>1. k \in KeySet /\ (k[1] = "random" => SeedOf(k) = None)
    BY DEF KeysKnown, KnownKeys
  <2>2. rst.seed # None
    BY <1>2, KeysAssumption DEF Searched
  <2> QED
    BY <1>1, <2>1, <2>2 DEF KeySet, Key, SeedOf, Branches
<1> DEFINE T == {i \in Nat : Key(k[1], rst.seed, i) \in paid \ got}
<1>5. T \in SUBSET Nat /\ k[3] \in T
  BY <1>4
<1>6. PICK i \in T : \A j \in T : i <= j
  BY <1>5, LeastNat
<1>7. i \in 0 .. k[3]
  BY <1>4, <1>5, <1>6
<1>8. LongSilence(Key(k[1], rst.seed, i))
  BY <1>1, <1>2, <1>3, <1>4, <1>6, SilenceBefore
<1> QED
  BY <1>4, <1>6, <1>7, <1>8

\* RestoreFinds: however deep the coins of a phrase lie, RestoreFromPhrase
\* (walletcmd.cpp) gives up only behind RESTORE_QUIET_BATCHES batches without
\* any on that branch, and never before RESTORE_MIN_SCAN keys of each branch.
\* Coins beyond that it may miss, those of RestoreAgainFinds (MCAgain) too.
\* Left out, as the property says: a restore during which a change key was
\* derived or the write of a key was refused.
THEOREM RestoreFindsCorrect == Spec => []RestoreFinds
<1>1. Init => TypeInv /\ StoredInv /\ KeysKnown /\ SearchInv
  BY InitOK, InitFinds
<1>2. /\ TypeInv /\ [Next]_vars => TypeInv'
      /\ TypeInv /\ StoredInv /\ [Next]_vars => StoredInv'
      /\ TypeInv /\ StoredInv /\ KeysKnown /\ [Next]_vars => KeysKnown'
      /\ TypeInv /\ KeysKnown /\ SearchInv /\ [Next]_vars => SearchInv'
  BY NextTypes, NextStored, NextKnown, NextFinds
<1>3. TypeInv /\ KeysKnown /\ SearchInv => RestoreFinds
  BY Finds
<1> QED
  BY <1>1, <1>2, <1>3, PTL DEF Spec
=============================================================================
