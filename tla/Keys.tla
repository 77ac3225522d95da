-------------------------------- MODULE Keys --------------------------------
(***************************************************************************)
(* The wallet's keys: the key pool, keys derived from a recovery phrase,   *)
(* the search a restore makes for the coins of a phrase, and encryption    *)
(* (main.cpp, walletcmd.cpp, db.cpp, with the SQLite store).               *)
(*                                                                         *)
(* What the program knows (mem) and what the file holds (file) move apart: *)
(* every record is written by itself, a write may be refused, and the      *)
(* process may end between two of them.  One holder of cs_keyPool works at *)
(* a time (job); a restore from the window runs on a thread of its own and *)
(* takes that lock only at its two ends (rst).                             *)
(***************************************************************************)
EXTENDS Integers, Sequences, FiniteSets, FiniteSetsExt, Functions

CONSTANTS
  KEYPOOL_SIZE, RESTORE_BATCH, RESTORE_QUIET_BATCHES, RESTORE_MAX,
  Seeds,        \* the phrases there are, as many as can be made
  None,         \* no seed, no key
  Plans         \* bounds: the wallet to start from, what is asked of it, in that order,
                \* how many keys are paid, how many writes fail, how often the process ends

RESTORE_MIN_SCAN == KEYPOOL_SIZE + (RESTORE_QUIET_BATCHES + 1) * RESTORE_BATCH

\* A key is a random one, or one of a branch of a phrase, with its index.
KeySet == {"random", "recv", "change", "legacy"} \X (Seeds \cup {None}) \X Nat

Ops == {"draw", "change", "phrase", "restore", "encrypt", "backup", "lose"}

ASSUME KeysAssumption ==
  /\ {KEYPOOL_SIZE, RESTORE_BATCH, RESTORE_QUIET_BATCHES, RESTORE_MAX} \subseteq Nat \ {0}
  /\ Seeds # {} /\ None \notin Seeds /\ None \notin KeySet
  /\ Plans \subseteq [start : {"fresh", "legacy"}, ops : Seq(Ops), coins : Nat, fail : Nat, crash : Nat]

VARIABLES
  mem,      \* mapKeys, mapKeyPool, vchHDMaster, nHDKeySchema, nHD*Next, keyUser
  locked,   \* IsWalletLocked()
  file,     \* wallet.sqlite
  spare,    \* wallet.sqlite.encrypting
  aside,    \* keys of the wallets that EncryptWallet moved aside
  job,      \* what the holder of cs_keyPool is doing
  rst,      \* RestoreFromPhrase
  made,     \* random keys made so far
  got,      \* keys whose coins mapWallet has
  \* What the world knows of the wallet, and the wallet does not keep:
  handed,   \* keys it gave out and should not give out again
  again,    \* ... and gave out again
  out,      \* keys given out since this file was made
  paid,     \* keys with coins on the chain
  bare,     \* keys given out although the phrase does not cover them
  bak,      \* the last backup: its keys, and how many draws it must cover
  missed,   \* draws it had to cover and does not
  unsaved,  \* keys whose write was refused
  blame,    \* what happened that tla/README.md lists as a known exception
  left,     \* what is left of the plan
  fails     \* writes refused so far

ghosts == <<handed, again, out, paid, bare, bak, missed>>
vars == <<mem, locked, file, spare, aside, job, rst, made, got, ghosts, unsaved, blame, left, fails>>

Branches == {"recv", "change", "legacy"}

\* A key is known by where it comes from.
Key(b, s, i) == <<b, s, i>>
Random(n) == <<"random", None, n>>
SeedOf(k) == k[2]

\* An empty wallet, which stands for no file at all.
Blank == [keys |-> {}, pool |-> <<>>, seed |-> None, schema |-> "none",
          next |-> [b \in Branches |-> 0], def |-> None]
NoFile == [wallet |-> Blank, cseed |-> None, enc |-> FALSE]

HaveHDSeed == mem.seed # None
Put(f, i, k) == [j \in DOMAIN f \cup {i} |-> IF j = i THEN k ELSE f[j]]
Drop(f, i) == Restrict(f, DOMAIN f \ {i})

\* One write to the store, which may be refused.
Write(ok) == (ok \/ fails < left.fail) /\ fails' = IF ok THEN fails ELSE fails + 1

\* The person at the wallet, or the miner, asks for something.
Ask(op) ==
  /\ job.pc = "idle" /\ left.ops # <<>> /\ Head(left.ops) = op
  /\ left' = [left EXCEPT !.ops = Tail(@)]

Idle == [pc |-> "idle", then |-> "none", key |-> None, n |-> 0, out |-> None]
Go(pc) == job' = [job EXCEPT !.pc = pc]
Resting == [at |-> "off", seed |-> None, n |-> 0, total |-> 0, quiet |-> 0,
            legacy |-> 0, before |-> 0, fresh |-> FALSE, whole |-> FALSE, step |-> "key"]

----------------------------------------------------------------------------
(* TopUpKeyPool, GetKeyFromPool and the derivation of the next key.        *)

\* The counter the active schema uses, and the key it stands at.
Counter(use) ==
  IF mem.schema # "bip44" THEN "legacy" ELSE IF use = "change" THEN "change" ELSE "recv"
DeriveHDKey(use, i) == Key(Counter(use), mem.seed, i)

\* Mutant: the restore is not marked as ended.
ReturnForgets ==
  CASE job.then \in {"take", "give"} -> Go(job.then) /\ UNCHANGED rst
    [] OTHER                         -> job' = Idle /\ UNCHANGED rst

\* TopUpKeyPool has returned, or was not needed: on with what called it.
Return ==
  CASE job.then = "take"     -> Go("take") /\ UNCHANGED rst
    [] job.then = "give"     -> Go("give") /\ UNCHANGED rst
    [] job.then = "restored" -> job' = Idle /\ rst' = Resting
    [] OTHER                 -> job' = Idle /\ UNCHANGED rst

\* A derivation that fails: no change key, or a random key for the pool.
DeriveFails == IF job.then = "change" THEN job' = Idle ELSE Go("random")

\* (Bound: no draw from the pool while a restore runs; change keys are derived then.)
GetKeyFromPool ==
  /\ Ask("draw") /\ ~ locked /\ rst.at = "off"
  /\ job' = [Idle EXCEPT !.pc = "fill", !.then = "take"]
  /\ UNCHANGED <<mem, locked, file, spare, aside, rst, made, got, ghosts, unsaved, blame, fails>>

\* CreateTransaction wants a change key; without a seed it reuses a key.
DeriveNextHDChangeKey ==
  /\ Ask("change") /\ HaveHDSeed
  /\ job' = [Idle EXCEPT !.pc = "derive", !.then = "change"]
  /\ blame' = IF rst.at = "off" THEN blame ELSE blame \cup {"during"}
  /\ UNCHANGED <<mem, locked, file, spare, aside, rst, made, got, handed, again, out, paid, bare,
                 bak, missed, unsaved, fails>>

TopUpKeyPool ==
  /\ job.pc = "fill"
  /\ IF locked \/ Cardinality(DOMAIN mem.pool) >= KEYPOOL_SIZE THEN Return
     ELSE Go(IF HaveHDSeed THEN "derive" ELSE "random") /\ UNCHANGED rst
  /\ UNCHANGED <<mem, locked, file, spare, aside, made, got, ghosts, blame, unsaved, left, fails>>

\* AddKey: the key is in memory whether or not the file takes it.
AddKey(k, stored, refused) ==
  /\ mem' = [mem EXCEPT !.keys = @ \cup {k}]
  /\ \E ok \in BOOLEAN :
       /\ Write(ok)
       /\ IF ok THEN file' = [file EXCEPT !.wallet.keys = @ \cup {k}] /\ stored /\ UNCHANGED unsaved
          ELSE unsaved' = unsaved \cup {k} /\ refused /\ UNCHANGED file

\* DeriveNextHDReceiveKey and its change twin as far as AddKeyIfMissing.
DeriveNext ==
  /\ job.pc = "derive"
  /\ LET n == mem.next[Counter(job.then)]
         k == DeriveHDKey(job.then, n)
         counted == job' = [job EXCEPT !.pc = IF job.then = "change" THEN "reread" ELSE "count",
                                        !.key = k, !.n = n]
     IN \/ k \in mem.keys /\ counted /\ UNCHANGED <<mem, file, unsaved, fails>>
        \/ k \notin mem.keys /\ locked /\ DeriveFails /\ UNCHANGED <<mem, file, unsaved, fails>>
        \/ k \notin mem.keys /\ ~ locked /\ AddKey(k, counted, DeriveFails)
  /\ UNCHANGED <<locked, spare, aside, rst, made, got, ghosts, blame, left>>

\* A change key reads its counter a second time ...
RereadCounter ==
  /\ job.pc = "reread"
  /\ job' = [job EXCEPT !.pc = "count", !.n = mem.next[job.key[1]]]
  /\ UNCHANGED <<mem, locked, file, spare, aside, rst, made, got, ghosts, unsaved, blame, left, fails>>

\* ... and the counter goes on: for a change key that of its own branch, for a
\* receive key that of the schema that is active by now.
AdvanceCounter ==
  /\ job.pc = "count"
  /\ \E ok \in BOOLEAN :
       /\ Write(ok)
       /\ IF ok
            THEN LET c == IF job.then = "change" THEN job.key[1] ELSE Counter(job.then) IN
                 /\ file' = [file EXCEPT !.wallet.next[c] = job.n + 1]
                 /\ mem' = [mem EXCEPT !.next[c] = job.n + 1]
                 /\ IF job.then = "change" THEN job' = [job EXCEPT !.pc = "give", !.out = job.key]
                    ELSE Go("pool")
            ELSE DeriveFails /\ UNCHANGED <<mem, file>>
  /\ UNCHANGED <<locked, spare, aside, rst, made, got, ghosts, blame, unsaved, left>>

\* Mutant: the key goes to the file and not to mapKeys.
RandomKeyFileOnly ==
  /\ job.pc = "random"
  /\ LET k == Random(made) IN
     /\ made' = made + 1
     /\ UNCHANGED mem
     /\ \E ok \in BOOLEAN :
          /\ Write(ok)
          /\ IF ok THEN /\ file' = [file EXCEPT !.wallet.keys = @ \cup {k}]
                        /\ job' = [job EXCEPT !.pc = "pool", !.key = k]
                        /\ UNCHANGED <<rst, unsaved>>
             ELSE unsaved' = unsaved \cup {k} /\ Return /\ UNCHANGED file
  /\ UNCHANGED <<locked, spare, aside, got, ghosts, blame, left>>

\* MakeNewKey and AddKey.
RandomKey ==
  /\ job.pc = "random"
  /\ LET k == Random(made) IN
     /\ made' = made + 1
     /\ AddKey(k, job' = [job EXCEPT !.pc = "pool", !.key = k] /\ UNCHANGED rst, Return)
  /\ UNCHANGED <<locked, spare, aside, got, ghosts, blame, left>>

\* WritePool: from here on the key is on offer.
WritePool ==
  /\ job.pc = "pool"
  /\ LET i == IF DOMAIN mem.pool = {} THEN 1 ELSE Max(DOMAIN mem.pool) + 1 IN
     \E ok \in BOOLEAN :
       /\ Write(ok)
       /\ IF ok THEN /\ file' = [file EXCEPT !.wallet.pool = Put(@, i, job.key)]
                     /\ mem' = [mem EXCEPT !.pool = Put(@, i, job.key)]
                     /\ Go("fill") /\ UNCHANGED rst
          ELSE Return /\ UNCHANGED <<mem, file>>
  /\ UNCHANGED <<locked, spare, aside, made, got, ghosts, blame, unsaved, left>>

\* Mutant: the newest key leaves the pool.
TakeNewestFromPool ==
  /\ job.pc = "take" /\ DOMAIN mem.pool # {}
  /\ LET i == Max(DOMAIN mem.pool) IN
     /\ mem' = [mem EXCEPT !.pool = Drop(@, i)]
     /\ \E ok \in BOOLEAN :
          /\ Write(ok)
          /\ IF ok THEN file' = [file EXCEPT !.wallet.pool = Drop(@, i)] /\ UNCHANGED blame
             ELSE blame' = blame \cup {"erase"} /\ UNCHANGED file
     /\ job' = [job EXCEPT !.pc = "fill", !.then = "give", !.out = mem.pool[i]]
     /\ bak' = [bak EXCEPT !.left = IF @ > 0 THEN @ - 1 ELSE 0]
     /\ missed' = IF bak.left > 0 /\ mem.pool[i] \notin bak.keys THEN missed \cup {mem.pool[i]} ELSE missed
  /\ UNCHANGED <<locked, spare, aside, rst, made, got, handed, again, out, paid, bare, unsaved, left>>

\* The oldest key leaves the pool; whether its record went is not looked at.
TakeFromPool ==
  /\ job.pc = "take" /\ DOMAIN mem.pool # {}
  /\ LET i == Min(DOMAIN mem.pool) IN
     /\ mem' = [mem EXCEPT !.pool = Drop(@, i)]
     /\ \E ok \in BOOLEAN :
          /\ Write(ok)
          /\ IF ok THEN file' = [file EXCEPT !.wallet.pool = Drop(@, i)] /\ UNCHANGED blame
             ELSE blame' = blame \cup {"erase"} /\ UNCHANGED file
     /\ job' = [job EXCEPT !.pc = "fill", !.then = "give", !.out = mem.pool[i]]
     /\ bak' = [bak EXCEPT !.left = IF @ > 0 THEN @ - 1 ELSE 0]
     /\ missed' = IF bak.left > 0 /\ mem.pool[i] \notin bak.keys THEN missed \cup {mem.pool[i]} ELSE missed
  /\ UNCHANGED <<locked, spare, aside, rst, made, got, handed, again, out, paid, bare, unsaved, left>>

\* Nothing in the pool and nothing could be added: GenerateNewKey.
GenerateNewKey ==
  /\ job.pc = "take" /\ DOMAIN mem.pool = {}
  /\ LET k == Random(made) IN
     /\ made' = made + 1
     /\ AddKey(k, job' = [job EXCEPT !.pc = "give", !.out = k], job' = Idle)
  /\ UNCHANGED <<locked, spare, aside, rst, got, ghosts, blame, left>>

\* The key goes to the caller, and may be paid; the node sees its own coins.
Give(coin) ==
  /\ job.pc = "give"
  /\ coin => left.coins > 0
  /\ left' = IF coin THEN [left EXCEPT !.coins = @ - 1] ELSE left
  /\ LET k == job.out IN
     /\ handed' = handed \cup {k}
     /\ again' = again \cup ({k} \cap handed)
     /\ out' = out \cup {k}
     /\ bare' = IF HaveHDSeed /\ SeedOf(k) # mem.seed THEN bare \cup {k} ELSE bare
     /\ paid' = IF coin THEN paid \cup {k} ELSE paid
     /\ got' = IF coin THEN got \cup {k} ELSE got
  /\ job' = Idle
  /\ UNCHANGED <<mem, locked, file, spare, aside, rst, made, bak, missed, unsaved, blame, fails>>

----------------------------------------------------------------------------
(* SetHDSeedFromMnemonic, one write at a time.                             *)

\* A return of FALSE; a restore ends with it.
Refused ==
  /\ job' = Idle
  /\ rst' = IF job.then = "restore" THEN Resting ELSE rst
  /\ blame' = IF job.then = "restore" THEN blame \cup {"cut"} ELSE blame

\* Mutant: the pool is not cleared first.
InstallKeepsPool(s, then) ==
  /\ job' = [Idle EXCEPT !.pc = "seed", !.n = 1, !.then = then, !.key = Key("recv", s, 0)]
  /\ bak' = [bak EXCEPT !.left = 0]

Install(s, then) ==
  /\ job' = [Idle EXCEPT !.pc = "clear", !.then = then, !.key = Key("recv", s, 0)]
  /\ bak' = [bak EXCEPT !.left = 0]

\* CmdNewPhrase, or Finish in the window.
NewPhrase(s) ==
  /\ Ask("phrase") /\ ~ HaveHDSeed /\ rst.at = "off"
  /\ \A k \in mem.keys \cup Range(mem.pool) \cup handed \cup aside : SeedOf(k) # s
  /\ s \notin {file.wallet.seed, file.cseed}
  /\ Install(s, "idle")
  /\ blame' = IF file.cseed = None THEN blame ELSE blame \cup {"relabel"}
  /\ UNCHANGED <<mem, locked, file, spare, aside, rst, made, got, handed, again, out, paid, bare,
                 missed, unsaved, fails>>

\* ClearKeyPoolRecords: the records of the keys that are in memory.
ClearKeyPoolRecords ==
  /\ job.pc = "clear"
  /\ LET on == DOMAIN mem.pool \cap DOMAIN file.wallet.pool IN
     IF on = {}
       THEN /\ mem' = [mem EXCEPT !.pool = <<>>]
            /\ job' = [job EXCEPT !.pc = "seed", !.n = 1]
            /\ UNCHANGED <<file, rst, blame, fails>>
       ELSE \E ok \in BOOLEAN :
              /\ Write(ok)
              /\ IF ok THEN /\ file' = [file EXCEPT !.wallet.pool = Drop(@, Min(on))]
                            /\ UNCHANGED <<job, rst, blame>>
                 ELSE Refused /\ UNCHANGED file
              /\ UNCHANGED mem
  /\ UNCHANGED <<locked, spare, aside, made, got, ghosts, unsaved, left>>

\* The n-th record of the seed's metadata, as the file has it afterwards.
SeedRecord(w, s, n) ==
  CASE n = 1 -> [w EXCEPT !.seed = s]
    [] n = 2 -> [w EXCEPT !.schema = "bip44"]
    [] n = 3 -> [w EXCEPT !.next.legacy = 0]
    [] n = 4 -> [w EXCEPT !.next.recv = 1]
    [] n = 5 -> [w EXCEPT !.next.change = 0]

\* Mutant: in memory the receive counter starts at the default key.
WriteSeedFromZero ==
  /\ job.pc = "seed"
  /\ LET s == SeedOf(job.key) IN
     \E ok \in BOOLEAN :
       /\ Write(ok)
       /\ IF ok
            THEN /\ file' = [file EXCEPT !.wallet = SeedRecord(@, s, job.n)]
                 /\ IF job.n < 5 THEN job' = [job EXCEPT !.n = @ + 1] /\ UNCHANGED mem
                    ELSE /\ Go("default")
                         /\ mem' = [mem EXCEPT !.seed = s, !.schema = "bip44",
                                               !.next = [recv |-> 0, change |-> 0, legacy |-> 0]]
                 /\ UNCHANGED <<rst, blame>>
            ELSE Refused /\ UNCHANGED <<mem, file>>
  /\ UNCHANGED <<locked, spare, aside, made, got, ghosts, unsaved, left>>

WriteSeed ==
  /\ job.pc = "seed"
  /\ LET s == SeedOf(job.key) IN
     \E ok \in BOOLEAN :
       /\ Write(ok)
       /\ IF ok
            THEN /\ file' = [file EXCEPT !.wallet = SeedRecord(@, s, job.n)]
                 /\ IF job.n < 5 THEN job' = [job EXCEPT !.n = @ + 1] /\ UNCHANGED mem
                    ELSE /\ Go("default")
                         /\ mem' = [mem EXCEPT !.seed = s, !.schema = "bip44",
                                               !.next = [recv |-> 1, change |-> 0, legacy |-> 0]]
                 /\ UNCHANGED <<rst, blame>>
            ELSE Refused /\ UNCHANGED <<mem, file>>
  /\ UNCHANGED <<locked, spare, aside, made, got, ghosts, unsaved, left>>

\* The key of index 0, unless the wallet has it.
AddDefaultKey ==
  /\ job.pc = "default"
  /\ \/ job.key \in mem.keys /\ Go("defaultkey") /\ UNCHANGED <<mem, file, rst, unsaved, blame, fails>>
     \/ job.key \notin mem.keys /\ locked /\ Refused /\ UNCHANGED <<mem, file, unsaved, fails>>
     \/ /\ job.key \notin mem.keys /\ ~ locked
        /\ AddKey(job.key, Go("defaultkey") /\ UNCHANGED <<rst, blame>>, Refused)
  /\ UNCHANGED <<locked, spare, aside, made, got, ghosts, left>>

\* WriteDefaultKey and SetAddressBookName, either of which may be refused;
\* then the pool is filled, or the restore goes on.
SetDefaultKey ==
  /\ job.pc = "defaultkey"
  /\ \E ok, recorded \in BOOLEAN :
       /\ Write(ok) /\ (ok => recorded)
       /\ file' = IF recorded THEN [file EXCEPT !.wallet.def = job.key] ELSE file
       /\ IF ok
            THEN /\ mem' = [mem EXCEPT !.def = job.key]
                 /\ handed' = handed \cup {job.key} /\ UNCHANGED blame
                 /\ IF job.then = "restore"
                      THEN job' = Idle /\ rst' = [rst EXCEPT !.at = "recv", !.total = 1,
                                                             !.before = Cardinality(got)]
                      ELSE Go("fill") /\ UNCHANGED rst
            ELSE Refused /\ UNCHANGED <<mem, handed>>
  /\ UNCHANGED <<locked, spare, aside, made, got, again, out, paid, bare, bak, missed, unsaved,
                 left>>

----------------------------------------------------------------------------
(* RestoreFromPhrase.                                                      *)

RestoreFromPhrase(s) ==
  /\ Ask("restore") /\ rst.at = "off"
  /\ \E k \in handed \cup mem.keys : SeedOf(k) = s
  /\ Install(s, "restore")
  /\ LET fresh == \A k \in mem.keys : SeedOf(k) # s IN
     /\ rst' = [Resting EXCEPT !.at = "seed", !.seed = s, !.fresh = fresh,
                               !.whole = \A k \in got : SeedOf(k) # s]
     /\ blame' = blame \cup (IF fresh THEN {} ELSE {"over"})
                       \cup (IF file.cseed = None THEN {} ELSE {"relabel"})
  /\ UNCHANGED <<mem, locked, file, spare, aside, made, got, handed, again, out, paid, bare,
                 missed, unsaved, fails>>

\* AddKey of the loop: a locked wallet takes no key, and a key whose record is
\* there already is refused too.
StoreKey(k, stored, refused) ==
  \/ /\ locked \/ k \in file.wallet.keys
     /\ mem' = [mem EXCEPT !.keys = IF locked THEN @ ELSE @ \cup {k}]
     /\ refused /\ UNCHANGED <<file, unsaved, fails>>
  \/ ~ locked /\ k \notin file.wallet.keys /\ AddKey(k, stored, refused)

\* A refusal ends the batch, which counts like a whole one.
Stored == rst' = [rst EXCEPT !.step = "count"]
CutShort == rst' = [rst EXCEPT !.step = "write", !.whole = FALSE]

\* One key of a batch, on the receive or the change branch ...
RestoreKey(b) ==
  /\ rst.at = b /\ rst.step = "key"
  /\ StoreKey(Key(b, mem.seed, mem.next[b]), Stored, CutShort)
  /\ UNCHANGED <<locked, spare, aside, job, made, got, ghosts, blame, left>>

\* ... and its counter, in memory, which others may have moved meanwhile ...
RestoreCount(b) ==
  /\ rst.at = b /\ rst.step = "count"
  /\ mem' = [mem EXCEPT !.next[b] = @ + 1]
  /\ rst' = [rst EXCEPT !.n = @ + 1, !.total = @ + 1,
                        !.step = IF rst.n + 1 < RESTORE_BATCH THEN "key" ELSE "write"]
  /\ UNCHANGED <<locked, file, spare, aside, job, made, got, ghosts, blame, unsaved, left, fails>>

\* ... which is written when the batch ends.  The legacy branch comes last,
\* and for it the schema is changed for everyone.
RestoreWriteNext(b) ==
  /\ rst.at = b /\ rst.step = "write"
  /\ \E ok \in BOOLEAN :
       /\ Write(ok)
       /\ file' = IF ok THEN [file EXCEPT !.wallet.next[b] = mem.next[b]] ELSE file
  /\ rst' = [rst EXCEPT !.n = 0, !.step = "key", !.at = IF b = "recv" THEN "change" ELSE "legacy"]
  /\ mem' = IF b = "recv" THEN mem ELSE [mem EXCEPT !.schema = "legacy"]
  /\ UNCHANGED <<locked, spare, aside, job, made, got, ghosts, blame, unsaved, left>>

\* The legacy branch has a counter of its own; its batch done, the schema
\* is put back.
RestoreLegacyKey ==
  /\ rst.at = "legacy"
  /\ LET more == rst.n + 1 < RESTORE_BATCH
         k == Key("legacy", mem.seed, rst.legacy)
         scan == [rst EXCEPT !.at = "scan", !.n = 0]
     IN \E stored \in BOOLEAN :
          /\ mem' = [mem EXCEPT !.keys = IF locked THEN @ ELSE @ \cup {k},
                                !.schema = IF stored /\ more THEN "legacy" ELSE "bip44"]
          /\ rst' = IF ~ stored THEN [scan EXCEPT !.whole = FALSE]
                    ELSE [(IF more THEN [rst EXCEPT !.n = @ + 1] ELSE scan)
                            EXCEPT !.legacy = @ + 1, !.total = @ + 1]
          /\ IF locked \/ k \in file.wallet.keys THEN ~ stored /\ UNCHANGED <<file, unsaved, fails>>
             ELSE /\ Write(stored)
                  /\ file' = IF stored THEN [file EXCEPT !.wallet.keys = @ \cup {k}] ELSE file
                  /\ unsaved' = IF stored THEN unsaved ELSE unsaved \cup {k}
  /\ UNCHANGED <<locked, spare, aside, job, made, got, ghosts, blame, left>>

\* Mutant: only the receive branch has to be deep enough.
ReachedDepthReceive == mem.next.recv >= RESTORE_MIN_SCAN

RestoreScanReachedDepth ==
  /\ mem.next.recv >= RESTORE_MIN_SCAN
  /\ mem.next.change >= RESTORE_MIN_SCAN
  /\ rst.legacy >= RESTORE_MIN_SCAN

\* The legacy keys of this restore: hdnext goes behind the last with coins.
WalletLastUsedIndexNext ==
  LET used == {i \in 0 .. rst.legacy - 1 : Key("legacy", mem.seed, i) \in got'}
  IN IF used = {} THEN 0 ELSE Max(used) + 1

\* ScanForWalletTransactions over all keys, and whether to go on.  (The count of
\* quiet batches is kept up to where it matters.)
RestoreScan ==
  /\ rst.at = "scan"
  /\ got' = got \cup (paid \cap mem.keys)
  /\ LET used == WalletLastUsedIndexNext
         quiet == IF Cardinality(got') = rst.before THEN Min({rst.quiet + 1, RESTORE_QUIET_BATCHES}) ELSE 0
         stop == quiet >= RESTORE_QUIET_BATCHES /\ RestoreScanReachedDepth
     IN /\ mem' = [mem EXCEPT !.next.legacy = used]
        /\ \E ok \in BOOLEAN :
             /\ used = mem.next.legacy => ok
             /\ Write(ok)
             /\ file' = IF ok /\ used # mem.next.legacy
                         THEN [file EXCEPT !.wallet.next.legacy = used] ELSE file
        /\ rst' = [rst EXCEPT !.quiet = quiet, !.before = Cardinality(got'),
                              !.at = IF stop \/ rst.total >= RESTORE_MAX THEN "finish" ELSE "recv"]
  /\ UNCHANGED <<locked, spare, aside, job, made, ghosts, blame, unsaved, left>>

\* The last write of a counter was refused, or that of the key it stands at.
Behind ==
  \E b \in {"recv", "change"} :
    file.wallet.next[b] # mem.next[b] \/ Key(b, mem.seed, mem.next[b]) \in unsaved

\* The pool is emptied, in memory, and filled from where the search stopped.
RestoreFinish ==
  /\ rst.at = "finish" /\ job.pc = "idle"
  /\ mem' = [mem EXCEPT !.pool = <<>>]
  /\ job' = [Idle EXCEPT !.pc = "fill", !.then = "restored"]
  /\ handed' = handed \cap mem.keys
  /\ rst' = [rst EXCEPT !.at = "filling"]
  /\ blame' = IF Behind THEN blame \cup {"behind"} ELSE blame
  /\ UNCHANGED <<locked, file, spare, aside, made, got, again, out, paid, bare, bak, missed,
                 unsaved, left, fails>>

----------------------------------------------------------------------------
(* Encryption, backup, the end of the process and the next start.          *)

\* Mutant: the keys of the new pool are not written.
EncryptedOldKeys ==
  LET n == mem.next.legacy
      new == [i \in 1 .. KEYPOOL_SIZE |->
                IF HaveHDSeed THEN DeriveHDKey("receive", n + i - 1) ELSE Random(made + i - 1)]
  IN [wallet |-> [file.wallet EXCEPT
                    !.keys = mem.keys, !.pool = new, !.seed = None,
                    !.next.legacy = IF HaveHDSeed THEN n + KEYPOOL_SIZE ELSE n],
      cseed |-> mem.seed, enc |-> TRUE]

\* EncryptWallet: every key in memory and a new pool, derived from hdnext on.
Encrypted ==
  LET n == mem.next.legacy
      new == [i \in 1 .. KEYPOOL_SIZE |->
                IF HaveHDSeed THEN DeriveHDKey("receive", n + i - 1) ELSE Random(made + i - 1)]
  IN [wallet |-> [file.wallet EXCEPT
                    !.keys = mem.keys \cup Range(new), !.pool = new, !.seed = None,
                    !.next.legacy = IF HaveHDSeed THEN n + KEYPOOL_SIZE ELSE n],
      cseed |-> mem.seed, enc |-> TRUE]

\* The new file is complete; the old one is moved out of its way ...
EncryptWallet ==
  /\ Ask("encrypt") /\ ~ file.enc /\ rst.at = "off"
  /\ spare' = Encrypted /\ file' = NoFile /\ aside' = aside \cup file.wallet.keys
  /\ made' = IF HaveHDSeed THEN made ELSE made + KEYPOOL_SIZE
  /\ job' = [Idle EXCEPT !.pc = "swap"]
  /\ bak' = [bak EXCEPT !.left = 0]
  /\ blame' = IF mem.schema = "bip44" THEN blame \cup {"encrypt"} ELSE blame
  /\ UNCHANGED <<mem, locked, rst, got, handed, again, out, paid, bare, missed, unsaved, fails>>

Ends == mem' = Blank /\ locked' = FALSE /\ job' = [Idle EXCEPT !.pc = "down"] /\ rst' = Resting

\* ... and it takes its place.  The command ends here.
InstallEncrypted ==
  /\ job.pc = "swap"
  /\ file' = spare /\ spare' = NoFile
  /\ Ends
  /\ UNCHANGED <<aside, made, got, ghosts, blame, unsaved, left, fails>>

\* BackupWallet copies the file.
BackupWallet ==
  /\ Ask("backup") /\ rst.at = "off"
  /\ bak' = [keys |-> file.wallet.keys,
             left |-> Cardinality(DOMAIN mem.pool \cap DOMAIN file.wallet.pool)]
  /\ UNCHANGED <<mem, locked, file, spare, aside, job, rst, made, got, handed, again, out, paid, bare,
                 missed, unsaved, blame, fails>>

\* The process ends, wherever it is; a restore that was cut off has not
\* written its counters.
Crash ==
  /\ job.pc # "down" /\ left.crash > 0
  /\ left' = [left EXCEPT !.crash = @ - 1]
  /\ blame' = IF rst.at = "off" THEN blame ELSE blame \cup {"cut"}
  /\ Ends
  /\ UNCHANGED <<file, spare, aside, made, got, handed, again, out, paid, bare, bak, missed, unsaved, fails>>

\* Nothing of the machine is left.  Addresses nobody paid are forgotten.
Lose ==
  /\ Ask("lose") /\ rst.at = "off"
  /\ Ends
  /\ file' = NoFile /\ spare' = NoFile /\ aside' = {} /\ got' = {}
  /\ handed' = handed \cap paid /\ out' = {} /\ bak' = [keys |-> {}, left |-> 0]
  /\ UNCHANGED <<made, again, paid, bare, missed, unsaved, blame, fails>>

\* LoadWalletFromSQLiteRuntime, with -walletpassphrase or without:
\* ReconcileLoadedWalletMetadata and UnlockWallet.  A file without its default
\* key is not loaded (FinishLoadedWallet).
LoadWallet(unlock) ==
  /\ job.pc = "down" /\ file.wallet.def \in file.wallet.keys
  /\ unlock => file.enc
  /\ locked' = (file.enc /\ ~ unlock)
  /\ LET w == file.wallet
         seeded == w.seed # None \/ file.cseed # None
     IN mem' = [w EXCEPT !.seed = IF unlock /\ file.cseed # None THEN file.cseed ELSE w.seed,
                         !.schema = IF ~ seeded THEN "none"
                                    ELSE IF w.schema = "none" THEN "legacy" ELSE w.schema,
                         !.next = IF seeded THEN w.next ELSE Blank.next]
  /\ job' = Idle
  /\ UNCHANGED <<file, spare, aside, rst, made, got, ghosts, blame, unsaved, left, fails>>

\* CreateNewSQLiteWallet, when there is no wallet file: a key, its name and the
\* record of the default key; whether that one was written is not looked at.
CreateNewWallet ==
  /\ job.pc = "down" /\ file = NoFile
  /\ LET k == Random(made)
         w == [Blank EXCEPT !.keys = {k}, !.def = k]
     IN /\ mem' = w
        /\ \E ok \in BOOLEAN :
             /\ Write(ok)
             /\ file' = [NoFile EXCEPT !.wallet = IF ok THEN w ELSE [w EXCEPT !.def = None]]
  /\ made' = made + 1 /\ got' = {}
  /\ job' = Idle
  /\ UNCHANGED <<locked, spare, aside, rst, ghosts, blame, unsaved, left>>

\* ... or it does not get so far: the key or its name is refused and the file is
\* removed, or the process ends and what there is of the file stays.
CreationFails ==
  /\ job.pc = "down" /\ file = NoFile
  /\ \/ Write(FALSE) /\ UNCHANGED <<file, left>>
     \/ /\ left.crash > 0 /\ left' = [left EXCEPT !.crash = @ - 1]
        /\ file' = [NoFile EXCEPT !.wallet.keys = {Random(made)}] /\ UNCHANGED fails
  /\ made' = made + 1 /\ got' = {}
  /\ UNCHANGED <<mem, locked, spare, aside, job, rst, ghosts, blame, unsaved>>

----------------------------------------------------------------------------
\* A new wallet; or one with a phrase of the time before schemas, one of whose
\* keys has coins.
StartWallet(start) ==
  IF start = "fresh" THEN [Blank EXCEPT !.keys = {Random(0)}, !.def = Random(0)]
  ELSE LET s == CHOOSE s \in Seeds : TRUE IN
       [Blank EXCEPT !.keys = {Random(0)} \cup {Key("legacy", s, i) : i \in 0 .. KEYPOOL_SIZE},
                     !.def = Random(0), !.seed = s, !.next.legacy = KEYPOOL_SIZE + 1,
                     !.pool = [i \in 2 .. KEYPOOL_SIZE + 1 |-> Key("legacy", s, i - 1)]]

Init ==
  \E plan \in Plans :
    /\ file = [NoFile EXCEPT !.wallet = StartWallet(plan.start)]
    /\ handed = IF plan.start = "fresh" THEN {} ELSE {Key("legacy", file.wallet.seed, 0)}
    /\ paid = handed /\ got = handed /\ out = handed
    /\ mem = Blank /\ locked = FALSE /\ spare = NoFile /\ aside = {}
    /\ job = [Idle EXCEPT !.pc = "down"] /\ rst = Resting /\ made = 1
    /\ again = {} /\ bare = {} /\ missed = {} /\ unsaved = {} /\ blame = {}
    /\ bak = [keys |-> {}, left |-> 0]
    /\ left = plan /\ fails = 0

\* The holder of cs_keyPool goes on, and so does the restore.
HolderStep ==
  \/ TopUpKeyPool \/ DeriveNext \/ RereadCounter \/ AdvanceCounter \/ RandomKey \/ WritePool
  \/ TakeFromPool \/ GenerateNewKey \/ \E coin \in BOOLEAN : Give(coin)
  \/ ClearKeyPoolRecords \/ WriteSeed \/ AddDefaultKey \/ SetDefaultKey
  \/ InstallEncrypted

RestoreStep ==
  \/ \E b \in {"recv", "change"} : RestoreKey(b) \/ RestoreCount(b) \/ RestoreWriteNext(b)
  \/ RestoreLegacyKey \/ RestoreScan \/ RestoreFinish

Next ==
  \/ GetKeyFromPool \/ DeriveNextHDChangeKey
  \/ \E s \in Seeds : NewPhrase(s) \/ RestoreFromPhrase(s)
  \/ EncryptWallet \/ BackupWallet
  \/ HolderStep \/ RestoreStep
  \/ Crash \/ Lose \/ CreateNewWallet \/ CreationFails \/ \E unlock \in BOOLEAN : LoadWallet(unlock)

\* Neither thread stops while the process runs; a refused write is no stop.
Spec == Init /\ [][Next]_vars /\ WF_vars(HolderStep) /\ WF_vars(RestoreStep)

----------------------------------------------------------------------------
(* Properties.                                                             *)

PoolType(f) == DOMAIN f \subseteq Nat \ {0} /\ Range(f) \subseteq KeySet
WalletType(w) ==
  /\ w.keys \subseteq KeySet /\ PoolType(w.pool)
  /\ w.seed \in Seeds \cup {None} /\ w.schema \in {"none", "legacy", "bip44"}
  /\ w.next \in [Branches -> Nat] /\ w.def \in KeySet \cup {None}

\* Type invariant; and what is in the file is in memory while the program runs.
KeysTypeOK ==
  /\ WalletType(mem) /\ WalletType(file.wallet) /\ WalletType(spare.wallet)
  /\ locked \in BOOLEAN /\ made \in Nat
  /\ job.pc \in {"idle", "fill", "derive", "reread", "count", "random", "pool", "take", "give", "clear",
                  "seed", "default", "defaultkey", "swap", "down"}
  /\ job.then \in {"none", "idle", "take", "give", "change", "restore", "restored"}
  /\ rst.at \in {"off", "seed", "recv", "change", "legacy", "scan", "finish", "filling"}
  /\ job.pc # "down" => file.wallet.keys \subseteq mem.keys

\* Every key on offer, in memory or on disk, and every key given out is in the
\* wallet file, or in one that encryption moved aside, whatever write was
\* refused and wherever the process ended: "written to wallet.dat before it is
\* offered to anybody" (TopUpKeyPool).  A key whose own write was refused is
\* the exception: it stays in mapKeys, and AddKeyIfMissing takes it for stored.
OfferedStored ==
  out \cup Range(mem.pool) \cup Range(file.wallet.pool)
    \subseteq file.wallet.keys \cup spare.wallet.keys \cup aside \cup unsaved

\* No key is given out twice, not to two miners, not after a crash, not after a
\* new phrase, and not by a restored wallet if the restore found its coins; the
\* default key counts as given out.  Known exceptions: an ErasePool that was
\* refused, EncryptWallet on a BIP44 wallet, a phrase installed over an
\* encrypted one, a restore over its own keys, cut off, drawn from, or with a
\* counter whose last write was refused.
HandedOnce == blame = {} => again = {}

\* Once the wallet has a seed every key it gives out can be derived from it,
\* unless a write was refused: at no point of SetHDSeedFromMnemonic does the
\* end of the process leave the seed with the old pool.  Known exception: a
\* phrase installed over an encrypted one, which is back after the next start.
PhraseCovers == fails = 0 /\ "relabel" \notin blame => bare = {}

\* A backup covers the keys that were in the pool when it was made: they are the
\* next ones to be drawn, through restarts (KEYPOOL_SIZE), but for a key whose own
\* write was refused.
BackupCovers == missed \subseteq unsaved

\* What the stop rule of RestoreFromPhrase gives, into a wallet that had nothing
\* of the phrase: before the first key with coins that it did not derive all of
\* the quiet batches lie without coins on that branch, and that key is
\* RESTORE_MIN_SCAN deep or more.  Known exceptions: a change key derived
\* meanwhile, and a key whose write is refused, which ends its batch early.  The
\* first change of a wallet that was itself restored lies right behind such a
\* silence, and is missed: RestoreAgainFinds (MCAgain), which fails.
LongSilence(k) ==
  /\ k[3] >= RESTORE_MIN_SCAN
  /\ \A i \in k[3] - RESTORE_QUIET_BATCHES * RESTORE_BATCH .. k[3] - 1 : Key(k[1], k[2], i) \notin paid
Undisturbed == rst.fresh /\ rst.whole /\ "during" \notin blame
RestoreFinds ==
  rst.at = "finish" /\ Undisturbed /\ rst.total < RESTORE_MAX =>
    \A k \in paid \ got : SeedOf(k) = rst.seed =>
      \E i \in 0 .. k[3] : Key(k[1], k[2], i) \in paid \ got /\ LongSilence(Key(k[1], k[2], i))

\* Such a restore ends (RestoreFromPhrase), unless keys are derived for somebody
\* else meanwhile.
RestoreEnds == rst.at # "off" /\ rst.fresh ~> rst.at = "off" \/ "during" \in blame

----------------------------------------------------------------------------
(* Inductive invariants.                                                   *)

Pcs == {"idle", "fill", "derive", "reread", "count", "random", "pool", "take", "give", "clear",
        "seed", "default", "defaultkey", "swap", "down"}
Running == job.pc \notin {"down", "swap"}
Filling == {"fill", "derive", "count", "random", "pool"}
Installing == {"clear", "seed", "default", "defaultkey"}
Searching == {"recv", "change", "legacy", "scan", "finish"}

PoolOK(f) == PoolType(f) /\ IsFiniteSet(DOMAIN f)
WalletOK(w) ==
  /\ w \in [keys : SUBSET KeySet, pool : {w.pool}, seed : Seeds \cup {None},
             schema : {"none", "legacy", "bip44"}, next : [Branches -> Nat], def : KeySet \cup {None}]
  /\ PoolOK(w.pool)
FileOK(f) ==
  /\ f \in [wallet : {f.wallet}, cseed : Seeds \cup {None}, enc : BOOLEAN]
  /\ WalletOK(f.wallet)
JobOK ==
  /\ job \in [pc : Pcs, then : {"none", "idle", "take", "give", "change", "restore", "restored"},
               key : KeySet \cup {None}, n : Nat, out : KeySet \cup {None}]
  /\ job.pc \in {"idle", "down", "swap"} => job.then = "none"
  /\ job.pc \in Filling => job.then \in {"take", "give", "idle", "restored", "change"}
  /\ job.pc \in {"fill", "random", "pool"} => job.then # "change"
  /\ job.pc = "take" => job.then = "take"
  /\ job.pc = "reread" => job.then = "change"
  /\ job.pc = "give" => job.then \in {"take", "give", "change"}
  /\ job.pc \in Installing => /\ job.then \in {"idle", "restore"}
                             /\ \E s \in Seeds : job.key = Key("recv", s, 0)
  /\ job.pc = "seed" => job.n \in 1 .. 5
  /\ job.pc \in {"reread", "count"} => job.key # None /\ job.key[1] \in Branches
  /\ job.pc = "pool" => job.key # None
  /\ job.pc = "give" \/ job.then = "give" => job.out # None
RstOK ==
  /\ rst \in [at : {"off", "seed", "filling"} \cup Searching, seed : Seeds \cup {None}, n : Nat,
               total : Nat, quiet : Nat, legacy : Nat, before : {rst.before}, fresh : BOOLEAN,
               whole : BOOLEAN, step : {"key", "count", "write"}]
  /\ rst.at = "off" => job.then \notin {"restore", "restored"}
  /\ rst.at = "seed" => job.then = "restore"
  /\ rst.at = "filling" => job.then = "restored"
  /\ rst.at \in Searching => job.then \in {"none", "change"} /\ Running

\* Types, and where the two threads may be at the same time.
TypeInv ==
  /\ WalletOK(mem) /\ FileOK(file) /\ FileOK(spare) /\ JobOK /\ RstOK
  /\ locked \in BOOLEAN /\ made \in Nat /\ fails \in Nat
  /\ Running => file.wallet.keys \subseteq mem.keys

\* Where the keys are, between any two writes.
StoredInv ==
  LET saved == file.wallet.keys \cup unsaved IN
  /\ out \subseteq saved \cup aside
  /\ job.pc # "swap" => mem.keys \cup Range(mem.pool) \cup Range(file.wallet.pool) \subseteq saved
  /\ job.pc = "swap" => Range(mem.pool) \subseteq saved \cup aside
  /\ Range(spare.wallet.pool) \subseteq spare.wallet.keys
  /\ job.pc \in {"reread", "count", "pool"} => job.key \in saved
  /\ job.pc = "give" \/ job.then = "give" => job.out \in saved
  /\ job.pc = "swap" => file = NoFile

\* The seed a file stands for, and whether its pool is of that seed.
SeedOn(f) == IF f.cseed # None THEN f.cseed ELSE f.wallet.seed
FileCovered(f) ==
  /\ f.cseed # None => f.enc /\ f.wallet.seed = None
  /\ SeedOn(f) # None => \A k \in Range(f.wallet.pool) : SeedOf(k) = SeedOn(f)

\* Memory and file agree on the seed, but for the records of a seed that are
\* being written; a locked wallet does not know it.
SeedsAgree ==
  Running /\ ~ (job.pc = "seed" /\ job.n > 1) =>
    mem.seed = IF locked /\ file.cseed # None THEN None ELSE SeedOn(file)

\* The pool is of the seed, and empty from one seed to the next.
PoolCovered ==
  /\ Running => /\ DOMAIN file.wallet.pool \subseteq DOMAIN mem.pool
                /\ mem.seed # None => \A k \in Range(mem.pool) : SeedOf(k) = mem.seed
  /\ job.pc \in {"seed", "default", "defaultkey"} \/ rst.at \in Searching => DOMAIN mem.pool = {}
  /\ job.pc = "take" => DOMAIN mem.pool # {}

\* ... and so is the key that is in the hand of the holder of cs_keyPool.
HandCovered ==
  /\ job.pc \in {"reread", "count", "pool"} => SeedOf(job.key) = mem.seed
  /\ (job.pc = "give" \/ job.then = "give") /\ mem.seed # None => SeedOf(job.out) = mem.seed
  /\ job.pc = "random" => mem.seed = None
  /\ job.then \in {"take", "give"} \/ (job.pc \in Filling \ {"fill"} /\ job.then # "change") => ~ locked
  /\ job.pc \in Installing => file.cseed = None
  /\ job.pc = "seed" /\ job.n > 1 => file.wallet.seed = SeedOf(job.key)

\* What PhraseCovers takes, as long as no write was refused.
PhraseInv ==
  fails = 0 /\ "relabel" \notin blame =>
    /\ bare = {} /\ FileCovered(file) /\ (job.pc = "swap" => FileCovered(spare))
    /\ SeedsAgree /\ PoolCovered /\ HandCovered

\* A backup is good for the draws it must cover: up to an index t, which is in
\* the pool until then, there are as many keys as draws, and the backup, or a
\* refused write, accounts for each of them; new keys go behind t.
BackupInv ==
  /\ missed \subseteq unsaved
  /\ bak \in [keys : {bak.keys}, left : Nat]
  /\ job.pc \in Installing \cup {"swap"} \/ rst.at # "off" => bak.left = 0
  /\ bak.left > 0 => \E t \in DOMAIN file.wallet.pool :
       /\ \A i \in DOMAIN file.wallet.pool : i <= t => file.wallet.pool[i] \in bak.keys \cup unsaved
       /\ Cardinality({i \in DOMAIN file.wallet.pool : i <= t}) >= bak.left
       /\ Running =>
            /\ t \in DOMAIN mem.pool
            /\ \A i \in DOMAIN mem.pool : i <= t => mem.pool[i] \in bak.keys \cup unsaved
            /\ Cardinality({i \in DOMAIN mem.pool \cap DOMAIN file.wallet.pool : i <= t}) >= bak.left

----------------------------------------------------------------------------
(* The inductive invariant behind HandedOnce: a key is in one place at a   *)
(* time, in the pool, in the hand of the holder of cs_keyPool or given     *)
(* out, and every counter, in memory and on disk, is past all of them.     *)

\* The branches a wallet draws from, and the seeds a file may be loaded with.
Live(w) == IF w.schema = "bip44" THEN {"recv", "change"} ELSE {"legacy"}
SeedsOn(f) == {f.wallet.seed, f.cseed} \ {None}

\* The file, or the one that takes its place; and the pool it has, or which the
\* program that runs has of it.
Disk == IF job.pc = "swap" THEN spare ELSE file
Pool == IF Running THEN mem.pool ELSE Disk.wallet.pool

InHand == (IF job.pc = "give" \/ job.then = "give" THEN {job.out} ELSE {})
          \cup (IF job.pc = "pool" THEN {job.key} ELSE {})
Taken == handed \cup Range(Pool) \cup InHand

\* While a restore searches, its counters are behind what it has not found yet.
Restoring == rst.at \notin {"off", "filling"}

PlacesApart ==
  /\ again = {} /\ handed \subseteq KeySet /\ IsInjective(Pool)
  /\ handed \cap Range(Pool) = {} /\ InHand \cap (handed \cup Range(Pool)) = {}
  /\ job.pc = "pool" /\ job.then = "give" => job.key # job.out
  /\ Running => \A i \in DOMAIN file.wallet.pool :
                  i \in DOMAIN mem.pool /\ file.wallet.pool[i] = mem.pool[i]
  /\ job.pc \in {"seed", "default", "defaultkey"} \/ rst.at \in Searching => DOMAIN mem.pool = {}

\* Every key taken is below the counter of its branch.
Below(w, s) == \A k \in Taken : k[1] \in Live(w) /\ SeedOf(k) = s => k[3] < w.next[k[1]]
CountersAhead ==
  /\ \A k \in Taken : k[1] = "random" => k[3] < made
  /\ ~ Restoring => \A s \in SeedsOn(Disk) : Below(Disk.wallet, s)
  /\ ~ Restoring /\ Running /\ mem.seed # None => Below(mem, mem.seed)

\* The key about to be counted is the one its counter stands at.
KeyAtCounter ==
  /\ job.pc = "derive" => mem.seed # None
  /\ job.pc \in {"reread", "count"} =>
       /\ mem.seed # None /\ job.n = mem.next[Counter(job.then)]
       /\ job.key = DeriveHDKey(job.then, job.n)

SeedsMatch ==
  /\ Disk.cseed # None => Disk.wallet.seed = None
  /\ Running /\ mem.seed # None /\ job.pc # "seed" =>
       /\ SeedsOn(file) \subseteq {mem.seed}
       /\ rst.at # "legacy" => Live(mem) = Live(file.wallet)

\* The records of a seed, one by one, for a phrase none of whose keys is taken,
\* or for a restore into a wallet that has none of them.
SeedWritten ==
  /\ job.pc \in Installing => file.cseed = None
  /\ job.pc = "seed" =>
       /\ job.n > 1 => file.wallet.seed = SeedOf(job.key)
       /\ job.n > 2 => file.wallet.schema = "bip44"
       /\ job.n > 4 => file.wallet.next.recv = 1
  /\ job.pc \in {"default", "defaultkey"} =>
       /\ mem.seed = SeedOf(job.key) /\ file.wallet.seed = mem.seed /\ mem.schema = "bip44"
       /\ mem.next.recv = 1 /\ file.wallet.next.recv = 1
  /\ job.pc \in {"clear", "seed"} /\ job.then = "idle" =>
       mem.seed = None /\ \A k \in Taken : SeedOf(k) # SeedOf(job.key)
  /\ job.pc \in Installing /\ job.then = "restore" =>
       \A k \in mem.keys : SeedOf(k) = SeedOf(job.key) => job.pc = "defaultkey" /\ k = job.key

\* The keys a search has made are below its counters, but for one that is about
\* to be counted or whose write was refused.
FoundBelow ==
  \A k \in mem.keys : k[1] \in {"recv", "change"} /\ SeedOf(k) = mem.seed =>
    \/ k[3] < mem.next[k[1]]
    \/ k[3] = mem.next[k[1]] /\ (k \in unsaved \/ (rst.at = k[1] /\ rst.step = "count"))
Found ==
  /\ Restoring => rst.fresh
  /\ rst.at \in Searching =>
       /\ job.pc = "idle" /\ file.cseed = None /\ mem.seed # None /\ file.wallet.seed = mem.seed
       /\ file.wallet.schema = "bip44" /\ (rst.at # "legacy" => mem.schema = "bip44")
       /\ FoundBelow /\ (rst.at \notin {"recv", "change"} => rst.step = "key")

OnceInv ==
  blame = {} => PlacesApart /\ CountersAhead /\ KeyAtCounter /\ SeedsMatch /\ SeedWritten /\ Found

----------------------------------------------------------------------------
(* The inductive invariant behind RestoreFinds: the search has derived each *)
(* branch without a gap, has looked at all of it but the batch in hand, and *)
(* the quiet batches lie right before that one.                             *)

KnownKeys == mem.keys \cup file.wallet.keys \cup spare.wallet.keys \cup aside \cup unsaved \cup paid
KeysKnown ==
  /\ \A k \in KnownKeys : k \in KeySet /\ (k[1] = "random" => SeedOf(k) = None)
  /\ IsFiniteSet(paid) /\ got \subseteq paid

\* Where the phrase is installed there is nothing of it but the default key.
NothingFound ==
  /\ rst.seed \in Seeds /\ job.key = Key("recv", rst.seed, 0)
  /\ rst.n = 0 /\ rst.quiet = 0 /\ rst.legacy = 0 /\ rst.step = "key"
  /\ \A k \in got : SeedOf(k) # rst.seed
  /\ \A k \in mem.keys : SeedOf(k) = rst.seed => job.pc = "defaultkey" /\ k = job.key
  /\ job.pc = "defaultkey" => job.key \in mem.keys
  /\ job.pc \in {"default", "defaultkey"} =>
       mem.seed = rst.seed /\ mem.next.recv = 1 /\ mem.next.change = 0

\* How far a branch is derived, and how far the chain was searched for it.
Derived(b) == IF b = "legacy" THEN rst.legacy ELSE mem.next[b]
Batch(b) ==
  IF rst.at = b THEN rst.n
  ELSE IF rst.at = "scan" \/ <<b, rst.at>> \in {<<"recv", "change">>, <<"recv", "legacy">>,
                                                 <<"change", "legacy">>} THEN RESTORE_BATCH ELSE 0
Looked(b) == Derived(b) - Batch(b)

BranchSearched(b) ==
  /\ Looked(b) >= 0
  /\ \A i \in 0 .. Derived(b) - 1 : Key(b, rst.seed, i) \in mem.keys
  /\ rst.at = b /\ rst.step = "count" => Key(b, rst.seed, Derived(b)) \in mem.keys
  /\ \A k \in mem.keys : k[1] = b /\ SeedOf(k) = rst.seed =>
       k[3] < Derived(b) \/ (k[3] = Derived(b) /\ rst.at = b /\ rst.step = "count")
  /\ \A k \in got : k[1] = b /\ SeedOf(k) = rst.seed => k[3] < Looked(b)
  /\ \A i \in Looked(b) - rst.quiet * RESTORE_BATCH .. Looked(b) - 1 : Key(b, rst.seed, i) \notin paid
Searched ==
  /\ job.pc = "idle" /\ rst.seed \in Seeds /\ mem.seed = rst.seed
  /\ rst.at \in {"scan", "finish"} => rst.n = 0
  /\ rst.at \notin {"recv", "change"} => rst.step = "key"
  /\ rst.n <= RESTORE_BATCH /\ (rst.n = RESTORE_BATCH <=> rst.step = "write")
  /\ rst.quiet <= RESTORE_QUIET_BATCHES /\ rst.before = Cardinality(got)
  /\ \A b \in Branches : BranchSearched(b)
  /\ rst.at = "finish" =>
       /\ paid \cap mem.keys \subseteq got
       /\ \/ rst.total >= RESTORE_MAX
          \/ rst.quiet = RESTORE_QUIET_BATCHES /\ \A b \in Branches : Derived(b) >= RESTORE_MIN_SCAN

SearchInv ==
  Undisturbed =>
    (rst.at = "seed" => NothingFound) /\ (rst.at \in Searching => Searched)
=============================================================================
