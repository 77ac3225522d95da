----------------------------- MODULE OnceProofs -----------------------------
(***************************************************************************)
(* Proofs about Keys: no key is given out twice, for every plan without    *)
(* one of the known exceptions.                                            *)
(***************************************************************************)
EXTENDS KeysProofs

----------------------------------------------------------------------------
(* The holder of cs_keyPool fills the pool and takes keys from it.         *)

Once == PlacesApart /\ CountersAhead /\ KeyAtCounter /\ SeedsMatch /\ SeedWritten /\ Found

\* Nothing of a seed but its counters, and those neither.
SeedsSame ==
  /\ mem'.seed = mem.seed /\ mem'.schema = mem.schema
  /\ file'.wallet.seed = file.wallet.seed /\ file'.wallet.schema = file.wallet.schema
  /\ file'.cseed = file.cseed
NextSame == mem'.next = mem.next /\ file'.wallet.next = file.wallet.next

\* The program runs and does not restore.
Draws == Running /\ rst.at \in {"off", "filling"} /\ job.pc \notin Installing

LEMMA DrawsFacts ==
  ASSUME Draws
  PROVE  /\ Pool = mem.pool /\ Disk = file /\ ~ Restoring /\ Running
         /\ rst.at \notin Searching /\ rst.at # "legacy"
         /\ job.pc \notin {"clear", "seed", "default", "defaultkey"}
BY DEF Draws, Pool, Disk, Restoring, Searching, Installing, Running

\* What has nothing to do with the pool stays.
LEMMA DrawsKeep ==
  ASSUME Once, Draws, Draws', SeedsSame
  PROVE  SeedsMatch' /\ SeedWritten' /\ Found'
<1>1. SeedsMatch'
  BY DrawsFacts DEF Once, SeedsMatch, SeedsSame, Draws, Disk, Running, SeedsOn, Live
<1>2. SeedWritten'
  BY DEF Draws, SeedWritten, Installing
<1>3. Found'
  BY DEF Draws, Found, Restoring, Searching
<1> QED
  BY <1>1, <1>2, <1>3

\* Keys that are in no other place come into the hand of the holder.
LEMMA HandGains ==
  ASSUME PlacesApart, Draws, Draws', NEW ks, ks \cap Taken = {},
         handed' = handed, again' = again,
         mem'.pool = mem.pool, file'.wallet.pool = file.wallet.pool,
         InHand' \subseteq InHand \cup ks,
         job'.pc = "pool" /\ job'.then = "give" => job'.key # job'.out
  PROVE  PlacesApart' /\ Taken' \subseteq Taken \cup ks
<1>1. Pool = mem.pool /\ Pool' = mem.pool
  BY DEF Draws, Pool
<1>2. Taken' \subseteq Taken \cup ks
  BY <1>1 DEF Taken
<1>3. handed' \cap Range(Pool') = {} /\ InHand' \cap (handed' \cup Range(Pool')) = {}
  BY <1>1 DEF Taken, PlacesApart
<1>4. job'.pc \notin {"seed", "default", "defaultkey"} /\ rst'.at \notin Searching
  BY DEF Draws, Installing, Searching
<1>5. again' = {} /\ handed' \subseteq KeySet /\ IsInjective(Pool')
  BY <1>1 DEF PlacesApart
<1>6. \A i \in DOMAIN file'.wallet.pool : i \in DOMAIN mem'.pool /\ file'.wallet.pool[i] = mem'.pool[i]
  BY DEF PlacesApart, Draws
<1> QED
  BY <1>2, <1>3, <1>4, <1>5, <1>6 DEF PlacesApart

\* Random keys are taken, or fewer; no counter moves.
LEMMA CountersStay ==
  ASSUME CountersAhead, Draws, Draws', SeedsSame, NextSame, made \in Nat, made' \in Nat, made' >= made,
         NEW ks, \A k \in ks : k[1] = "random" /\ k[3] < made', Taken' \subseteq Taken \cup ks,
         Taken \subseteq KeySet
  PROVE  CountersAhead'
<1>1. Disk = file /\ Disk' = file' /\ ~ Restoring /\ Running
  BY DEF Draws, Disk, Restoring, Running
<1>2. \A k \in Taken' : k[1] = "random" => k[3] < made'
  BY DEF CountersAhead, KeySet
<1>3. Live(file.wallet)' = Live(file.wallet) /\ Live(mem)' = Live(mem) /\ SeedsOn(file)' = SeedsOn(file)
  BY DEF SeedsSame, Live, SeedsOn
<1>4. "random" \notin Live(file.wallet) /\ "random" \notin Live(mem)
  BY DEF Live
<1>5. \A s \in SeedsOn(Disk)' : Below(Disk.wallet, s)'
  BY <1>1, <1>3, <1>4 DEF CountersAhead, Below, NextSame
<1>6. mem'.seed # None => Below(mem, mem.seed)'
  BY <1>1, <1>3, <1>4 DEF CountersAhead, Below, NextSame, SeedsSame
<1> QED
  BY <1>2, <1>5, <1>6 DEF CountersAhead

LEMMA TakenType == TypeInv /\ PlacesApart => Taken \subseteq KeySet
<1> SUFFICES ASSUME TypeInv, PlacesApart PROVE Taken \subseteq KeySet
  OBVIOUS
<1>1. PoolOK(mem.pool) /\ PoolOK(Disk.wallet.pool)
  BY DEF TypeInv, WalletOK, FileOK, Disk
<1>2. Range(Pool) \subseteq KeySet
  BY <1>1 DEF Pool, PoolOK, PoolType
<1>3. InHand \subseteq KeySet
  BY DEF TypeInv, JobOK, InHand
<1> QED
  BY <1>2, <1>3 DEF Taken, PlacesApart

\* The places of the holder where it has nothing to count.
LEMMA NoKeyToCount ==
  ASSUME job'.pc \notin {"derive", "reread", "count"}
  PROVE  KeyAtCounter'
BY DEF KeyAtCounter

\* Where the holder may be when it fills the pool or takes from it.
Drawing ==
  \/ GetKeyFromPool \/ DeriveNextHDChangeKey \/ TopUpKeyPool \/ DeriveNext \/ RereadCounter
  \/ AdvanceCounter \/ RandomKey \/ WritePool \/ TakeFromPool \/ GenerateNewKey
  \/ \E coin \in BOOLEAN : Give(coin)

LEMMA DrawingDraws ==
  ASSUME TypeInv, Once, blame' = {}, Drawing
  PROVE  Draws
<1>1. CASE GetKeyFromPool
  BY <1>1 DEF GetKeyFromPool, Ask, Draws, Running, Installing
<1>2. CASE DeriveNextHDChangeKey
  <2>1. job.pc = "idle" /\ rst.at = "off"
    BY <1>2 DEF DeriveNextHDChangeKey, Ask
  <2> QED
    BY <2>1 DEF Draws, Running, Installing
<1>3. CASE job.pc \in {"fill", "derive", "reread", "count", "random", "pool", "take", "give"}
  <2>1. rst.at \notin Searching
    BY <1>3 DEF Once, Found
  <2>2. rst.at # "seed"
    <3>1. job.then # "restore"
      BY <1>3 DEF TypeInv, JobOK, Filling
    <3> QED
      BY <3>1 DEF TypeInv, RstOK
  <2>3. rst.at \in {"off", "seed", "filling"} \cup Searching
    BY DEF TypeInv, RstOK
  <2> QED
    BY <1>3, <2>1, <2>2, <2>3 DEF Draws, Running, Installing
<1>4. TopUpKeyPool \/ DeriveNext \/ RereadCounter \/ AdvanceCounter \/ RandomKey \/ WritePool \/ TakeFromPool
        \/ GenerateNewKey \/ (\E coin \in BOOLEAN : Give(coin)) =>
        job.pc \in {"fill", "derive", "reread", "count", "random", "pool", "take", "give"}
  BY DEF TopUpKeyPool, DeriveNext, RereadCounter, AdvanceCounter, RandomKey, WritePool, TakeFromPool,
         GenerateNewKey, Give
<1> QED
  BY <1>1, <1>2, <1>3, <1>4 DEF Drawing

\* A return of TopUpKeyPool keeps no more in hand than there was.
LEMMA ReturnHand ==
  ASSUME JobOK, Draws, Returned, job.pc \in {"fill", "random", "pool"}
  PROVE  Draws' /\ InHand' \subseteq InHand /\ job'.pc \notin {"derive", "reread", "count", "pool"}
BY DEF Draws, Returned, JobAt, JobIdle, JobIs, InHand, Running, Installing, JobOK, Filling

LEMMA NotDerivedHand ==
  ASSUME JobOK, Draws, NotDerived, UNCHANGED rst, job.pc \in {"derive", "count"}
  PROVE  Draws' /\ InHand' \subseteq InHand /\ job'.pc \notin {"derive", "reread", "count", "pool"}
BY DEF Draws, NotDerived, JobAt, JobIdle, JobIs, InHand, Running, Installing

\* Such a step without a new key.
LEMMA DrawsOn ==
  ASSUME TypeInv, Once, Draws, Draws', SeedsSame, NextSame, made' = made \/ made' = made + 1,
         handed' = handed, again' = again, mem'.pool = mem.pool, file'.wallet.pool = file.wallet.pool,
         InHand' \subseteq InHand, job'.pc # "pool", KeyAtCounter'
  PROVE  Once'
<1> DEFINE ks == {}
<1>1. PlacesApart' /\ Taken' \subseteq Taken \cup ks
  <2>1. ks \cap Taken = {} /\ InHand' \subseteq InHand \cup ks /\ PlacesApart
    BY DEF Once
  <2> HIDE DEF ks
  <2> QED
    BY <2>1, HandGains
<1>2. made \in Nat /\ made' \in Nat /\ made' >= made
  BY DEF TypeInv
<1>3. CountersAhead'
  <2>1. (\A k \in ks : k[1] = "random" /\ k[3] < made') /\ CountersAhead /\ Taken \subseteq KeySet
    BY TakenType DEF Once
  <2> HIDE DEF ks
  <2> QED
    BY <1>1, <1>2, <2>1, CountersStay
<1> QED
  BY <1>1, <1>3, DrawsKeep DEF Once

\* Such a step with a random key, which nobody has had.
LEMMA RandomTaken ==
  ASSUME TypeInv, Once, Draws, Draws', SeedsSame, NextSame, made' = made + 1,
         handed' = handed, again' = again, mem'.pool = mem.pool, file'.wallet.pool = file.wallet.pool,
         InHand' \subseteq InHand \cup {Random(made)}, job'.pc \notin {"derive", "reread", "count"},
         job'.pc = "pool" /\ job'.then = "give" => job'.key = Random(made) /\ job'.out \in InHand
  PROVE  Once'
<1>1. made \in Nat /\ made' \in Nat /\ made' >= made
  BY DEF TypeInv
<1>2. Random(made)[1] = "random" /\ Random(made)[3] = made
  BY DEF Random
<1>3. Random(made) \notin Taken
  BY <1>1, <1>2 DEF Once, CountersAhead
<1>4. job'.pc = "pool" /\ job'.then = "give" => job'.key # job'.out
  BY <1>3 DEF Taken
<1> DEFINE ks == {Random(made)}
<1>5. PlacesApart' /\ Taken' \subseteq Taken \cup ks
  <2>1. ks \cap Taken = {} /\ InHand' \subseteq InHand \cup ks /\ PlacesApart
    BY <1>3 DEF Once
  <2> HIDE DEF ks
  <2> QED
    BY <1>4, <2>1, HandGains
<1>6. CountersAhead'
  <2>1. (\A k \in ks : k[1] = "random" /\ k[3] < made') /\ CountersAhead /\ Taken \subseteq KeySet
    BY <1>1, <1>2, TakenType DEF Once
  <2> HIDE DEF ks
  <2> QED
    BY <1>1, <1>5, <2>1, CountersStay
<1> QED
  BY <1>5, <1>6, DrawsKeep, NoKeyToCount DEF Once

LEMMA CountsOnce ==
  ASSUME TypeInv, Once, Draws, GetKeyFromPool \/ DeriveNextHDChangeKey \/ TopUpKeyPool \/ DeriveNext
                               \/ RereadCounter, blame' = {}
  PROVE  Once'
<1> USE DEF ghosts
<1>1. JobOK /\ KeyAtCounter /\ (Running <=> job.pc \notin {"down", "swap"})
  BY DEF TypeInv, Once, Running
<1>2. CASE GetKeyFromPool
  <2>1. /\ UNCHANGED <<mem, file, made, handed, again, rst>> /\ JobIs("fill", "take", None, 0, None)
    BY <1>2 DEF GetKeyFromPool, Idle, JobIs
  <2>2. Draws' /\ InHand' \subseteq InHand /\ KeyAtCounter' /\ SeedsSame /\ NextSame
    BY <2>1 DEF Draws, JobIs, InHand, Running, Installing, KeyAtCounter, SeedsSame, NextSame
  <2> QED
    BY <2>1, <2>2, DrawsOn DEF JobIs
<1>3. CASE DeriveNextHDChangeKey
  <2>1. /\ UNCHANGED <<mem, file, made, handed, again, rst>> /\ JobIs("derive", "change", None, 0, None)
        /\ mem.seed # None
    BY <1>3 DEF DeriveNextHDChangeKey, Idle, JobIs, HaveHDSeed
  <2>2. Draws' /\ InHand' \subseteq InHand /\ KeyAtCounter' /\ SeedsSame /\ NextSame
    BY <2>1 DEF Draws, JobIs, InHand, Running, Installing, KeyAtCounter, SeedsSame, NextSame
  <2> QED
    BY <2>1, <2>2, DrawsOn DEF JobIs
<1>4. CASE TopUpKeyPool
  <2>1. /\ UNCHANGED <<mem, file, made, handed, again>> /\ job.pc = "fill"
        /\ \/ Returned
           \/ JobAt("derive") /\ mem.seed # None /\ UNCHANGED rst
           \/ JobAt("random") /\ UNCHANGED rst
    BY <1>1, <1>4, ReturnEffect, GoEffect DEF TopUpKeyPool, HaveHDSeed
  <2>2. Draws' /\ InHand' \subseteq InHand /\ KeyAtCounter' /\ job'.pc # "pool"
    <3>1. CASE Returned
      BY <1>1, <2>1, <3>1, ReturnHand, NoKeyToCount
    <3>2. CASE ~ Returned
      BY <2>1, <3>2 DEF Draws, JobAt, JobIs, InHand, Running, Installing, KeyAtCounter
    <3> QED
      BY <3>1, <3>2
  <2>3. SeedsSame /\ NextSame
    BY <2>1 DEF SeedsSame, NextSame
  <2> QED
    BY <2>1, <2>2, <2>3, DrawsOn
<1>5. CASE DeriveNext
  <2> DEFINE c == Counter(job.then)
             k == DeriveHDKey(job.then, mem.next[c])
             pc == IF job.then = "change" THEN "reread" ELSE "count"
             counted == JobIs(pc, job.then, k, mem.next[c], job.out)
  <2>1. /\ job.pc = "derive" /\ UNCHANGED <<rst, made, handed, again>>
        /\ counted \/ NotDerived
        /\ (UNCHANGED <<mem, file>> \/ KeyStored(k) \/ KeyRefused(k))
    BY <1>5, DeriveNextEffect
  <2> HIDE DEF k, c, pc
  <2>2. SeedsSame /\ NextSame /\ mem'.pool = mem.pool /\ file'.wallet.pool = file.wallet.pool
    BY <2>1 DEF KeyStored, KeyRefused, MemKeys, FileKeys, MemIs, FileIs, SeedsSame, NextSame
  <2>3. CASE counted
    <3>1. pc \in {"reread", "count"} /\ job'.pc = pc /\ job'.then = job.then
      BY <2>3 DEF JobIs, pc
    <3>2. Draws' /\ InHand' \subseteq InHand
      BY <2>1, <2>3, <3>1 DEF Draws, JobIs, InHand, Running, Installing
    <3>3. Counter(job.then)' = c /\ DeriveHDKey(job.then, job.n)' = k /\ mem'.next[c] = mem.next[c]
      BY <2>2, <2>3 DEF Counter, DeriveHDKey, SeedsSame, NextSame, JobIs, c, k
    <3>4. mem.seed # None
      BY <1>1, <2>1 DEF KeyAtCounter
    <3>5. KeyAtCounter'
      BY <2>2, <2>3, <3>1, <3>3, <3>4 DEF KeyAtCounter, JobIs, SeedsSame
    <3> QED
      BY <2>1, <2>2, <3>1, <3>2, <3>5, DrawsOn
  <2>4. CASE NotDerived
    BY <1>1, <2>1, <2>2, <2>4, NotDerivedHand, NoKeyToCount, DrawsOn
  <2> QED
    BY <2>1, <2>3, <2>4
<1>6. CASE RereadCounter
  <2> DEFINE n == mem.next[job.key[1]]
  <2>1. /\ UNCHANGED <<mem, file, made, handed, again, rst>> /\ job.pc = "reread"
        /\ job' = [job EXCEPT !.pc = "count", !.n = n]
    BY <1>6 DEF RereadCounter
  <2>2. JobIs("count", job.then, job.key, n, job.out)
    <3> HIDE DEF n
    <3> QED
      BY <1>1, <2>1 DEF JobOK, JobIs
  <2>3. n = job.n
    BY <1>1, <2>1 DEF KeyAtCounter, DeriveHDKey, Key
  <2> HIDE DEF n
  <2>4. KeyAtCounter'
    BY <1>1, <2>1, <2>2, <2>3 DEF KeyAtCounter, JobIs, Counter, DeriveHDKey
  <2>5. Draws' /\ InHand' \subseteq InHand /\ SeedsSame /\ NextSame
    BY <2>1, <2>2 DEF Draws, JobIs, InHand, Running, Installing, SeedsSame, NextSame
  <2> QED
    BY <2>1, <2>2, <2>4, <2>5, DrawsOn DEF JobIs
<1> QED
  BY <1>2, <1>3, <1>4, <1>5, <1>6

\* The counter moves past the key, which nobody has had.
LEMMA AdvanceOnce ==
  ASSUME TypeInv, Once, Draws, AdvanceCounter
  PROVE  Once'
<1> USE DEF ghosts
<1> DEFINE c == IF job.then = "change" THEN job.key[1] ELSE Counter(job.then)
           n == job.n
           k == job.key
<1>1. /\ job.pc = "count" /\ c \in Branches /\ UNCHANGED <<made, handed, again, rst>>
      /\ \/ /\ MemNext(c, n + 1) /\ FileNext(c, n + 1)
            /\ \/ job.then = "change" /\ JobIs("give", "change", k, n, k)
               \/ job.then # "change" /\ JobAt("pool")
         \/ NotDerived /\ UNCHANGED <<mem, file>>
  BY AdvanceEffect
<1>2. JobOK /\ n \in Nat /\ mem.next \in [Branches -> Nat] /\ file.wallet.next \in [Branches -> Nat]
  BY DEF TypeInv, JobOK, WalletOK, FileOK
<1>3. /\ mem.seed # None /\ k[1] = c /\ SeedOf(k) = mem.seed /\ k[3] = n
      /\ n = mem.next[c] /\ c \in Live(mem) /\ c = Counter(job.then)
  BY <1>1 DEF Once, KeyAtCounter, DeriveHDKey, Key, SeedOf, Counter, Live
<1> HIDE DEF c, n, k
<1>4. CASE NotDerived /\ UNCHANGED <<mem, file>>
  <2>1. SeedsSame /\ NextSame
    BY <1>4 DEF SeedsSame, NextSame
  <2> QED
    BY <1>1, <1>2, <1>4, <2>1, NotDerivedHand, NoKeyToCount, DrawsOn
<1>5. CASE /\ MemNext(c, n + 1) /\ FileNext(c, n + 1)
           /\ \/ job.then = "change" /\ JobIs("give", "change", k, n, k)
              \/ job.then # "change" /\ JobAt("pool")
  <2> DEFINE ks == {k}
  <2>1. Below(mem, mem.seed) /\ SeedsOn(file) \subseteq {mem.seed} /\ Live(mem) = Live(file.wallet)
        /\ (\A s \in SeedsOn(file) : Below(file.wallet, s))
    BY <1>1, <1>3, DrawsFacts DEF Once, CountersAhead, SeedsMatch
  <2>2. k \notin Taken
    BY <1>2, <1>3, <2>1 DEF Below
  <2>3. /\ Draws' /\ InHand' \subseteq InHand \cup {k} /\ job'.pc \notin {"derive", "reread", "count"}
        /\ job'.pc = "pool" /\ job'.then = "give" => job'.key = k /\ job'.out \in InHand
    BY <1>1, <1>5 DEF Draws, JobAt, JobIs, InHand, Running, Installing, k
  <2>4. SeedsSame /\ mem'.pool = mem.pool /\ file'.wallet.pool = file.wallet.pool
    BY <1>5 DEF MemNext, FileNext, MemIs, FileIs, SeedsSame
  <2>5. PlacesApart' /\ Taken' \subseteq Taken \cup ks
    <3>1. ks \cap Taken = {} /\ InHand' \subseteq InHand \cup ks /\ PlacesApart
          /\ (job'.pc = "pool" /\ job'.then = "give" => job'.key # job'.out)
      BY <2>2, <2>3 DEF Once, Taken
    <3> HIDE DEF ks
    <3> QED
      BY <1>1, <2>3, <2>4, <3>1, HandGains
  <2>6. CountersAhead'
    <3>1. mem'.next = [mem.next EXCEPT ![c] = n + 1]
          /\ file'.wallet.next = [file.wallet.next EXCEPT ![c] = n + 1]
      BY <1>5 DEF MemNext, FileNext, MemIs, FileIs
    <3>2. Live(mem)' = Live(mem) /\ Live(file.wallet)' = Live(file.wallet) /\ SeedsOn(file)' = SeedsOn(file)
      BY <2>4 DEF Live, SeedsOn, SeedsSame
    <3>3. Live(mem) \subseteq Branches /\ "random" \notin Live(mem) /\ Taken \subseteq KeySet
      BY TakenType DEF Live, Branches, Once
    <3>4. \A x \in Taken' : x[1] = "random" => x[3] < made'
      BY <1>1, <1>3, <2>5, <3>3 DEF Once, CountersAhead
    <3>5. \A x \in Taken' : x[1] \in Live(mem) /\ SeedOf(x) = mem.seed =>
            x[3] < mem'.next[x[1]] /\ (x[1] = c => x[3] < n + 1)
      <4>1. \A x \in Taken : x[3] \in Nat
        BY <3>3 DEF KeySet
      <4> QED
        BY <1>1, <1>2, <1>3, <2>1, <2>5, <3>1, <3>3, <4>1 DEF Below
    <3>6. Below(mem, mem.seed)'
      BY <2>4, <3>2, <3>5 DEF Below, SeedsSame
    <3>7. ASSUME NEW s \in SeedsOn(file)
          PROVE  Below(file.wallet, s)'
      <4>1. s = mem.seed /\ Below(file.wallet, s)
        BY <2>1
      <4>2. ASSUME NEW x \in Taken', x[1] \in Live(mem), SeedOf(x) = mem.seed
            PROVE  x[3] < file'.wallet.next[x[1]]
        <5>1. CASE x[1] = c
          BY <1>1, <1>2, <3>1, <3>5, <4>2, <5>1
        <5>2. CASE x[1] # c
          <6>1. x \in Taken
            BY <1>3, <2>5, <5>2
          <6> QED
            BY <1>2, <2>1, <3>1, <3>3, <4>1, <4>2, <5>2, <6>1 DEF Below
        <5> QED
          BY <5>1, <5>2
      <4> QED
        BY <2>1, <3>2, <4>1, <4>2 DEF Below
    <3>8. Disk' = file'
      BY <2>3, DrawsFacts DEF Draws, Disk, Running
    <3> QED
      BY <3>2, <3>4, <3>6, <3>7, <3>8 DEF CountersAhead
  <2> QED
    BY <2>3, <2>4, <2>5, <2>6, DrawsKeep, NoKeyToCount DEF Once
<1> QED
  BY <1>1, <1>4, <1>5

\* A key moves from one of its places to the next.
LEMMA KeyMoves ==
  ASSUME TypeInv, Once, Draws, Draws', SeedsSame, NextSame, made' = made,
         PlacesApart', Taken' \subseteq Taken, job'.pc \notin {"derive", "reread", "count"}
  PROVE  Once'
<1> DEFINE ks == {}
<1>1. CountersAhead'
  <2>1. (\A k \in ks : k[1] = "random" /\ k[3] < made') /\ CountersAhead /\ Taken \subseteq KeySet
        /\ Taken' \subseteq Taken \cup ks
    BY TakenType DEF Once
  <2>2. made \in Nat /\ made' \in Nat /\ made' >= made
    BY DEF TypeInv
  <2> HIDE DEF ks
  <2> QED
    BY <2>1, <2>2, CountersStay
<1> QED
  BY <1>1, DrawsKeep, NoKeyToCount DEF Once

LEMMA RandomOnce ==
  ASSUME TypeInv, Once, Draws, RandomKey \/ GenerateNewKey
  PROVE  Once'
<1> USE DEF ghosts
<1> DEFINE k == Random(made)
<1>1. JobOK
  BY DEF TypeInv
<1>2. ASSUME KeyStored(k) \/ KeyRefused(k)
      PROVE  SeedsSame /\ NextSame /\ mem'.pool = mem.pool /\ file'.wallet.pool = file.wallet.pool
  <2> HIDE DEF k
  <2> QED
    BY <1>2 DEF KeyStored, KeyRefused, MemKeys, FileKeys, MemIs, FileIs, SeedsSame, NextSame
<1>3. CASE RandomKey
  <2>1. /\ job.pc = "random" /\ made' = made + 1 /\ UNCHANGED <<handed, again>>
        /\ KeyStored(k) \/ KeyRefused(k)
        /\ \/ JobIs("pool", job.then, k, job.n, job.out) /\ UNCHANGED rst
           \/ Returned
    BY <1>3, RandomKeyEffect
  <2> HIDE DEF k
  <2>2. CASE JobIs("pool", job.then, k, job.n, job.out) /\ UNCHANGED rst
    <3>1. /\ Draws' /\ InHand' \subseteq InHand \cup {k} /\ job'.pc = "pool"
          /\ job'.then = "give" => job'.key = k /\ job'.out \in InHand
      BY <2>1, <2>2 DEF Draws, JobIs, InHand, Running, Installing
    <3> QED
      BY <1>2, <2>1, <3>1, RandomTaken DEF k
  <2>3. CASE Returned
    BY <1>1, <1>2, <2>1, <2>3, ReturnHand, NoKeyToCount, DrawsOn
  <2> QED
    BY <2>1, <2>2, <2>3
<1>4. CASE GenerateNewKey
  <2>1. /\ job.pc = "take" /\ made' = made + 1 /\ UNCHANGED <<handed, again, rst>>
        /\ KeyStored(k) \/ KeyRefused(k)
        /\ JobIs("give", job.then, job.key, job.n, k) \/ JobIdle
    BY <1>4, GenerateEffect
  <2> HIDE DEF k
  <2>2. Draws' /\ InHand' \subseteq InHand \cup {k} /\ job'.pc \in {"give", "idle"}
    BY <2>1 DEF Draws, JobIs, JobIdle, InHand, Running, Installing
  <2> QED
    BY <1>2, <2>1, <2>2, RandomTaken DEF k
<1> QED
  BY <1>3, <1>4

LEMMA WritePoolOnce ==
  ASSUME TypeInv, Once, Draws, WritePool
  PROVE  Once'
<1> USE DEF ghosts
<1>1. /\ job.pc = "pool" /\ job.key \in KeySet /\ UNCHANGED <<made, handed, again>>
      /\ \/ \E i \in Nat \ {0} :
              /\ \A j \in DOMAIN mem.pool : j < i
              /\ MemPool(Put(mem.pool, i, job.key)) /\ FilePool(Put(file.wallet.pool, i, job.key))
              /\ JobAt("fill") /\ UNCHANGED rst
         \/ UNCHANGED <<mem, file>> /\ Returned
  BY WritePoolEffect
<1>2. JobOK /\ PoolOK(mem.pool) /\ PoolOK(file.wallet.pool) /\ Pool = mem.pool
  BY DrawsFacts DEF TypeInv, WalletOK, FileOK
<1>3. CASE UNCHANGED <<mem, file>> /\ Returned
  <2>1. SeedsSame /\ NextSame
    BY <1>3 DEF SeedsSame, NextSame
  <2> QED
    BY <1>1, <1>2, <1>3, <2>1, ReturnHand, NoKeyToCount, DrawsOn
<1>4. ASSUME NEW i \in Nat \ {0}, \A j \in DOMAIN mem.pool : j < i,
             MemPool(Put(mem.pool, i, job.key)), FilePool(Put(file.wallet.pool, i, job.key)),
             JobAt("fill"), UNCHANGED rst
      PROVE  Once'
  <2> DEFINE P == Put(mem.pool, i, job.key)
             F == Put(file.wallet.pool, i, job.key)
  <2>1. i \notin DOMAIN mem.pool
    BY <1>2, <1>4 DEF PoolOK, PoolType
  <2>2. /\ DOMAIN P = DOMAIN mem.pool \cup {i} /\ P[i] = job.key
        /\ \A j \in DOMAIN mem.pool : P[j] = mem.pool[j]
        /\ DOMAIN F = DOMAIN file.wallet.pool \cup {i} /\ F[i] = job.key
        /\ \A j \in DOMAIN file.wallet.pool : j # i => F[j] = file.wallet.pool[j]
        /\ Range(P) \subseteq Range(mem.pool) \cup {job.key}
    <3>1. job.key \in KeySet /\ PoolOK(mem.pool) /\ PoolOK(file.wallet.pool)
      BY <1>1, <1>2
    <3> DEFINE k == job.key
               m == mem.pool
               f == file.wallet.pool
    <3>2. i \notin DOMAIN m /\ k \in KeySet /\ PoolOK(m) /\ PoolOK(f)
      BY <2>1, <3>1
    <3> HIDE DEF k, m, f
    <3>3. /\ DOMAIN Put(m, i, k) = DOMAIN m \cup {i} /\ Put(m, i, k)[i] = k
          /\ \A j \in DOMAIN m : j # i => Put(m, i, k)[j] = m[j]
      BY <3>2, PutPool
    <3>5. Range(Put(m, i, k)) \subseteq Range(m) \cup {k}
      BY <3>2, PutPool
    <3>4. /\ DOMAIN Put(f, i, k) = DOMAIN f \cup {i} /\ Put(f, i, k)[i] = k
          /\ \A j \in DOMAIN f : j # i => Put(f, i, k)[j] = f[j]
      BY <3>2, PutPool
    <3> QED
      BY <3>2, <3>3, <3>4, <3>5 DEF k, m, f
  <2> HIDE DEF P, F
  <2>3. SeedsSame /\ NextSame /\ mem'.pool = P /\ file'.wallet.pool = F
    BY <1>4 DEF MemPool, FilePool, MemIs, FileIs, SeedsSame, NextSame, P, F
  <2>4. /\ Draws' /\ job'.pc = "fill" /\ job'.then = job.then /\ job'.out = job.out
        /\ InHand' \subseteq InHand /\ job.key \in InHand /\ job.key \notin InHand'
    BY <1>1, <1>4 DEF Draws, JobAt, JobIs, InHand, Running, Installing, Once, PlacesApart
  <2>5. Pool' = P
    BY <2>3, <2>4, DrawsFacts DEF Draws, Pool
  <2>6. job.key \notin Range(mem.pool) /\ job.key \notin handed
    BY <1>2, <2>4 DEF Once, PlacesApart
  <2>7. IsInjective(Pool')
    <3>1. \A a, b \in DOMAIN mem.pool : mem.pool[a] = mem.pool[b] => a = b
      BY <1>2 DEF Once, PlacesApart, IsInjective
    <3>2. \A a \in DOMAIN mem.pool : mem.pool[a] # job.key
      BY <2>6 DEF Range
    <3> QED
      BY <2>2, <2>5, <3>1, <3>2 DEF IsInjective
  <2>8. Taken' \subseteq Taken
    BY <1>1, <1>2, <2>2, <2>4, <2>5 DEF Taken
  <2>9. \A j \in DOMAIN F : j \in DOMAIN P /\ F[j] = P[j]
    <3>1. \A j \in DOMAIN file.wallet.pool : j \in DOMAIN mem.pool /\ file.wallet.pool[j] = mem.pool[j]
      BY DEF Once, PlacesApart, Draws
    <3> QED
      BY <2>1, <2>2, <3>1
  <2>10. handed' \cap Range(Pool') = {} /\ InHand' \cap (handed' \cup Range(Pool')) = {}
    BY <1>1, <1>2, <2>2, <2>4, <2>5, <2>6 DEF Once, PlacesApart
  <2>11. PlacesApart'
    BY <1>1, <2>3, <2>4, <2>7, <2>9, <2>10, DrawsFacts DEF Once, PlacesApart, Draws, Searching
  <2> QED
    BY <1>1, <2>3, <2>4, <2>8, <2>11, KeyMoves
<1> QED
  BY <1>1, <1>3, <1>4

LEMMA TakeOnce ==
  ASSUME TypeInv, Once, Draws, TakeFromPool, blame' = {}
  PROVE  Once'
<1> USE DEF ghosts
<1>1. PICK i \in DOMAIN mem.pool :
        /\ MemPool(Drop(mem.pool, i))
        /\ JobIs("fill", "give", job.key, job.n, mem.pool[i])
        /\ FilePool(Drop(file.wallet.pool, i))
  BY TakeEffect
<1>2. job.pc = "take" /\ job.then = "take" /\ UNCHANGED <<made, handed, again, rst>>
  BY TakeEffect
<1>3. PoolOK(mem.pool) /\ PoolOK(file.wallet.pool) /\ Pool = mem.pool
  BY DrawsFacts DEF TypeInv, WalletOK, FileOK
<1> DEFINE P == Drop(mem.pool, i)
           F == Drop(file.wallet.pool, i)
           k == mem.pool[i]
<1>4. /\ DOMAIN P = DOMAIN mem.pool \ {i} /\ (\A j \in DOMAIN P : P[j] = mem.pool[j])
      /\ DOMAIN F = DOMAIN file.wallet.pool \ {i} /\ (\A j \in DOMAIN F : F[j] = file.wallet.pool[j])
      /\ Range(P) \subseteq Range(mem.pool)
  BY <1>3, DropPool
<1> HIDE DEF P, F
<1>5. SeedsSame /\ NextSame /\ mem'.pool = P /\ file'.wallet.pool = F
  BY <1>1 DEF MemPool, FilePool, MemIs, FileIs, SeedsSame, NextSame, P, F
<1>6. Draws' /\ InHand' = {k} /\ job'.pc = "fill"
  BY <1>1, <1>2 DEF Draws, JobIs, InHand, Running, Installing
<1>7. Pool' = P
  BY <1>5, <1>6, DrawsFacts DEF Draws, Pool
<1>8. /\ \A a, b \in DOMAIN mem.pool : mem.pool[a] = mem.pool[b] => a = b
      /\ \A j \in DOMAIN file.wallet.pool : j \in DOMAIN mem.pool /\ file.wallet.pool[j] = mem.pool[j]
      /\ again = {} /\ handed \subseteq KeySet /\ handed \cap Range(mem.pool) = {}
  BY <1>3 DEF Once, PlacesApart, IsInjective, Draws
<1>9. k \in Range(mem.pool) /\ k \notin Range(P)
  BY <1>4, <1>8 DEF Range
<1>10. Taken' \subseteq Taken
  BY <1>2, <1>3, <1>4, <1>6, <1>7, <1>9 DEF Taken
<1>11. IsInjective(P) /\ \A j \in DOMAIN F : j \in DOMAIN P /\ F[j] = P[j]
  BY <1>4, <1>8 DEF IsInjective
<1>12. handed' \cap Range(P) = {} /\ InHand' \cap (handed' \cup Range(P)) = {}
  BY <1>2, <1>4, <1>6, <1>8, <1>9
<1>13. PlacesApart'
  BY <1>2, <1>5, <1>6, <1>7, <1>8, <1>11, <1>12, DrawsFacts DEF PlacesApart, Draws, Searching
<1> QED
  BY <1>2, <1>5, <1>6, <1>10, <1>13, KeyMoves

\* The key is given out, and was not before.
LEMMA GiveOnce ==
  ASSUME TypeInv, Once, Draws, NEW coin \in BOOLEAN, Give(coin)
  PROVE  Once'
<1> USE DEF ghosts
<1>1. /\ UNCHANGED <<mem, file, made, rst>> /\ job.pc = "give" /\ JobIdle
      /\ handed' = handed \cup {job.out} /\ again' = again \cup ({job.out} \cap handed)
  BY IdleEffect DEF Give
<1>2. InHand = {job.out} /\ InHand' = {} /\ Draws' /\ SeedsSame /\ NextSame
  BY <1>1 DEF InHand, JobIdle, JobIs, Draws, Running, Installing, SeedsSame, NextSame
<1>3. Pool = mem.pool /\ Pool' = mem.pool
  BY <1>1, <1>2 DEF Draws, Pool
<1>4. Taken' \subseteq Taken /\ handed' \subseteq KeySet /\ again' = {} /\ handed' \cap Range(Pool') = {}
  <2>1. Taken \subseteq KeySet
    BY TakenType DEF Once
  <2> QED
    BY <1>1, <1>2, <1>3, <2>1 DEF Taken, Once, PlacesApart
<1>5. PlacesApart'
  BY <1>1, <1>2, <1>3, <1>4 DEF Once, PlacesApart, Draws, Searching, Installing, JobIdle, JobIs
<1> QED
  BY <1>1, <1>2, <1>4, <1>5, KeyMoves DEF JobIdle, JobIs

LEMMA DrawingOnce ==
  ASSUME TypeInv, Once, blame' = {}, Drawing
  PROVE  Once'
BY DrawingDraws, CountsOnce, AdvanceOnce, RandomOnce, WritePoolOnce, TakeOnce, GiveOnce DEF Drawing

----------------------------------------------------------------------------
(* A phrase is installed.                                                  *)

\* The holder installs; a restore has got no further than that, or there is none.
LEMMA InstallFacts ==
  ASSUME TypeInv, Once, job.pc \in Installing
  PROVE  /\ Pool = mem.pool /\ Disk = file /\ Running /\ InHand = {}
         /\ (job.then = "idle" /\ rst.at = "off") \/ (job.then = "restore" /\ rst.at = "seed")
         /\ \E s \in Seeds : job.key = Key("recv", s, 0)
         /\ file.cseed = None
<1>1. job.then \in {"idle", "restore"} /\ job.pc \in {"clear", "seed", "default", "defaultkey"}
      /\ \E s \in Seeds : job.key = Key("recv", s, 0)
  BY DEF TypeInv, JobOK, Installing
<1>2. rst.at \notin Searching /\ file.cseed = None
  BY <1>1 DEF Once, Found, SeedWritten, Installing
<1>3. job.then = "idle" => rst.at = "off"
  BY <1>2 DEF TypeInv, RstOK
<1>4. job.then = "restore" => rst.at = "seed"
  BY <1>2 DEF TypeInv, RstOK
<1> QED
  BY <1>1, <1>2, <1>3, <1>4 DEF Pool, Disk, Running, InHand

\* A step with empty hands that leaves the pool in memory, or empties it.
LEMMA PlacesStay ==
  ASSUME PlacesApart, Running, Running', InHand' = {}, again' = again,
         handed' \subseteq handed \/ (handed' \subseteq KeySet /\ DOMAIN mem'.pool = {}),
         mem'.pool = mem.pool \/ DOMAIN mem'.pool = {},
         \A i \in DOMAIN file'.wallet.pool :
           i \in DOMAIN mem'.pool /\ file'.wallet.pool[i] = mem'.pool[i],
         job'.pc \in {"seed", "default", "defaultkey"} \/ rst'.at \in Searching => DOMAIN mem'.pool = {},
         job'.pc # "pool"
  PROVE  PlacesApart' /\ Taken' \subseteq Taken \cup handed'
<1>1. Pool = mem.pool /\ Pool' = mem'.pool
  BY DEF Pool, Running
<1>2. Range(Pool') \subseteq Range(Pool) /\ IsInjective(Pool') /\ (DOMAIN mem'.pool = {} => Range(Pool') = {})
  BY <1>1 DEF PlacesApart, Range, IsInjective
<1>3. handed' \cap Range(Pool') = {}
  BY <1>2 DEF PlacesApart
<1>4. handed' \subseteq KeySet
  BY DEF PlacesApart
<1>5. Taken' \subseteq Taken \cup handed'
  BY <1>2 DEF Taken
<1> QED
  BY <1>2, <1>3, <1>4, <1>5 DEF PlacesApart

\* A step that takes nothing and moves no counter, or one of a restore.
LEMMA CountersKeep ==
  ASSUME CountersAhead, Running, Running', made' = made, Taken' \subseteq Taken,
         Restoring' \/ (~ Restoring /\ SeedsSame /\ NextSame)
  PROVE  CountersAhead'
<1>1. Disk = file /\ Disk' = file'
  BY DEF Disk, Running
<1>2. \A k \in Taken' : k[1] = "random" => k[3] < made'
  BY DEF CountersAhead
<1>3. CASE ~ Restoring /\ SeedsSame /\ NextSame
  <2>1. Live(file.wallet)' = Live(file.wallet) /\ Live(mem)' = Live(mem) /\ SeedsOn(file)' = SeedsOn(file)
    BY <1>3 DEF SeedsSame, Live, SeedsOn
  <2>2. \A s \in SeedsOn(Disk)' : Below(Disk.wallet, s)'
    BY <1>1, <1>3, <2>1 DEF CountersAhead, Below, NextSame
  <2>3. mem'.seed # None => Below(mem, mem.seed)'
    BY <1>3, <2>1 DEF CountersAhead, Below, NextSame, SeedsSame
  <2> QED
    BY <1>2, <2>2, <2>3 DEF CountersAhead
<1> QED
  BY <1>2, <1>3 DEF CountersAhead

\* A refusal, or a failure of what leaves the wallet as it was.
LEMMA RefusalOnce ==
  ASSUME TypeInv, Once, job.pc \in Installing, blame' = {}, Refusal, SeedsSame, NextSame,
         mem'.pool = mem.pool, file'.wallet.pool = file.wallet.pool, UNCHANGED <<made, handed, again>>,
         job.pc = "seed" => UNCHANGED mem
  PROVE  Once'
<1>1. job.then = "idle" /\ rst.at = "off" /\ UNCHANGED rst /\ JobIdle
  BY InstallFacts DEF Refusal
<1>2. InHand' = {} /\ Running' /\ ~ Restoring /\ ~ Restoring' /\ rst'.at \notin Searching
      /\ job'.pc = "idle" /\ job'.pc \notin Installing
  BY <1>1 DEF JobIdle, JobIs, InHand, Running, Restoring, Searching, Installing
<1>3. Running /\ Pool = mem.pool /\ Disk = file /\ file.cseed = None
  BY InstallFacts
<1>4. PlacesApart' /\ Taken' \subseteq Taken \cup handed'
  BY <1>2, <1>3, PlacesStay DEF Once, PlacesApart
<1>5. CountersAhead'
  BY <1>2, <1>3, <1>4, CountersKeep DEF Once, Taken
<1>6. SeedsMatch'
  <2>1. job.pc = "seed" => mem'.seed = None
    BY <1>1 DEF Once, SeedWritten
  <2> QED
    BY <1>1, <1>2, <1>3, <2>1 DEF Once, SeedsMatch, SeedsSame, Disk, SeedsOn, Live, Running
<1>7. KeyAtCounter' /\ SeedWritten' /\ Found'
  BY <1>2 DEF KeyAtCounter, SeedWritten, Found, Installing
<1> QED
  BY <1>4, <1>5, <1>6, <1>7 DEF Once

LEMMA PhraseOnce ==
  ASSUME TypeInv, Once, NEW s \in Seeds, NewPhrase(s) \/ RestoreFromPhrase(s), blame' = {}
  PROVE  Once'
<1> DEFINE key == Key("recv", s, 0)
<1>1. /\ UNCHANGED <<mem, file, made, handed, again>> /\ job.pc = "idle" /\ rst.at = "off" /\ file.cseed = None
      /\ \/ /\ JobIs("clear", "idle", key, 0, None) /\ UNCHANGED rst /\ mem.seed = None
            /\ \A k \in mem.keys \cup Range(mem.pool) \cup handed : SeedOf(k) # s
         \/ /\ JobIs("clear", "restore", key, 0, None) /\ rst'.at = "seed" /\ rst'.fresh
            /\ \A k \in mem.keys : SeedOf(k) # s
  <2>1. CASE NewPhrase(s)
    BY <2>1 DEF NewPhrase, Ask, Install, Idle, JobIs, HaveHDSeed
  <2>2. CASE RestoreFromPhrase(s)
    BY <2>2 DEF RestoreFromPhrase, Ask, Install, Idle, JobIs, Resting
  <2> QED
    BY <2>1, <2>2
<1>2. SeedOf(key) = s
  BY DEF Key, SeedOf
<1> HIDE DEF key
<1>3. job.then = "none"
  BY <1>1 DEF TypeInv, JobOK
<1>4. /\ Running /\ Running' /\ InHand' = {} /\ job'.pc = "clear" /\ job'.key = key
      /\ Pool = mem.pool /\ Pool' = mem.pool /\ Disk = file /\ Disk' = file
  BY <1>1, <1>3 DEF JobIs, Running, InHand, Pool, Disk
<1>5. SeedsSame /\ NextSame /\ ~ Restoring /\ rst'.at \in {"off", "seed"} /\ rst'.at \notin Searching
      /\ rst.at \notin Searching
  BY <1>1 DEF SeedsSame, NextSame, Restoring, Searching
<1>6. PlacesApart' /\ Taken' \subseteq Taken \cup handed'
  BY <1>1, <1>4, <1>5, PlacesStay DEF Once, PlacesApart
<1>7. CountersAhead'
  BY <1>1, <1>4, <1>5, <1>6, CountersKeep DEF Once, Taken
<1>8. SeedsMatch'
  BY <1>1, <1>4, <1>5 DEF Once, SeedsMatch, SeedsOn, Live
<1>9. SeedWritten'
  <2>1. Taken' = handed \cup Range(mem.pool)
    BY <1>1, <1>4 DEF Taken
  <2> QED
    BY <1>1, <1>2, <1>4, <2>1 DEF SeedWritten, JobIs
<1>10. KeyAtCounter' /\ Found'
  BY <1>1, <1>4, <1>5 DEF KeyAtCounter, Found, Restoring
<1> QED
  BY <1>6, <1>7, <1>8, <1>9, <1>10 DEF Once

\* A record of the seed, as the file has it.
LEMMA RecordOf ==
  ASSUME FileOK(file), NEW s, NEW n \in 1 .. 5, SeedIs(file.wallet, s, n)
  PROVE  /\ file'.wallet.seed = (IF n = 1 THEN s ELSE file.wallet.seed)
         /\ file'.wallet.schema = (IF n = 2 THEN "bip44" ELSE file.wallet.schema)
         /\ file'.wallet.next.recv = (IF n = 4 THEN 1 ELSE file.wallet.next.recv)
         /\ file'.wallet.pool = file.wallet.pool /\ file'.cseed = file.cseed
<1>1. file.wallet.next \in [Branches -> Nat] /\ {"recv", "change", "legacy"} = Branches
  BY DEF FileOK, WalletOK, Branches
<1>2. CASE n = 1 \/ n = 2
  BY <1>2 DEF SeedIs, FileIs
<1>3. CASE n = 3
  BY <1>1, <1>3 DEF SeedIs, FileIs
<1>4. CASE n = 4
  BY <1>1, <1>4 DEF SeedIs, FileIs
<1>5. CASE n = 5
  BY <1>1, <1>5 DEF SeedIs, FileIs
<1> QED
  BY <1>2, <1>3, <1>4, <1>5

LEMMA ClearOnce ==
  ASSUME TypeInv, Once, ClearKeyPoolRecords, blame' = {}
  PROVE  Once'
<1> USE DEF ghosts
<1> DEFINE on == DOMAIN mem.pool \cap DOMAIN file.wallet.pool
<1>1. /\ job.pc = "clear" /\ UNCHANGED <<made, handed, again>>
      /\ \/ /\ on = {} /\ MemPool(<<>>) /\ JobIs("seed", job.then, job.key, 1, job.out) /\ UNCHANGED <<file, rst>>
         \/ /\ \E i \in on : FilePool(Drop(file.wallet.pool, i))
            /\ UNCHANGED <<mem, job, rst>>
         \/ Refusal /\ UNCHANGED <<mem, file>>
  BY ClearEffect
<1>2. job.pc \in Installing
  BY <1>1 DEF Installing
<1>3. /\ Running /\ Pool = mem.pool /\ Disk = file /\ InHand = {} /\ file.cseed = None
      /\ job.then \in {"idle", "restore"} /\ rst.at \in {"off", "seed"} /\ rst.at \notin Searching
      /\ (job.then = "idle" => rst.at = "off")
  BY <1>2, InstallFacts DEF Searching
<1>4. /\ \A i \in DOMAIN file.wallet.pool : i \in DOMAIN mem.pool /\ file.wallet.pool[i] = mem.pool[i]
      /\ PlacesApart /\ CountersAhead /\ SeedsMatch /\ SeedWritten /\ Found
  BY <1>3 DEF Once, PlacesApart
<1>5. CASE Refusal /\ UNCHANGED <<mem, file>>
  <2>1. SeedsSame /\ NextSame
    BY <1>5 DEF SeedsSame, NextSame
  <2> QED
    BY <1>1, <1>2, <1>5, <2>1, RefusalOnce
<1>6. ASSUME UNCHANGED rst, job'.pc \in {"clear", "seed"}, job'.then = job.then, job'.key = job.key,
             job'.pc = "seed" => job'.n = 1 /\ DOMAIN mem'.pool = {},
             SeedsSame, NextSame, mem'.keys = mem.keys,
             mem'.pool = mem.pool \/ DOMAIN mem'.pool = {},
             \A i \in DOMAIN file'.wallet.pool :
               i \in DOMAIN mem'.pool /\ file'.wallet.pool[i] = mem'.pool[i]
      PROVE  Once'
  <2>1. Running' /\ InHand' = {} /\ job'.pc \in Installing
    BY <1>3, <1>6 DEF Running, InHand, Installing
  <2>2. PlacesApart' /\ Taken' \subseteq Taken \cup handed'
    BY <1>1, <1>3, <1>4, <1>6, <2>1, PlacesStay
  <2>3. Taken' \subseteq Taken
    BY <1>1, <2>2 DEF Taken
  <2>4. CountersAhead'
    BY <1>1, <1>3, <1>4, <1>6, <2>1, <2>3, CountersKeep DEF Restoring
  <2>5. SeedsMatch'
    <3>1. Disk' = file'
      BY <1>6 DEF Disk
    <3> QED
      BY <1>1, <1>3, <1>4, <1>6, <3>1 DEF SeedsMatch, SeedsSame, SeedsOn, Live
  <2>6. SeedWritten'
    <3>1. file'.cseed = None /\ mem'.seed = mem.seed /\ ~ (job'.pc = "seed" /\ job'.n > 1)
          /\ job'.pc \notin {"default", "defaultkey"}
      BY <1>3, <1>6 DEF SeedsSame
    <3>2. job'.then = "idle" => mem'.seed = None /\ \A k \in Taken' : SeedOf(k) # SeedOf(job'.key)
      BY <1>1, <1>4, <1>6, <2>3, <3>1 DEF SeedWritten
    <3>3. job'.then = "restore" => \A k \in mem'.keys : SeedOf(k) # SeedOf(job'.key)
      BY <1>1, <1>2, <1>4, <1>6 DEF SeedWritten
    <3>4. ~ (job'.pc = "seed" /\ job'.n > 2) /\ ~ (job'.pc = "seed" /\ job'.n > 4)
      BY <1>6
    <3> QED
      BY <3>1, <3>2, <3>3, <3>4 DEF SeedWritten
  <2>7. KeyAtCounter' /\ Found'
    BY <1>3, <1>4, <1>6 DEF KeyAtCounter, Found, Restoring
  <2> QED
    BY <2>2, <2>4, <2>5, <2>6, <2>7 DEF Once
<1>7. CASE on = {} /\ MemPool(<<>>) /\ JobIs("seed", job.then, job.key, 1, job.out) /\ UNCHANGED <<file, rst>>
  <2>1. DOMAIN file.wallet.pool = {} /\ DOMAIN mem'.pool = {}
    BY <1>4, <1>7, EmptyPool DEF MemPool, MemIs
  <2>2. SeedsSame /\ NextSame /\ mem'.keys = mem.keys
    BY <1>7 DEF MemPool, MemIs, SeedsSame, NextSame
  <2> QED
    BY <1>6, <1>7, <2>1, <2>2 DEF JobIs
<1>8. CASE (\E i \in on : FilePool(Drop(file.wallet.pool, i))) /\ UNCHANGED <<mem, job, rst>>
  <2>1. PICK i \in on : FilePool(Drop(file.wallet.pool, i))
    BY <1>8
  <2>2. PoolOK(file.wallet.pool)
    BY DEF TypeInv, FileOK, WalletOK
  <2> DEFINE F == Drop(file.wallet.pool, i)
  <2>3. DOMAIN F \subseteq DOMAIN file.wallet.pool /\ \A j \in DOMAIN F : F[j] = file.wallet.pool[j]
    <3> DEFINE f == file.wallet.pool
    <3>1. PoolOK(f)
      BY <2>2
    <3> HIDE DEF f
    <3>2. DOMAIN Drop(f, i) = DOMAIN f \ {i} /\ \A j \in DOMAIN f \ {i} : Drop(f, i)[j] = f[j]
      BY <3>1, DropPool
    <3> QED
      BY <3>2 DEF f
  <2> HIDE DEF F
  <2>4. file'.wallet.pool = F /\ SeedsSame /\ NextSame
    BY <1>8, <2>1 DEF FilePool, FileIs, SeedsSame, NextSame, F
  <2> QED
    BY <1>1, <1>4, <1>6, <1>8, <2>3, <2>4
<1> QED
  BY <1>1, <1>5, <1>7, <1>8

\* A record of the seed is written: the file is of the new seed from the first
\* on, and none of its keys is taken, or a restore is under way.
LEMMA SeedOnce ==
  ASSUME TypeInv, Once, WriteSeed, blame' = {}
  PROVE  Once'
<1> USE DEF ghosts
<1> DEFINE s == SeedOf(job.key)
           n == job.n
<1>1. /\ job.pc = "seed" /\ s \in Seeds /\ n \in 1 .. 5 /\ UNCHANGED <<made, handed, again>>
      /\ \/ /\ n < 5 /\ UNCHANGED mem /\ JobIs("seed", job.then, job.key, n + 1, job.out)
            /\ SeedIs(file.wallet, s, n) /\ UNCHANGED rst
         \/ /\ n = 5 /\ MemIs(mem.keys, mem.pool, s, "bip44", [recv |-> 1, change |-> 0, legacy |-> 0])
            /\ SeedIs(file.wallet, s, 5) /\ UNCHANGED rst /\ JobAt("default")
         \/ Refusal /\ UNCHANGED <<mem, file>>
  BY WriteSeedEffect
<1> HIDE DEF s, n
<1>2. job.pc \in Installing /\ FileOK(file)
  BY <1>1 DEF Installing, TypeInv
<1>3. /\ Running /\ Pool = mem.pool /\ Disk = file /\ InHand = {} /\ file.cseed = None
      /\ job.then \in {"idle", "restore"} /\ rst.at \in {"off", "seed"} /\ rst.at \notin Searching
      /\ (job.then = "idle" => rst.at = "off") /\ (job.then = "restore" => rst.at = "seed")
  BY <1>2, InstallFacts DEF Searching
<1>4. /\ \A i \in DOMAIN file.wallet.pool : i \in DOMAIN mem.pool /\ file.wallet.pool[i] = mem.pool[i]
      /\ DOMAIN mem.pool = {} /\ s # None
      /\ PlacesApart /\ CountersAhead /\ SeedWritten /\ Found
  BY <1>1, <1>3, KeysAssumption DEF Once, PlacesApart
<1>5. CASE Refusal /\ UNCHANGED <<mem, file>>
  <2>1. SeedsSame /\ NextSame
    BY <1>5 DEF SeedsSame, NextSame
  <2> QED
    BY <1>1, <1>2, <1>5, <2>1, RefusalOnce
<1>6. ASSUME UNCHANGED rst, job'.then = job.then, job'.key = job.key, SeedIs(file.wallet, s, n),
             mem'.pool = mem.pool, mem'.keys = mem.keys, job'.pc \in {"seed", "default"},
             \/ job'.pc = "seed" /\ n < 5 /\ job'.n = n + 1 /\ mem'.seed = mem.seed
             \/ /\ job'.pc = "default" /\ n = 5 /\ mem'.seed = s /\ mem'.schema = "bip44"
                /\ mem'.next.recv = 1
      PROVE  Once'
  <2>1. Running' /\ InHand' = {} /\ job'.pc \in Installing /\ Disk' = file' /\ Pool' = mem.pool
    BY <1>3, <1>6 DEF Running, InHand, Installing, Disk, Pool
  <2>2. /\ file'.wallet.seed = s /\ file'.cseed = None /\ file'.wallet.pool = file.wallet.pool
        /\ n >= 2 => file'.wallet.schema = "bip44"
        /\ n >= 4 => file'.wallet.next.recv = 1
    BY <1>1, <1>2, <1>3, <1>4, <1>6, RecordOf DEF SeedWritten, s, n
  <2>3. PlacesApart' /\ Taken' \subseteq Taken \cup handed'
    BY <1>1, <1>3, <1>4, <1>6, <2>1, <2>2, PlacesStay
  <2>4. Taken' \subseteq Taken
    BY <1>1, <2>3 DEF Taken
  <2>5. /\ job.then = "idle" => mem.seed = None /\ \A k \in Taken' : SeedOf(k) # s
        /\ job.then = "restore" => \A k \in mem.keys : SeedOf(k) # s
    BY <1>1, <1>2, <1>4, <2>4 DEF SeedWritten, s
  <2>6. CountersAhead'
    <3>1. \A k \in Taken' : k[1] = "random" => k[3] < made'
      BY <1>1, <1>4, <2>4 DEF CountersAhead
    <3>2. Restoring' <=> job.then = "restore"
      BY <1>3, <1>6 DEF Restoring
    <3>3. job.then = "idle" => /\ \A t \in SeedsOn(Disk)' : t = s
                               /\ mem'.seed # None => mem'.seed = s
      BY <1>6, <2>1, <2>2, <2>5 DEF SeedsOn
    <3> QED
      BY <1>3, <2>5, <3>1, <3>2, <3>3 DEF CountersAhead, Below
  <2>7. SeedsMatch'
    <3>1. SeedsOn(file)' = {s}
      BY <1>4, <2>2 DEF SeedsOn
    <3>2. job'.pc = "default" => Live(mem)' = Live(file.wallet)' /\ mem'.seed = s
      BY <1>6, <2>2 DEF Live
    <3> QED
      BY <1>6, <2>1, <2>2, <3>1, <3>2 DEF SeedsMatch
  <2>8. SeedWritten'
    <3>1. SeedOf(job'.key) = s
      BY <1>6 DEF s
    <3> QED
      BY <1>1, <1>6, <2>1, <2>2, <2>5, <3>1 DEF SeedWritten
  <2>9. KeyAtCounter' /\ Found'
    BY <1>3, <1>4, <1>6 DEF KeyAtCounter, Found, Restoring
  <2> QED
    BY <2>3, <2>6, <2>7, <2>8, <2>9 DEF Once
<1>7. CASE /\ n < 5 /\ UNCHANGED mem /\ JobIs("seed", job.then, job.key, n + 1, job.out)
           /\ SeedIs(file.wallet, s, n) /\ UNCHANGED rst
  BY <1>6, <1>7 DEF JobIs
<1>8. CASE /\ n = 5 /\ MemIs(mem.keys, mem.pool, s, "bip44", [recv |-> 1, change |-> 0, legacy |-> 0])
           /\ SeedIs(file.wallet, s, 5) /\ UNCHANGED rst /\ JobAt("default")
  <2>1. /\ mem'.keys = mem.keys /\ mem'.pool = mem.pool /\ mem'.seed = s /\ mem'.schema = "bip44"
        /\ mem'.next.recv = 1
    BY <1>8 DEF MemIs
  <2> QED
    BY <1>6, <1>8, <2>1 DEF JobAt, JobIs
<1> QED
  BY <1>1, <1>5, <1>7, <1>8

LEMMA DefaultOnce ==
  ASSUME TypeInv, Once, AddDefaultKey, blame' = {}
  PROVE  Once'
<1> USE DEF ghosts
<1> DEFINE k == job.key
<1>1. /\ job.pc = "default" /\ UNCHANGED <<made, handed, again>>
      /\ \/ k \in mem.keys /\ JobAt("defaultkey") /\ UNCHANGED <<mem, file, rst>>
         \/ KeyStored(k) /\ JobAt("defaultkey") /\ UNCHANGED rst
         \/ (UNCHANGED <<mem, file>> \/ KeyRefused(k)) /\ Refusal
  BY AddDefaultEffect
<1> HIDE DEF k
<1>2. job.pc \in Installing
  BY <1>1 DEF Installing
<1>3. /\ Running /\ Disk = file /\ InHand = {} /\ file.cseed = None
      /\ job.then \in {"idle", "restore"} /\ rst.at \in {"off", "seed"} /\ rst.at \notin Searching
  BY <1>2, InstallFacts DEF Searching
<1>4. /\ SeedsSame /\ NextSame /\ mem'.pool = mem.pool /\ file'.wallet.pool = file.wallet.pool
      /\ mem'.keys \subseteq mem.keys \cup {k}
  BY <1>1 DEF KeyStored, KeyRefused, MemKeys, FileKeys, MemIs, FileIs, SeedsSame, NextSame
<1>5. CASE Refusal
  BY <1>1, <1>2, <1>4, <1>5, RefusalOnce
<1>6. CASE JobAt("defaultkey") /\ UNCHANGED rst
  <2>1. /\ Running' /\ InHand' = {} /\ job'.pc = "defaultkey" /\ job'.then = job.then /\ job'.key = k
        /\ Disk' = file'
    BY <1>3, <1>6 DEF JobAt, JobIs, Running, InHand, Disk, k
  <2>2. PlacesApart' /\ Taken' \subseteq Taken \cup handed'
    BY <1>1, <1>3, <1>4, <2>1, PlacesStay DEF Once, PlacesApart
  <2>3. CountersAhead'
    <3>1. Taken' \subseteq Taken
      BY <1>1, <2>2 DEF Taken
    <3> QED
      BY <1>1, <1>3, <1>4, <1>6, <2>1, <3>1, CountersKeep DEF Once, Restoring
  <2>4. SeedsMatch'
    BY <1>1, <1>3, <1>4, <1>6, <2>1 DEF Once, SeedsMatch, SeedsSame, SeedsOn, Live
  <2>5. SeedWritten'
    <3>1. file'.cseed = None /\ mem'.seed = SeedOf(k) /\ file'.wallet.seed = mem'.seed
          /\ mem'.schema = "bip44" /\ mem'.next.recv = 1 /\ file'.wallet.next.recv = 1
      BY <1>1, <1>3, <1>4 DEF Once, SeedWritten, SeedsSame, NextSame, k
    <3>2. job'.then = "restore" => \A x \in mem'.keys : SeedOf(x) = SeedOf(k) => x = k
      BY <1>1, <1>2, <1>4, <2>1 DEF Once, SeedWritten, k
    <3> QED
      BY <2>1, <3>1, <3>2 DEF SeedWritten
  <2>6. KeyAtCounter' /\ Found'
    BY <1>3, <1>6, <2>1 DEF KeyAtCounter, Found, Once, Restoring
  <2> QED
    BY <2>2, <2>3, <2>4, <2>5, <2>6 DEF Once
<1> QED
  BY <1>1, <1>5, <1>6

\* The default key counts as given out; it is the first of its branch.
LEMMA SetDefaultOnce ==
  ASSUME TypeInv, Once, SetDefaultKey, blame' = {}
  PROVE  Once'
<1> USE DEF ghosts
<1> DEFINE k == job.key
<1>1. /\ job.pc = "defaultkey" /\ UNCHANGED <<made, again>>
      /\ MemIs(mem.keys, mem.pool, mem.seed, mem.schema, mem.next) /\ FileKeys(file.wallet.keys)
      /\ \/ /\ handed' = handed \cup {k}
            /\ \/ job.then = "restore" /\ JobIdle /\ RstAt("recv", rst.step)
               \/ job.then = "idle" /\ JobAt("fill") /\ UNCHANGED rst
         \/ Refusal /\ UNCHANGED handed
  BY SetDefaultEffect
<1>2. job.pc \in Installing
  BY <1>1 DEF Installing
<1>3. /\ Running /\ Pool = mem.pool /\ Disk = file /\ InHand = {} /\ file.cseed = None
      /\ (job.then = "idle" => rst.at = "off") /\ (job.then = "restore" => rst.at = "seed")
  BY <1>2, InstallFacts
<1>4. PICK s \in Seeds : k = Key("recv", s, 0)
  BY <1>2, InstallFacts
<1>5. k \in KeySet /\ SeedOf(k) = s /\ k[1] = "recv" /\ k[3] = 0 /\ s # None
  BY <1>4, KeyTypes, KeysAssumption DEF SeedOf, Branches
<1>6. /\ mem.seed = s /\ file.wallet.seed = s /\ mem.schema = "bip44"
      /\ mem.next.recv = 1 /\ file.wallet.next.recv = 1 /\ DOMAIN mem.pool = {}
      /\ job.then = "restore" => rst.fresh /\ \A x \in mem.keys : SeedOf(x) = s => x = k
  <2>1. SeedWritten /\ PlacesApart /\ Found
    BY DEF Once
  <2>2. mem.seed = s /\ file.wallet.seed = s /\ mem.schema = "bip44" /\ mem.next.recv = 1
        /\ file.wallet.next.recv = 1
    BY <1>1, <1>5, <2>1 DEF SeedWritten
  <2>3. job.then = "restore" => \A x \in mem.keys : SeedOf(x) = s => x = k
    BY <1>1, <1>2, <1>5, <2>1 DEF SeedWritten
  <2>4. DOMAIN mem.pool = {} /\ (job.then = "restore" => rst.fresh)
    BY <1>1, <1>3, <2>1 DEF PlacesApart, Found, Restoring
  <2> QED
    BY <2>2, <2>3, <2>4
<1>7. SeedsOn(file) \subseteq {s} /\ Live(mem) = {"recv", "change"} /\ Live(file.wallet) = {"recv", "change"}
      /\ file.wallet.schema = "bip44"
  <2>1. rst.at # "legacy" /\ job.pc # "seed"
    BY <1>1, <1>2, InstallFacts
  <2>2. SeedsOn(file) \subseteq {s} /\ Live(mem) = Live(file.wallet)
    BY <1>3, <1>5, <1>6, <2>1 DEF Once, SeedsMatch
  <2>3. Live(mem) = {"recv", "change"}
    BY <1>6 DEF Live
  <2>4. "recv" \in Live(file.wallet)
    BY <2>2, <2>3
  <2>5. file.wallet.schema = "bip44"
    BY <2>4 DEF Live
  <2> QED
    BY <2>2, <2>3, <2>5
<1> HIDE DEF k
<1>8. /\ SeedsSame /\ NextSame /\ mem'.pool = mem.pool /\ mem'.keys = mem.keys
      /\ file'.wallet.pool = file.wallet.pool
  BY <1>1 DEF FileKeys, MemIs, FileIs, SeedsSame, NextSame
<1>9. CASE Refusal /\ UNCHANGED handed
  BY <1>1, <1>2, <1>8, <1>9, RefusalOnce
<1>10. CASE /\ handed' = handed \cup {k}
            /\ \/ job.then = "restore" /\ JobIdle /\ RstAt("recv", rst.step)
               \/ job.then = "idle" /\ JobAt("fill") /\ UNCHANGED rst
  <2>1. /\ Running' /\ InHand' = {} /\ job'.pc \in {"idle", "fill"} /\ job'.pc \notin Installing /\ Disk' = file'
        /\ job.then = "restore" => rst'.at = "recv" /\ rst'.fresh /\ job'.pc = "idle"
        /\ job.then = "idle" => rst'.at = "off"
        /\ job.then \in {"idle", "restore"}
    BY <1>3, <1>6, <1>10 DEF JobAt, JobIdle, JobIs, RstAt, Running, InHand, Disk, Installing
  <2>2. PlacesApart' /\ Taken' \subseteq Taken \cup handed'
    <3>1. handed' \subseteq KeySet /\ DOMAIN mem'.pool = {}
      BY <1>5, <1>6, <1>8, <1>10 DEF Once, PlacesApart
    <3> QED
      BY <1>1, <1>3, <1>8, <2>1, <3>1, PlacesStay DEF Once, PlacesApart
  <2>3. Taken' \subseteq Taken \cup {k}
    BY <1>10, <2>2 DEF Taken
  <2>4. CountersAhead'
    <3>1. \A x \in Taken' : x[1] = "random" => x[3] < made'
      BY <1>1, <1>5, <2>3 DEF Once, CountersAhead
    <3>2. CASE job.then = "restore"
      BY <2>1, <3>1, <3>2 DEF CountersAhead, Restoring
    <3>3. CASE job.then = "idle"
      <4>1. Below(mem, s) /\ (\A t \in SeedsOn(file) : t = s /\ Below(file.wallet, s))
        BY <1>3, <1>5, <1>6, <1>7, <3>3 DEF Once, CountersAhead, Restoring
      <4>2. Live(mem)' = Live(mem) /\ Live(file.wallet)' = Live(file.wallet) /\ SeedsOn(file)' = SeedsOn(file)
            /\ mem'.seed = s
        BY <1>6, <1>8 DEF SeedsSame, SeedsOn, Live
      <4>3. Below(mem, mem.seed)'
        BY <1>5, <1>6, <1>8, <2>3, <4>1, <4>2 DEF Below, NextSame
      <4>4. \A t \in SeedsOn(file)' : Below(file.wallet, t)'
        BY <1>5, <1>6, <1>8, <2>3, <4>1, <4>2 DEF Below, NextSame
      <4> QED
        BY <2>1, <3>1, <4>3, <4>4 DEF CountersAhead
    <3> QED
      BY <2>1, <3>2, <3>3
  <2>5. SeedsMatch'
    BY <1>3, <1>6, <1>7, <1>8, <2>1 DEF SeedsMatch, SeedsSame, SeedsOn, Live
  <2>6. KeyAtCounter' /\ SeedWritten'
    BY <2>1 DEF KeyAtCounter, SeedWritten, Installing
  <2>7. Found'
    <3>1. CASE job.then = "restore"
      <4>1. FoundBelow'
        BY <1>5, <1>6, <1>8, <3>1 DEF FoundBelow, SeedsSame, NextSame
      <4> QED
        BY <1>3, <1>5, <1>6, <1>7, <1>8, <2>1, <3>1, <4>1 DEF Found, SeedsSame
    <3>2. CASE job.then = "idle"
      BY <2>1, <3>2 DEF Found, Restoring, Searching
    <3> QED
      BY <2>1, <3>1, <3>2
  <2> QED
    BY <2>2, <2>4, <2>5, <2>6, <2>7 DEF Once
<1> QED
  BY <1>1, <1>9, <1>10 DEF k

----------------------------------------------------------------------------
(* A restore searches.                                                     *)

LEMMA SearchFacts ==
  ASSUME TypeInv, Once, rst.at \in Searching
  PROVE  /\ job.pc = "idle" /\ job.then = "none" /\ InHand = {} /\ Running /\ Restoring /\ rst.fresh
         /\ Pool = mem.pool /\ Disk = file /\ DOMAIN mem.pool = {}
         /\ \A i \in DOMAIN file.wallet.pool :
              i \in DOMAIN mem.pool /\ file.wallet.pool[i] = mem.pool[i]
         /\ file.cseed = None /\ mem.seed # None /\ file.wallet.seed = mem.seed
         /\ file.wallet.schema = "bip44" /\ (rst.at # "legacy" => mem.schema = "bip44")
         /\ FoundBelow /\ (rst.at \notin {"recv", "change"} => rst.step = "key")
<1>1. job.pc = "idle" /\ Restoring /\ DOMAIN mem.pool = {} /\ Running
  BY DEF Once, Found, PlacesApart, Restoring, Searching, Running
<1>2. job.then = "none"
  BY <1>1 DEF TypeInv, JobOK
<1> QED
  BY <1>1, <1>2 DEF Once, Found, PlacesApart, InHand, Pool, Disk, Running

\* What is left to show of a step of the search.
LEMMA SearchKeeps ==
  ASSUME TypeInv, Once, rst.at \in Searching, UNCHANGED <<job, made, handed, again>>,
         mem'.pool = mem.pool, mem'.seed = mem.seed,
         file'.wallet.pool = file.wallet.pool, file'.wallet.seed = file.wallet.seed,
         file'.wallet.schema = file.wallet.schema, file'.cseed = file.cseed,
         rst'.at \in Searching, rst'.fresh = rst.fresh,
         rst'.at # "legacy" => mem'.schema = "bip44",
         rst'.at \notin {"recv", "change"} => rst'.step = "key",
         FoundBelow'
  PROVE  Once'
<1>1. job.pc = "idle" /\ Running /\ InHand' = {} /\ Running' /\ Restoring' /\ Disk' = file'
  BY SearchFacts DEF InHand, Running, Restoring, Searching, Disk
<1>2. PlacesApart' /\ Taken' \subseteq Taken \cup handed'
  BY <1>1, SearchFacts, PlacesStay DEF Once, PlacesApart
<1>3. CountersAhead'
  <2>1. Taken' \subseteq Taken
    BY <1>2 DEF Taken
  <2> QED
    BY <1>1, <2>1, CountersKeep DEF Once
<1>4. SeedsMatch'
  BY <1>1, SearchFacts DEF SeedsMatch, SeedsOn, Live
<1>5. KeyAtCounter' /\ SeedWritten'
  BY <1>1 DEF KeyAtCounter, SeedWritten, Installing
<1>6. Found'
  BY <1>1, SearchFacts DEF Found
<1> QED
  BY <1>2, <1>3, <1>4, <1>5, <1>6 DEF Once

LEMMA RestoreKeyOnce ==
  ASSUME TypeInv, Once, NEW b \in {"recv", "change"}, RestoreKey(b)
  PROVE  Once'
<1> USE DEF ghosts
<1> DEFINE k == Key(b, mem.seed, mem.next[b])
<1>1. /\ rst.at = b /\ rst.step = "key" /\ UNCHANGED <<job, made, handed, again>>
      /\ \/ /\ locked \/ k \in file.wallet.keys
            /\ MemKeys(mem.keys \cup Unlocked(k)) /\ RstAt(b, "write") /\ UNCHANGED <<file, unsaved>>
         \/ KeyStored(k) /\ RstAt(b, "count")
         \/ KeyRefused(k) /\ RstAt(b, "write")
  BY RestoreKeyEffect
<1>2. k[1] = b /\ SeedOf(k) = mem.seed /\ k[3] = mem.next[b]
  BY DEF Key, SeedOf
<1> HIDE DEF k
<1>3. rst.at \in Searching /\ rst'.at = b /\ rst'.fresh = rst.fresh
  BY <1>1 DEF Searching, RstAt
<1>4. /\ mem'.keys \in {mem.keys, mem.keys \cup {k}} /\ mem'.pool = mem.pool /\ mem'.seed = mem.seed
      /\ mem'.schema = mem.schema /\ mem'.next = mem.next
      /\ file'.wallet.pool = file.wallet.pool /\ file'.wallet.seed = file.wallet.seed
      /\ file'.wallet.schema = file.wallet.schema /\ file'.cseed = file.cseed
  BY <1>1 DEF Unlocked, KeyStored, KeyRefused, MemKeys, FileKeys, MemIs, FileIs
<1>5. k \in unsaved' \/ rst'.step = "count" \/ mem'.keys = mem.keys
  <2>1. CASE k \in file.wallet.keys /\ UNCHANGED unsaved
    <3>1. file.wallet.keys \subseteq mem.keys /\ mem.next[b] \in Nat
      BY <1>3, SearchFacts DEF TypeInv, WalletOK, Branches
    <3>2. FoundBelow
      BY <1>3, SearchFacts
    <3>3. ~ (k[3] < mem.next[b])
      BY <1>2, <3>1
    <3>4. k[1] \in {"recv", "change"} /\ rst.step # "count"
      BY <1>1, <1>2
    <3> QED
      BY <1>2, <2>1, <3>1, <3>2, <3>3, <3>4 DEF FoundBelow
  <2>2. CASE locked /\ MemKeys(mem.keys \cup Unlocked(k))
    BY <2>2 DEF Unlocked, MemKeys, MemIs
  <2> QED
    BY <1>1, <2>1, <2>2 DEF KeyRefused, RstAt
<1>6. unsaved \subseteq unsaved'
  BY <1>1 DEF KeyStored, KeyRefused
<1>7. FoundBelow'
  <2>1. FoundBelow /\ rst.step # "count"
    BY <1>1, <1>3, SearchFacts
  <2> QED
    BY <1>2, <1>3, <1>4, <1>5, <1>6, <2>1 DEF FoundBelow
<1>8. b # "legacy" /\ mem.schema = "bip44"
  BY <1>1, <1>3, SearchFacts
<1> QED
  BY <1>1, <1>3, <1>4, <1>7, <1>8, SearchKeeps

LEMMA RestoreCountOnce ==
  ASSUME TypeInv, Once, NEW b \in {"recv", "change"}, RestoreCount(b) \/ RestoreWriteNext(b)
  PROVE  Once'
<1> USE DEF ghosts
<1>1. rst.at \in Searching /\ rst.at = b /\ UNCHANGED <<job, made, handed, again, unsaved>>
  BY DEF RestoreCount, RestoreWriteNext, Searching
<1>2. FoundBelow /\ mem.schema = "bip44" /\ mem.next \in [Branches -> Nat] /\ {"recv", "change"} \subseteq Branches
  BY <1>1, SearchFacts DEF TypeInv, WalletOK, Branches
<1>3. CASE RestoreCount(b)
  <2>1. /\ rst.step = "count" /\ MemNext(b, mem.next[b] + 1) /\ UNCHANGED file
        /\ RstAt(b, "key") \/ RstAt(b, "write")
    BY <1>3, RestoreCountEffect
  <2>2. /\ mem'.keys = mem.keys /\ mem'.pool = mem.pool /\ mem'.seed = mem.seed /\ mem'.schema = "bip44"
        /\ mem'.next = [mem.next EXCEPT ![b] = mem.next[b] + 1]
    BY <1>2, <2>1 DEF MemNext, MemIs
  <2>3. rst'.at = b /\ rst'.fresh = rst.fresh
    BY <2>1 DEF RstAt
  <2>4. FoundBelow'
    <3> SUFFICES ASSUME NEW k \in mem.keys, k[1] \in {"recv", "change"}, SeedOf(k) = mem.seed
                 PROVE  \/ k[3] < mem'.next[k[1]]
                        \/ k[3] = mem'.next[k[1]] /\ k \in unsaved'
      BY <2>2 DEF FoundBelow
    <3>1. CASE k[1] = b
      <4>1. k[3] < mem.next[b] \/ k[3] = mem.next[b]
        BY <1>2, <3>1 DEF FoundBelow
      <4>2. mem.next[b] \in Nat /\ mem'.next[b] = mem.next[b] + 1
        BY <1>2, <2>2
      <4>3. k[3] \in Nat
        BY DEF TypeInv, WalletOK, KeySet
      <4> QED
        BY <3>1, <4>1, <4>2, <4>3
    <3>2. CASE k[1] # b
      BY <1>1, <1>2, <2>2, <3>2 DEF FoundBelow
    <3> QED
      BY <3>1, <3>2
  <2> QED
    BY <1>1, <2>1, <2>2, <2>3, <2>4, SearchKeeps
<1>4. CASE RestoreWriteNext(b)
  <2>1. /\ rst.step = "write"
        /\ MemIs(mem.keys, mem.pool, mem.seed, IF b = "recv" THEN mem.schema ELSE "legacy", mem.next)
        /\ FileNext(b, mem.next[b]) \/ UNCHANGED file
        /\ RstAt(IF b = "recv" THEN "change" ELSE "legacy", "key")
    BY <1>4, RestoreWriteNextEffect
  <2>2. /\ mem'.keys = mem.keys /\ mem'.pool = mem.pool /\ mem'.seed = mem.seed /\ mem'.next = mem.next
        /\ b = "recv" => mem'.schema = "bip44"
    BY <1>2, <2>1 DEF MemIs
  <2>3. /\ file'.wallet.pool = file.wallet.pool /\ file'.wallet.seed = file.wallet.seed
        /\ file'.wallet.schema = file.wallet.schema /\ file'.cseed = file.cseed
    BY <2>1 DEF FileNext, FileIs
  <2>4. rst'.at = (IF b = "recv" THEN "change" ELSE "legacy") /\ rst'.step = "key" /\ rst'.fresh = rst.fresh
    BY <2>1 DEF RstAt
  <2>5. FoundBelow'
    BY <1>1, <1>2, <2>1, <2>2 DEF FoundBelow
  <2>6. rst'.at \in Searching
    BY <2>4 DEF Searching
  <2> QED
    BY <1>1, <2>2, <2>3, <2>4, <2>5, <2>6, SearchKeeps
<1> QED
  BY <1>3, <1>4

\* With the legacy batch done the schema is put back.
LEMMA SchemaBack ==
  ASSUME TypeInv, RestoreLegacyKey, rst'.at = "scan"
  PROVE  mem'.schema = "bip44"
<1> DEFINE more == rst.n + 1 < RESTORE_BATCH
           k == Key("legacy", mem.seed, rst.legacy)
           scan == [rst EXCEPT !.at = "scan", !.n = 0]
           keys == IF locked THEN mem.keys ELSE mem.keys \cup {k}
<1>1. PICK stored \in BOOLEAN :
        /\ mem' = [mem EXCEPT !.keys = keys, !.schema = IF stored /\ more THEN "legacy" ELSE "bip44"]
        /\ rst' = IF ~ stored THEN [scan EXCEPT !.whole = FALSE]
                  ELSE [(IF more THEN [rst EXCEPT !.n = @ + 1] ELSE scan) EXCEPT !.legacy = @ + 1, !.total = @ + 1]
  BY DEF RestoreLegacyKey
<1>2. WalletOK(mem) /\ RstOK /\ rst.at = "legacy"
  BY DEF TypeInv, RestoreLegacyKey
<1> HIDE DEF more, k, keys
<1>3. ASSUME stored, more PROVE FALSE
  <2>1. rst' = [[rst EXCEPT !.n = @ + 1] EXCEPT !.legacy = @ + 1, !.total = @ + 1]
    BY <1>1, <1>3
  <2> QED
    BY <1>2, <2>1 DEF RstOK
<1>4. mem' = [mem EXCEPT !.keys = keys, !.schema = "bip44"]
  BY <1>1, <1>3
<1> QED
  BY <1>2, <1>4 DEF WalletOK

LEMMA RestoreLegacyOnce ==
  ASSUME TypeInv, Once, RestoreLegacyKey
  PROVE  Once'
<1> USE DEF ghosts
<1> DEFINE k == Key("legacy", mem.seed, rst.legacy)
<1>1. /\ rst.at = "legacy" /\ UNCHANGED <<job, made, handed, again>>
      /\ \E schema : MemIs(mem.keys \cup Unlocked(k), mem.pool, mem.seed, schema, mem.next)
      /\ RstAt("legacy", rst.step) \/ RstAt("scan", rst.step)
      /\ (UNCHANGED file \/ FileKeys(file.wallet.keys \cup {k})) /\ unsaved \subseteq unsaved'
  BY RestoreLegacyEffect
<1>2. k[1] = "legacy"
  BY DEF Key
<1> HIDE DEF k
<1>3. rst.at \in Searching /\ rst'.at \in {"legacy", "scan"} /\ rst'.at \in Searching /\ rst'.fresh = rst.fresh
      /\ rst'.step = rst.step
  BY <1>1 DEF Searching, RstAt
<1>4. FoundBelow /\ rst.step = "key"
  BY <1>1, <1>3, SearchFacts
<1>5. /\ mem'.keys \subseteq mem.keys \cup {k} /\ mem'.pool = mem.pool /\ mem'.seed = mem.seed
      /\ mem'.next = mem.next
      /\ file'.wallet.pool = file.wallet.pool /\ file'.wallet.seed = file.wallet.seed
      /\ file'.wallet.schema = file.wallet.schema /\ file'.cseed = file.cseed
  BY <1>1 DEF Unlocked, FileKeys, MemIs, FileIs
<1>6. FoundBelow'
  BY <1>1, <1>2, <1>4, <1>5 DEF FoundBelow
<1>7. rst'.at # "legacy" => mem'.schema = "bip44"
  BY <1>3, SchemaBack
<1> QED
  BY <1>1, <1>3, <1>4, <1>5, <1>6, <1>7, SearchKeeps

LEMMA RestoreScanOnce ==
  ASSUME TypeInv, Once, RestoreScan
  PROVE  Once'
<1> USE DEF ghosts
<1> DEFINE n == WalletLastUsedIndexNext
<1>1. /\ rst.at = "scan" /\ UNCHANGED <<job, made, handed, again, unsaved>>
      /\ n \in Nat /\ MemNext("legacy", n) /\ (FileNext("legacy", n) \/ UNCHANGED file)
      /\ RstAt("finish", rst.step) \/ RstAt("recv", rst.step)
  BY RestoreScanEffect
<1> HIDE DEF n
<1>2. rst.at \in Searching /\ rst'.at \in Searching /\ rst'.at # "legacy" /\ rst'.fresh = rst.fresh
      /\ rst'.step = rst.step
  BY <1>1 DEF Searching, RstAt
<1>3. FoundBelow /\ rst.step = "key" /\ mem.schema = "bip44" /\ mem.next \in [Branches -> Nat]
  BY <1>1, <1>2, SearchFacts DEF TypeInv, WalletOK
<1>4. /\ mem'.keys = mem.keys /\ mem'.pool = mem.pool /\ mem'.seed = mem.seed
      /\ mem'.schema = "bip44" /\ mem'.next = [mem.next EXCEPT !["legacy"] = n]
      /\ file'.wallet.pool = file.wallet.pool /\ file'.wallet.seed = file.wallet.seed
      /\ file'.wallet.schema = file.wallet.schema /\ file'.cseed = file.cseed
  BY <1>1, <1>3 DEF MemNext, FileNext, MemIs, FileIs
<1>5. \A b \in {"recv", "change"} : mem'.next[b] = mem.next[b]
  BY <1>3, <1>4 DEF Branches
<1>6. FoundBelow'
  BY <1>1, <1>3, <1>4, <1>5 DEF FoundBelow
<1> QED
  BY <1>1, <1>2, <1>3, <1>4, <1>6, SearchKeeps

\* The search ends: what it found is given out, and the counters are past it.
LEMMA RestoreFinishOnce ==
  ASSUME TypeInv, Once, RestoreFinish, blame' = {}
  PROVE  Once'
<1> USE DEF ghosts
<1>1. /\ rst.at = "finish" /\ job.pc = "idle" /\ MemPool(<<>>) /\ JobIs("fill", "restored", None, 0, None)
      /\ RstAt("filling", rst.step) /\ handed' = handed \cap mem.keys /\ ~ Behind
      /\ UNCHANGED <<file, made, again>>
  BY RestoreFinishEffect
<1>2. rst.at \in Searching
  BY <1>1 DEF Searching
<1>3. /\ Running /\ InHand = {} /\ DOMAIN mem.pool = {} /\ FoundBelow /\ Pool = mem.pool /\ Disk = file
      /\ \A i \in DOMAIN file.wallet.pool : i \in DOMAIN mem.pool /\ file.wallet.pool[i] = mem.pool[i]
      /\ mem.seed # None /\ file.wallet.seed = mem.seed /\ file.cseed = None
      /\ mem.schema = "bip44" /\ file.wallet.schema = "bip44"
  BY <1>1, <1>2, SearchFacts
<1>4. DOMAIN file.wallet.pool = {}
  BY <1>3
<1>5. /\ DOMAIN mem'.pool = {} /\ mem'.seed = mem.seed /\ mem'.schema = mem.schema /\ mem'.next = mem.next
  BY <1>1, EmptyPool DEF MemPool, MemIs
<1>6. /\ Running' /\ InHand' = {} /\ job'.pc = "fill" /\ ~ Restoring' /\ rst'.at = "filling"
      /\ rst'.at \notin Searching /\ Disk' = file /\ Pool' = mem'.pool
  BY <1>1 DEF JobIs, RstAt, Running, InHand, Restoring, Searching, Disk, Pool
<1>7. PlacesApart' /\ Taken' \subseteq Taken \cup handed'
  BY <1>1, <1>3, <1>4, <1>5, <1>6, PlacesStay DEF Once, PlacesApart
<1>8. Taken' \subseteq Taken /\ Taken' \subseteq mem.keys
  <2>1. Taken' \subseteq Taken
    BY <1>1, <1>7 DEF Taken
  <2>2. Range(Pool') = {}
    BY <1>5, <1>6 DEF Range
  <2> QED
    BY <1>1, <1>6, <2>1, <2>2 DEF Taken
<1>9. \A k \in Taken' : k[1] \in {"recv", "change"} /\ SeedOf(k) = mem.seed => k[3] < mem.next[k[1]]
  <2> SUFFICES ASSUME NEW k \in Taken', k[1] \in {"recv", "change"}, SeedOf(k) = mem.seed,
                      k[3] = mem.next[k[1]], k \in unsaved
               PROVE  FALSE
    BY <1>1, <1>3, <1>8 DEF FoundBelow
  <2>1. k \in KeySet
    BY <1>8, TakenType DEF Once
  <2>2. k = <<k[1], k[2], k[3]>>
    BY <2>1 DEF KeySet
  <2>3. k = Key(k[1], mem.seed, mem.next[k[1]])
    BY <2>2 DEF Key, SeedOf
  <2> QED
    BY <1>1, <2>3 DEF Behind
<1>10. \A b \in {"recv", "change"} : file.wallet.next[b] = mem.next[b]
  BY <1>1 DEF Behind
<1>11. CountersAhead'
  <2>1. \A k \in Taken' : k[1] = "random" => k[3] < made'
    BY <1>1, <1>8 DEF Once, CountersAhead
  <2>2. Live(mem)' = {"recv", "change"} /\ Live(file.wallet) = {"recv", "change"}
        /\ SeedsOn(file) = {mem.seed}
    BY <1>3, <1>5 DEF Live, SeedsOn
  <2>3. Below(mem, mem.seed)'
    BY <1>5, <1>9, <2>2 DEF Below
  <2>4. Below(file.wallet, mem.seed)'
    BY <1>1, <1>5, <1>9, <1>10, <2>2 DEF Below
  <2> QED
    BY <1>1, <1>5, <1>6, <2>1, <2>2, <2>3, <2>4 DEF CountersAhead, Below
<1>12. SeedsMatch'
  BY <1>1, <1>3, <1>5, <1>6 DEF SeedsMatch, SeedsOn, Live
<1>13. KeyAtCounter' /\ SeedWritten' /\ Found'
  BY <1>6 DEF KeyAtCounter, SeedWritten, Found, Installing
<1> QED
  BY <1>7, <1>11, <1>12, <1>13 DEF Once

LEMMA SearchOnce ==
  ASSUME TypeInv, Once, RestoreStep, blame' = {}
  PROVE  Once'
BY RestoreKeyOnce, RestoreCountOnce, RestoreLegacyOnce, RestoreScanOnce, RestoreFinishOnce DEF RestoreStep

----------------------------------------------------------------------------
(* Encryption, the end of the process and the next start.                  *)

\* The program has stopped: the file is all there is.
LEMMA StoppedOnce ==
  ASSUME job'.pc = "down", job'.then = "none", rst'.at = "off", again' = {}, handed' \subseteq KeySet,
         IsInjective(file'.wallet.pool), handed' \cap Range(file'.wallet.pool) = {},
         \A k \in handed' \cup Range(file'.wallet.pool) :
           /\ k[1] = "random" => k[3] < made'
           /\ \A s \in SeedsOn(file') :
                k[1] \in Live(file'.wallet) /\ SeedOf(k) = s => k[3] < file'.wallet.next[k[1]],
         file'.cseed # None => file'.wallet.seed = None
  PROVE  Once'
<1>1. /\ Pool' = file'.wallet.pool /\ Disk' = file' /\ InHand' = {} /\ ~ Running' /\ ~ Restoring'
      /\ rst'.at \notin Searching /\ job'.pc \notin Installing
  BY DEF Pool, Disk, InHand, Running, Restoring, Searching, Installing
<1>2. Taken' = handed' \cup Range(file'.wallet.pool)
  BY <1>1 DEF Taken
<1>3. PlacesApart'
  BY <1>1 DEF PlacesApart
<1>4. CountersAhead'
  <2>1. \A s \in SeedsOn(file)' : Below(file.wallet, s)'
    BY <1>2 DEF Below, SeedsOn, Live
  <2> QED
    BY <1>1, <1>2, <2>1 DEF CountersAhead
<1>5. SeedsMatch' /\ KeyAtCounter' /\ SeedWritten' /\ Found'
  BY <1>1 DEF SeedsMatch, KeyAtCounter, SeedWritten, Found
<1> QED
  BY <1>3, <1>4, <1>5 DEF Once

\* A crash of a process that was not restoring leaves what the file has.
LEMMA CrashOnce ==
  ASSUME TypeInv, StoredInv, Once, Crash, blame' = {}
  PROVE  Once'
<1>1. /\ UNCHANGED <<file, made, handed, again>> /\ rst.at = "off" /\ job.pc # "down"
      /\ JobIs("down", "none", None, 0, None) /\ rst'.at = "off"
  BY EndsEffect DEF Crash
<1>2. ~ Restoring
  BY <1>1 DEF Restoring
<1>3. CASE job.pc = "swap"
  <2>1. file'.wallet.pool = <<>> /\ SeedsOn(file') = {} /\ file'.cseed = None
    BY <1>1, <1>3 DEF StoredInv, NoFile, Blank, SeedsOn
  <2>2. IsInjective(file'.wallet.pool) /\ Range(file'.wallet.pool) = {}
    BY <2>1, EmptyPool DEF IsInjective
  <2>3. again' = {} /\ handed' \subseteq KeySet /\ \A k \in handed' : k[1] = "random" => k[3] < made'
    BY <1>1 DEF Once, PlacesApart, CountersAhead, Taken
  <2> QED
    BY <1>1, <2>1, <2>2, <2>3, StoppedOnce DEF JobIs
<1>4. CASE job.pc # "swap"
  <2>1. Running /\ Pool = mem.pool /\ Disk = file
    BY <1>1, <1>4 DEF Running, Pool, Disk
  <2>2. /\ IsInjective(mem.pool) /\ again = {} /\ handed \subseteq KeySet /\ handed \cap Range(mem.pool) = {}
        /\ \A i \in DOMAIN file.wallet.pool : i \in DOMAIN mem.pool /\ file.wallet.pool[i] = mem.pool[i]
    BY <2>1 DEF Once, PlacesApart
  <2>3. IsInjective(file.wallet.pool) /\ Range(file.wallet.pool) \subseteq Range(mem.pool)
    BY <2>2 DEF IsInjective, Range
  <2>4. handed \cup Range(file.wallet.pool) \subseteq Taken
    BY <2>1, <2>3 DEF Taken
  <2>5. /\ \A k \in Taken : k[1] = "random" => k[3] < made
        /\ \A s \in SeedsOn(file) : Below(file.wallet, s)
        /\ file.cseed # None => file.wallet.seed = None
    BY <1>2, <2>1 DEF Once, CountersAhead, SeedsMatch
  <2> QED
    BY <1>1, <2>2, <2>3, <2>4, <2>5, StoppedOnce DEF JobIs, Below
<1> QED
  BY <1>3, <1>4

\* Nothing is left but what was given out and paid.
LEMMA LoseOnce ==
  ASSUME TypeInv, Once, Lose
  PROVE  Once'
<1>1. /\ UNCHANGED <<made, again>> /\ file' = NoFile /\ handed' \subseteq handed
      /\ JobIs("down", "none", None, 0, None) /\ rst'.at = "off"
  BY EndsEffect DEF Lose
<1>2. file'.wallet.pool = <<>> /\ SeedsOn(file') = {} /\ file'.cseed = None
  BY <1>1 DEF NoFile, Blank, SeedsOn
<1>3. IsInjective(file'.wallet.pool) /\ Range(file'.wallet.pool) = {}
  BY <1>2, EmptyPool DEF IsInjective
<1>4. again' = {} /\ handed' \subseteq KeySet /\ \A k \in handed' : k[1] = "random" => k[3] < made'
  BY <1>1 DEF Once, PlacesApart, CountersAhead, Taken
<1> QED
  BY <1>1, <1>2, <1>3, <1>4, StoppedOnce DEF JobIs

\* The encrypted file takes the place of the old one.
LEMMA InstallEncryptedOnce ==
  ASSUME TypeInv, Once, InstallEncrypted
  PROVE  Once'
<1> USE DEF ghosts
<1>1. /\ UNCHANGED <<made, handed, again>> /\ file' = spare /\ job.pc = "swap"
      /\ JobIs("down", "none", None, 0, None) /\ rst'.at = "off"
  BY EndsEffect DEF InstallEncrypted
<1>2. Pool = spare.wallet.pool /\ Disk = spare
  BY <1>1 DEF Pool, Disk, Running
<1>3. rst.at \notin Searching /\ job.then # "restore"
  <2>1. job.then = "none"
    BY <1>1 DEF TypeInv, JobOK
  <2> QED
    BY <1>1, <2>1 DEF Once, Found
<1>4. ~ Restoring
  <2>1. rst.at # "seed" /\ rst.at \in {"off", "seed", "filling"} \cup Searching
    BY <1>3 DEF TypeInv, RstOK
  <2> QED
    BY <1>3, <2>1 DEF Restoring
<1>5. /\ IsInjective(spare.wallet.pool) /\ again = {} /\ handed \subseteq KeySet
      /\ handed \cap Range(spare.wallet.pool) = {} /\ handed \cup Range(spare.wallet.pool) \subseteq Taken
  BY <1>2 DEF Once, PlacesApart, Taken
<1>6. /\ \A k \in Taken : k[1] = "random" => k[3] < made
      /\ \A s \in SeedsOn(spare) : Below(spare.wallet, s)
      /\ spare.cseed # None => spare.wallet.seed = None
  BY <1>2, <1>4 DEF Once, CountersAhead, SeedsMatch
<1> QED
  BY <1>1, <1>5, <1>6, StoppedOnce DEF JobIs, Below


\* The new pool is behind the counter of the phrase, or random and new.
LEMMA EncryptOnce ==
  ASSUME TypeInv, Once, EncryptWallet, blame' = {}
  PROVE  Once'
<1> USE DEF ghosts
<1> DEFINE w == Encrypted.wallet
           n == mem.next.legacy
           seed == mem.seed
           K == KEYPOOL_SIZE
<1>1. /\ job.pc = "idle" /\ rst.at = "off" /\ mem.schema # "bip44" /\ spare' = Encrypted
      /\ made' = (IF seed # None THEN made ELSE made + K)
      /\ job'.pc = "swap" /\ job'.then = "none" /\ UNCHANGED <<mem, rst, handed, again>>
  BY DEF EncryptWallet, Ask, Idle, HaveHDSeed
<1>2. Counter("receive") = "legacy" /\ Live(mem) = {"legacy"}
  BY <1>1 DEF Counter, Live
<1>3. /\ Encrypted.cseed = seed /\ w.seed = None /\ w.schema = file.wallet.schema /\ DOMAIN w.pool = 1 .. K
      /\ \A i \in 1 .. K : w.pool[i] = IF seed # None THEN Key("legacy", seed, n + i - 1) ELSE Random(made + i - 1)
      /\ w.next = [file.wallet.next EXCEPT !.legacy = IF seed # None THEN n + K ELSE n]
  BY <1>2, EncryptedOK DEF HaveHDSeed
<1>4. /\ n \in Nat /\ K \in Nat \ {0} /\ made \in Nat
      /\ file.wallet.next \in [Branches -> Nat] /\ "legacy" \in Branches
  <2>1. mem.next \in [Branches -> Nat]
    BY DEF TypeInv, WalletOK
  <2> QED
    BY <2>1, KeysAssumption DEF TypeInv, FileOK, WalletOK, Branches
<1> HIDE DEF w, n, seed, K
<1>5. w.next["legacy"] = IF seed # None THEN n + K ELSE n
  BY <1>3, <1>4
<1>6. /\ Pool' = w.pool /\ Disk' = Encrypted /\ InHand' = {} /\ ~ Running' /\ ~ Restoring' /\ ~ Restoring
      /\ rst'.at \notin Searching /\ job'.pc \notin Installing /\ Running
  BY <1>1 DEF Pool, Disk, InHand, Running, Restoring, Searching, Installing, w
<1>7. /\ PlacesApart /\ CountersAhead /\ SeedsMatch /\ handed \subseteq Taken /\ Taken \subseteq KeySet
  BY TakenType DEF Once, Taken
<1>8. ASSUME NEW i \in 1 .. K
      PROVE  /\ w.pool[i][3] = (IF seed # None THEN n ELSE made) + i - 1
             /\ w.pool[i][1] = (IF seed # None THEN "legacy" ELSE "random")
             /\ seed # None => SeedOf(w.pool[i]) = seed
  <2>1. CASE seed # None
    <3>1. w.pool[i] = <<"legacy", seed, n + i - 1>>
      BY <1>3, <2>1 DEF Key
    <3> QED
      BY <2>1, <3>1 DEF SeedOf
  <2>2. CASE seed = None
    <3>1. w.pool[i] = <<"random", None, made + i - 1>>
      BY <1>3, <2>2 DEF Random
    <3> QED
      BY <2>2, <3>1
  <2> QED
    BY <2>1, <2>2
<1>9. \A k \in handed : /\ k[1] = "random" => k[3] < made
                        /\ k[1] = "legacy" /\ SeedOf(k) = seed /\ seed # None => k[3] < n
                        /\ k[3] \in Nat
  <2>1. seed # None => Below(mem, seed)
    BY <1>6, <1>7 DEF CountersAhead, seed
  <2> QED
    BY <1>2, <1>7, <2>1 DEF CountersAhead, Below, KeySet, n
<1>10. PlacesApart'
  <2>1. IsInjective(w.pool)
    <3> SUFFICES ASSUME NEW i \in 1 .. K, NEW j \in 1 .. K, w.pool[i] = w.pool[j] PROVE i = j
      BY <1>3 DEF IsInjective
    <3> DEFINE m == IF seed # None THEN n ELSE made
    <3>1. m \in Nat
      BY <1>4
    <3>2. w.pool[i][3] = m + i - 1 /\ w.pool[j][3] = m + j - 1
      BY <1>8
    <3> HIDE DEF m
    <3> QED
      BY <1>4, <3>1, <3>2
  <2>2. handed \cap Range(w.pool) = {}
    <3> SUFFICES ASSUME NEW i \in 1 .. K, w.pool[i] \in handed PROVE FALSE
      BY <1>3 DEF Range
    <3> QED
      BY <1>4, <1>8, <1>9
  <2> QED
    BY <1>1, <1>6, <1>7, <2>1, <2>2 DEF PlacesApart
<1>11. \A k \in Taken' : k \in handed \/ \E i \in 1 .. K : k = w.pool[i]
  BY <1>1, <1>3, <1>6 DEF Taken, Range
<1>12. CountersAhead'
  <2>1. ASSUME NEW k \in Taken', k[1] = "random" PROVE k[3] < made'
    <3>1. CASE k \in handed
      BY <1>1, <1>4, <1>9, <2>1, <3>1
    <3>2. CASE \E i \in 1 .. K : k = w.pool[i]
      BY <1>1, <1>4, <1>8, <2>1, <3>2
    <3> QED
      BY <1>11, <3>1, <3>2
  <2>2. ASSUME NEW s \in SeedsOn(Encrypted), NEW k \in Taken', k[1] \in Live(w), SeedOf(k) = s
        PROVE  k[3] < w.next[k[1]]
    <3>1. s = seed /\ seed # None
      BY <1>3, <2>2 DEF SeedsOn, w
    <3>2. k[1] = "legacy"
      BY <1>1, <1>2, <1>3, <1>6, <1>7, <2>2, <3>1 DEF SeedsMatch, Live, seed
    <3>3. CASE k \in handed
      BY <1>4, <1>5, <1>9, <2>2, <3>1, <3>2, <3>3
    <3>4. CASE \E i \in 1 .. K : k = w.pool[i]
      BY <1>4, <1>5, <1>8, <3>1, <3>2, <3>4
    <3> QED
      BY <1>11, <3>3, <3>4
  <2>3. \A s \in SeedsOn(Disk)' : Below(Disk.wallet, s)'
    BY <1>6, <2>2 DEF Below, SeedsOn, Live, w
  <2> QED
    BY <1>6, <2>1, <2>3 DEF CountersAhead
<1>13. SeedsMatch' /\ KeyAtCounter' /\ SeedWritten' /\ Found'
  <2>1. Disk'.wallet.seed = None
    BY <1>3, <1>6 DEF w
  <2> QED
    BY <1>1, <1>6, <2>1 DEF SeedsMatch, KeyAtCounter, SeedWritten, Found
<1> QED
  BY <1>10, <1>12, <1>13 DEF Once

LEMMA BackupOnce ==
  ASSUME Once, BackupWallet
  PROVE  Once'
<1>1. UNCHANGED <<mem, file, spare, job, rst, made, handed, again, unsaved>>
  BY DEF BackupWallet
<1> QED
  BY <1>1 DEF Once, PlacesApart, CountersAhead, KeyAtCounter, SeedsMatch, SeedWritten, Found, FoundBelow,
              Below, Taken, InHand, Pool, Disk, Restoring, Running, Counter, DeriveHDKey, SeedsOn, Live

\* Nobody restores while the program is down.
LEMMA DownFacts ==
  ASSUME TypeInv, Once, job.pc = "down"
  PROVE  /\ rst.at = "off" /\ ~ Restoring /\ ~ Running /\ InHand = {} /\ Disk = file
         /\ Pool = file.wallet.pool /\ Taken = handed \cup Range(file.wallet.pool)
         /\ PlacesApart /\ CountersAhead /\ SeedsMatch
<1>1. job.then = "none"
  BY DEF TypeInv, JobOK
<1>2. ~ Running
  BY DEF Running
<1>3. rst.at = "off"
  BY <1>1, <1>2 DEF TypeInv, RstOK
<1> QED
  BY <1>1, <1>2, <1>3 DEF Restoring, InHand, Disk, Pool, Taken, Once

LEMMA LoadOnce ==
  ASSUME TypeInv, Once, NEW unlock \in BOOLEAN, LoadWallet(unlock)
  PROVE  Once'
<1> USE DEF ghosts
<1> DEFINE w == file.wallet
<1>1. /\ job.pc = "down" /\ JobIdle /\ UNCHANGED <<file, rst, made, handed, again>>
      /\ mem'.pool = w.pool
      /\ mem'.seed = (IF unlock /\ file.cseed # None THEN file.cseed ELSE w.seed)
      /\ mem'.seed # None => mem'.next = w.next
      /\ mem'.seed # None => mem'.schema = IF w.schema = "none" THEN "legacy" ELSE w.schema
  BY LoadEffect DEF MemIs
<1>2. /\ rst.at = "off" /\ ~ Restoring /\ ~ Running /\ Disk = file
      /\ Pool = w.pool /\ Taken = handed \cup Range(w.pool)
      /\ PlacesApart /\ CountersAhead /\ SeedsMatch
  BY <1>1, DownFacts
<1>3. /\ Running' /\ InHand' = {} /\ Pool' = mem'.pool /\ Disk' = file /\ job'.pc = "idle"
      /\ rst'.at \notin Searching /\ ~ Restoring'
  BY <1>1, <1>2 DEF JobIdle, JobIs, Running, InHand, Pool, Disk, Searching, Restoring
<1>4. Taken' = Taken
  BY <1>1, <1>2, <1>3 DEF Taken
<1>5. PlacesApart'
  BY <1>1, <1>2, <1>3 DEF PlacesApart
<1>6. mem'.seed # None => mem'.seed \in SeedsOn(file) /\ SeedsOn(file) \subseteq {mem'.seed}
                          /\ Live(mem') = Live(w)
  BY <1>1, <1>2 DEF SeedsMatch, SeedsOn, Live
<1>7. CountersAhead'
  <2>1. \A s \in SeedsOn(file) : Below(file.wallet, s)
    BY <1>2 DEF CountersAhead
  <2>2. \A s \in SeedsOn(Disk)' : Below(Disk.wallet, s)'
    BY <1>1, <1>3, <1>4, <2>1 DEF Below, SeedsOn
  <2>3. mem'.seed # None => Below(mem, mem.seed)'
    BY <1>1, <1>4, <1>6, <2>1 DEF Below, Live
  <2> QED
    BY <1>1, <1>2, <1>4, <2>2, <2>3 DEF CountersAhead
<1>8. SeedsMatch'
  BY <1>1, <1>2, <1>3, <1>6 DEF SeedsMatch, SeedsOn, Live
<1>9. KeyAtCounter' /\ SeedWritten' /\ Found'
  BY <1>3 DEF KeyAtCounter, SeedWritten, Found, Installing
<1> QED
  BY <1>5, <1>7, <1>8, <1>9 DEF Once

LEMMA CreateOnce ==
  ASSUME TypeInv, StoredInv, Once, CreateNewWallet
  PROVE  Once'
<1> USE DEF ghosts
<1>1. /\ job.pc = "down" /\ JobIdle /\ UNCHANGED <<rst, handed, again>> /\ made' = made + 1
      /\ mem'.pool = <<>> /\ mem'.seed = None /\ file'.cseed = None
      /\ file'.wallet.pool = <<>> /\ file'.wallet.seed = None
  BY CreateEffect DEF MemIs
<1>2. rst.at = "off" /\ handed \subseteq Taken /\ PlacesApart /\ CountersAhead /\ made \in Nat
  BY <1>1, DownFacts DEF TypeInv
<1>3. /\ Running' /\ InHand' = {} /\ Pool' = mem'.pool /\ Disk' = file' /\ job'.pc = "idle"
      /\ rst'.at \notin Searching /\ ~ Restoring'
  BY <1>1, <1>2 DEF JobIdle, JobIs, Running, InHand, Pool, Disk, Searching, Restoring
<1>4. DOMAIN mem'.pool = {} /\ Range(mem'.pool) = {} /\ Taken' = handed
  BY <1>1, <1>3, EmptyPool DEF Taken
<1>5. PlacesApart'
  BY <1>1, <1>2, <1>3, <1>4 DEF PlacesApart, IsInjective
<1>6. SeedsOn(file)' = {} /\ SeedsOn(Disk)' = {}
  BY <1>1, <1>3 DEF SeedsOn
<1>7. CountersAhead'
  <2>1. \A k \in handed : k[1] = "random" => k[3] \in Nat
    BY <1>2 DEF PlacesApart, KeySet
  <2>2. \A k \in handed : k[1] = "random" => k[3] < made'
    BY <1>1, <1>2, <2>1 DEF CountersAhead
  <2> QED
    BY <1>1, <1>4, <1>6, <2>2 DEF CountersAhead
<1>8. SeedsMatch' /\ KeyAtCounter' /\ SeedWritten' /\ Found'
  BY <1>1, <1>3 DEF SeedsMatch, KeyAtCounter, SeedWritten, Found, Installing
<1> QED
  BY <1>5, <1>7, <1>8 DEF Once

LEMMA FailsOnce ==
  ASSUME TypeInv, Once, CreationFails
  PROVE  Once'
<1> USE DEF ghosts
<1>1. /\ job.pc = "down" /\ UNCHANGED <<job, rst, handed, again>> /\ made' = made + 1
      /\ file'.wallet.pool = <<>> /\ file'.wallet.seed = None /\ file'.cseed = None
  BY FailsEffect
<1>2. handed \subseteq Taken /\ PlacesApart /\ CountersAhead /\ made \in Nat /\ rst.at = "off"
  BY <1>1, DownFacts DEF TypeInv
<1>3. Range(file'.wallet.pool) = {} /\ IsInjective(file'.wallet.pool) /\ SeedsOn(file') = {}
  BY <1>1, EmptyPool DEF IsInjective, SeedsOn
<1>4. again' = {} /\ handed' \subseteq KeySet /\ \A k \in handed' : k[1] = "random" => k[3] < made'
  <2>1. \A k \in handed : k[1] = "random" => k[3] \in Nat
    BY <1>2 DEF PlacesApart, KeySet
  <2> QED
    BY <1>1, <1>2, <2>1 DEF PlacesApart, CountersAhead
<1>5. job'.pc = "down" /\ job'.then = "none" /\ rst'.at = "off"
  BY <1>1, <1>2 DEF TypeInv, JobOK
<1> QED
  BY <1>1, <1>3, <1>4, <1>5, StoppedOnce

----------------------------------------------------------------------------
(* OnceInv is inductive.                                                   *)

LEMMA LifeOnce ==
  ASSUME TypeInv, StoredInv, Once, blame' = {},
         \/ EncryptWallet \/ InstallEncrypted \/ BackupWallet \/ Crash \/ Lose \/ CreateNewWallet \/ CreationFails
         \/ \E unlock \in BOOLEAN : LoadWallet(unlock)
  PROVE  Once'
BY EncryptOnce, InstallEncryptedOnce, BackupOnce, CrashOnce, LoseOnce, CreateOnce, FailsOnce, LoadOnce

LEMMA NextOnce == TypeInv /\ StoredInv /\ OnceInv /\ [Next]_vars => OnceInv'
<1> SUFFICES ASSUME TypeInv, StoredInv, OnceInv, [Next]_vars PROVE OnceInv'
  OBVIOUS
<1>1. CASE Next
  <2> SUFFICES ASSUME blame' = {} PROVE Once'
    BY DEF OnceInv, Once
  <2>1. blame = {}
    BY <1>1, BlameStays
  <2>2. Once
    BY <2>1 DEF OnceInv, Once
  <2>3. Drawing \/ (\E s \in Seeds : NewPhrase(s) \/ RestoreFromPhrase(s))
        \/ ClearKeyPoolRecords \/ WriteSeed \/ AddDefaultKey \/ SetDefaultKey \/ RestoreStep
        \/ EncryptWallet \/ InstallEncrypted \/ BackupWallet \/ Crash \/ Lose \/ CreateNewWallet \/ CreationFails
        \/ \E unlock \in BOOLEAN : LoadWallet(unlock)
    BY <1>1 DEF Next, HolderStep, Drawing
  <2> QED
    BY <2>2, <2>3, DrawingOnce, PhraseOnce, ClearOnce, SeedOnce, DefaultOnce, SetDefaultOnce, SearchOnce,
       LifeOnce
<1>2. CASE UNCHANGED vars
  <2>1. UNCHANGED <<mem, file, spare, job, rst, made, handed, again, unsaved, blame>>
    BY <1>2 DEF vars, ghosts
  <2> QED
    BY <2>1 DEF OnceInv, PlacesApart, CountersAhead, KeyAtCounter, SeedsMatch, SeedWritten, Found,
                FoundBelow, Below, Taken, InHand, Pool, Disk, Restoring, Running, Counter, DeriveHDKey,
                SeedsOn, Live
<1> QED
  BY <1>1, <1>2

\* A wallet to start from: its pool is behind the one key that was given out.
LEMMA StartOnce ==
  ASSUME NEW start \in {"fresh", "legacy"}
  PROVE  LET w == StartWallet(start)
             given == IF start = "fresh" THEN {} ELSE {Key("legacy", w.seed, 0)}
         IN /\ IsInjective(w.pool) /\ given \cap Range(w.pool) = {} /\ given \subseteq KeySet
            /\ \A k \in given \cup Range(w.pool) : k[1] = "legacy" /\ k[3] < w.next["legacy"]
<1>1. CASE start = "fresh"
  <2>1. StartWallet(start).pool = <<>>
    BY <1>1 DEF StartWallet, Blank
  <2> QED
    BY <1>1, <2>1, EmptyPool DEF IsInjective
<1>2. CASE start = "legacy"
  <2> DEFINE s == CHOOSE s \in Seeds : TRUE
             K == KEYPOOL_SIZE
             pool == [i \in 2 .. K + 1 |-> Key("legacy", s, i - 1)]
             w == StartWallet(start)
  <2>1. w.pool = pool /\ w.seed = s /\ w.next["legacy"] = K + 1
    BY <1>2 DEF StartWallet, Blank, Branches
  <2>2. s \in Seeds /\ K \in Nat \ {0}
    BY KeysAssumption
  <2>3. DOMAIN pool = 2 .. K + 1 /\ \A i \in 2 .. K + 1 : pool[i] = Key("legacy", s, i - 1)
    OBVIOUS
  <2> HIDE DEF s, K, pool, w
  <2>4. \A i \in 2 .. K + 1 : pool[i][1] = "legacy" /\ pool[i][3] = i - 1
    BY <2>3, KeyTypes
  <2>5. IsInjective(pool)
    BY <2>2, <2>3, <2>4 DEF IsInjective
  <2> DEFINE k0 == Key("legacy", s, 0)
  <2>6. k0[1] = "legacy" /\ k0[3] = 0 /\ k0 \in KeySet
    BY <2>2, KeyTypes DEF Branches
  <2> HIDE DEF k0
  <2>7. \A k \in Range(pool) : k[1] = "legacy" /\ k[3] < K + 1 /\ k[3] # 0
    <3> SUFFICES ASSUME NEW i \in 2 .. K + 1
                 PROVE  pool[i][1] = "legacy" /\ pool[i][3] < K + 1 /\ pool[i][3] # 0
      BY <2>3 DEF Range
    <3> QED
      BY <2>2, <2>4
  <2>8. {k0} \cap Range(pool) = {}
    BY <2>6, <2>7
  <2>9. \A k \in {k0} \cup Range(pool) : k[1] = "legacy" /\ k[3] < K + 1
    BY <2>2, <2>6, <2>7
  <2> QED
    BY <1>2, <2>1, <2>5, <2>6, <2>8, <2>9 DEF w, k0
<1> QED
  BY <1>1, <1>2

LEMMA InitOnce == Init => OnceInv
<1> SUFFICES ASSUME Init PROVE OnceInv
  OBVIOUS
<1>1. PICK plan \in Plans :
        /\ file = [NoFile EXCEPT !.wallet = StartWallet(plan.start)]
        /\ handed = IF plan.start = "fresh" THEN {} ELSE {Key("legacy", file.wallet.seed, 0)}
  BY DEF Init
<1>2. plan.start \in {"fresh", "legacy"}
  BY KeysAssumption
<1>3. again = {} /\ job = [Idle EXCEPT !.pc = "down"] /\ rst = Resting
  BY DEF Init
<1> DEFINE w == StartWallet(plan.start)
<1>4. /\ IsInjective(w.pool)
      /\ LET given == IF plan.start = "fresh" THEN {} ELSE {Key("legacy", w.seed, 0)}
         IN /\ given \cap Range(w.pool) = {} /\ given \subseteq KeySet
            /\ \A k \in given \cup Range(w.pool) : k[1] = "legacy" /\ k[3] < w.next["legacy"]
  BY <1>2, StartOnce
<1> HIDE DEF w
<1>5. file.wallet = w /\ file.cseed = None
  BY <1>1 DEF NoFile, w
<1>6. job.pc = "down" /\ job.then = "none" /\ rst.at = "off"
  BY <1>3 DEF Idle, Resting
<1>7. /\ handed \cap Range(w.pool) = {} /\ handed \subseteq KeySet
      /\ \A k \in handed \cup Range(w.pool) : k[1] = "legacy" /\ k[3] < w.next["legacy"]
  BY <1>1, <1>4, <1>5
<1>8. /\ Pool = w.pool /\ Disk = file /\ InHand = {} /\ ~ Running /\ ~ Restoring
      /\ rst.at \notin Searching /\ job.pc \notin Installing
  BY <1>5, <1>6 DEF Pool, Disk, InHand, Running, Restoring, Searching, Installing
<1>9. Taken = handed \cup Range(w.pool)
  BY <1>8 DEF Taken
<1>10. PlacesApart
  BY <1>3, <1>4, <1>6, <1>7, <1>8 DEF PlacesApart
<1>11. CountersAhead
  BY <1>5, <1>7, <1>8, <1>9 DEF CountersAhead, Below
<1>12. SeedsMatch /\ KeyAtCounter /\ SeedWritten /\ Found
  BY <1>5, <1>6, <1>8 DEF SeedsMatch, KeyAtCounter, SeedWritten, Found
<1> QED
  BY <1>10, <1>11, <1>12 DEF OnceInv

\* No key is given out twice, whatever order of draws, change keys, phrases,
\* restores, encryption, crashes and refused writes, but for the exceptions that
\* HandedOnce names (GetKeyFromPool, SetHDSeedFromMnemonic, RestoreFromPhrase,
\* EncryptWallet).
THEOREM HandedOnceCorrect == Spec => []HandedOnce
<1>1. OnceInv => HandedOnce
  BY DEF OnceInv, PlacesApart, HandedOnce
<1>2. TypeInv /\ StoredInv /\ OnceInv /\ [Next]_vars => OnceInv'
  BY NextOnce
<1> QED
  BY <1>1, <1>2, Invariant, InitOnce, PTL DEF Spec
=============================================================================
