----------------------------- MODULE ShareChain -----------------------------
(***************************************************************************)
(* The share chain of P2Pool (p2pool_chain.cpp): the shares a node holds,  *)
(* the line it mines on, what a new share must carry and pay, what a       *)
(* history is taken for, and what is dropped.  A chain is a value here:    *)
(* held maps the id of a share to its entry, tip is hashTip (0: none), cut *)
(* is nLastPruneCut.                                                       *)
(*                                                                         *)
(* All shares weigh 1.  A target and a median time are known by the shares *)
(* they were computed from, and what a coinbase pays by the shares it      *)
(* credits: a node that reads other shares comes to another result.        *)
(***************************************************************************)
EXTENDS Integers, SequencesExt

CONSTANTS
  WINDOW_SHARES, RETARGET_SHARES, MAX_UNCLE_DEPTH, MAX_UNCLES, MAX_CHAIN_SHARES, TIP_MAX_AGE,
  MEDIAN_SHARES,    \* the 11 of NextShareMinTime
  SLACK,            \* the 10 of HISTORY_SHARES and SYNC_GAP
  PRUNE_SLACK,      \* the 10 of Prune and Evict
  PRUNE_STEP        \* the ten heights between two passes of Prune

\* The window reaches what the target, the median and the uncle rules read.
ASSUME ShareChainAssumption ==
  /\ {WINDOW_SHARES, RETARGET_SHARES, MAX_UNCLE_DEPTH, MAX_UNCLES, MAX_CHAIN_SHARES, TIP_MAX_AGE,
      MEDIAN_SHARES, SLACK, PRUNE_SLACK, PRUNE_STEP} \subseteq Nat
  /\ \A n \in {RETARGET_SHARES, MEDIAN_SHARES, MAX_UNCLE_DEPTH + 1} : 0 < n /\ n < WINDOW_SHARES

HISTORY_SHARES == WINDOW_SHARES + RETARGET_SHARES + 2 * MAX_UNCLE_DEPTH + SLACK

EmptyChain == [held |-> <<>>, tip |-> 0, cut |-> -PRUNE_STEP]

Has(c, id) == id \in DOMAIN c.held
Height(c, id) == IF Has(c, id) THEN c.held[id].height ELSE -1

\* The ids met on the way back from one, at most n: up to the first share of a
\* chain, or to the first that is not held, which is the last one met.
Walk(c, from, n) ==
  LET f[i \in 0 .. n] ==
        IF i = 0 THEN <<>>
        ELSE LET w == f[i - 1]
                 next == IF w = <<>> THEN from
                         ELSE IF Has(c, Last(w)) THEN c.held[Last(w)].prev ELSE 0
             IN IF next = 0 THEN w ELSE Append(w, next)
  IN f[n]

\* Those of them that are held; the whole of the line; the share it begins with.
Line(c, from, n) == SelectSeq(Walk(c, from, n), LAMBDA id : Has(c, id))
WholeLine(c, from) == Line(c, from, Cardinality(DOMAIN c.held))
RootOf(c, id) == Last(WholeLine(c, id))

----------------------------------------------------------------------------
(* Uncles.                                                                 *)

OnLine(c, id, from, depth) == id \in Range(Walk(c, from, depth + 1))

UncleTaken(c, u, from, depth) == \E id \in Range(Line(c, from, depth + 1)) : u \in c.held[id].uncles

\* What is wrong with u as an uncle of a child of parent at this height.
UncleProblem(c, u, parent, height) ==
  IF ~ Has(c, u) THEN "missing"
  ELSE IF c.held[u].trusted THEN "here"
  ELSE IF \/ c.held[u].height >= height \/ c.held[u].height < height - MAX_UNCLE_DEPTH
          \/ OnLine(c, u, parent, MAX_UNCLE_DEPTH)
          \/ ~ OnLine(c, c.held[u].prev, parent, MAX_UNCLE_DEPTH)
          \/ UncleTaken(c, u, parent, MAX_UNCLE_DEPTH)
       THEN "uncle" ELSE "ok"

\* Of several problems, the one the sender is blamed for.
CheckUncles(c, s) ==
  LET problems == {UncleProblem(c, u, s.prev, s.height) : u \in s.uncles} \ {"ok"}
  IN IF problems = {} THEN "ok"
     ELSE IF "uncle" \in problems THEN "uncle" ELSE CHOOSE p \in problems : TRUE

\* The lists of uncles a template may name: as many as there are and fit, of
\* those first in the order of the hashes, which is any order.
UncleCandidates(c, parent) ==
  LET height == Height(c, parent) + 1
      fit == {u \in DOMAIN c.held : UncleProblem(c, u, parent, height) = "ok"}
      n == IF Cardinality(fit) < MAX_UNCLES THEN Cardinality(fit) ELSE MAX_UNCLES
  IN IF Has(c, parent) THEN kSubset(n, fit) ELSE {{}}

----------------------------------------------------------------------------
(* What a share must carry.                                                *)

\* {} is the floor.
NextShareBits(c, parent) ==
  IF Height(c, parent) + 1 < RETARGET_SHARES THEN {} ELSE Range(Line(c, parent, RETARGET_SHARES))
NextShareMinTime(c, parent) == Range(Line(c, parent, MEDIAN_SHARES))

\* The payout window behind a share with this data, if all of it is here ...
WindowHere(c, s) ==
  LET w == Range(Walk(c, s.prev, WINDOW_SHARES - 1)) IN
  /\ \A u \in s.uncles : Has(c, u)
  /\ \A id \in w : Has(c, id) /\ \A u \in c.held[id].uncles : Has(c, u)

\* ... and whom it credits: at each height the share and the uncles it names.
WindowFor(c, s) ==
  {<<s.height, u>> : u \in s.uncles}
  \cup UNION {{<<c.held[id].height, x>> : x \in {id} \cup c.held[id].uncles} :
                id \in Range(Line(c, s.prev, WINDOW_SHARES - 1))}

\* The parent first: a share waits on the first that is missing.
MissingOf(c, s) ==
  SelectSeq(<<s.prev>> \o SetToSortSeq(s.uncles, <), LAMBDA id : id # 0 /\ ~ Has(c, id))

\* Mutant: the target is compared before the window is known to be here.
RefusalBitsFirst(c, s) ==
  IF Has(c, s.id) THEN "have"
  ELSE IF MissingOf(c, s) # <<>> THEN "missing"
  ELSE IF s.height # Height(c, s.prev) + 1 THEN "height"
  ELSE IF s.bits # NextShareBits(c, s.prev) THEN "bits"
  ELSE IF ~ WindowHere(c, s) THEN "window"
  ELSE IF s.after # NextShareMinTime(c, s.prev) THEN "median"
  ELSE IF CheckUncles(c, s) # "ok" THEN CheckUncles(c, s)
  ELSE IF s.pays # WindowFor(c, s) THEN "pays" ELSE "ok"

\* AddInContext up to the point where the share is kept.  (The clock's own
\* refusal, of a share from the future, is no fault of the sender either.)
Refusal(c, s) ==
  IF Has(c, s.id) THEN "have"
  ELSE IF MissingOf(c, s) # <<>> THEN "missing"
  ELSE IF s.height # Height(c, s.prev) + 1 THEN "height"
  ELSE IF ~ WindowHere(c, s) THEN "window"
  ELSE IF s.after # NextShareMinTime(c, s.prev) THEN "median"
  ELSE IF s.bits # NextShareBits(c, s.prev) THEN "bits"
  ELSE IF CheckUncles(c, s) # "ok" THEN CheckUncles(c, s)
  ELSE IF s.pays # WindowFor(c, s) THEN "pays" ELSE "ok"

InnocentRefusal(r) == r \in {"have", "missing", "window", "here"}

----------------------------------------------------------------------------
(* Which line is mined on.                                                 *)

OwnWork(c, ids) == MapThenSumSet(LAMBDA id : c.held[id].own, ids)
LineWork(c, id) == OwnWork(c, Range(Line(c, id, WINDOW_SHARES)))

\* The lines ending at a and b have a share in common; the work of a's above it.
LinesMeet(c, a, b) == Range(WholeLine(c, a)) \cap Range(WholeLine(c, b)) # {}
WorkAbove(c, a, b) == OwnWork(c, Range(WholeLine(c, a)) \ Range(WholeLine(c, b)))

Live(s, now) == s.time >= now - TIP_MAX_AGE

\* Mutant: only the last WINDOW_SHARES are ever compared.
HeavierWindow(c, id, now) ==
  LET e == c.held[id]
      t == c.held[c.tip]
  IN IF c.tip = 0 \/ e.prev = c.tip THEN TRUE
     ELSE IF Live(e, now) # Live(t, now) THEN Live(e, now)
     ELSE LineWork(c, id) > LineWork(c, c.tip)

\* Does the line ending at id, which was checked in full, replace the tip?
Heavier(c, id, now) ==
  LET e == c.held[id]
      t == c.held[c.tip]
  IN IF c.tip = 0 \/ e.prev = c.tip THEN TRUE
     ELSE IF Live(e, now) # Live(t, now) THEN Live(e, now)
     ELSE IF LinesMeet(c, id, c.tip) THEN WorkAbove(c, id, c.tip) > WorkAbove(c, c.tip, id)
     ELSE LineWork(c, id) > LineWork(c, c.tip)

----------------------------------------------------------------------------
(* What is dropped.                                                        *)

Without(c, ids) == [c EXCEPT !.held = Restrict(@, DOMAIN @ \ ids)]

\* Heights compare within the shares that hang together: another line goes
\* once all of it is below the cut.
Prune(c) ==
  LET cut == Height(c, c.tip) - (HISTORY_SHARES + PRUNE_SLACK)
      root == [id \in DOMAIN c.held |-> RootOf(c, id)]
      top(r) == Max({c.held[id].height : id \in {x \in DOMAIN c.held : root[x] = r}})
      below == {id \in DOMAIN c.held :
                  c.held[id].height < cut /\ (root[id] = root[c.tip] \/ top(root[id]) < cut)}
  IN IF c.tip = 0 \/ cut <= 0 \/ (cut >= c.cut /\ cut < c.cut + PRUNE_STEP) THEN c
     ELSE Without([c EXCEPT !.cut = cut], below)

\* Past MAX_CHAIN_SHARES side lines go, the lightest first and a line's newest
\* share before its parent, until a quarter of the room is free.
EvictAllBut(keep, c, room) ==
  LET Leaves(d) == {id \in DOMAIN d.held \ keep : \A x \in DOMAIN d.held : d.held[x].prev # id}
      Lightest(d) == CHOOSE id \in Leaves(d) : \A x \in Leaves(d) :
                       \/ d.held[id].chain < d.held[x].chain
                       \/ d.held[id].chain = d.held[x].chain /\ id <= x
      n == Cardinality(DOMAIN c.held)
      f[i \in 0 .. n] ==
        IF i = 0 THEN c
        ELSE LET d == f[i - 1] IN
             IF Cardinality(DOMAIN d.held) > (MAX_CHAIN_SHARES * 3) \div 4 /\ Leaves(d) # {}
               THEN Without(d, {Lightest(d)}) ELSE d
  IN IF n + room <= MAX_CHAIN_SHARES THEN c ELSE f[n]

TipLine(c) == Range(Line(c, c.tip, HISTORY_SHARES + PRUNE_SLACK))

\* Mutant: the uncles of the tip's line may go.
EvictUncles(c, room) == EvictAllBut(TipLine(c), c, room)

\* Never the tip's line nor an uncle it names.
Evict(c, room) == EvictAllBut(TipLine(c) \cup UNION {c.held[id].uncles : id \in TipLine(c)}, c, room)

----------------------------------------------------------------------------
(* Taking shares in.                                                       *)

Entry(c, s, trusted, own) ==
  [prev |-> s.prev, height |-> s.height, uncles |-> s.uncles, time |-> s.time, bits |-> s.bits,
   after |-> s.after, pays |-> s.pays, trusted |-> trusted, own |-> own,
   chain |-> own + IF Has(c, s.prev) THEN c.held[s.prev].chain ELSE 0]
Keep(c, s, trusted, own) == [c EXCEPT !.held = (s.id :> Entry(c, s, trusted, own)) @@ @]

\* The share with this id, as it is sent on.
ShareOf(c, id) ==
  LET e == c.held[id] IN
  [id |-> id, prev |-> e.prev, height |-> e.height, uncles |-> e.uncles, time |-> e.time,
   bits |-> e.bits, after |-> e.after, pays |-> e.pays]

\* AddInContext of a share that is not refused.
Add(c, s, now) ==
  LET kept == Keep(c, s, FALSE, 1 + Cardinality(s.uncles))
      clean == Without(kept, {id \in DOMAIN c.held : c.held[id].trusted /\ c.held[id].prev = s.id})
  IN Evict(Prune(IF Heavier(clean, s.id, now) THEN [clean EXCEPT !.tip = s.id] ELSE clean), 0)

\* AddTrusted: on its work alone.  (Its size in bytes is left out.)
TrustRefusal(c, s) ==
  IF Has(c, s.id) THEN "have"
  ELSE IF Cardinality(DOMAIN Evict(c, 1).held) >= MAX_CHAIN_SHARES THEN "here"
  ELSE IF Has(Evict(c, 1), s.prev) /\ s.height # Height(Evict(c, 1), s.prev) + 1 THEN "height" ELSE "ok"
AddTrusted(c, s) ==
  LET d == IF Has(c, s.id) THEN c ELSE Evict(c, 1)
      counted == {u \in s.uncles : Has(d, s.prev) /\ UncleProblem(d, u, s.prev, s.height) = "ok"}
  IN IF TrustRefusal(c, s) = "ok" THEN Keep(d, s, TRUE, 1 + Cardinality(counted)) ELSE d

\* Mutant: deep shares are taken on their work wherever they hang.
AddHistoryOnAny(c, part, tipHeight, now) ==
  LET Take(acc, s) ==
        LET trust == s.height < tipHeight - RETARGET_SHARES
            r == IF trust THEN TrustRefusal(acc.chain, s) ELSE Refusal(acc.chain, s)
            next == IF trust THEN AddTrusted(acc.chain, s)
                    ELSE IF r = "ok" THEN Add(acc.chain, s, now) ELSE acc.chain
        IN IF acc.ended THEN acc
           ELSE [chain |-> next, ended |-> r \notin {"ok", "have"}, good |-> r = "ok" \/ InnocentRefusal(r)]
  IN FoldLeft(Take, [chain |-> c, ended |-> FALSE, good |-> TRUE], part)

\* Part of a history whose tip is at this height, oldest first: the chain after
\* it, and whether the sender is to blame.
AddHistory(c, part, tipHeight, now) ==
  LET Take(acc, s) ==
        LET trust == s.height < tipHeight - RETARGET_SHARES
                     /\ (~ Has(acc.chain, s.prev) \/ acc.chain.held[s.prev].trusted)
            r == IF trust THEN TrustRefusal(acc.chain, s) ELSE Refusal(acc.chain, s)
            next == IF trust THEN AddTrusted(acc.chain, s)
                    ELSE IF r = "ok" THEN Add(acc.chain, s, now) ELSE acc.chain
        IN IF acc.ended THEN acc
           ELSE [chain |-> next, ended |-> r \notin {"ok", "have"}, good |-> r = "ok" \/ InnocentRefusal(r)]
      ordered == \A i \in 2 .. Len(part) : part[i].height >= part[i - 1].height
  IN IF ordered THEN FoldLeft(Take, [chain |-> c, ended |-> FALSE, good |-> TRUE], part)
     ELSE [chain |-> c, ended |-> TRUE, good |-> FALSE]

\* What a starting peer is sent: the tip's line with the uncles it names, the
\* oldest first, of one height in the order they were met.
History(c) ==
  LET Met(v, id) == v \o SelectSeq(<<id>> \o SetToSortSeq(c.held[id].uncles, <),
                                   LAMBDA x : Has(c, x) /\ x \notin Range(v))
      met == FoldLeft(Met, <<>>, Line(c, c.tip, HISTORY_SHARES))
      low == Min({c.held[id].height : id \in Range(met)})
      heights == [i \in 1 .. IF met = <<>> THEN 0 ELSE Height(c, c.tip) - low + 1 |-> low + i - 1]
      At(v, h) == v \o SelectSeq(met, LAMBDA id : c.held[id].height = h)
      sorted == FoldLeft(At, <<>>, heights)
  IN [i \in DOMAIN sorted |-> ShareOf(c, sorted[i])]
=============================================================================
