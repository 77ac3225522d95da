-------------------------------- MODULE Swap --------------------------------
(***************************************************************************)
(* An atomic swap between two chat users: the engine of each side          *)
(* (SwapEngine), the two contracts on their chains, the steps the two      *)
(* engines send each other, and the two people.                            *)
(*                                                                         *)
(* A round of the engine works on a copy of the swap, outside the lock,    *)
(* and merges it back (Round); Approve and Cancel come from the screen in  *)
(* between, and blocks, the other side and the end of the process between  *)
(* any two calls of the wallet.  What the round has not merged is lost     *)
(* with the process; everything else is on disk, since nothing leaves the  *)
(* program between a change of the record and its being saved.             *)
(***************************************************************************)
EXTENDS Integers, FiniteSets

CONSTANTS
  MAKER_LOCK, TAKER_LOCK,       \* INITIATOR_LOCK, PARTICIPANT_LOCK
  nTakerMinLeft, nMakerMinLeft, nGiveUpWaiting, nAnswerWithin, nRedeemBumpAfter,
  Day,                          \* what TryRefund gives a late payment
  Worlds,                       \* kinds of chains, and sides that do as they please
  MaxAway, MaxMishaps, Horizon  \* bounds: absence, ends of the process and locks refused, time

Sides == {"maker", "taker"}
Other(s) == IF s = "maker" THEN "taker" ELSE "maker"

\* Bitflash; a chain with its own node, whose memory pool counts as spent; a
\* chain the light client follows, which sees blocks only.
Kinds == {"btf", "core", "light"}

ASSUME SwapAssumption ==
  /\ {MAKER_LOCK, TAKER_LOCK, nTakerMinLeft, nMakerMinLeft, nGiveUpWaiting, nAnswerWithin,
      nRedeemBumpAfter, Day, MaxAway, MaxMishaps, Horizon} \subseteq Nat
  /\ Worlds \subseteq [chain : [Sides -> Kinds], rogue : SUBSET Sides]

\* The maker wants time left to show the secret in (nMakerMinLeft is six hours),
\* the taker's contract is locked for a while (TAKER_LOCK is 24 hours), and
\* nobody is away for longer than a taker can afford who locks with
\* nTakerMinLeft (36 hours) left on the maker's contract.
ASSUME TimeAssumption ==
  /\ nMakerMinLeft > 0 /\ TAKER_LOCK > 0
  /\ TAKER_LOCK + MaxAway <= nTakerMinLeft

VARIABLES
  now,        \* time, the same on both chains
  chain,      \* the kind of chain the contract of each side is on
  rogue,      \* the sides that do not run this program
  con,        \* the contract of each side, as the blocks have it
  pend,       \* spends of it that wait for a block
  shown,      \* the secret is out
  rec,        \* ChatSwap of each side, in the store
  work,       \* the copy a round works on
  sent, seen, \* steps sent by a side, and read (stepsSeen) by a side
  accepted,   \* the maker accepted the invite
  look,       \* whether a round has seen the world as it is
  up, away, mishaps

world == <<now, chain, rogue, con, pend, shown, sent, accepted>>
life == <<up, away, mishaps>>
vars == <<now, chain, rogue, con, pend, shown, rec, work, sent, seen, accepted, look, up, away, mishaps>>

Final == {"DONE", "REFUNDED", "CANCELLED", "FAILED"}
Stages == Final \cup {"NONE", "INVITING", "TAKE_SENT", "TAKE_RECEIVED", "CHECKING_THEIRS",
                      "READY_TO_LOCK", "WAIT_PAYMENT", "LOCKED", "REDEEMING", "REFUNDING"}
Steps == {"take", "lock1", "lock2", "cancel"}
Spent == {"redeemed", "refunded"}

\* fUserOk, fInvited, fSentLock; whether myContract, myTxid, theirContract,
\* secret and refundTxid are filled; created, theirSince, redeemSince (-1: 0).
NoSwap == [stage |-> "NONE", ok |-> FALSE, invited |-> FALSE, told |-> FALSE,
           contract |-> FALSE, txid |-> FALSE, theirs |-> FALSE, secret |-> FALSE,
           refund |-> FALSE, created |-> 0, since |-> 0, redeemSince |-> -1]
NoWork == [pc |-> "idle", was |-> "NONE", wasOk |-> FALSE, s |-> NoSwap]

\* st: none, unpaid (the light client waits for a payment), sent, open, or how
\* it was spent.  good: right recipient, secret hash and amount.
NoContract == [st |-> "none", lock |-> 0, good |-> FALSE]

Stir == look' = [s \in Sides |-> "stale"]
----------------------------------------------------------------------------
(* What the wallet answers.                                                *)

Mine(s, x) == IF x = s THEN "refund" ELSE "redeem"

\* findsecret of the contract of x by s: the chain; on a node its memory pool,
\* which may not have what the other side sent yet.  A Core node may know that
\* the output is spent and not by what ("gone": gettxspendingprevout is newer
\* than some of them).
FindSecret(s, x) ==
  CASE con[x].st = "redeemed" -> {"redeem"}
    [] con[x].st = "refunded" -> {"refund"}
    [] con[x].st \notin Spent /\ chain[x] = "light" -> {"no"}
    [] OTHER -> (IF Mine(s, x) \in pend[x] THEN {Mine(s, x)} ELSE {"no"} \cup pend[x])
                \cup (IF chain[x] = "core" /\ pend[x] # {} THEN {"gone"} ELSE {})

\* auditcontract: unspent, where the wallet found the spend v.
Unspent(x, v) == con[x].st = "open" /\ (chain[x] = "core" => v = "no")

TimeLeft(x) == IF con[x].lock > now THEN con[x].lock - now ELSE 0

\* Mutant: the time left is not looked at.
VerdictsAnyTime(s, nMinLeft) ==
  LET x == Other(s) IN
  {IF con[x].st \in Spent /\ chain[x] # "core" THEN "bad"
   ELSE IF ~ Unspent(x, v) THEN "wait" ELSE IF con[x].good THEN "ok" ELSE "bad" : v \in FindSecret(s, x)}

\* A Core node says nothing of an output it does not have unspent, so a spent
\* contract looks like one that has not come yet.  What is wrong with an
\* unconfirmed one may be in its script, or show only with the amount.
CheckTheirs(s, nMinLeft) ==
  LET x == Other(s)
      verdict(v) ==
        IF con[x].st \in Spent /\ chain[x] # "core" THEN "bad"
        ELSE IF ~ Unspent(x, v) THEN "wait"
        ELSE IF con[x].good /\ TimeLeft(x) >= nMinLeft THEN "ok" ELSE "bad"
  IN {verdict(v) : v \in FindSecret(s, x)} \cup (IF con[x].good \/ con[x].st \in Spent THEN {} ELSE {"bad"})

\* The wallet spends the contract of x: it must see it, and no spend of it.
CanSpend(s, x) ==
  /\ con[x].st = "open" \/ (con[x].st = "sent" /\ chain[x] # "light")
  /\ Mine(s, x) \in pend[x] => chain[x] = "light"
SpendContract(s, x) ==
  /\ pend' = [pend EXCEPT ![x] = @ \cup {Mine(s, x)}]
  /\ shown' = (shown \/ x # s)

\* swapinitiate, swapparticipate: a new contract, whatever came of an earlier
\* one the record does not know; on the light client's chain it is not paid.
FundContract(s, n) ==
  /\ con' = [con EXCEPT ![s] = [st |-> IF chain[s] = "light" THEN "unpaid" ELSE "sent",
                                lock |-> now + n, good |-> TRUE]]
  /\ pend' = [pend EXCEPT ![s] = {}]
----------------------------------------------------------------------------
(* Rounds.                                                                 *)

Running(s) == s \notin rogue /\ up[s]
Unread(s) == sent[Other(s)] \ seen[s]

\* A round takes its copy of a swap in one of these stages, once the steps of
\* the other side are read.  Tick's first call of the wallet follows: what
\* happens between the two might as well happen before or after them.
At(s, stages) ==
  /\ Running(s) /\ work[s].pc = "idle" /\ Unread(s) = {}
  /\ rec[s].stage \in stages /\ look[s] # "calm"

\* The copy is now w; what the round started from stays known.
Becomes(s, pc, w) ==
  work' = [work EXCEPT ![s] = IF @.pc = "idle"
                                THEN [pc |-> pc, was |-> rec[s].stage, wasOk |-> rec[s].ok, s |-> w]
                                ELSE [@ EXCEPT !.pc = pc, !.s = w]]
Looks(s) == look' = [look EXCEPT ![s] = IF work[s].pc = "idle" THEN "looking" ELSE @]

\* The copy changes and nothing else does.
Turns(s, w) == Becomes(s, "store", w) /\ Looks(s) /\ UNCHANGED <<world, rec, seen, life>>

\* ... and a step goes to the other side.
TurnsTelling(s, w, step) ==
  /\ Becomes(s, "store", w)
  /\ sent' = [sent EXCEPT ![s] = @ \cup {step}]
  /\ Stir
  /\ UNCHANGED <<now, chain, rogue, con, pend, shown, accepted, rec, seen, life>>

TickInviting(s) ==
  /\ At(s, {"INVITING"})
  /\ LET w == rec[s] IN
     \/ accepted /\ TurnsTelling(s, [w EXCEPT !.stage = "TAKE_SENT", !.since = now], "take")
     \/ ~ accepted /\ ~ w.invited /\ Turns(s, [w EXCEPT !.invited = TRUE])
     \/ /\ ~ accepted /\ w.invited
        /\ Turns(s, IF now - w.created > nAnswerWithin THEN [w EXCEPT !.stage = "CANCELLED"] ELSE w)

TickTakeSent(s) ==
  /\ At(s, {"TAKE_SENT"})
  /\ LET w == rec[s] IN
     IF now - w.since > nAnswerWithin
       THEN TurnsTelling(s, [w EXCEPT !.stage = "CANCELLED"], "cancel")
       ELSE Turns(s, w)

\* TakeLockResult.
Locked(w, s) ==
  [w EXCEPT !.stage = IF chain[s] = "light" THEN "WAIT_PAYMENT" ELSE "LOCKED",
            !.contract = TRUE, !.txid = chain[s] # "light", !.told = FALSE,
            !.secret = @ \/ s = "maker"]

\* The wallet locks, or cannot (no destination, no balance, no answer).
LockOurs(s, n) ==
  \/ /\ FundContract(s, n)
     /\ Becomes(s, "store", Locked(rec[s], s))
     /\ Stir
     /\ UNCHANGED <<now, chain, rogue, shown, sent, accepted, rec, seen, life>>
  \/ /\ mishaps < MaxMishaps
     /\ mishaps' = mishaps + 1
     /\ Becomes(s, "store", [rec[s] EXCEPT !.ok = FALSE])
     /\ Looks(s)
     /\ UNCHANGED <<world, rec, seen, up, away>>

TickTakeReceived(s) ==
  /\ At(s, {"TAKE_RECEIVED"})
  /\ LET w == rec[s] IN
     \/ w.ok /\ LockOurs(s, MAKER_LOCK)
     \/ /\ ~ w.ok /\ now - w.created > nAnswerWithin
        /\ TurnsTelling(s, [w EXCEPT !.stage = "CANCELLED"], "cancel")
     \/ ~ w.ok /\ now - w.created <= nAnswerWithin /\ Turns(s, w)

TickChecking(s) ==
  /\ At(s, {"CHECKING_THEIRS", "READY_TO_LOCK"})
  /\ LET w == rec[s] IN
     \E v \in CheckTheirs(s, nTakerMinLeft) :
        \/ v = "bad" /\ TurnsTelling(s, [w EXCEPT !.stage = "CANCELLED"], "cancel")
        \/ /\ v = "wait"
           /\ IF now - w.since > nGiveUpWaiting
                THEN TurnsTelling(s, [w EXCEPT !.stage = "CANCELLED"], "cancel")
                ELSE Turns(s, w)
        \/ /\ v = "ok"
           /\ CASE w.stage = "CHECKING_THEIRS" -> Turns(s, [w EXCEPT !.stage = "READY_TO_LOCK"])
                [] w.stage = "READY_TO_LOCK" /\ ~ w.ok -> Turns(s, w)
                [] OTHER -> LockOurs(s, TAKER_LOCK)

\* The light client shows a payment once a block has it.
Paid(s) == con[s].st \in {"open"} \cup Spent

TickWaitPayment(s) ==
  /\ At(s, {"WAIT_PAYMENT"})
  /\ LET w == rec[s] IN
     \/ /\ ~ Paid(s) /\ TimeLeft(s) = 0
        /\ TurnsTelling(s, [w EXCEPT !.stage = "REFUNDING"], "cancel")
     \/ ~ Paid(s) /\ TimeLeft(s) > 0 /\ Turns(s, w)
     \/ /\ Paid(s)
        /\ Turns(s, [w EXCEPT !.txid = TRUE,
                              !.stage = IF con[s].st = "open" /\ con[s].good /\ TimeLeft(s) > 0
                                          THEN "LOCKED" ELSE "REFUNDING"])

\* "lock1" or "lock2" goes out first; the taker looks for the secret in the
\* spend of its own contract; both go on to TryRefund.
TickLocked(s) ==
  /\ At(s, {"LOCKED"})
  /\ LET w == [rec[s] EXCEPT !.told = TRUE] IN
     \E v \in IF s = "taker" THEN FindSecret(s, s) ELSE {"no"} :
        /\ CASE v = "redeem" -> Becomes(s, "store", [w EXCEPT !.secret = TRUE, !.stage = "REDEEMING"])
             [] v = "refund" -> Becomes(s, "store", [w EXCEPT !.stage = "REFUNDED"])
             [] OTHER -> Becomes(s, "refund", w)
        /\ IF rec[s].told
             THEN UNCHANGED sent /\ Looks(s)
             ELSE sent' = [sent EXCEPT ![s] = @ \cup {IF s = "maker" THEN "lock1" ELSE "lock2"}] /\ Stir
        /\ UNCHANGED <<now, chain, rogue, con, pend, shown, accepted, rec, seen, life>>

TickRefunding(s) ==
  /\ At(s, {"REFUNDING"})
  /\ \E v \in IF s = "taker" THEN FindSecret(s, s) ELSE {"no"} :
        IF v = "redeem"
          THEN Becomes(s, "store", [rec[s] EXCEPT !.secret = TRUE, !.stage = "REDEEMING"])
          ELSE Becomes(s, "refund", rec[s])
  /\ Looks(s)
  /\ UNCHANGED <<world, rec, seen, life>>

----------------------------------------------------------------------------
(* REDEEMING.                                                              *)

\* The call that shows the secret.  The light client's redeem counts from a
\* block only.
RedeemTheirs(s) ==
  LET w == rec[s]  x == Other(s) IN
  \/ /\ CanSpend(s, x) /\ "no" \in FindSecret(s, x)
     /\ SpendContract(s, x)
     /\ Becomes(s, "store", IF chain[x] = "light" THEN [w EXCEPT !.redeemSince = now]
                                                  ELSE [w EXCEPT !.stage = "DONE"])
     /\ Stir
     /\ UNCHANGED <<now, chain, rogue, con, sent, accepted, rec, seen, life>>
  \/ \E v \in FindSecret(s, x) :
        /\ ~ CanSpend(s, x) \/ v # "no"
        /\ Turns(s, CASE v \in {"redeem", "gone"} -> [w EXCEPT !.stage = "DONE"]
                      [] v = "refund" -> [w EXCEPT !.stage = "FAILED"]
                      [] OTHER -> w)

\* A redeem that waits for its block.
TickRedeemSent(s) ==
  /\ At(s, {"REDEEMING"}) /\ rec[s].redeemSince >= 0
  /\ LET w == rec[s]  x == Other(s) IN
     \/ con[x].st = "redeemed" /\ Turns(s, [w EXCEPT !.redeemSince = -1, !.stage = "DONE"])
     \/ con[x].st = "refunded" /\ Turns(s, [w EXCEPT !.redeemSince = -1, !.stage = "FAILED"])
     \/ con[x].st \notin Spent /\ now - w.redeemSince < nRedeemBumpAfter /\ Turns(s, w)
     \/ /\ con[x].st \notin Spent /\ now - w.redeemSince >= nRedeemBumpAfter
        /\ SpendContract(s, x)
        /\ Becomes(s, "store", [w EXCEPT !.redeemSince = now])
        /\ Stir
        /\ UNCHANGED <<now, chain, rogue, con, sent, accepted, rec, seen, life>>

TickRedeeming(s) ==
  /\ At(s, {"REDEEMING"}) /\ rec[s].redeemSince = -1
  /\ LET w == rec[s] IN
     IF s = "taker" THEN RedeemTheirs(s)
     ELSE \E v \in CheckTheirs(s, nMakerMinLeft) :
            \/ v = "ok" /\ RedeemTheirs(s)
            \/ v = "bad" /\ TurnsTelling(s, [w EXCEPT !.stage = "REFUNDING"], "cancel")
            \/ /\ v = "wait"
               /\ Turns(s, IF TimeLeft(s) = 0 \/ now - w.since > nGiveUpWaiting
                             THEN [w EXCEPT !.stage = "REFUNDING"] ELSE w)

----------------------------------------------------------------------------
(* TryRefund.                                                              *)

\* Mutant: the coin counts as refunded, whatever the wallet said.
RefundAssumed(s, w) == Turns(s, [w EXCEPT !.stage = "REFUNDED"])

\* The lock has run out: the wallet refunds, or cannot.
RefundOurs(s, w) ==
  \/ /\ CanSpend(s, s) /\ "no" \in FindSecret(s, s)
     /\ SpendContract(s, s)
     /\ Becomes(s, "store", [w EXCEPT !.refund = TRUE,
                                      !.stage = IF s = "taker" /\ w.theirs THEN "REFUNDING" ELSE "REFUNDED"])
     /\ Stir
     /\ UNCHANGED <<now, chain, rogue, con, sent, accepted, rec, seen, life>>
  \/ /\ ~ CanSpend(s, s) \/ FindSecret(s, s) # {"no"}
     /\ Becomes(s, "spent", w)
     /\ Looks(s)
     /\ UNCHANGED <<world, rec, seen, life>>

TryRefund(s) ==
  /\ Running(s) /\ work[s].pc = "refund"
  /\ LET w == work[s].s IN
     \/ /\ s = "taker" /\ w.refund
        /\ \E v \in FindSecret(s, Other(s)) :
             Turns(s, IF ~ Unspent(Other(s), v) \/ TimeLeft(Other(s)) = 0
                        THEN [w EXCEPT !.stage = "REFUNDED"] ELSE w)
     \/ /\ ~ (s = "taker" /\ w.refund) /\ ~ w.txid /\ ~ Paid(s)
        /\ Turns(s, IF now > con[s].lock + Day THEN [w EXCEPT !.stage = "CANCELLED"] ELSE w)
     \/ /\ ~ (s = "taker" /\ w.refund) /\ (w.txid \/ Paid(s))
        /\ IF TimeLeft(s) > 0 THEN Turns(s, [w EXCEPT !.txid = TRUE])
                              ELSE RefundOurs(s, [w EXCEPT !.txid = TRUE])

\* The refund failed: who spent ours?
RefundFailed(s) ==
  /\ Running(s) /\ work[s].pc = "spent"
  /\ \E v \in FindSecret(s, s) :
        Turns(s, CASE v = "refund" -> [work[s].s EXCEPT !.stage = "REFUNDED"]
                   [] v \in {"redeem", "gone"} -> [work[s].s EXCEPT !.stage = "DONE"]
                   [] OTHER -> work[s].s)
----------------------------------------------------------------------------
(* The end of a round, and what the screen does meanwhile.                 *)

\* Mutant: what was pressed during the round is overwritten.
MergeForgets(s) == work[s].s

\* An approval counts if its stage is still the stage; a cancel stands.
Merge(s) ==
  LET w == work[s].s
      approved == rec[s].ok /\ ~ work[s].wasOk /\ w.stage = work[s].was
      cancelled == rec[s].stage = "CANCELLED" /\ work[s].was # "CANCELLED" /\ ~ w.txid
      withdrawn == /\ work[s].was = "WAIT_PAYMENT" /\ rec[s].stage = "REFUNDING"
                   /\ w.stage \in {"WAIT_PAYMENT", "LOCKED"}
  IN [w EXCEPT !.ok = @ \/ approved,
               !.stage = IF withdrawn THEN "REFUNDING" ELSE IF cancelled THEN "CANCELLED" ELSE @]

Store(s) ==
  /\ Running(s) /\ work[s].pc = "store"
  /\ rec' = [rec EXCEPT ![s] = Merge(s)]
  /\ work' = [work EXCEPT ![s] = NoWork]
  /\ look' = [look EXCEPT ![s] = IF @ = "looking" /\ Merge(s) = rec[s] THEN "calm" ELSE "stale"]
  /\ UNCHANGED <<world, seen, life>>

\* A change of the record by its owner or by a step, which is saved with it.
Records(s, r) ==
  /\ rec' = [rec EXCEPT ![s] = r]
  /\ look' = [look EXCEPT ![s] = "stale"]

Take ==
  /\ Running("taker") /\ rec["taker"].stage = "NONE" /\ now = 0
  /\ Records("taker", [NoSwap EXCEPT !.stage = "INVITING", !.created = now])
  /\ UNCHANGED <<world, work, seen, life>>

Approve(s) ==
  /\ Running(s) /\ rec[s].stage \in {"TAKE_RECEIVED", "READY_TO_LOCK"} /\ ~ rec[s].ok
  /\ Records(s, [rec[s] EXCEPT !.ok = TRUE])
  /\ UNCHANGED <<world, work, seen, life>>

\* Nothing of ours is locked or being locked, or nothing has paid it.
MayCancel(r) ==
  /\ r.stage \notin Final \cup {"NONE"} /\ ~ r.txid
  /\ r.stage = "WAIT_PAYMENT" \/ (~ r.contract /\ ~ r.ok)

\* Mutant: a contract that waits for its payment is forgotten.
CancelForgets(r) == "CANCELLED"

\* A payment may be on its way: the refund stage watches for it.
CancelStage(r) == IF r.stage = "WAIT_PAYMENT" THEN "REFUNDING" ELSE "CANCELLED"

Cancel(s) ==
  /\ Running(s) /\ MayCancel(rec[s])
  /\ rec' = [rec EXCEPT ![s].stage = CancelStage(rec[s])]
  /\ sent' = [sent EXCEPT ![s] =
                @ \cup (IF s = "maker" \/ rec[s].invited \/ rec[s].stage # "INVITING" THEN {"cancel"} ELSE {})]
  /\ Stir
  /\ UNCHANGED <<now, chain, rogue, con, pend, shown, accepted, work, seen, life>>

\* ReadSteps, OnStep.
ReadStep(s) ==
  /\ Running(s) /\ work[s].pc = "idle"
  /\ \E m \in Unread(s) :
       /\ seen' = [seen EXCEPT ![s] = @ \cup {m}]
       /\ Records(s,
            LET r == rec[s] IN
            CASE m = "take" /\ s = "maker" /\ r.stage = "NONE" ->
                   [NoSwap EXCEPT !.stage = "TAKE_RECEIVED", !.created = now]
              [] m = "lock1" /\ s = "taker" /\ r.stage = "TAKE_SENT" ->
                   [r EXCEPT !.theirs = TRUE, !.since = now, !.stage = "CHECKING_THEIRS"]
              [] m = "lock2" /\ s = "maker" /\ r.stage = "LOCKED" ->
                   [r EXCEPT !.theirs = TRUE, !.since = now, !.stage = "REDEEMING"]
              [] m = "cancel" /\ ~ r.txid /\ ~ r.ok /\ r.stage \notin Final \cup {"NONE"} ->
                   [r EXCEPT !.stage = "CANCELLED"]
              [] OTHER -> r)
  /\ UNCHANGED <<world, work, life>>

----------------------------------------------------------------------------
(* The process, the chains and time.                                       *)

\* Between rounds it loses nothing, and is like one in a round that changes
\* nothing.
Crash(s) ==
  /\ Running(s) /\ work[s].pc # "idle" /\ mishaps < MaxMishaps
  /\ mishaps' = mishaps + 1
  /\ up' = [up EXCEPT ![s] = FALSE]
  /\ work' = [work EXCEPT ![s] = NoWork]
  /\ look' = [look EXCEPT ![s] = "stale"]
  /\ UNCHANGED <<world, rec, seen, away>>

Start(s) ==
  /\ ~ up[s]
  /\ up' = [up EXCEPT ![s] = TRUE]
  /\ UNCHANGED <<world, rec, work, seen, look, away, mishaps>>

AcceptInvite ==
  /\ ~ accepted /\ rec["taker"].invited
  /\ accepted' = TRUE
  /\ Stir
  /\ UNCHANGED <<now, chain, rogue, con, pend, shown, sent, rec, work, seen, life>>

\* Somebody pays the contract from another wallet, the right amount or not.
Pay(s) ==
  /\ con[s].st = "unpaid" /\ rec[s].stage = "WAIT_PAYMENT" /\ s \notin rogue
  /\ \E good \in BOOLEAN : con' = [con EXCEPT ![s].st = "sent", ![s].good = good]
  /\ Stir
  /\ UNCHANGED <<now, chain, rogue, pend, shown, sent, accepted, rec, work, seen, life>>

\* A funding confirms before a day after the lock, or never.
ConfirmFunding(s) ==
  /\ con[s].st = "sent" /\ now <= con[s].lock + Day
  /\ con' = [con EXCEPT ![s].st = "open"]
  /\ Stir
  /\ UNCHANGED <<now, chain, rogue, pend, shown, sent, accepted, rec, work, seen, life>>

ConfirmSpend(s) ==
  /\ con[s].st = "open"
  /\ \E k \in pend[s] : con' = [con EXCEPT ![s].st = IF k = "redeem" THEN "redeemed" ELSE "refunded"]
  /\ pend' = [pend EXCEPT ![s] = {}]
  /\ Stir
  /\ UNCHANGED <<now, chain, rogue, shown, sent, accepted, rec, work, seen, life>>

\* A side that does not run this program: a contract with any lock, good or
\* not, once it has the address or the secret hash to make one; a cancel at
\* any time; any spend the script allows, at any time.
RogueLock(s) ==
  /\ con[s].st = "none"
  /\ (IF s = "maker" THEN "take" ELSE "lock1") \in sent[Other(s)]
  /\ \E c \in [st : {"sent"}, lock : {now + 1, now + TAKER_LOCK, now + MAKER_LOCK}, good : BOOLEAN] :
       /\ c.lock = now + MAKER_LOCK => s = "maker"
       /\ ~ c.good => c.lock = now + TAKER_LOCK
       /\ con' = [con EXCEPT ![s] = c]
  /\ sent' = [sent EXCEPT ![s] = @ \cup {IF s = "maker" THEN "lock1" ELSE "lock2"}]
  /\ UNCHANGED <<pend, shown>>
RogueTells(s) ==
  /\ \E m \in (IF s = "maker" THEN {"cancel"} ELSE {"take", "cancel"}) \ sent[s] :
       sent' = [sent EXCEPT ![s] = @ \cup {m}]
  /\ UNCHANGED <<con, pend, shown>>
RogueSpends(s) ==
  /\ \E x \in Sides :
       /\ con[x].st \in {"sent", "open"} /\ Mine(s, x) \notin pend[x]
       /\ IF x = s THEN TimeLeft(x) = 0 ELSE con[x].good /\ (s = "maker" \/ shown)
       /\ SpendContract(s, x)
  /\ UNCHANGED <<con, sent>>
Rogue(s) ==
  /\ s \in rogue
  /\ RogueLock(s) \/ RogueTells(s) \/ RogueSpends(s)
  /\ Stir
  /\ UNCHANGED <<now, chain, rogue, accepted, rec, work, seen, life>>

\* A round takes seconds: no time passes before each engine that runs has
\* looked at the world as it is.  A redeem sent in time is in a block before
\* the lock opens ("so the redeem is in a block before the taker could
\* refund").
Settled(s) == Unread(s) = {} /\ (rec[s].stage \in Final \cup {"NONE"} \/ look[s] = "calm")
Advance ==
  /\ now < Horizon /\ (rec["taker"].stage # "NONE" \/ "take" \in sent["taker"])
  /\ \A s \in Sides \ rogue : IF up[s] THEN work[s].pc = "idle" /\ Settled(s) ELSE away[s] < MaxAway
  /\ \A s \in Sides : "redeem" \in pend[s] => now + 1 < con[s].lock
  /\ now' = now + 1
  /\ away' = [s \in Sides |-> IF up[s] THEN away[s] ELSE away[s] + 1]
  /\ Stir
  /\ UNCHANGED <<chain, rogue, con, pend, shown, rec, work, sent, seen, accepted, up, mishaps>>
----------------------------------------------------------------------------
\* Mutant: the record starts with no time.
InitNoTime ==
  /\ now = 0 /\ \E w \in Worlds : chain = w.chain /\ rogue = w.rogue
  /\ con = [s \in Sides |-> NoContract] /\ pend = [s \in Sides |-> {}] /\ shown = FALSE
  /\ rec = [s \in Sides |-> [NoSwap EXCEPT !.since = -1]] /\ work = [s \in Sides |-> NoWork]
  /\ sent = [s \in Sides |-> {}] /\ seen = [s \in Sides |-> {}] /\ accepted = FALSE
  /\ look = [s \in Sides |-> "stale"]
  /\ up = [s \in Sides |-> TRUE] /\ away = [s \in Sides |-> 0] /\ mishaps = 0

Init ==
  /\ now = 0 /\ \E w \in Worlds : chain = w.chain /\ rogue = w.rogue
  /\ con = [s \in Sides |-> NoContract] /\ pend = [s \in Sides |-> {}] /\ shown = FALSE
  /\ rec = [s \in Sides |-> NoSwap] /\ work = [s \in Sides |-> NoWork]
  /\ sent = [s \in Sides |-> {}] /\ seen = [s \in Sides |-> {}] /\ accepted = FALSE
  /\ look = [s \in Sides |-> "stale"]
  /\ up = [s \in Sides |-> TRUE] /\ away = [s \in Sides |-> 0] /\ mishaps = 0

Tick(s) ==
  \/ TickInviting(s) \/ TickTakeSent(s) \/ TickTakeReceived(s) \/ TickChecking(s)
  \/ TickWaitPayment(s) \/ TickLocked(s) \/ TickRefunding(s)
  \/ TickRedeemSent(s) \/ TickRedeeming(s) \/ TryRefund(s) \/ RefundFailed(s)

Engine(s) == Tick(s) \/ Store(s) \/ ReadStep(s)
Screen == Take \/ AcceptInvite \/ (\E s \in Sides : Approve(s) \/ Cancel(s) \/ Pay(s))
Block(s) == ConfirmFunding(s) \/ ConfirmSpend(s)

Next ==
  \/ \E s \in Sides : Engine(s) \/ Crash(s) \/ Start(s) \/ Block(s) \/ Rogue(s)
  \/ Screen \/ Advance

\* The thread of an engine runs on, an application that ended is started
\* again, spends find their block, and time passes: while any of these can
\* happen, one of them does.  Nothing is assumed of the people and of a rogue
\* side.
GoesOn == Advance \/ (\E s \in Sides : Engine(s) \/ Start(s) \/ ConfirmSpend(s))
Fairness == WF_vars(GoesOn)

Spec == Init /\ [][Next]_vars /\ Fairness
----------------------------------------------------------------------------
(* Properties.                                                             *)

Record ==
  [stage : Stages, ok : BOOLEAN, invited : BOOLEAN, told : BOOLEAN, contract : BOOLEAN,
   txid : BOOLEAN, theirs : BOOLEAN, secret : BOOLEAN, refund : BOOLEAN,
   created : Nat, since : Nat, redeemSince : Nat \cup {-1}]

\* Type invariant of the two engines and of the chains.
SwapTypeOK ==
  /\ now \in Nat /\ chain \in [Sides -> Kinds] /\ rogue \subseteq Sides
  /\ con \in [Sides -> [st : {"none", "unpaid", "sent", "open"} \cup Spent, lock : Nat, good : BOOLEAN]]
  /\ pend \in [Sides -> SUBSET {"redeem", "refund"}] /\ shown \in BOOLEAN
  /\ rec \in [Sides -> Record]
  /\ work \in [Sides -> [pc : {"idle", "refund", "spent", "store"}, was : Stages,
                         wasOk : BOOLEAN, s : Record]]
  /\ sent \in [Sides -> SUBSET Steps] /\ seen \in [Sides -> SUBSET Steps]
  /\ accepted \in BOOLEAN /\ look \in [Sides -> {"stale", "looking", "calm"}]
  /\ up \in [Sides -> BOOLEAN] /\ away \in [Sides -> Nat] /\ mishaps \in Nat

\* Both or neither: whoever runs this program never has its coin taken while
\* the other coin goes back, or is not the one agreed on.  For the taker, of a
\* maker who runs it too (see DoneMeansTaken).
NoLoss ==
  \A s \in Sides \ rogue :
     (s = "maker" \/ rogue = {}) /\ con[s].st = "redeemed" =>
        con[Other(s)].good /\ con[Other(s)].st \in {"open", "redeemed"}

\* A swap is done when the other's coin is ours, or on its way (TryRefund:
\* "With the secret means they redeemed ours -- which they can only do after
\* we showed the secret, i.e. after we took theirs").
DoneMeansTaken ==
  \A s \in Sides \ rogue :
     rec[s].stage = "DONE" => con[Other(s)].st = "redeemed" \/ "redeem" \in pend[Other(s)]

\* What was called off, by a person or by the engine, is not taken up again,
\* whatever a round saw before it was (Round: "a cancel stands").
CalledOffStays ==
  [][\A s \in Sides :
       /\ rec[s].stage \in Final => rec'[s].stage = rec[s].stage
       /\ rec[s].stage = "REFUNDING" =>
            rec'[s].stage \in Final \cup {"REFUNDING", "REDEEMING"}]_vars

\* A cancelled swap has nothing of ours in an open contract ("Cancel refuses
\* once anything of ours is locked, so it never undoes a lock").
CancelledHoldsNothing ==
  \A s \in Sides \ rogue : rec[s].stage = "CANCELLED" /\ rec[s].contract => con[s].st # "open"

\* A coin of ours in a contract the engine knows of comes back, or the other's
\* becomes ours, with nobody looking ("the one thing that must happen even if
\* nobody is looking"); against a rogue maker it is at least spent.  What is spent
\* stays spent, so there is a time when nothing is outstanding.
Outstanding(s) ==
  /\ s \notin rogue /\ rec[s].contract /\ con[s].st \in {"open", "redeemed"}
  /\ con[Other(s)].st # "redeemed" /\ ~ ("maker" \in rogue /\ con[s].st = "redeemed")
PaidOrBack == []<>(\A s \in Sides : ~ Outstanding(s))
=============================================================================
