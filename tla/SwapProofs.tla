----------------------------- MODULE SwapProofs -----------------------------
(***************************************************************************)
(* Proofs about Swap, for every pair of chains, every lock and every       *)
(* number of crashes: what a round may do with what was decided while it   *)
(* ran, and that nobody's coin is taken for nothing.                       *)
(***************************************************************************)
EXTENDS Swap, TLAPS

----------------------------------------------------------------------------
(* What the wallet answers.                                                *)

\* A spend the wallet reports is in a block or waits for one; a spend in a
\* block is always reported.
LEMMA FindSecretFacts ==
  ASSUME NEW s \in Sides, NEW x \in Sides
  PROVE  /\ "redeem" \in FindSecret(s, x) => con[x].st = "redeemed" \/ "redeem" \in pend[x]
         /\ "refund" \in FindSecret(s, x) => con[x].st = "refunded" \/ "refund" \in pend[x]
         /\ "gone" \in FindSecret(s, x) => con[x].st \notin Spent /\ pend[x] # {}
         /\ "no" \in FindSecret(s, x) => con[x].st \notin Spent
         /\ con[x].st = "redeemed" => FindSecret(s, x) = {"redeem"}
         /\ con[x].st = "refunded" => FindSecret(s, x) = {"refund"}
<1>1. CASE con[x].st = "redeemed"
  BY <1>1 DEF FindSecret, Spent
<1>2. CASE con[x].st = "refunded"
  BY <1>2 DEF FindSecret, Spent
<1>3. CASE con[x].st \notin Spent /\ chain[x] = "light"
  BY <1>3 DEF FindSecret, Spent
<1>4. CASE con[x].st \notin Spent /\ chain[x] # "light"
  <2>1. FindSecret(s, x) = (IF Mine(s, x) \in pend[x] THEN {Mine(s, x)} ELSE {"no"} \cup pend[x])
                           \cup (IF chain[x] = "core" /\ pend[x] # {} THEN {"gone"} ELSE {})
    BY <1>4 DEF FindSecret, Spent
  <2>2. Mine(s, x) \in {"refund", "redeem"}
    BY DEF Mine
  <2>3. "gone" \in FindSecret(s, x) => pend[x] # {}
    BY <2>1, <2>2
  <2> QED
    BY <1>4, <2>1, <2>2, <2>3 DEF Spent
<1> QED
  BY <1>1, <1>2, <1>3, <1>4 DEF Spent

\* A contract that passes the check has what was agreed on, and time left.
LEMMA CheckFacts ==
  ASSUME NEW s \in Sides, NEW n \in Nat, "ok" \in CheckTheirs(s, n)
  PROVE  /\ con[Other(s)].st = "open" /\ con[Other(s)].good
         /\ TimeLeft(Other(s)) >= n
  BY Zenon DEF CheckTheirs, Unspent, Spent

----------------------------------------------------------------------------
(* What a step of a round does, for those who ask only what becomes of the  *)
(* copy and of the two contracts.                                          *)

Busy(s) == work[s].pc # "idle"

\* What the record was when the round took its copy.
Was(s) == IF Busy(s) THEN work[s].was ELSE rec[s].stage
WasOk(s) == IF Busy(s) THEN work[s].wasOk ELSE rec[s].ok

\* The copy of s becomes w.
Goes(s, pc, w) ==
  /\ w \in Record
  /\ work' = [work EXCEPT ![s] = [pc |-> pc, was |-> Was(s), wasOk |-> WasOk(s), s |-> w]]

\* Nothing in w but its stage, and what is not asked for, differs from r.
Keeps(r, w) ==
  /\ w.ok = r.ok /\ w.contract = r.contract /\ w.txid = r.txid
  /\ w.refund = r.refund /\ w.redeemSince = r.redeemSince

Tells(s, ms) == \E m \in SUBSET ms : sent' = [sent EXCEPT ![s] = @ \cup m]

\* A round goes on: what it leaves alone; it has looked, or the world moved.
RoundStep(s) ==
  /\ Running(s) /\ UNCHANGED <<now, chain, rogue, accepted, rec, seen, up, away>>
  /\ mishaps' \in Nat
  /\ Looks(s) \/ Stir
Apart == UNCHANGED <<con, pend, shown>>
Sending == UNCHANGED <<con, sent>> /\ Stir

Early == {"NONE", "INVITING", "TAKE_SENT", "TAKE_RECEIVED", "CHECKING_THEIRS", "READY_TO_LOCK"}
Holding == {"WAIT_PAYMENT", "LOCKED", "REFUNDING", "REDEEMING"}
Checking == {"CHECKING_THEIRS", "READY_TO_LOCK"}

\* Where a round may take a swap before anything of ours is locked.
EarlyNext(a) ==
  {a, "CANCELLED"} \cup (IF a = "INVITING" THEN {"TAKE_SENT"} ELSE {})
                   \cup (IF a \in Checking THEN {"READY_TO_LOCK"} ELSE {})

EarlyRound(s) ==
  /\ RoundStep(s) /\ Apart /\ ~ Busy(s) /\ rec[s].stage \in Early \ {"NONE"}
  /\ Tells(s, {"take", "cancel"})
  /\ \E w : /\ Goes(s, "store", w) /\ w.stage \in EarlyNext(rec[s].stage)
            /\ w.contract = rec[s].contract /\ w.txid = rec[s].txid
            /\ w.refund = rec[s].refund /\ w.redeemSince = rec[s].redeemSince
            /\ w.ok => rec[s].ok

FundRound(s) ==
  /\ RoundStep(s) /\ Stir /\ UNCHANGED <<shown, sent>> /\ ~ Busy(s) /\ rec[s].ok
  /\ \/ rec[s].stage = "TAKE_RECEIVED" /\ FundContract(s, MAKER_LOCK)
     \/ /\ rec[s].stage = "READY_TO_LOCK" /\ FundContract(s, TAKER_LOCK)
        /\ "ok" \in CheckTheirs(s, nTakerMinLeft)
  /\ \E w : /\ Goes(s, "store", w) /\ w.stage \in {"WAIT_PAYMENT", "LOCKED"}
            /\ w.ok /\ w.contract
            /\ w.refund = rec[s].refund /\ w.redeemSince = rec[s].redeemSince

PaymentRound(s) ==
  /\ RoundStep(s) /\ Apart /\ ~ Busy(s) /\ rec[s].stage = "WAIT_PAYMENT"
  /\ Tells(s, {"cancel"})
  /\ \E w : /\ Goes(s, "store", w) /\ w.stage \in {"WAIT_PAYMENT", "LOCKED", "REFUNDING"}
            /\ w.ok = rec[s].ok /\ w.contract = rec[s].contract
            /\ w.refund = rec[s].refund /\ w.redeemSince = rec[s].redeemSince

\* LOCKED and REFUNDING: the taker's look for the secret, then TryRefund.
WatchRound(s) ==
  /\ RoundStep(s) /\ Apart /\ ~ Busy(s) /\ rec[s].stage \in {"LOCKED", "REFUNDING"}
  /\ rec[s].stage = "LOCKED" => Tells(s, {IF s = "maker" THEN "lock1" ELSE "lock2"})
  /\ rec[s].stage = "REFUNDING" => UNCHANGED sent
  /\ \E w : /\ Keeps(rec[s], w)
            /\ \/ /\ Goes(s, "refund", w) /\ w.stage = rec[s].stage
                  /\ s = "taker" => con[s].st # "redeemed"
               \/ /\ Goes(s, "store", w) /\ w.stage = "REDEEMING" /\ s = "taker"
                  /\ con[s].st = "redeemed" \/ "redeem" \in pend[s]
               \/ /\ Goes(s, "store", w) /\ w.stage = "REFUNDED" /\ s = "taker"
                  /\ rec[s].stage = "LOCKED"
                  /\ con[s].st = "refunded" \/ "refund" \in pend[s]
                  /\ con[s].st # "redeemed"

\* The call that redeems, for the first time or with a higher fee.
RedeemRound(s) ==
  /\ RoundStep(s) /\ Sending /\ ~ Busy(s) /\ rec[s].stage = "REDEEMING"
  /\ SpendContract(s, Other(s)) /\ con[Other(s)].st \notin Spent
  /\ \/ rec[s].redeemSince >= 0
     \/ CanSpend(s, Other(s)) /\ (s = "maker" => "ok" \in CheckTheirs(s, nMakerMinLeft))
  /\ \E w : /\ Goes(s, "store", w) /\ w.stage \in {"REDEEMING", "DONE"}
            /\ w.ok = rec[s].ok /\ w.contract = rec[s].contract
            /\ w.txid = rec[s].txid /\ w.refund = rec[s].refund

\* What became of the redeem, or of the other's contract.
LookRound(s) ==
  /\ RoundStep(s) /\ Apart /\ ~ Busy(s) /\ rec[s].stage = "REDEEMING"
  /\ Tells(s, {"cancel"})
  /\ \E w :
       /\ Goes(s, "store", w)
       /\ w.ok = rec[s].ok /\ w.contract = rec[s].contract
       /\ w.txid = rec[s].txid /\ w.refund = rec[s].refund
       /\ w.redeemSince = rec[s].redeemSince \/ w.redeemSince = -1
       /\ \/ w.stage = "DONE" /\ (con[Other(s)].st = "redeemed" \/ pend[Other(s)] # {})
          \/ w.stage = "FAILED" /\ (con[Other(s)].st = "refunded" \/ "refund" \in pend[Other(s)])
          \/ /\ w.stage = "REDEEMING"
             /\ s = "taker" =>
                  /\ con[Other(s)].st \notin Spent
                  /\ rec[s].redeemSince >= 0 \/ ~ CanSpend(s, Other(s))
          \/ w.stage = "REFUNDING" /\ s = "maker"

RefundRound(s) ==
  /\ RoundStep(s) /\ Sending /\ work[s].pc = "refund"
  /\ SpendContract(s, s) /\ CanSpend(s, s) /\ TimeLeft(s) = 0
  /\ \E w : /\ Goes(s, "store", w)
            /\ w.stage \in {"REFUNDED", "REFUNDING"}
            /\ w.ok = work[s].s.ok /\ w.contract = work[s].s.contract
            /\ w.redeemSince = work[s].s.redeemSince

\* TryRefund without a refund.
NoRefundRound(s) ==
  /\ RoundStep(s) /\ Apart /\ UNCHANGED sent /\ work[s].pc = "refund"
  /\ \E w :
       /\ w.ok = work[s].s.ok /\ w.contract = work[s].s.contract
       /\ w.refund = work[s].s.refund /\ w.redeemSince = work[s].s.redeemSince
       /\ \/ Goes(s, "store", w) /\ w.stage = work[s].s.stage
          \/ Goes(s, "store", w) /\ w.stage = "REFUNDED" /\ s = "taker" /\ w.refund
          \/ /\ Goes(s, "store", w) /\ w.stage = "CANCELLED"
             /\ ~ Paid(s) /\ now > con[s].lock + Day
          \/ Goes(s, "spent", w) /\ w.stage = work[s].s.stage /\ TimeLeft(s) = 0

RefundFailedRound(s) ==
  /\ RoundStep(s) /\ Apart /\ UNCHANGED sent /\ work[s].pc = "spent"
  /\ \E w : /\ Goes(s, "store", w) /\ Keeps(work[s].s, w)
            /\ w.stage \in {"REFUNDED", "DONE", work[s].s.stage}

----------------------------------------------------------------------------
(* Every step of a round is one of these.                                  *)

LEMMA BecomesGoes ==
  ASSUME SwapTypeOK, NEW s \in Sides, NEW pc, NEW w \in Record, Becomes(s, pc, w)
  PROVE  Goes(s, pc, w)
<1>1. work[s] \in [pc : {"idle", "refund", "spent", "store"}, was : Stages,
                   wasOk : BOOLEAN, s : Record]
  BY DEF SwapTypeOK
<1>2. CASE work[s].pc = "idle"
  BY <1>2 DEF SwapTypeOK, Becomes, Goes, Was, WasOk, Busy
<1>3. CASE work[s].pc # "idle"
  <2> DEFINE q == [work[s] EXCEPT !.pc = pc]
  <2>1. q = [pc |-> pc, was |-> work[s].was, wasOk |-> work[s].wasOk, s |-> work[s].s]
    BY <1>1
  <2>2. [work[s] EXCEPT !.pc = pc, !.s = w] = [q EXCEPT !.s = w]
    OBVIOUS
  <2> HIDE DEF q
  <2>3. [work[s] EXCEPT !.pc = pc, !.s = w]
          = [pc |-> pc, was |-> work[s].was, wasOk |-> work[s].wasOk, s |-> w]
    BY <2>1, <2>2
  <2> QED
    BY <1>3, <2>3 DEF SwapTypeOK, Becomes, Goes, Was, WasOk, Busy
<1> QED
  BY <1>2, <1>3

\* A change of the copy that nothing else notices.
LEMMA TurnsEffect ==
  ASSUME SwapTypeOK, NEW s \in Sides, Running(s), NEW w \in Record, Turns(s, w)
  PROVE  RoundStep(s) /\ Apart /\ UNCHANGED sent /\ Goes(s, "store", w)
  BY BecomesGoes DEF Turns, RoundStep, Apart, world, life, SwapTypeOK

LEMMA TurnsTellingEffect ==
  ASSUME SwapTypeOK, NEW s \in Sides, Running(s), NEW w \in Record, NEW m, TurnsTelling(s, w, m)
  PROVE  RoundStep(s) /\ Apart /\ sent' = [sent EXCEPT ![s] = @ \cup {m}] /\ Goes(s, "store", w)
  BY BecomesGoes DEF TurnsTelling, RoundStep, Apart, life, SwapTypeOK

LEMMA TellsFacts ==
  ASSUME SwapTypeOK, NEW s \in Sides, NEW ms
  PROVE  /\ UNCHANGED sent => Tells(s, ms)
         /\ \A m \in ms : sent' = [sent EXCEPT ![s] = @ \cup {m}] => Tells(s, ms)
<1>1. UNCHANGED sent => sent' = [sent EXCEPT ![s] = @ \cup {}]
  BY DEF SwapTypeOK
<1>2. {} \in SUBSET ms /\ \A m \in ms : {m} \in SUBSET ms
  OBVIOUS
<1> QED
  BY <1>1, <1>2 DEF Tells

LEMMA RecTyped ==
  ASSUME SwapTypeOK, NEW s \in Sides
  PROVE  rec[s] \in Record /\ work[s].s \in Record /\ now \in Nat /\ con[s].lock \in Nat
         /\ TimeLeft(s) \in Nat
  BY DEF SwapTypeOK, TimeLeft

LEMMA StageSet ==
  ASSUME NEW r \in Record, NEW st \in Stages, NEW w, w = [r EXCEPT !.stage = st]
  PROVE  w \in Record /\ w.stage = st /\ Keeps(r, w)
  BY DEF Record, Keeps

\* A round that locks nothing.
LEMMA EarlyMove ==
  ASSUME SwapTypeOK, NEW s \in Sides, Running(s), ~ Busy(s), rec[s].stage \in Early \ {"NONE"},
         NEW w \in Record, w.stage \in EarlyNext(rec[s].stage), Keeps(rec[s], w),
         Turns(s, w) \/ \E m \in {"take", "cancel"} : TurnsTelling(s, w, m)
  PROVE  EarlyRound(s)
<1>1. RoundStep(s) /\ Apart /\ Goes(s, "store", w)
  BY TurnsEffect, TurnsTellingEffect
<1>2. Tells(s, {"take", "cancel"})
  BY TurnsEffect, TurnsTellingEffect, TellsFacts
<1> QED
  BY <1>1, <1>2 DEF EarlyRound, Keeps

LEMMA InvitingEffect ==
  ASSUME SwapTypeOK, NEW s \in Sides, TickInviting(s)
  PROVE  EarlyRound(s)
<1> DEFINE r == rec[s]
<1>1. Running(s) /\ ~ Busy(s) /\ r.stage = "INVITING" /\ r.stage \in Early \ {"NONE"}
  BY DEF TickInviting, At, Busy, Early
<1>2. r \in Record /\ now \in Nat
  BY RecTyped
<1>3. CASE TurnsTelling(s, [r EXCEPT !.stage = "TAKE_SENT", !.since = now], "take")
  <2> DEFINE q == [r EXCEPT !.stage = "TAKE_SENT"]
             w == [r EXCEPT !.stage = "TAKE_SENT", !.since = now]
  <2>1. q \in Record /\ q.stage = "TAKE_SENT" /\ Keeps(r, q)
    BY <1>2, StageSet DEF Stages, Final
  <2>2. w = [q EXCEPT !.since = now]
    OBVIOUS
  <2> HIDE DEF q
  <2>3. w \in Record /\ w.stage = "TAKE_SENT" /\ Keeps(r, w)
    BY <1>2, <2>1, <2>2 DEF Record, Keeps
  <2>4. TurnsTelling(s, w, "take")
    BY <1>3
  <2> HIDE DEF w
  <2> QED
    BY <1>1, <2>3, <2>4, EarlyMove DEF EarlyNext
<1>4. CASE Turns(s, [r EXCEPT !.invited = TRUE])
  <2> DEFINE w == [r EXCEPT !.invited = TRUE]
  <2>1. w \in Record /\ w.stage = r.stage /\ Keeps(r, w)
    BY <1>2 DEF Record, Keeps
  <2>2. Turns(s, w)
    BY <1>4
  <2> HIDE DEF w
  <2> QED
    BY <1>1, <2>1, <2>2, EarlyMove DEF EarlyNext
<1>5. CASE Turns(s, [r EXCEPT !.stage = "CANCELLED"])
  BY <1>1, <1>2, <1>5, EarlyMove, StageSet DEF EarlyNext, Stages, Final
<1>6. CASE Turns(s, r)
  BY <1>1, <1>2, <1>6, EarlyMove DEF EarlyNext, Keeps
<1> QED
  BY <1>3, <1>4, <1>5, <1>6 DEF TickInviting

LEMMA TakeSentEffect ==
  ASSUME SwapTypeOK, NEW s \in Sides, TickTakeSent(s)
  PROVE  EarlyRound(s)
<1>1. Running(s) /\ ~ Busy(s) /\ rec[s].stage = "TAKE_SENT" /\ rec[s].stage \in Early \ {"NONE"}
  BY DEF TickTakeSent, At, Busy, Early
<1>2. rec[s] \in Record
  BY RecTyped
<1>3. CASE TurnsTelling(s, [rec[s] EXCEPT !.stage = "CANCELLED"], "cancel")
  BY <1>1, <1>2, <1>3, EarlyMove, StageSet DEF EarlyNext, Stages, Final
<1>4. CASE Turns(s, rec[s])
  BY <1>1, <1>2, <1>4, EarlyMove DEF EarlyNext, Keeps
<1> QED
  BY <1>3, <1>4 DEF TickTakeSent

\* The wallet locks, or refuses and takes the approval back.
LEMMA LockEffect ==
  ASSUME SwapTypeOK, NEW s \in Sides, NEW n \in Nat, Running(s), ~ Busy(s), LockOurs(s, n),
         rec[s].ok, rec[s].stage \in Early \ {"NONE"},
         \/ rec[s].stage = "TAKE_RECEIVED" /\ n = MAKER_LOCK
         \/ rec[s].stage = "READY_TO_LOCK" /\ n = TAKER_LOCK /\ "ok" \in CheckTheirs(s, nTakerMinLeft)
  PROVE  EarlyRound(s) \/ FundRound(s)
<1> DEFINE r == rec[s]
<1>1. r \in Record
  BY RecTyped
<1>2. CASE FundContract(s, n) /\ Becomes(s, "store", Locked(r, s)) /\ Stir
           /\ UNCHANGED <<now, chain, rogue, shown, sent, accepted, rec, seen, life>>
  <2> DEFINE st == IF chain[s] = "light" THEN "WAIT_PAYMENT" ELSE "LOCKED"
             q1 == [r EXCEPT !.stage = st]
             q2 == [q1 EXCEPT !.contract = TRUE]
             q3 == [q2 EXCEPT !.txid = chain[s] # "light"]
             q4 == [q3 EXCEPT !.told = FALSE]
             w == Locked(r, s)
  <2>1. st \in {"WAIT_PAYMENT", "LOCKED"} /\ st \in Stages
    BY DEF Stages, Final
  <2>2. w = [q4 EXCEPT !.secret = @ \/ s = "maker"]
    BY DEF Locked
  <2> HIDE DEF st
  <2>3. q1 \in Record /\ q1.stage = st /\ q1.ok = r.ok /\ q1.refund = r.refund
        /\ q1.redeemSince = r.redeemSince
    BY <1>1, <2>1 DEF Record
  <2> HIDE DEF q1
  <2>4. q2 \in Record /\ q2.stage = st /\ q2.ok = r.ok /\ q2.refund = r.refund
        /\ q2.redeemSince = r.redeemSince /\ q2.contract
    BY <2>3 DEF Record
  <2> HIDE DEF q2
  <2>5. q3 \in Record /\ q3.stage = st /\ q3.ok = r.ok /\ q3.refund = r.refund
        /\ q3.redeemSince = r.redeemSince /\ q3.contract
    BY <2>4 DEF Record
  <2> HIDE DEF q3
  <2>6. q4 \in Record /\ q4.stage = st /\ q4.ok = r.ok /\ q4.refund = r.refund
        /\ q4.redeemSince = r.redeemSince /\ q4.contract
    BY <2>5 DEF Record
  <2> HIDE DEF q4
  <2>7. w \in Record /\ w.stage = st /\ w.ok = r.ok /\ w.refund = r.refund
        /\ w.redeemSince = r.redeemSince /\ w.contract
    BY <2>2, <2>6 DEF Record
  <2>8. Becomes(s, "store", w)
    BY <1>2
  <2> HIDE DEF w
  <2>9. Goes(s, "store", w)
    BY <2>7, <2>8, BecomesGoes
  <2>10. RoundStep(s) /\ UNCHANGED <<shown, sent>>
    BY <1>2 DEF RoundStep, life, SwapTypeOK
  <2> QED
    BY <1>2, <2>1, <2>7, <2>9, <2>10 DEF FundRound
<1>3. CASE /\ mishaps' = mishaps + 1
           /\ Becomes(s, "store", [r EXCEPT !.ok = FALSE])
           /\ Looks(s) /\ UNCHANGED <<world, rec, seen, up, away>>
  <2> DEFINE w == [r EXCEPT !.ok = FALSE]
  <2>1. w \in Record /\ w.stage = r.stage /\ w.contract = r.contract /\ w.txid = r.txid
        /\ w.refund = r.refund /\ w.redeemSince = r.redeemSince /\ ~ w.ok
    BY <1>1 DEF Record
  <2>2. Becomes(s, "store", w)
    BY <1>3
  <2> HIDE DEF w
  <2>3. Goes(s, "store", w)
    BY <2>1, <2>2, BecomesGoes
  <2>4. RoundStep(s) /\ Apart /\ UNCHANGED sent
    BY <1>3 DEF RoundStep, Apart, world, SwapTypeOK
  <2>5. Tells(s, {"take", "cancel"})
    BY <2>4, TellsFacts
  <2> QED
    BY <2>1, <2>3, <2>4, <2>5 DEF EarlyRound, EarlyNext
<1> QED
  BY <1>2, <1>3 DEF LockOurs

LEMMA TakeReceivedEffect ==
  ASSUME SwapTypeOK, NEW s \in Sides, TickTakeReceived(s)
  PROVE  EarlyRound(s) \/ FundRound(s)
<1>1. Running(s) /\ ~ Busy(s) /\ rec[s].stage = "TAKE_RECEIVED" /\ rec[s].stage \in Early \ {"NONE"}
  BY DEF TickTakeReceived, At, Busy, Early
<1>2. rec[s] \in Record /\ MAKER_LOCK \in Nat
  BY RecTyped, SwapAssumption
<1>3. CASE rec[s].ok /\ LockOurs(s, MAKER_LOCK)
  BY <1>1, <1>2, <1>3, LockEffect
<1>4. CASE TurnsTelling(s, [rec[s] EXCEPT !.stage = "CANCELLED"], "cancel")
  BY <1>1, <1>2, <1>4, EarlyMove, StageSet DEF EarlyNext, Stages, Final
<1>5. CASE Turns(s, rec[s])
  BY <1>1, <1>2, <1>5, EarlyMove DEF EarlyNext, Keeps
<1> QED
  BY <1>3, <1>4, <1>5 DEF TickTakeReceived

LEMMA CheckingEffect ==
  ASSUME SwapTypeOK, NEW s \in Sides, TickChecking(s)
  PROVE  EarlyRound(s) \/ FundRound(s)
<1> DEFINE r == rec[s]
<1>1. Running(s) /\ ~ Busy(s) /\ r.stage \in Checking /\ r.stage \in Early \ {"NONE"}
  BY DEF TickChecking, At, Busy, Early, Checking
<1>2. r \in Record /\ TAKER_LOCK \in Nat
  BY RecTyped, SwapAssumption
<1>3. CASE TurnsTelling(s, [r EXCEPT !.stage = "CANCELLED"], "cancel")
  BY <1>1, <1>2, <1>3, EarlyMove, StageSet DEF EarlyNext, Stages, Final
<1>4. CASE Turns(s, r)
  BY <1>1, <1>2, <1>4, EarlyMove DEF EarlyNext, Keeps
<1>5. CASE Turns(s, [r EXCEPT !.stage = "READY_TO_LOCK"])
  BY <1>1, <1>2, <1>5, EarlyMove, StageSet DEF EarlyNext, Stages, Final
<1>6. CASE /\ r.stage = "READY_TO_LOCK" /\ r.ok /\ LockOurs(s, TAKER_LOCK)
           /\ "ok" \in CheckTheirs(s, nTakerMinLeft)
  BY <1>1, <1>2, <1>6, LockEffect
<1>7. PICK v \in CheckTheirs(s, nTakerMinLeft) :
        \/ v = "bad" /\ TurnsTelling(s, [r EXCEPT !.stage = "CANCELLED"], "cancel")
        \/ /\ v = "wait"
           /\ IF now - r.since > nGiveUpWaiting
                THEN TurnsTelling(s, [r EXCEPT !.stage = "CANCELLED"], "cancel")
                ELSE Turns(s, r)
        \/ /\ v = "ok"
           /\ CASE r.stage = "CHECKING_THEIRS" -> Turns(s, [r EXCEPT !.stage = "READY_TO_LOCK"])
                [] r.stage = "READY_TO_LOCK" /\ ~ r.ok -> Turns(s, r)
                [] OTHER -> LockOurs(s, TAKER_LOCK)
  BY Zenon DEF TickChecking
<1>8. CASE v = "ok"
  <2>1. (CASE r.stage = "CHECKING_THEIRS" -> Turns(s, [r EXCEPT !.stage = "READY_TO_LOCK"])
           [] r.stage = "READY_TO_LOCK" /\ ~ r.ok -> Turns(s, r)
           [] OTHER -> LockOurs(s, TAKER_LOCK))
    BY <1>7, <1>8, Zenon
  <2>2. CASE r.stage = "CHECKING_THEIRS"
    BY <1>5, <2>1, <2>2, Zenon
  <2>3. CASE r.stage = "READY_TO_LOCK" /\ ~ r.ok
    BY <1>4, <2>1, <2>3, Zenon
  <2>4. CASE r.stage = "READY_TO_LOCK" /\ r.ok
    <3>1. LockOurs(s, TAKER_LOCK)
      BY <2>1, <2>4, Zenon
    <3> QED
      BY <1>6, <1>8, <2>4, <3>1
  <2>5. r.ok \in BOOLEAN
    BY <1>2 DEF Record
  <2> QED
    BY <1>1, <2>2, <2>3, <2>4 DEF Checking
<1>9. v \in {"bad", "wait", "ok"}
  BY <1>7, Zenon
<1> QED
  BY <1>3, <1>4, <1>7, <1>8, <1>9

LEMMA PaymentEffect ==
  ASSUME SwapTypeOK, NEW s \in Sides, TickWaitPayment(s)
  PROVE  PaymentRound(s)
<1> DEFINE r == rec[s]
<1>1. Running(s) /\ ~ Busy(s) /\ r.stage = "WAIT_PAYMENT"
  BY DEF TickWaitPayment, At, Busy
<1>2. r \in Record
  BY RecTyped
<1>3. ASSUME NEW w \in Record, w.stage \in {"WAIT_PAYMENT", "LOCKED", "REFUNDING"},
             w.ok = r.ok, w.contract = r.contract, w.refund = r.refund, w.redeemSince = r.redeemSince,
             Turns(s, w) \/ TurnsTelling(s, w, "cancel")
      PROVE  PaymentRound(s)
  <2>1. RoundStep(s) /\ Apart /\ Goes(s, "store", w)
    BY <1>1, <1>3, TurnsEffect, TurnsTellingEffect
  <2>2. Tells(s, {"cancel"})
    BY <1>1, <1>3, TurnsEffect, TurnsTellingEffect, TellsFacts
  <2> QED
    BY <1>1, <1>3, <2>1, <2>2 DEF PaymentRound
<1>4. CASE TurnsTelling(s, [r EXCEPT !.stage = "REFUNDING"], "cancel")
  BY <1>2, <1>3, <1>4, StageSet DEF Stages, Final, Keeps
<1>5. CASE Turns(s, r)
  BY <1>1, <1>2, <1>3, <1>5
<1>6. CASE Turns(s, [r EXCEPT !.txid = TRUE,
                              !.stage = IF con[s].st = "open" /\ con[s].good /\ TimeLeft(s) > 0
                                          THEN "LOCKED" ELSE "REFUNDING"])
  <2> DEFINE st == IF con[s].st = "open" /\ con[s].good /\ TimeLeft(s) > 0 THEN "LOCKED" ELSE "REFUNDING"
             q == [r EXCEPT !.txid = TRUE]
             w == [r EXCEPT !.txid = TRUE, !.stage = st]
  <2>1. w = [q EXCEPT !.stage = st]
    OBVIOUS
  <2>2. st \in {"LOCKED", "REFUNDING"} /\ st \in Stages
    BY DEF Stages, Final
  <2>3. Turns(s, w)
    BY <1>6
  <2> HIDE DEF st
  <2>4. q \in Record /\ q.ok = r.ok /\ q.contract = r.contract /\ q.refund = r.refund
        /\ q.redeemSince = r.redeemSince
    BY <1>2 DEF Record
  <2> HIDE DEF q
  <2>5. w \in Record /\ w.stage = st /\ w.ok = r.ok /\ w.contract = r.contract
        /\ w.refund = r.refund /\ w.redeemSince = r.redeemSince
    BY <2>1, <2>2, <2>4, StageSet DEF Keeps
  <2> HIDE DEF w
  <2> QED
    BY <1>3, <2>2, <2>3, <2>5
<1> QED
  BY <1>4, <1>5, <1>6 DEF TickWaitPayment

\* What a wallet may answer.
LEMMA FindSecretRange ==
  ASSUME SwapTypeOK, NEW s \in Sides, NEW x \in Sides
  PROVE  FindSecret(s, x) \subseteq {"redeem", "refund", "no", "gone"}
<1>1. pend[x] \subseteq {"redeem", "refund"} /\ Mine(s, x) \in {"redeem", "refund"}
  BY DEF SwapTypeOK, Mine
<1> DEFINE p == pend[x]
           m == Mine(s, x)
<1>2. (IF m \in p THEN {m} ELSE {"no"} \cup p)
      \cup (IF chain[x] = "core" /\ p # {} THEN {"gone"} ELSE {}) \subseteq {"redeem", "refund", "no", "gone"}
  <2> HIDE DEF p, m
  <2>1. p \subseteq {"redeem", "refund"} /\ m \in {"redeem", "refund"}
    BY <1>1 DEF p, m
  <2> QED
    BY <2>1
<1>3. CASE con[x].st = "redeemed" \/ con[x].st = "refunded"
  BY <1>3, FindSecretFacts
<1>4. CASE con[x].st \notin Spent /\ chain[x] = "light"
  BY <1>4, Zenon DEF FindSecret, Spent
<1>5. CASE con[x].st \notin Spent /\ chain[x] # "light"
  <2>1. FindSecret(s, x) = (IF m \in p THEN {m} ELSE {"no"} \cup p)
                           \cup (IF chain[x] = "core" /\ p # {} THEN {"gone"} ELSE {})
    BY <1>5, Zenon DEF FindSecret, Spent
  <2> QED
    BY <1>2, <2>1
<1> QED
  BY <1>3, <1>4, <1>5 DEF Spent

LEMMA LockedEffect ==
  ASSUME SwapTypeOK, NEW s \in Sides, TickLocked(s)
  PROVE  WatchRound(s)
<1> DEFINE r == rec[s]
           m == IF s = "maker" THEN "lock1" ELSE "lock2"
           W == [r EXCEPT !.told = TRUE]
<1>1. Running(s) /\ ~ Busy(s) /\ r.stage = "LOCKED"
  BY DEF TickLocked, At, Busy
<1>2. PICK v \in (IF s = "taker" THEN FindSecret(s, s) ELSE {"no"}) :
        /\ CASE v = "redeem" -> Becomes(s, "store", [W EXCEPT !.secret = TRUE, !.stage = "REDEEMING"])
             [] v = "refund" -> Becomes(s, "store", [W EXCEPT !.stage = "REFUNDED"])
             [] OTHER -> Becomes(s, "refund", W)
        /\ IF r.told
             THEN UNCHANGED sent /\ Looks(s)
             ELSE sent' = [sent EXCEPT ![s] = @ \cup {m}] /\ Stir
        /\ UNCHANGED <<now, chain, rogue, con, pend, shown, accepted, rec, seen, life>>
  BY Zenon DEF TickLocked
<1>3. W \in Record /\ Keeps(r, W) /\ W.stage = r.stage
  BY RecTyped DEF Record, Keeps
<1>4. RoundStep(s) /\ Apart
  BY <1>1, <1>2 DEF RoundStep, Apart, life, SwapTypeOK
<1>5. Tells(s, {m})
  BY <1>2, TellsFacts
<1>6. CASE v = "redeem"
  <2> DEFINE q == [W EXCEPT !.secret = TRUE]
             w == [W EXCEPT !.secret = TRUE, !.stage = "REDEEMING"]
  <2>1. w = [q EXCEPT !.stage = "REDEEMING"]
    OBVIOUS
  <2>2. Becomes(s, "store", w)
    BY <1>2, <1>6, Zenon
  <2>3. s = "taker" /\ (con[s].st = "redeemed" \/ "redeem" \in pend[s])
    BY <1>2, <1>6, FindSecretFacts
  <2> HIDE DEF W
  <2>4. q \in Record /\ Keeps(r, q)
    BY <1>3 DEF Record, Keeps
  <2> HIDE DEF q, w
  <2>5. w \in Record /\ Keeps(q, w) /\ w.stage = "REDEEMING" /\ Keeps(r, w)
    BY <2>1, <2>4, StageSet DEF Stages, Final, Keeps
  <2>6. Goes(s, "store", w)
    BY <2>2, <2>5, BecomesGoes
  <2> QED
    BY <1>1, <1>4, <1>5, <2>3, <2>5, <2>6 DEF WatchRound
<1>7. CASE v = "refund"
  <2> DEFINE w == [W EXCEPT !.stage = "REFUNDED"]
  <2>1. Becomes(s, "store", w)
    BY <1>2, <1>7, Zenon
  <2>2. s = "taker" /\ (con[s].st = "refunded" \/ "refund" \in pend[s]) /\ con[s].st # "redeemed"
    BY <1>2, <1>7, FindSecretFacts
  <2> HIDE DEF W
  <2>3. w \in Record /\ Keeps(r, w) /\ w.stage = "REFUNDED"
    BY <1>3, StageSet DEF Stages, Final, Keeps
  <2> HIDE DEF w
  <2>4. Goes(s, "store", w)
    BY <2>1, <2>3, BecomesGoes
  <2> QED
    BY <1>1, <1>4, <1>5, <2>2, <2>3, <2>4 DEF WatchRound
<1>8. CASE v \notin {"redeem", "refund"}
  <2>1. Becomes(s, "refund", W)
    BY <1>2, <1>8, Zenon
  <2>2. s = "taker" => con[s].st # "redeemed"
    BY <1>2, <1>8, FindSecretFacts
  <2> HIDE DEF W
  <2>3. Goes(s, "refund", W)
    BY <1>3, <2>1, BecomesGoes
  <2> QED
    BY <1>1, <1>3, <1>4, <1>5, <2>2, <2>3 DEF WatchRound
<1> QED
  BY <1>6, <1>7, <1>8

LEMMA RefundingEffect ==
  ASSUME SwapTypeOK, NEW s \in Sides, TickRefunding(s)
  PROVE  WatchRound(s)
<1> DEFINE r == rec[s]
<1>1. Running(s) /\ ~ Busy(s) /\ r.stage = "REFUNDING"
  BY DEF TickRefunding, At, Busy
<1>2. RoundStep(s) /\ Apart /\ UNCHANGED sent
  BY <1>1 DEF TickRefunding, RoundStep, Apart, world, life, SwapTypeOK
<1>3. PICK v \in (IF s = "taker" THEN FindSecret(s, s) ELSE {"no"}) :
        IF v = "redeem"
          THEN Becomes(s, "store", [r EXCEPT !.secret = TRUE, !.stage = "REDEEMING"])
          ELSE Becomes(s, "refund", r)
  BY DEF TickRefunding
<1>4. r \in Record
  BY RecTyped
<1>5. CASE v = "redeem"
  <2> DEFINE q == [r EXCEPT !.secret = TRUE]
             w == [r EXCEPT !.secret = TRUE, !.stage = "REDEEMING"]
  <2>1. w = [q EXCEPT !.stage = "REDEEMING"]
    OBVIOUS
  <2>2. Becomes(s, "store", w)
    BY <1>3, <1>5, Zenon
  <2>3. s = "taker" /\ (con[s].st = "redeemed" \/ "redeem" \in pend[s])
    BY <1>3, <1>5, FindSecretFacts
  <2>4. q \in Record /\ Keeps(r, q)
    BY <1>4 DEF Record, Keeps
  <2> HIDE DEF q, w
  <2>5. w \in Record /\ Keeps(q, w) /\ w.stage = "REDEEMING" /\ Keeps(r, w)
    BY <2>1, <2>4, StageSet DEF Stages, Final, Keeps
  <2>6. Goes(s, "store", w)
    BY <2>2, <2>5, BecomesGoes
  <2> QED
    BY <1>1, <1>2, <2>3, <2>5, <2>6 DEF WatchRound
<1>6. CASE v # "redeem"
  <2>1. s = "taker" => con[s].st # "redeemed"
    BY <1>3, <1>6, FindSecretFacts
  <2>2. Goes(s, "refund", r) /\ Keeps(r, r)
    BY <1>3, <1>4, <1>6, BecomesGoes DEF Keeps
  <2> QED
    BY <1>1, <1>2, <2>1, <2>2 DEF WatchRound
<1> QED
  BY <1>5, <1>6

\* What RedeemTheirs keeps of the record, whatever it makes of it.
LEMMA RedeemTheirsEffect ==
  ASSUME SwapTypeOK, NEW s \in Sides, Running(s), ~ Busy(s), rec[s].stage = "REDEEMING",
         s = "maker" => "ok" \in CheckTheirs(s, nMakerMinLeft),
         RedeemTheirs(s)
  PROVE  RedeemRound(s) \/ LookRound(s)
<1> DEFINE r == rec[s]
           x == Other(s)
<1>1. r \in Record /\ now \in Nat /\ x \in Sides
  BY RecTyped DEF Other, Sides
<1>2. CASE /\ CanSpend(s, x) /\ "no" \in FindSecret(s, x) /\ SpendContract(s, x)
           /\ Becomes(s, "store", IF chain[x] = "light" THEN [r EXCEPT !.redeemSince = now]
                                                         ELSE [r EXCEPT !.stage = "DONE"])
           /\ Stir
           /\ UNCHANGED <<now, chain, rogue, con, sent, accepted, rec, seen, life>>
  <2> DEFINE w == IF chain[x] = "light" THEN [r EXCEPT !.redeemSince = now]
                                        ELSE [r EXCEPT !.stage = "DONE"]
  <2>1. w \in Record /\ w.stage \in {"REDEEMING", "DONE"} /\ w.ok = r.ok
        /\ w.contract = r.contract /\ w.txid = r.txid /\ w.refund = r.refund
    BY <1>1 DEF Record, Stages, Final
  <2>2. Becomes(s, "store", w)
    BY <1>2
  <2> HIDE DEF w
  <2>3. Goes(s, "store", w)
    BY <2>1, <2>2, BecomesGoes
  <2>4. RoundStep(s) /\ Sending /\ SpendContract(s, x) /\ CanSpend(s, x)
    BY <1>2 DEF RoundStep, Sending, life, SwapTypeOK
  <2>5. con[x].st \notin Spent
    BY <1>1, <1>2, FindSecretFacts
  <2> QED
    BY <2>1, <2>3, <2>4, <2>5 DEF RedeemRound
<1>3. ASSUME NEW v \in FindSecret(s, x), ~ CanSpend(s, x) \/ v # "no",
             Turns(s, CASE v \in {"redeem", "gone"} -> [r EXCEPT !.stage = "DONE"]
                        [] v = "refund" -> [r EXCEPT !.stage = "FAILED"]
                        [] OTHER -> r)
      PROVE  LookRound(s)
  <2>1. ASSUME NEW w \in Record, Keeps(r, w), Turns(s, w),
               \/ w.stage = "DONE" /\ (con[x].st = "redeemed" \/ pend[x] # {})
               \/ w.stage = "FAILED" /\ (con[x].st = "refunded" \/ "refund" \in pend[x])
               \/ w.stage = "REDEEMING" /\ con[x].st \notin Spent /\ ~ CanSpend(s, x)
        PROVE  LookRound(s)
    <3>1. RoundStep(s) /\ Apart /\ Goes(s, "store", w)
      BY <2>1, TurnsEffect
    <3>2. Tells(s, {"cancel"})
      BY <2>1, TurnsEffect, TellsFacts
    <3> QED
      BY <2>1, <3>1, <3>2 DEF LookRound, Keeps
  <2>2. CASE v \in {"redeem", "gone"}
    <3>1. Turns(s, [r EXCEPT !.stage = "DONE"])
      BY <1>3, <2>2, Zenon
    <3>2. con[x].st = "redeemed" \/ pend[x] # {}
      BY <1>1, <2>2, FindSecretFacts
    <3> QED
      BY <1>1, <2>1, <3>1, <3>2, StageSet DEF Stages, Final
  <2>3. CASE v = "refund"
    <3>1. Turns(s, [r EXCEPT !.stage = "FAILED"])
      BY <1>3, <2>3, Zenon
    <3>2. con[x].st = "refunded" \/ "refund" \in pend[x]
      BY <1>1, <2>3, FindSecretFacts
    <3> QED
      BY <1>1, <2>1, <3>1, <3>2, StageSet DEF Stages, Final
  <2>4. CASE v = "no"
    <3>1. Turns(s, r)
      BY <1>3, <2>4, Zenon
    <3>2. con[x].st \notin Spent /\ ~ CanSpend(s, x)
      BY <1>1, <1>3, <2>4, FindSecretFacts
    <3> QED
      BY <1>1, <2>1, <3>1, <3>2 DEF Keeps
  <2> QED
    BY <1>1, <2>2, <2>3, <2>4, FindSecretRange
<1> QED
  BY <1>2, <1>3 DEF RedeemTheirs

LEMMA RedeemingEffect ==
  ASSUME SwapTypeOK, NEW s \in Sides, TickRedeeming(s)
  PROVE  RedeemRound(s) \/ LookRound(s)
<1> DEFINE r == rec[s]
<1>1. Running(s) /\ ~ Busy(s) /\ r.stage = "REDEEMING"
  BY DEF TickRedeeming, At, Busy
<1>2. CASE s = "taker"
  BY <1>1, <1>2, RedeemTheirsEffect DEF TickRedeeming
<1>3. CASE s = "maker" /\ "ok" \in CheckTheirs(s, nMakerMinLeft) /\ RedeemTheirs(s)
  BY <1>1, <1>3, RedeemTheirsEffect
<1>4. r \in Record
  BY RecTyped
<1>5. CASE s = "maker" /\ TurnsTelling(s, [r EXCEPT !.stage = "REFUNDING"], "cancel")
  <2> DEFINE w == [r EXCEPT !.stage = "REFUNDING"]
  <2>1. w \in Record /\ w.stage = "REFUNDING" /\ Keeps(r, w)
    BY <1>4, StageSet DEF Stages, Final
  <2>2. RoundStep(s) /\ Apart /\ Goes(s, "store", w) /\ Tells(s, {"cancel"})
    BY <1>1, <1>5, <2>1, TurnsTellingEffect, TellsFacts
  <2> QED
    BY <1>1, <1>5, <2>1, <2>2 DEF LookRound, Keeps
<1>6. ASSUME s = "maker", NEW w \in {r, [r EXCEPT !.stage = "REFUNDING"]}, Turns(s, w)
      PROVE  LookRound(s)
  <2>1. w \in Record /\ Keeps(r, w) /\ w.stage \in {"REFUNDING", "REDEEMING"}
    BY <1>1, <1>4, <1>6, StageSet DEF Stages, Final, Keeps
  <2>2. RoundStep(s) /\ Apart /\ Goes(s, "store", w) /\ Tells(s, {"cancel"})
    BY <1>1, <1>6, <2>1, TurnsEffect, TellsFacts
  <2> QED
    BY <1>1, <1>6, <2>1, <2>2 DEF LookRound, Keeps
<1>7. CASE s = "maker"
  BY <1>3, <1>5, <1>6, <1>7 DEF TickRedeeming
<1> QED
  BY <1>2, <1>7 DEF Sides

LEMMA RedeemSentEffect ==
  ASSUME SwapTypeOK, NEW s \in Sides, TickRedeemSent(s)
  PROVE  RedeemRound(s) \/ LookRound(s)
<1> DEFINE r == rec[s]
           x == Other(s)
<1>1. Running(s) /\ ~ Busy(s) /\ r.stage = "REDEEMING" /\ r.redeemSince >= 0
  BY DEF TickRedeemSent, At, Busy
<1>2. r \in Record /\ now \in Nat
  BY RecTyped
<1>3. ASSUME NEW st \in {"DONE", "FAILED"},
             st = "DONE" => con[x].st = "redeemed",
             st = "FAILED" => con[x].st = "refunded",
             Turns(s, [r EXCEPT !.redeemSince = -1, !.stage = st])
      PROVE  LookRound(s)
  <2> DEFINE q == [r EXCEPT !.redeemSince = -1]
             w == [r EXCEPT !.redeemSince = -1, !.stage = st]
  <2>1. w = [q EXCEPT !.stage = st]
    OBVIOUS
  <2>2. Turns(s, w)
    BY <1>3
  <2>3. q \in Record /\ q.ok = r.ok /\ q.contract = r.contract /\ q.txid = r.txid
        /\ q.refund = r.refund /\ q.redeemSince = -1
    BY <1>2 DEF Record
  <2> HIDE DEF q, w
  <2>4. w \in Record /\ Keeps(q, w) /\ w.stage = st
    BY <1>3, <2>1, <2>3, StageSet DEF Stages, Final
  <2>5. RoundStep(s) /\ Apart /\ Goes(s, "store", w) /\ Tells(s, {"cancel"})
    BY <1>1, <2>2, <2>4, TurnsEffect, TellsFacts
  <2> QED
    BY <1>1, <1>3, <2>3, <2>4, <2>5 DEF LookRound, Keeps
<1>4. CASE con[x].st \notin Spent /\ Turns(s, r)
  <2>1. RoundStep(s) /\ Apart /\ Goes(s, "store", r) /\ Tells(s, {"cancel"})
    BY <1>1, <1>2, <1>4, TurnsEffect, TellsFacts
  <2> QED
    BY <1>1, <1>4, <2>1 DEF LookRound
<1>5. CASE /\ con[x].st \notin Spent /\ SpendContract(s, x)
           /\ Becomes(s, "store", [r EXCEPT !.redeemSince = now])
           /\ Stir
           /\ UNCHANGED <<now, chain, rogue, con, sent, accepted, rec, seen, life>>
  <2> DEFINE w == [r EXCEPT !.redeemSince = now]
  <2>1. w \in Record /\ w.stage = r.stage /\ w.ok = r.ok
        /\ w.contract = r.contract /\ w.txid = r.txid /\ w.refund = r.refund
    BY <1>2 DEF Record
  <2>2. Becomes(s, "store", w)
    BY <1>5
  <2> HIDE DEF w
  <2>3. Goes(s, "store", w)
    BY <2>1, <2>2, BecomesGoes
  <2>4. RoundStep(s) /\ Sending /\ SpendContract(s, x)
    BY <1>1, <1>5 DEF RoundStep, Sending, life, SwapTypeOK
  <2> QED
    BY <1>1, <1>5, <2>1, <2>3, <2>4 DEF RedeemRound
<1> QED
  BY <1>3, <1>4, <1>5 DEF TickRedeemSent

LEMMA RefundEffect ==
  ASSUME SwapTypeOK, NEW s \in Sides, TryRefund(s)
  PROVE  RefundRound(s) \/ NoRefundRound(s)
<1> DEFINE r == work[s].s
           t == [r EXCEPT !.txid = TRUE]
<1>1. Running(s) /\ work[s].pc = "refund"
  BY DEF TryRefund
<1>2. r \in Record
  BY RecTyped
<1>3. t \in Record /\ t.stage = r.stage /\ t.ok = r.ok /\ t.contract = r.contract
      /\ t.refund = r.refund /\ t.redeemSince = r.redeemSince
  BY <1>2 DEF Record
<1>4. ASSUME NEW w \in Record, Turns(s, w),
             w.ok = r.ok, w.contract = r.contract, w.refund = r.refund, w.redeemSince = r.redeemSince,
             \/ w.stage = r.stage
             \/ w.stage = "REFUNDED" /\ s = "taker" /\ w.refund
             \/ w.stage = "CANCELLED" /\ ~ Paid(s) /\ now > con[s].lock + Day
      PROVE  NoRefundRound(s)
  <2>1. RoundStep(s) /\ Apart /\ UNCHANGED sent /\ Goes(s, "store", w)
    BY <1>1, <1>4, TurnsEffect
  <2> QED
    BY <1>1, <1>4, <2>1 DEF NoRefundRound
<1>5. CASE Turns(s, r)
  BY <1>2, <1>4, <1>5
<1>6. CASE s = "taker" /\ r.refund /\ Turns(s, [r EXCEPT !.stage = "REFUNDED"])
  <2> DEFINE w == [r EXCEPT !.stage = "REFUNDED"]
  <2>1. w \in Record /\ w.stage = "REFUNDED" /\ Keeps(r, w)
    BY <1>2, StageSet DEF Stages, Final
  <2>2. Turns(s, w)
    BY <1>6
  <2> HIDE DEF w
  <2> QED
    BY <1>4, <1>6, <2>1, <2>2 DEF Keeps
<1>7. CASE ~ Paid(s) /\ now > con[s].lock + Day /\ Turns(s, [r EXCEPT !.stage = "CANCELLED"])
  <2> DEFINE w == [r EXCEPT !.stage = "CANCELLED"]
  <2>1. w \in Record /\ w.stage = "CANCELLED" /\ Keeps(r, w)
    BY <1>2, StageSet DEF Stages, Final
  <2>2. Turns(s, w)
    BY <1>7
  <2> HIDE DEF w
  <2> QED
    BY <1>4, <1>7, <2>1, <2>2 DEF Keeps
<1>8. CASE Turns(s, t)
  BY <1>3, <1>4, <1>8
<1>9. CASE TimeLeft(s) = 0 /\ RefundOurs(s, t)
  <2> HIDE DEF t
  <2>1. CASE /\ CanSpend(s, s) /\ "no" \in FindSecret(s, s) /\ SpendContract(s, s)
             /\ Becomes(s, "store", [t EXCEPT !.refund = TRUE,
                                        !.stage = IF s = "taker" /\ t.theirs THEN "REFUNDING" ELSE "REFUNDED"])
             /\ Stir
             /\ UNCHANGED <<now, chain, rogue, con, sent, accepted, rec, seen, life>>
    <3> DEFINE st == IF s = "taker" /\ t.theirs THEN "REFUNDING" ELSE "REFUNDED"
               q == [t EXCEPT !.refund = TRUE]
               w == [t EXCEPT !.refund = TRUE, !.stage = st]
    <3>1. w = [q EXCEPT !.stage = st]
      OBVIOUS
    <3>2. Becomes(s, "store", w)
      BY <2>1
    <3>3. st \in {"REFUNDED", "REFUNDING"} /\ st \in Stages
      BY DEF Stages, Final
    <3>4. q \in Record /\ q.ok = t.ok /\ q.contract = t.contract /\ q.redeemSince = t.redeemSince
      BY <1>3 DEF Record
    <3> HIDE DEF q, w, st
    <3>5. w \in Record /\ Keeps(q, w) /\ w.stage = st
      BY <3>1, <3>3, <3>4, StageSet
    <3>6. Goes(s, "store", w)
      BY <3>2, <3>5, BecomesGoes
    <3>7. RoundStep(s) /\ Sending
      BY <1>1, <2>1 DEF RoundStep, Sending, life, SwapTypeOK
    <3> QED
      BY <1>1, <1>3, <1>9, <2>1, <3>3, <3>4, <3>5, <3>6, <3>7 DEF RefundRound, Keeps
  <2>2. CASE Becomes(s, "spent", t) /\ Looks(s) /\ UNCHANGED <<world, rec, seen, life>>
    <3>1. Goes(s, "spent", t)
      BY <1>3, <2>2, BecomesGoes
    <3>2. RoundStep(s) /\ Apart /\ UNCHANGED sent
      BY <1>1, <2>2 DEF RoundStep, Apart, world, life, SwapTypeOK
    <3> QED
      BY <1>1, <1>3, <1>9, <3>1, <3>2 DEF NoRefundRound
  <2> QED
    BY <1>9, <2>1, <2>2 DEF RefundOurs
<1>10. TimeLeft(s) > 0 \/ TimeLeft(s) = 0
  BY RecTyped
<1> QED
  BY <1>5, <1>6, <1>7, <1>8, <1>9, <1>10 DEF TryRefund

LEMMA RefundFailedEffect ==
  ASSUME SwapTypeOK, NEW s \in Sides, RefundFailed(s)
  PROVE  RefundFailedRound(s)
<1> DEFINE r == work[s].s
<1>1. Running(s) /\ work[s].pc = "spent"
  BY DEF RefundFailed
<1>2. r \in Record
  BY RecTyped
<1>3. ASSUME NEW w \in Record, Keeps(r, w), w.stage \in {"REFUNDED", "DONE", r.stage}, Turns(s, w)
      PROVE  RefundFailedRound(s)
  BY <1>1, <1>3, TurnsEffect DEF RefundFailedRound
<1>4. PICK v \in FindSecret(s, s) :
        Turns(s, CASE v = "refund" -> [r EXCEPT !.stage = "REFUNDED"]
                   [] v \in {"redeem", "gone"} -> [r EXCEPT !.stage = "DONE"]
                   [] OTHER -> r)
  BY Zenon DEF RefundFailed
<1>5. CASE v = "refund"
  <2>1. Turns(s, [r EXCEPT !.stage = "REFUNDED"])
    BY <1>4, <1>5, Zenon
  <2> QED
    BY <1>2, <1>3, <2>1, StageSet DEF Stages, Final
<1>6. CASE v \in {"redeem", "gone"}
  <2>1. Turns(s, [r EXCEPT !.stage = "DONE"])
    BY <1>4, <1>6, Zenon
  <2> QED
    BY <1>2, <1>3, <2>1, StageSet DEF Stages, Final
<1>7. CASE v \notin {"redeem", "gone", "refund"}
  <2>1. Turns(s, r)
    BY <1>4, <1>7, Zenon
  <2> QED
    BY <1>2, <1>3, <2>1 DEF Keeps
<1> QED
  BY <1>5, <1>6, <1>7

\* A step of a round.
RoundKinds(s) ==
  \/ EarlyRound(s) \/ FundRound(s) \/ PaymentRound(s) \/ WatchRound(s)
  \/ RedeemRound(s) \/ LookRound(s)
  \/ RefundRound(s) \/ NoRefundRound(s) \/ RefundFailedRound(s)

LEMMA TickEffect ==
  ASSUME SwapTypeOK, NEW s \in Sides, Tick(s)
  PROVE  RoundKinds(s)
  BY InvitingEffect, TakeSentEffect, TakeReceivedEffect, CheckingEffect, PaymentEffect,
     LockedEffect, RefundingEffect, RedeemSentEffect, RedeemingEffect, RefundEffect,
     RefundFailedEffect DEF Tick, RoundKinds

----------------------------------------------------------------------------
(* Types.                                                                  *)

WorkSet == [pc : {"idle", "refund", "spent", "store"}, was : Stages, wasOk : BOOLEAN, s : Record]
ConSet == [st : {"none", "unpaid", "sent", "open"} \cup Spent, lock : Nat, good : BOOLEAN]

LEMMA GoesFacts ==
  ASSUME SwapTypeOK, NEW s \in Sides, NEW pc \in {"refund", "spent", "store"}, NEW w, Goes(s, pc, w)
  PROVE  /\ work' \in [Sides -> WorkSet]
         /\ work'[s].pc = pc /\ work'[s].was = Was(s) /\ work'[s].wasOk = WasOk(s) /\ work'[s].s = w
         /\ \A t \in Sides \ {s} : work'[t] = work[t]
<1>1. Was(s) \in Stages /\ WasOk(s) \in BOOLEAN
  BY DEF SwapTypeOK, Was, WasOk, Record
<1> QED
  BY <1>1 DEF Goes, SwapTypeOK, WorkSet

\* What every kind of step of a round does.
LEMMA RoundFacts ==
  ASSUME SwapTypeOK, NEW s \in Sides, RoundKinds(s)
  PROVE  /\ RoundStep(s)
         /\ \E pc \in {"refund", "spent", "store"} : \E w : Goes(s, pc, w)
         /\ Tells(s, {"take", "cancel", "lock1", "lock2"})
<1>1. ASSUME NEW ms \in SUBSET {"take", "cancel", "lock1", "lock2"}, Tells(s, ms)
      PROVE  Tells(s, {"take", "cancel", "lock1", "lock2"})
  BY <1>1 DEF Tells
<1>2. UNCHANGED sent => Tells(s, {"take", "cancel", "lock1", "lock2"})
  BY TellsFacts
<1>3. CASE EarlyRound(s) \/ PaymentRound(s) \/ LookRound(s)
  BY <1>1, <1>3 DEF EarlyRound, PaymentRound, LookRound
<1>4. CASE FundRound(s) \/ RedeemRound(s) \/ RefundRound(s)
  BY <1>2, <1>4 DEF FundRound, RedeemRound, RefundRound, Sending
<1>5. CASE NoRefundRound(s) \/ RefundFailedRound(s)
  BY <1>2, <1>5 DEF NoRefundRound, RefundFailedRound
<1>6. CASE WatchRound(s)
  BY <1>1, <1>2, <1>6 DEF WatchRound
<1> QED
  BY <1>3, <1>4, <1>5, <1>6 DEF RoundKinds

LEMMA RoundTypes ==
  ASSUME SwapTypeOK, NEW s \in Sides, RoundKinds(s)
  PROVE  SwapTypeOK'
<1>1. RoundStep(s) /\ Tells(s, {"take", "cancel", "lock1", "lock2"})
  BY RoundFacts
<1>2. work' \in [Sides -> WorkSet]
  BY RoundFacts, GoesFacts
<1>3. sent' \in [Sides -> SUBSET Steps]
  <2>1. PICK m \in SUBSET {"take", "cancel", "lock1", "lock2"} : sent' = [sent EXCEPT ![s] = @ \cup m]
    BY <1>1 DEF Tells
  <2>2. m \subseteq Steps
    BY DEF Steps
  <2> QED
    BY <2>1, <2>2 DEF SwapTypeOK
<1>4. look' \in [Sides -> {"stale", "looking", "calm"}]
  BY <1>1 DEF RoundStep, Looks, Stir, SwapTypeOK
<1>5. con' \in [Sides -> ConSet] /\ pend' \in [Sides -> SUBSET {"redeem", "refund"}] /\ shown' \in BOOLEAN
  <2>1. CASE Apart
    BY <2>1 DEF Apart, SwapTypeOK, ConSet
  <2>2. CASE FundRound(s)
    <3>1. PICK n \in {MAKER_LOCK, TAKER_LOCK} : FundContract(s, n)
      BY <2>2 DEF FundRound
    <3>2. now + n \in Nat
      BY SwapAssumption DEF SwapTypeOK
    <3> QED
      BY <2>2, <3>1, <3>2 DEF FundContract, FundRound, SwapTypeOK, ConSet, Spent
  <2>3. ASSUME NEW x \in Sides, SpendContract(s, x), Sending
        PROVE  con' \in [Sides -> ConSet] /\ pend' \in [Sides -> SUBSET {"redeem", "refund"}] /\ shown' \in BOOLEAN
    BY <2>3 DEF SpendContract, Sending, Mine, SwapTypeOK, ConSet
  <2> QED
    BY <2>1, <2>2, <2>3 DEF RoundKinds, EarlyRound, PaymentRound, WatchRound, RedeemRound, LookRound,
       RefundRound, NoRefundRound, RefundFailedRound, Other, Sides
<1> QED
  BY <1>1, <1>2, <1>3, <1>4, <1>5 DEF RoundStep, SwapTypeOK, WorkSet, ConSet

----------------------------------------------------------------------------
(* What the other steps do to a record.                                    *)

\* The record of s becomes n.
Writes(s, n) == n \in Record /\ rec' = [rec EXCEPT ![s] = n]

LEMMA WritesFacts ==
  ASSUME SwapTypeOK, NEW s \in Sides, NEW n, Writes(s, n)
  PROVE  /\ rec' \in [Sides -> Record] /\ rec'[s] = n
         /\ \A t \in Sides \ {s} : rec'[t] = rec[t]
  BY DEF Writes, SwapTypeOK

\* A swap that begins.
Fresh(n, st) ==
  /\ n.stage = st /\ ~ n.ok /\ ~ n.contract /\ ~ n.txid /\ ~ n.refund /\ n.redeemSince = -1

LEMMA FreshSwap ==
  ASSUME NEW st \in Stages, NEW t \in Nat, NEW n, n = [NoSwap EXCEPT !.stage = st, !.created = t]
  PROVE  n \in Record /\ Fresh(n, st)
<1> DEFINE q == [NoSwap EXCEPT !.stage = st]
<1>1. n = [q EXCEPT !.created = t]
  OBVIOUS
<1>2. q \in Record /\ Fresh(q, st)
  BY DEF NoSwap, Record, Fresh
<1> HIDE DEF q
<1> QED
  BY <1>1, <1>2 DEF Record, Fresh

LEMMA TakeEffect ==
  ASSUME SwapTypeOK, Take
  PROVE  /\ rec["taker"].stage = "NONE"
         /\ \E n : Writes("taker", n) /\ Fresh(n, "INVITING")
         /\ Running("taker") /\ look' = [look EXCEPT !["taker"] = "stale"]
         /\ UNCHANGED <<world, work, seen, life>>
<1>1. "INVITING" \in Stages /\ now \in Nat
  BY DEF Stages, SwapTypeOK
<1> QED
  BY <1>1, FreshSwap DEF Take, Records, Writes

LEMMA ApproveEffect ==
  ASSUME SwapTypeOK, NEW s \in Sides, Approve(s)
  PROVE  /\ rec[s].stage \in {"TAKE_RECEIVED", "READY_TO_LOCK"}
         /\ \E n : /\ Writes(s, n) /\ n.stage = rec[s].stage /\ n.ok
                   /\ n.contract = rec[s].contract /\ n.txid = rec[s].txid
                   /\ n.refund = rec[s].refund /\ n.redeemSince = rec[s].redeemSince
         /\ Running(s) /\ look' = [look EXCEPT ![s] = "stale"]
         /\ UNCHANGED <<world, work, seen, life>>
<1> DEFINE n == [rec[s] EXCEPT !.ok = TRUE]
<1>1. n \in Record /\ n.stage = rec[s].stage /\ n.ok
      /\ n.contract = rec[s].contract /\ n.txid = rec[s].txid
      /\ n.refund = rec[s].refund /\ n.redeemSince = rec[s].redeemSince
  BY RecTyped DEF Record
<1>2. rec' = [rec EXCEPT ![s] = n]
  BY DEF Approve, Records
<1> HIDE DEF n
<1>3. Writes(s, n)
  BY <1>1, <1>2 DEF Writes
<1> QED
  BY <1>1, <1>3 DEF Approve, Records

LEMMA CancelEffect ==
  ASSUME SwapTypeOK, NEW s \in Sides, Cancel(s)
  PROVE  /\ MayCancel(rec[s])
         /\ \E n : Writes(s, n) /\ Keeps(rec[s], n) /\ n.stage = CancelStage(rec[s])
         /\ Running(s) /\ Stir /\ Tells(s, {"cancel"})
         /\ UNCHANGED <<now, chain, rogue, con, pend, shown, accepted, work, seen, life>>
<1> DEFINE n == [rec[s] EXCEPT !.stage = CancelStage(rec[s])]
<1>1. n \in Record /\ n.stage = CancelStage(rec[s]) /\ Keeps(rec[s], n)
  BY RecTyped, StageSet DEF CancelStage, Stages, Final
<1>2. rec' = [rec EXCEPT ![s] = n]
  BY DEF Cancel, SwapTypeOK
<1> HIDE DEF n
<1>3. Writes(s, n)
  BY <1>1, <1>2 DEF Writes
<1>4. Tells(s, {"cancel"})
  BY DEF Cancel, Tells
<1> QED
  BY <1>1, <1>3, <1>4 DEF Cancel

LEMMA ReadEffect ==
  ASSUME SwapTypeOK, NEW s \in Sides, ReadStep(s)
  PROVE  /\ Running(s) /\ ~ Busy(s) /\ look' = [look EXCEPT ![s] = "stale"]
         /\ UNCHANGED <<world, work, life>> /\ seen' \in [Sides -> SUBSET Steps]
         /\ \E n :
              /\ Writes(s, n)
              /\ \/ s = "maker" /\ rec[s].stage = "NONE" /\ Fresh(n, "TAKE_RECEIVED")
                 \/ /\ s = "taker" /\ rec[s].stage = "TAKE_SENT" /\ Keeps(rec[s], n)
                    /\ n.stage = "CHECKING_THEIRS" /\ "lock1" \in sent["maker"]
                 \/ /\ s = "maker" /\ rec[s].stage = "LOCKED" /\ Keeps(rec[s], n)
                    /\ n.stage = "REDEEMING" /\ "lock2" \in sent["taker"]
                 \/ /\ ~ rec[s].txid /\ ~ rec[s].ok /\ rec[s].stage \notin Final \cup {"NONE"}
                    /\ Keeps(rec[s], n) /\ n.stage = "CANCELLED"
                 \/ n = rec[s]
<1> DEFINE r == rec[s]
<1>1. Running(s) /\ ~ Busy(s) /\ UNCHANGED <<world, work, life>>
  BY DEF ReadStep, Busy
<1>2. PICK m \in Unread(s) :
        /\ seen' = [seen EXCEPT ![s] = @ \cup {m}]
        /\ Records(s,
             CASE m = "take" /\ s = "maker" /\ r.stage = "NONE" ->
                    [NoSwap EXCEPT !.stage = "TAKE_RECEIVED", !.created = now]
               [] m = "lock1" /\ s = "taker" /\ r.stage = "TAKE_SENT" ->
                    [r EXCEPT !.theirs = TRUE, !.since = now, !.stage = "CHECKING_THEIRS"]
               [] m = "lock2" /\ s = "maker" /\ r.stage = "LOCKED" ->
                    [r EXCEPT !.theirs = TRUE, !.since = now, !.stage = "REDEEMING"]
               [] m = "cancel" /\ ~ r.txid /\ ~ r.ok /\ r.stage \notin Final \cup {"NONE"} ->
                    [r EXCEPT !.stage = "CANCELLED"]
               [] OTHER -> r)
  BY Zenon DEF ReadStep
<1>3. m \in sent[Other(s)] /\ m \in Steps
  BY <1>2 DEF Unread, SwapTypeOK, Other, Sides
<1>4. seen' \in [Sides -> SUBSET Steps] /\ look' = [look EXCEPT ![s] = "stale"]
  BY <1>2, <1>3 DEF Records, SwapTypeOK
<1>5. r \in Record /\ now \in Nat
  BY RecTyped
<1> DEFINE OnLock(st) == [r EXCEPT !.theirs = TRUE, !.since = now, !.stage = st]
<1>6. ASSUME NEW st \in Stages
      PROVE  OnLock(st) \in Record /\ Keeps(r, OnLock(st)) /\ OnLock(st).stage = st
  <2> DEFINE q1 == [r EXCEPT !.theirs = TRUE]
             q2 == [q1 EXCEPT !.since = now]
             w == OnLock(st)
  <2>1. w = [q2 EXCEPT !.stage = st]
    OBVIOUS
  <2>2. q1 \in Record /\ Keeps(r, q1)
    BY <1>5 DEF Record, Keeps
  <2> HIDE DEF q1
  <2>3. q2 \in Record /\ Keeps(r, q2)
    BY <1>5, <2>2 DEF Record, Keeps
  <2> HIDE DEF q2, w
  <2>4. w \in Record /\ Keeps(r, w) /\ w.stage = st
    BY <2>1, <2>3, StageSet DEF Keeps
  <2> QED
    BY <2>4 DEF w
<1>7. CASE m = "take" /\ s = "maker" /\ r.stage = "NONE"
  <2> DEFINE n == [NoSwap EXCEPT !.stage = "TAKE_RECEIVED", !.created = now]
  <2>1. Records(s, n)
    BY <1>2, <1>7, Zenon
  <2>2. n \in Record /\ Fresh(n, "TAKE_RECEIVED")
    BY <1>5, FreshSwap DEF Stages
  <2> HIDE DEF n
  <2> QED
    BY <1>1, <1>4, <1>7, <2>1, <2>2 DEF Records, Writes
<1>8. CASE m = "lock1" /\ s = "taker" /\ r.stage = "TAKE_SENT"
  <2> DEFINE n == OnLock("CHECKING_THEIRS")
  <2>1. Records(s, n)
    BY <1>2, <1>8, Zenon
  <2>2. n \in Record /\ Keeps(r, n) /\ n.stage = "CHECKING_THEIRS"
    BY <1>6 DEF Stages
  <2> HIDE DEF n
  <2> QED
    BY <1>1, <1>3, <1>4, <1>8, <2>1, <2>2 DEF Records, Writes, Other
<1>9. CASE m = "lock2" /\ s = "maker" /\ r.stage = "LOCKED"
  <2> DEFINE n == OnLock("REDEEMING")
  <2>1. Records(s, n)
    BY <1>2, <1>9, Zenon
  <2>2. n \in Record /\ Keeps(r, n) /\ n.stage = "REDEEMING"
    BY <1>6 DEF Stages
  <2> HIDE DEF n
  <2> QED
    BY <1>1, <1>3, <1>4, <1>9, <2>1, <2>2 DEF Records, Writes, Other
<1>10. CASE m = "cancel" /\ ~ r.txid /\ ~ r.ok /\ r.stage \notin Final \cup {"NONE"}
  <2> DEFINE n == [r EXCEPT !.stage = "CANCELLED"]
  <2>1. Records(s, n)
    BY <1>2, <1>10, Zenon
  <2>2. n \in Record /\ Keeps(r, n) /\ n.stage = "CANCELLED"
    BY <1>5, StageSet DEF Stages, Final
  <2> HIDE DEF n
  <2> QED
    BY <1>1, <1>4, <1>10, <2>1, <2>2 DEF Records, Writes
<1>11. CASE /\ ~ (m = "take" /\ s = "maker" /\ r.stage = "NONE")
            /\ ~ (m = "lock1" /\ s = "taker" /\ r.stage = "TAKE_SENT")
            /\ ~ (m = "lock2" /\ s = "maker" /\ r.stage = "LOCKED")
            /\ ~ (m = "cancel" /\ ~ r.txid /\ ~ r.ok /\ r.stage \notin Final \cup {"NONE"})
  <2>1. Records(s, r)
    BY <1>2, <1>11, Zenon
  <2>2. Writes(s, r)
    BY <1>5, <2>1 DEF Records, Writes
  <2> QED
    BY <1>1, <1>4, <2>2
<1> QED
  BY <1>7, <1>8, <1>9, <1>10, <1>11

\* The merge: what was decided meanwhile stands against the copy w.
Merged(s, n) ==
  LET w == work[s].s IN
  /\ n.contract = w.contract /\ n.txid = w.txid
  /\ n.refund = w.refund /\ n.redeemSince = w.redeemSince
  /\ w.ok => n.ok
  /\ n.ok => w.ok \/ rec[s].ok
  /\ \/ /\ n.stage = "REFUNDING" /\ work[s].was = "WAIT_PAYMENT" /\ rec[s].stage = "REFUNDING"
        /\ w.stage \in {"WAIT_PAYMENT", "LOCKED"}
     \/ n.stage = "CANCELLED" /\ rec[s].stage = "CANCELLED" /\ ~ w.txid
     \/ /\ n.stage = w.stage
        /\ rec[s].stage = "CANCELLED" => work[s].was = "CANCELLED" \/ w.txid
        /\ rec[s].stage = "REFUNDING" /\ work[s].was = "WAIT_PAYMENT" =>
             w.stage \notin {"WAIT_PAYMENT", "LOCKED"}

LEMMA StoreEffect ==
  ASSUME SwapTypeOK, NEW s \in Sides, Store(s)
  PROVE  /\ Running(s) /\ work[s].pc = "store" /\ UNCHANGED <<world, seen, life>>
         /\ work' = [work EXCEPT ![s] = NoWork]
         /\ \E n : /\ Writes(s, n) /\ Merged(s, n)
                   /\ look' = [look EXCEPT ![s] = IF @ = "looking" /\ n = rec[s] THEN "calm" ELSE "stale"]
<1> DEFINE w == work[s].s
           approved == rec[s].ok /\ ~ work[s].wasOk /\ w.stage = work[s].was
           cancelled == rec[s].stage = "CANCELLED" /\ work[s].was # "CANCELLED" /\ ~ w.txid
           withdrawn == /\ work[s].was = "WAIT_PAYMENT" /\ rec[s].stage = "REFUNDING"
                        /\ w.stage \in {"WAIT_PAYMENT", "LOCKED"}
           ok2 == w.ok \/ approved
           st == IF withdrawn THEN "REFUNDING" ELSE IF cancelled THEN "CANCELLED" ELSE w.stage
           q == [w EXCEPT !.ok = ok2]
           n == Merge(s)
<1>1. w \in Record /\ rec[s] \in Record
  BY RecTyped
<1>2. n = [q EXCEPT !.stage = st]
  BY DEF Merge
<1>3. ok2 \in BOOLEAN /\ (w.ok => ok2) /\ (ok2 => w.ok \/ rec[s].ok)
  BY <1>1 DEF Record
<1>4. st \in Stages /\ (\/ withdrawn /\ st = "REFUNDING"
                        \/ ~ withdrawn /\ cancelled /\ st = "CANCELLED"
                        \/ ~ withdrawn /\ ~ cancelled /\ st = w.stage)
  BY <1>1 DEF Record, Stages, Final
<1>5. ASSUME SwapTypeOK, Store(s)
      PROVE  /\ rec' = [rec EXCEPT ![s] = n] /\ Running(s) /\ work[s].pc = "store"
             /\ UNCHANGED <<world, seen, life>>
             /\ work' = [work EXCEPT ![s] = NoWork]
             /\ look' = [look EXCEPT ![s] = IF @ = "looking" /\ n = rec[s] THEN "calm" ELSE "stale"]
  BY <1>5 DEF Store
<1> HIDE DEF ok2
<1>6. q \in Record /\ q.stage = w.stage /\ q.ok = ok2 /\ q.contract = w.contract /\ q.txid = w.txid
      /\ q.refund = w.refund /\ q.redeemSince = w.redeemSince
  BY <1>1, <1>3 DEF Record
<1> HIDE DEF q, st, n
<1>7. n \in Record /\ n.stage = st /\ Keeps(q, n)
  BY <1>2, <1>4, <1>6, StageSet
<1>8. Merged(s, n)
  BY <1>3, <1>4, <1>6, <1>7 DEF Merged, Keeps
<1> QED
  BY <1>5, <1>7, <1>8 DEF Writes

----------------------------------------------------------------------------

LEMMA PayEffect ==
  ASSUME SwapTypeOK, NEW s \in Sides, Pay(s)
  PROVE  /\ con[s].st = "unpaid" /\ rec[s].stage = "WAIT_PAYMENT" /\ s \notin rogue /\ Stir
         /\ UNCHANGED <<now, chain, rogue, pend, shown, sent, accepted, rec, work, seen, life>>
         /\ con' \in [Sides -> ConSet] /\ con'[s].st = "sent" /\ con'[s].lock = con[s].lock
         /\ \A t \in Sides \ {s} : con'[t] = con[t]
<1>1. PICK good \in BOOLEAN : con' = [con EXCEPT ![s].st = "sent", ![s].good = good]
  BY DEF Pay
<1> DEFINE q == [con EXCEPT ![s].st = "sent"]
<1>2. con' = [q EXCEPT ![s].good = good]
  BY <1>1
<1>3. con \in [Sides -> ConSet]
  BY DEF SwapTypeOK, ConSet
<1>4. q \in [Sides -> ConSet] /\ q[s].st = "sent" /\ q[s].lock = con[s].lock
      /\ \A t \in Sides \ {s} : q[t] = con[t]
  BY <1>3 DEF ConSet
<1> HIDE DEF q
<1>5. con' \in [Sides -> ConSet] /\ con'[s].st = "sent" /\ con'[s].lock = con[s].lock
      /\ \A t \in Sides \ {s} : con'[t] = con[t]
  BY <1>2, <1>4 DEF ConSet
<1> QED
  BY <1>5 DEF Pay

LEMMA ConfirmEffect ==
  ASSUME SwapTypeOK, NEW s \in Sides, ConfirmSpend(s)
  PROVE  /\ con[s].st = "open" /\ Stir
         /\ UNCHANGED <<now, chain, rogue, shown, sent, accepted, rec, work, seen, life>>
         /\ con' \in [Sides -> ConSet] /\ con'[s].lock = con[s].lock /\ con'[s].good = con[s].good
         /\ \/ "redeem" \in pend[s] /\ con'[s].st = "redeemed"
            \/ "refund" \in pend[s] /\ con'[s].st = "refunded"
         /\ \A t \in Sides \ {s} : con'[t] = con[t] /\ pend'[t] = pend[t]
         /\ pend'[s] = {} /\ pend' \in [Sides -> SUBSET {"redeem", "refund"}]
<1>1. PICK k \in pend[s] : con' = [con EXCEPT ![s].st = IF k = "redeem" THEN "redeemed" ELSE "refunded"]
  BY DEF ConfirmSpend
<1> DEFINE st == IF k = "redeem" THEN "redeemed" ELSE "refunded"
<1>2. con \in [Sides -> ConSet] /\ k \in {"redeem", "refund"}
  BY DEF SwapTypeOK, ConSet
<1>3. st \in {"redeemed", "refunded"} /\ (st = "redeemed" <=> k = "redeem") /\ con' = [con EXCEPT ![s].st = st]
  BY <1>1
<1> HIDE DEF st
<1>4. con' \in [Sides -> ConSet] /\ con'[s].lock = con[s].lock /\ con'[s].good = con[s].good
      /\ con'[s].st = st /\ \A t \in Sides \ {s} : con'[t] = con[t]
  BY <1>2, <1>3 DEF ConSet, Spent
<1>5. pend' = [pend EXCEPT ![s] = {}] /\ con[s].st = "open" /\ Stir
      /\ UNCHANGED <<now, chain, rogue, shown, sent, accepted, rec, work, seen, life>>
  BY DEF ConfirmSpend
<1>6. pend'[s] = {} /\ pend' \in [Sides -> SUBSET {"redeem", "refund"}]
      /\ \A t \in Sides \ {s} : pend'[t] = pend[t]
  BY <1>5 DEF SwapTypeOK
<1> QED
  BY <1>2, <1>3, <1>4, <1>5, <1>6

LEMMA TypesInit == Init => SwapTypeOK
<1> SUFFICES ASSUME Init PROVE SwapTypeOK
  OBVIOUS
<1>1. chain \in [Sides -> Kinds] /\ rogue \subseteq Sides
  BY SwapAssumption DEF Init
<1>2. NoSwap \in Record
  BY DEF NoSwap, Record, Stages
<1>3. NoWork \in [pc : {"idle", "refund", "spent", "store"}, was : Stages, wasOk : BOOLEAN, s : Record]
  BY <1>2 DEF NoWork, Stages
<1>4. NoContract \in [st : {"none", "unpaid", "sent", "open"} \cup Spent, lock : Nat, good : BOOLEAN]
  BY DEF NoContract
<1> QED
  BY <1>1, <1>2, <1>3, <1>4 DEF Init, SwapTypeOK

LEMMA TypesNext == SwapTypeOK /\ [Next]_vars => SwapTypeOK'
<1> SUFFICES ASSUME SwapTypeOK, [Next]_vars PROVE SwapTypeOK'
  OBVIOUS
<1>1. NoWork \in WorkSet
  BY DEF NoWork, NoSwap, Stages, Record, WorkSet
<1>2. Stir => look' \in [Sides -> {"stale", "looking", "calm"}]
  BY DEF Stir
<1>3. ASSUME NEW s \in Sides, Tick(s) PROVE SwapTypeOK'
  BY <1>3, TickEffect, RoundTypes
<1>4. ASSUME NEW s \in Sides, Store(s) PROVE SwapTypeOK'
  <2>1. PICK n : /\ Writes(s, n)
                 /\ look' = [look EXCEPT ![s] = IF @ = "looking" /\ n = rec[s] THEN "calm" ELSE "stale"]
    BY <1>4, StoreEffect
  <2>2. rec' \in [Sides -> Record] /\ look' \in [Sides -> {"stale", "looking", "calm"}]
    BY <2>1, WritesFacts DEF SwapTypeOK
  <2>3. work' = [work EXCEPT ![s] = NoWork]
    BY <1>4 DEF Store
  <2>4. work' \in [Sides -> WorkSet]
    BY <1>1, <2>3 DEF SwapTypeOK, WorkSet
  <2> QED
    BY <1>4, <2>2, <2>4, StoreEffect DEF SwapTypeOK, world, life, WorkSet
<1>5. ASSUME NEW s \in Sides, ReadStep(s) PROVE SwapTypeOK'
  <2>1. rec' \in [Sides -> Record]
    BY <1>5, ReadEffect, WritesFacts
  <2> QED
    BY <1>5, <2>1, ReadEffect DEF SwapTypeOK, world, life
<1>6. ASSUME NEW s \in Sides, Crash(s) PROVE SwapTypeOK'
  BY <1>1, <1>6 DEF Crash, SwapTypeOK, world, WorkSet
<1>7. ASSUME NEW s \in Sides, Start(s) PROVE SwapTypeOK'
  BY <1>7 DEF Start, SwapTypeOK, world
<1>8. ASSUME NEW s \in Sides, ConfirmFunding(s) PROVE SwapTypeOK'
  <2>1. con' \in [Sides -> ConSet]
    BY <1>8 DEF ConfirmFunding, SwapTypeOK, ConSet
  <2>2. Stir /\ UNCHANGED <<now, chain, rogue, pend, shown, sent, accepted, rec, work, seen, life>>
    BY <1>8 DEF ConfirmFunding
  <2> QED
    BY <1>2, <2>1, <2>2 DEF SwapTypeOK, life, ConSet
<1>9. ASSUME NEW s \in Sides, ConfirmSpend(s) PROVE SwapTypeOK'
  BY <1>2, <1>9, ConfirmEffect DEF SwapTypeOK, life, ConSet
<1>10. ASSUME NEW s \in Sides, Rogue(s) PROVE SwapTypeOK'
  <2>1. CASE RogueLock(s)
    <3>1. now + TAKER_LOCK \in Nat /\ now + MAKER_LOCK \in Nat /\ now + 1 \in Nat
      BY SwapAssumption DEF SwapTypeOK
    <3>2. con' \in [Sides -> ConSet] /\ sent' \in [Sides -> SUBSET Steps]
      BY <2>1, <3>1 DEF RogueLock, SwapTypeOK, ConSet, Steps
    <3> QED
      BY <1>2, <1>10, <2>1, <3>2 DEF RogueLock, Rogue, SwapTypeOK, life, ConSet
  <2>2. CASE RogueTells(s)
    BY <1>2, <1>10, <2>2 DEF RogueTells, Rogue, SwapTypeOK, life, Steps
  <2>3. CASE RogueSpends(s)
    BY <1>2, <1>10, <2>3 DEF RogueSpends, SpendContract, Mine, Rogue, SwapTypeOK, life
  <2> QED
    BY <1>10, <2>1, <2>2, <2>3 DEF Rogue
<1>11. ASSUME Take PROVE SwapTypeOK'
  <2>1. rec' \in [Sides -> Record]
    BY <1>11, TakeEffect, WritesFacts DEF Sides
  <2>2. UNCHANGED <<world, work, seen, life>> /\ look' = [look EXCEPT !["taker"] = "stale"]
    BY <1>11, TakeEffect
  <2> QED
    BY <2>1, <2>2 DEF SwapTypeOK, world, life
<1>12. ASSUME AcceptInvite PROVE SwapTypeOK'
  BY <1>2, <1>12 DEF AcceptInvite, SwapTypeOK, life
<1>13. ASSUME NEW s \in Sides, Approve(s) PROVE SwapTypeOK'
  <2>1. rec' \in [Sides -> Record]
    BY <1>13, ApproveEffect, WritesFacts
  <2>2. UNCHANGED <<world, work, seen, life>> /\ look' = [look EXCEPT ![s] = "stale"]
    BY <1>13, ApproveEffect
  <2> QED
    BY <2>1, <2>2 DEF SwapTypeOK, world, life
<1>14. ASSUME NEW s \in Sides, Cancel(s) PROVE SwapTypeOK'
  <2>1. rec' \in [Sides -> Record]
    BY <1>14, CancelEffect, WritesFacts
  <2>2. sent' \in [Sides -> SUBSET Steps]
    <3>1. PICK m \in SUBSET {"cancel"} : sent' = [sent EXCEPT ![s] = @ \cup m]
      BY <1>14, CancelEffect DEF Tells
    <3> QED
      BY <3>1 DEF SwapTypeOK, Steps
  <2> QED
    BY <1>2, <1>14, <2>1, <2>2, CancelEffect DEF SwapTypeOK, life
<1>15. ASSUME NEW s \in Sides, Pay(s) PROVE SwapTypeOK'
  BY <1>2, <1>15, PayEffect DEF SwapTypeOK, life, ConSet
<1>16. ASSUME Advance PROVE SwapTypeOK'
  BY <1>2, <1>16 DEF Advance, SwapTypeOK
<1>17. CASE UNCHANGED vars
  BY <1>17 DEF vars, SwapTypeOK
<1> QED
  BY <1>3, <1>4, <1>5, <1>6, <1>7, <1>8, <1>9, <1>10, <1>11, <1>12, <1>13, <1>14, <1>15, <1>16, <1>17
     DEF Next, Engine, Screen, Block

\* The variables keep their types.  Every round, every press on the screen, a
\* process that ends in the middle of it and a side that does as it pleases
\* leave records, copies and contracts that the code can read.
THEOREM SwapTypesCorrect == Spec => []SwapTypeOK
<1>1. Init => SwapTypeOK
  BY TypesInit
<1>2. SwapTypeOK /\ [Next]_vars => SwapTypeOK'
  BY TypesNext
<1> QED
  BY <1>1, <1>2, PTL DEF Spec

----------------------------------------------------------------------------
(* One side: its record and the copy a round works on.                     *)

\* The stages of a taker and of a maker.
Roles(s) == IF s = "maker" THEN Stages \ ({"INVITING", "TAKE_SENT"} \cup Checking)
                           ELSE Stages \ {"TAKE_RECEIVED"}

\* A contract was approved; a funding and a refund are of a contract.
RecordOK(s, r) ==
  /\ r.stage \in Roles(s)
  /\ r.contract => r.ok
  /\ r.txid \/ r.refund => r.contract
  /\ r.stage \in Early => ~ r.contract
  /\ r.stage \in Holding => r.contract

\* Where a round that starts in stage a may end.
Later(a, b) ==
  /\ a \notin Early => b \notin Early
  /\ a \notin Early \cup {"WAIT_PAYMENT"} => b # "WAIT_PAYMENT"
  /\ a = "WAIT_PAYMENT" => b \in {"WAIT_PAYMENT", "LOCKED", "REFUNDING"}
  /\ a = "REFUNDING" => b \in {"REFUNDING", "REDEEMING"} \cup Final

\* What happens to a record while a round works on its copy: nothing, or it is
\* called off, which is refused to one whose lock is approved unless it waits
\* for its payment.
CopyOK(s) ==
  LET w == work[s] IN
  /\ s \notin rogue /\ up[s]
  /\ RecordOK(s, w.s) /\ w.was \notin Final \cup {"NONE"} /\ Later(w.was, w.s.stage)
  /\ w.s.contract => rec[s].ok
  /\ \/ rec[s].stage = w.was
     \/ rec[s].stage = "CANCELLED" /\ ~ rec[s].ok
     \/ rec[s].stage = "REFUNDING" /\ w.was = "WAIT_PAYMENT"
  /\ w.pc \in {"refund", "spent"} => w.was \in {"LOCKED", "REFUNDING"} /\ w.s.stage = w.was

SideOK(s) ==
  /\ RecordOK(s, rec[s])
  /\ IF Busy(s) THEN CopyOK(s) ELSE work[s] = NoWork

SideInv == \A s \in Sides : SideOK(s)

LEMMA SideInit == Init => SideInv
<1> SUFFICES ASSUME Init, NEW s \in Sides PROVE SideOK(s)
  BY DEF SideInv
<1>1. rec[s] = NoSwap /\ work[s] = NoWork
  BY DEF Init
<1>2. NoWork.pc = "idle" /\ NoSwap.stage = "NONE" /\ ~ NoSwap.contract /\ ~ NoSwap.txid /\ ~ NoSwap.refund
  BY DEF NoWork, NoSwap
<1>3. "NONE" \in Roles(s)
  BY DEF Roles, Stages, Checking
<1> QED
  BY <1>1, <1>2, <1>3 DEF SideOK, Busy, RecordOK, Early, Holding

\* A side whose record and copy stay.
LEMMA SideStays ==
  ASSUME NEW s \in Sides, SideOK(s), rec'[s] = rec[s], work'[s] = work[s], up'[s] = up[s], rogue' = rogue
  PROVE  SideOK(s)'
  BY DEF SideOK, CopyOK, Busy

\* A step of a round.
LEMMA CopySide ==
  ASSUME SwapTypeOK, NEW s \in Sides, SideOK(s), RoundStep(s),
         NEW pc \in {"refund", "spent", "store"}, NEW w, Goes(s, pc, w),
         RecordOK(s, w), Was(s) \notin Final \cup {"NONE"}, Later(Was(s), w.stage),
         w.contract => rec[s].ok,
         pc \in {"refund", "spent"} => Was(s) \in {"LOCKED", "REFUNDING"} /\ w.stage = Was(s)
  PROVE  SideOK(s)'
<1>1. /\ work'[s].pc = pc /\ work'[s].was = Was(s) /\ work'[s].s = w
      /\ rec' = rec /\ rogue' = rogue /\ up' = up /\ s \notin rogue /\ up[s]
  BY GoesFacts DEF RoundStep, Running
<1>2. \/ rec[s].stage = Was(s)
      \/ rec[s].stage = "CANCELLED" /\ ~ rec[s].ok
      \/ rec[s].stage = "REFUNDING" /\ Was(s) = "WAIT_PAYMENT"
  BY DEF SideOK, CopyOK, Was
<1>3. RecordOK(s, rec[s])
  BY DEF SideOK
<1> HIDE DEF RecordOK, Later, Was
<1>4. CopyOK(s)'
  BY <1>1, <1>2 DEF CopyOK, RecordOK, Later
<1> QED
  BY <1>1, <1>3, <1>4 DEF SideOK, Busy, RecordOK

LEMMA RoundSide ==
  ASSUME SwapTypeOK, NEW s \in Sides, SideOK(s), RoundKinds(s)
  PROVE  SideOK(s)'
<1> DEFINE r == rec[s]
           u == work[s].s
<1> USE DEF Later, Was
<1>1. RoundStep(s) /\ RecordOK(s, r)
  BY RoundFacts DEF SideOK
<1>2. ~ Busy(s) => Was(s) = r.stage
  BY DEF Was
<1>3. Busy(s) => CopyOK(s)
  BY DEF SideOK
<1>4. CASE EarlyRound(s)
  <2>1. PICK w : /\ Goes(s, "store", w) /\ w.stage \in EarlyNext(r.stage)
                 /\ w.contract = r.contract /\ w.txid = r.txid /\ w.refund = r.refund
    BY <1>4 DEF EarlyRound
  <2>2. ~ Busy(s) /\ r.stage \in Early \ {"NONE"}
    BY <1>4 DEF EarlyRound
  <2>3. ~ r.contract /\ ~ r.txid /\ ~ r.refund
    BY <1>1, <2>2 DEF RecordOK, Early
  <2>4. w.stage \in Roles(s)
    BY <1>1, <2>1, <2>2 DEF RecordOK, Roles, EarlyNext, Stages, Final, Early, Checking
  <2>5. RecordOK(s, w)
    BY <1>1, <2>1, <2>2, <2>3, <2>4 DEF RecordOK, EarlyNext, Early, Holding
  <2> QED
    BY <1>1, <1>2, <2>1, <2>2, <2>3, <2>5, CopySide DEF Early, Final
<1>5. CASE FundRound(s)
  <2>1. PICK w : /\ Goes(s, "store", w) /\ w.stage \in {"WAIT_PAYMENT", "LOCKED"}
                 /\ w.ok /\ w.contract /\ w.refund = r.refund
    BY <1>5 DEF FundRound
  <2>2. ~ Busy(s) /\ r.stage \in {"TAKE_RECEIVED", "READY_TO_LOCK"} /\ r.ok
    BY <1>5 DEF FundRound
  <2>3. RecordOK(s, w)
    BY <2>1 DEF RecordOK, Roles, Stages, Early, Holding, Checking
  <2> QED
    BY <1>1, <1>2, <2>1, <2>2, <2>3, CopySide DEF Early, Final
<1>6. CASE PaymentRound(s)
  <2>1. PICK w : /\ Goes(s, "store", w) /\ w.stage \in {"WAIT_PAYMENT", "LOCKED", "REFUNDING"}
                 /\ w.ok = r.ok /\ w.contract = r.contract
    BY <1>6 DEF PaymentRound
  <2>2. ~ Busy(s) /\ r.stage = "WAIT_PAYMENT"
    BY <1>6 DEF PaymentRound
  <2>3. r.contract /\ r.ok
    BY <1>1, <2>2 DEF RecordOK, Holding
  <2>4. RecordOK(s, w)
    BY <2>1, <2>3 DEF RecordOK, Roles, Stages, Early, Holding, Checking
  <2> QED
    BY <1>1, <1>2, <2>1, <2>2, <2>3, <2>4, CopySide DEF Early, Final
<1>7. CASE WatchRound(s)
  <2>0. PICK w : /\ Keeps(r, w)
                 /\ \/ Goes(s, "refund", w) /\ w.stage = r.stage
                    \/ Goes(s, "store", w) /\ w.stage \in {"REDEEMING", "REFUNDED"}
    BY <1>7 DEF WatchRound
  <2>1. PICK pc \in {"refund", "store"} :
          /\ Goes(s, pc, w) /\ Keeps(r, w)
          /\ pc = "refund" => w.stage = r.stage
          /\ pc = "store" => w.stage \in {"REDEEMING", "REFUNDED"}
    BY <2>0
  <2>2. ~ Busy(s) /\ r.stage \in {"LOCKED", "REFUNDING"}
    BY <1>7 DEF WatchRound
  <2>3. r.contract /\ r.ok
    BY <1>1, <2>2 DEF RecordOK, Holding
  <2>4. RecordOK(s, w)
    BY <1>1, <2>1, <2>2, <2>3 DEF RecordOK, Keeps, Roles, Stages, Final, Early, Holding, Checking
  <2> QED
    BY <1>1, <1>2, <2>1, <2>2, <2>3, <2>4, CopySide DEF Early, Final, Keeps
<1>8. CASE RedeemRound(s) \/ LookRound(s)
  <2>1. PICK w : /\ Goes(s, "store", w) /\ w.stage \in {"REDEEMING", "REFUNDING", "DONE", "FAILED"}
                 /\ w.ok = r.ok /\ w.contract = r.contract /\ w.txid = r.txid /\ w.refund = r.refund
    BY <1>8 DEF RedeemRound, LookRound
  <2>2. ~ Busy(s) /\ r.stage = "REDEEMING"
    BY <1>8 DEF RedeemRound, LookRound
  <2>3. r.contract /\ r.ok
    BY <1>1, <2>2 DEF RecordOK, Holding
  <2>4. RecordOK(s, w)
    BY <1>1, <2>1, <2>2, <2>3 DEF RecordOK, Roles, Stages, Final, Early, Holding, Checking
  <2> QED
    BY <1>1, <1>2, <2>1, <2>2, <2>3, <2>4, CopySide DEF Early, Final
<1>9. CASE RefundRound(s) \/ NoRefundRound(s) \/ RefundFailedRound(s)
  <2>0. PICK w : /\ w.ok = u.ok /\ w.contract = u.contract
                 /\ \/ Goes(s, "spent", w) /\ w.stage = u.stage
                    \/ /\ Goes(s, "store", w)
                       /\ w.stage \in {u.stage, "REFUNDING", "REFUNDED", "CANCELLED", "DONE"}
    <3>1. CASE RefundRound(s)
      BY <3>1 DEF RefundRound
    <3>2. CASE NoRefundRound(s)
      BY <3>2 DEF NoRefundRound
    <3>3. CASE RefundFailedRound(s)
      BY <3>3 DEF RefundFailedRound, Keeps
    <3> QED
      BY <1>9, <3>1, <3>2, <3>3
  <2>1. PICK pc \in {"spent", "store"} :
          /\ Goes(s, pc, w) /\ w.stage \in {u.stage, "REFUNDING", "REFUNDED", "CANCELLED", "DONE"}
          /\ w.ok = u.ok /\ w.contract = u.contract
          /\ pc = "spent" => w.stage = u.stage
    BY <2>0
  <2>2. Busy(s) /\ work[s].pc \in {"refund", "spent"}
    BY <1>9 DEF RefundRound, NoRefundRound, RefundFailedRound, Busy
  <2>3. /\ RecordOK(s, u) /\ work[s].was \in {"LOCKED", "REFUNDING"} /\ u.stage = work[s].was
        /\ u.contract => rec[s].ok
    BY <1>3, <2>2 DEF CopyOK
  <2>4. u.contract /\ u.ok
    BY <2>3 DEF RecordOK, Holding
  <2>5. RecordOK(s, w)
    BY <2>1, <2>3, <2>4 DEF RecordOK, Roles, Stages, Final, Early, Holding, Checking
  <2>6. Was(s) = work[s].was
    BY <2>2 DEF Was
  <2> QED
    BY <1>1, <2>1, <2>3, <2>4, <2>5, <2>6, CopySide DEF Early, Final
<1> QED
  BY <1>4, <1>5, <1>6, <1>7, <1>8, <1>9 DEF RoundKinds

\* What the stage of a record that was called off may still become.
CalledOff(a, b) ==
  /\ a \in Final => b = a
  /\ a = "REFUNDING" => b \in Final \cup {"REFUNDING", "REDEEMING"}

LEMMA StoreSide ==
  ASSUME SwapTypeOK, NEW s \in Sides, SideOK(s), Store(s)
  PROVE  SideOK(s)' /\ CalledOff(rec[s].stage, rec'[s].stage)
<1> DEFINE w == work[s].s
<1>1. PICK n : Writes(s, n) /\ Merged(s, n)
  BY StoreEffect
<1>2. rec'[s] = n /\ work'[s] = NoWork
  BY <1>1, WritesFacts, StoreEffect DEF SwapTypeOK
<1>3. CopyOK(s) /\ RecordOK(s, w) /\ RecordOK(s, rec[s])
  BY StoreEffect DEF SideOK, CopyOK, Busy
<1>4. RecordOK(s, n)
  <2>1. n.stage \in Roles(s)
    BY <1>1, <1>3 DEF Merged, RecordOK, Roles, Stages, Final, Checking
  <2> QED
    BY <1>1, <1>3, <2>1 DEF Merged, RecordOK, Early, Holding
<1>5. CalledOff(rec[s].stage, n.stage)
  <2>1. CASE rec[s].stage \in Final
    <3>1. rec[s].stage = "CANCELLED" /\ ~ rec[s].ok /\ work[s].was # "CANCELLED"
      BY <1>3, <2>1 DEF CopyOK, Final
    <3>2. ~ w.txid
      BY <1>3, <3>1 DEF CopyOK, RecordOK
    <3> QED
      BY <1>1, <3>1, <3>2 DEF Merged, CalledOff
  <2>2. CASE rec[s].stage = "REFUNDING"
    <3>1. work[s].was \in {"REFUNDING", "WAIT_PAYMENT"} /\ Later(work[s].was, w.stage)
      BY <1>3, <2>2 DEF CopyOK
    <3> QED
      BY <1>1, <2>2, <3>1 DEF Merged, CalledOff, Later, Final
  <2> QED
    BY <2>1, <2>2 DEF CalledOff
<1> QED
  BY <1>2, <1>4, <1>5 DEF SideOK, Busy, NoWork, RecordOK

LEMMA WritesSide ==
  ASSUME SwapTypeOK, NEW s \in Sides, SideOK(s), NEW n, Writes(s, n), RecordOK(s, n),
         UNCHANGED <<work, up, rogue>>,
         Busy(s) => /\ work[s].s.contract => n.ok
                    /\ \/ n.stage = rec[s].stage /\ (n.ok => rec[s].ok \/ n.stage # "CANCELLED")
                       \/ n.stage = "CANCELLED" /\ ~ n.ok
                       \/ n.stage = "REFUNDING" /\ rec[s].stage = "WAIT_PAYMENT"
  PROVE  SideOK(s)'
<1>1. rec'[s] = n
  BY WritesFacts
<1>2. CASE Busy(s)
  <2>1. CopyOK(s) /\ work'[s] = work[s] /\ up' = up /\ rogue' = rogue
    BY <1>2 DEF SideOK
  <2>2. \/ n.stage = work[s].was
        \/ n.stage = "CANCELLED" /\ ~ n.ok
        \/ n.stage = "REFUNDING" /\ work[s].was = "WAIT_PAYMENT"
    BY <1>2, <2>1 DEF CopyOK, Final
  <2>3. CopyOK(s)'
    BY <1>1, <1>2, <2>1, <2>2 DEF CopyOK
  <2> QED
    BY <1>1, <1>2, <2>3 DEF SideOK, Busy, RecordOK
<1>3. CASE ~ Busy(s)
  BY <1>1, <1>3 DEF SideOK, Busy, RecordOK
<1> QED
  BY <1>2, <1>3

LEMMA OtherSides ==
  ASSUME SwapTypeOK, SideInv, NEW s \in Sides, UNCHANGED rogue,
         \A t \in Sides \ {s} : rec'[t] = rec[t] /\ work'[t] = work[t] /\ up'[t] = up[t],
         SideOK(s)'
  PROVE  SideInv'
<1> SUFFICES ASSUME NEW t \in Sides \ {s} PROVE SideOK(t)'
  BY DEF SideInv
<1> QED
  BY SideStays DEF SideInv

LEMMA SideNext ==
  ASSUME SwapTypeOK, SideInv, [Next]_vars
  PROVE  SideInv' /\ \A s \in Sides : CalledOff(rec[s].stage, rec'[s].stage)
<1> DEFINE Off == \A s \in Sides : CalledOff(rec[s].stage, rec'[s].stage)
<1>1. UNCHANGED rec => Off
  BY DEF CalledOff
<1>2. UNCHANGED <<rec, work, up, rogue>> => SideInv' /\ Off
  <2> SUFFICES ASSUME UNCHANGED <<rec, work, up, rogue>> PROVE SideInv'
    BY <1>1
  <2> QED
    BY SideStays DEF SideInv
<1>3. ASSUME NEW s \in Sides, Writes(s, rec'[s]) PROVE CalledOff(rec[s].stage, rec'[s].stage) => Off
  BY <1>3, WritesFacts DEF CalledOff
<1>4. ASSUME NEW s \in Sides, Tick(s) PROVE SideInv' /\ Off
  <2>1. RoundKinds(s) /\ SideOK(s)
    BY <1>4, TickEffect DEF SideInv
  <2>2. SideOK(s)' /\ UNCHANGED <<rec, up, rogue>>
    BY <2>1, RoundSide, RoundFacts DEF RoundStep
  <2>3. \A t \in Sides \ {s} : work'[t] = work[t]
    BY <2>1, RoundFacts, GoesFacts
  <2> QED
    BY <1>1, <2>2, <2>3, OtherSides
<1>5. ASSUME NEW s \in Sides, Store(s) PROVE SideInv' /\ Off
  <2>1. SideOK(s)' /\ CalledOff(rec[s].stage, rec'[s].stage)
    BY <1>5, StoreSide DEF SideInv
  <2>2. PICK n : Writes(s, n)
    BY <1>5, StoreEffect
  <2>3. \A t \in Sides \ {s} : rec'[t] = rec[t] /\ work'[t] = work[t] /\ up'[t] = up[t]
    BY <1>5, <2>2, WritesFacts, StoreEffect DEF life, SwapTypeOK
  <2>4. UNCHANGED rogue
    BY <1>5, StoreEffect DEF world
  <2> QED
    BY <2>1, <2>3, <2>4, OtherSides DEF CalledOff
<1>6. ASSUME NEW s \in Sides, ReadStep(s) PROVE SideInv' /\ Off
  <2>1. PICK n :
              /\ Writes(s, n)
              /\ \/ s = "maker" /\ rec[s].stage = "NONE" /\ Fresh(n, "TAKE_RECEIVED")
                 \/ /\ s = "taker" /\ rec[s].stage = "TAKE_SENT" /\ Keeps(rec[s], n)
                    /\ n.stage = "CHECKING_THEIRS"
                 \/ /\ s = "maker" /\ rec[s].stage = "LOCKED" /\ Keeps(rec[s], n)
                    /\ n.stage = "REDEEMING"
                 \/ /\ ~ rec[s].ok /\ rec[s].stage \notin Final \cup {"NONE"}
                    /\ Keeps(rec[s], n) /\ n.stage = "CANCELLED"
                 \/ n = rec[s]
    BY <1>6, ReadEffect
  <2>2. ~ Busy(s) /\ UNCHANGED <<world, work, life>>
    BY <1>6, ReadEffect
  <2>3. SideOK(s) /\ RecordOK(s, rec[s])
    BY DEF SideInv, SideOK
  <2>4. RecordOK(s, n)
    BY <2>1, <2>3 DEF RecordOK, Fresh, Keeps, Roles, Stages, Final, Early, Holding, Checking
  <2>5. SideOK(s)'
    BY <2>1, <2>2, <2>3, <2>4, WritesSide DEF world, life
  <2>6. CalledOff(rec[s].stage, n.stage)
    BY <2>1, <2>3 DEF CalledOff, RecordOK, Holding, Final
  <2> QED
    BY <2>1, <2>2, <2>5, <2>6, WritesFacts, OtherSides DEF world, life, CalledOff
<1>7. ASSUME NEW s \in Sides, Crash(s) PROVE SideInv' /\ Off
  <2>1. UNCHANGED <<rec, rogue>> /\ work' = [work EXCEPT ![s] = NoWork] /\ up' = [up EXCEPT ![s] = FALSE]
    BY <1>7 DEF Crash, world
  <2>2. work'[s] = NoWork /\ NoWork.pc = "idle" /\ RecordOK(s, rec[s])
    BY <2>1 DEF SwapTypeOK, NoWork, SideInv, SideOK
  <2>3. SideOK(s)'
    BY <2>1, <2>2 DEF SideOK, Busy, RecordOK
  <2> QED
    BY <1>1, <2>1, <2>3, OtherSides DEF SwapTypeOK
<1>8. ASSUME NEW s \in Sides, Start(s) PROVE SideInv' /\ Off
  <2>1. UNCHANGED <<rec, rogue, work>> /\ up' = [up EXCEPT ![s] = TRUE] /\ ~ up[s]
    BY <1>8 DEF Start, world
  <2>2. ~ Busy(s) /\ SideOK(s)
    BY <2>1 DEF SideInv, SideOK, CopyOK
  <2>3. SideOK(s)'
    BY <2>1, <2>2 DEF SideOK, Busy, RecordOK
  <2> QED
    BY <1>1, <2>1, <2>3, OtherSides DEF SwapTypeOK
<1>9. ASSUME NEW s \in Sides, ConfirmFunding(s) \/ ConfirmSpend(s) \/ Rogue(s) \/ Pay(s)
      PROVE  SideInv' /\ Off
  BY <1>2, <1>9, PayEffect DEF ConfirmFunding, ConfirmSpend, Rogue, life
<1>10. ASSUME Take PROVE SideInv' /\ Off
  <2>1. PICK n : Writes("taker", n) /\ Fresh(n, "INVITING")
    BY <1>10, TakeEffect
  <2>2. rec["taker"].stage = "NONE" /\ UNCHANGED <<work, up, rogue>>
    BY <1>10, TakeEffect DEF world, life
  <2>3. SideOK("taker") /\ "taker" \in Sides
    BY DEF SideInv, Sides
  <2>4. RecordOK("taker", n)
    BY <2>1 DEF RecordOK, Fresh, Roles, Stages, Early, Holding, Checking
  <2>5. ~ Busy("taker")
    BY <2>2, <2>3 DEF SideOK, CopyOK, Final
  <2>6. SideOK("taker")'
    BY <2>1, <2>2, <2>3, <2>4, <2>5, WritesSide
  <2>7. CalledOff(rec["taker"].stage, n.stage)
    BY <2>2 DEF CalledOff, Final
  <2> QED
    BY <2>1, <2>2, <2>3, <2>6, <2>7, WritesFacts, OtherSides DEF CalledOff
<1>11. ASSUME NEW s \in Sides, Approve(s) PROVE SideInv' /\ Off
  <2>1. PICK n : /\ Writes(s, n) /\ n.stage = rec[s].stage /\ n.ok
                 /\ n.contract = rec[s].contract /\ n.txid = rec[s].txid /\ n.refund = rec[s].refund
    BY <1>11, ApproveEffect
  <2>2. rec[s].stage \in {"TAKE_RECEIVED", "READY_TO_LOCK"} /\ UNCHANGED <<work, up, rogue>>
    BY <1>11, ApproveEffect DEF world, life
  <2>3. SideOK(s) /\ RecordOK(s, rec[s])
    BY DEF SideInv, SideOK
  <2>4. RecordOK(s, n)
    BY <2>1, <2>3 DEF RecordOK
  <2>5. SideOK(s)'
    BY <2>1, <2>2, <2>3, <2>4, WritesSide
  <2>6. CalledOff(rec[s].stage, n.stage)
    BY <2>1 DEF CalledOff
  <2> QED
    BY <2>1, <2>2, <2>5, <2>6, WritesFacts, OtherSides DEF CalledOff
<1>12. ASSUME NEW s \in Sides, Cancel(s) PROVE SideInv' /\ Off
  <2>1. PICK n : Writes(s, n) /\ Keeps(rec[s], n) /\ n.stage = CancelStage(rec[s])
    BY <1>12, CancelEffect
  <2>2. MayCancel(rec[s]) /\ UNCHANGED <<work, up, rogue>>
    BY <1>12, CancelEffect DEF life
  <2>3. SideOK(s) /\ RecordOK(s, rec[s])
    BY DEF SideInv, SideOK
  <2>4. RecordOK(s, n)
    BY <2>1, <2>2, <2>3 DEF RecordOK, MayCancel, CancelStage, Keeps, Roles, Stages, Final, Early, Holding, Checking
  <2>5. Busy(s) => (work[s].s.contract => n.ok)
    BY <2>1, <2>3 DEF SideOK, CopyOK, Keeps
  <2>6. SideOK(s)'
    BY <2>1, <2>2, <2>3, <2>4, <2>5, WritesSide DEF MayCancel, CancelStage, Keeps
  <2>7. CalledOff(rec[s].stage, n.stage)
    BY <2>1, <2>2, <2>3 DEF CalledOff, MayCancel, CancelStage, RecordOK, Holding, Final
  <2> QED
    BY <2>1, <2>2, <2>6, <2>7, WritesFacts, OtherSides DEF CalledOff
<1>13. ASSUME AcceptInvite \/ Advance PROVE SideInv' /\ Off
  BY <1>2, <1>13 DEF AcceptInvite, Advance, life
<1>14. CASE UNCHANGED vars
  BY <1>2, <1>14 DEF vars
<1> QED
  BY <1>4, <1>5, <1>6, <1>7, <1>8, <1>9, <1>10, <1>11, <1>12, <1>13, <1>14
     DEF Next, Engine, Screen, Block

\* What was called off is not taken up again: a person's cancel, a step of the
\* other side or the engine's own decision stands against a round that took
\* its copy before (Round: "a cancel stands").
THEOREM CalledOffStaysCorrect == Spec => CalledOffStays
<1> DEFINE Off == \A s \in Sides :
                    /\ rec[s].stage \in Final => rec'[s].stage = rec[s].stage
                    /\ rec[s].stage = "REFUNDING" =>
                         rec'[s].stage \in Final \cup {"REFUNDING", "REDEEMING"}
<1>1. Init => SwapTypeOK /\ SideInv
  BY TypesInit, SideInit
<1>2. SwapTypeOK /\ SideInv /\ [Next]_vars => SwapTypeOK' /\ SideInv'
  BY TypesNext, SideNext
<1>3. SwapTypeOK /\ SideInv /\ [Next]_vars => [Off]_vars
  BY SideNext DEF CalledOff
<1> QED
  BY <1>1, <1>2, <1>3, PTL DEF Spec, CalledOffStays

----------------------------------------------------------------------------
(* A step as each side and each contract see it.                           *)

\* Nothing of the two contracts changes.
Still == UNCHANGED <<now, con, pend, shown>>

LEMMA RoundChain ==
  ASSUME SwapTypeOK, NEW s \in Sides, RoundKinds(s)
  PROVE  Still \/ FundRound(s) \/ RedeemRound(s) \/ RefundRound(s)
<1>1. UNCHANGED now
  BY RoundFacts DEF RoundStep
<1>2. Apart => Still
  BY <1>1 DEF Apart, Still
<1> QED
  BY <1>2 DEF RoundKinds, EarlyRound, PaymentRound, WatchRound, LookRound, NoRefundRound, RefundFailedRound

LEMMA ChainStep ==
  ASSUME SwapTypeOK, [Next]_vars
  PROVE  \/ Still
         \/ \E s \in Sides : FundRound(s) \/ RedeemRound(s) \/ RefundRound(s)
         \/ \E s \in Sides : Pay(s) \/ ConfirmFunding(s) \/ ConfirmSpend(s)
         \/ \E s \in rogue \cap Sides : Rogue(s) /\ UNCHANGED now /\ (RogueLock(s) \/ RogueSpends(s))
         \/ Advance
<1> DEFINE Goal ==
         \/ Still
         \/ \E s \in Sides : FundRound(s) \/ RedeemRound(s) \/ RefundRound(s)
         \/ \E s \in Sides : Pay(s) \/ ConfirmFunding(s) \/ ConfirmSpend(s)
         \/ \E s \in rogue \cap Sides : Rogue(s) /\ UNCHANGED now /\ (RogueLock(s) \/ RogueSpends(s))
         \/ Advance
<1>1. ASSUME NEW s \in Sides, Tick(s)
      PROVE  Still \/ FundRound(s) \/ RedeemRound(s) \/ RefundRound(s)
  BY <1>1, TickEffect, RoundChain
<1>2. ASSUME NEW s \in Sides, Store(s) \/ ReadStep(s) \/ Crash(s) \/ Start(s)
      PROVE  Still
  BY <1>2 DEF Store, ReadStep, Crash, Start, world, Still
<1>3. ASSUME NEW s \in Sides, RogueTells(s), Rogue(s)
      PROVE  Still
  BY <1>3 DEF RogueTells, Rogue, Still
<1>4. ASSUME NEW s \in Sides, Rogue(s)
      PROVE  Still \/ (s \in rogue /\ UNCHANGED now /\ (RogueLock(s) \/ RogueSpends(s)))
  BY <1>3, <1>4 DEF Rogue
<1>5. ASSUME NEW s \in Sides, Engine(s) \/ Crash(s) \/ Start(s) PROVE Goal
  BY <1>1, <1>2, <1>5 DEF Engine
<1>6. ASSUME NEW s \in Sides, Block(s) \/ Rogue(s) PROVE Goal
  BY <1>4, <1>6 DEF Block
<1>7. ASSUME NEW s \in Sides, Approve(s) \/ Cancel(s) \/ Pay(s) PROVE Goal
  <2>1. Approve(s) \/ Cancel(s) => Still
    BY DEF Approve, Cancel, world, Still
  <2> QED
    BY <1>7, <2>1
<1>8. ASSUME Take \/ AcceptInvite \/ UNCHANGED vars PROVE Goal
  <2>1. Still
    BY <1>8 DEF Take, AcceptInvite, world, vars, Still
  <2> QED
    BY <2>1
<1>9. Advance => Goal
  OBVIOUS
<1> HIDE DEF Goal
<1>10. Next => Goal
  BY <1>5, <1>6, <1>7, <1>8, <1>9 DEF Next, Screen
<1>11. Goal
  BY <1>8, <1>10
<1> QED
  BY <1>11 DEF Goal

LEMMA RogueStays ==
  ASSUME SwapTypeOK, [Next]_vars
  PROVE  rogue' = rogue
<1>1. ASSUME NEW s \in Sides, Tick(s) PROVE rogue' = rogue
  BY <1>1, TickEffect, RoundFacts DEF RoundStep
<1>2. ASSUME NEW s \in Sides, Store(s) \/ ReadStep(s) \/ Crash(s) \/ Start(s) \/ Take \/ Approve(s)
      PROVE  rogue' = rogue
  BY <1>2 DEF Store, ReadStep, Crash, Start, Take, Approve, world
<1>3. ASSUME NEW s \in Sides, Cancel(s) \/ AcceptInvite \/ Rogue(s) \/ UNCHANGED vars
      PROVE  rogue' = rogue
  BY <1>3 DEF Cancel, AcceptInvite, Rogue, vars
<1>4. ASSUME NEW s \in Sides, Pay(s) \/ ConfirmFunding(s) \/ ConfirmSpend(s) \/ Advance
      PROVE  rogue' = rogue
  BY <1>4 DEF Pay, ConfirmFunding, ConfirmSpend, Advance
<1>5. "taker" \in Sides
  BY DEF Sides
<1> QED
  BY <1>1, <1>2, <1>3, <1>4, <1>5 DEF Next, Engine, Screen, Block

\* What happens to the record and to the copy of a side.
LEMMA SideStep ==
  ASSUME SwapTypeOK, [Next]_vars, NEW s \in Sides
  PROVE  \/ rec'[s] = rec[s] /\ work'[s] = work[s]
         \/ RoundKinds(s) \/ Store(s) \/ ReadStep(s) \/ Crash(s)
         \/ s = "taker" /\ Take
         \/ Approve(s) \/ Cancel(s)
<1> DEFINE Same(t) == rec'[t] = rec[t] /\ work'[t] = work[t]
<1>1. UNCHANGED <<rec, work>> => Same(s)
  OBVIOUS
<1>2. ASSUME NEW t \in Sides \ {s}, Tick(t) PROVE Same(s)
  BY <1>2, TickEffect, RoundFacts, GoesFacts DEF RoundStep
<1>3. ASSUME NEW t \in Sides \ {s}, Store(t) PROVE Same(s)
  <2>1. work'[s] = work[s]
    BY <1>3, StoreEffect DEF SwapTypeOK
  <2> QED
    BY <1>3, <2>1, StoreEffect, WritesFacts
<1>4. ASSUME NEW t \in Sides \ {s}, ReadStep(t) PROVE Same(s)
  BY <1>4, ReadEffect, WritesFacts
<1>5. ASSUME NEW t \in Sides \ {s}, Crash(t) PROVE Same(s)
  BY <1>5 DEF Crash, SwapTypeOK
<1>6. ASSUME NEW t \in Sides \ {s}, Approve(t) PROVE Same(s)
  BY <1>6, ApproveEffect, WritesFacts
<1>7. ASSUME NEW t \in Sides \ {s}, Cancel(t) PROVE Same(s)
  BY <1>7, CancelEffect, WritesFacts
<1>8. ASSUME s # "taker", Take PROVE Same(s)
  BY <1>8, TakeEffect, WritesFacts DEF Sides
<1>9. ASSUME NEW t \in Sides, Start(t) \/ ConfirmFunding(t) \/ ConfirmSpend(t) \/ Rogue(t) \/ Pay(t)
                              \/ AcceptInvite \/ Advance \/ UNCHANGED vars
      PROVE  Same(s)
  BY <1>1, <1>9 DEF Start, ConfirmFunding, ConfirmSpend, Rogue, Pay, AcceptInvite, Advance, vars
<1>10. Tick(s) => RoundKinds(s)
  BY TickEffect
<1>11. "taker" \in Sides
  BY DEF Sides
<1> HIDE DEF Same
<1>12. ASSUME NEW t \in Sides, Tick(t) \/ Store(t) \/ ReadStep(t) \/ Crash(t) \/ Approve(t) \/ Cancel(t)
       PROVE  \/ Same(s) \/ RoundKinds(s) \/ Store(s) \/ ReadStep(s) \/ Crash(s)
              \/ Approve(s) \/ Cancel(s)
  <2>1. CASE t = s
    BY <1>10, <1>12, <2>1
  <2>2. CASE t # s
    BY <1>2, <1>3, <1>4, <1>5, <1>6, <1>7, <1>12, <2>2
  <2> QED
    BY <2>1, <2>2
<1>13. \/ Same(s) \/ RoundKinds(s) \/ Store(s) \/ ReadStep(s) \/ Crash(s)
       \/ s = "taker" /\ Take
       \/ Approve(s) \/ Cancel(s)
  BY <1>8, <1>9, <1>11, <1>12 DEF Next, Engine, Screen, Block
<1> QED
  BY <1>13 DEF Same

----------------------------------------------------------------------------
(* A cancelled swap and its contract.                                      *)

\* No block takes the funding of the contract of s any more, or the contract
\* is spent.
Gone(s) == con[s].st # "open" /\ now > con[s].lock + Day

Copies(s) == {rec[s], work[s].s}

Dropped(r) == r.stage = "CANCELLED" /\ r.contract
HeldOK(s) == \A r \in Copies(s) : Dropped(r) => Gone(s)
HeldInv == \A s \in Sides \ rogue : HeldOK(s)

LEMMA GoneStays ==
  ASSUME SwapTypeOK, [Next]_vars, NEW s \in Sides \ rogue, Gone(s), ~ FundRound(s)
  PROVE  Gone(s)'
<1> USE DEF Gone
<1>1. Day \in Nat /\ now \in Nat /\ con[s].lock \in Nat
  BY SwapAssumption DEF SwapTypeOK
<1>2. CASE Still
  BY <1>2 DEF Still
<1>3. ASSUME NEW t \in Sides, FundRound(t) PROVE Gone(s)'
  <2>1. t # s
    BY <1>3
  <2> QED
    BY <1>3, <2>1 DEF FundRound, FundContract, RoundStep, SwapTypeOK
<1>4. ASSUME NEW t \in Sides, RedeemRound(t) \/ RefundRound(t) PROVE Gone(s)'
  BY <1>4 DEF RedeemRound, RefundRound, Sending, RoundStep
<1>5. ASSUME NEW t \in Sides, Pay(t) PROVE Gone(s)'
  <2>1. now' = now /\ con'[s].lock = con[s].lock /\ con'[s].st # "open"
    <3>1. CASE t = s
      BY <1>5, <3>1, PayEffect
    <3>2. CASE t # s
      BY <1>5, <3>2, PayEffect
    <3> QED
      BY <3>1, <3>2
  <2> QED
    BY <2>1
<1>6. ASSUME NEW t \in Sides, ConfirmFunding(t) PROVE Gone(s)'
  BY <1>1, <1>6 DEF ConfirmFunding, SwapTypeOK
<1>7. ASSUME NEW t \in Sides, ConfirmSpend(t) PROVE Gone(s)'
  <2>1. t # s
    BY <1>7 DEF ConfirmSpend
  <2> QED
    BY <1>7, <2>1, ConfirmEffect
<1>8. ASSUME NEW t \in rogue \cap Sides, RogueLock(t) \/ RogueSpends(t), UNCHANGED now PROVE Gone(s)'
  BY <1>8 DEF RogueLock, RogueSpends, SwapTypeOK
<1>9. CASE Advance
  BY <1>1, <1>9 DEF Advance
<1> QED
  BY <1>2, <1>3, <1>4, <1>5, <1>6, <1>7, <1>8, <1>9, ChainStep

\* A copy that was dropped was dropped before, or the engine gave up on its
\* payment just now (TryRefund: "Nothing was ever paid into ours").
LEMMA DroppedBefore ==
  ASSUME SwapTypeOK, [Next]_vars, NEW s \in Sides, SideOK(s), ~ FundRound(s),
         NEW r \in Copies(s)', Dropped(r)
  PROVE  Gone(s) \/ \E q \in Copies(s) : Dropped(q)
<1> USE DEF Copies, Dropped
<1>1. RecordOK(s, rec[s]) /\ (Busy(s) => CopyOK(s))
  BY DEF SideOK
<1>2. ~ Dropped(NoWork.s)
  BY DEF NoWork, NoSwap
<1>3. CASE rec'[s] = rec[s] /\ work'[s] = work[s]
  BY <1>3
<1>4. CASE RoundKinds(s)
  <2>1. rec' = rec
    BY <1>4, RoundFacts DEF RoundStep
  <2>2. ASSUME NEW pc \in {"refund", "spent", "store"}, NEW w, Goes(s, pc, w), ~ Dropped(w) \/ Gone(s)
        PROVE  Gone(s) \/ \E q \in Copies(s) : Dropped(q)
    BY <2>1, <2>2, GoesFacts
  <2>3. CASE EarlyRound(s)
    <3>1. PICK w : Goes(s, "store", w) /\ w.contract = rec[s].contract
      BY <2>3 DEF EarlyRound
    <3>2. ~ rec[s].contract
      BY <1>1, <2>3 DEF EarlyRound, RecordOK
    <3> QED
      BY <2>2, <3>1, <3>2
  <2>4. CASE PaymentRound(s) \/ RedeemRound(s) \/ LookRound(s) \/ RefundRound(s)
    <3>1. PICK w : Goes(s, "store", w) /\ w.stage # "CANCELLED"
      BY <2>4 DEF PaymentRound, RedeemRound, LookRound, RefundRound
    <3> QED
      BY <2>2, <3>1
  <2>5. CASE WatchRound(s)
    <3>1. PICK w : /\ Goes(s, "refund", w) \/ Goes(s, "store", w)
                   /\ w.stage \in {"LOCKED", "REFUNDING", "REDEEMING", "REFUNDED"}
      BY <2>5 DEF WatchRound
    <3> QED
      BY <2>2, <3>1
  <2>6. CASE NoRefundRound(s) \/ RefundFailedRound(s)
    <3>1. Busy(s) /\ work[s].s.stage \in {"LOCKED", "REFUNDING"}
      BY <1>1, <2>6 DEF NoRefundRound, RefundFailedRound, Busy, CopyOK
    <3>2. PICK w : /\ Goes(s, "spent", w) \/ Goes(s, "store", w)
                   /\ \/ w.stage \in {work[s].s.stage, "REFUNDED", "DONE"}
                      \/ ~ Paid(s) /\ now > con[s].lock + Day
      <4>1. CASE NoRefundRound(s)
        BY <4>1 DEF NoRefundRound
      <4>2. CASE RefundFailedRound(s)
        BY <4>2 DEF RefundFailedRound
      <4> QED
        BY <2>6, <4>1, <4>2
    <3>3. ~ Paid(s) /\ now > con[s].lock + Day => Gone(s)
      BY DEF Paid, Gone
    <3> QED
      BY <2>2, <3>1, <3>2, <3>3
  <2> QED
    BY <1>4, <2>3, <2>4, <2>5, <2>6 DEF RoundKinds
<1>5. CASE Store(s)
  <2>1. PICK n : Writes(s, n) /\ Merged(s, n)
    BY <1>5, StoreEffect
  <2>2. rec'[s] = n /\ work'[s] = NoWork
    BY <1>5, <2>1, WritesFacts, StoreEffect DEF SwapTypeOK
  <2>3. CopyOK(s)
    BY <1>1, <1>5 DEF Store, Busy
  <2>4. rec[s].stage = "CANCELLED" => ~ work[s].s.contract
    BY <2>3 DEF CopyOK, RecordOK, Final
  <2> QED
    BY <1>2, <2>1, <2>2, <2>4 DEF Merged
<1>6. CASE ReadStep(s)
  <2>1. PICK n : /\ Writes(s, n)
                 /\ \/ Fresh(n, "TAKE_RECEIVED")
                    \/ Keeps(rec[s], n) /\ n.stage \in {"CHECKING_THEIRS", "REDEEMING"}
                    \/ ~ rec[s].ok /\ Keeps(rec[s], n)
                    \/ n = rec[s]
    BY <1>6, ReadEffect
  <2>2. rec'[s] = n /\ work' = work
    BY <1>6, <2>1, WritesFacts, ReadEffect
  <2> QED
    BY <1>1, <2>1, <2>2 DEF Fresh, Keeps, RecordOK
<1>7. CASE Crash(s)
  <2>1. rec' = rec /\ work'[s] = NoWork
    BY <1>7 DEF Crash, SwapTypeOK
  <2> QED
    BY <1>2, <2>1
<1>8. CASE s = "taker" /\ Take
  <2>1. PICK n : Writes(s, n) /\ Fresh(n, "INVITING")
    BY <1>8, TakeEffect
  <2>2. rec'[s] = n /\ work' = work
    BY <1>8, <2>1, WritesFacts, TakeEffect
  <2> QED
    BY <2>1, <2>2 DEF Fresh
<1>9. CASE Approve(s)
  <2>1. PICK n : Writes(s, n) /\ n.stage = rec[s].stage
    BY <1>9, ApproveEffect
  <2>2. rec'[s] = n /\ work' = work /\ rec[s].stage # "CANCELLED"
    BY <1>9, <2>1, WritesFacts, ApproveEffect
  <2> QED
    BY <2>1, <2>2
<1>10. CASE Cancel(s)
  <2>1. PICK n : Writes(s, n) /\ Keeps(rec[s], n) /\ n.stage = CancelStage(rec[s])
    BY <1>10, CancelEffect
  <2>2. rec'[s] = n /\ work' = work /\ MayCancel(rec[s])
    BY <1>10, <2>1, WritesFacts, CancelEffect
  <2> QED
    BY <2>1, <2>2 DEF MayCancel, CancelStage, Keeps
<1> QED
  BY <1>3, <1>4, <1>5, <1>6, <1>7, <1>8, <1>9, <1>10, SideStep

LEMMA HeldNext ==
  ASSUME SwapTypeOK, SideInv, HeldInv, [Next]_vars
  PROVE  HeldInv'
<1> SUFFICES ASSUME NEW s \in Sides \ rogue, NEW r \in Copies(s)', Dropped(r) PROVE Gone(s)'
  BY RogueStays DEF HeldInv, HeldOK
<1>1. CASE FundRound(s)
  <2>1. PICK w : Goes(s, "store", w) /\ w.stage \in {"WAIT_PAYMENT", "LOCKED"}
    BY <1>1 DEF FundRound
  <2>2. work'[s].s = w /\ rec'[s] = rec[s] /\ rec[s].stage # "CANCELLED"
    BY <1>1, <2>1, GoesFacts DEF FundRound, RoundStep
  <2> QED
    BY <2>1, <2>2 DEF Copies, Dropped
<1>2. CASE ~ FundRound(s)
  <2>1. Gone(s)
    BY <1>2, DroppedBefore DEF SideInv, HeldInv, HeldOK
  <2> QED
    BY <1>2, <2>1, GoneStays
<1> QED
  BY <1>1, <1>2

LEMMA HeldInit == Init => HeldInv
<1> SUFFICES ASSUME Init, NEW s \in Sides, NEW r \in Copies(s) PROVE ~ Dropped(r)
  BY DEF HeldInv, HeldOK
<1>1. r = NoSwap
  BY DEF Init, Copies, NoWork
<1> QED
  BY <1>1 DEF Dropped, NoSwap

\* A swap that reads "cancelled" has nothing of ours in an open contract,
\* though a cancel may come while a round is locking the coin or a payment is
\* on its way ("Cancel refuses once anything of ours is locked, so it never
\* undoes a lock").
THEOREM CancelledHoldsNothingCorrect == Spec => []CancelledHoldsNothing
<1>1. Init => SwapTypeOK /\ SideInv /\ HeldInv
  BY TypesInit, SideInit, HeldInit
<1>2. SwapTypeOK /\ SideInv /\ HeldInv /\ [Next]_vars => (SwapTypeOK /\ SideInv /\ HeldInv)'
  BY TypesNext, SideNext, HeldNext
<1>3. HeldInv => CancelledHoldsNothing
  BY DEF HeldInv, HeldOK, Copies, Dropped, Gone, CancelledHoldsNothing
<1> QED
  BY <1>1, <1>2, <1>3, PTL DEF Spec

----------------------------------------------------------------------------
(* A contract as it changes.                                               *)

\* A spend of the contract of x is sent by s: to redeem it, by one who knows
\* the secret, or to refund it, once its lock ran out.
Spends(s, x) ==
  /\ con' = con /\ now' = now /\ SpendContract(s, x)
  /\ x = s => con[x].st \in {"sent", "open"} /\ TimeLeft(x) = 0
  /\ s \notin rogue => (x = s /\ RefundRound(s)) \/ (x = Other(s) /\ RedeemRound(s))
  /\ s \in rogue /\ x # s => s = "maker" \/ shown

SameCon(x) == con'[x] = con[x] /\ pend'[x] = pend[x] /\ now' = now

LEMMA ConStep ==
  ASSUME SwapTypeOK, [Next]_vars, NEW x \in Sides
  PROVE  \/ SameCon(x)
         \/ FundRound(x)
         \/ \E s \in Sides : Spends(s, x)
         \/ Pay(x) \/ ConfirmFunding(x) \/ ConfirmSpend(x)
         \/ x \in rogue /\ con[x].st = "none" /\ con'[x].st = "sent" /\ pend'[x] = pend[x] /\ now' = now
         \/ Advance
<1> DEFINE Goal == \/ SameCon(x)
                   \/ FundRound(x)
                   \/ \E s \in Sides : Spends(s, x)
                   \/ Pay(x) \/ ConfirmFunding(x) \/ ConfirmSpend(x)
                   \/ x \in rogue /\ con[x].st = "none" /\ con'[x].st = "sent" /\ pend'[x] = pend[x] /\ now' = now
                   \/ Advance
<1>1. ASSUME Still PROVE Goal
  BY <1>1 DEF Still, SameCon
<1>2. ASSUME NEW s \in Sides, FundRound(s) PROVE Goal
  <2>1. s # x => SameCon(x)
    BY <1>2 DEF FundRound, FundContract, RoundStep, SameCon, SwapTypeOK
  <2> QED
    BY <1>2, <2>1
<1>3. ASSUME NEW s \in Sides, NEW y \in Sides, Spends(s, y) PROVE Goal
  <2>1. y # x => SameCon(x)
    BY <1>3 DEF Spends, SpendContract, SameCon, SwapTypeOK
  <2> QED
    BY <1>3, <2>1
<1>4. ASSUME NEW s \in Sides, RedeemRound(s) PROVE Goal
  <2>1. Other(s) \in Sides /\ Other(s) # s
    BY DEF Other, Sides
  <2>2. Spends(s, Other(s))
    BY <1>4, <2>1 DEF RedeemRound, Sending, RoundStep, Running, Spends
  <2> QED
    BY <1>3, <2>1, <2>2
<1>5. ASSUME NEW s \in Sides, RefundRound(s) PROVE Goal
  <2>1. Spends(s, s)
    BY <1>5 DEF RefundRound, Sending, RoundStep, Running, CanSpend, Spends
  <2> QED
    BY <1>3, <2>1
<1>6. ASSUME NEW s \in Sides, Pay(s) PROVE Goal
  <2>1. s # x => SameCon(x)
    BY <1>6, PayEffect DEF SameCon
  <2> QED
    BY <1>6, <2>1
<1>7. ASSUME NEW s \in Sides, ConfirmFunding(s) PROVE Goal
  <2>1. s # x => SameCon(x)
    BY <1>7 DEF ConfirmFunding, SameCon, SwapTypeOK
  <2> QED
    BY <1>7, <2>1
<1>8. ASSUME NEW s \in Sides, ConfirmSpend(s) PROVE Goal
  <2>1. s # x => SameCon(x)
    BY <1>8, ConfirmEffect DEF SameCon
  <2> QED
    BY <1>8, <2>1
<1>9. ASSUME NEW s \in rogue \cap Sides, Rogue(s), UNCHANGED now, RogueLock(s) PROVE Goal
  <2>1. s # x => SameCon(x)
    BY <1>9 DEF RogueLock, SameCon, SwapTypeOK
  <2>2. con[s].st = "none" /\ con'[s].st = "sent" /\ pend' = pend
    <3>1. PICK c \in [st : {"sent"}, lock : {now + 1, now + TAKER_LOCK, now + MAKER_LOCK}, good : BOOLEAN] :
            con' = [con EXCEPT ![s] = c]
      BY <1>9 DEF RogueLock
    <3> QED
      BY <1>9, <3>1 DEF RogueLock, SwapTypeOK
  <2> QED
    BY <1>9, <2>1, <2>2
<1>10. ASSUME NEW s \in rogue \cap Sides, Rogue(s), UNCHANGED now, RogueSpends(s) PROVE Goal
  <2>1. PICK y \in Sides :
               /\ con[y].st \in {"sent", "open"} /\ Mine(s, y) \notin pend[y]
               /\ IF y = s THEN TimeLeft(y) = 0 ELSE con[y].good /\ (s = "maker" \/ shown)
               /\ SpendContract(s, y)
    BY <1>10 DEF RogueSpends
  <2>2. con' = con
    BY <1>10 DEF RogueSpends
  <2>3. Spends(s, y)
    BY <1>10, <2>1, <2>2 DEF Spends
  <2> QED
    BY <1>3, <2>3
<1>11. Advance => Goal
  OBVIOUS
<1> HIDE DEF Goal
<1>12. Goal
  BY <1>1, <1>2, <1>4, <1>5, <1>6, <1>7, <1>8, <1>9, <1>10, <1>11, ChainStep
<1> QED
  BY <1>12 DEF Goal

\* Nothing is refunded before the lock runs out.
RefundOK(x) ==
  "refund" \in pend[x] \/ con[x].st = "refunded" => con[x].st # "none" /\ now >= con[x].lock
RefundInv == \A x \in Sides : RefundOK(x)

LEMMA RefundNext ==
  ASSUME SwapTypeOK, RefundInv, [Next]_vars
  PROVE  RefundInv'
<1> SUFFICES ASSUME NEW x \in Sides PROVE RefundOK(x)'
  BY DEF RefundInv
<1>1. RefundOK(x) /\ now \in Nat /\ con[x].lock \in Nat
  BY DEF RefundInv, SwapTypeOK
<1> USE DEF RefundOK
<1>2. CASE SameCon(x)
  BY <1>1, <1>2 DEF SameCon
<1>3. CASE FundRound(x)
  BY <1>3 DEF FundRound, FundContract, SwapTypeOK
<1>4. ASSUME NEW s \in Sides, Spends(s, x) PROVE RefundOK(x)'
  <2>1. con' = con /\ now' = now /\ pend'[x] = pend[x] \cup {Mine(s, x)}
    BY <1>4 DEF Spends, SpendContract, SwapTypeOK
  <2>2. x = s => con[x].st \in {"sent", "open"} /\ now >= con[x].lock
    BY <1>1, <1>4 DEF Spends, TimeLeft
  <2>3. x # s => Mine(s, x) = "redeem"
    BY DEF Mine
  <2> QED
    BY <1>1, <2>1, <2>2, <2>3
<1>5. CASE Pay(x)
  BY <1>1, <1>5, PayEffect
<1>6. CASE ConfirmFunding(x)
  BY <1>1, <1>6 DEF ConfirmFunding, SwapTypeOK
<1>7. CASE ConfirmSpend(x)
  BY <1>1, <1>7, ConfirmEffect
<1>8. CASE con[x].st = "none" /\ con'[x].st = "sent" /\ pend'[x] = pend[x]
  BY <1>1, <1>8
<1>9. CASE Advance
  BY <1>1, <1>9 DEF Advance
<1> QED
  BY <1>2, <1>3, <1>4, <1>5, <1>6, <1>7, <1>8, <1>9, ConStep

----------------------------------------------------------------------------
(* What a side has told the other.                                         *)

\* "lock1", "lock2": our contract is in place.
LockStep(s) == IF s = "maker" THEN "lock1" ELSE "lock2"
Told(s) == LockStep(s) \in sent[s]

\* The stages before a contract of ours counts as paid.
Before == Early \cup {"WAIT_PAYMENT"}

ToldOK(s) ==
  Told(s) => rec[s].stage \notin Before /\ (Busy(s) => work[s].was \notin Before)
ToldInv == \A s \in Sides \ rogue : ToldOK(s)

\* A side tells the other of its contract from stage LOCKED only.
LEMMA SentStep ==
  ASSUME SwapTypeOK, [Next]_vars, NEW s \in Sides
  PROVE  /\ sent[s] \subseteq sent'[s]
         /\ s \notin rogue /\ Told(s)' => Told(s) \/ (WatchRound(s) /\ rec[s].stage = "LOCKED")
<1> DEFINE Goal == /\ sent[s] \subseteq sent'[s]
                   /\ s \notin rogue /\ Told(s)' => Told(s) \/ (WatchRound(s) /\ rec[s].stage = "LOCKED")
<1>1. ASSUME sent'[s] = sent[s] PROVE Goal
  BY <1>1 DEF Told
<1>2. ASSUME NEW t \in Sides, NEW ms, Tells(t, ms),
             t = s => LockStep(s) \notin ms \/ (WatchRound(s) /\ rec[s].stage = "LOCKED")
      PROVE  Goal
  <2>1. PICK m \in SUBSET ms : sent' = [sent EXCEPT ![t] = @ \cup m]
    BY <1>2 DEF Tells
  <2>2. t # s => sent'[s] = sent[s]
    BY <2>1 DEF SwapTypeOK
  <2>3. t = s => sent'[s] = sent[s] \cup m
    BY <2>1 DEF SwapTypeOK
  <2> QED
    BY <1>1, <1>2, <2>2, <2>3 DEF Told
<1>3. LockStep(s) \notin {"take", "cancel"}
  BY DEF LockStep
<1>4. ASSUME NEW t \in Sides, RoundKinds(t) PROVE Goal
  <2>1. CASE EarlyRound(t) \/ PaymentRound(t) \/ LookRound(t)
    <3>1. Tells(t, {"take", "cancel"}) \/ Tells(t, {"cancel"})
      BY <2>1 DEF EarlyRound, PaymentRound, LookRound
    <3> QED
      BY <1>2, <1>3, <3>1
  <2>2. CASE FundRound(t) \/ RedeemRound(t) \/ RefundRound(t) \/ NoRefundRound(t) \/ RefundFailedRound(t)
    BY <1>1, <2>2 DEF FundRound, RedeemRound, RefundRound, NoRefundRound, RefundFailedRound, Sending
  <2>3. CASE WatchRound(t)
    <3>1. CASE rec[t].stage = "LOCKED"
      <4>1. Tells(t, {LockStep(t)})
        BY <2>3, <3>1 DEF WatchRound, LockStep
      <4> QED
        BY <1>2, <2>3, <3>1, <4>1
    <3>2. CASE rec[t].stage = "REFUNDING"
      BY <1>1, <2>3, <3>2 DEF WatchRound
    <3> QED
      BY <2>3, <3>1, <3>2 DEF WatchRound
  <2> QED
    BY <1>4, <2>1, <2>2, <2>3 DEF RoundKinds
<1>5. ASSUME NEW t \in Sides, Cancel(t) PROVE Goal
  BY <1>2, <1>3, <1>5, CancelEffect
<1>6. ASSUME NEW t \in Sides, Rogue(t) PROVE Goal
  <2>1. t \in rogue /\ \E m : sent' = [sent EXCEPT ![t] = @ \cup m]
    <3>1. RogueSpends(t) => sent' = [sent EXCEPT ![t] = @ \cup {}]
      BY DEF RogueSpends, SwapTypeOK
    <3> QED
      BY <1>6, <3>1 DEF Rogue, RogueLock, RogueTells
  <2>2. t # s => sent'[s] = sent[s]
    BY <2>1 DEF SwapTypeOK
  <2>3. t = s => sent[s] \subseteq sent'[s]
    BY <2>1 DEF SwapTypeOK
  <2> QED
    BY <1>1, <2>1, <2>2, <2>3
<1>7. ASSUME NEW t \in Sides, Store(t) \/ ReadStep(t) \/ Crash(t) \/ Start(t) \/ Approve(t)
      PROVE  Goal
  BY <1>1, <1>7 DEF Store, ReadStep, Crash, Start, Approve, world
<1>8. ASSUME NEW t \in Sides, Pay(t) \/ ConfirmFunding(t) \/ ConfirmSpend(t)
      PROVE  Goal
  BY <1>1, <1>8 DEF Pay, ConfirmFunding, ConfirmSpend
<1>9. ASSUME Take \/ AcceptInvite \/ Advance \/ UNCHANGED vars
      PROVE  Goal
  BY <1>1, <1>9 DEF Take, AcceptInvite, Advance, vars, world
<1>10. \A t \in Sides : Tick(t) => RoundKinds(t)
  BY TickEffect
<1> HIDE DEF Goal
<1>11. Goal
  BY <1>4, <1>5, <1>6, <1>7, <1>8, <1>9, <1>10 DEF Next, Engine, Screen, Block
<1> QED
  BY <1>11 DEF Goal

LEMMA ToldNext ==
  ASSUME SwapTypeOK, SideInv, ToldInv, [Next]_vars
  PROVE  ToldInv'
<1> SUFFICES ASSUME NEW s \in Sides \ rogue, Told(s)' PROVE ToldOK(s)'
  BY RogueStays DEF ToldInv, ToldOK
<1>1. CASE ~ Told(s)
  <2>1. WatchRound(s) /\ rec[s].stage = "LOCKED"
    BY <1>1, SentStep
  <2>2. rec' = rec /\ work'[s].was = rec[s].stage
    <3>1. RoundKinds(s) /\ ~ Busy(s)
      BY <2>1 DEF RoundKinds, WatchRound
    <3> QED
      BY <3>1, RoundFacts, GoesFacts DEF RoundStep, Was
  <2> QED
    BY <2>1, <2>2 DEF ToldOK, Before, Early
<1>2. CASE Told(s)
  <2>1. rec[s].stage \notin Before /\ (Busy(s) => work[s].was \notin Before)
    BY <1>2 DEF ToldInv, ToldOK
  <2>2. RecordOK(s, rec[s]) /\ (Busy(s) => CopyOK(s))
    BY DEF SideInv, SideOK
  <2> SUFFICES rec'[s].stage \notin Before /\ (work'[s].pc # "idle" => work'[s].was \notin Before)
    BY DEF ToldOK, Busy
  <2>3. CASE rec'[s] = rec[s] /\ work'[s] = work[s]
    BY <2>1, <2>3 DEF Busy
  <2>4. CASE RoundKinds(s)
    BY <2>1, <2>4, RoundFacts, GoesFacts DEF RoundStep, Was
  <2>5. ASSUME NEW n, Writes(s, n), work'[s] = work[s] \/ work'[s] = NoWork, n.stage \notin Before
        PROVE  rec'[s].stage \notin Before /\ (work'[s].pc # "idle" => work'[s].was \notin Before)
    BY <2>1, <2>5, WritesFacts DEF Busy, NoWork
  <2>6. CASE Store(s)
    <3>1. PICK n : Writes(s, n) /\ Merged(s, n)
      BY <2>6, StoreEffect
    <3>2. work'[s] = NoWork
      BY <2>6, StoreEffect DEF SwapTypeOK
    <3>3. Busy(s)
      BY <2>6 DEF Store, Busy
    <3>4. work[s].s.stage \notin Before
      BY <2>1, <2>2, <3>3 DEF CopyOK, Later, Before
    <3>5. n.stage \notin Before
      BY <3>1, <3>4 DEF Merged, Before, Early
    <3> QED
      BY <2>5, <3>1, <3>2, <3>5
  <2>7. CASE ReadStep(s)
    <3>1. PICK n : /\ Writes(s, n)
                   /\ \/ rec[s].stage \in {"NONE", "TAKE_SENT"}
                      \/ n.stage \in {"REDEEMING", "CANCELLED"}
                      \/ n = rec[s]
      BY <2>7, ReadEffect
    <3> QED
      BY <2>1, <2>5, <2>7, <3>1, ReadEffect DEF Before, Early
  <2>8. CASE Crash(s)
    <3>1. rec' = rec /\ work'[s] = NoWork
      BY <2>8 DEF Crash, SwapTypeOK
    <3> QED
      BY <2>1, <3>1 DEF NoWork
  <2>9. CASE s = "taker" /\ Take
    BY <2>1, <2>9, TakeEffect DEF Before, Early
  <2>10. CASE Approve(s)
    BY <2>1, <2>10, ApproveEffect DEF Before, Early
  <2>11. CASE Cancel(s)
    <3>1. PICK n : Writes(s, n) /\ n.stage = CancelStage(rec[s])
      BY <2>11, CancelEffect
    <3> QED
      BY <2>5, <2>11, <3>1, CancelEffect DEF CancelStage, Before, Early
  <2> QED
    BY <2>3, <2>4, <2>6, <2>7, <2>8, <2>9, <2>10, <2>11, SideStep
<1> QED
  BY <1>1, <1>2

----------------------------------------------------------------------------
(* Where what a copy says comes from.                                      *)

\* r differs from a copy q in nothing that is asked for here.
Alike(q, r) ==
  /\ r.stage = q.stage /\ r.contract = q.contract
  /\ r.refund = q.refund /\ r.redeemSince = q.redeemSince

\* The record or the copy of s becomes r.
CopyFrom(s, r) ==
  \/ \E q \in Copies(s) : Alike(q, r)
  \/ Alike(NoSwap, r)
  \/ RoundKinds(s) /\ r \in Record /\ r = work'[s].s
  \/ Store(s) /\ Merged(s, r)
  \/ /\ Keeps(rec[s], r) /\ rec[s].stage \in Before /\ ~ FundRound(s)
     /\ \/ r.stage \in {"CANCELLED", "REFUNDING"}
        \/ s = "taker" /\ r.stage = "CHECKING_THEIRS" /\ Told("maker")
  \/ Keeps(rec[s], r) /\ s = "maker" /\ r.stage = "REDEEMING" /\ Told("taker")
  \/ Fresh(r, "INVITING") \/ Fresh(r, "TAKE_RECEIVED")

LEMMA CopyStep ==
  ASSUME SwapTypeOK, [Next]_vars, NEW s \in Sides, SideOK(s), NEW r \in Copies(s)'
  PROVE  CopyFrom(s, r)
<1>1. RecordOK(s, rec[s]) /\ rec[s] \in Record /\ work[s].s \in Record
  BY RecTyped DEF SideOK
<1>2. \A q \in Copies(s) : Alike(q, q)
  BY DEF Alike
<1>3. Alike(NoSwap, NoWork.s)
  BY DEF Alike, NoWork
<1>4. r = rec'[s] \/ r = work'[s].s
  BY DEF Copies
<1>5. ASSUME NEW q \in Copies(s), r = q PROVE CopyFrom(s, r)
  BY <1>2, <1>5 DEF CopyFrom
<1>6. rec[s] \in Copies(s) /\ work[s].s \in Copies(s)
  BY DEF Copies
<1>7. CASE rec'[s] = rec[s] /\ work'[s] = work[s]
  BY <1>4, <1>5, <1>6, <1>7
<1>8. CASE RoundKinds(s)
  <2>1. rec' = rec /\ work'[s].s \in Record
    <3>1. PICK pc \in {"refund", "spent", "store"} : \E w : Goes(s, pc, w)
      BY <1>8, RoundFacts
    <3>2. PICK w : Goes(s, pc, w)
      BY <3>1
    <3> QED
      BY <1>8, <3>2, RoundFacts, GoesFacts DEF RoundStep, Goes
  <2> QED
    BY <1>4, <1>5, <1>6, <1>8, <2>1 DEF CopyFrom
<1>9. CASE Store(s)
  <2>1. PICK n : Writes(s, n) /\ Merged(s, n)
    BY <1>9, StoreEffect
  <2>2. rec'[s] = n /\ work'[s] = NoWork
    BY <1>9, <2>1, WritesFacts, StoreEffect DEF SwapTypeOK
  <2> QED
    BY <1>3, <1>4, <1>9, <2>1, <2>2 DEF CopyFrom
<1>10. ASSUME NEW n, Writes(s, n), work' = work, CopyFrom(s, n) PROVE CopyFrom(s, r)
  BY <1>4, <1>5, <1>6, <1>10, WritesFacts
<1>11. CASE ReadStep(s)
  <2>1. PICK n :
              /\ Writes(s, n)
              /\ \/ Fresh(n, "TAKE_RECEIVED")
                 \/ /\ s = "taker" /\ rec[s].stage = "TAKE_SENT" /\ Keeps(rec[s], n)
                    /\ n.stage = "CHECKING_THEIRS" /\ "lock1" \in sent["maker"]
                 \/ /\ s = "maker" /\ rec[s].stage = "LOCKED" /\ Keeps(rec[s], n)
                    /\ n.stage = "REDEEMING" /\ "lock2" \in sent["taker"]
                 \/ /\ ~ rec[s].txid /\ ~ rec[s].ok /\ rec[s].stage \notin Final \cup {"NONE"}
                    /\ Keeps(rec[s], n) /\ n.stage = "CANCELLED"
                 \/ n = rec[s]
    BY <1>11, ReadEffect
  <2>2. work' = work /\ rec'[s] = n
    BY <1>11, <2>1, ReadEffect, WritesFacts
  <2>3. FundRound(s) => rec' = rec
    BY DEF FundRound, RoundStep
  <2>4. CASE Fresh(n, "TAKE_RECEIVED")
    BY <1>10, <2>1, <2>2, <2>4 DEF CopyFrom
  <2>5. CASE s = "taker" /\ rec[s].stage = "TAKE_SENT" /\ Keeps(rec[s], n)
             /\ n.stage = "CHECKING_THEIRS" /\ "lock1" \in sent["maker"]
    <3>1. ~ FundRound(s) /\ Told("maker") /\ rec[s].stage \in Before
      BY <2>2, <2>3, <2>5 DEF Told, LockStep, Before, Early
    <3> QED
      BY <1>10, <2>1, <2>2, <2>5, <3>1 DEF CopyFrom
  <2>6. CASE s = "maker" /\ Keeps(rec[s], n) /\ n.stage = "REDEEMING" /\ "lock2" \in sent["taker"]
    <3>1. Told("taker")
      BY <2>6 DEF Told, LockStep
    <3> QED
      BY <1>10, <2>1, <2>2, <2>6, <3>1 DEF CopyFrom
  <2>7. CASE ~ rec[s].ok /\ rec[s].stage \notin Final \cup {"NONE"} /\ Keeps(rec[s], n) /\ n.stage = "CANCELLED"
    <3>1. rec[s].stage \in Before
      BY <1>1, <2>7 DEF RecordOK, Holding, Before, Early, Record, Stages
    <3>2. ~ FundRound(s)
      BY <2>2, <2>3, <2>7 DEF Final
    <3> QED
      BY <1>10, <2>1, <2>2, <2>7, <3>1, <3>2 DEF CopyFrom
  <2>8. CASE n = rec[s]
    BY <1>4, <1>5, <1>6, <2>2, <2>8
  <2> QED
    BY <2>1, <2>4, <2>5, <2>6, <2>7, <2>8
<1>12. CASE Crash(s)
  <2>1. rec' = rec /\ work'[s] = NoWork
    BY <1>12 DEF Crash, SwapTypeOK
  <2> QED
    BY <1>3, <1>4, <1>5, <1>6, <2>1 DEF CopyFrom
<1>13. CASE s = "taker" /\ Take
  BY <1>10, <1>13, TakeEffect DEF CopyFrom
<1>14. CASE Approve(s)
  <2>1. PICK n : /\ Writes(s, n) /\ n.stage = rec[s].stage /\ n.contract = rec[s].contract
                 /\ n.refund = rec[s].refund /\ n.redeemSince = rec[s].redeemSince
    BY <1>14, ApproveEffect
  <2>2. Alike(rec[s], n)
    BY <2>1 DEF Alike
  <2> QED
    BY <1>6, <1>10, <1>14, <2>1, <2>2, ApproveEffect DEF CopyFrom
<1>15. CASE Cancel(s)
  <2>1. PICK n : Writes(s, n) /\ Keeps(rec[s], n) /\ n.stage = CancelStage(rec[s])
    BY <1>15, CancelEffect
  <2>2. MayCancel(rec[s]) /\ work' = work /\ rec'[s] = n
    BY <1>15, <2>1, CancelEffect, WritesFacts
  <2>3. rec[s].stage \in Before
    BY <1>1, <2>2 DEF MayCancel, RecordOK, Holding, Before, Early, Record, Stages
  <2>4. n.stage \in {"CANCELLED", "REFUNDING"} /\ n.stage # rec[s].stage
    BY <2>1, <2>3 DEF CancelStage, Before, Early
  <2>5. ~ FundRound(s)
    BY <2>2, <2>4 DEF FundRound, RoundStep
  <2> QED
    BY <1>10, <2>1, <2>2, <2>3, <2>4, <2>5 DEF CopyFrom
<1> QED
  BY <1>7, <1>8, <1>9, <1>11, <1>12, <1>13, <1>14, <1>15, SideStep

----------------------------------------------------------------------------
(* The maker's coin: the secret is shown for a contract that pays.         *)

Exposed == \E x \in Sides : con[x].st = "redeemed" \/ "redeem" \in pend[x]
ExposedInv == Exposed => shown

\* Once shown, the secret stays so; a maker who runs this program shows it by
\* redeeming the taker's contract.
LEMMA ShownStep ==
  ASSUME SwapTypeOK, [Next]_vars
  PROVE  /\ shown => shown'
         /\ \A x \in Sides, s \in Sides : Spends(s, x) /\ x # s => shown'
         /\ shown' => shown \/ "maker" \in rogue \/ \E s \in Sides : RedeemRound(s)
<1>0. \A x \in Sides, s \in Sides : Spends(s, x) /\ x # s => shown'
  BY DEF Spends, SpendContract
<1>1. CASE Still
  BY <1>0, <1>1 DEF Still
<1>2. ASSUME NEW s \in Sides, FundRound(s) \/ RedeemRound(s) \/ RefundRound(s)
      PROVE  shown' => shown \/ RedeemRound(s)
  BY <1>2 DEF FundRound, RefundRound, SpendContract, SwapTypeOK
<1>3. ASSUME NEW s \in Sides, FundRound(s) \/ RedeemRound(s) \/ RefundRound(s)
      PROVE  shown => shown'
  BY <1>3 DEF FundRound, RedeemRound, RefundRound, SpendContract, SwapTypeOK
<1>4. ASSUME NEW s \in Sides, Pay(s) \/ ConfirmFunding(s) \/ ConfirmSpend(s)
      PROVE  shown' = shown
  BY <1>4 DEF Pay, ConfirmFunding, ConfirmSpend
<1>5. ASSUME NEW s \in rogue \cap Sides, RogueLock(s) \/ RogueSpends(s)
      PROVE  (shown => shown') /\ (shown' => shown \/ "maker" \in rogue)
  BY <1>5 DEF RogueLock, RogueSpends, SpendContract, SwapTypeOK
<1>6. CASE Advance
  BY <1>0, <1>6 DEF Advance
<1> QED
  BY <1>0, <1>1, <1>2, <1>3, <1>4, <1>5, <1>6, ChainStep

LEMMA ExposedNext ==
  ASSUME SwapTypeOK, ExposedInv, [Next]_vars
  PROVE  ExposedInv'
<1> SUFFICES ASSUME NEW x \in Sides, con'[x].st = "redeemed" \/ "redeem" \in pend'[x]
             PROVE  shown'
  BY DEF ExposedInv, Exposed
<1>1. (con[x].st = "redeemed" \/ "redeem" \in pend[x]) => shown'
  BY ShownStep DEF ExposedInv, Exposed
<1>2. CASE SameCon(x)
  BY <1>1, <1>2 DEF SameCon
<1>3. CASE FundRound(x)
  BY <1>3 DEF FundRound, FundContract, SwapTypeOK
<1>4. ASSUME NEW s \in Sides, Spends(s, x) PROVE shown'
  <2>1. con' = con /\ pend'[x] = pend[x] \cup {Mine(s, x)}
    BY <1>4 DEF Spends, SpendContract, SwapTypeOK
  <2>2. CASE x # s
    BY <1>4, <2>2, ShownStep
  <2>3. CASE x = s
    BY <1>1, <2>1, <2>3 DEF Mine
  <2> QED
    BY <2>2, <2>3
<1>5. CASE Pay(x)
  BY <1>1, <1>5, PayEffect
<1>6. CASE ConfirmFunding(x)
  BY <1>1, <1>6 DEF ConfirmFunding, SwapTypeOK
<1>7. CASE ConfirmSpend(x)
  BY <1>1, <1>7, ConfirmEffect
<1>8. CASE con'[x].st = "sent" /\ pend'[x] = pend[x]
  BY <1>1, <1>8
<1>9. CASE Advance
  BY <1>1, <1>9 DEF Advance
<1> QED
  BY <1>2, <1>3, <1>4, <1>5, <1>6, <1>7, <1>8, <1>9, ConStep

\* The taker's coin is the maker's, or will be before its lock runs out.
Sure ==
  /\ con["taker"].good
  /\ \/ con["taker"].st = "redeemed"
     \/ con["taker"].st = "open" /\ pend["taker"] = {"redeem"} /\ now < con["taker"].lock

ShownOK == shown => Sure /\ Told("taker")
MakerCopies ==
  \A r \in Copies("maker") :
     (r.stage = "REDEEMING" => Told("taker")) /\ (r.redeemSince >= 0 => shown)
TakerCopies ==
  "taker" \notin rogue =>
     \A r \in Copies("taker") : r.stage = "REDEEMING" \/ r.redeemSince >= 0 => shown
MakerInv == "maker" \notin rogue => ShownOK /\ MakerCopies /\ TakerCopies

\* The invariants the maker's side rests on, of all sides.
BaseInv == SwapTypeOK /\ SideInv /\ RefundInv /\ ToldInv /\ ExposedInv

LEMMA SureStays ==
  ASSUME BaseInv, [Next]_vars, shown, Sure, Told("taker")
  PROVE  Sure'
<1> DEFINE x == "taker"
<1> USE DEF Sure
<1>1. x \in Sides /\ SwapTypeOK /\ now \in Nat /\ con[x].lock \in Nat
  BY DEF Sides, BaseInv, SwapTypeOK
<1>2. CASE SameCon(x)
  BY <1>2 DEF SameCon
<1>3. CASE FundRound(x)
  <2>1. x \notin rogue /\ rec[x].stage \in Early
    BY <1>3 DEF FundRound, RoundStep, Running, Early
  <2> QED
    BY <1>1, <2>1 DEF BaseInv, ToldInv, ToldOK, Before
<1>4. ASSUME NEW s \in Sides, Spends(s, x) PROVE Sure'
  <2>1. con' = con /\ now' = now /\ pend'[x] = pend[x] \cup {Mine(s, x)}
    BY <1>1, <1>4 DEF Spends, SpendContract, SwapTypeOK
  <2>2. x # s
    BY <1>1, <1>4 DEF Spends, TimeLeft
  <2>3. Mine(s, x) = "redeem"
    BY <2>2 DEF Mine
  <2> QED
    BY <2>1, <2>3
<1>5. CASE Pay(x) \/ ConfirmFunding(x)
  BY <1>5 DEF Pay, ConfirmFunding
<1>6. CASE ConfirmSpend(x)
  BY <1>1, <1>6, ConfirmEffect
<1>7. CASE con[x].st = "none"
  BY <1>7
<1>8. CASE Advance
  BY <1>1, <1>8 DEF Advance
<1> QED
  BY <1>1, <1>2, <1>3, <1>4, <1>5, <1>6, <1>7, <1>8, ConStep

LEMMA ShownNext ==
  ASSUME BaseInv, MakerInv, "maker" \notin rogue, [Next]_vars
  PROVE  ShownOK'
<1> SUFFICES ASSUME shown' PROVE Sure' /\ Told("taker")'
  BY DEF ShownOK
<1>1. SwapTypeOK /\ ShownOK /\ MakerCopies /\ TakerCopies /\ "maker" \in Sides /\ "taker" \in Sides
  BY DEF BaseInv, MakerInv, Sides
<1>2. Told("taker") => Told("taker")'
  BY <1>1, SentStep DEF Told
<1>3. CASE shown
  BY <1>1, <1>2, <1>3, SureStays DEF ShownOK
<1>4. CASE ~ shown
  <2>1. PICK s \in Sides : RedeemRound(s)
    BY <1>1, <1>4, ShownStep
  <2>2. s \notin rogue /\ rec[s].stage = "REDEEMING" /\ rec[s] \in Copies(s)
    BY <2>1 DEF RedeemRound, RoundStep, Running, Copies
  <2>3. s = "maker"
    BY <1>1, <1>4, <2>2 DEF TakerCopies, Sides
  <2>4. Told("taker") /\ ~ (rec["maker"].redeemSince >= 0)
    BY <1>1, <1>4, <2>2, <2>3 DEF MakerCopies
  <2>5. "ok" \in CheckTheirs("maker", nMakerMinLeft)
    BY <2>1, <2>3, <2>4 DEF RedeemRound
  <2>6. Other("maker") = "taker" /\ nMakerMinLeft \in Nat /\ nMakerMinLeft > 0
    BY SwapAssumption, TimeAssumption DEF Other
  <2>7. con["taker"].st = "open" /\ con["taker"].good /\ TimeLeft("taker") >= nMakerMinLeft
    BY <1>1, <2>5, <2>6, CheckFacts
  <2>8. now < con["taker"].lock /\ now \in Nat /\ con["taker"].lock \in Nat
    BY <1>1, <2>6, <2>7 DEF TimeLeft, SwapTypeOK
  <2>9. pend["taker"] \subseteq {"redeem"}
    BY <1>1, <2>8 DEF BaseInv, RefundInv, RefundOK, SwapTypeOK
  <2>10. con' = con /\ now' = now /\ pend'["taker"] = pend["taker"] \cup {"redeem"}
    BY <1>1, <2>1, <2>3, <2>6 DEF RedeemRound, RoundStep, Sending, SpendContract, Mine, SwapTypeOK
  <2> QED
    BY <1>2, <2>4, <2>7, <2>8, <2>9, <2>10 DEF Sure
<1> QED
  BY <1>3, <1>4

\* A swap redeems because the other side told of its contract, or because the
\* secret is out; a redeem that waits for its block was sent.
LEMMA RedeemFrom ==
  ASSUME SwapTypeOK, [Next]_vars, NEW s \in Sides, SideOK(s), NEW r \in Copies(s)'
  PROVE  /\ r.stage = "REDEEMING" =>
              \/ \E q \in Copies(s) : q.stage = "REDEEMING"
              \/ s = "maker" /\ Told("taker")
              \/ s = "taker" /\ Exposed
         /\ r.redeemSince >= 0 => RedeemRound(s) \/ \E q \in Copies(s) : q.redeemSince >= 0
<1> DEFINE Goal(n) ==
      /\ n.stage = "REDEEMING" =>
              \/ \E q \in Copies(s) : q.stage = "REDEEMING"
              \/ s = "maker" /\ Told("taker")
              \/ s = "taker" /\ Exposed
      /\ n.redeemSince >= 0 => RedeemRound(s) \/ \E q \in Copies(s) : q.redeemSince >= 0
<1>1. CopyFrom(s, r)
  BY CopyStep
<1>2. rec[s] \in Copies(s) /\ work[s].s \in Copies(s)
  BY DEF Copies
<1>3. CASE RoundKinds(s) /\ r = work'[s].s
  <2>1. ASSUME NEW pc \in {"refund", "spent", "store"}, NEW w, Goes(s, pc, w) PROVE r = w
    BY <1>3, <2>1, GoesFacts
  <2>2. CASE EarlyRound(s) \/ FundRound(s) \/ PaymentRound(s)
    <3>1. PICK w : /\ Goes(s, "store", w) /\ w.redeemSince = rec[s].redeemSince
                   /\ w.stage # "REDEEMING"
      <4>1. CASE EarlyRound(s)
        BY <4>1 DEF EarlyRound, EarlyNext, Early
      <4>2. CASE FundRound(s)
        BY <4>2 DEF FundRound
      <4>3. CASE PaymentRound(s)
        BY <4>3 DEF PaymentRound
      <4> QED
        BY <2>2, <4>1, <4>2, <4>3
    <3> QED
      BY <1>2, <2>1, <3>1
  <2>3. CASE WatchRound(s)
    <3>1. PICK w : /\ Keeps(rec[s], w)
                   /\ \/ Goes(s, "refund", w) /\ w.stage = rec[s].stage
                      \/ /\ Goes(s, "store", w) /\ s = "taker"
                         /\ con[s].st = "redeemed" \/ "redeem" \in pend[s]
                      \/ Goes(s, "store", w) /\ w.stage = "REFUNDED"
      BY <2>3 DEF WatchRound
    <3>2. rec[s].stage # "REDEEMING"
      BY <2>3 DEF WatchRound
    <3> QED
      BY <1>2, <2>1, <3>1, <3>2 DEF Keeps, Exposed
  <2>4. CASE RedeemRound(s)
    BY <1>2, <2>4 DEF RedeemRound
  <2>5. CASE LookRound(s)
    <3>1. PICK w : /\ Goes(s, "store", w)
                   /\ w.redeemSince = rec[s].redeemSince \/ w.redeemSince = -1
      BY <2>5 DEF LookRound
    <3>2. rec[s].stage = "REDEEMING"
      BY <2>5 DEF LookRound
    <3> QED
      BY <1>2, <2>1, <3>1, <3>2
  <2>6. CASE RefundRound(s) \/ NoRefundRound(s) \/ RefundFailedRound(s)
    <3>1. PICK w : /\ Goes(s, "store", w) \/ Goes(s, "spent", w)
                   /\ w.redeemSince = work[s].s.redeemSince
                   /\ w.stage = "REDEEMING" => work[s].s.stage = "REDEEMING"
      <4>1. CASE RefundRound(s)
        BY <4>1 DEF RefundRound
      <4>2. CASE NoRefundRound(s)
        BY <4>2 DEF NoRefundRound
      <4>3. CASE RefundFailedRound(s)
        BY <4>3 DEF RefundFailedRound, Keeps
      <4> QED
        BY <2>6, <4>1, <4>2, <4>3
    <3> QED
      BY <1>2, <2>1, <3>1
  <2> QED
    BY <1>3, <2>2, <2>3, <2>4, <2>5, <2>6 DEF RoundKinds
<1>4. CASE Merged(s, r)
  BY <1>2, <1>4 DEF Merged
<1>5. CASE \/ Keeps(rec[s], r) /\ r.stage # "REDEEMING"
           \/ Keeps(rec[s], r) /\ s = "maker" /\ Told("taker")
  BY <1>2, <1>5 DEF Keeps
<1>6. CASE \E q \in Copies(s) : Alike(q, r)
  BY <1>6 DEF Alike
<1>7. CASE Alike(NoSwap, r) \/ Fresh(r, "INVITING") \/ Fresh(r, "TAKE_RECEIVED")
  <2>1. r.stage # "REDEEMING" /\ r.redeemSince = -1
    <3>1. NoSwap.stage = "NONE" /\ NoSwap.redeemSince = -1
      BY DEF NoSwap
    <3> QED
      BY <1>7, <3>1 DEF Alike, Fresh
  <2> QED
    BY <2>1
<1>8. \/ \E q \in Copies(s) : Alike(q, r)
      \/ Alike(NoSwap, r) \/ Fresh(r, "INVITING") \/ Fresh(r, "TAKE_RECEIVED")
      \/ RoundKinds(s) /\ r = work'[s].s
      \/ Merged(s, r)
      \/ Keeps(rec[s], r) /\ r.stage # "REDEEMING"
      \/ Keeps(rec[s], r) /\ s = "maker" /\ Told("taker")
  <2>1. r.stage \in {"CANCELLED", "REFUNDING", "CHECKING_THEIRS"} => r.stage # "REDEEMING"
    OBVIOUS
  <2> QED
    BY <1>1, <2>1, Zenon DEF CopyFrom
<1> QED
  BY <1>3, <1>4, <1>5, <1>6, <1>7, <1>8

LEMMA RedeemShows ==
  ASSUME NEW s \in Sides, RedeemRound(s)
  PROVE  shown'
  BY DEF RedeemRound, SpendContract, Other, Sides

LEMMA MakerNext ==
  ASSUME BaseInv, MakerInv, [Next]_vars
  PROVE  MakerInv'
<1>1. SwapTypeOK /\ rogue' = rogue /\ "maker" \in Sides /\ "taker" \in Sides
  BY RogueStays DEF BaseInv, Sides
<1> SUFFICES ASSUME "maker" \notin rogue PROVE ShownOK' /\ MakerCopies' /\ TakerCopies'
  BY <1>1 DEF MakerInv
<1>2. ShownOK /\ MakerCopies /\ TakerCopies /\ SideOK("maker") /\ SideOK("taker") /\ ExposedInv
  BY <1>1 DEF MakerInv, BaseInv, SideInv
<1>3. (shown => shown') /\ (Told("taker") => Told("taker")')
  BY <1>1, ShownStep, SentStep DEF Told
<1>4. MakerCopies'
  <2> SUFFICES ASSUME NEW r \in Copies("maker")'
               PROVE  /\ r.stage = "REDEEMING" => Told("taker")'
                      /\ r.redeemSince >= 0 => shown'
    BY DEF MakerCopies
  <2> QED
    BY <1>1, <1>2, <1>3, RedeemFrom, RedeemShows DEF MakerCopies
<1>5. TakerCopies'
  <2> SUFFICES ASSUME "taker" \notin rogue, NEW r \in Copies("taker")'
               PROVE  r.stage = "REDEEMING" \/ r.redeemSince >= 0 => shown'
    BY <1>1 DEF TakerCopies
  <2> QED
    BY <1>1, <1>2, <1>3, RedeemFrom, RedeemShows DEF TakerCopies, ExposedInv
<1> QED
  BY <1>4, <1>5, ShownNext

LEMMA BaseNext ==
  ASSUME BaseInv, [Next]_vars
  PROVE  BaseInv'
  BY TypesNext, SideNext, RefundNext, ToldNext, ExposedNext DEF BaseInv

LEMMA MakerInit == Init => BaseInv /\ MakerInv
<1> SUFFICES ASSUME Init PROVE BaseInv /\ MakerInv
  OBVIOUS
<1>1. \A s \in Sides : rec[s] = NoSwap /\ work[s] = NoWork /\ con[s] = NoContract /\ pend[s] = {} /\ sent[s] = {}
  BY DEF Init
<1>2. ~ shown
  BY DEF Init
<1>3. RefundInv /\ ToldInv /\ ~ Exposed
  BY <1>1 DEF RefundInv, RefundOK, ToldInv, ToldOK, Told, Exposed, NoContract
<1>4. \A s \in Sides : \A r \in Copies(s) : r = NoSwap
  BY <1>1 DEF Copies, NoWork
<1>5. NoSwap.stage = "NONE" /\ NoSwap.redeemSince = -1
  BY DEF NoSwap
<1>6. MakerInv
  BY <1>2, <1>4, <1>5 DEF MakerInv, ShownOK, MakerCopies, TakerCopies, Sides
<1> QED
  BY <1>3, <1>6, TypesInit, SideInit DEF BaseInv, ExposedInv

\* NoLoss of the maker: whatever the taker does, its coin is taken for nothing
\* less than the taker's coin, in time (SwapEngine::Tick shows the secret for a
\* contract it has checked, with time left to redeem it).
LEMMA MakerKeeps ==
  ASSUME BaseInv, MakerInv, "maker" \notin rogue, con["maker"].st = "redeemed"
  PROVE  con["taker"].good /\ con["taker"].st \in {"open", "redeemed"}
  BY DEF BaseInv, ExposedInv, Exposed, MakerInv, ShownOK, Sure, Sides

----------------------------------------------------------------------------
(* The taker's coin: the secret is used in time.                           *)

\* A refund that waits was sent; the taker checks a contract it was told of.
LEMMA CheckedFrom ==
  ASSUME SwapTypeOK, [Next]_vars, NEW s \in Sides, SideOK(s), NEW r \in Copies(s)'
  PROVE  /\ r.refund => RefundRound(s) \/ \E q \in Copies(s) : q.refund
         /\ s = "taker" /\ r.stage \in Checking =>
              Told("maker") \/ \E q \in Copies(s) : q.stage \in Checking
<1>1. CopyFrom(s, r)
  BY CopyStep
<1>2. rec[s] \in Copies(s) /\ work[s].s \in Copies(s)
  BY DEF Copies
<1>3. CASE RoundKinds(s) /\ r = work'[s].s
  <2>1. ASSUME NEW pc \in {"refund", "spent", "store"}, NEW w, Goes(s, pc, w) PROVE r = w
    BY <1>3, <2>1, GoesFacts
  <2>2. CASE RefundRound(s)
    <3>1. PICK w : Goes(s, "store", w) /\ w.stage \in {"REFUNDED", "REFUNDING"}
      BY <2>2 DEF RefundRound
    <3> QED
      BY <2>1, <2>2, <3>1 DEF Checking
  <2>3. CASE EarlyRound(s)
    <3>1. PICK w : /\ Goes(s, "store", w) /\ w.stage \in EarlyNext(rec[s].stage)
                   /\ w.refund = rec[s].refund
      BY <2>3 DEF EarlyRound
    <3>2. w.stage \in Checking => rec[s].stage \in Checking
      BY <3>1 DEF EarlyNext, Checking
    <3> QED
      BY <1>2, <2>1, <3>1, <3>2
  <2>4. CASE FundRound(s) \/ PaymentRound(s) \/ WatchRound(s) \/ RedeemRound(s) \/ LookRound(s)
    <3>1. PICK w : /\ Goes(s, "store", w) \/ Goes(s, "refund", w)
                   /\ w.refund = rec[s].refund
                   /\ w.stage \in Holding \cup Final
      <4>1. CASE FundRound(s)
        BY <4>1 DEF FundRound, Holding
      <4>2. CASE PaymentRound(s)
        BY <4>2 DEF PaymentRound, Holding
      <4>3. CASE WatchRound(s)
        BY <4>3 DEF WatchRound, Keeps, Holding, Final
      <4>4. CASE RedeemRound(s)
        BY <4>4 DEF RedeemRound, Holding, Final
      <4>5. CASE LookRound(s)
        BY <4>5 DEF LookRound, Holding, Final
      <4> QED
        BY <2>4, <4>1, <4>2, <4>3, <4>4, <4>5
    <3> QED
      BY <1>2, <2>1, <3>1 DEF Checking, Holding, Final
  <2>5. CASE NoRefundRound(s) \/ RefundFailedRound(s)
    <3>1. PICK w : /\ Goes(s, "store", w) \/ Goes(s, "spent", w)
                   /\ w.refund = work[s].s.refund
                   /\ w.stage = work[s].s.stage \/ w.stage \in Final
      <4>1. CASE NoRefundRound(s)
        BY <4>1 DEF NoRefundRound, Final
      <4>2. CASE RefundFailedRound(s)
        BY <4>2 DEF RefundFailedRound, Keeps, Final
      <4> QED
        BY <2>5, <4>1, <4>2
    <3> QED
      BY <1>2, <2>1, <3>1 DEF Checking, Final
  <2> QED
    BY <1>3, <2>2, <2>3, <2>4, <2>5 DEF RoundKinds
<1>4. CASE Merged(s, r)
  BY <1>2, <1>4 DEF Merged, Checking
<1>5. CASE Keeps(rec[s], r) /\ (r.stage \notin Checking \/ Told("maker"))
  BY <1>2, <1>5 DEF Keeps
<1>6. CASE \E q \in Copies(s) : Alike(q, r)
  BY <1>6 DEF Alike
<1>7. CASE Alike(NoSwap, r) \/ Fresh(r, "INVITING") \/ Fresh(r, "TAKE_RECEIVED")
  <2>1. ~ r.refund /\ r.stage \notin Checking
    <3>1. NoSwap.stage = "NONE" /\ ~ NoSwap.refund
      BY DEF NoSwap
    <3> QED
      BY <1>7, <3>1 DEF Alike, Fresh, Checking
  <2> QED
    BY <2>1
<1>8. \/ \E q \in Copies(s) : Alike(q, r)
      \/ Alike(NoSwap, r) \/ Fresh(r, "INVITING") \/ Fresh(r, "TAKE_RECEIVED")
      \/ RoundKinds(s) /\ r = work'[s].s
      \/ Merged(s, r)
      \/ Keeps(rec[s], r) /\ (r.stage \notin Checking \/ Told("maker"))
  <2>1. r.stage \in {"CANCELLED", "REFUNDING"} \/ r.stage = "REDEEMING" => r.stage \notin Checking
    BY DEF Checking
  <2> QED
    BY <1>1, <2>1, Zenon DEF CopyFrom
<1> QED
  BY <1>3, <1>4, <1>5, <1>6, <1>7, <1>8

\* The maker's coin is the taker's or soon will be; the time to show the
\* secret is over.
Taken == con["maker"].st = "redeemed" \/ "redeem" \in pend["maker"]
Missed == ~ shown /\ now >= con["taker"].lock

Ended == Final \cup {"REFUNDING"}

\* The taker locks for a contract that is paid, and that it can redeem however
\* late it finds the secret.
LockedOK ==
  con["taker"].st # "none" =>
    /\ Told("maker") /\ con["maker"].good /\ con["maker"].st \in {"open"} \cup Spent
    /\ con["maker"].lock >= con["taker"].lock + MaxAway
CheckedOK == \A r \in Copies("taker") : r.stage \in Checking => Told("maker")

\* A swap ends for the taker, or turns to its refund, once the other coin is
\* taken or the secret can no longer be shown.
EndedOK ==
  \A r \in Copies("taker") :
     /\ r.stage \in Ended /\ Told("taker") => Taken \/ Missed
     /\ r.redeemSince >= 0 => Taken
     /\ r.refund => Missed

\* In between nobody is away for longer than the taker's lock leaves.
InTime == "redeem" \in pend["maker"] => now < con["maker"].lock
Hurry == shown /\ ~ Taken => now < con["taker"].lock + away["taker"]
AwayOK == away["taker"] <= MaxAway

\* A refund is tried before the secret is out, or with time left.
TriesOK ==
  /\ work["taker"].pc = "refund" /\ shown => now < con["taker"].lock
  /\ work["taker"].pc = "spent" => Missed

\* A round that saw the world as it is and changed nothing left nothing to do.
Acted(r) ==
  /\ r.stage = "LOCKED" => con["taker"].st # "redeemed"
  /\ r.stage = "REDEEMING" => Taken
LookOK ==
  /\ look["taker"] = "calm" => Acted(rec["taker"])
  /\ look["taker"] = "looking" /\ Busy("taker") /\ work["taker"].s.stage = work["taker"].was =>
       Acted(work["taker"].s)

TakerInv ==
  rogue = {} =>
    LockedOK /\ CheckedOK /\ EndedOK /\ InTime /\ Hurry /\ AwayOK /\ TriesOK /\ LookOK

\* Two sides that both run this program, and what holds of them.
Both == BaseInv /\ MakerInv /\ TakerInv /\ rogue = {}

LEMMA BothFacts ==
  ASSUME Both
  PROVE  /\ SwapTypeOK /\ "maker" \in Sides /\ "taker" \in Sides
         /\ "maker" \notin rogue /\ "taker" \notin rogue
         /\ SideOK("maker") /\ SideOK("taker") /\ RefundOK("maker") /\ RefundOK("taker")
         /\ ToldOK("maker") /\ ToldOK("taker") /\ ExposedInv
         /\ ShownOK /\ MakerCopies
         /\ \A r \in Copies("taker") : r.stage = "REDEEMING" \/ r.redeemSince >= 0 => shown
         /\ LockedOK /\ CheckedOK /\ EndedOK /\ InTime /\ Hurry /\ AwayOK /\ TriesOK /\ LookOK
         /\ now \in Nat /\ con["maker"].lock \in Nat /\ con["taker"].lock \in Nat
         /\ away["taker"] \in Nat /\ MaxAway \in Nat
<1>1. SwapTypeOK /\ "maker" \in Sides /\ "taker" \in Sides /\ "maker" \notin rogue /\ "taker" \notin rogue
  BY DEF Both, BaseInv, Sides
<1>2. /\ SideOK("maker") /\ SideOK("taker") /\ RefundOK("maker") /\ RefundOK("taker")
      /\ ToldOK("maker") /\ ToldOK("taker") /\ ExposedInv
  BY <1>1 DEF Both, BaseInv, SideInv, RefundInv, ToldInv
<1>3. ShownOK /\ MakerCopies /\ TakerCopies
  BY <1>1 DEF Both, MakerInv
<1>4. LockedOK /\ CheckedOK /\ EndedOK /\ InTime /\ Hurry /\ AwayOK /\ TriesOK /\ LookOK
  BY DEF Both, TakerInv
<1>5. now \in Nat /\ con["maker"].lock \in Nat /\ con["taker"].lock \in Nat
      /\ away["taker"] \in Nat /\ MaxAway \in Nat
  BY <1>1, SwapAssumption DEF SwapTypeOK
<1> QED
  BY <1>1, <1>2, <1>3, <1>4, <1>5 DEF TakerCopies

\* Once it told the taker, the maker does not lock again; nor does the taker.
LEMMA NoFund ==
  ASSUME Both, NEW s \in Sides, Told(s)
  PROVE  ~ FundRound(s)
<1> SUFFICES ASSUME FundRound(s) PROVE FALSE
  OBVIOUS
<1>1. rec[s].stage \in Early
  BY DEF FundRound, Early
<1>2. ToldOK(s)
  BY BothFacts DEF Sides
<1> QED
  BY <1>1, <1>2 DEF ToldOK, Before

\* Time and locks.
LEMMA LockStays ==
  ASSUME Both, [Next]_vars, NEW x \in Sides
  PROVE  /\ ~ FundRound(x) => con'[x].lock = con[x].lock /\ (con[x].st = "none" => con'[x].st = "none")
         /\ UNCHANGED now \/ (Advance /\ now' = now + 1)
<1>1. SwapTypeOK /\ x \notin rogue
  BY BothFacts DEF Both
<1>2. CASE SameCon(x)
  BY <1>2 DEF SameCon
<1>3. CASE FundRound(x)
  BY <1>3 DEF FundRound, RoundStep
<1>4. ASSUME NEW s \in Sides, Spends(s, x) PROVE con' = con /\ now' = now
  BY <1>4 DEF Spends
<1>5. CASE Pay(x)
  BY <1>1, <1>5, PayEffect
<1>6. CASE ConfirmFunding(x)
  BY <1>1, <1>6 DEF ConfirmFunding, SwapTypeOK
<1>7. CASE ConfirmSpend(x)
  BY <1>1, <1>7, ConfirmEffect
<1>8. CASE Advance
  BY <1>8 DEF Advance
<1> QED
  BY <1>1, <1>2, <1>3, <1>4, <1>5, <1>6, <1>7, <1>8, ConStep

\* A secret that comes out now comes out in time.
LEMMA ShownNow ==
  ASSUME Both, [Next]_vars, ~ shown, shown'
  PROVE  con' = con /\ now' = now /\ now < con["taker"].lock
<1>1. Sure'
  BY ShownNext, BothFacts DEF Both, ShownOK
<1>2. PICK s \in Sides : RedeemRound(s)
  BY ShownStep, BothFacts
<1>3. con' = con /\ now' = now
  BY <1>2 DEF RedeemRound, RoundStep, Sending
<1>4. con["taker"].st # "redeemed"
  BY BothFacts DEF ExposedInv, Exposed
<1> QED
  BY <1>1, <1>3, <1>4 DEF Sure

LEMMA MissedStays ==
  ASSUME Both, [Next]_vars, Missed, ~ FundRound("taker")
  PROVE  Missed'
<1>1. ~ shown' /\ now <= now'
  BY ShownNow, LockStays, BothFacts DEF Missed
<1>2. con'["taker"].lock = con["taker"].lock /\ now' \in Nat
  BY LockStays, BothFacts
<1> QED
  BY <1>1, <1>2, BothFacts DEF Missed

\* What is exposed is exposed for a contract of the taker that stands, and so
\* for one of the maker.
LEMMA ShownLocks ==
  ASSUME Both, shown
  PROVE  /\ Told("taker") /\ Told("maker") /\ con["taker"].st \in {"open", "redeemed"}
         /\ con["maker"].good /\ con["maker"].st \in {"open"} \cup Spent
         /\ con["maker"].lock >= con["taker"].lock + MaxAway
  BY BothFacts DEF ShownOK, Sure, LockedOK

\* The taker has time until the maker may refund.
LEMMA ShownEarly ==
  ASSUME Both, shown, ~ Taken
  PROVE  now < con["maker"].lock /\ con["maker"].st # "refunded" /\ "refund" \notin pend["maker"]
<1>1. now < con["maker"].lock
  BY ShownLocks, BothFacts DEF Hurry, AwayOK
<1> QED
  BY <1>1, BothFacts DEF RefundOK

LEMMA TakenStays ==
  ASSUME Both, [Next]_vars, Taken
  PROVE  Taken'
<1> DEFINE x == "maker"
<1> USE DEF Taken
<1>1. SwapTypeOK /\ x \in Sides /\ shown /\ Told(x) /\ con[x].st \in {"open"} \cup Spent
  BY BothFacts, ShownLocks DEF ExposedInv, Exposed
<1>2. CASE SameCon(x)
  BY <1>2 DEF SameCon
<1>3. ~ FundRound(x)
  BY <1>1, NoFund
<1>4. ASSUME NEW s \in Sides, Spends(s, x) PROVE Taken'
  BY <1>1, <1>4 DEF Spends, SpendContract, SwapTypeOK
<1>5. CASE Pay(x) \/ ConfirmFunding(x)
  BY <1>1, <1>5 DEF Pay, ConfirmFunding, Spent
<1>6. CASE ConfirmSpend(x)
  <2>1. con[x].st = "open" /\ "redeem" \in pend[x]
    BY <1>1, <1>6, ConfirmEffect
  <2>2. "refund" \notin pend[x]
    BY <2>1, BothFacts DEF InTime, RefundOK
  <2> QED
    BY <1>1, <1>6, <2>2, ConfirmEffect
<1>7. CASE con[x].st = "none"
  BY <1>1, <1>7 DEF Spent
<1>8. CASE Advance
  BY <1>8 DEF Advance
<1> QED
  BY <1>1, <1>2, <1>3, <1>4, <1>5, <1>6, <1>7, <1>8, ConStep

LEMMA InTimeNext ==
  ASSUME Both, [Next]_vars
  PROVE  InTime'
<1> DEFINE x == "maker"
<1> SUFFICES ASSUME "redeem" \in pend'[x] PROVE now' < con'[x].lock
  BY DEF InTime
<1>1. SwapTypeOK /\ x \in Sides /\ x \notin rogue /\ InTime
  BY BothFacts
<1>2. CASE SameCon(x)
  BY <1>1, <1>2 DEF SameCon, InTime
<1>3. CASE FundRound(x)
  BY <1>1, <1>3 DEF FundRound, FundContract, SwapTypeOK
<1>4. ASSUME NEW s \in Sides, Spends(s, x) PROVE now' < con'[x].lock
  <2>1. con' = con /\ now' = now /\ pend'[x] = pend[x] \cup {Mine(s, x)}
    BY <1>1, <1>4 DEF Spends, SpendContract, SwapTypeOK
  <2>2. CASE "redeem" \in pend[x]
    BY <1>1, <2>1, <2>2 DEF InTime
  <2>3. CASE "redeem" \notin pend[x]
    <3>1. s # x
      BY <2>1, <2>3 DEF Mine
    <3>2. s = "taker" /\ RedeemRound(s)
      BY <1>4, <3>1, BothFacts DEF Spends, Sides
    <3>3. rec[s].stage = "REDEEMING" /\ rec[s] \in Copies("taker") /\ con[x].st # "redeemed"
      BY <3>2 DEF RedeemRound, Copies, Other, Spent
    <3>4. shown /\ ~ Taken
      BY <2>3, <3>3, BothFacts DEF Taken
    <3> QED
      BY <2>1, <3>4, ShownEarly
  <2> QED
    BY <2>2, <2>3
<1>5. CASE Pay(x)
  BY <1>1, <1>5, PayEffect DEF InTime
<1>6. CASE ConfirmFunding(x)
  BY <1>1, <1>6 DEF ConfirmFunding, SwapTypeOK, InTime
<1>7. CASE ConfirmSpend(x)
  BY <1>1, <1>7, ConfirmEffect
<1>8. CASE Advance
  BY <1>1, <1>8 DEF Advance
<1> QED
  BY <1>1, <1>2, <1>3, <1>4, <1>5, <1>6, <1>7, <1>8, ConStep

LEMMA CheckedNext ==
  ASSUME Both, [Next]_vars
  PROVE  CheckedOK'
<1>1. Told("maker") => Told("maker")'
  BY SentStep, BothFacts DEF Told
<1> QED
  BY <1>1, CheckedFrom, BothFacts DEF CheckedOK

LEMMA LockedNext ==
  ASSUME Both, [Next]_vars
  PROVE  LockedOK'
<1> DEFINE x == "maker"
           y == "taker"
<1>1. SwapTypeOK /\ x \in Sides /\ y \in Sides /\ LockedOK /\ CheckedOK /\ SideOK(y)
  BY BothFacts
<1>2. Told(x) => Told(x)'
  BY <1>1, SentStep DEF Told
<1>3. CASE FundRound(y)
  <2>1. rec[y].stage # "TAKE_RECEIVED" /\ rec[y] \in Copies(y)
    BY <1>1 DEF SideOK, RecordOK, Roles, Copies
  <2>2. rec[y].stage = "READY_TO_LOCK" /\ FundContract(y, TAKER_LOCK) /\ "ok" \in CheckTheirs(y, nTakerMinLeft)
    BY <1>3, <2>1 DEF FundRound
  <2>3. Told(x)
    BY <1>1, <2>1, <2>2 DEF CheckedOK, Checking
  <2>4. Other(y) = x /\ nTakerMinLeft \in Nat /\ TAKER_LOCK \in Nat
    BY SwapAssumption DEF Other
  <2>5. con[x].st = "open" /\ con[x].good /\ TimeLeft(x) >= nTakerMinLeft
    BY <1>1, <2>2, <2>4, CheckFacts
  <2>6. con[x].lock >= now + TAKER_LOCK + MaxAway
    BY <2>4, <2>5, TimeAssumption, BothFacts DEF TimeLeft
  <2>7. con'[x] = con[x] /\ con'[y].lock = now + TAKER_LOCK
    BY <1>1, <2>2 DEF FundContract, SwapTypeOK
  <2> QED
    BY <1>2, <2>3, <2>4, <2>5, <2>6, <2>7, BothFacts DEF LockedOK
<1>4. CASE ~ FundRound(y)
  <2> SUFFICES ASSUME con'[y].st # "none"
               PROVE  /\ Told(x)' /\ con'[x].good /\ con'[x].st \in {"open"} \cup Spent
                      /\ con'[x].lock >= con'[y].lock + MaxAway
    BY DEF LockedOK
  <2>1. con[y].st # "none" /\ con'[y].lock = con[y].lock
    BY <1>1, <1>4, LockStays
  <2>2. /\ Told(x) /\ con[x].good /\ con[x].st \in {"open"} \cup Spent
        /\ con[x].lock >= con[y].lock + MaxAway
    BY <1>1, <2>1 DEF LockedOK
  <2>3. ~ FundRound(x)
    BY <1>1, <2>2, NoFund
  <2>4. con'[x].lock = con[x].lock
    BY <1>1, <2>3, LockStays
  <2>5. con'[x].good /\ con'[x].st \in {"open"} \cup Spent
    <3>1. CASE SameCon(x)
      BY <2>2, <3>1 DEF SameCon
    <3>2. ASSUME NEW s \in Sides, Spends(s, x) PROVE con' = con
      BY <3>2 DEF Spends
    <3>3. CASE Pay(x) \/ ConfirmFunding(x)
      BY <2>2, <3>3 DEF Pay, ConfirmFunding, Spent
    <3>4. CASE ConfirmSpend(x)
      BY <1>1, <2>2, <3>4, ConfirmEffect DEF Spent
    <3>5. CASE Advance
      BY <2>2, <3>5 DEF Advance
    <3>6. x \notin rogue
      BY BothFacts
    <3> QED
      BY <1>1, <2>2, <2>3, <3>1, <3>2, <3>3, <3>4, <3>5, <3>6, ConStep
  <2> QED
    BY <1>2, <2>1, <2>2, <2>4, <2>5
<1> QED
  BY <1>3, <1>4

\* While time passes the taker is away, or its engine has looked at the world
\* as it is.
LEMMA AdvanceAway ==
  ASSUME Both, Advance
  PROVE  /\ up["taker"] => /\ ~ Busy("taker") /\ away'["taker"] = away["taker"]
                           /\ rec["taker"].stage \in Final \cup {"NONE"} \/ look["taker"] = "calm"
         /\ ~ up["taker"] => away["taker"] < MaxAway /\ away'["taker"] = away["taker"] + 1
  BY BothFacts DEF Advance, Settled, Busy, Both

LEMMA AwaySame ==
  ASSUME SwapTypeOK, [Next]_vars
  PROVE  away' = away \/ Advance
<1>1. ASSUME NEW s \in Sides, Tick(s) PROVE away' = away
  BY <1>1, TickEffect, RoundFacts DEF RoundStep
<1>2. ASSUME NEW s \in Sides, Store(s) \/ ReadStep(s) \/ Crash(s) \/ Start(s) \/ Approve(s)
      PROVE  away' = away
  BY <1>2 DEF Store, ReadStep, Crash, Start, Approve, life
<1>3. ASSUME NEW s \in Sides, Pay(s) \/ ConfirmFunding(s) \/ ConfirmSpend(s) \/ Rogue(s) \/ Cancel(s)
      PROVE  away' = away
  BY <1>3 DEF Pay, ConfirmFunding, ConfirmSpend, Rogue, Cancel, life
<1>4. ASSUME Take \/ AcceptInvite \/ UNCHANGED vars
      PROVE  away' = away
  BY <1>4 DEF Take, AcceptInvite, vars, life
<1> QED
  BY <1>1, <1>2, <1>3, <1>4 DEF Next, Engine, Screen, Block

LEMMA HurryNext ==
  ASSUME Both, [Next]_vars
  PROVE  Hurry' /\ AwayOK'
<1> DEFINE y == "taker"
<1>1. SwapTypeOK /\ y \in Sides /\ away[y] \in Nat /\ now \in Nat /\ con[y].lock \in Nat /\ MaxAway \in Nat
      /\ Hurry /\ AwayOK
  BY BothFacts
<1>2. away' = away \/ Advance
  BY <1>1, AwaySame
<1>3. AwayOK'
  BY <1>1, <1>2, AdvanceAway DEF AwayOK
<1>4. ASSUME shown', ~ Taken'
      PROVE  now' < con'[y].lock + away'[y]
  <2>1. ~ Taken
    BY <1>4, TakenStays
  <2>2. CASE ~ shown
    <3>1. con' = con /\ now' = now /\ now < con[y].lock
      BY <1>4, <2>2, ShownNow
    <3>2. away'[y] \in Nat
      BY <1>1, <1>2, AdvanceAway
    <3> QED
      BY <1>1, <3>1, <3>2
  <2>3. CASE shown /\ ~ Advance
    <3>1. ~ FundRound(y)
      BY <1>1, <2>3, ShownLocks, NoFund
    <3>2. con'[y].lock = con[y].lock /\ now' = now
      BY <1>1, <2>3, <3>1, LockStays
    <3> QED
      BY <1>1, <1>2, <2>1, <2>3, <3>2 DEF Hurry
  <2>4. CASE shown /\ Advance
    <3>1. con' = con /\ now' = now + 1
      BY <2>4 DEF Advance
    <3>2. now < con[y].lock + away[y]
      BY <1>1, <2>1, <2>4 DEF Hurry
    <3>3. CASE ~ up[y]
      BY <1>1, <2>4, <3>1, <3>2, <3>3, AdvanceAway
    <3>4. CASE up[y] /\ con[y].st = "open"
      <4>1. "redeem" \in pend[y]
        BY <2>4, <3>4, BothFacts DEF ShownOK, Sure
      <4>2. now + 1 < con[y].lock
        BY <1>1, <2>4, <4>1 DEF Advance
      <4> QED
        BY <1>1, <2>4, <3>1, <3>4, <4>2, AdvanceAway
    <3>5. CASE up[y] /\ con[y].st # "open"
      <4>1. con[y].st = "redeemed" /\ Told(y)
        BY <2>4, <3>5, ShownLocks
      <4>2. rec[y].stage \in Holding \cup Final /\ rec[y].stage # "WAIT_PAYMENT" /\ rec[y] \in Record
        BY <1>1, <4>1, BothFacts, RecTyped DEF ToldOK, Before, Early, Holding, Final, Record, Stages, Copies
      <4>3. rec[y] \in Copies(y)
        BY DEF Copies
      <4>4. rec[y].stage \notin Ended
        BY <2>1, <2>4, <4>1, <4>3, BothFacts DEF EndedOK, Missed
      <4>5. look[y] = "calm"
        BY <2>4, <3>5, <4>2, <4>4, AdvanceAway DEF Ended, Holding, Final
      <4>6. Acted(rec[y])
        BY <4>5, BothFacts DEF LookOK
      <4> QED
        BY <2>1, <4>1, <4>2, <4>4, <4>6 DEF Acted, Ended, Holding, Final
    <3> QED
      BY <3>3, <3>4, <3>5
  <2> QED
    BY <2>2, <2>3, <2>4
<1> QED
  BY <1>3, <1>4 DEF Hurry

\* A round that refunds found that the secret is not out, and can be no more.
LEMMA RefundMissed ==
  ASSUME Both, RefundRound("taker")
  PROVE  Missed'
<1> DEFINE y == "taker"
<1>1. con[y].st \in {"sent", "open"} /\ now >= con[y].lock
  BY BothFacts DEF RefundRound, CanSpend, TimeLeft
<1>2. ~ shown
  BY <1>1, BothFacts DEF ShownOK, Sure
<1>3. con' = con /\ now' = now /\ ~ shown'
  BY <1>2 DEF RefundRound, RoundStep, Sending, SpendContract
<1> QED
  BY <1>1, <1>2, <1>3 DEF Missed

LEMMA RedeemTakes ==
  ASSUME SwapTypeOK, RedeemRound("taker")
  PROVE  Taken'
<1>1. Other("taker") = "maker" /\ Mine("taker", "maker") = "redeem" /\ "maker" \in Sides
  BY DEF Other, Mine, Sides
<1>2. pend' = [pend EXCEPT !["maker"] = @ \cup {"redeem"}]
  BY <1>1 DEF RedeemRound, SpendContract
<1> QED
  BY <1>1, <1>2 DEF Taken, SwapTypeOK

\* A round of the taker ends the swap, or turns to its refund, for a reason.
LEMMA EndedRound ==
  ASSUME Both, [Next]_vars, RoundKinds("taker"), Told("taker")', work'["taker"].s.stage \in Ended
  PROVE  Taken' \/ Missed'
<1> DEFINE y == "taker"
           u == work[y].s
           r == work'[y].s
<1>1. SwapTypeOK /\ y \in Sides /\ y \notin rogue /\ rec[y] \in Copies(y) /\ u \in Copies(y)
  BY BothFacts DEF Copies
<1>2. ASSUME NEW pc \in {"refund", "spent", "store"}, NEW w, Goes(y, pc, w) PROVE r = w
  BY <1>1, <1>2, GoesFacts
<1>3. Told(y) \/ (WatchRound(y) /\ rec[y].stage = "LOCKED")
  BY <1>1, SentStep
<1>4. ~ FundRound(y)
  <2>1. WatchRound(y) /\ FundRound(y) => FALSE
    BY DEF WatchRound, FundRound
  <2> QED
    BY <1>1, <1>3, <2>1, NoFund
<1>5. Taken \/ Missed => Taken' \/ Missed'
  BY <1>4, TakenStays, MissedStays
<1>6. Told(y) => rec[y].stage \notin Before
  BY BothFacts DEF ToldOK
<1>7. ASSUME NEW q \in Copies(y), q.stage \in Ended, Told(y) PROVE Taken' \/ Missed'
  BY <1>5, <1>7, BothFacts DEF EndedOK
<1>8. CASE EarlyRound(y) \/ PaymentRound(y)
  <2>1. rec[y].stage \in Before /\ ~ WatchRound(y)
    BY <1>8 DEF EarlyRound, PaymentRound, WatchRound, Before, Early
  <2> QED
    BY <1>3, <1>6, <2>1
<1>9. CASE WatchRound(y)
  <2>1. PICK w : \/ Goes(y, "refund", w) /\ w.stage = rec[y].stage
                 \/ Goes(y, "store", w) /\ w.stage = "REDEEMING"
                 \/ /\ Goes(y, "store", w) /\ w.stage = "REFUNDED"
                    /\ con[y].st = "refunded" \/ "refund" \in pend[y]
                    /\ con[y].st # "redeemed"
    BY <1>9 DEF WatchRound
  <2>2. CASE w.stage = "REFUNDED" /\ con[y].st # "redeemed"
             /\ (con[y].st = "refunded" \/ "refund" \in pend[y])
    <3>1. now >= con[y].lock
      BY <2>2, BothFacts DEF RefundOK
    <3>2. ~ shown
      BY <2>2, BothFacts DEF ShownOK, Sure
    <3> QED
      BY <1>5, <3>1, <3>2 DEF Missed
  <2>3. CASE r = w /\ w.stage = rec[y].stage
    <3>1. rec[y].stage # "LOCKED"
      BY <2>3 DEF Ended, Final
    <3> QED
      BY <1>1, <1>3, <1>7, <2>3, <3>1
  <2>4. "REDEEMING" \notin Ended
    BY DEF Ended, Final
  <2> QED
    BY <1>2, <2>1, <2>2, <2>3, <2>4
<1>10. CASE RedeemRound(y)
  BY <1>1, <1>10, RedeemTakes
<1>11. CASE LookRound(y)
  <2>1. rec[y].stage = "REDEEMING" /\ Other(y) = "maker"
    BY <1>11 DEF LookRound, Other
  <2>2. shown
    BY <1>1, <2>1, BothFacts
  <2>3. PICK w : /\ Goes(y, "store", w)
                 /\ \/ w.stage = "DONE" /\ (con["maker"].st = "redeemed" \/ pend["maker"] # {})
                    \/ w.stage = "FAILED" /\ (con["maker"].st = "refunded" \/ "refund" \in pend["maker"])
                    \/ w.stage = "REDEEMING"
    BY <1>11, <2>1 DEF LookRound
  <2>4. w.stage # "REDEEMING"
    BY <1>2, <2>3 DEF Ended, Final
  <2>5. pend["maker"] \subseteq {"redeem", "refund"}
    BY <1>1, BothFacts DEF SwapTypeOK
  <2>6. ~ Taken => con["maker"].st # "refunded" /\ "refund" \notin pend["maker"]
    BY <2>2, ShownEarly
  <2> QED
    BY <1>5, <2>3, <2>4, <2>5, <2>6 DEF Taken
<1>12. CASE RefundRound(y)
  BY <1>12, RefundMissed
<1>13. CASE NoRefundRound(y)
  <2>1. Told(y)
    <3>1. ~ WatchRound(y)
      BY <1>13 DEF NoRefundRound, WatchRound, Busy
    <3> QED
      BY <1>3, <3>1
  <2>2. PICK w : /\ w.refund = u.refund
                 /\ \/ Goes(y, "store", w) /\ w.stage = u.stage
                    \/ Goes(y, "store", w) /\ w.refund
                    \/ Goes(y, "store", w) /\ ~ Paid(y) /\ now > con[y].lock + Day
                    \/ Goes(y, "spent", w) /\ w.stage = u.stage
    BY <1>13 DEF NoRefundRound
  <2>3. CASE w.stage = u.stage /\ r = w
    BY <1>1, <1>7, <2>1, <2>3
  <2>4. CASE w.refund
    BY <1>1, <1>5, <2>2, <2>4, BothFacts DEF EndedOK
  <2>5. CASE ~ Paid(y) /\ now > con[y].lock + Day
    <3>1. ~ shown
      BY <2>5, BothFacts DEF ShownOK, Sure, Paid, Spent
    <3>2. now >= con[y].lock
      BY <2>5, BothFacts, SwapAssumption
    <3> QED
      BY <1>5, <3>1, <3>2 DEF Missed
  <2> QED
    BY <1>2, <2>2, <2>3, <2>4, <2>5
<1>14. CASE RefundFailedRound(y)
  BY <1>5, <1>14, BothFacts DEF RefundFailedRound, TriesOK
<1> QED
  BY <1>4, <1>8, <1>9, <1>10, <1>11, <1>12, <1>13, <1>14 DEF RoundKinds

LEMMA EndedNext ==
  ASSUME Both, [Next]_vars
  PROVE  EndedOK'
<1> DEFINE y == "taker"
<1>1. SwapTypeOK /\ y \in Sides /\ y \notin rogue /\ SideOK(y) /\ rec[y] \in Copies(y) /\ work[y].s \in Copies(y)
  BY BothFacts DEF Copies
<1> SUFFICES ASSUME NEW r \in Copies(y)'
             PROVE  /\ r.stage \in Ended /\ Told(y)' => Taken' \/ Missed'
                    /\ r.redeemSince >= 0 => Taken'
                    /\ r.refund => Missed'
  BY DEF EndedOK
<1>2. r.redeemSince >= 0 => Taken'
  BY <1>1, RedeemTakes, RedeemFrom, TakenStays, BothFacts DEF EndedOK
<1>3. r.refund => Missed'
  <2> SUFFICES ASSUME NEW q \in Copies(y), q.refund PROVE Missed'
    BY <1>1, CheckedFrom, RefundMissed
  <2>1. Missed
    BY BothFacts DEF EndedOK
  <2>2. ~ FundRound(y)
    <3> SUFFICES ASSUME FundRound(y) PROVE FALSE
      OBVIOUS
    <3>1. work[y] = NoWork /\ rec[y].stage \in Early /\ RecordOK(y, rec[y])
      BY <1>1 DEF FundRound, SideOK, Early
    <3> QED
      BY <3>1 DEF Copies, RecordOK, NoWork, NoSwap
  <2> QED
    BY <2>1, <2>2, MissedStays
<1>4. ASSUME r.stage \in Ended, Told(y)' PROVE Taken' \/ Missed'
  <2>1. CASE RoundKinds(y) /\ r = work'[y].s
    BY <1>4, <2>1, EndedRound
  <2>2. CASE ~ (RoundKinds(y) /\ r = work'[y].s) /\ ~ Told(y)
    <3>1. WatchRound(y) /\ rec[y].stage = "LOCKED"
      BY <1>1, <1>4, <2>2, SentStep
    <3>2. rec' = rec /\ RoundKinds(y)
      BY <3>1 DEF WatchRound, RoundStep, RoundKinds
    <3>3. r = rec[y]
      BY <2>2, <3>2 DEF Copies
    <3> QED
      BY <1>4, <3>1, <3>3 DEF Ended, Final
  <2>3. CASE ~ (RoundKinds(y) /\ r = work'[y].s) /\ Told(y)
    <3>1. Taken \/ Missed => Taken' \/ Missed'
      BY <1>1, <2>3, NoFund, TakenStays, MissedStays
    <3>2. ASSUME NEW q \in Copies(y), q.stage = r.stage PROVE Taken' \/ Missed'
      BY <1>4, <2>3, <3>1, <3>2, BothFacts DEF EndedOK
    <3>3. rec[y].stage \notin Before
      BY <2>3, BothFacts DEF ToldOK
    <3>4. CASE Merged(y, r)
      BY <1>1, <3>2, <3>4 DEF Merged
    <3>5. CASE \E q \in Copies(y) : Alike(q, r)
      BY <3>2, <3>5 DEF Alike
    <3>6. CASE Alike(NoSwap, r) \/ Fresh(r, "INVITING") \/ Fresh(r, "TAKE_RECEIVED")
      <4>1. NoSwap.stage = "NONE"
        BY DEF NoSwap
      <4> QED
        BY <1>4, <3>6, <4>1 DEF Alike, Fresh, Ended, Final
    <3> QED
      BY <1>1, <2>3, <3>3, <3>4, <3>5, <3>6, CopyStep DEF CopyFrom
  <2> QED
    BY <2>1, <2>2, <2>3
<1> QED
  BY <1>2, <1>3, <1>4

LEMMA TriesNext ==
  ASSUME Both, [Next]_vars
  PROVE  TriesOK'
<1> DEFINE y == "taker"
<1>1. SwapTypeOK /\ y \in Sides /\ y \notin rogue /\ SideOK(y) /\ TriesOK
  BY BothFacts
<1> DEFINE Goal == /\ work'[y].pc = "refund" /\ shown' => now' < con'[y].lock
                   /\ work'[y].pc = "spent" => Missed'
<1> SUFFICES Goal
  BY DEF TriesOK
<1>2. work'[y] = NoWork => Goal
  BY DEF NoWork
<1>3. ASSUME work'[y] = work[y], Busy(y) PROVE Goal
  <2>1. ~ FundRound(y)
    BY <1>3 DEF FundRound
  <2>2. ~ Advance
    BY <1>1, <1>3, AdvanceAway DEF SideOK, CopyOK
  <2>3. con'[y].lock = con[y].lock /\ now' = now
    BY <1>1, <2>1, <2>2, LockStays
  <2>4. shown' => shown \/ now < con[y].lock
    BY ShownNow
  <2> QED
    BY <1>1, <1>3, <2>1, <2>3, <2>4, MissedStays DEF TriesOK
<1>4. work'[y] = work[y] => Goal
  <2>1. ~ Busy(y) /\ work'[y] = work[y] => Goal
    BY DEF Busy
  <2> QED
    BY <1>3, <2>1
<1>5. CASE RoundKinds(y)
  <2>1. ASSUME NEW pc \in {"refund", "spent", "store"}, NEW w, Goes(y, pc, w) PROVE work'[y].pc = pc
    BY <1>1, <2>1, GoesFacts
  <2>2. ASSUME NEW w, Goes(y, "store", w) PROVE Goal
    BY <2>1, <2>2
  <2>3. CASE EarlyRound(y) \/ FundRound(y) \/ PaymentRound(y)
    BY <2>2, <2>3 DEF EarlyRound, FundRound, PaymentRound
  <2>4. CASE RedeemRound(y) \/ LookRound(y) \/ RefundRound(y) \/ RefundFailedRound(y)
    BY <2>2, <2>4 DEF RedeemRound, LookRound, RefundRound, RefundFailedRound
  <2>5. CASE WatchRound(y)
    <3>1. PICK w : (Goes(y, "refund", w) /\ con[y].st # "redeemed") \/ Goes(y, "store", w)
      BY <2>5 DEF WatchRound
    <3>2. shown => con[y].st = "redeemed" \/ now < con[y].lock
      BY BothFacts DEF ShownOK, Sure
    <3>3. shown' = shown /\ now' = now /\ con' = con
      BY <2>5 DEF WatchRound, RoundStep, Apart
    <3> QED
      BY <2>1, <2>2, <3>1, <3>2, <3>3
  <2>6. CASE NoRefundRound(y)
    <3>1. PICK w : (Goes(y, "spent", w) /\ TimeLeft(y) = 0) \/ Goes(y, "store", w)
      BY <2>6 DEF NoRefundRound
    <3>2. CASE Goes(y, "spent", w) /\ TimeLeft(y) = 0
      <4>1. now >= con[y].lock
        BY <3>2, BothFacts DEF TimeLeft
      <4>2. ~ shown
        BY <1>1, <2>6, <4>1, BothFacts DEF NoRefundRound, TriesOK
      <4>3. shown' = shown /\ now' = now /\ con' = con
        BY <2>6 DEF NoRefundRound, RoundStep, Apart
      <4> QED
        BY <2>1, <3>2, <4>1, <4>2, <4>3 DEF Missed
    <3> QED
      BY <2>2, <3>1, <3>2
  <2> QED
    BY <1>5, <2>3, <2>4, <2>5, <2>6 DEF RoundKinds
<1>6. CASE Store(y) \/ Crash(y)
  BY <1>1, <1>2, <1>6 DEF Store, Crash, SwapTypeOK
<1>7. CASE ReadStep(y) \/ Take \/ Approve(y) \/ Cancel(y)
  BY <1>4, <1>7 DEF ReadStep, Take, Approve, Cancel
<1> QED
  BY <1>1, <1>4, <1>5, <1>6, <1>7, SideStep

\* A look that is still good: the chains stand still.
LEMMA LookStep ==
  ASSUME SwapTypeOK, [Next]_vars, NEW y \in Sides, look'[y] # "stale"
  PROVE  /\ Still
         /\ \/ Store(y)
            \/ RoundKinds(y) /\ look'[y] = (IF Busy(y) THEN look[y] ELSE "looking")
            \/ rec'[y] = rec[y] /\ work'[y] = work[y] /\ look'[y] = look[y]
<1> DEFINE Same == rec'[y] = rec[y] /\ work'[y] = work[y] /\ look'[y] = look[y]
           Goal == Still /\ (\/ Store(y)
                             \/ RoundKinds(y) /\ look'[y] = (IF Busy(y) THEN look[y] ELSE "looking")
                             \/ Same)
<1>1. ~ Stir
  BY DEF Stir
<1>2. ASSUME NEW s \in Sides, Tick(s) PROVE Goal
  <2>1. RoundKinds(s) /\ RoundStep(s)
    BY <1>2, TickEffect, RoundFacts
  <2>2. Looks(s) /\ rec' = rec
    BY <1>1, <2>1 DEF RoundStep
  <2>3. Still
    BY <1>1, <2>1, RoundChain DEF FundRound, RedeemRound, RefundRound, Sending
  <2>4. CASE s = y
    BY <2>1, <2>2, <2>3, <2>4 DEF Looks, Busy, SwapTypeOK
  <2>5. CASE s # y
    <3>1. look'[y] = look[y]
      BY <2>2, <2>5 DEF Looks, SwapTypeOK
    <3>2. work'[y] = work[y]
      BY <2>1, <2>5, RoundFacts, GoesFacts
    <3> QED
      BY <2>2, <2>3, <3>1, <3>2
  <2> QED
    BY <2>4, <2>5
<1>3. ASSUME NEW s \in Sides, Store(s) PROVE Goal
  <2>1. Still
    BY <1>3 DEF Store, world, Still
  <2>2. s # y => Same
    BY <1>3, StoreEffect, WritesFacts DEF SwapTypeOK
  <2> QED
    BY <1>3, <2>1, <2>2
<1>4. ASSUME NEW s \in Sides, ReadStep(s) PROVE Goal
  <2>1. Still
    BY <1>4 DEF ReadStep, world, Still
  <2>2. s # y /\ Same
    BY <1>4, ReadEffect, WritesFacts DEF SwapTypeOK
  <2> QED
    BY <2>1, <2>2
<1>5. ASSUME NEW s \in Sides, Approve(s) PROVE Goal
  <2>1. Still
    BY <1>5 DEF Approve, world, Still
  <2>2. s # y /\ Same
    BY <1>5, ApproveEffect, WritesFacts DEF SwapTypeOK
  <2> QED
    BY <2>1, <2>2
<1>6. ASSUME NEW s \in Sides, Crash(s) PROVE Goal
  BY <1>6 DEF Crash, world, Still, SwapTypeOK
<1>7. ASSUME NEW s \in Sides, Start(s) PROVE Goal
  BY <1>7 DEF Start, world, Still
<1>8. ASSUME Take PROVE Goal
  <2>1. Still
    BY <1>8 DEF Take, world, Still
  <2>2. "taker" # y /\ "taker" \in Sides /\ Same
    BY <1>8, TakeEffect, WritesFacts DEF SwapTypeOK, Sides
  <2> QED
    BY <2>1, <2>2
<1>9. ASSUME UNCHANGED vars PROVE Goal
  BY <1>9 DEF vars, Still
<1>10. ASSUME NEW s \in Sides,
              Cancel(s) \/ Pay(s) \/ ConfirmFunding(s) \/ ConfirmSpend(s) \/ Rogue(s) \/ AcceptInvite \/ Advance
       PROVE  Goal
  BY <1>1, <1>10 DEF Cancel, Pay, ConfirmFunding, ConfirmSpend, Rogue, AcceptInvite, Advance
<1> HIDE DEF Goal
<1>11. Goal
  BY <1>2, <1>3, <1>4, <1>5, <1>6, <1>7, <1>8, <1>9, <1>10 DEF Next, Engine, Screen, Block
<1> QED
  BY <1>11 DEF Goal

\* What a look that changed nothing found.
LEMMA LookedRound ==
  ASSUME Both, RoundKinds("taker"), Still, ~ Stir,
         Busy("taker") => look["taker"] = "looking",
         work'["taker"].s.stage = Was("taker")
  PROVE  Acted(work'["taker"].s)
<1> DEFINE y == "taker"
           u == work[y].s
           r == work'[y].s
<1>1. SwapTypeOK /\ y \in Sides /\ SideOK(y) /\ rec[y] \in Copies(y) /\ u \in Copies(y)
  BY BothFacts DEF Copies
<1>2. ASSUME NEW pc \in {"refund", "spent", "store"}, NEW w, Goes(y, pc, w) PROVE r = w
  BY <1>1, <1>2, GoesFacts
<1>3. r.stage \notin {"LOCKED", "REDEEMING"} => Acted(r)
  BY DEF Acted
<1>4. CASE EarlyRound(y) \/ PaymentRound(y)
  <2>1. ~ Busy(y) /\ rec[y].stage \in Early \cup {"WAIT_PAYMENT"}
    BY <1>4 DEF EarlyRound, PaymentRound
  <2> QED
    BY <1>3, <2>1 DEF Was, Early
<1>5. CASE FundRound(y) \/ RedeemRound(y) \/ RefundRound(y)
  BY <1>5 DEF FundRound, RedeemRound, RefundRound, Sending
<1>6. CASE WatchRound(y)
  <2>1. ~ Busy(y) /\ rec[y].stage \in {"LOCKED", "REFUNDING"}
    BY <1>6 DEF WatchRound
  <2>2. PICK w : \/ Goes(y, "refund", w) /\ con[y].st # "redeemed"
                 \/ Goes(y, "store", w) /\ w.stage = "REDEEMING"
                 \/ Goes(y, "store", w) /\ w.stage = "REFUNDED"
    BY <1>6 DEF WatchRound
  <2> QED
    BY <1>2, <2>1, <2>2 DEF Was, Acted
<1>7. CASE LookRound(y)
  <2>1. Other(y) = "maker" /\ Mine(y, "maker") = "redeem" /\ ~ Busy(y) /\ rec[y].stage = "REDEEMING"
    BY <1>7 DEF LookRound, Other, Mine
  <2>2. PICK w : /\ Goes(y, "store", w)
                 /\ w.stage = "REDEEMING" =>
                      /\ con["maker"].st \notin Spent
                      /\ rec[y].redeemSince >= 0 \/ ~ CanSpend(y, "maker")
    BY <1>7, <2>1 DEF LookRound
  <2>3. r = w /\ r.stage = "REDEEMING"
    BY <1>2, <2>1, <2>2 DEF Was
  <2>4. rec[y].redeemSince >= 0 => Taken
    BY <1>1, BothFacts DEF EndedOK
  <2>5. con["maker"].st = "open"
    <3>1. shown
      BY <1>1, <2>1, BothFacts
    <3> QED
      BY <2>2, <2>3, <3>1, ShownLocks
  <2>6. ~ CanSpend(y, "maker") => Taken
    BY <2>1, <2>5 DEF CanSpend, Taken
  <2> QED
    BY <2>2, <2>3, <2>4, <2>6 DEF Acted
<1>8. CASE NoRefundRound(y) \/ RefundFailedRound(y)
  <2>1. Busy(y) /\ work[y].pc \in {"refund", "spent"}
    BY <1>8 DEF NoRefundRound, RefundFailedRound, Busy
  <2>2. u.stage = work[y].was
    BY <1>1, <2>1 DEF SideOK, CopyOK
  <2>3. Acted(u)
    BY <2>1, <2>2, BothFacts DEF LookOK
  <2>4. r.stage = u.stage => Acted(r)
    BY <2>3 DEF Acted
  <2> QED
    BY <2>1, <2>2, <2>4 DEF Was
<1> QED
  BY <1>4, <1>5, <1>6, <1>7, <1>8 DEF RoundKinds

LEMMA LookNext ==
  ASSUME Both, [Next]_vars
  PROVE  LookOK'
<1> DEFINE y == "taker"
<1>1. SwapTypeOK /\ y \in Sides /\ SideOK(y)
  BY BothFacts
<1>2. CASE look'[y] = "stale"
  BY <1>2 DEF LookOK
<1>3. CASE look'[y] # "stale" /\ Store(y)
  <2>1. Still
    BY <1>1, <1>3, LookStep
  <2>2. PICK n : /\ Writes(y, n) /\ Merged(y, n)
                 /\ look' = [look EXCEPT ![y] = IF @ = "looking" /\ n = rec[y] THEN "calm" ELSE "stale"]
    BY <1>1, <1>3, StoreEffect
  <2>3. look[y] = "looking" /\ n = rec[y] /\ look'[y] = "calm" /\ rec'[y] = n
    BY <1>1, <1>3, <2>2, WritesFacts DEF SwapTypeOK
  <2>4. Busy(y)
    BY <1>3 DEF Store, Busy
  <2>5. n.stage \in {"REFUNDING", "CANCELLED"} \/ (n.stage = work[y].s.stage /\ n.stage = work[y].was)
    BY <1>1, <2>2, <2>3, <2>4 DEF Merged, SideOK, CopyOK
  <2>6. Acted(n)
    BY <2>3, <2>4, <2>5, BothFacts DEF LookOK, Acted
  <2> QED
    BY <2>1, <2>3, <2>6 DEF LookOK, Acted, Taken, Still
<1>4. CASE look'[y] # "stale" /\ RoundKinds(y) /\ ~ Store(y)
           /\ look'[y] = (IF Busy(y) THEN look[y] ELSE "looking")
  <2>1. Still /\ ~ Stir /\ rec' = rec
    BY <1>1, <1>4, LookStep, RoundFacts DEF RoundStep, Stir
  <2>2. work'[y].was = Was(y)
    BY <1>1, <1>4, RoundFacts, GoesFacts
  <2>3. look'[y] = "calm" => Acted(rec'[y])
    BY <1>4, <2>1, BothFacts DEF LookOK
  <2>4. look'[y] = "looking" /\ work'[y].s.stage = work'[y].was => Acted(work'[y].s)
    BY <1>4, <2>1, <2>2, LookedRound
  <2> QED
    BY <2>1, <2>3, <2>4 DEF LookOK, Acted, Taken, Still
<1>5. CASE look'[y] # "stale" /\ rec'[y] = rec[y] /\ work'[y] = work[y] /\ look'[y] = look[y]
  <2>1. Still
    BY <1>1, <1>5, LookStep
  <2> QED
    BY <1>5, <2>1, BothFacts DEF LookOK, Acted, Taken, Busy, Still
<1> QED
  BY <1>1, <1>2, <1>3, <1>4, <1>5, LookStep

LEMMA TakerNext ==
  ASSUME BaseInv, MakerInv, TakerInv, [Next]_vars
  PROVE  TakerInv'
<1>1. rogue' = rogue
  BY RogueStays DEF BaseInv
<1>2. CASE rogue # {}
  BY <1>1, <1>2 DEF TakerInv
<1>3. CASE rogue = {}
  <2>1. Both
    BY <1>3 DEF Both
  <2> QED
    BY <2>1, LockedNext, CheckedNext, EndedNext, InTimeNext, HurryNext, TriesNext, LookNext DEF TakerInv
<1> QED
  BY <1>2, <1>3

LEMMA TakerInit == Init => TakerInv
<1> SUFFICES ASSUME Init PROVE TakerInv
  OBVIOUS
<1>1. \A s \in Sides : rec[s] = NoSwap /\ work[s] = NoWork /\ con[s] = NoContract /\ pend[s] = {} /\ sent[s] = {}
  BY DEF Init
<1>2. ~ shown /\ \A s \in Sides : look[s] = "stale" /\ away[s] = 0
  BY DEF Init
<1>3. "maker" \in Sides /\ "taker" \in Sides
  BY DEF Sides
<1>4. \A r \in Copies("taker") : r = NoSwap
  BY <1>1, <1>3 DEF Copies, NoWork
<1>5. LockedOK /\ CheckedOK /\ EndedOK
  BY <1>1, <1>3, <1>4 DEF LockedOK, CheckedOK, EndedOK, NoContract, NoSwap, Checking, Told
<1>6. InTime /\ Hurry /\ AwayOK /\ TriesOK /\ LookOK
  BY <1>1, <1>2, <1>3, SwapAssumption DEF InTime, Hurry, AwayOK, TriesOK, LookOK, NoWork
<1> QED
  BY <1>5, <1>6 DEF TakerInv

\* NoLoss of the taker, of a maker who runs this program: the secret it finds
\* in its own contract redeems the maker's before that can go back.
LEMMA TakerKeeps ==
  ASSUME Both, con["taker"].st = "redeemed"
  PROVE  con["maker"].good /\ con["maker"].st \in {"open", "redeemed"}
<1>1. shown
  BY BothFacts DEF ExposedInv, Exposed
<1>2. con["maker"].good /\ con["maker"].st \in {"open"} \cup Spent
  BY <1>1, ShownLocks
<1>3. Taken => con["maker"].st # "refunded"
  BY BothFacts DEF Taken, RefundOK, InTime
<1>4. ~ Taken => con["maker"].st # "refunded"
  BY <1>1, ShownEarly
<1> QED
  BY <1>2, <1>3, <1>4 DEF Spent

\* Both or neither.  Whoever runs this program never has its coin taken while
\* the other coin goes back, or is not the one agreed on: the maker whatever
\* the taker is, the taker with a maker who runs it too, away for as long as
\* its lock leaves time for.  Crashes, refused locks, late approvals and
\* cancels are all in it (SwapEngine::Tick, Round and TryRefund).
THEOREM NoLossCorrect == Spec => []NoLoss
<1>1. Init => BaseInv /\ MakerInv /\ TakerInv
  BY MakerInit, TakerInit
<1>2. BaseInv /\ MakerInv /\ TakerInv /\ [Next]_vars => (BaseInv /\ MakerInv /\ TakerInv)'
  BY BaseNext, MakerNext, TakerNext
<1>3. BaseInv /\ MakerInv /\ TakerInv => NoLoss
  <2> SUFFICES ASSUME BaseInv, MakerInv, TakerInv, NEW s \in Sides \ rogue,
                      s = "maker" \/ rogue = {}, con[s].st = "redeemed"
               PROVE  con[Other(s)].good /\ con[Other(s)].st \in {"open", "redeemed"}
    BY DEF NoLoss
  <2>1. CASE s = "maker"
    BY <2>1, MakerKeeps DEF Other
  <2>2. CASE s = "taker"
    <3>1. Both
      BY <2>2 DEF Both
    <3> QED
      BY <2>2, <3>1, TakerKeeps DEF Other
  <2> QED
    BY <2>1, <2>2 DEF Sides
<1> QED
  BY <1>1, <1>2, <1>3, PTL DEF Spec

=============================================================================
