------------------------------- MODULE MCAgain -------------------------------
(***************************************************************************)
(* "Restore, then spend, then restore again" (walletcmd.cpp, the comment on *)
(* RESTORE_MIN_SCAN): Keys with a history variable, which nothing in Keys   *)
(* reads.                                                                  *)
(***************************************************************************)
EXTENDS MCKeys

VARIABLE stopped  \* where the change of a restored wallet starts: keys at which its search ended

AgainInit == Init /\ stopped = {}

\* The search has ended by itself in a wallet with something to spend.
AgainNext ==
  /\ Next
  /\ stopped' = IF RestoreFinish /\ Undisturbed /\ got # {} /\ rst.total < RESTORE_MAX
                THEN stopped \cup {Key("change", rst.seed, mem.next.change)}
                ELSE stopped

AgainSpec == AgainInit /\ [][AgainNext]_<<vars, stopped>>

\* The machine is lost, the wallet restored, spent from and restored again.
SpentBetween == {Plan("fresh", <<"phrase", "draw", "lose", "restore", "change", "lose", "restore">>, 2, 0, 0)}

\* "Change starts from wherever that restore stopped ... The default restore has to
\* look far enough for that ordinary 'restore, then spend, then restore again' path"
\* (walletcmd.cpp): the first change of a restored wallet, at the index where the
\* search of RestoreFromPhrase ended, is found by the next restore.
RestoreAgainFinds ==
  rst.at = "finish" /\ Undisturbed /\ rst.total < RESTORE_MAX =>
    \A k \in stopped : SeedOf(k) = rst.seed /\ k \in paid => k \in got
=============================================================================
