------------------------------- MODULE MCKeys -------------------------------
(***************************************************************************)
(* Small instances of Keys: what is asked of the wallet, and in what order.*)
(***************************************************************************)
EXTENDS Keys

\* The orders of a bag of operations.
Orders(n, bag) ==
  {s \in [1 .. n -> DOMAIN bag] : \A op \in DOMAIN bag : Cardinality({i \in 1 .. n : s[i] = op}) = bag[op]}

Plan(start, ops, coins, fail, crash) ==
  [start |-> start, ops |-> ops, coins |-> coins, fail |-> fail, crash |-> crash]

\* A wallet in use, with a phrase from some point on or from before schemas.
Use == {Plan("fresh", s, 0, 1, 1) : s \in Orders(5, [draw |-> 3, phrase |-> 1, backup |-> 1])}
       \cup {Plan("legacy", s, 0, 1, 1) : s \in Orders(4, [draw |-> 3, backup |-> 1])}
\* ... encrypted.
Encrypt == {Plan("fresh", <<"draw", "phrase", "draw", "encrypt", "draw", "change", "draw">>, 0, 0, 2),
            Plan("fresh", <<"encrypt", "draw", "draw">>, 0, 0, 2),
            Plan("legacy", <<"draw", "encrypt", "draw", "draw">>, 0, 0, 2)}
Restore ==
  {Plan("fresh", <<"phrase">> \o s \o <<"lose", "restore", "draw", "draw">>, 2, 0, 1) :
     s \in Orders(3, [draw |-> 2, change |-> 1])}
  \cup {Plan("legacy", <<"draw", "draw", "lose", "restore", "draw", "draw">>, 2, 0, 1)}
\* ... with a write that is refused on the way, with a change key derived on
\* the way, or a second time with the machine lost in between.
Disturb ==
  {Plan("legacy", <<"draw", "lose", "restore", "draw">>, 1, 1, 0),
   Plan("fresh", <<"phrase", "draw", "change", "lose", "restore", "change">>, 2, 0, 0),
   Plan("fresh", <<"phrase", "draw", "lose", "restore", "change", "lose", "restore", "change">>, 2, 0, 0)}

\* ... or a second time in the wallet of the first.
Again == {Plan("fresh", <<"phrase", "draw", "lose", "restore", "restore">>, 1, 0, 0)}

\* The file is lost and the next start makes a new one, a write of which is refused.
NewFile == {Plan("fresh", <<"lose", "draw">>, 0, 1, 0)}

AllPlans == Use \cup Encrypt \cup Restore \cup Disturb \cup Again \cup NewFile
=============================================================================
