------------------------------ MODULE MCP2Pool ------------------------------
(***************************************************************************)
(* Small networks of P2Pool nodes.                                         *)
(***************************************************************************)
EXTENDS P2Pool

CONSTANTS n1, n2, n3

S(prev, uncles) == [prev |-> prev, uncles |-> uncles]
Straight(n) == [i \in 1 .. n |-> S(i - 1, {})]

Full(ids) == [ids |-> ids, tip |-> 0]
Upto(n) == Full([i \in 1 .. n |-> i])
Part(ids, tip) == [ids |-> ids, tip |-> tip]
Nothing == Full(<<>>)

Plan(tree, ha, hb, hc, conn, budget) ==
  [tree |-> tree, has |-> (n1 :> ha @@ n2 :> hb @@ n3 :> hc), links |-> conn, left |-> budget]
Budget(miners, mine, connect, cut, restart, tick, steady) ==
  [miners |-> miners, mine |-> mine, connect |-> connect, cut |-> cut, restart |-> restart,
   tick |-> tick, steady |-> steady]
Once(l) == l :> 1
NoLink == [l \in {} |-> 0]

\* Connected nodes mine on: two with the same shares, three of whom two part, and
\* one that is ahead of the others, by siblings too.
Steady ==
  {Plan(Straight(3), Upto(3), Upto(3), Nothing, {{n1, n2}}, Budget({n1, n2}, 4, NoLink, 0, {}, 0, TRUE))}
Three ==
  {Plan(Straight(1), Upto(1), Upto(1), Upto(1), {{n1, n2}, {n2, n3}, {n1, n3}}, Budget({n1, n2}, 2, NoLink, 1, {}, 0, TRUE))}
Twins == Straight(2) \o <<S(2, {}), S(2, {}), S(3, {}), S(3, {4})>>
Ahead ==
  {Plan(Twins, Upto(6), Upto(2), Upto(1), {{n1, n2}, {n2, n3}}, Budget({n1}, 1, NoLink, 0, {}, 0, TRUE))}

\* A line longer than a history, with uncles at its beginning and in its middle.
Long == <<S(0, {}), S(1, {}), S(1, {}), S(2, {3}), S(4, {}), S(5, {}), S(6, {}), S(7, {}), S(7, {}),
          S(8, {9}), S(10, {}), S(11, {}), S(12, {}), S(13, {}), S(14, {})>>
\* A node starts with nothing, with the beginning of the line, or with that of a
\* history that was cut off, and syncs; shares are mined meanwhile.
Sync == {Plan(Long, Upto(15), Nothing, Nothing, {}, Budget({n1}, 2, Once({n1, n2}), 0, {}, 0, FALSE)),
         Plan(Long, Upto(15), Nothing, Nothing, {}, Budget({n1, n2}, 1, Once({n1, n2}), 0, {}, 1, FALSE))}
Behind == {Plan(Long, Upto(15), Upto(8), Nothing, {}, Budget({n1, n2}, 2, Once({n1, n2}), 0, {n2}, 0, FALSE))}
CutOff == {Plan(Long, Upto(15), Part(<<3>>, 12), Nothing, {}, Budget({n1}, 1, Once({n1, n2}), 0, {}, 2, FALSE)),
           Plan(Long, Upto(15), Part(<<3, 2>>, 12), Nothing, {}, Budget({n1}, 1, Once({n1, n2}), 0, {}, 2, FALSE))}

\* Lines that forked, and a third node that has neither; lines that never met.
Fork == Straight(4) \o <<S(2, {}), S(5, {}), S(6, {})>>
Split == {Plan(Fork, Upto(4), Full(<<1, 2, 5, 6, 7>>), Nothing, {{n1, n2}},
               Budget({n1, n2}, 1, Once({n2, n3}), 0, {}, 0, FALSE)),
          Plan(Fork, Upto(4), Full(<<1, 2, 5, 6, 7>>), Nothing, {{n1, n2}},
               Budget({n1, n2}, 2, NoLink, 0, {}, 0, FALSE))}
Lines == Straight(8) \o <<S(0, {}), S(9, {}), S(10, {}), S(11, {})>>
Apart == {Plan(Lines, Upto(8), Full(<<9, 10, 11, 12>>), Nothing, {},
               Budget({n1, n2}, 1, Once({n1, n2}), 0, {}, 2, FALSE))}

\* A node whose room is full.
Bushy == Straight(11) \o <<S(10, {}), S(11, {12}), S(2, {}), S(2, {}), S(4, {}), S(5, {}), S(17, {})>>
Crowded == {Plan(Bushy, Full(<<1, 2, 3, 14, 15, 4, 5, 16, 6, 17, 7, 18, 8, 9, 10, 11, 12, 13>>), Upto(13), Nothing,
                 {{n1, n2}}, Budget({n1, n2}, 2, NoLink, 0, {}, 0, FALSE))}

AllPlans == Steady \cup Three \cup Ahead \cup Sync \cup Behind \cup CutOff \cup Split \cup Apart \cup Crowded
=============================================================================
