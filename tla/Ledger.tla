------------------------------- MODULE Ledger -------------------------------
(***************************************************************************)
(* What a node's block handling promises to whoever reads the chain: one   *)
(* line of blocks from the genesis block, replaced only as a whole, only   *)
(* by a higher one, and only by one on which every coin is spent once, by  *)
(* a later transaction, at an age its locks allow.  The one step back is   *)
(* the repair at start, along the line itself.  Nothing is said here of    *)
(* entries, files, views, branches, orphans or crashes.                    *)
(***************************************************************************)
EXTENDS Integers, Sequences, Functions

CONSTANTS Blocks, Genesis, Anc, Height, Vtx, In, Out, Lock, COINBASE_MATURITY

VARIABLE tip    \* the block the line ends in

Line(e) == Anc[e] \ {Genesis}
Mined(t) == In[t] = {}

\* Transaction i of block a comes before transaction j of block b.
Earlier(a, i, b, j) == IF a = b THEN i < j ELSE a \in Anc[b]

\* A transaction t of block b may spend an output that s made in block a.
OldEnough(s, a, t, b) ==
  /\ Height[b] >= Height[a] + Lock[t]
  /\ Mined(s) /\ a # b => Height[b] >= Height[a] + COINBASE_MATURITY

SpentOnce(e) ==
  \A a, b \in Line(e) : \A i \in DOMAIN Vtx[a], j \in DOMAIN Vtx[b] :
     In[Vtx[a][i]] \cap In[Vtx[b][j]] # {} => a = b /\ i = j

SpentFromLine(e) ==
  \A b \in Line(e) : \A j \in DOMAIN Vtx[b] : \A o \in In[Vtx[b][j]] :
     /\ o[2] \in DOMAIN Out[o[1]]
     /\ \E a \in Line(e) : \E i \in DOMAIN Vtx[a] :
          Vtx[a][i] = o[1] /\ Earlier(a, i, b, j) /\ OldEnough(o[1], a, Vtx[b][j], b)

Outputs(t) == {<<t, n>> : n \in DOMAIN Out[t]}
Value == [o \in UNION {Outputs(t) : t \in DOMAIN Out} |-> Out[o[1]][o[2]]]

\* Only coinbases bring coins in.
PaysWhatItSpends(e) ==
  \A b \in Line(e) : \A j \in DOMAIN Vtx[b] : LET t == Vtx[b][j] IN
     Mined(t) \/ SumFunctionOnSet(Value, In[t]) >= SumFunctionOnSet(Value, Outputs(t))

ValidLine(e) == SpentOnce(e) /\ SpentFromLine(e) /\ PaysWhatItSpends(e)

Extend(b) == Height[b] > Height[tip] /\ ValidLine(b) /\ tip' = b
Rewind(b) == b \in Anc[tip] \ {tip} /\ tip' = b

Init == tip = Genesis
Next == \E b \in Blocks : Extend(b) \/ Rewind(b)
Spec == Init /\ [][Next]_tip
=============================================================================
