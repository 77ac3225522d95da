---------------------------- MODULE ChainProofs ----------------------------
(***************************************************************************)
(* Proofs about Chain, for every tree of blocks and every set of           *)
(* transactions: the committed transaction index is always the replay of   *)
(* the committed chain, pnext in memory and hashNext on disk link the best *)
(* chain, which is what IsInMainChain relies on, its coins are never worth *)
(* more than its subsidies, and a process that runs on ends every handler  *)
(* on the longest valid chain.                                             *)
(***************************************************************************)
EXTENDS Chain, NaturalSets

----------------------------------------------------------------------------
(* The tree, and what sort of thing its transactions are.                  *)

\* The parts of the assumptions that the proofs below go back to.
LEMMA Basics ==
  /\ Genesis \in Blocks /\ None \notin Blocks /\ None \notin Txs
  /\ Absent \notin Blocks /\ None # Absent
  /\ \A b \in Blocks : Prev[b] \in Blocks /\ Anc[b] \subseteq Blocks /\ Genesis \in Anc[b]
  /\ \A b \in Blocks : \A x \in Anc[b] : Anc[x] \subseteq Anc[b]
  /\ \A b \in Blocks : Vtx[b] \in Seq(Txs)
  /\ \A b \in Blocks : \A i \in DOMAIN Vtx[b] :
       i \in Nat \ {0} /\ i <= Len(Vtx[b]) /\ Vtx[b][i] \in Txs
  /\ \A t \in Txs : In[t] \subseteq Outpoints
  /\ \A o \in Outpoints : o[1] \in Txs
<1>1. \A b \in Blocks : Vtx[b] \in Seq(Txs)
  BY TxAssumption
<1>2. \A b \in Blocks : \A i \in DOMAIN Vtx[b] :
        i \in Nat \ {0} /\ i <= Len(Vtx[b]) /\ Vtx[b][i] \in Txs
  BY <1>1
<1>3. \A t \in Txs : In[t] \subseteq Outpoints
  BY DEF Outpoints
<1>4. \A o \in Outpoints : o[1] \in Txs
  BY TxAssumption DEF Outpoints
<1>5. /\ Genesis \in Blocks /\ None \notin Blocks /\ None \notin Txs
      /\ Absent \notin Blocks /\ None # Absent
  BY TreeAssumption
<1>6. \A b \in Blocks : Prev[b] \in Blocks /\ Anc[b] \subseteq Blocks /\ Genesis \in Anc[b]
  BY TreeAssumption
<1>7. \A b \in Blocks : \A x \in Anc[b] : Anc[x] \subseteq Anc[b]
  BY TreeAssumption
<1> QED
  BY <1>1, <1>2, <1>3, <1>4, <1>5, <1>6, <1>7

\* A block is above its parent and below nothing of the parent's ancestry.
LEMMA ParentFacts ==
  ASSUME NEW c \in Blocks \ {Genesis}
  PROVE  /\ Prev[c] \in Blocks
         /\ Anc[c] = Anc[Prev[c]] \cup {c}
         /\ c \notin Anc[Prev[c]]
         /\ \A b \in Anc[Prev[c]] : b \in Blocks /\ Height[b] < Height[c]
<1>1. Prev[c] \in Blocks /\ Anc[c] = Anc[Prev[c]] \cup {c} /\ Height[c] = Height[Prev[c]] + 1
  BY TreeAssumption
<1>2. \A b \in Anc[Prev[c]] : b \in Blocks /\ Height[b] <= Height[Prev[c]]
  BY <1>1, TreeAssumption
<1>3. \A b \in Anc[Prev[c]] : b \in Blocks /\ Height[b] < Height[c]
  BY <1>1, <1>2, TreeAssumption
<1>4. c \notin Anc[Prev[c]]
  <2>1. Height[c] \in Nat
    BY TreeAssumption
  <2> QED
    BY <1>3, <2>1
<1> QED
  BY <1>1, <1>3, <1>4

\* Every block is its own ancestor.
LEMMA SelfAncestor ==
  ASSUME NEW b \in Blocks
  PROVE  b \in Anc[b]
<1>1. CASE b = Genesis
  BY <1>1, TreeAssumption
<1>2. CASE b # Genesis
  BY <1>2, TreeAssumption
<1> QED
  BY <1>1, <1>2

----------------------------------------------------------------------------
(* How a view moves.                                                       *)

\* A view that has all of cur is the view of the chain up to cur: what
\* ConnectBlock arrives at.
LEMMA ViewConnected ==
  ASSUME NEW d \in DbType, NEW a \in Blocks, NEW c \in Blocks, View(d, a, c, Len(Vtx[c]))
  PROVE  View(d, c, None, 0)
<1>0. c # None /\ c \in Blocks \ {Genesis} /\ Prev[c] = a /\ Good(c)
  BY Basics DEF View, Position
<1>1. Anc[c] = Anc[a] \cup {c}
  BY <1>0, ParentFacts
<1>2. Position(c, None, 0)
  BY <1>0, <1>1 DEF View, Position
<1>3. ASSUME NEW b, NEW i
      PROVE  Applied(b, i, c, None, 0) <=> Applied(b, i, a, c, Len(Vtx[c]))
  BY <1>0, <1>1, Basics DEF Applied
<1>4. PosOK(d, c, None, 0)
  BY <1>3 DEF View, PosOK
<1>5. OrderOK(c, None, 0)
  BY <1>3 DEF View, OrderOK
<1> QED
  BY <1>2, <1>4, <1>5 DEF View

\* The view of the chain up to a block is one that has all of that block on
\* top of its parent: where DisconnectBlock starts.
LEMMA ViewToDisconnect ==
  ASSUME NEW d \in DbType, NEW a \in Blocks \ {Genesis}, View(d, a, None, 0)
  PROVE  View(d, Prev[a], a, Len(Vtx[a]))
<1>1. Anc[a] = Anc[Prev[a]] \cup {a} /\ Prev[a] \in Blocks
  BY ParentFacts
<1>2. Position(Prev[a], a, Len(Vtx[a]))
  <2>1. Len(Vtx[a]) \in Nat /\ a # None
    BY Basics
  <2> QED
    BY <1>1, <2>1 DEF View, Position
<1>3. ASSUME NEW b, NEW i
      PROVE  Applied(b, i, a, None, 0) <=> Applied(b, i, Prev[a], a, Len(Vtx[a]))
  BY <1>1, Basics DEF Applied
<1>4. PosOK(d, Prev[a], a, Len(Vtx[a]))
  BY <1>3 DEF View, PosOK
<1>5. OrderOK(Prev[a], a, Len(Vtx[a]))
  BY <1>3 DEF View, OrderOK
<1> QED
  BY <1>2, <1>4, <1>5 DEF View

\* With none of cur in it, a view does not depend on cur.
LEMMA ViewAtStart ==
  ASSUME NEW d \in DbType, NEW a \in Blocks, NEW c, View(d, a, c, 0),
         NEW e, e = None \/ (e \in Blocks \ {Genesis} /\ Prev[e] = a /\ Good(e))
  PROVE  View(d, a, e, 0)
<1>1. Position(a, e, 0)
  <2>1. e \in Blocks => 0 <= Len(Vtx[e])
    BY Basics
  <2> QED
    BY <2>1 DEF View, Position
<1>2. ASSUME NEW b, NEW i
      PROVE  Applied(b, i, a, e, 0) <=> Applied(b, i, a, c, 0)
  <2>1. b \in Blocks /\ i \in DOMAIN Vtx[b] => ~ (i <= 0)
    BY Basics
  <2> QED
    BY <2>1 DEF Applied
<1>3. PosOK(d, a, e, 0)
  BY <1>2 DEF View, PosOK
<1>4. OrderOK(a, e, 0)
  BY <1>2 DEF View, OrderOK
<1> QED
  BY <1>1, <1>3, <1>4 DEF View

\* Facts about the entry of the last transaction of a view, and what
\* distinguishes the view with it from the view without.
LEMMA LastApplied ==
  ASSUME NEW a \in Blocks, NEW c \in Blocks, NEW n \in Nat \ {0}, Position(a, c, n)
  PROVE  /\ n \in DOMAIN Vtx[c] /\ Vtx[c][n] \in Txs
         /\ c \notin Anc[a] /\ c # Genesis /\ c # None
         /\ Applied(c, n, a, c, n)
         /\ \A b, i : Applied(b, i, a, c, n) <=> Applied(b, i, a, c, n - 1) \/ (b = c /\ i = n)
         /\ ~ Applied(c, n, a, c, n - 1)
<1>1. c \in Blocks \ {Genesis} /\ c # None /\ Prev[c] = a /\ n <= Len(Vtx[c])
  BY Basics DEF Position
<1>2. c \notin Anc[a]
  BY <1>1, ParentFacts
<1>3. n \in DOMAIN Vtx[c] /\ Vtx[c][n] \in Txs
  BY <1>1, Basics
<1>4. ASSUME NEW b, NEW i
      PROVE  Applied(b, i, a, c, n) <=> Applied(b, i, a, c, n - 1) \/ (b = c /\ i = n)
  <2>1. CASE b \in Blocks /\ i \in DOMAIN Vtx[b]
    <3>1. i \in Nat
      BY <2>1, Basics
    <3>2. i <= n <=> i <= n - 1 \/ i = n
      BY <3>1
    <3> QED
      BY <2>1, <3>2 DEF Applied
  <2>2. CASE ~ (b \in Blocks /\ i \in DOMAIN Vtx[b])
    BY <1>3, <2>2 DEF Applied
  <2> QED
    BY <2>1, <2>2
<1> QED
  BY <1>1, <1>2, <1>3, <1>4 DEF Applied

\* DisconnectInputs of the last transaction undoes exactly that transaction.
\* Its outputs are unspent then, because an input comes after what it spends.
LEMMA ViewDisconnectTx ==
  ASSUME NEW d \in DbType, NEW a \in Blocks, NEW c \in Blocks, NEW n \in Nat \ {0},
         View(d, a, c, n)
  PROVE  /\ DisconnectInputs(d, Vtx[c][n]) \in DbType
         /\ View(DisconnectInputs(d, Vtx[c][n]), a, c, n - 1)
<1> DEFINE t == Vtx[c][n]
           e == DisconnectInputs(d, t)
<1>1. /\ n \in DOMAIN Vtx[c] /\ t \in Txs
      /\ c \notin Anc[a] /\ c # Genesis /\ c # None
      /\ Applied(c, n, a, c, n) /\ ~ Applied(c, n, a, c, n - 1)
  BY LastApplied DEF View
<1>2. \A b, i : Applied(b, i, a, c, n) <=> Applied(b, i, a, c, n - 1) \/ (b = c /\ i = n)
  BY LastApplied DEF View
<1>3. /\ e \in DbType
      /\ e.pos = [d.pos EXCEPT ![t] = None]
      /\ e.spent = [o \in Outpoints |-> IF o \in In[t] \/ o[1] = t THEN None ELSE d.spent[o]]
  BY <1>1 DEF DbType, DisconnectInputs
<1>4. d.pos \in [Txs -> Blocks \cup {None}] /\ d.spent \in [Outpoints -> Txs \cup {None}]
  BY DEF DbType
<1> HIDE DEF t, e
<1>5. d.pos[t] = c /\ d.pos[t] # None
  <2>1. \E i \in DOMAIN Vtx[c] : Applied(c, i, a, c, n) /\ Vtx[c][i] = t
    BY <1>1 DEF t
  <2> QED
    BY <1>1, <2>1 DEF View, PosOK
<1>6. \A b, i : Applied(b, i, a, c, n) /\ Vtx[b][i] = t => b = c /\ i = n
  <2> SUFFICES ASSUME NEW b, NEW i, Applied(b, i, a, c, n), Vtx[b][i] = t
               PROVE  b = c /\ i = n
    OBVIOUS
  <2>1. b \in Blocks /\ i \in DOMAIN Vtx[b]
    BY DEF Applied
  <2>2. d.pos[t] = b
    BY <1>1, <2>1 DEF View, PosOK
  <2>3. b = c
    BY <1>5, <2>2
  <2>4. WellShaped(c)
    BY <1>1 DEF View, Position, Good
  <2> QED
    BY <1>1, <2>1, <2>3, <2>4 DEF WellShaped, t
<1>7. Position(a, c, n - 1)
  BY <1>1 DEF View, Position
<1>8. PosOK(e, a, c, n - 1)
  <2> SUFFICES ASSUME NEW u \in Txs, NEW b \in Blocks
               PROVE  e.pos[u] = b <=>
                        \E i \in DOMAIN Vtx[b] : Applied(b, i, a, c, n - 1) /\ Vtx[b][i] = u
    BY DEF PosOK
  <2>1. CASE u = t
    <3>1. e.pos[u] # b
      BY <1>1, <1>3, <1>4, <2>1, Basics
    <3>2. ~ \E i \in DOMAIN Vtx[b] : Applied(b, i, a, c, n - 1) /\ Vtx[b][i] = u
      BY <1>1, <1>2, <1>6, <2>1
    <3> QED
      BY <3>1, <3>2
  <2>2. CASE u # t
    <3>1. e.pos[u] = d.pos[u]
      BY <1>3, <1>4, <2>2
    <3>2. d.pos[u] = b <=> \E i \in DOMAIN Vtx[b] : Applied(b, i, a, c, n) /\ Vtx[b][i] = u
      BY DEF View, PosOK
    <3> QED
      BY <1>2, <2>2, <3>1, <3>2 DEF t
  <2> QED
    BY <2>1, <2>2
<1>9. \A b, i : Applied(b, i, a, c, n - 1) => \A o \in In[Vtx[b][i]] : o[1] # t
  <2> SUFFICES ASSUME NEW b, NEW i, Applied(b, i, a, c, n - 1), NEW o \in In[Vtx[b][i]], o[1] = t
               PROVE  FALSE
    OBVIOUS
  <2>1. b \in Blocks /\ i \in DOMAIN Vtx[b] /\ i \in Nat /\ Applied(b, i, a, c, n)
    <3>1. b \in Blocks /\ i \in DOMAIN Vtx[b]
      BY DEF Applied
    <3> QED
      BY <1>2, <3>1, Basics
  <2>2. PICK f \in Blocks : \E j \in DOMAIN Vtx[f] :
           Applied(f, j, a, c, n) /\ Vtx[f][j] = o[1] /\ Before(f, j, b, i)
    BY <2>1 DEF View, OrderOK
  <2>3. Before(c, n, b, i)
    BY <1>6, <2>2
  <2>4. CASE b \in Anc[a] /\ b # Genesis
    <3>1. c \in Anc[b]
      BY <1>1, <2>3, <2>4 DEF Before
    <3>2. Anc[b] \subseteq Anc[a]
      BY <2>4, Basics
    <3> QED
      BY <1>1, <3>1, <3>2
  <2>5. CASE b = c /\ i <= n - 1
    BY <2>1, <2>3, <2>5 DEF Before
  <2> QED
    BY <2>4, <2>5 DEF Applied
<1>10. SpentOK(e)
  <2> SUFFICES ASSUME NEW o \in Outpoints, NEW u \in Txs
               PROVE  e.spent[o] = u <=> o \in In[u] /\ e.pos[u] # None
    BY DEF SpentOK
  <2>0. /\ d.spent[o] = u <=> o \in In[u] /\ d.pos[u] # None
        /\ d.spent[o] = t <=> o \in In[t] /\ d.pos[t] # None
    BY <1>1 DEF View, SpentOK
  <2>1. u # None /\ e.pos[t] = None /\ (u # t => e.pos[u] = d.pos[u])
    BY <1>1, <1>3, <1>4, Basics
  <2>2. CASE o \in In[t]
    BY <1>3, <1>5, <2>0, <2>1, <2>2
  <2>3. CASE o \notin In[t] /\ o[1] = t
    <3>1. e.spent[o] # u
      BY <1>3, <2>1, <2>3
    <3>2. ASSUME o \in In[u], d.pos[u] # None, u # t
          PROVE  FALSE
      <4>1. PICK b \in Blocks : d.pos[u] = b
        BY <1>4, <3>2
      <4>2. PICK i \in DOMAIN Vtx[b] : Applied(b, i, a, c, n) /\ Vtx[b][i] = u
        BY <4>1 DEF View, PosOK
      <4>3. Applied(b, i, a, c, n - 1)
        BY <1>2, <3>2, <4>2 DEF t
      <4> QED
        BY <1>9, <2>3, <3>2, <4>2, <4>3
    <3> QED
      BY <2>1, <2>3, <3>1, <3>2
  <2>4. CASE o \notin In[t] /\ o[1] # t
    BY <1>3, <2>0, <2>1, <2>4
  <2> QED
    BY <2>2, <2>3, <2>4
<1>11. OrderOK(a, c, n - 1)
  <2> SUFFICES ASSUME NEW b \in Blocks, NEW i \in DOMAIN Vtx[b], Applied(b, i, a, c, n - 1)
               PROVE  /\ Pays(Vtx[b][i])
                      /\ \A o \in In[Vtx[b][i]] :
                           /\ o[2] \in DOMAIN Out[o[1]]
                           /\ \E f \in Blocks : \E j \in DOMAIN Vtx[f] :
                                /\ Applied(f, j, a, c, n - 1) /\ Vtx[f][j] = o[1]
                                /\ Before(f, j, b, i) /\ Aged(o[1], f, Vtx[b][i], b)
    BY DEF OrderOK
  <2>1. Applied(b, i, a, c, n)
    BY <1>2
  <2>2. Pays(Vtx[b][i])
    BY <2>1 DEF View, OrderOK
  <2>3. ASSUME NEW o \in In[Vtx[b][i]]
        PROVE  /\ o[2] \in DOMAIN Out[o[1]]
               /\ \E f \in Blocks : \E j \in DOMAIN Vtx[f] :
                    /\ Applied(f, j, a, c, n - 1) /\ Vtx[f][j] = o[1]
                    /\ Before(f, j, b, i) /\ Aged(o[1], f, Vtx[b][i], b)
    <3>1. o[2] \in DOMAIN Out[o[1]]
      BY <2>1 DEF View, OrderOK
    <3>2. PICK f \in Blocks : \E j \in DOMAIN Vtx[f] :
             /\ Applied(f, j, a, c, n) /\ Vtx[f][j] = o[1]
             /\ Before(f, j, b, i) /\ Aged(o[1], f, Vtx[b][i], b)
      BY <2>1 DEF View, OrderOK
    <3>3. PICK j \in DOMAIN Vtx[f] :
             /\ Applied(f, j, a, c, n) /\ Vtx[f][j] = o[1]
             /\ Before(f, j, b, i) /\ Aged(o[1], f, Vtx[b][i], b)
      BY <3>2
    <3>4. Vtx[f][j] # t
      BY <1>9, <3>3
    <3>5. Applied(f, j, a, c, n - 1)
      BY <1>2, <3>3, <3>4 DEF t
    <3> QED
      BY <3>1, <3>3, <3>5
  <2> QED
    BY <2>2, <2>3
<1> QED
  BY <1>3, <1>7, <1>8, <1>10, <1>11 DEF View, e, t

\* ConnectInputs adds exactly one transaction, which was not there: a coinbase
\* because of the height it starts with, another one because its inputs would
\* have been spent by itself.
LEMMA ViewConnectTx ==
  ASSUME NEW d \in DbType, NEW a \in Blocks, NEW c \in Blocks, NEW n \in Nat,
         n < Len(Vtx[c]), View(d, a, c, n), InputsConnect(d, Vtx[c][n + 1], a)
  PROVE  /\ ConnectInputs(d, Vtx[c][n + 1], c) \in DbType
         /\ View(ConnectInputs(d, Vtx[c][n + 1], c), a, c, n + 1)
<1> DEFINE m == n + 1
           t == Vtx[c][m]
           e == ConnectInputs(d, t, c)
<1>0. m \in Nat \ {0} /\ m - 1 = n /\ m <= Len(Vtx[c])
  <2>1. Len(Vtx[c]) \in Nat
    BY Basics
  <2> QED
    BY <2>1
<1>1. Position(a, c, m)
  BY <1>0, Basics DEF View, Position
<1>2. /\ m \in DOMAIN Vtx[c] /\ t \in Txs
      /\ c \notin Anc[a] /\ c # Genesis /\ c # None
      /\ Applied(c, m, a, c, m) /\ ~ Applied(c, m, a, c, n)
  BY <1>0, <1>1, LastApplied
<1>3. \A b, i : Applied(b, i, a, c, m) <=> Applied(b, i, a, c, n) \/ (b = c /\ i = m)
  BY <1>0, <1>1, LastApplied
<1>4. /\ e \in DbType
      /\ e.pos = [d.pos EXCEPT ![t] = c]
      /\ e.spent = [o \in Outpoints |->
                      IF o \in In[t] THEN t ELSE IF o[1] = t THEN None ELSE d.spent[o]]
  BY <1>2 DEF DbType, ConnectInputs
<1>5. d.pos \in [Txs -> Blocks \cup {None}] /\ d.spent \in [Outpoints -> Txs \cup {None}]
  BY DEF DbType
<1>6. \A o \in In[t] : /\ o \in Outpoints /\ o[1] \in Txs
                      /\ d.pos[o[1]] # None /\ o[2] \in DOMAIN Out[o[1]] /\ d.spent[o] = None
  BY <1>2, Basics DEF InputsConnect
<1>7. WellShaped(c) /\ CoinbaseHeightOk(c) /\ c \in Blocks \ {Genesis} /\ Prev[c] = a
  BY <1>2 DEF View, Position, Good
<1> HIDE DEF m, t, e
<1>8. d.pos[t] = None
  <2> SUFFICES ASSUME NEW b \in Blocks, d.pos[t] = b
               PROVE  FALSE
    BY <1>2, <1>5
  <2>1. PICK i \in DOMAIN Vtx[b] : Applied(b, i, a, c, n) /\ Vtx[b][i] = t
    BY <1>2 DEF View, PosOK
  <2>2. CASE In[t] # {}
    <3>1. PICK o \in In[t] : TRUE
      BY <2>2
    <3>2. d.spent[o] = t
      BY <1>2, <1>6, <3>1, Basics DEF View, SpentOK
    <3> QED
      BY <1>2, <1>6, <3>2, Basics
  <2>3. CASE In[t] = {}
    <3>1. m = 1 /\ n = 0
      BY <1>0, <1>2, <1>7, <2>3 DEF WellShaped, IsCoinBase, t
    <3>2. b \in Anc[a] /\ b # Genesis
      BY <2>1, <3>1, Basics DEF Applied
    <3>3. WellShaped(b) /\ CoinbaseHeightOk(b)
      BY <3>2 DEF View, Position, Good
    <3>4. i = 1 /\ Vtx[b] # <<>>
      BY <2>1, <2>3, <3>3 DEF WellShaped, IsCoinBase
    <3>5. Height[b] < Height[c] /\ b \in Anc[c] /\ b # c
      BY <1>7, <3>2, ParentFacts
    <3>6. Vtx[b][1] = Vtx[c][1]
      BY <2>1, <3>1, <3>4 DEF t
    <3>7. CASE {b, c} \subseteq RulesV2
      <4>1. Height[b] = Height[c]
        BY <1>7, <3>3, <3>6, <3>7 DEF CoinbaseHeightOk
      <4>2. Height[b] \in Nat /\ Height[c] \in Nat
        BY TreeAssumption
      <4> QED
        BY <3>5, <4>1, <4>2
    <3>8. CASE ~ {b, c} \subseteq RulesV2
      <4>1. Vtx[c] # <<>>
        BY <1>7 DEF WellShaped
      <4> QED
        BY <3>4, <3>5, <3>6, <3>8, <4>1, LegacyCoinbases
    <3> QED
      BY <3>7, <3>8
  <2> QED
    BY <2>2, <2>3
<1>9. \A b, i : Applied(b, i, a, c, n) => Vtx[b][i] # t
  <2> SUFFICES ASSUME NEW b, NEW i, Applied(b, i, a, c, n), Vtx[b][i] = t
               PROVE  FALSE
    OBVIOUS
  <2>1. b \in Blocks /\ i \in DOMAIN Vtx[b]
    BY DEF Applied
  <2>2. d.pos[t] = b
    BY <1>2, <2>1 DEF View, PosOK
  <2> QED
    BY <1>8, <2>1, <2>2, Basics
<1>10. PosOK(e, a, c, m)
  <2> SUFFICES ASSUME NEW u \in Txs, NEW b \in Blocks
               PROVE  e.pos[u] = b <=>
                        \E i \in DOMAIN Vtx[b] : Applied(b, i, a, c, m) /\ Vtx[b][i] = u
    BY DEF PosOK
  <2>1. CASE u = t
    <3>1. e.pos[u] = c
      BY <1>4, <1>5, <2>1
    <3>2. b # c => ~ \E i \in DOMAIN Vtx[b] : Applied(b, i, a, c, m) /\ Vtx[b][i] = u
      BY <1>3, <1>9, <2>1
    <3>3. b = c => \E i \in DOMAIN Vtx[b] : Applied(b, i, a, c, m) /\ Vtx[b][i] = u
      BY <1>2, <2>1 DEF t
    <3> QED
      BY <3>1, <3>2, <3>3
  <2>2. CASE u # t
    <3>1. e.pos[u] = d.pos[u]
      BY <1>4, <1>5, <2>2
    <3>2. d.pos[u] = b <=> \E i \in DOMAIN Vtx[b] : Applied(b, i, a, c, n) /\ Vtx[b][i] = u
      BY DEF View, PosOK
    <3> QED
      BY <1>3, <2>2, <3>1, <3>2 DEF t
  <2> QED
    BY <2>1, <2>2
<1>11. SpentOK(e)
  <2> SUFFICES ASSUME NEW o \in Outpoints, NEW u \in Txs
               PROVE  e.spent[o] = u <=> o \in In[u] /\ e.pos[u] # None
    BY DEF SpentOK
  <2>0. d.spent[o] = u <=> o \in In[u] /\ d.pos[u] # None
    BY DEF View, SpentOK
  <2>1. u # None /\ e.pos[t] = c /\ (u # t => e.pos[u] = d.pos[u])
    BY <1>2, <1>4, <1>5, Basics
  <2>2. CASE o \in In[t]
    <3>1. e.spent[o] = t /\ d.spent[o] = None
      BY <1>4, <1>6, <2>2
    <3> QED
      BY <1>2, <2>0, <2>1, <2>2, <3>1
  <2>3. CASE o \notin In[t] /\ o[1] = t
    <3>1. e.spent[o] # u
      BY <1>4, <2>1, <2>3
    <3>2. ASSUME o \in In[u], d.pos[u] # None
          PROVE  FALSE
      <4>1. PICK b \in Blocks : d.pos[u] = b
        BY <1>5, <3>2
      <4>2. PICK i \in DOMAIN Vtx[b] : Applied(b, i, a, c, n) /\ Vtx[b][i] = u
        BY <4>1 DEF View, PosOK
      <4>3. PICK f \in Blocks : \E j \in DOMAIN Vtx[f] :
               Applied(f, j, a, c, n) /\ Vtx[f][j] = o[1]
        BY <3>2, <4>2 DEF View, OrderOK
      <4> QED
        BY <1>9, <2>3, <4>3
    <3> QED
      BY <2>1, <2>3, <3>1, <3>2
  <2>4. CASE o \notin In[t] /\ o[1] # t
    BY <1>4, <2>0, <2>1, <2>4
  <2> QED
    BY <2>2, <2>3, <2>4
<1>12. OrderOK(a, c, m)
  <2> SUFFICES ASSUME NEW b \in Blocks, NEW i \in DOMAIN Vtx[b], Applied(b, i, a, c, m)
               PROVE  /\ Pays(Vtx[b][i])
                      /\ \A o \in In[Vtx[b][i]] :
                           /\ o[2] \in DOMAIN Out[o[1]]
                           /\ \E f \in Blocks : \E j \in DOMAIN Vtx[f] :
                                /\ Applied(f, j, a, c, m) /\ Vtx[f][j] = o[1]
                                /\ Before(f, j, b, i) /\ Aged(o[1], f, Vtx[b][i], b)
    BY DEF OrderOK
  <2>1. CASE Applied(b, i, a, c, n)
    BY <1>3, <2>1 DEF View, OrderOK
  <2>2. CASE b = c /\ i = m
    <3>0. Pays(t)
      BY DEF InputsConnect, Pays, t, m
    <3> SUFFICES ASSUME NEW o \in In[t]
                 PROVE  /\ o[2] \in DOMAIN Out[o[1]]
                        /\ \E f \in Blocks : \E j \in DOMAIN Vtx[f] :
                             /\ Applied(f, j, a, c, m) /\ Vtx[f][j] = o[1]
                             /\ Before(f, j, c, m) /\ Aged(o[1], f, t, c)
      BY <2>2, <3>0 DEF t
    <3>2. PICK f \in Blocks : d.pos[o[1]] = f
      BY <1>5, <1>6
    <3>3. PICK j \in DOMAIN Vtx[f] : Applied(f, j, a, c, n) /\ Vtx[f][j] = o[1]
      BY <1>6, <3>2 DEF View, PosOK
    <3>4. Before(f, j, c, m)
      <4>1. CASE f \in Anc[a]
        BY <1>7, <4>1, ParentFacts DEF Before
      <4>2. CASE f = c /\ j <= n
        <5>1. j \in Nat
          BY <3>3, Basics
        <5> QED
          BY <1>0, <4>2, <5>1 DEF Before
      <4> QED
        BY <3>3, <4>1, <4>2 DEF Applied
    <3>5. Aged(o[1], f, t, c)
      <4>1. ~ Immature(o[1], f, a) /\ SequenceLockPasses(t, f, a)
        BY <3>2 DEF InputsConnect, t, m
      <4>2. Height[c] = Height[a] + 1
        BY <1>7, TreeAssumption
      <4>3. Height[a] \in Nat /\ Height[f] \in Nat /\ Lock[t] \in Nat /\ COINBASE_MATURITY \in Nat
        BY <1>2, TreeAssumption, TxAssumption, ParameterAssumption
      <4>4. Height[c] >= Height[f] + Lock[t]
        BY <4>1, <4>2, <4>3 DEF SequenceLockPasses
      <4>5. ASSUME IsCoinBase(o[1]), f # c
            PROVE  Height[c] - Height[f] >= COINBASE_MATURITY
        <5>1. f \in Anc[a]
          BY <3>3, <4>5 DEF Applied
        <5>2. ~ (Height[a] - Height[f] < COINBASE_MATURITY - 1)
          BY <4>1, <4>5, <5>1 DEF Immature
        <5> QED
          BY <4>2, <4>3, <5>2
      <4> QED
        BY <4>4, <4>5 DEF Aged
    <3> QED
      BY <1>3, <1>6, <3>3, <3>4, <3>5
  <2> QED
    BY <1>3, <2>1, <2>2
<1> QED
  BY <1>1, <1>4, <1>10, <1>11, <1>12 DEF View, e, t, m

----------------------------------------------------------------------------
(* The invariant.                                                          *)

\* The open transaction is the replay of as much of the branch as it says ...
TxnView == View(txn, at, IF Moving THEN cur ELSE None, done)

\* ... and the committed state that of the whole committed chain.
DbView == View(db, db.best, None, 0)

\* A fresh data directory: genesis and an empty transaction index.
LEMMA InitIndInv == Init => IndInv
<1> SUFFICES ASSUME Init PROVE IndInv
  OBVIOUS
<1> USE Basics DEF Init
<1>1. FreshDb \in DbType /\ FreshDb.best = Genesis
  BY DEF FreshDb, DbType
<1>2. TypeOK
  <2>1. MaxCrashes \in Nat
    BY ParameterAssumption
  <2>2. crashes \in 0 .. MaxCrashes
    BY <2>1
  <2>3. strict \in BOOLEAN
    BY Zenon
  <2>4. disk \in [Blocks -> {"none", "ok", "null", "lost"}]
    OBVIOUS
  <2> QED
    BY <1>1, <2>2, <2>3, <2>4 DEF TypeOK
<1>3. EntriesGood
  BY DEF EntriesGood, FreshDb
<1>4. JobOK
  BY <1>1 DEF JobOK, Moving
<1>5. Anc[Genesis] = {Genesis}
  BY TreeAssumption
<1>6. ASSUME NEW b, NEW i PROVE ~ Applied(b, i, Genesis, None, 0)
  BY <1>5 DEF Applied
<1>7. View(FreshDb, Genesis, None, 0)
  <2>1. Position(Genesis, None, 0)
    BY <1>5 DEF Position
  <2>2. PosOK(FreshDb, Genesis, None, 0)
    BY <1>6 DEF PosOK, FreshDb
  <2>3. SpentOK(FreshDb)
    BY DEF SpentOK, FreshDb
  <2>4. OrderOK(Genesis, None, 0)
    BY <1>6 DEF OrderOK
  <2> QED
    BY <2>1, <2>2, <2>3, <2>4 DEF View
<1> QED
  BY <1>1, <1>2, <1>3, <1>4, <1>7 DEF IndInv, Moving

\* Leaving a job: with the open transaction back at the committed state, or
\* the other way round, nothing is left to show of it.
LEMMA RestView ==
  ASSUME IndInv, NEW p \in {"idle", "down"}, Rest(best', p), txn' = db', best' = db'.best,
         View(db', db'.best, None, 0)
  PROVE  /\ JobOK' /\ TxnView'
         /\ pc' = p /\ new' = None /\ cur' = None /\ at' = best' /\ done' = 0
<1>1. pc' = p /\ new' = None /\ cur' = None /\ at' = best' /\ done' = 0
  BY DEF Rest
<1>2. ~ Moving'
  BY <1>1 DEF Moving
<1> QED
  BY <1>1, <1>2 DEF JobOK, TxnView, Moving

\* Seek turns a complete view of the chain up to a into the start of the next
\* step of the reorganization.
LEMMA SeekView ==
  ASSUME IndInv, new \in Blocks, new # Genesis => Good(new),
         Height[new] > Height[best] \/ new \in Anc[best] \ {best},
         NEW a \in Blocks, Seek(a), txn' \in DbType, View(txn', a, None, 0),
         best' = best, db' = db, txn'.best = txn.best
  PROVE  /\ JobOK' /\ TxnView'
         /\ pc' \in {"disconnect", "connect", "commit"}
         /\ new' \in Blocks /\ cur' \in Blocks \cup {None} /\ at' \in Blocks /\ done' \in Nat
<1>0. new' = new /\ best = db.best /\ txn.best = db.best
  BY DEF Seek, IndInv, JobOK
<1>1. CASE a \notin Anc[new]
  <2>1. a # Genesis /\ Prev[a] \in Blocks /\ a # None
    BY <1>1, Basics
  <2>2. pc' = "disconnect" /\ cur' = a /\ at' = Prev[a] /\ done' = Len(Vtx[a])
    BY <1>1, SelfAncestor DEF Seek
  <2>3. View(txn', Prev[a], a, Len(Vtx[a]))
    BY <2>1, ViewToDisconnect
  <2>4. Len(Vtx[a]) \in Nat
    BY Basics
  <2> QED
    BY <1>0, <2>1, <2>2, <2>3, <2>4 DEF JobOK, TxnView, Moving
<1>2. CASE a \in Anc[new] /\ a # new
  <2>1. PICK c \in index \cap Anc[new] : Prev[c] = a /\ c # a /\ cur' = c
    BY <1>2 DEF Seek
  <2>2. pc' = "connect" /\ at' = a /\ done' = 0
    BY <1>2 DEF Seek
  <2>3. c \in Blocks \ {Genesis} /\ c # None
    BY <2>1, Basics, TreeAssumption
  <2>4. Good(c)
    BY <2>1, <2>3 DEF IndInv, EntriesGood
  <2>5. View(txn', a, c, 0)
    BY <2>1, <2>3, <2>4, ViewAtStart
  <2> QED
    BY <1>0, <2>1, <2>2, <2>3, <2>5 DEF JobOK, TxnView, Moving
<1>3. CASE a = new
  <2>1. pc' = "commit" /\ at' = a /\ cur' = None /\ done' = 0
    BY <1>3, SelfAncestor DEF Seek
  <2> QED
    BY <1>0, <1>3, <2>1 DEF JobOK, TxnView, Moving
<1> QED
  BY <1>1, <1>2, <1>3

\* The parts of the invariant, by name.
LEMMA IndInvParts ==
  IndInv <=> TypeOK /\ EntriesGood /\ JobOK /\ DbView /\ TxnView
  BY DEF IndInv, DbView, TxnView

\* The end of the process: what is left is the committed state.
LEMMA EndsIndInv ==
  ASSUME IndInv, ProcessEnds,
         disk' \in [Blocks -> {"none", "ok", "null", "lost"}], dirty' \subseteq Blocks,
         crashes' \in 0 .. MaxCrashes
  PROVE  IndInv'
<1>1. TypeOK /\ EntriesGood /\ JobOK /\ DbView /\ TxnView
  BY IndInvParts
<1>2. /\ txn' = db /\ db' = db /\ best' = db.best /\ strict' = strict
      /\ index' = {} /\ hollow' = {} /\ dangling' = {} /\ orphans' = {} /\ queue' = <<>>
      /\ pnext' = [b \in Blocks |-> None] /\ Rest(db.best, "down")
  BY DEF ProcessEnds
<1>3. db.best \in Blocks
  BY <1>1 DEF TypeOK, DbType
<1>4. View(db', db'.best, None, 0)
  BY <1>1, <1>2 DEF DbView
<1>5. /\ JobOK' /\ TxnView'
      /\ pc' = "down" /\ new' = None /\ cur' = None /\ at' = best' /\ done' = 0
  BY <1>2, <1>4, RestView
<1>6. TypeOK'
  BY <1>1, <1>2, <1>3, <1>5 DEF TypeOK
<1>7. EntriesGood'
  BY <1>1, <1>2 DEF EntriesGood
<1>8. DbView'
  BY <1>4 DEF DbView
<1> QED
  BY <1>5, <1>6, <1>7, <1>8 DEF IndInv, DbView, TxnView

\* ProcessBlock's part.
LEMMA ReceiveIndInv ==
  ASSUME IndInv, NEW b \in Blocks,
         AcceptBlock(b) \/ FollowFreedEntry(b) \/ RefuseBlock(b) \/ RefuseOrphan(b) \/ StoreOrphan(b)
  PROVE  IndInv'
<1>0. TypeOK /\ EntriesGood /\ JobOK /\ DbView /\ TxnView
  BY IndInvParts
<1>1. CASE AcceptBlock(b)
  <2>1. /\ index' = index \cup {b} /\ orphans' = orphans \ {b} /\ db' = db /\ best' = best
        /\ txn' = [db EXCEPT !.idx[b] = None] /\ pc = "idle" /\ pc' = "index" /\ new' = b
        /\ disk' = [disk EXCEPT ![b] = "ok"] /\ dirty' \subseteq dirty \cup {b}
        /\ UNCHANGED <<hollow, dangling, pnext, queue, at, cur, done, strict, crashes>>
    BY <1>1 DEF AcceptBlock, Arrives, Idle, envVars
  <2>2. b # Genesis => Good(b)
    <3>1. b \in orphans \/ CheckBlock(b, strict)
      BY <1>1 DEF AcceptBlock, Arrives
    <3>2. b # Genesis => WellShaped(b)
      BY <1>0, <3>1 DEF EntriesGood, CheckBlock
    <3>3. CoinbaseHeightOk(b)
      BY <1>1 DEF AcceptBlock, ContextualChecks
    <3> QED
      BY <3>2, <3>3 DEF Good
  <2>3. /\ txn' \in DbType /\ txn'.pos = db.pos /\ txn'.spent = db.spent /\ txn'.best = db.best
        /\ txn'.idx = [db.idx EXCEPT ![b] = None]
    BY <1>0, <2>1 DEF TypeOK, DbType
  <2>4. TypeOK'
    BY <1>0, <2>1, <2>3 DEF TypeOK
  <2>5. EntriesGood'
    <3>1. db.idx \in [Blocks -> Blocks \cup {None, Absent}]
      BY <1>0 DEF TypeOK, DbType
    <3> QED
      BY <1>0, <2>1, <2>2, <2>3, <3>1 DEF EntriesGood
  <2>6. JobOK'
    BY <1>0, <2>1, <2>2, <2>3 DEF JobOK, Moving
  <2>7. DbView'
    BY <1>0, <2>1 DEF DbView
  <2>8. TxnView'
    <3>1. at = db.best /\ done = 0
      BY <1>0, <2>1 DEF JobOK, Moving
    <3>2. View(txn', db.best, None, 0)
      BY <1>0, <2>3 DEF DbView, View, PosOK, SpentOK
    <3> QED
      BY <2>1, <3>1, <3>2 DEF TxnView, Moving
  <2> QED
    BY <2>4, <2>5, <2>6, <2>7, <2>8 DEF IndInv, DbView, TxnView
<1>2. CASE FollowFreedEntry(b)
  <2>1. ProcessEnds /\ disk' = disk /\ dirty' = dirty /\ crashes' = crashes
    BY <1>2 DEF FollowFreedEntry, fileVars
  <2> QED
    BY <1>0, <2>1, EndsIndInv DEF TypeOK
<1>3. CASE RefuseBlock(b)
  <2>1. UNCHANGED vars
    BY <1>3 DEF RefuseBlock
  <2> QED
    BY <2>1 DEF vars, memVars, recvVars, fileVars, jobVars, envVars, IndInv, TypeOK, EntriesGood,
                JobOK, Moving
<1>4. CASE RefuseOrphan(b) \/ StoreOrphan(b)
  <2>1. /\ UNCHANGED <<index, hollow, dangling, pnext, best, queue, disk, dirty, db, txn, pc, new,
                       at, cur, done, strict, crashes>>
        /\ orphans' \subseteq orphans \cup {b}
    BY <1>4 DEF RefuseOrphan, StoreOrphan, memVars, fileVars, jobVars, envVars
  <2>2. b \in orphans' => b \in orphans \/ WellShaped(b)
    BY <1>4 DEF RefuseOrphan, StoreOrphan, CheckBlock
  <2>3. TypeOK'
    BY <1>0, <2>1 DEF TypeOK
  <2>4. EntriesGood'
    BY <1>0, <2>1, <2>2 DEF EntriesGood
  <2>5. JobOK' /\ DbView' /\ TxnView'
    BY <1>0, <2>1 DEF JobOK, DbView, TxnView, Moving
  <2> QED
    BY <2>3, <2>4, <2>5 DEF IndInv, DbView, TxnView
<1> QED
  BY <1>1, <1>2, <1>3, <1>4

\* A view is about the transaction index only.
LEMMA ViewSameIndex ==
  ASSUME NEW d, NEW e, e.pos = d.pos, e.spent = d.spent, NEW a, NEW c, NEW n, View(d, a, c, n)
  PROVE  View(e, a, c, n)
  BY DEF View, PosOK, SpentOK

\* What an update of one record of the block index leaves alone.
LEMMA RecordUpdate ==
  ASSUME NEW d \in DbType, NEW b \in Blocks, NEW r \in Blocks \cup {None, Absent}
  PROVE  /\ [d EXCEPT !.idx[b] = r] \in DbType
         /\ [d EXCEPT !.idx[b] = r].pos = d.pos
         /\ [d EXCEPT !.idx[b] = r].spent = d.spent
         /\ [d EXCEPT !.idx[b] = r].best = d.best
         /\ [d EXCEPT !.idx[b] = r].idx = [d.idx EXCEPT ![b] = r]
         /\ d.idx \in [Blocks -> Blocks \cup {None, Absent}]
  BY DEF DbType

\* The steps that only touch the work queue, and those that leave a job with
\* the transaction aborted, or committed as it stands.
LEMMA LeaveIndInv ==
  ASSUME IndInv,
         NextInQueue \/ AddSideBlock \/ AddWithoutFork \/ ReadFails \/ ReadNullBlock
  PROVE  IndInv'
<1>0. TypeOK /\ EntriesGood /\ JobOK /\ DbView /\ TxnView
  BY IndInvParts
<1>1. CASE NextInQueue
  <2>1. /\ UNCHANGED <<index, hollow, dangling, pnext, best, orphans, disk, dirty, db, txn, pc, new,
                       at, cur, done, strict, crashes>>
        /\ queue # <<>> /\ queue' = Tail(queue)
    BY <1>1 DEF NextInQueue, memVars, fileVars, jobVars, envVars
  <2>2. queue' \in Seq(Blocks)
    BY <1>0, <2>1 DEF TypeOK
  <2>3. TypeOK'
    BY <1>0, <2>1, <2>2 DEF TypeOK
  <2>4. EntriesGood' /\ JobOK' /\ DbView' /\ TxnView'
    BY <1>0, <2>1 DEF EntriesGood, JobOK, DbView, TxnView, Moving
  <2> QED
    BY <2>3, <2>4 DEF IndInv, DbView, TxnView
<1>2. CASE AddSideBlock
  <2>1. /\ db' = txn /\ txn' = txn /\ pc = "index" /\ queue' = Append(queue, new)
        /\ UNCHANGED <<index, hollow, dangling, pnext, best, orphans, disk, dirty, strict, crashes>>
        /\ Rest(best, "idle")
    BY <1>2 DEF AddSideBlock, memVars, fileVars, envVars
  <2>2. at = best /\ done = 0 /\ best = db.best /\ txn.best = db.best /\ new \in Blocks /\ ~ Moving
    BY <1>0, <2>1 DEF JobOK, Moving
  <2>3. View(db', db'.best, None, 0)
    BY <1>0, <2>1, <2>2 DEF TxnView
  <2>4. /\ JobOK' /\ TxnView'
        /\ pc' = "idle" /\ new' = None /\ cur' = None /\ at' = best' /\ done' = 0
    BY <2>1, <2>2, <2>3, RestView
  <2>5. queue' \in Seq(Blocks)
    BY <1>0, <2>1, <2>2 DEF TypeOK
  <2>6. TypeOK'
    BY <1>0, <2>1, <2>4, <2>5 DEF TypeOK
  <2>7. EntriesGood'
    BY <1>0, <2>1 DEF EntriesGood
  <2> QED
    BY <2>3, <2>4, <2>6, <2>7 DEF IndInv, TxnView
<1>3. CASE AddWithoutFork \/ ReadFails
  <2>1. /\ db' = db /\ txn' = db /\ pc \notin {"idle", "down"}
        /\ UNCHANGED <<index, hollow, dangling, pnext, best, disk, dirty, strict, crashes>>
        /\ Rest(best, "idle") /\ orphans' \subseteq orphans \cup {new}
        /\ queue' = queue \/ queue' = <<>>
    BY <1>3 DEF AddWithoutFork, ReadFails, memVars, recvVars, fileVars, envVars
  <2>2. best = db.best /\ new \in Blocks /\ (new # Genesis => Good(new))
    BY <1>0, <2>1 DEF JobOK
  <2>3. View(db', db'.best, None, 0)
    BY <1>0, <2>1 DEF DbView
  <2>4. /\ JobOK' /\ TxnView'
        /\ pc' = "idle" /\ new' = None /\ cur' = None /\ at' = best' /\ done' = 0
    BY <2>1, <2>2, <2>3, RestView
  <2>5. TypeOK'
    <3>1. queue' \in Seq(Blocks)
      <4>1. <<>> \in Seq(Blocks)
        OBVIOUS
      <4>2. queue \in Seq(Blocks)
        BY <1>0 DEF TypeOK
      <4> QED
        BY <2>1, <4>1, <4>2, Zenon
    <3>2. orphans' \subseteq Blocks
      BY <1>0, <2>1, <2>2 DEF TypeOK
    <3> QED
      BY <1>0, <2>1, <2>4, <3>1, <3>2 DEF TypeOK
  <2>6. EntriesGood'
    BY <1>0, <2>1, <2>2 DEF EntriesGood, Good
  <2> QED
    BY <2>3, <2>4, <2>5, <2>6 DEF IndInv, TxnView
<1>4. CASE ReadNullBlock
  <2>1. ProcessEnds /\ disk' = disk /\ dirty' = dirty /\ crashes' = crashes
    BY <1>4 DEF ReadNullBlock, fileVars
  <2> QED
    BY <1>0, <2>1, EndsIndInv DEF TypeOK
<1> QED
  BY <1>1, <1>2, <1>3, <1>4

\* Reorganize's steps inside the open transaction.
LEMMA ReorganizeIndInv ==
  ASSUME IndInv, AddNewBest \/ DisconnectTx \/ DisconnectBlock \/ ConnectTx \/ ConnectBlock
  PROVE  IndInv'
<1>0. TypeOK /\ EntriesGood /\ JobOK /\ DbView /\ TxnView
  BY IndInvParts
<1>1. /\ UNCHANGED <<index, hollow, dangling, pnext, best, orphans, queue, disk, dirty, db, strict, crashes>>
      /\ pc \in {"index", "disconnect", "connect"}
  BY DEF AddNewBest, DisconnectTx, DisconnectBlock, ConnectTx, ConnectBlock, memVars, recvVars,
         fileVars, envVars
<1>2. new \in Blocks /\ (new # Genesis => Good(new)) /\ best = db.best /\ txn.best = db.best
  BY <1>0, <1>1 DEF JobOK
<1>3. DbView'
  BY <1>0, <1>1 DEF DbView
<1>4. txn \in DbType /\ db \in DbType /\ at \in Blocks /\ done \in Nat
  BY <1>0 DEF TypeOK
\* A step that ends in Seek(a), with at most the record of b rewritten.
<1>5. ASSUME NEW a \in Blocks, Seek(a), txn' \in DbType, txn'.best = txn.best,
             View(txn', a, None, 0),
             NEW b \in Blocks, b # Genesis => Good(b),
             \A x \in Blocks \ {b} : txn'.idx[x] = txn.idx[x]
      PROVE  IndInv'
  <2>0. Height[new] > Height[best] \/ new \in Anc[best] \ {best}
    BY <1>0, <1>1 DEF JobOK, Moving, AddNewBest, DisconnectTx, DisconnectBlock, ConnectTx, ConnectBlock
  <2>1. /\ JobOK' /\ TxnView'
        /\ pc' \in {"disconnect", "connect", "commit"}
        /\ new' \in Blocks /\ cur' \in Blocks \cup {None} /\ at' \in Blocks /\ done' \in Nat
    BY <1>1, <1>2, <1>5, <2>0, SeekView
  <2>2. TypeOK'
    BY <1>0, <1>1, <1>5, <2>1 DEF TypeOK
  <2>3. EntriesGood'
    BY <1>0, <1>1, <1>5 DEF EntriesGood
  <2> QED
    BY <1>3, <2>1, <2>2, <2>3 DEF IndInv, DbView, TxnView
<1>6. CASE AddNewBest
  <2>1. pc = "index" /\ txn' = txn /\ Seek(best)
    BY <1>6 DEF AddNewBest
  <2>2. View(txn', best, None, 0) /\ best \in Blocks
    BY <1>0, <2>1 DEF JobOK, TxnView, Moving, TypeOK
  <2>3. \A x \in Blocks \ {Genesis} : txn'.idx[x] = txn.idx[x]
    BY <2>1
  <2> QED
    BY <1>4, <1>5, <2>1, <2>2, <2>3, Basics
<1>7. CASE DisconnectTx
  <2>1. /\ pc = "disconnect" /\ done > 0 /\ txn' = DisconnectInputs(txn, Vtx[cur][done])
        /\ done' = done - 1 /\ UNCHANGED <<pc, new, at, cur>>
    BY <1>7 DEF DisconnectTx
  <2>2. cur \in Blocks /\ View(txn, at, cur, done) /\ done \in Nat \ {0}
    BY <1>0, <1>4, <2>1 DEF JobOK, TxnView, Moving, TypeOK
  <2>3. txn' \in DbType /\ View(txn', at, cur, done - 1)
    BY <1>4, <2>1, <2>2, ViewDisconnectTx
  <2>4. txn'.idx = txn.idx /\ txn'.best = txn.best
    BY <1>4, <2>1 DEF DisconnectInputs, DbType
  <2>5. TypeOK'
    BY <1>0, <1>1, <2>1, <2>2, <2>3 DEF TypeOK
  <2>6. EntriesGood' /\ JobOK' /\ TxnView'
    BY <1>0, <1>1, <2>1, <2>3, <2>4 DEF EntriesGood, JobOK, TxnView, Moving
  <2> QED
    BY <1>3, <2>5, <2>6 DEF IndInv, DbView, TxnView
<1>8. CASE ConnectTx
  <2> DEFINE t == Vtx[cur][done + 1]
  <2>1. /\ pc = "connect" /\ done < Len(Vtx[cur]) /\ TxConnects(t) /\ txn' = ConnectInputs(txn, t, cur)
        /\ done' = done + 1 /\ UNCHANGED <<pc, new, at, cur>>
    BY <1>8 DEF ConnectTx
  <2>2. cur \in Blocks /\ View(txn, at, cur, done)
    BY <1>0, <1>4, <2>1 DEF JobOK, TxnView, Moving, TypeOK
  <2>3. txn' \in DbType /\ View(txn', at, cur, done + 1)
    BY <1>4, <2>1, <2>2, ViewConnectTx DEF TxConnects
  <2>4. txn'.idx = txn.idx /\ txn'.best = txn.best
    BY <1>4, <2>1 DEF ConnectInputs, DbType
  <2>5. TypeOK'
    BY <1>0, <1>1, <1>4, <2>1, <2>2, <2>3 DEF TypeOK
  <2>6. EntriesGood' /\ JobOK' /\ TxnView'
    BY <1>0, <1>1, <2>1, <2>3, <2>4 DEF EntriesGood, JobOK, TxnView, Moving
  <2> QED
    BY <1>3, <2>5, <2>6 DEF IndInv, DbView, TxnView
<1>9. CASE DisconnectBlock
  <2>1. pc = "disconnect" /\ done = 0 /\ txn' = [txn EXCEPT !.idx[at] = None] /\ Seek(at)
    BY <1>9 DEF DisconnectBlock
  <2>2. View(txn, at, cur, 0)
    BY <1>0, <2>1 DEF TxnView, Moving
  <2>3. /\ txn' \in DbType /\ txn'.best = txn.best /\ txn'.pos = txn.pos /\ txn'.spent = txn.spent
        /\ \A x \in Blocks \ {at} : txn'.idx[x] = txn.idx[x]
    BY <1>4, <2>1, RecordUpdate
  <2>4. View(txn', at, cur, 0)
    BY <2>2, <2>3, ViewSameIndex
  <2>5. View(txn', at, None, 0)
    BY <1>4, <2>3, <2>4, ViewAtStart
  <2>6. at # Genesis => Good(at)
    BY <1>4, <2>2, SelfAncestor DEF View, Position
  <2> QED
    BY <1>4, <1>5, <2>1, <2>3, <2>5, <2>6
<1>10. CASE ConnectBlock
  <2>1. pc = "connect" /\ done = Len(Vtx[cur]) /\ txn' = [txn EXCEPT !.idx[at] = cur] /\ Seek(cur)
    BY <1>10 DEF ConnectBlock
  <2>2. cur \in Blocks /\ View(txn, at, cur, Len(Vtx[cur]))
    BY <1>0, <2>1 DEF JobOK, TxnView, Moving, TypeOK
  <2>3. /\ txn' \in DbType /\ txn'.best = txn.best /\ txn'.pos = txn.pos /\ txn'.spent = txn.spent
        /\ \A x \in Blocks \ {at} : txn'.idx[x] = txn.idx[x]
    BY <1>4, <2>1, <2>2, RecordUpdate
  <2>4. View(txn', at, cur, Len(Vtx[cur]))
    BY <2>2, <2>3, ViewSameIndex
  <2>5. View(txn', cur, None, 0)
    BY <1>4, <2>2, <2>3, <2>4, ViewConnected
  <2>6. at # Genesis => Good(at)
    BY <1>4, <2>2, SelfAncestor DEF View, Position
  <2> QED
    BY <1>4, <1>5, <2>1, <2>2, <2>3, <2>5, <2>6
<1> QED
  BY <1>6, <1>7, <1>8, <1>9, <1>10
\* The two ways a reorganization ends: TxnAbort, or TxnCommit.
LEMMA EndOfReorganize ==
  ASSUME IndInv, ConnectFails \/ Commit
  PROVE  IndInv'
<1>0. TypeOK /\ EntriesGood /\ JobOK /\ DbView /\ TxnView
  BY IndInvParts
<1>1. CASE ConnectFails
  <2>1. /\ pc = "connect" /\ txn' = db /\ pc' = "purge" /\ at' = best /\ done' = 0
        /\ UNCHANGED <<index, hollow, dangling, pnext, best, orphans, queue, disk, dirty, db, new,
                       cur, strict, crashes>>
    BY <1>1 DEF ConnectFails, memVars, recvVars, fileVars, envVars
  <2>2. /\ best = db.best /\ new \in Blocks /\ (new # Genesis => Good(new))
        /\ cur \in Blocks \ {Genesis}
    BY <1>0, <2>1 DEF JobOK, TxnView, Moving, View, Position
  <2>3. TypeOK'
    BY <1>0, <2>1 DEF TypeOK
  <2>4. EntriesGood'
    BY <1>0, <2>1 DEF EntriesGood
  <2>5. JobOK'
    BY <2>1, <2>2 DEF JobOK, Moving
  <2>6. DbView' /\ TxnView'
    BY <1>0, <2>1, <2>2 DEF DbView, TxnView, Moving
  <2> QED
    BY <2>3, <2>4, <2>5, <2>6 DEF IndInv, DbView, TxnView
<1>2. CASE Commit
  <2>1. /\ pc = "commit" /\ db' = [txn EXCEPT !.best = new] /\ txn' = db' /\ best' = new
        /\ queue' = queue \/ queue' = Append(queue, new)
        /\ Rest(new, "idle")
        /\ UNCHANGED <<index, hollow, dangling, orphans, disk, dirty, strict, crashes>>
    BY <1>2 DEF Commit, fileVars, envVars
  <2>2. at = new /\ done = 0 /\ new \in Blocks
    BY <1>0, <2>1 DEF JobOK
  <2>3. /\ db' \in DbType /\ db'.best = new
        /\ db'.pos = txn.pos /\ db'.spent = txn.spent /\ db'.idx = txn.idx
    BY <1>0, <2>1, <2>2 DEF TypeOK, DbType
  <2>4. View(db', db'.best, None, 0)
    <3>1. View(txn, new, None, 0)
      BY <1>0, <2>1, <2>2 DEF TxnView, Moving
    <3> QED
      BY <2>3, <3>1, ViewSameIndex
  <2>5. /\ JobOK' /\ TxnView'
        /\ pc' = "idle" /\ new' = None /\ cur' = None /\ at' = best' /\ done' = 0
    BY <2>1, <2>3, <2>4, RestView
  <2>6. pnext' \in [Blocks -> Blocks \cup {None}]
    <3> DEFINE came == Anc[new] \ Anc[best]
               value(b) == IF \E c \in came : Prev[c] = b THEN CHOOSE c \in came : Prev[c] = b
                           ELSE IF \E c \in Anc[best] \ Anc[new] : Prev[c] = b THEN None
                           ELSE pnext[b]
    <3>1. came \subseteq Blocks
      BY <2>2, Basics
    <3>2. pnext' = [b \in Blocks |-> value(b)]
      BY <1>2 DEF Commit
    <3>3. \A b \in Blocks : value(b) \in Blocks \cup {None}
      BY <1>0, <3>1 DEF TypeOK
    <3> HIDE DEF value
    <3> QED
      BY <3>2, <3>3
  <2>7. TypeOK'
    <3>1. queue' \in Seq(Blocks)
      BY <1>0, <2>1, <2>2 DEF TypeOK
    <3> QED
      BY <1>0, <2>1, <2>2, <2>3, <2>5, <2>6, <3>1 DEF TypeOK
  <2>8. EntriesGood'
    BY <1>0, <2>1, <2>3 DEF EntriesGood
  <2> QED
    BY <2>4, <2>5, <2>7, <2>8 DEF IndInv, TxnView
<1> QED
  BY <1>1, <1>2

\* The deletion of a failed branch touches no transaction's entry.
LEMMA PurgeIndInv ==
  ASSUME IndInv, EraseBlockFromDisk \/ EraseBlockIndex
  PROVE  IndInv'
<1>0. TypeOK /\ EntriesGood /\ JobOK /\ DbView /\ TxnView
  BY IndInvParts
<1>1. CASE EraseBlockFromDisk
  <2>1. /\ disk' = [disk EXCEPT ![cur] = "null"]
        /\ UNCHANGED <<index, hollow, dangling, pnext, best, orphans, queue, dirty, db, txn, pc, new,
                       at, cur, done, strict, crashes>>
    BY <1>1 DEF EraseBlockFromDisk, memVars, recvVars, jobVars, envVars
  <2>2. disk' \in [Blocks -> {"none", "ok", "null", "lost"}]
    BY <1>0, <2>1 DEF TypeOK
  <2>3. TypeOK'
    BY <1>0, <2>1, <2>2 DEF TypeOK
  <2>4. EntriesGood' /\ JobOK' /\ DbView' /\ TxnView'
    BY <1>0, <2>1 DEF EntriesGood, JobOK, DbView, TxnView, Moving
  <2> QED
    BY <2>3, <2>4 DEF IndInv, DbView, TxnView
<1>2. CASE EraseBlockIndex
  <2>1. /\ pc = "purge" /\ db' = [db EXCEPT !.idx[cur] = Absent] /\ txn' = db'
        /\ index' = index \ {cur} /\ dangling' \subseteq dangling \cup index
        /\ UNCHANGED <<hollow, pnext, best, orphans, queue, disk, dirty, strict, crashes>>
    BY <1>2 DEF EraseBlockIndex, recvVars, fileVars, envVars
  <2>2. /\ cur \in Blocks \ {Genesis} /\ best = db.best /\ at = best /\ done = 0
        /\ new \in Blocks /\ (new # Genesis => Good(new)) /\ db \in DbType
    BY <1>0, <2>1 DEF JobOK, Moving, TypeOK
  <2>3. /\ db' \in DbType /\ db'.pos = db.pos /\ db'.spent = db.spent /\ db'.best = db.best
        /\ db'.idx = [db.idx EXCEPT ![cur] = Absent]
        /\ db.idx \in [Blocks -> Blocks \cup {None, Absent}]
    BY <2>1, <2>2, RecordUpdate
  <2>4. View(db', db'.best, None, 0)
    BY <1>0, <2>3, ViewSameIndex DEF DbView
  <2>5. EntriesGood'
    BY <1>0, <2>1, <2>2, <2>3 DEF EntriesGood
  <2>6. dangling' \subseteq Blocks
    BY <1>0, <2>1 DEF TypeOK
  <2>7. CASE cur = new
    <3>1. Rest(best, "idle")
      BY <1>2, <2>7 DEF EraseBlockIndex
    <3>2. /\ JobOK' /\ TxnView'
          /\ pc' = "idle" /\ new' = None /\ cur' = None /\ at' = best' /\ done' = 0
      BY <2>1, <2>2, <2>3, <2>4, <3>1, RestView
    <3>3. TypeOK'
      BY <1>0, <2>1, <2>3, <2>6, <3>2 DEF TypeOK
    <3> QED
      BY <2>4, <2>5, <3>2, <3>3 DEF IndInv, TxnView
  <2>8. CASE cur # new
    <3>1. PICK c \in index \cap Anc[new] : Prev[c] = cur /\ cur' = c
      BY <1>2, <2>8 DEF EraseBlockIndex
    <3>2. UNCHANGED <<pc, new, at, done>>
      BY <1>2, <2>8 DEF EraseBlockIndex
    <3>3. c \in Blocks \ {Genesis}
      BY <2>2, <3>1, Basics, TreeAssumption
    <3>4. TypeOK'
      BY <1>0, <2>1, <2>3, <2>6, <3>1, <3>2, <3>3 DEF TypeOK
    <3>5. JobOK'
      BY <2>1, <2>2, <2>3, <3>1, <3>2, <3>3 DEF JobOK, Moving
    <3>6. TxnView'
      BY <2>1, <2>2, <2>3, <2>4, <3>2 DEF TxnView, Moving
    <3> QED
      BY <2>4, <2>5, <3>4, <3>5, <3>6 DEF IndInv, TxnView
  <2> QED
    BY <2>7, <2>8
<1> QED
  BY <1>1, <1>2

\* A crash at any step, and LoadBlockIndex, repair included.
LEMMA RestartIndInv ==
  ASSUME IndInv, Restart \/ \E kind \in CrashKinds : Crash(kind)
  PROVE  IndInv'
<1>0. TypeOK /\ EntriesGood /\ JobOK /\ DbView /\ TxnView
  BY IndInvParts
<1>1. ASSUME NEW kind \in CrashKinds, Crash(kind)
      PROVE  IndInv'
  <2>1. ProcessEnds
    BY <1>1 DEF Crash
  <2>2. disk' \in [Blocks -> {"none", "ok", "null", "lost"}] /\ dirty' \subseteq Blocks
    BY <1>0, <1>1 DEF Crash, TypeOK
  <2>3. crashes' \in 0 .. MaxCrashes
    <3>1. MaxCrashes \in Nat
      BY ParameterAssumption
    <3> QED
      BY <1>0, <1>1, <3>1 DEF Crash, TypeOK
  <2> QED
    BY <2>1, <2>2, <2>3, EndsIndInv
<1>2. CASE Restart
  <2>1. /\ pc = "down" /\ index' = Recorded
        /\ hollow' = {Prev[b] : b \in Recorded} \ Recorded
        /\ pnext' = [b \in Blocks |-> IF db.idx[b] = Absent THEN None ELSE db.idx[b]]
        /\ UNCHANGED <<dangling, best, orphans, queue, disk, dirty, db, txn, crashes>>
    BY <1>2 DEF Restart, recvVars, fileVars
  <2>2. /\ at = best /\ done = 0 /\ best = db.best /\ txn.best = db.best /\ best \in Blocks
        /\ View(txn, best, None, 0) /\ txn \in DbType
    BY <1>0, <2>1 DEF JobOK, TxnView, Moving, TypeOK
  <2>3. index' \subseteq Blocks /\ hollow' \subseteq Blocks
    BY <2>1, Basics DEF Recorded
  <2>4. pnext' \in [Blocks -> Blocks \cup {None}]
    <3>1. db.idx \in [Blocks -> Blocks \cup {None, Absent}]
      BY <1>0 DEF TypeOK, DbType
    <3> QED
      BY <2>1, <3>1
  <2>5. strict' \in BOOLEAN
    <3>1. strict' \in {strict, TRUE}
      BY <1>2 DEF Restart
    <3>2. strict \in BOOLEAN
      BY <1>0 DEF TypeOK
    <3> QED
      BY <3>1, <3>2, Zenon
  <2>6. EntriesGood'
    BY <1>0, <2>1 DEF EntriesGood, Recorded
  <2>7. DbView'
    BY <1>0, <2>1 DEF DbView
  <2> DEFINE bad == {b \in CheckedTail : disk[b] = "null" \/ ~ CheckBlock(b, strict')}
  <2>8. CASE bad = {}
    <3>1. Rest(best, "idle")
      BY <1>2, <2>8 DEF Restart
    <3>2. pc' = "idle" /\ new' = None /\ cur' = None /\ at' = best /\ done' = 0
      BY <3>1 DEF Rest
    <3>3. TypeOK'
      BY <1>0, <2>1, <2>2, <2>3, <2>4, <2>5, <3>2 DEF TypeOK
    <3>4. JobOK' /\ TxnView'
      BY <2>1, <2>2, <3>2 DEF JobOK, TxnView, Moving
    <3> QED
      BY <2>6, <2>7, <3>3, <3>4 DEF IndInv, DbView, TxnView
  <2>9. CASE bad # {}
    <3>1. PICK b \in bad : new' = Prev[b]
      BY <1>2, <2>9 DEF Restart
    <3>2. pc' = "disconnect" /\ cur' = best /\ at' = Prev[best] /\ done' = Len(Vtx[best])
      BY <1>2, <2>9 DEF Restart
    <3>3. b \in Anc[best] \ {Genesis} /\ b \in Blocks
      BY <2>2, <3>1, Basics DEF CheckedTail
    <3>4. best # Genesis
      BY <3>3, TreeAssumption
    <3>5. View(txn, Prev[best], best, Len(Vtx[best]))
      BY <2>2, <3>4, ViewToDisconnect
    <3>6. new' \in Blocks /\ (new' # Genesis => Good(new'))
      <4>1. Prev[b] \in Blocks /\ Prev[b] \in Anc[b]
        BY <3>3, ParentFacts, SelfAncestor
      <4>2. Prev[b] \in Anc[best]
        BY <2>2, <3>3, <4>1, Basics
      <4> QED
        BY <2>2, <3>1, <4>1, <4>2 DEF View, Position
    <3>7. at' \in Blocks /\ done' \in Nat /\ cur' # None
      BY <2>2, <3>2, Basics
    <3>10. new' \in Anc[best] \ {best}
      <4>1. Prev[b] \in Anc[b] /\ Height[Prev[b]] < Height[b]
        BY <3>3, ParentFacts, SelfAncestor
      <4>2. Height[b] <= Height[best] /\ Prev[b] \in Anc[best]
        BY <2>2, <3>3, <4>1, TreeAssumption
      <4>3. Prev[b] # best
        <5>1. Height[b] \in Nat /\ Height[best] \in Nat
          BY <2>2, <3>3, TreeAssumption
        <5> QED
          BY <4>1, <4>2, <5>1
      <4> QED
        BY <3>1, <4>2, <4>3
    <3>8. TypeOK'
      BY <1>0, <2>1, <2>2, <2>3, <2>4, <2>5, <3>2, <3>6, <3>7 DEF TypeOK
    <3>9. JobOK' /\ TxnView'
      BY <2>1, <2>2, <3>2, <3>5, <3>6, <3>7, <3>10 DEF JobOK, TxnView, Moving
    <3> QED
      BY <2>6, <2>7, <3>8, <3>9 DEF IndInv, DbView, TxnView
  <2> QED
    BY <2>8, <2>9
<1> QED
  BY <1>1, <1>2

\* Every step keeps the invariant.
LEMMA NextIndInv == IndInv /\ [Next]_vars => IndInv'
<1> SUFFICES ASSUME IndInv, [Next]_vars PROVE IndInv'
  OBVIOUS
<1>1. CASE UNCHANGED vars
  BY <1>1 DEF vars, memVars, recvVars, fileVars, jobVars, envVars, IndInv, TypeOK, EntriesGood,
              JobOK, Moving
<1>2. ASSUME NEW b \in Blocks, ReceiveBlock(b)
      PROVE  IndInv'
  BY <1>2, ReceiveIndInv DEF ReceiveBlock
<1>3. CASE HandlerStep
  <2>1. ASSUME NEW b \in Blocks, AcceptBlock(b) \/ FollowFreedEntry(b) \/ RefuseOrphan(b)
        PROVE  IndInv'
    BY <2>1, ReceiveIndInv
  <2>2. CASE NextInQueue \/ AddSideBlock \/ AddWithoutFork \/ ReadFails \/ ReadNullBlock
    BY <2>2, LeaveIndInv
  <2>3. CASE AddNewBest \/ DisconnectTx \/ DisconnectBlock \/ ConnectTx \/ ConnectBlock
    BY <2>3, ReorganizeIndInv
  <2>4. CASE ConnectFails \/ Commit
    BY <2>4, EndOfReorganize
  <2>5. CASE EraseBlockFromDisk \/ EraseBlockIndex
    BY <2>5, PurgeIndInv
  <2> QED
    BY <1>3, <2>1, <2>2, <2>3, <2>4, <2>5 DEF HandlerStep
<1>4. CASE Restart \/ \E kind \in CrashKinds : Crash(kind)
  BY <1>4, RestartIndInv
<1> QED
  BY <1>1, <1>2, <1>3, <1>4 DEF Next

----------------------------------------------------------------------------
(* The theorems.                                                           *)

\* The open transaction and the database are, at every step of every handler
\* and across every crash, replays of the chain they stand for.
THEOREM Invariance == Spec => []IndInv
<1>1. Init => IndInv
  BY InitIndInv
<1>2. IndInv /\ [Next]_vars => IndInv'
  BY NextIndInv
<1> QED
  BY <1>1, <1>2, PTL DEF Spec

\* The variables of the block handling keep their types.
THEOREM TypeCorrect == Spec => []TypeOK
<1>1. IndInv => TypeOK
  BY DEF IndInv
<1> QED
  BY <1>1, Invariance, PTL

\* Whatever reorganizations failed and wherever the process ended, the
\* committed transaction index is that of the committed best chain
\* (ConnectInputs and DisconnectInputs are inverse, and nothing reaches the
\* database but by the commit of a complete view).
THEOREM TxIndexCorrect == Spec => []TxIndexMatchesChain
<1>1. IndInv => TxIndexMatchesChain
  <2> SUFFICES ASSUME IndInv PROVE TxIndexMatchesChain
    OBVIOUS
  <2>1. PosOK(db, db.best, None, 0) /\ SpentOK(db) /\ db.best \in Blocks
    BY DEF IndInv, View, TypeOK, DbType
  <2>2. ASSUME NEW b \in Blocks, NEW i \in DOMAIN Vtx[b]
        PROVE  Applied(b, i, db.best, None, 0) <=> b \in Connected
    BY Basics DEF Applied, Connected
  <2> QED
    BY <2>1, <2>2 DEF PosOK, SpentOK, TxIndexMatchesChain
<1> QED
  BY <1>1, Invariance, PTL

\* No outpoint is spent twice on the committed chain.
THEOREM NoDoubleSpendCorrect == Spec => []NoDoubleSpend
<1>1. IndInv => NoDoubleSpend
  <2> SUFFICES ASSUME IndInv,
                      NEW a \in Connected, NEW b \in Connected,
                      NEW i \in DOMAIN Vtx[a], NEW j \in DOMAIN Vtx[b],
                      In[Vtx[a][i]] \cap In[Vtx[b][j]] # {}
               PROVE  a = b /\ i = j
    BY DEF NoDoubleSpend
  <2>1. /\ PosOK(db, db.best, None, 0) /\ SpentOK(db) /\ Position(db.best, None, 0)
        /\ db.best \in Blocks
    BY DEF IndInv, View, TypeOK, DbType
  <2>2. a \in Blocks /\ b \in Blocks /\ Good(a)
    BY <2>1, Basics DEF Connected, Position
  <2> DEFINE s == Vtx[a][i]
             t == Vtx[b][j]
  <2>3. s \in Txs /\ t \in Txs /\ None \notin Blocks
    BY <2>2, Basics
  <2>4. Applied(a, i, db.best, None, 0) /\ Applied(b, j, db.best, None, 0)
    BY <2>2 DEF Applied, Connected
  <2>5. db.pos[s] = a /\ db.pos[t] = b
    BY <2>1, <2>2, <2>3, <2>4 DEF PosOK
  <2>6. PICK o \in Outpoints : o \in In[s] /\ o \in In[t]
    BY <2>3, Basics
  <2>7. db.spent[o] = s /\ db.spent[o] = t
    BY <2>1, <2>2, <2>3, <2>5, <2>6 DEF SpentOK
  <2>8. s = t /\ a = b
    BY <2>5, <2>7
  <2> QED
    BY <2>2, <2>8 DEF Good, WellShaped
<1> QED
  BY <1>1, Invariance, PTL

\* Every input of the committed chain is an output of an earlier transaction of
\* that chain, made long enough before it for its lock and, if mined, for
\* COINBASE_MATURITY: what ConnectInputs asked of the view at the time still
\* holds of the chain, whatever was disconnected and connected since.
THEOREM InputsOldEnoughCorrect == Spec => []InputsOldEnough
<1>1. IndInv => InputsOldEnough
  <2> SUFFICES ASSUME IndInv,
                      NEW b \in Connected, NEW i \in DOMAIN Vtx[b], NEW o \in In[Vtx[b][i]]
               PROVE  \E a \in Connected \cap Anc[b] : \E j \in DOMAIN Vtx[a] :
                         /\ Vtx[a][j] = o[1] /\ o[2] \in DOMAIN Out[o[1]]
                         /\ a = b => j < i
                         /\ Height[b] >= Height[a] + Lock[Vtx[b][i]]
                         /\ IsCoinBase(o[1]) /\ a # b => Height[b] - Height[a] >= COINBASE_MATURITY
    BY DEF InputsOldEnough
  <2>1. OrderOK(db.best, None, 0) /\ db.best \in Blocks
    BY DEF IndInv, View, TypeOK, DbType
  <2>2. b \in Blocks /\ Applied(b, i, db.best, None, 0)
    BY <2>1, Basics DEF Applied, Connected
  <2>3. o[2] \in DOMAIN Out[o[1]]
    BY <2>1, <2>2 DEF OrderOK
  <2>4. PICK a \in Blocks : \E j \in DOMAIN Vtx[a] :
           /\ Applied(a, j, db.best, None, 0) /\ Vtx[a][j] = o[1]
           /\ Before(a, j, b, i) /\ Aged(o[1], a, Vtx[b][i], b)
    BY <2>1, <2>2 DEF OrderOK
  <2>5. PICK j \in DOMAIN Vtx[a] :
           /\ Applied(a, j, db.best, None, 0) /\ Vtx[a][j] = o[1]
           /\ Before(a, j, b, i) /\ Aged(o[1], a, Vtx[b][i], b)
    BY <2>4
  <2>6. a \in Connected /\ a \in Anc[b] /\ (a = b => j < i)
    BY <2>2, <2>5, Basics, SelfAncestor DEF Applied, Connected, Before
  <2> QED
    BY <2>3, <2>5, <2>6 DEF Aged
<1> QED
  BY <1>1, Invariance, PTL

\* DisconnectInputs never meets one of its error returns.
THEOREM DisconnectCorrect == Spec => []DisconnectSucceeds
<1>1. IndInv => DisconnectSucceeds
  <2> SUFFICES ASSUME IndInv, pc = "disconnect", done > 0,
                      NEW t, t = Vtx[cur][done]
               PROVE  /\ txn.pos[t] # None
                      /\ \A o \in In[t] : txn.pos[o[1]] # None /\ o[2] \in DOMAIN Out[o[1]]
                                          /\ txn.spent[o] = t
    BY DEF DisconnectSucceeds
  <2>1. /\ View(txn, at, cur, done) /\ cur \in Blocks /\ done \in Nat
    BY DEF IndInv, JobOK, Moving, TypeOK
  <2>2. done \in DOMAIN Vtx[cur]
    <3>1. cur # None /\ done <= Len(Vtx[cur])
      BY <2>1, Basics DEF View, Position
    <3> QED
      BY <2>1, <3>1, Basics
  <2>3. Applied(cur, done, at, cur, done) /\ t \in Txs
    BY <2>1, <2>2, Basics DEF Applied
  <2>4. txn.pos[t] = cur /\ cur # None
    BY <2>1, <2>2, <2>3, Basics DEF View, PosOK
  <2>5. ASSUME NEW o \in In[t]
        PROVE  txn.pos[o[1]] # None /\ o[2] \in DOMAIN Out[o[1]] /\ txn.spent[o] = t
    <3>1. o \in Outpoints /\ o[1] \in Txs
      BY <2>3, <2>5, Basics
    <3>2. txn.spent[o] = t
      BY <2>1, <2>3, <2>4, <2>5, <3>1 DEF View, SpentOK
    <3>3. PICK e \in Blocks : \E k \in DOMAIN Vtx[e] :
             Applied(e, k, at, cur, done) /\ Vtx[e][k] = o[1]
      BY <2>1, <2>2, <2>3, <2>5 DEF View, OrderOK
    <3>4. txn.pos[o[1]] = e /\ e # None
      BY <2>1, <3>1, <3>3, Basics DEF View, PosOK
    <3>5. o[2] \in DOMAIN Out[o[1]]
      BY <2>1, <2>2, <2>3, <2>5 DEF View, OrderOK
    <3> QED
      BY <3>2, <3>4, <3>5
  <2> QED
    BY <2>4, <2>5
<1> QED
  BY <1>1, Invariance, PTL

----------------------------------------------------------------------------
(* Orphans.                                                                *)

\* What the work queue holds after a block is put at its end, or taken from
\* its head.
LEMMA QueueMoves ==
  ASSUME NEW q \in Seq(Blocks), NEW b \in Blocks
  PROVE  /\ \E i \in DOMAIN Append(q, b) : Append(q, b)[i] = b
         /\ \A x : (\E i \in DOMAIN q : q[i] = x) => \E i \in DOMAIN Append(q, b) : Append(q, b)[i] = x
         /\ \A x : q # <<>> /\ (\E i \in DOMAIN q : q[i] = x) /\ x # Head(q)
                 => \E i \in DOMAIN Tail(q) : Tail(q)[i] = x
<1>1. /\ DOMAIN Append(q, b) = 1 .. Len(q) + 1 /\ Append(q, b)[Len(q) + 1] = b /\ Len(q) \in Nat
      /\ DOMAIN q = 1 .. Len(q) /\ \A i \in 1 .. Len(q) : Append(q, b)[i] = q[i]
  OBVIOUS
<1>2. ASSUME NEW i \in DOMAIN q, q # <<>>, q[i] # Head(q)
      PROVE  i - 1 \in DOMAIN Tail(q) /\ Tail(q)[i - 1] = q[i]
  <2>1. i # 1 /\ i \in 1 .. Len(q)
    BY <1>2
  <2>2. DOMAIN Tail(q) = 1 .. Len(q) - 1 /\ \A k \in 1 .. Len(q) - 1 : Tail(q)[k] = q[k + 1]
    BY <1>2
  <2> QED
    BY <2>1, <2>2
<1>3. \E i \in DOMAIN Append(q, b) : Append(q, b)[i] = b
  BY <1>1
<1>4. ASSUME NEW i \in DOMAIN q
      PROVE  i \in DOMAIN Append(q, b) /\ Append(q, b)[i] = q[i]
  BY <1>1
<1> HIDE <1>1
<1> QED
  BY <1>2, <1>3, <1>4, Zenon

\* A step of a process that goes on keeps the invariant of the orphans.
LEMMA NextOrphans ==
  ASSUME IndInv, OrphansInv, [Next]_vars, pc # "down", pc' # "down"
  PROVE  OrphansInv'
<1>0. /\ TypeOK /\ JobOK /\ queue \in Seq(Blocks) /\ index \subseteq Blocks /\ orphans \subseteq Blocks
      /\ hollow = {} /\ \A b \in Blocks : disk[b] # "lost"
  BY IndInvParts DEF TypeOK, OrphansInv
<1>1. CASE UNCHANGED vars
  BY <1>1 DEF vars, memVars, recvVars, fileVars, jobVars, OrphansInv, Moving
<1>2. ASSUME NEW b \in Blocks, AcceptBlock(b)
      PROVE  OrphansInv'
  <2>1. /\ hollow' = hollow /\ disk' = [disk EXCEPT ![b] = "ok"] /\ pc' = "index" /\ new' = b
        /\ orphans' = orphans \ {b} /\ index' = index \cup {b} /\ queue' = queue /\ pc = "idle"
    BY <1>2 DEF AcceptBlock, Arrives, Idle
  <2>2. \A x \in Blocks : disk'[x] # "lost"
    BY <1>0, <2>1 DEF TypeOK
  <2> QED
    BY <1>0, <2>1, <2>2 DEF OrphansInv, Moving
<1>3. ASSUME NEW b \in Blocks, RefuseBlock(b) \/ RefuseOrphan(b) \/ StoreOrphan(b)
      PROVE  OrphansInv'
  <2>1. /\ UNCHANGED <<index, hollow, best, queue, disk, pc, new>>
        /\ \A x \in orphans' : x \in orphans \/ Prev[x] \notin index
    BY <1>3 DEF RefuseBlock, RefuseOrphan, StoreOrphan, vars, memVars, recvVars, fileVars, jobVars
  <2> QED
    BY <2>1 DEF OrphansInv, Moving
<1>4. CASE NextInQueue
  <2>1. /\ UNCHANGED <<index, hollow, best, orphans, disk, pc, new>>
        /\ pc = "idle" /\ queue # <<>> /\ queue' = Tail(queue)
        /\ \A b \in orphans : Prev[b] # Head(queue)
    BY <1>4 DEF NextInQueue, Idle, memVars, fileVars, jobVars
  <2>2. ASSUME NEW b \in orphans', Prev[b] \in index'
        PROVE  \E i \in DOMAIN queue' : queue'[i] = Prev[b]
    <3>1. \E i \in DOMAIN queue : queue[i] = Prev[b]
      BY <2>1, <2>2 DEF OrphansInv
    <3>2. Prev[b] # Head(queue) /\ Prev[b] \in Blocks
      BY <1>0, <2>1, <2>2
    <3>3. queue # <<>> /\ (\E i \in DOMAIN queue : queue[i] = Prev[b]) /\ Prev[b] # Head(queue)
            => \E i \in DOMAIN Tail(queue) : Tail(queue)[i] = Prev[b]
      BY <1>0, <3>2, QueueMoves
    <3> QED
      BY <2>1, <3>1, <3>2, <3>3
  <2> QED
    BY <2>1, <2>2 DEF OrphansInv, Moving
<1>5. CASE AddSideBlock \/ Commit
  <2>1. /\ UNCHANGED <<index, hollow, orphans, disk>> /\ pc' = "idle" /\ new \in Blocks
        /\ queue' = Append(queue, new)
    <3>1. CASE AddSideBlock
      BY <1>0, <3>1 DEF AddSideBlock, Rest, memVars, fileVars, JobOK
    <3>2. CASE Commit
      <4>1. /\ UNCHANGED <<index, hollow, orphans, disk>> /\ pc' = "idle" /\ pc = "commit"
            /\ queue' = IF new \in Anc[best] THEN queue ELSE Append(queue, new)
        BY <3>2 DEF Commit, Rest, fileVars
      <4>2. new \in Blocks /\ best \in Blocks /\ Height[new] > Height[best]
        BY <1>0, <4>1 DEF JobOK, TypeOK, OrphansInv
      <4>3. new \notin Anc[best]
        <5>1. Height[new] \in Nat /\ Height[best] \in Nat
          BY <4>2, TreeAssumption
        <5> QED
          BY <4>2, <5>1, TreeAssumption
      <4> QED
        BY <4>1, <4>2, <4>3
    <3> QED
      BY <1>5, <3>1, <3>2
  <2>2. ASSUME NEW b \in orphans', Prev[b] \in index'
        PROVE  \E i \in DOMAIN queue' : queue'[i] = Prev[b]
    <3>1. (\E i \in DOMAIN queue : queue[i] = Prev[b]) \/ Prev[b] = new
      BY <2>1, <2>2 DEF OrphansInv
    <3> QED
      BY <1>0, <2>1, <3>1, QueueMoves
  <2> QED
    BY <2>1, <2>2 DEF OrphansInv, Moving
<1>6. CASE AddWithoutFork \/ ReadFails
  <2>1. CASE AddWithoutFork
    BY <1>0, <2>1 DEF AddWithoutFork
  <2>2. CASE ReadFails
    <3>1. Moving /\ cur \in Blocks /\ txn \in DbType
      BY <1>0, <2>2 DEF ReadFails, Moving, JobOK, TypeOK
    <3>2. disk[cur] # "lost"
      BY <1>0, <3>1
    <3>3. ASSUME NEW t, LostInput(t), t = Vtx[cur][done + 1], done < Len(Vtx[cur])
          PROVE  FALSE
      <4>1. t \in Txs
        <5>1. Vtx[cur] \in Seq(Txs) /\ done \in Nat
          BY <1>0, <3>1, Basics DEF TypeOK
        <5> QED
          BY <3>3, <5>1
      <4>2. PICK o \in In[t] : txn.pos[o[1]] # None /\ disk[txn.pos[o[1]]] = "lost"
        BY <3>3 DEF LostInput
      <4>3. o[1] \in Txs
        BY <4>1, <4>2, Basics
      <4>4. txn.pos[o[1]] \in Blocks
        BY <3>1, <4>2, <4>3 DEF DbType
      <4> QED
        BY <1>0, <4>2, <4>4
    <3> QED
      BY <2>2, <3>2, <3>3 DEF ReadFails
  <2> QED
    BY <1>6, <2>1, <2>2
<1>7. CASE AddNewBest
  <2>1. /\ UNCHANGED <<index, hollow, best, orphans, queue, disk>> /\ Height[new] > Height[best]
        /\ new' = new /\ pc' \notin {"idle", "down"} /\ pc = "index"
    BY <1>7 DEF AddNewBest, Seek, memVars, recvVars, fileVars
  <2> QED
    BY <2>1 DEF OrphansInv
<1>8. CASE DisconnectTx \/ DisconnectBlock \/ ConnectTx \/ ConnectBlock \/ ConnectFails
  <2>1. /\ UNCHANGED <<index, hollow, best, orphans, queue, disk, new>> /\ Moving
        /\ pc' \notin {"idle", "down"}
    BY <1>8 DEF DisconnectTx, DisconnectBlock, ConnectTx, ConnectBlock, ConnectFails, Seek, Moving,
                memVars, recvVars, fileVars
  <2> QED
    BY <2>1 DEF OrphansInv, Moving
<1>9. CASE EraseBlockFromDisk
  <2>1. /\ UNCHANGED <<index, hollow, best, orphans, queue, new, pc>>
        /\ disk' = [disk EXCEPT ![cur] = "null"]
    BY <1>9 DEF EraseBlockFromDisk, memVars, recvVars, jobVars
  <2>2. \A x \in Blocks : disk'[x] # "lost"
    BY <1>0, <2>1 DEF TypeOK
  <2> QED
    BY <2>1, <2>2 DEF OrphansInv, Moving
<1>10. CASE EraseBlockIndex
  <2>1. /\ UNCHANGED <<hollow, best, orphans, queue, disk>> /\ index' = index \ {cur} /\ pc = "purge"
    BY <1>10 DEF EraseBlockIndex, recvVars, fileVars
  <2>2. \/ cur = new /\ pc' = "idle"
        \/ new' = new /\ pc' = pc
    BY <1>10 DEF EraseBlockIndex, Rest
  <2> QED
    BY <2>1, <2>2 DEF OrphansInv, Moving
<1>11. \A b \in Blocks : ~ FollowFreedEntry(b)
  BY DEF FollowFreedEntry, ProcessEnds, Rest
<1>12. ~ ReadNullBlock /\ ~ Restart /\ \A kind \in CrashKinds : ~ Crash(kind)
  BY DEF ReadNullBlock, Restart, Crash, ProcessEnds, Rest
<1> QED
  BY <1>1, <1>2, <1>3, <1>4, <1>5, <1>6, <1>7, <1>8, <1>9, <1>10, <1>11, <1>12
     DEF Next, ReceiveBlock, HandlerStep

\* As long as the process runs, an orphan waits only for a parent the node does
\* not have: the work queue of ProcessBlock misses none.  (After a restart on an
\* index with holes a new block may keep its entry and leave its orphans.)
THEOREM OrphansLackParentsCorrect == Spec /\ [](pc # "down") => []OrphansLackParents
<1>1. Init => OrphansInv
  BY DEF Init, OrphansInv, Moving
<1>2. IndInv /\ OrphansInv /\ pc # "down" /\ (pc # "down")' /\ [Next]_vars => OrphansInv'
  BY NextOrphans
<1>3. OrphansInv => OrphansLackParents
  BY DEF OrphansInv, OrphansLackParents, Idle
<1> QED
  BY <1>1, <1>2, <1>3, Invariance, PTL DEF Spec

----------------------------------------------------------------------------
(* Chain implements Ledger: a reorganization, in however many steps and    *)
(* through however many crashes and repairs, is one step of the line that  *)
(* the committed hashBestChain ends, or none.                              *)

\* A complete view of a chain is what makes its line a valid one.
LEMMA ViewIsValidLine ==
  ASSUME NEW d \in DbType, NEW e \in Blocks, View(d, e, None, 0)
  PROVE  L!ValidLine(e)
<1>1. ASSUME NEW b, NEW i \in DOMAIN Vtx[b]
      PROVE  Applied(b, i, e, None, 0) <=> b \in L!Line(e)
  BY Basics DEF Applied, L!Line
<1>2. \A b \in L!Line(e) : b \in Blocks /\ Good(b)
  BY Basics DEF L!Line, View, Position
<1>3. L!SpentOnce(e)
  <2> SUFFICES ASSUME NEW a \in L!Line(e), NEW b \in L!Line(e),
                      NEW i \in DOMAIN Vtx[a], NEW j \in DOMAIN Vtx[b],
                      In[Vtx[a][i]] \cap In[Vtx[b][j]] # {}
               PROVE  a = b /\ i = j
    BY DEF L!SpentOnce
  <2>1. Vtx[a][i] \in Txs /\ Vtx[b][j] \in Txs /\ a \in Blocks /\ b \in Blocks
    BY <1>2, Basics
  <2>2. d.pos[Vtx[a][i]] = a /\ d.pos[Vtx[b][j]] = b
    BY <1>1, <2>1 DEF View, PosOK
  <2>3. PICK o \in Outpoints : o \in In[Vtx[a][i]] /\ o \in In[Vtx[b][j]]
    BY <2>1, Basics
  <2>4. d.spent[o] = Vtx[a][i] /\ d.spent[o] = Vtx[b][j]
    BY <2>1, <2>2, <2>3, Basics DEF View, SpentOK
  <2>5. Vtx[a][i] = Vtx[b][j] /\ a = b
    BY <2>2, <2>4
  <2> QED
    BY <1>2, <2>5 DEF Good, WellShaped
<1>4. L!SpentFromLine(e)
  <2> SUFFICES ASSUME NEW b \in L!Line(e), NEW j \in DOMAIN Vtx[b], NEW o \in In[Vtx[b][j]]
               PROVE  /\ o[2] \in DOMAIN Out[o[1]]
                      /\ \E a \in L!Line(e) : \E i \in DOMAIN Vtx[a] :
                           /\ Vtx[a][i] = o[1] /\ L!Earlier(a, i, b, j)
                           /\ L!OldEnough(o[1], a, Vtx[b][j], b)
    BY DEF L!SpentFromLine
  <2>1. b \in Blocks /\ Applied(b, j, e, None, 0)
    BY <1>1, <1>2
  <2>2. o[2] \in DOMAIN Out[o[1]]
    BY <2>1 DEF View, OrderOK
  <2>3. PICK a \in Blocks : \E i \in DOMAIN Vtx[a] :
           /\ Applied(a, i, e, None, 0) /\ Vtx[a][i] = o[1]
           /\ Before(a, i, b, j) /\ Aged(o[1], a, Vtx[b][j], b)
    BY <2>1 DEF View, OrderOK
  <2>4. PICK i \in DOMAIN Vtx[a] :
           /\ Applied(a, i, e, None, 0) /\ Vtx[a][i] = o[1]
           /\ Before(a, i, b, j) /\ Aged(o[1], a, Vtx[b][j], b)
    BY <2>3
  <2>5. a \in L!Line(e) /\ L!Earlier(a, i, b, j)
    BY <1>1, <2>4 DEF Before, L!Earlier
  <2>6. L!OldEnough(o[1], a, Vtx[b][j], b)
    <3>1. Height[a] \in Nat /\ Height[b] \in Nat /\ COINBASE_MATURITY \in Nat
      BY <2>1, TreeAssumption, ParameterAssumption
    <3>2. L!Mined(o[1]) <=> IsCoinBase(o[1])
      BY DEF L!Mined, IsCoinBase
    <3> QED
      BY <2>4, <3>1, <3>2 DEF Aged, L!OldEnough
  <2> QED
    BY <2>2, <2>4, <2>5, <2>6
<1>5. L!PaysWhatItSpends(e)
  <2> SUFFICES ASSUME NEW b \in L!Line(e), NEW j \in DOMAIN Vtx[b], NEW t, t = Vtx[b][j]
               PROVE  \/ L!Mined(t)
                      \/ L!SumFunctionOnSet(L!Value, In[t]) >= L!SumFunctionOnSet(L!Value, L!Outputs(t))
    BY DEF L!PaysWhatItSpends
  <2>1. Pays(t)
    BY <1>1, <1>2 DEF View, OrderOK
  <2>2. L!Mined(t) <=> IsCoinBase(t)
    BY DEF L!Mined, IsCoinBase
  <2>3. L!SumFunctionOnSet(L!Value, In[t]) = ValueIn(t)
    BY DEF ValueIn, Value, L!Value, Outputs, L!Outputs, L!SumFunctionOnSet, SumFunctionOnSet,
           L!FoldFunctionOnSet, FoldFunctionOnSet, L!MapThenFoldSet, MapThenFoldSet
  <2>4. L!SumFunctionOnSet(L!Value, L!Outputs(t)) = ValueOut(t)
    BY DEF ValueOut, Value, L!Value, Outputs, L!Outputs, L!SumFunctionOnSet, SumFunctionOnSet,
           L!FoldFunctionOnSet, FoldFunctionOnSet, L!MapThenFoldSet, MapThenFoldSet
  <2> QED
    BY <2>1, <2>2, <2>3, <2>4 DEF Pays
<1> QED
  BY <1>3, <1>4, <1>5 DEF L!ValidLine

\* A step of the node moves the line as Ledger says, or leaves it.  Only a
\* commit writes hashBestChain: the record of a block on the side is committed
\* with the old one, and a purge or a crash does not touch it.
LEMMA StepRefines == IndInv /\ [Next]_vars => [L!Next]_(db.best)
<1> SUFFICES ASSUME IndInv, [Next]_vars, db'.best # db.best
             PROVE  L!Next
  OBVIOUS
<1>1. TypeOK /\ JobOK /\ TxnView
  BY IndInvParts
<1>2. Next
  BY DEF vars
<1>3. ASSUME NEW b \in Blocks,
             AcceptBlock(b) \/ FollowFreedEntry(b) \/ RefuseBlock(b) \/ RefuseOrphan(b) \/ StoreOrphan(b)
      PROVE  db' = db
  BY <1>3 DEF AcceptBlock, FollowFreedEntry, ProcessEnds, RefuseBlock, RefuseOrphan, StoreOrphan, vars
<1>4. NextInQueue \/ AddWithoutFork \/ ReadFails \/ ReadNullBlock => db' = db
  BY DEF NextInQueue, AddWithoutFork, ReadFails, ReadNullBlock, ProcessEnds
<1>5. AddNewBest \/ DisconnectTx \/ DisconnectBlock \/ ConnectTx \/ ConnectBlock \/ ConnectFails
        => db' = db
  BY DEF AddNewBest, DisconnectTx, DisconnectBlock, ConnectTx, ConnectBlock, ConnectFails
<1>6. Restart \/ (\E kind \in CrashKinds : Crash(kind)) \/ EraseBlockFromDisk => db' = db
  BY DEF Restart, Crash, ProcessEnds, EraseBlockFromDisk
<1>7. AddSideBlock => db'.best = db.best
  BY <1>1 DEF AddSideBlock, JobOK
<1>8. EraseBlockIndex => db'.best = db.best
  BY <1>1 DEF EraseBlockIndex, TypeOK, DbType
<1>9. Commit
  BY <1>2, <1>3, <1>4, <1>5, <1>6, <1>7, <1>8 DEF Next, ReceiveBlock, HandlerStep
<1>10. /\ pc = "commit" /\ db' = [txn EXCEPT !.best = new] /\ new \in Blocks
       /\ txn \in DbType /\ best = db.best /\ best \in Blocks
       /\ Height[new] > Height[best] \/ new \in Anc[best] \ {best}
  BY <1>1, <1>9 DEF Commit, JobOK, TypeOK
<1>11. db'.best = new
  BY <1>10 DEF DbType
<1>12. View(txn, new, None, 0)
  BY <1>1, <1>10 DEF TxnView, JobOK, Moving
<1>13. L!ValidLine(new)
  BY <1>10, <1>12, ViewIsValidLine
<1>14. L!Extend(new) \/ L!Rewind(new)
  BY <1>10, <1>11, <1>13 DEF L!Extend, L!Rewind
<1> QED
  BY <1>10, <1>14 DEF L!Next

\* The committed best chain is a ledger, for every tree of blocks, every set of
\* transactions and any number of crashes: AddToBlockIndex, Reorganize,
\* ConnectBlock and LoadBlockIndex implement Ledger.
THEOREM Refinement == Spec => ImplementsLedger
<1>1. Init => L!Init
  BY DEF Init, FreshDb, L!Init
<1>2. IndInv /\ [Next]_vars => [L!Next]_(db.best)
  BY StepRefines
<1> QED
  BY <1>1, <1>2, Invariance, PTL DEF Spec, ImplementsLedger, L!Spec

----------------------------------------------------------------------------
(* The links of the best chain: a branch of the tree is a line.            *)

\* A block's parent is one below it, in its ancestry, and another block.
LEMMA ChildFacts ==
  ASSUME NEW c \in Blocks
  PROVE  /\ c = Genesis => Prev[c] = c
         /\ c # Genesis => /\ Height[c] = Height[Prev[c]] + 1 /\ Prev[c] # c
                           /\ Prev[c] \in Anc[c] /\ Anc[Prev[c]] \subseteq Anc[c]
         /\ Height[c] \in Nat
<1>1. Height[c] \in Nat /\ (c = Genesis => Prev[c] = c)
  BY TreeAssumption
<1>2. CASE c # Genesis
  <2>1. Prev[c] \in Blocks /\ Height[c] = Height[Prev[c]] + 1 /\ Anc[c] = Anc[Prev[c]] \cup {c}
    BY <1>2, TreeAssumption
  <2>2. Prev[c] \in Anc[Prev[c]]
    BY <2>1, SelfAncestor
  <2>3. Prev[c] # c
    BY <1>1, <2>1
  <2> QED
    BY <1>1, <2>1, <2>2, <2>3
<1> QED
  BY <1>1, <1>2

\* A block has one ancestor at a height: a branch is a line.
LEMMA LineUnique ==
  ASSUME NEW b \in Blocks, NEW x \in Anc[b], NEW y \in Anc[b], Height[x] = Height[y]
  PROVE  x = y
<1> DEFINE Forked(e) == \E u, v \in Anc[e] : Height[u] = Height[v] /\ u # v
           T == {n \in Nat : \E e \in Blocks : n = Height[e] /\ Forked(e)}
<1>1. SUFFICES ASSUME x # y PROVE FALSE
  OBVIOUS
<1>2. Height[b] \in T
  BY <1>1, TreeAssumption
<1>3. PICK n \in T : \A m \in T : n <= m
  BY <1>2, LeastNat
<1>4. PICK e \in Blocks : n = Height[e] /\ Forked(e)
  BY <1>3
<1>5. PICK u \in Anc[e], v \in Anc[e] : Height[u] = Height[v] /\ u # v
  BY <1>4
<1>6. e # Genesis
  BY <1>5, TreeAssumption
<1>7. Prev[e] \in Blocks /\ Anc[e] = Anc[Prev[e]] \cup {e} /\ Height[e] = Height[Prev[e]] + 1
  BY <1>6, TreeAssumption
<1>8. u = e \/ v = e => FALSE
  BY <1>5, <1>7, TreeAssumption
<1>9. u \in Anc[Prev[e]] /\ v \in Anc[Prev[e]]
  BY <1>5, <1>7, <1>8
<1>10. Height[Prev[e]] \in T
  BY <1>5, <1>7, <1>9, TreeAssumption
<1> QED
  BY <1>3, <1>4, <1>7, <1>10, TreeAssumption

----------------------------------------------------------------------------
(* How the links move.                                                     *)

\* A block put on top: its parent's link now points at it, and no other changes.
LEMMA LinksUp ==
  ASSUME NEW c \in Blocks \ {Genesis}, NEW b \in Blocks, NEW n
  PROVE  /\ NextOn(Prev[c], c, c)
         /\ b # Prev[c] /\ NextOn(b, n, Prev[c]) => NextOn(b, n, c)
<1>1. /\ Anc[c] = Anc[Prev[c]] \cup {c} /\ Prev[c] # c /\ c \notin Anc[Prev[c]] /\ c \in Anc[c]
      /\ c # None
  BY Basics, ParentFacts, ChildFacts
<1>2. NextOn(Prev[c], c, c)
  BY <1>1 DEF NextOn
<1>3. ASSUME b # Prev[c], NextOn(b, n, Prev[c])
      PROVE  NextOn(b, n, c)
  <2>1. ASSUME NEW x
        PROVE  x \in Anc[c] \ {b} /\ Prev[x] = b <=> x \in Anc[Prev[c]] \ {b} /\ Prev[x] = b
    BY <1>1, <1>3
  <2> QED
    BY <1>3, <2>1 DEF NextOn
<1> QED
  BY <1>2, <1>3

\* A block taken off: its parent has no link then, and no other changes.
LEMMA LinksDown ==
  ASSUME NEW c \in Blocks \ {Genesis}, NEW b \in Blocks, NEW n
  PROVE  /\ NextOn(Prev[c], None, Prev[c])
         /\ b # Prev[c] /\ NextOn(b, n, c) => NextOn(b, n, Prev[c])
<1>1. /\ Anc[c] = Anc[Prev[c]] \cup {c} /\ Prev[c] # c /\ c \notin Anc[Prev[c]] /\ Prev[c] \in Blocks
      /\ c # None
  BY Basics, ParentFacts, ChildFacts
<1>2. ASSUME NEW x \in Anc[Prev[c]], x # Prev[c]
      PROVE  Prev[x] # Prev[c]
  <2>1. x \in Blocks /\ Height[x] <= Height[Prev[c]]
    BY <1>1, Basics, TreeAssumption
  <2> QED
    BY <1>1, <1>2, <2>1, ChildFacts
<1>3. NextOn(Prev[c], None, Prev[c])
  BY <1>2 DEF NextOn
<1>4. ASSUME b # Prev[c], NextOn(b, n, c)
      PROVE  NextOn(b, n, Prev[c])
  <2>1. ASSUME NEW x
        PROVE  x \in Anc[c] \ {b} /\ Prev[x] = b <=> x \in Anc[Prev[c]] \ {b} /\ Prev[x] = b
    BY <1>1, <1>4
  <2> QED
    BY <1>4, <2>1 DEF NextOn
<1> QED
  BY <1>3, <1>4

\* A block that is not on the line, and whose parent's link is not it, links
\* to nothing.
LEMMA OffTheLine ==
  ASSUME NEW e \in Blocks, NEW b \in Blocks, b \notin Anc[e]
  PROVE  NextOn(b, None, e)
<1>1. ASSUME NEW c \in Anc[e] PROVE Prev[c] # b
  <2>1. c \in Blocks /\ Anc[c] \subseteq Anc[e]
    BY Basics
  <2> QED
    BY <1>1, <2>1, ChildFacts
<1> QED
  BY <1>1 DEF NextOn

\* The pointers a commit sets are those of the new line.
LEMMA CommitLinks ==
  ASSUME NEW e \in Blocks, NEW f \in Blocks, NEW b \in Blocks, NEW n, NextOn(b, n, e)
  PROVE  NextOn(b, IF \E c \in Anc[f] \ Anc[e] : Prev[c] = b
                     THEN CHOOSE c \in Anc[f] \ Anc[e] : Prev[c] = b
                   ELSE IF \E c \in Anc[e] \ Anc[f] : Prev[c] = b THEN None
                   ELSE n, f)
<1>0. Anc[e] \subseteq Blocks /\ Anc[f] \subseteq Blocks /\ None \notin Blocks
      /\ Genesis \in Anc[e] /\ Genesis \in Anc[f]
  BY Basics
<1>1. CASE \E c \in Anc[f] \ Anc[e] : Prev[c] = b
  <2> DEFINE m == CHOOSE c \in Anc[f] \ Anc[e] : Prev[c] = b
  <2>1. m \in Anc[f] \ Anc[e] /\ Prev[m] = b
    BY <1>1
  <2>2. m # b /\ m # None
    BY <1>0, <2>1, ChildFacts
  <2>3. NextOn(b, m, f)
    BY <2>1, <2>2 DEF NextOn
  <2> QED
    BY <1>1, <2>3
<1>2. CASE ~ (\E c \in Anc[f] \ Anc[e] : Prev[c] = b) /\ \E c \in Anc[e] \ Anc[f] : Prev[c] = b
  <2>1. PICK c \in Anc[e] \ Anc[f] : Prev[c] = b
    BY <1>2
  <2>2. ASSUME NEW x \in Anc[f] \ {b}, Prev[x] = b
        PROVE  FALSE
    <3>1. x \in Anc[e] /\ x \in Blocks /\ c \in Blocks
      BY <1>0, <1>2, <2>2
    <3>2. x # Genesis /\ c # Genesis
      BY <1>0, <2>1, <2>2, ChildFacts
    <3>3. Height[x] = Height[c]
      BY <2>1, <2>2, <3>1, <3>2, ChildFacts
    <3> QED
      BY <2>1, <2>2, <3>1, <3>3, LineUnique
  <2>3. NextOn(b, None, f)
    BY <2>2 DEF NextOn
  <2> QED
    BY <1>2, <2>3
<1>3. CASE /\ ~ (\E c \in Anc[f] \ Anc[e] : Prev[c] = b)
           /\ ~ (\E c \in Anc[e] \ Anc[f] : Prev[c] = b)
  <2>1. ASSUME NEW x
        PROVE  x \in Anc[f] \ {b} /\ Prev[x] = b <=> x \in Anc[e] \ {b} /\ Prev[x] = b
    BY <1>3
  <2>2. NextOn(b, n, f)
    BY <2>1 DEF NextOn
  <2> QED
    BY <1>3, <2>2
<1> QED
  BY <1>1, <1>2, <1>3

----------------------------------------------------------------------------
(* The invariant.                                                          *)

\* The records of the committed chain link it ...
CommittedLinked ==
  /\ \A b \in Blocks : db.idx[b] # Absent => NextOn(b, db.idx[b], db.best)
  /\ \A b \in Anc[db.best] : db.idx[b] # Absent

\* ... and so do the entries in memory.
EntriesLinked ==
  /\ Anc[best] \subseteq index
  /\ \A b \in Blocks : NextOn(b, pnext[b], best)

\* With the open transaction at the committed records nothing else is asked.
LEMMA RestLinks ==
  ASSUME NEW p \in {"idle", "down"}, Rest(best', p), txn'.idx = db'.idx, best' = db'.best,
         CommittedLinked', p = "idle" => EntriesLinked'
  PROVE  LinksInv'
<1>1. pc' = p /\ at' = best'
  BY DEF Rest
<1>2. LinkedTo' = best' /\ ~ Moving'
  BY <1>1 DEF LinkedTo, Moving
<1>3. RecordsLinked'
  BY <1>2 DEF RecordsLinked, CommittedLinked
<1>4. MemoryLinked'
  BY <1>1, <1>2 DEF MemoryLinked, EntriesLinked
<1>5. BranchPlaced'
  BY <1>1 DEF BranchPlaced
<1> QED
  BY <1>3, <1>4, <1>5 DEF LinksInv

\* Seek goes on from records that link the chain up to a.
LEMMA SeekLinks ==
  ASSUME LinksInv, new \in Blocks, NEW a \in Blocks, Seek(a), pc # "down",
         UNCHANGED <<index, pnext, best, db>>,
         \A b \in Blocks : txn'.idx[b] # Absent => NextOn(b, txn'.idx[b], a),
         \A b \in Anc[a] \ {a} : txn'.idx[b] # Absent,
         txn'.idx[new] # Absent,
         Anc[a] \subseteq index,
         a \notin Anc[new] => a \in Anc[best],
         \A c \in Anc[new] \ {a} : Prev[c] = a => c \notin Anc[best]
  PROVE  LinksInv'
<1>0. new' = new /\ new \in Anc[new]
  BY SelfAncestor DEF Seek
<1>1. /\ LinkedTo' = a
      /\ pc' \in {"disconnect", "connect", "commit"}
      /\ pc' = "disconnect" => cur' = a /\ a \notin Anc[new]
      /\ pc' = "connect" => cur' \in index \cap Anc[new] /\ Prev[cur'] = a /\ cur' # a
  BY DEF Seek, LinkedTo
<1>2. RecordsLinked'
  BY <1>1 DEF LinksInv, RecordsLinked
<1>3. MemoryLinked'
  BY <1>1 DEF LinksInv, MemoryLinked
<1>4. BranchPlaced'
  BY <1>0, <1>1 DEF BranchPlaced, Moving
<1> QED
  BY <1>2, <1>3, <1>4 DEF LinksInv

\* What the invariants say of a state, in the form the steps need it.
LEMMA LinksParts ==
  ASSUME IndInv, LinksInv
  PROVE  /\ CommittedLinked
         /\ pc # "down" => EntriesLinked
         /\ best = db.best /\ txn.best = db.best /\ best \in Blocks
         /\ db \in DbType /\ txn \in DbType /\ at \in Blocks
         /\ pc \notin {"idle", "down"} => new \in Blocks
         /\ ~ Moving /\ pc # "commit" => at = best /\ LinkedTo = best
         /\ Moving => cur \in Blocks \ {Genesis} /\ Prev[cur] = at
<1>1. TypeOK /\ JobOK /\ TxnView
  BY IndInvParts
<1>2. CommittedLinked /\ (pc # "down" => EntriesLinked)
  BY <1>1 DEF LinksInv, RecordsLinked, MemoryLinked, CommittedLinked, EntriesLinked
<1>3. ~ Moving /\ pc # "commit" => at = best /\ LinkedTo = best
  BY <1>1 DEF JobOK, LinkedTo, Moving
<1>4. Moving => cur \in Blocks \ {Genesis} /\ Prev[cur] = at
  BY <1>1 DEF JobOK, TxnView, View, Position
<1> QED
  BY <1>1, <1>2, <1>3, <1>4 DEF TypeOK, JobOK

\* A block that gets an entry is not on the best chain, all of which has one.
LEMMA ReceiveLinks ==
  ASSUME IndInv, LinksInv, NEW b \in Blocks,
         AcceptBlock(b) \/ FollowFreedEntry(b) \/ RefuseBlock(b) \/ RefuseOrphan(b) \/ StoreOrphan(b)
  PROVE  LinksInv'
<1>0. /\ CommittedLinked /\ (pc # "down" => EntriesLinked)
      /\ best = db.best /\ best \in Blocks /\ db \in DbType
      /\ ~ Moving /\ pc # "commit" => at = best /\ LinkedTo = best
  BY LinksParts
<1>1. CASE AcceptBlock(b)
  <2>1. /\ index' = index \cup {b} /\ b \notin index /\ db' = db /\ best' = best /\ pnext' = pnext
        /\ txn' = [db EXCEPT !.idx[b] = None] /\ pc = "idle" /\ pc' = "index" /\ new' = b
        /\ at' = at
    BY <1>1 DEF AcceptBlock, Arrives, Idle
  <2>2. txn'.idx = [db.idx EXCEPT ![b] = None] /\ db.idx \in [Blocks -> Blocks \cup {None, Absent}]
    BY <1>0, <2>1, RecordUpdate
  <2>3. at = best /\ LinkedTo' = best
    BY <1>0, <2>1 DEF LinkedTo, Moving
  <2>4. EntriesLinked /\ b \notin Anc[best]
    BY <1>0, <2>1 DEF EntriesLinked
  <2>5. NextOn(b, None, best)
    BY <1>0, <2>4, OffTheLine
  <2>6. RecordsLinked'
    <3>1. ASSUME NEW x \in Blocks, txn'.idx[x] # Absent
          PROVE  NextOn(x, txn'.idx[x], best)
      BY <1>0, <2>2, <2>5, <3>1 DEF CommittedLinked
    <3>2. \A x \in Anc[best] \ {best} : txn'.idx[x] # Absent
      BY <1>0, <2>2, <2>4, Basics DEF CommittedLinked
    <3> QED
      BY <1>0, <2>1, <2>3, <3>1, <3>2 DEF RecordsLinked, CommittedLinked
  <2>7. MemoryLinked'
    BY <2>1, <2>3, <2>4 DEF MemoryLinked, EntriesLinked
  <2>8. BranchPlaced'
    <3>1. txn'.idx[b] # Absent /\ txn'.idx[best] # Absent
      BY <1>0, <2>2, Basics, SelfAncestor DEF CommittedLinked
    <3> QED
      BY <2>1, <3>1 DEF BranchPlaced, Moving
  <2> QED
    BY <2>6, <2>7, <2>8 DEF LinksInv
<1>2. CASE FollowFreedEntry(b)
  BY <1>0, <1>2, RestLinks DEF FollowFreedEntry, ProcessEnds, CommittedLinked
<1>3. CASE RefuseBlock(b) \/ RefuseOrphan(b) \/ StoreOrphan(b)
  <2>1. UNCHANGED <<index, pnext, best, db, txn, pc, new, at, cur>>
    BY <1>3 DEF RefuseBlock, RefuseOrphan, StoreOrphan, vars, memVars, jobVars
  <2> QED
    BY <2>1 DEF LinksInv, RecordsLinked, MemoryLinked, BranchPlaced, LinkedTo, Moving
<1> QED
  BY <1>1, <1>2, <1>3

\* The steps that only move the queue, and those that leave a job.
LEMMA LeaveLinks ==
  ASSUME IndInv, LinksInv,
         NextInQueue \/ AddSideBlock \/ AddWithoutFork \/ ReadFails \/ ReadNullBlock
  PROVE  LinksInv'
<1>0. /\ CommittedLinked /\ (pc # "down" => EntriesLinked)
      /\ best = db.best /\ txn.best = db.best /\ best \in Blocks
      /\ ~ Moving /\ pc # "commit" => at = best /\ LinkedTo = best
  BY LinksParts
<1>1. CASE NextInQueue
  <2>1. UNCHANGED <<index, pnext, best, db, txn, pc, new, at, cur>>
    BY <1>1 DEF NextInQueue, memVars, jobVars
  <2> QED
    BY <2>1 DEF LinksInv, RecordsLinked, MemoryLinked, BranchPlaced, LinkedTo, Moving
<1>2. CASE AddSideBlock
  <2>1. /\ pc = "index" /\ db' = txn /\ txn' = txn /\ Rest(best, "idle")
        /\ UNCHANGED <<index, pnext, best>>
    BY <1>2 DEF AddSideBlock, memVars
  <2>2. LinkedTo = best
    BY <1>0, <2>1 DEF Moving
  <2>3. CommittedLinked'
    <3>1. txn.idx[best] # Absent
      BY <2>1 DEF LinksInv, BranchPlaced
    <3> QED
      BY <1>0, <2>1, <2>2, <3>1 DEF CommittedLinked, LinksInv, RecordsLinked
  <2> QED
    BY <1>0, <2>1, <2>3, RestLinks DEF EntriesLinked
<1>3. CASE AddWithoutFork \/ ReadFails
  <2>1. /\ pc # "down" /\ db' = db /\ txn' = db /\ Rest(best, "idle")
        /\ UNCHANGED <<index, pnext, best>>
    BY <1>3 DEF AddWithoutFork, ReadFails, memVars
  <2> QED
    BY <1>0, <2>1, RestLinks DEF CommittedLinked, EntriesLinked
<1>4. CASE ReadNullBlock
  BY <1>0, <1>4, RestLinks DEF ReadNullBlock, ProcessEnds, CommittedLinked
<1> QED
  BY <1>1, <1>2, <1>3, <1>4

\* Reorganize's steps: DisconnectBlock and ConnectBlock write the one record
\* whose link changes.
LEMMA ReorganizeLinks ==
  ASSUME IndInv, LinksInv,
         AddNewBest \/ DisconnectTx \/ DisconnectBlock \/ ConnectTx \/ ConnectBlock
  PROVE  LinksInv'
<1>0. /\ pc # "down" => EntriesLinked
      /\ best = db.best /\ best \in Blocks /\ txn \in DbType /\ at \in Blocks
      /\ pc \notin {"idle", "down"} => new \in Blocks
      /\ ~ Moving /\ pc # "commit" => at = best /\ LinkedTo = best
      /\ Moving => cur \in Blocks \ {Genesis} /\ Prev[cur] = at
  BY LinksParts
<1>1. UNCHANGED <<index, pnext, best, db>>
  BY DEF AddNewBest, DisconnectTx, DisconnectBlock, ConnectTx, ConnectBlock, memVars
<1>2. /\ \A b \in Blocks : txn.idx[b] # Absent => NextOn(b, txn.idx[b], LinkedTo)
      /\ \A b \in Anc[LinkedTo] \ {LinkedTo} : txn.idx[b] # Absent
  BY DEF LinksInv, RecordsLinked
<1>3. CASE AddNewBest
  <2>1. pc = "index" /\ txn' = txn /\ Seek(best)
    BY <1>3 DEF AddNewBest
  <2>2. LinkedTo = best /\ new \in Blocks /\ EntriesLinked
    BY <1>0, <2>1 DEF Moving
  <2>3. \A c \in Anc[new] \ {best} : Prev[c] = best => c \notin Anc[best]
    <3> SUFFICES ASSUME NEW c \in Anc[new] \ {best}, Prev[c] = best, c \in Anc[best]
                 PROVE  FALSE
      OBVIOUS
    <3>1. c \in Blocks /\ Height[c] <= Height[best]
      BY <1>0, Basics, TreeAssumption
    <3> QED
      BY <1>0, <3>1, ChildFacts
  <2>4. txn'.idx[new] # Absent
    BY <2>1 DEF LinksInv, BranchPlaced
  <2> QED
    BY <1>0, <1>1, <1>2, <2>1, <2>2, <2>3, <2>4, SeekLinks, SelfAncestor DEF EntriesLinked
<1>4. CASE DisconnectTx \/ ConnectTx
  <2>1. /\ UNCHANGED <<pc, new, at, cur>>
        /\ \E t : txn' = DisconnectInputs(txn, t) \/ txn' = ConnectInputs(txn, t, cur)
    BY <1>4 DEF DisconnectTx, ConnectTx
  <2>2. txn'.idx = txn.idx
    BY <1>0, <2>1 DEF DisconnectInputs, ConnectInputs, DbType
  <2> QED
    BY <1>1, <2>1, <2>2 DEF LinksInv, RecordsLinked, MemoryLinked, BranchPlaced, LinkedTo, Moving
<1>5. CASE DisconnectBlock
  <2>1. pc = "disconnect" /\ txn' = [txn EXCEPT !.idx[at] = None] /\ Seek(at)
    BY <1>5 DEF DisconnectBlock
  <2>2. /\ cur \in Blocks \ {Genesis} /\ Prev[cur] = at /\ LinkedTo = cur /\ new \in Blocks
        /\ EntriesLinked
    BY <1>0, <2>1 DEF Moving, LinkedTo
  <2>3. txn'.idx = [txn.idx EXCEPT ![at] = None] /\ txn.idx \in [Blocks -> Blocks \cup {None, Absent}]
    BY <1>0, <2>1, RecordUpdate
  <2>4. Anc[cur] = Anc[at] \cup {cur} /\ cur \notin Anc[at] /\ at \in Anc[cur]
    BY <2>2, ParentFacts, ChildFacts
  <2>5. cur \in Anc[best] /\ cur \notin Anc[new]
    BY <2>1 DEF LinksInv, BranchPlaced
  <2>6. Anc[cur] \subseteq Anc[best]
    BY <1>0, <2>5, Basics
  <2>7. \A b \in Blocks : txn'.idx[b] # Absent => NextOn(b, txn'.idx[b], at)
    <3> SUFFICES ASSUME NEW b \in Blocks, txn'.idx[b] # Absent
                 PROVE  NextOn(b, txn'.idx[b], at)
      OBVIOUS
    <3>1. CASE b = at
      BY <2>2, <2>3, <3>1, LinksDown
    <3>2. CASE b # at
      <4>1. txn'.idx[b] = txn.idx[b] /\ NextOn(b, txn.idx[b], cur)
        BY <1>2, <2>2, <2>3, <3>2
      <4> QED
        BY <2>2, <3>2, <4>1, LinksDown
    <3> QED
      BY <3>1, <3>2
  <2>8. \A b \in Anc[at] \ {at} : txn'.idx[b] # Absent
    BY <1>0, <1>2, <2>2, <2>3, <2>4, Basics
  <2>9. txn'.idx[new] # Absent
    <3>1. txn.idx[new] # Absent
      BY <2>1 DEF LinksInv, BranchPlaced
    <3> QED
      BY <2>2, <2>3, <3>1, Basics
  <2>10. \A c \in Anc[new] \ {at} : Prev[c] = at => c \notin Anc[best]
    <3> SUFFICES ASSUME NEW c \in Anc[new] \ {at}, Prev[c] = at, c \in Anc[best]
                 PROVE  FALSE
      OBVIOUS
    <3>1. c \in Blocks /\ c # Genesis
      BY <2>2, Basics, ChildFacts
    <3>2. Height[c] = Height[cur]
      BY <2>2, <3>1, ChildFacts
    <3>3. c = cur
      BY <1>0, <2>5, <3>2, LineUnique
    <3> QED
      BY <2>5, <3>3
  <2> QED
    BY <1>0, <1>1, <2>1, <2>2, <2>4, <2>6, <2>7, <2>8, <2>9, <2>10, SeekLinks DEF EntriesLinked
<1>6. CASE ConnectBlock
  <2>1. pc = "connect" /\ txn' = [txn EXCEPT !.idx[at] = cur] /\ Seek(cur)
    BY <1>6 DEF ConnectBlock
  <2>2. /\ cur \in Blocks \ {Genesis} /\ Prev[cur] = at /\ LinkedTo = at /\ new \in Blocks
        /\ EntriesLinked
    BY <1>0, <2>1 DEF Moving, LinkedTo
  <2>3. txn'.idx = [txn.idx EXCEPT ![at] = cur] /\ txn.idx \in [Blocks -> Blocks \cup {None, Absent}]
    BY <1>0, <2>1, <2>2, RecordUpdate
  <2>4. Anc[cur] = Anc[at] \cup {cur} /\ cur \notin Anc[at]
    BY <2>2, ParentFacts
  <2>5. cur \in Anc[new] /\ cur \notin Anc[best] /\ cur \in index
    BY <2>1 DEF LinksInv, BranchPlaced
  <2>6. Anc[at] \subseteq index
    BY <2>1, <2>2 DEF LinksInv, MemoryLinked
  <2>7. \A b \in Blocks : txn'.idx[b] # Absent => NextOn(b, txn'.idx[b], cur)
    <3> SUFFICES ASSUME NEW b \in Blocks, txn'.idx[b] # Absent
                 PROVE  NextOn(b, txn'.idx[b], cur)
      OBVIOUS
    <3>1. CASE b = at
      BY <2>2, <2>3, <3>1, LinksUp
    <3>2. CASE b # at
      <4>1. txn'.idx[b] = txn.idx[b] /\ NextOn(b, txn.idx[b], at)
        BY <1>2, <2>2, <2>3, <3>2
      <4> QED
        BY <2>2, <3>2, <4>1, LinksUp
    <3> QED
      BY <3>1, <3>2
  <2>8. \A b \in Anc[cur] \ {cur} : txn'.idx[b] # Absent
    BY <1>0, <1>2, <2>2, <2>3, <2>4, Basics
  <2>9. txn'.idx[new] # Absent
    <3>1. txn.idx[new] # Absent
      BY <2>1 DEF LinksInv, BranchPlaced
    <3> QED
      BY <2>2, <2>3, <3>1, Basics
  <2>10. \A c \in Anc[new] \ {cur} : Prev[c] = cur => c \notin Anc[best]
    <3> SUFFICES ASSUME NEW c \in Anc[new] \ {cur}, Prev[c] = cur, c \in Anc[best]
                 PROVE  FALSE
      OBVIOUS
    <3>1. c \in Blocks /\ Anc[c] \subseteq Anc[best]
      BY <1>0, Basics
    <3>2. cur \in Anc[c]
      BY <2>2, <3>1, ChildFacts
    <3> QED
      BY <2>5, <3>1, <3>2
  <2> QED
    BY <1>0, <1>1, <2>1, <2>2, <2>4, <2>5, <2>6, <2>7, <2>8, <2>9, <2>10, SeekLinks
<1> QED
  BY <1>3, <1>4, <1>5, <1>6

\* The end of a reorganization: the records that are committed link the new
\* line, and the pointers in memory follow; or the transaction is aborted.
LEMMA EndLinks ==
  ASSUME IndInv, LinksInv, ConnectFails \/ Commit
  PROVE  LinksInv'
<1>0. /\ CommittedLinked /\ (pc # "down" => EntriesLinked)
      /\ best = db.best /\ best \in Blocks /\ txn \in DbType
      /\ pc \notin {"idle", "down"} => new \in Blocks
  BY LinksParts
<1>1. CASE ConnectFails
  <2>1. /\ pc = "connect" /\ txn' = db /\ pc' = "purge" /\ at' = best
        /\ UNCHANGED <<index, pnext, best, db, new, cur>>
    BY <1>1 DEF ConnectFails, memVars
  <2>2. LinkedTo' = best
    BY <2>1 DEF LinkedTo
  <2>3. RecordsLinked'
    BY <1>0, <2>1, <2>2 DEF RecordsLinked, CommittedLinked
  <2>4. MemoryLinked'
    BY <1>0, <2>1, <2>2 DEF MemoryLinked, EntriesLinked
  <2>5. BranchPlaced'
    BY <2>1 DEF LinksInv, BranchPlaced, Moving
  <2> QED
    BY <2>3, <2>4, <2>5 DEF LinksInv
<1>2. CASE Commit
  <2>1. /\ pc = "commit" /\ db' = [txn EXCEPT !.best = new] /\ txn' = db' /\ best' = new
        /\ Rest(new, "idle") /\ index' = index
    BY <1>2 DEF Commit
  <2>2. LinkedTo = new /\ new \in Blocks /\ EntriesLinked
    <3>1. at = new
      BY <2>1 DEF IndInv, JobOK
    <3> QED
      BY <1>0, <2>1, <3>1 DEF LinkedTo
  <2>3. db'.best = new /\ db'.idx = txn.idx
    BY <1>0, <2>1 DEF DbType
  <2>4. CommittedLinked'
    <3>1. txn.idx[new] # Absent
      BY <2>1 DEF LinksInv, BranchPlaced
    <3> QED
      BY <2>2, <2>3, <3>1 DEF CommittedLinked, LinksInv, RecordsLinked
  <2>5. Anc[new] \subseteq index
    BY <2>1, <2>2 DEF LinksInv, MemoryLinked
  <2>6. ASSUME NEW b \in Blocks
        PROVE  NextOn(b, pnext'[b], new)
    <3> DEFINE m == IF \E c \in Anc[new] \ Anc[best] : Prev[c] = b
                      THEN CHOOSE c \in Anc[new] \ Anc[best] : Prev[c] = b
                    ELSE IF \E c \in Anc[best] \ Anc[new] : Prev[c] = b THEN None
                    ELSE pnext[b]
    <3>1. pnext'[b] = m
      BY <1>2 DEF Commit
    <3>2. NextOn(b, pnext[b], best)
      BY <2>2 DEF EntriesLinked
    <3>3. NextOn(b, m, new)
      BY <1>0, <2>2, <3>2, CommitLinks, Zenon
    <3> HIDE DEF m
    <3> QED
      BY <3>1, <3>3
  <2>7. EntriesLinked'
    BY <2>1, <2>5, <2>6 DEF EntriesLinked
  <2> QED
    BY <2>1, <2>3, <2>4, <2>7, RestLinks
<1> QED
  BY <1>1, <1>2

\* The deletion of a failed branch stays off the best chain.
LEMMA PurgeLinks ==
  ASSUME IndInv, LinksInv, EraseBlockFromDisk \/ EraseBlockIndex
  PROVE  LinksInv'
<1>0. /\ CommittedLinked /\ (pc # "down" => EntriesLinked)
      /\ best = db.best /\ best \in Blocks /\ db \in DbType
      /\ ~ Moving /\ pc # "commit" => at = best /\ LinkedTo = best
  BY LinksParts
<1>1. CASE EraseBlockFromDisk
  <2>1. UNCHANGED <<index, pnext, best, db, txn, pc, new, at, cur>>
    BY <1>1 DEF EraseBlockFromDisk, memVars, jobVars
  <2> QED
    BY <2>1 DEF LinksInv, RecordsLinked, MemoryLinked, BranchPlaced, LinkedTo, Moving
<1>2. CASE EraseBlockIndex
  <2>1. /\ pc = "purge" /\ db' = [db EXCEPT !.idx[cur] = Absent] /\ txn' = db'
        /\ index' = index \ {cur} /\ UNCHANGED <<pnext, best>>
    BY <1>2 DEF EraseBlockIndex
  <2>2. cur \in Blocks /\ cur \in Anc[new] /\ cur \notin Anc[best]
    BY <2>1 DEF IndInv, JobOK, LinksInv, BranchPlaced
  <2>3. db'.idx = [db.idx EXCEPT ![cur] = Absent] /\ db'.best = db.best
        /\ db.idx \in [Blocks -> Blocks \cup {None, Absent}]
    BY <1>0, <2>1, <2>2, RecordUpdate
  <2>4. CommittedLinked'
    <3>1. \A b \in Blocks : db'.idx[b] # Absent => b # cur /\ db'.idx[b] = db.idx[b]
      BY <2>2, <2>3
    <3>2. \A b \in Anc[db.best] : db'.idx[b] # Absent
      BY <1>0, <2>2, <2>3, Basics DEF CommittedLinked
    <3> QED
      BY <1>0, <2>3, <3>1, <3>2 DEF CommittedLinked
  <2>5. EntriesLinked'
    BY <1>0, <2>1, <2>2 DEF EntriesLinked
  <2>6. CASE cur = new
    <3>1. Rest(best, "idle")
      BY <1>2, <2>6 DEF EraseBlockIndex
    <3> QED
      BY <1>0, <2>1, <2>3, <2>4, <2>5, <3>1, RestLinks
  <2>7. CASE cur # new
    <3>1. PICK c \in index \cap Anc[new] : Prev[c] = cur /\ cur' = c
      BY <1>2, <2>7 DEF EraseBlockIndex
    <3>2. UNCHANGED <<pc, new, at>>
      BY <1>2, <2>7 DEF EraseBlockIndex
    <3>3. c \notin Anc[best]
      <4> SUFFICES ASSUME c \in Anc[best] PROVE FALSE
        OBVIOUS
      <4>1. c \in Blocks /\ Anc[c] \subseteq Anc[best]
        BY <1>0, Basics
      <4>2. cur \in Anc[c]
        BY <3>1, <4>1, ChildFacts, SelfAncestor
      <4> QED
        BY <2>2, <4>1, <4>2
    <3>4. LinkedTo' = best
      BY <1>0, <2>1, <3>2 DEF LinkedTo, Moving
    <3>5. RecordsLinked'
      BY <1>0, <2>1, <2>3, <2>4, <3>4 DEF RecordsLinked, CommittedLinked
    <3>6. MemoryLinked'
      BY <2>1, <2>5, <3>4 DEF MemoryLinked, EntriesLinked
    <3>7. BranchPlaced'
      BY <2>1, <3>1, <3>2, <3>3 DEF BranchPlaced, Moving
    <3> QED
      BY <3>5, <3>6, <3>7 DEF LinksInv
  <2> QED
    BY <2>6, <2>7
<1> QED
  BY <1>1, <1>2

\* LoadBlockIndex takes the pointers from the records, which a crash left as
\* the last commit wrote them.
LEMMA RestartLinks ==
  ASSUME IndInv, LinksInv, Restart \/ \E kind \in CrashKinds : Crash(kind)
  PROVE  LinksInv'
<1>0. /\ CommittedLinked /\ best = db.best /\ best \in Blocks
  BY LinksParts
<1>1. ASSUME NEW kind \in CrashKinds, Crash(kind)
      PROVE  LinksInv'
  BY <1>0, <1>1, RestLinks DEF Crash, ProcessEnds, CommittedLinked
<1>2. CASE Restart
  <2>1. /\ pc = "down" /\ index' = Recorded
        /\ pnext' = [b \in Blocks |-> IF db.idx[b] = Absent THEN None ELSE db.idx[b]]
        /\ UNCHANGED <<best, db, txn>>
    BY <1>2 DEF Restart
  <2>2. txn.idx = db.idx
    BY <2>1 DEF LinksInv, BranchPlaced, Moving
  <2>3. Anc[best] \subseteq Recorded
    BY <1>0, Basics DEF CommittedLinked, Recorded
  <2>4. ASSUME NEW b \in Blocks
        PROVE  NextOn(b, pnext'[b], best)
    <3>1. CASE db.idx[b] = Absent
      <4>1. b \notin Anc[best] /\ pnext'[b] = None
        BY <1>0, <2>1, <3>1 DEF CommittedLinked
      <4> QED
        BY <1>0, <4>1, OffTheLine
    <3>2. CASE db.idx[b] # Absent
      BY <1>0, <2>1, <3>2 DEF CommittedLinked
    <3> QED
      BY <3>1, <3>2
  <2>5. EntriesLinked' /\ CommittedLinked'
    BY <1>0, <2>1, <2>3, <2>4 DEF EntriesLinked, CommittedLinked
  <2> DEFINE bad == {b \in CheckedTail : disk[b] = "null" \/ ~ CheckBlock(b, strict')}
  <2>6. CASE bad = {}
    <3>1. Rest(best, "idle")
      BY <1>2, <2>6 DEF Restart
    <3> QED
      BY <1>0, <2>1, <2>2, <2>5, <3>1, RestLinks
  <2>7. CASE bad # {}
    <3>1. PICK b \in bad : new' = Prev[b]
      BY <1>2, <2>7 DEF Restart
    <3>2. pc' = "disconnect" /\ cur' = best /\ at' = Prev[best]
      BY <1>2, <2>7 DEF Restart
    <3>3. b \in Anc[best] \ {Genesis} /\ b \in Blocks
      BY <1>0, <3>1, Basics DEF CheckedTail
    <3>4. Prev[b] \in Anc[best] /\ Prev[b] \in Blocks
      BY <1>0, <3>3, Basics, ChildFacts
    <3>5. best \notin Anc[Prev[b]]
      <4>1. Height[b] <= Height[best] /\ Height[b] = Height[Prev[b]] + 1
        BY <1>0, <3>3, ChildFacts, TreeAssumption
      <4>2. best \in Anc[Prev[b]] => Height[best] <= Height[Prev[b]]
        BY <3>4, TreeAssumption
      <4> QED
        BY <1>0, <3>4, <4>1, <4>2, ChildFacts
    <3>6. LinkedTo' = best
      BY <3>2 DEF LinkedTo
    <3>7. RecordsLinked'
      BY <1>0, <2>1, <2>2, <2>5, <3>6 DEF RecordsLinked, CommittedLinked
    <3>8. MemoryLinked'
      BY <2>1, <2>5, <3>6 DEF MemoryLinked, EntriesLinked
    <3>9. BranchPlaced'
      <4>1. txn'.idx[new'] # Absent
        BY <1>0, <2>1, <2>2, <3>1, <3>4 DEF CommittedLinked
      <4> QED
        BY <1>0, <2>1, <3>1, <3>2, <3>5, <4>1, SelfAncestor DEF BranchPlaced, Moving
    <3> QED
      BY <3>7, <3>8, <3>9 DEF LinksInv
  <2> QED
    BY <2>6, <2>7
<1> QED
  BY <1>1, <1>2

\* Every step keeps the links.
LEMMA NextLinks == IndInv /\ LinksInv /\ [Next]_vars => LinksInv'
<1> SUFFICES ASSUME IndInv, LinksInv, [Next]_vars PROVE LinksInv'
  OBVIOUS
<1>1. CASE UNCHANGED vars
  BY <1>1 DEF vars, memVars, jobVars, LinksInv, RecordsLinked, MemoryLinked, BranchPlaced,
              LinkedTo, Moving
<1>2. ASSUME NEW b \in Blocks, ReceiveBlock(b)
      PROVE  LinksInv'
  BY <1>2, ReceiveLinks DEF ReceiveBlock
<1>3. CASE HandlerStep
  <2>1. ASSUME NEW b \in Blocks, AcceptBlock(b) \/ FollowFreedEntry(b) \/ RefuseOrphan(b)
        PROVE  LinksInv'
    BY <2>1, ReceiveLinks
  <2>2. CASE NextInQueue \/ AddSideBlock \/ AddWithoutFork \/ ReadFails \/ ReadNullBlock
    BY <2>2, LeaveLinks
  <2>3. CASE AddNewBest \/ DisconnectTx \/ DisconnectBlock \/ ConnectTx \/ ConnectBlock
    BY <2>3, ReorganizeLinks
  <2>4. CASE ConnectFails \/ Commit
    BY <2>4, EndLinks
  <2>5. CASE EraseBlockFromDisk \/ EraseBlockIndex
    BY <2>5, PurgeLinks
  <2> QED
    BY <1>3, <2>1, <2>2, <2>3, <2>4, <2>5 DEF HandlerStep
<1>4. CASE Restart \/ \E kind \in CrashKinds : Crash(kind)
  BY <1>4, RestartLinks
<1> QED
  BY <1>1, <1>2, <1>3, <1>4 DEF Next

\* A fresh data directory: genesis, linked to nothing.
LEMMA InitLinks == Init => LinksInv
<1> SUFFICES ASSUME Init PROVE LinksInv
  OBVIOUS
<1> USE Basics DEF Init, FreshDb
<1>1. Anc[Genesis] = {Genesis} /\ LinkedTo = Genesis /\ ~ Moving
  BY TreeAssumption DEF LinkedTo, Moving
<1>2. ASSUME NEW b \in Blocks PROVE NextOn(b, None, Genesis)
  <2>1. \A c \in Anc[Genesis] \ {b} : Prev[c] # b
    BY <1>1, TreeAssumption
  <2> QED
    BY <2>1 DEF NextOn
<1>3. RecordsLinked
  BY <1>1, <1>2 DEF RecordsLinked
<1>4. MemoryLinked
  BY <1>1, <1>2 DEF MemoryLinked
<1>5. BranchPlaced
  BY DEF BranchPlaced
<1> QED
  BY <1>3, <1>4, <1>5 DEF LinksInv

\* What a reader of pnext or of the block index on disk is told of the best
\* chain is true at every step, through reorganizations that fail, purges,
\* crashes and repairs.
THEOREM MainChainLinksCorrect == Spec => []MainChainLinks
<1>1. Init => IndInv /\ LinksInv
  BY InitIndInv, InitLinks
<1>2. IndInv /\ LinksInv /\ [Next]_vars => (IndInv /\ LinksInv)'
  BY NextIndInv, NextLinks
<1>3. IndInv /\ LinksInv => MainChainLinks
  <2> SUFFICES ASSUME IndInv, LinksInv PROVE MainChainLinks
    OBVIOUS
  <2>1. /\ CommittedLinked /\ (pc # "down" => EntriesLinked)
        /\ best = db.best /\ best \in Blocks /\ index \subseteq Blocks
    BY LinksParts DEF IndInv, TypeOK
  <2>2. ASSUME NEW b \in Blocks, NEW n, NextOn(b, n, db.best)
        PROVE  /\ n # None <=> \E c \in Anc[db.best] \ {b} : Prev[c] = b
               /\ n # None => n \in Anc[db.best] /\ Prev[n] = b
    BY <2>2 DEF NextOn
  <2>3. Anc[best] \subseteq Recorded
    BY <2>1, Basics DEF CommittedLinked, Recorded
  <2> QED
    BY <2>1, <2>2, <2>3 DEF MainChainLinks, CommittedLinked, EntriesLinked, Recorded
<1> QED
  BY <1>1, <1>2, <1>3, PTL DEF Spec

----------------------------------------------------------------------------
(* Coins.  What a chain mints bounds what its coins are worth.             *)

\* v >> k is a natural number: induction on k for the numbers it goes
\* through, and that there are such.
LEMMA ShiftRightType ==
  ASSUME NEW v \in Nat, NEW k \in Nat
  PROVE  ShiftRight(v, k) \in Nat
<1> DEFINE Halves(m, g) == g = [n \in 0 .. m |-> IF n = 0 THEN v ELSE g[n - 1] \div 2]
           Bad == {m \in Nat : ~ \E g \in [0 .. m -> Nat] : Halves(m, g)}
<1>1. Bad = {}
  <2>1. SUFFICES ASSUME Bad # {} PROVE FALSE
    OBVIOUS
  <2>2. PICK m \in Bad : m \in Nat /\ \A n \in Nat : n < m => n \notin Bad
    BY <2>1, LeastOutside
  <2>3. m # 0
    <3> DEFINE g == [n \in 0 .. 0 |-> v]
    <3>1. Halves(0, g) /\ g \in [0 .. 0 -> Nat]
      OBVIOUS
    <3> QED
      BY <2>2, <3>1
  <2>4. m - 1 \in Nat /\ m - 1 \notin Bad
    <3> HIDE DEF Bad
    <3> QED
      BY <2>2, <2>3
  <2>5. PICK g \in [0 .. m - 1 -> Nat] : Halves(m - 1, g)
    BY <2>4
  <2> DEFINE h == [n \in 0 .. m |-> IF n = m THEN g[m - 1] \div 2 ELSE g[n]]
  <2>6. \A x \in Nat : x \div 2 \in Nat
    OBVIOUS
  <2>7. \A n \in 0 .. m - 1 : g[n] \in Nat /\ g[n] = IF n = 0 THEN v ELSE g[n - 1] \div 2
    BY <2>5
  <2>8. ASSUME NEW n \in 0 .. m
        PROVE  h[n] \in Nat /\ h[n] = IF n = 0 THEN v ELSE h[n - 1] \div 2
    <3>1. CASE n = m
      <4>1. h[n] = g[m - 1] \div 2 /\ m - 1 \in 0 .. m - 1
        BY <2>2, <2>4, <3>1
      <4>2. h[n - 1] = g[m - 1]
        BY <2>2, <2>4, <3>1
      <4> HIDE DEF h
      <4> QED
        BY <2>2, <2>3, <2>6, <2>7, <3>1, <4>1, <4>2
    <3>2. CASE n # m
      <4>1. h[n] = g[n] /\ n \in 0 .. m - 1 /\ (n # 0 => n - 1 \in 0 .. m - 1 /\ n - 1 \in 0 .. m /\ n - 1 # m)
        BY <2>2, <2>4, <3>2
      <4>2. n # 0 => h[n - 1] = g[n - 1]
        BY <4>1
      <4> HIDE DEF h
      <4> QED
        BY <2>7, <4>1, <4>2
    <3> QED
      BY <3>1, <3>2
  <2>9. h \in [0 .. m -> Nat] /\ Halves(m, h)
    BY <2>8
  <2> QED
    BY <2>2, <2>9
<1> DEFINE s == CHOOSE g : Halves(k, g)
<1>2. Halves(k, s)
  <2>1. \E g : Halves(k, g)
    BY <1>1
  <2> HIDE DEF Halves
  <2> QED
    BY <2>1
<1>3. ShiftRight(v, k) = s[k]
  BY DEF ShiftRight
<1> HIDE DEF s
<1> DEFINE Odd == {n \in 0 .. k : s[n] \notin Nat}
<1>4. Odd = {}
  <2>1. SUFFICES ASSUME Odd # {} PROVE FALSE
    OBVIOUS
  <2>2. PICK n \in Odd : n \in Nat /\ \A m \in Nat : m < n => m \notin Odd
    <3>1. Odd \in SUBSET Nat
      OBVIOUS
    <3> HIDE DEF Odd
    <3> QED
      BY <2>1, <3>1, LeastOutside
  <2>3. s[n] = IF n = 0 THEN v ELSE s[n - 1] \div 2
    BY <1>2, <2>2
  <2>4. n # 0 /\ n - 1 \in 0 .. k /\ n - 1 < n /\ n - 1 \in Nat
    BY <2>2, <2>3
  <2>5. s[n - 1] \in Nat
    BY <2>2, <2>4
  <2> QED
    BY <2>2, <2>3, <2>4, <2>5
<1> QED
  BY <1>3, <1>4

\* GetBlockValue is the subsidy of the block's height plus the fees.
LEMMA BlockValue ==
  ASSUME NEW b \in Blocks
  PROVE  /\ Subsidy[b] \in Nat
         /\ \A f \in Int : GetBlockValue(Height[b], f) = Subsidy[b] + f
<1>1. Height[b] \in Nat /\ HALVING \in Nat \ {0} /\ SUBSIDY \in Nat
  BY TreeAssumption, ParameterAssumption
<1>2. Height[b] \div HALVING \in Nat
  BY <1>1
<1>3. ShiftRight(SUBSIDY, Height[b] \div HALVING) \in Nat
  BY <1>1, <1>2, ShiftRightType
<1> QED
  BY <1>3 DEF Subsidy, GetBlockValue

\* Outputs, and the values they have.
LEMMA OutputsType ==
  ASSUME NEW t \in Txs
  PROVE  /\ IsFiniteSet(Outputs(t)) /\ \A o \in Outputs(t) : o[1] = t /\ Value[o] \in Nat
         /\ \A o \in In[t] : o[2] \in DOMAIN Out[o[1]] => o \in Outputs(o[1])
<1>1. Out[t] \in Seq(Nat) /\ DOMAIN Out = Txs
  BY TxAssumption
<1>2. DOMAIN Out[t] = 1 .. Len(Out[t]) /\ Len(Out[t]) \in Nat
  BY <1>1
<1>3. IsFiniteSet(DOMAIN Out[t])
  BY <1>2, FS_Interval
<1>4. IsFiniteSet(Outputs(t))
  <2> DEFINE f == [n \in DOMAIN Out[t] |-> <<t, n>>]
  <2>1. f \in Surjection(DOMAIN Out[t], Outputs(t))
    BY DEF Surjection, Outputs
  <2> QED
    BY <1>3, <2>1, FS_Surjection
<1>5. ASSUME NEW o \in Outputs(t)
      PROVE  o[1] = t /\ Value[o] \in Nat
  <2>1. PICK n \in DOMAIN Out[t] : o = <<t, n>>
    BY DEF Outputs
  <2>2. Value[o] = Out[t][n]
    BY <1>1, <2>1 DEF Value
  <2>3. Out[t][n] \in Nat
    BY <1>1, <1>2
  <2> QED
    BY <2>1, <2>2, <2>3
<1>6. ASSUME NEW o \in In[t], o[2] \in DOMAIN Out[o[1]]
      PROVE  o \in Outputs(o[1])
  BY <1>6, TxAssumption DEF Outputs
<1> QED
  BY <1>4, <1>5, <1>6

\* The index of a chain holds the coins that its blocks leave.
LEMMA ViewCoins ==
  ASSUME NEW d \in DbType, NEW a \in Blocks, View(d, a, None, 0)
  PROVE  Unspent(d) = LineCoins(a)
<1>1. ASSUME NEW t \in Txs
      PROVE  d.pos[t] # None <=> t \in LineTxs(a)
  <2>1. \A b, i : Applied(b, i, a, None, 0) <=> b \in Anc[a] \ {Genesis} /\ i \in DOMAIN Vtx[b]
    BY Basics DEF Applied
  <2>2. d.pos[t] \in Blocks \cup {None}
    BY DEF DbType
  <2>3. \A b \in Blocks : d.pos[t] = b <=> \E i \in DOMAIN Vtx[b] : Applied(b, i, a, None, 0) /\ Vtx[b][i] = t
    BY DEF View, PosOK
  <2> QED
    BY <2>1, <2>2, <2>3, Basics DEF LineTxs
<1>2. ASSUME NEW o \in Outpoints
      PROVE  d.spent[o] # None <=> \E t \in LineTxs(a) : o \in In[t]
  <2>1. d.spent[o] \in Txs \cup {None}
    BY DEF DbType
  <2>2. \A t \in Txs : d.spent[o] = t <=> o \in In[t] /\ d.pos[t] # None
    BY DEF View, SpentOK
  <2>3. LineTxs(a) \subseteq Txs
    BY DEF LineTxs
  <2> QED
    BY <1>1, <2>1, <2>2, <2>3, Basics
<1>3. {u \in Txs : d.pos[u] # None} = LineTxs(a)
  BY <1>1 DEF LineTxs
<1>4. ASSUME NEW o
      PROVE  o \notin UNION {In[t] : t \in LineTxs(a)} <=> (o \notin Outpoints \/ d.spent[o] = None)
  <2>1. UNION {In[t] : t \in LineTxs(a)} \subseteq Outpoints
    BY Basics DEF LineTxs
  <2> QED
    BY <1>2, <2>1
<1> DEFINE made == UNION {Outputs(t) : t \in LineTxs(a)}
           used == UNION {In[t] : t \in LineTxs(a)}
<1>5. Unspent(d) = {o \in made : o \notin Outpoints \/ d.spent[o] = None}
  BY <1>3 DEF Unspent
<1>6. LineCoins(a) = made \ used
  BY DEF LineCoins
<1>7. \A o : o \notin used <=> (o \notin Outpoints \/ d.spent[o] = None)
  BY <1>4
<1> HIDE DEF made, used
<1> QED
  BY <1>5, <1>6, <1>7

\* ConnectInputs takes the coins it spends out of the index, and puts in no
\* others than the outputs of the transaction.
LEMMA ConnectCoins ==
  ASSUME NEW d \in DbType, NEW t \in Txs, NEW a \in Blocks, NEW b \in Blocks, InputsConnect(d, t, a)
  PROVE  /\ In[t] \subseteq Unspent(d)
         /\ Unspent(ConnectInputs(d, t, b)) \subseteq (Unspent(d) \ In[t]) \cup Outputs(t)
<1> DEFINE e == ConnectInputs(d, t, b)
<1>1. /\ d.pos \in [Txs -> Blocks \cup {None}]
      /\ e.pos = [d.pos EXCEPT ![t] = b]
      /\ e.spent = [o \in Outpoints |->
                      IF o \in In[t] THEN t ELSE IF o[1] = t THEN None ELSE d.spent[o]]
  BY DEF DbType, ConnectInputs
<1>2. ASSUME NEW o \in In[t]
      PROVE  o \in Unspent(d)
  <2>1. o[1] \in Txs /\ d.pos[o[1]] # None /\ d.spent[o] = None /\ o[2] \in DOMAIN Out[o[1]]
    BY Basics DEF InputsConnect
  <2>2. o \in Outputs(o[1])
    BY <2>1, OutputsType
  <2> QED
    BY <2>1, <2>2 DEF Unspent
<1> HIDE DEF e
<1>3. ASSUME NEW o \in Unspent(e), o \notin Outputs(t)
      PROVE  o \in Unspent(d) \ In[t]
  <2>1. PICK u \in Txs : o \in Outputs(u) /\ e.pos[u] # None /\ (o \notin Outpoints \/ e.spent[o] = None)
    BY DEF Unspent
  <2>2. u # t /\ o[1] = u
    BY <1>3, <2>1, OutputsType
  <2>3. d.pos[u] # None
    BY <1>1, <2>1, <2>2
  <2>4. o \notin In[t] /\ (o \notin Outpoints \/ d.spent[o] = None)
    BY <1>1, <2>1, <2>2, Basics
  <2> QED
    BY <2>1, <2>3, <2>4 DEF Unspent
<1> QED
  BY <1>2, <1>3 DEF e

LEMMA ValueOutType ==
  ASSUME NEW c \in Blocks, Vtx[c] # <<>>
  PROVE  ValueOut(Vtx[c][1]) \in Int
<1>1. Vtx[c][1] \in Txs
  BY TxAssumption
<1> DEFINE S == Outputs(Vtx[c][1])
<1>2. IsFiniteSet(S) /\ \A o \in S : Value[o] \in Int
  BY <1>1, OutputsType
<1> HIDE DEF S
<1>3. SumFunctionOnSet(Value, S) \in Int
  BY <1>2, SumType
<1> QED
  BY <1>3 DEF S, ValueOut

\* What a chain may mint is a number.
LEMMA MintedType ==
  ASSUME NEW a \in Blocks, LineBounded(a)
  PROVE  Minted(a) \in Int
<1>1. IsFiniteSet(Anc[a] \ {Genesis}) /\ \A x \in Anc[a] \ {Genesis} : Subsidy[x] \in Int
  BY FS_Subset, BlockValue, Basics DEF LineBounded
<1> QED
  BY <1>1, SumType DEF Minted

\* A block on a bounded chain that claims no more than it may leaves a
\* bounded chain.
LEMMA BlockBounded ==
  ASSUME NEW c \in Blocks \ {Genesis}, LineBounded(Prev[c]), NEW d \in DbType, View(d, c, None, 0),
         IsFiniteSet(Unspent(d)), SumFunctionOnSet(Value, Unspent(d)) <= Minted(Prev[c]) + Subsidy[c]
  PROVE  LineBounded(c)
<1> DEFINE p == Prev[c]
           S == Anc[p] \ {Genesis}
           T == Anc[c] \ {Genesis}
<1>1. p \in Blocks /\ Anc[c] = Anc[p] \cup {c} /\ c \notin Anc[p] /\ Anc[c] \subseteq Blocks
  BY ParentFacts, Basics
<1>2. IsFiniteSet(Anc[c])
  BY <1>1, FS_AddElement DEF LineBounded
<1>3. IsFiniteSet(T) /\ T \subseteq Blocks /\ c \in T /\ T \ {c} = S
  BY <1>1, <1>2, FS_Subset
<1>4. \A x \in T : Subsidy[x] \in Int
  BY <1>3, BlockValue
<1>5. Minted(c) = Subsidy[c] + Minted(p)
  <2> HIDE DEF T, S
  <2>1. SumFunctionOnSet(Subsidy, T) = Subsidy[c] + SumFunctionOnSet(Subsidy, T \ {c})
    BY <1>3, <1>4, SumAdd
  <2> QED
    BY <1>3, <2>1 DEF T, S, Minted
<1>6. Minted(p) \in Int
  BY <1>1, MintedType
<1>7. Subsidy[c] \in Int
  BY <1>3, <1>4
<1>8. Unspent(d) = LineCoins(c)
  BY ViewCoins
<1> QED
  BY <1>2, <1>5, <1>6, <1>7, <1>8 DEF LineBounded

----------------------------------------------------------------------------
(* The invariant of the coins.                                             *)

\* A fresh data directory has no coins.
LEMMA InitMint == Init => MintInv
<1> SUFFICES ASSUME Init PROVE MintInv
  OBVIOUS
<1>1. db.best = Genesis /\ at = Genesis /\ pc = "idle"
  BY DEF Init, FreshDb
<1>2. Anc[Genesis] = {Genesis}
  BY TreeAssumption
<1>3. IsFiniteSet(Anc[Genesis])
  BY <1>2, FS_Singleton
<1>4. LineCoins(Genesis) = {} /\ Anc[Genesis] \ {Genesis} = {}
  BY <1>2 DEF LineCoins, LineTxs
<1>5. IsFiniteSet(LineCoins(Genesis))
  BY <1>4, FS_EmptySet
<1>6. SumFunctionOnSet(Value, LineCoins(Genesis)) = 0 /\ Minted(Genesis) = 0
  BY <1>4, SumStep DEF Minted
<1> QED
  BY <1>1, <1>2, <1>3, <1>5, <1>6 DEF MintInv, JobBounded, LineBounded

\* Steps that leave ConnectBlock alone, and the chain where it was or bounded.
LEMMA QuietMint ==
  ASSUME MintInv, pc' # "connect",
         db'.best \in Anc[db.best] \cup Anc[at], at' \in Anc[db.best] \cup Anc[at],
         db.best \in Blocks, at \in Blocks
  PROVE  MintInv'
<1>1. Anc[db'.best] \cup Anc[at'] \subseteq Anc[db.best] \cup Anc[at]
  BY Basics
<1>2. \A a \in Anc[db'.best] \cup Anc[at'] : LineBounded(a)
  BY <1>1 DEF MintInv
<1> QED
  BY <1>2 DEF MintInv, JobBounded, LineBounded

\* Seek sets out from, or goes back along, a bounded chain.
LEMMA SeekMint ==
  ASSUME NEW a \in Blocks, Seek(a), txn' \in DbType, View(txn', a, None, 0), db'.best = db.best,
         db.best \in Blocks, \A x \in Anc[db.best] \cup Anc[a] : LineBounded(x)
  PROVE  MintInv'
<1>1. at' \in Anc[a] /\ (pc' = "connect" => at' = a /\ done' = 0) /\ fees' = 0
  <2>1. a \in Anc[a] /\ (a \notin Anc[new] => Prev[a] \in Anc[a])
    <3>1. CASE a = Genesis
      BY <3>1, TreeAssumption
    <3>2. CASE a # Genesis
      BY <3>2, SelfAncestor, ParentFacts
    <3> QED
      BY <3>1, <3>2
  <2> QED
    BY <2>1 DEF Seek
<1>2. \A x \in Anc[db'.best] \cup Anc[at'] : LineBounded(x)
  BY <1>1, Basics
<1>3. ASSUME pc' = "connect"
      PROVE  JobBounded'
  <2>1. Unspent(txn') = LineCoins(a) /\ LineBounded(a)
    BY ViewCoins, SelfAncestor
  <2>2. SumFunctionOnSet(Value, LineCoins(a)) \in Int
    <3>1. \A o \in LineCoins(a) : Value[o] \in Int
      BY OutputsType DEF LineCoins, LineTxs
    <3> QED
      BY <2>1, <3>1, SumType DEF LineBounded
  <2>3. Minted(a) + 0 = Minted(a)
    BY <2>1, MintedType
  <2>4. SumFunctionOnSet(Value, Unspent(txn')) + 0 <= Minted(a) + 0
    BY <2>1, <2>2, <2>3 DEF LineBounded
  <2>5. IsFiniteSet(Unspent(txn')) /\ fees' = 0 /\ at' = a /\ done' = 0
    BY <1>1, <1>3, <2>1 DEF LineBounded
  <2> QED
    BY <2>4, <2>5 DEF JobBounded
<1> QED
  BY <1>2, <1>3 DEF MintInv, JobBounded, LineBounded

\* One transaction of ConnectBlock: what it leaves over goes into nFees, and
\* what the coinbase brings in waits for the check of its value.
LEMMA ConnectTxMint ==
  ASSUME IndInv, MintInv, ConnectTx
  PROVE  MintInv'
<1> DEFINE t == Vtx[cur][done + 1]
           U == Unspent(txn)
           V == Unspent(txn')
           Sum(S) == SumFunctionOnSet(Value, S)
           M == Minted(at)
<1>1. /\ pc = "connect" /\ done < Len(Vtx[cur]) /\ InputsConnect(txn, t, at)
      /\ txn' = ConnectInputs(txn, t, cur) /\ done' = done + 1
      /\ fees' = IF IsCoinBase(t) THEN fees ELSE fees + ValueIn(t) - ValueOut(t)
      /\ UNCHANGED <<db, pc, at, cur>>
  BY DEF ConnectTx, TxConnects
<1>2. txn \in DbType /\ at \in Blocks /\ done \in Nat /\ cur \in Blocks /\ Good(cur)
  <2>1. TypeOK /\ JobOK /\ TxnView
    BY IndInvParts
  <2>2. Position(at, cur, done) /\ cur # None
    BY <1>1, <2>1 DEF TxnView, View, Moving, JobOK
  <2> QED
    BY <2>1, <2>2 DEF TypeOK, Position
<1>3. t \in Txs /\ (IsCoinBase(t) <=> done = 0)
  <2>1. done + 1 \in DOMAIN Vtx[cur] /\ (done + 1 = 1 <=> done = 0)
    BY <1>1, <1>2, Basics
  <2> QED
    BY <1>2, <2>1, Basics DEF Good, WellShaped
<1>4. In[t] \subseteq U /\ V \subseteq (U \ In[t]) \cup Outputs(t)
  BY <1>1, <1>2, <1>3, ConnectCoins
<1>5. IsFiniteSet(U) /\ fees \in Int
      /\ Sum(U) + fees <= M + IF done = 0 THEN 0 ELSE ValueOut(Vtx[cur][1])
  BY <1>1 DEF MintInv, JobBounded
<1>6. IsFiniteSet(Outputs(t)) /\ \A o \in U \cup Outputs(t) : Value[o] \in Nat
  BY <1>3, OutputsType DEF Unspent
<1>7. IsFiniteSet(V) /\ Sum(V) <= Sum(U) - Sum(In[t]) + Sum(Outputs(t))
  <2> HIDE DEF t, U, V
  <2> QED
    BY <1>4, <1>5, <1>6, SumExchange
<1>8. Sum(U) \in Int /\ Sum(In[t]) \in Int /\ Sum(Outputs(t)) \in Int /\ Sum(V) \in Int
  <2>1. ASSUME NEW S, S \subseteq U \cup Outputs(t)
        PROVE  Sum(S) \in Int
    <3>1. IsFiniteSet(S)
      BY <1>5, <1>6, <2>1, FS_Union, FS_Subset
    <3> HIDE DEF t, U
    <3> QED
      BY <1>6, <2>1, <3>1, SumType
  <2> HIDE DEF Sum, U, V
  <2> QED
    BY <1>4, <2>1
<1>9. M \in Int
  BY <1>2, SelfAncestor, MintedType DEF MintInv
<1>10. Sum(In[t]) = ValueIn(t) /\ Sum(Outputs(t)) = ValueOut(t)
  BY DEF ValueIn, ValueOut
<1>11. fees' \in Int /\ Sum(V) + fees' <= M + ValueOut(Vtx[cur][1])
  <2>1. CASE done = 0
    <3>1. In[t] = {} /\ fees' = fees /\ t = Vtx[cur][1]
      BY <1>1, <1>3, <2>1 DEF IsCoinBase
    <3>2. Sum(In[t]) = 0
      BY <3>1, SumStep
    <3> HIDE DEF t, U, V, Sum, M
    <3> QED
      BY <1>5, <1>7, <1>8, <1>9, <1>10, <2>1, <3>1, <3>2
  <2>2. CASE done # 0
    <3>1. fees' = fees + ValueIn(t) - ValueOut(t)
      BY <1>1, <1>3, <2>2
    <3>2. ValueOut(Vtx[cur][1]) \in Int
      BY <1>1, <1>2, ValueOutType
    <3> HIDE DEF t, U, V, Sum, M
    <3> QED
      BY <1>5, <1>7, <1>8, <1>9, <1>10, <2>2, <3>1, <3>2
  <2> QED
    BY <2>1, <2>2
<1>12. done' # 0
  BY <1>1, <1>2
<1>13. JobBounded'
  BY <1>1, <1>7, <1>11, <1>12 DEF JobBounded
<1> QED
  BY <1>1, <1>13 DEF MintInv, LineBounded

\* ConnectBlock's last check holds the coinbase to the subsidy and the fees.
LEMMA ConnectBlockMint ==
  ASSUME IndInv, MintInv, ConnectBlock
  PROVE  MintInv'
<1>1. /\ pc = "connect" /\ done = Len(Vtx[cur]) /\ CoinbaseValueOk
      /\ txn' = [txn EXCEPT !.idx[at] = cur] /\ Seek(cur) /\ db' = db
  BY DEF ConnectBlock
<1>2. /\ txn \in DbType /\ at \in Blocks /\ cur \in Blocks \ {Genesis} /\ Prev[cur] = at /\ Good(cur)
      /\ View(txn, at, cur, Len(Vtx[cur])) /\ db.best \in Blocks
  <2>1. TypeOK /\ JobOK /\ TxnView
    BY IndInvParts
  <2>2. View(txn, at, cur, done) /\ cur # None
    BY <1>1, <2>1 DEF TxnView, Moving, JobOK
  <2> QED
    BY <1>1, <2>1, <2>2 DEF TypeOK, View, Position, DbType
<1>3. View(txn, cur, None, 0)
  BY <1>2, ViewConnected
<1>4. txn' \in DbType /\ txn'.pos = txn.pos /\ txn'.spent = txn.spent
  BY <1>1, <1>2, RecordUpdate
<1>5. View(txn', cur, None, 0)
  BY <1>3, <1>4, ViewSameIndex
<1>6. Vtx[cur] # <<>> /\ done # 0
  <2>1. Vtx[cur] # <<>> /\ Vtx[cur] \in Seq(Txs)
    BY <1>2, Basics DEF Good, WellShaped
  <2> QED
    BY <1>1, <2>1
<1>7. /\ IsFiniteSet(Unspent(txn)) /\ fees \in Int
      /\ SumFunctionOnSet(Value, Unspent(txn)) + fees <= Minted(at) + ValueOut(Vtx[cur][1])
  BY <1>1, <1>6 DEF MintInv, JobBounded
<1>8. LineBounded(at) /\ Minted(at) \in Int
  BY <1>2, SelfAncestor, MintedType DEF MintInv
<1>9. ValueOut(Vtx[cur][1]) <= Subsidy[cur] + fees /\ Subsidy[cur] \in Nat
  BY <1>1, <1>2, <1>7, BlockValue DEF CoinbaseValueOk
<1>10. ValueOut(Vtx[cur][1]) \in Int
  BY <1>2, <1>6, ValueOutType
<1>11. SumFunctionOnSet(Value, Unspent(txn)) \in Int
  <2>1. \A o \in Unspent(txn) : Value[o] \in Int
    BY OutputsType DEF Unspent
  <2> QED
    BY <1>7, <2>1, SumType
<1>12. SumFunctionOnSet(Value, Unspent(txn)) <= Minted(at) + Subsidy[cur]
  BY <1>7, <1>8, <1>9, <1>10, <1>11
<1>13. LineBounded(cur)
  BY <1>2, <1>3, <1>7, <1>8, <1>12, BlockBounded
<1>14. \A x \in Anc[db.best] \cup Anc[cur] : LineBounded(x)
  BY <1>2, <1>13, ParentFacts DEF MintInv
<1> QED
  BY <1>1, <1>2, <1>4, <1>5, <1>14, SeekMint

\* The other steps of a reorganization come from a bounded chain, or go to one.
LEMMA ReorganizeMint ==
  ASSUME IndInv, MintInv, AddNewBest \/ DisconnectTx \/ DisconnectBlock \/ Commit
  PROVE  MintInv'
<1>1. /\ TypeOK /\ best = db.best /\ db.best \in Blocks /\ at \in Blocks /\ txn \in DbType
      /\ (pc = "index" => at = best) /\ (pc = "commit" => at = new) /\ TxnView
  BY IndInvParts DEF TypeOK, JobOK, DbType, Moving
<1>2. CASE AddNewBest
  <2>1. pc = "index" /\ Seek(best) /\ txn' = txn /\ db' = db
    BY <1>2 DEF AddNewBest
  <2>2. View(txn, best, None, 0)
    <3>1. at = best /\ done = 0 /\ ~ Moving
      BY <2>1, IndInvParts DEF JobOK, Moving
    <3> QED
      BY <1>1, <3>1 DEF TxnView
  <2>3. \A x \in Anc[db.best] \cup Anc[best] : LineBounded(x)
    BY <1>1 DEF MintInv
  <2> QED
    BY <1>1, <2>1, <2>2, <2>3, SeekMint
<1>3. CASE DisconnectTx
  BY <1>1, <1>3, SelfAncestor, QuietMint DEF DisconnectTx
<1>4. CASE DisconnectBlock
  <2>1. /\ pc = "disconnect" /\ done = 0 /\ txn' = [txn EXCEPT !.idx[at] = None] /\ Seek(at)
        /\ db' = db
    BY <1>4 DEF DisconnectBlock
  <2>2. View(txn, at, cur, 0)
    BY <1>1, <2>1 DEF TxnView, Moving
  <2>3. txn' \in DbType /\ txn'.pos = txn.pos /\ txn'.spent = txn.spent
    BY <1>1, <2>1, RecordUpdate
  <2>4. View(txn', at, cur, 0)
    BY <2>2, <2>3, ViewSameIndex
  <2>5. View(txn', at, None, 0)
    BY <1>1, <2>3, <2>4, ViewAtStart
  <2>6. \A x \in Anc[db.best] \cup Anc[at] : LineBounded(x)
    BY DEF MintInv
  <2> QED
    BY <1>1, <2>1, <2>3, <2>5, <2>6, SeekMint
<1>5. CASE Commit
  <2>1. db'.best = new /\ at' = new /\ pc' = "idle" /\ at = new
    BY <1>1, <1>5 DEF Commit, Rest, DbType
  <2> QED
    BY <1>1, <2>1, SelfAncestor, QuietMint
<1> QED
  BY <1>2, <1>3, <1>4, <1>5

\* No other step connects anything.
LEMMA RestMint ==
  ASSUME IndInv, MintInv,
         \/ \E b \in Blocks : ReceiveBlock(b) \/ RefuseOrphan(b)
         \/ NextInQueue \/ AddSideBlock \/ AddWithoutFork \/ ConnectFails \/ ReadFails \/ ReadNullBlock
         \/ EraseBlockFromDisk \/ EraseBlockIndex
         \/ Restart \/ \E kind \in CrashKinds : Crash(kind)
  PROVE  MintInv'
<1>1. /\ db \in DbType /\ txn \in DbType /\ at \in Blocks /\ best = db.best /\ txn.best = db.best
      /\ db.best \in Blocks
  BY IndInvParts DEF TypeOK, JobOK, DbType
<1>2. SUFFICES pc' # "connect" /\ db'.best = db.best /\ at' \in {db.best, Prev[db.best], at}
  <2>1. CASE db.best = Genesis
    BY <1>1, <1>2, <2>1, SelfAncestor, TreeAssumption, QuietMint
  <2>2. CASE db.best # Genesis
    BY <1>1, <1>2, <2>2, SelfAncestor, ParentFacts, QuietMint
  <2> QED
    BY <2>1, <2>2
<1>3. ASSUME ProcessEnds
      PROVE  pc' # "connect" /\ db'.best = db.best /\ at' = db.best
  BY <1>3 DEF ProcessEnds, Rest
<1>4. ASSUME NEW b \in Blocks, ReceiveBlock(b) \/ RefuseOrphan(b)
      PROVE  pc' # "connect" /\ db'.best = db.best /\ at' \in {db.best, at}
  BY <1>3, <1>4 DEF ReceiveBlock, AcceptBlock, FollowFreedEntry, RefuseBlock, StoreOrphan, RefuseOrphan,
                    vars, jobVars, Idle
<1>5. ASSUME NextInQueue \/ AddSideBlock \/ AddWithoutFork \/ ConnectFails \/ ReadFails \/ ReadNullBlock
      PROVE  pc' # "connect" /\ db'.best = db.best /\ at' \in {db.best, at}
  BY <1>1, <1>3, <1>5 DEF NextInQueue, AddSideBlock, AddWithoutFork, ConnectFails, ReadFails, ReadNullBlock,
                    Rest, jobVars, Idle
<1>6. ASSUME EraseBlockFromDisk
      PROVE  pc' # "connect" /\ db'.best = db.best /\ at' \in {db.best, at}
  BY <1>6 DEF EraseBlockFromDisk, jobVars
<1>7. ASSUME EraseBlockIndex
      PROVE  pc' # "connect" /\ db'.best = db.best /\ at' \in {db.best, at}
  <2>1. db'.best = db.best
    BY <1>1, <1>7 DEF EraseBlockIndex, DbType
  <2> QED
    BY <1>1, <1>7, <2>1 DEF EraseBlockIndex, Rest
<1>8. ASSUME Restart
      PROVE  pc' # "connect" /\ db'.best = db.best /\ at' \in {db.best, Prev[db.best]}
  BY <1>1, <1>8 DEF Restart, Rest
<1>9. ASSUME NEW kind \in CrashKinds, Crash(kind)
      PROVE  pc' # "connect" /\ db'.best = db.best /\ at' = db.best
  BY <1>3, <1>9 DEF Crash
<1> QED
  BY <1>4, <1>5, <1>6, <1>7, <1>8, <1>9

LEMMA NextMint == IndInv /\ MintInv /\ [Next]_vars => MintInv'
<1> SUFFICES ASSUME IndInv, MintInv, [Next]_vars PROVE MintInv'
  OBVIOUS
<1>1. CASE UNCHANGED vars
  BY <1>1 DEF vars, jobVars, MintInv, JobBounded, LineBounded
<1>2. CASE Next
  BY <1>2, ConnectTxMint, ConnectBlockMint, ReorganizeMint, RestMint DEF Next, HandlerStep, ReceiveBlock
<1> QED
  BY <1>1, <1>2

\* The coins of the committed chain are never worth more than its blocks'
\* subsidies, through any sequence of reorganizations, failed branches,
\* crashes and repairs (GetBlockValue, nFees and ConnectInputs' value check,
\* against an index that DisconnectInputs has rolled back).
THEOREM SupplyBoundCorrect == Spec => []SupplyBound
<1>1. Init => MintInv
  BY InitMint
<1>2. IndInv /\ MintInv /\ [Next]_vars => MintInv'
  BY NextMint
<1>3. IndInv /\ MintInv => SupplyBound
  <2> SUFFICES ASSUME IndInv, MintInv PROVE SupplyBound
    OBVIOUS
  <2>1. db \in DbType /\ db.best \in Blocks /\ View(db, db.best, None, 0)
    BY IndInvParts DEF TypeOK, DbType, DbView
  <2>2. Unspent(db) = LineCoins(db.best) /\ LineBounded(db.best)
    BY <2>1, ViewCoins, SelfAncestor DEF MintInv
  <2> QED
    BY <2>2 DEF SupplyBound, LineBounded, Minted, Connected
<1> QED
  BY <1>1, <1>2, <1>3, Invariance, PTL DEF Spec

----------------------------------------------------------------------------
(* The reference for what a valid chain is.                                *)

\* The transactions of a block are spent one after the other.
LEMMA SpendTxsStep ==
  ASSUME NEW s, NEW b \in Blocks
  PROVE  /\ SpendTxs(s, b)[0] = [ok |-> s.ok, coins |-> s.coins, fees |-> 0]
         /\ \A n \in 0 .. Len(Vtx[b]) : n # 0 =>
              SpendTxs(s, b)[n] = SpendTx(SpendTxs(s, b)[n - 1], Vtx[b][n], Height[b])
<1> DEFINE base == [ok |-> s.ok, coins |-> s.coins, fees |-> 0]
           Onward(v, n) == SpendTx(v, Vtx[b][n], Height[b])
           After(m, g) == g = [n \in 0 .. m |-> IF n = 0 THEN base ELSE Onward(g[n - 1], n)]
           len == Len(Vtx[b])
           f == CHOOSE g : After(len, g)
<1>1. SpendTxs(s, b) = f
  BY DEF SpendTxs
<1>2. len \in Nat
  BY Basics
<1> HIDE DEF base, Onward, len
<1>3. \A m \in Nat : \E g : After(m, g)
  <2> DEFINE Bad == {m \in Nat : ~ \E g : After(m, g)}
  <2>1. SUFFICES ASSUME Bad # {} PROVE FALSE
    OBVIOUS
  <2>2. PICK m \in Bad : m \in Nat /\ \A n \in Nat : n < m => n \notin Bad
    BY <2>1, LeastOutside
  <2>3. m # 0
    <3> DEFINE g == [n \in 0 .. 0 |-> base]
    <3>1. After(0, g)
      OBVIOUS
    <3> QED
      BY <2>2, <3>1
  <2>4. m - 1 \in Nat /\ m - 1 \notin Bad
    <3> HIDE DEF Bad
    <3> QED
      BY <2>2, <2>3
  <2>5. PICK g : After(m - 1, g)
    BY <2>4
  <2> DEFINE h == [n \in 0 .. m |-> IF n = m THEN Onward(g[m - 1], m) ELSE g[n]]
  <2>6. \A n \in 0 .. m - 1 : g[n] = IF n = 0 THEN base ELSE Onward(g[n - 1], n)
    BY <2>5
  <2>7. ASSUME NEW n \in 0 .. m
        PROVE  h[n] = IF n = 0 THEN base ELSE Onward(h[n - 1], n)
    <3>1. CASE n = m
      BY <2>2, <2>3, <3>1
    <3>2. CASE n # m
      <4>1. n \in 0 .. m - 1 /\ h[n] = g[n] /\ (n # 0 => n - 1 \in 0 .. m /\ n - 1 # m /\ h[n - 1] = g[n - 1])
        BY <2>2, <2>3, <3>2
      <4> QED
        BY <2>6, <4>1
    <3> QED
      BY <3>1, <3>2
  <2>8. After(m, h)
    BY <2>7
  <2> QED
    BY <2>2, <2>8
<1>4. After(len, f)
  <2>1. \E g : After(len, g)
    BY <1>2, <1>3
  <2> HIDE DEF After
  <2> QED
    BY <2>1
<1>5. f[0] = base /\ \A n \in 0 .. len : n # 0 => f[n] = Onward(f[n - 1], n)
  <2> HIDE DEF f
  <2> QED
    BY <1>2, <1>4
<1> QED
  BY <1>1, <1>5 DEF base, Onward, len

\* The reference is what the chains of blocks make it, one block at a time.
LEMMA ReferenceStep ==
  /\ Reference[Genesis] = [ok |-> TRUE, coins |-> [o \in {} |-> 0], fees |-> 0]
  /\ \A b \in Blocks \ {Genesis} : Reference[b] = SpendBlock(Reference[Prev[b]], b)
<1> DEFINE base == [ok |-> TRUE, coins |-> [o \in {} |-> 0], fees |-> 0]
           Up(v, b) == SpendBlock(v, b)
           Full(g) == g = [b \in Blocks |-> IF b = Genesis THEN base ELSE Up(g[Prev[b]], b)]
           f == CHOOSE g : Full(g)
<1>1. Reference = f
  BY DEF Reference
<1> HIDE DEF base, Up
<1> DEFINE Low(m) == {b \in Blocks : Height[b] <= m}
           Upto(m, g) == g = [b \in Low(m) |-> IF b = Genesis THEN base ELSE Up(g[Prev[b]], b)]
<1>2. \A b \in Blocks : Height[b] \in Nat
  BY TreeAssumption
<1>3. \A b \in Blocks \ {Genesis} : Prev[b] \in Blocks /\ Height[b] = Height[Prev[b]] + 1
  BY TreeAssumption
<1>4. ASSUME NEW m \in Nat, NEW k \in Nat, m <= k, NEW g, Upto(m, g), NEW h, Upto(k, h), NEW b \in Low(m)
      PROVE  g[b] = h[b]
  <2> DEFINE Differ == {n \in Nat : \E c \in Low(m) : Height[c] = n /\ g[c] # h[c]}
  <2>1. SUFFICES ASSUME Differ # {} PROVE FALSE
    BY <1>2
  <2>2. PICK n \in Differ : n \in Nat /\ \A i \in Nat : i < n => i \notin Differ
    BY <2>1, LeastOutside
  <2>3. PICK c \in Low(m) : Height[c] = n /\ g[c] # h[c]
    BY <2>2
  <2>4. c \in Low(k)
    BY <1>2, <1>4, <2>3
  <2>5. /\ g[c] = IF c = Genesis THEN base ELSE Up(g[Prev[c]], c)
        /\ h[c] = IF c = Genesis THEN base ELSE Up(h[Prev[c]], c)
    <3> HIDE DEF Low
    <3> QED
      BY <1>4, <2>3, <2>4
  <2>6. c # Genesis /\ g[Prev[c]] # h[Prev[c]]
    BY <2>3, <2>5
  <2>7. Prev[c] \in Low(m) /\ Height[Prev[c]] \in Nat /\ Height[Prev[c]] < n
    BY <1>2, <1>3, <2>3, <2>6
  <2>8. Height[Prev[c]] \in Differ
    BY <2>6, <2>7
  <2> QED
    BY <2>2, <2>7, <2>8
<1>5. \A m \in Nat : \E g : Upto(m, g)
  <2> DEFINE Bad == {m \in Nat : ~ \E g : Upto(m, g)}
  <2>1. SUFFICES ASSUME Bad # {} PROVE FALSE
    OBVIOUS
  <2>2. PICK m \in Bad : m \in Nat /\ \A n \in Nat : n < m => n \notin Bad
    BY <2>1, LeastOutside
  <2>3. \E g : \A b \in Low(m) : b # Genesis => Prev[b] \in Blocks /\
                 \A h : (h = [c \in Low(m) |-> IF c = Genesis THEN base ELSE Up(g[Prev[c]], c)])
                        => g[Prev[b]] = h[Prev[b]]
    <3>1. CASE m = 0
      <4>1. \A b \in Low(m) : b = Genesis
        BY <1>2, <1>3, <3>1
      <4> QED
        BY <4>1
    <3>2. CASE m # 0
      <4>1. m - 1 \in Nat /\ m - 1 \notin Bad
        <5> HIDE DEF Bad
        <5> QED
          BY <2>2, <3>2
      <4>2. PICK g : Upto(m - 1, g)
        BY <4>1
      <4>3. ASSUME NEW b \in Low(m), b # Genesis
            PROVE  Prev[b] \in Low(m - 1) /\ Prev[b] \in Low(m)
        BY <1>2, <1>3, <2>2, <4>3
      <4>4. ASSUME NEW c \in Low(m - 1)
            PROVE  g[c] = IF c = Genesis THEN base ELSE Up(g[Prev[c]], c)
        <5> HIDE DEF Low
        <5> QED
          BY <4>2, <4>4
      <4> HIDE DEF Low
      <4>5. ASSUME NEW b \in Low(m), b # Genesis, NEW h,
                   h = [c \in Low(m) |-> IF c = Genesis THEN base ELSE Up(g[Prev[c]], c)]
            PROVE  g[Prev[b]] = h[Prev[b]]
        BY <4>3, <4>4, <4>5
      <4>6. \A b \in Low(m) : b # Genesis => Prev[b] \in Blocks
        BY <1>3 DEF Low
      <4> QED
        BY <4>5, <4>6
    <3> QED
      BY <3>1, <3>2
  <2>4. PICK g : \A b \in Low(m) : b # Genesis =>
                 \A h : (h = [c \in Low(m) |-> IF c = Genesis THEN base ELSE Up(g[Prev[c]], c)])
                        => g[Prev[b]] = h[Prev[b]]
    BY <2>3
  <2> DEFINE h == [c \in Low(m) |-> IF c = Genesis THEN base ELSE Up(g[Prev[c]], c)]
  <2>5. \A b \in Low(m) : b # Genesis => g[Prev[b]] = h[Prev[b]]
    BY <2>4
  <2>6. Upto(m, h)
    <3> HIDE DEF Low
    <3> QED
      BY <2>5
  <2> QED
    BY <2>2, <2>6
<1> DEFINE G(m) == CHOOSE g : Upto(m, g)
           all == [b \in Blocks |-> G(Height[b])[b]]
<1>6. \A m \in Nat : Upto(m, G(m))
  <2>1. ASSUME NEW m \in Nat
        PROVE  Upto(m, CHOOSE g : Upto(m, g))
    <3>1. \E g : Upto(m, g)
      BY <1>5
    <3> HIDE DEF Upto
    <3> QED
      BY <3>1
  <2> QED
    BY <2>1
<1> HIDE DEF G
<1>7. ASSUME NEW b \in Blocks
      PROVE  all[b] = IF b = Genesis THEN base ELSE Up(all[Prev[b]], b)
  <2>1. b \in Low(Height[b]) /\ Height[b] \in Nat
    BY <1>2
  <2>2. G(Height[b])[b] = IF b = Genesis THEN base ELSE Up(G(Height[b])[Prev[b]], b)
    <3>1. Upto(Height[b], G(Height[b]))
      BY <1>6, <2>1
    <3> HIDE DEF Low
    <3> QED
      BY <2>1, <3>1
  <2>3. CASE b = Genesis
    BY <2>2, <2>3
  <2>4. CASE b # Genesis
    <3>1. Prev[b] \in Blocks /\ Height[Prev[b]] \in Nat /\ Height[Prev[b]] <= Height[b]
          /\ Prev[b] \in Low(Height[Prev[b]])
      BY <1>2, <1>3, <2>4
    <3>2. Upto(Height[Prev[b]], G(Height[Prev[b]])) /\ Upto(Height[b], G(Height[b]))
      BY <1>6, <2>1, <3>1
    <3>3. G(Height[Prev[b]])[Prev[b]] = G(Height[b])[Prev[b]]
      <4> HIDE DEF Upto, Low
      <4> QED
        BY <1>4, <2>1, <3>1, <3>2
    <3> QED
      BY <2>2, <2>4, <3>1, <3>3
  <2> QED
    BY <2>3, <2>4
<1>8. Full(all)
  BY <1>7
<1>9. Full(f)
  <2>1. \E g : Full(g)
    BY <1>8
  <2> HIDE DEF Full
  <2> QED
    BY <2>1
<1>10. f[Genesis] = base /\ \A b \in Blocks \ {Genesis} : f[b] = Up(f[Prev[b]], b)
  <2>1. Genesis \in Blocks
    BY Basics
  <2> HIDE DEF f
  <2> QED
    BY <1>9, <2>1
<1> QED
  BY <1>1, <1>10 DEF base, Up

----------------------------------------------------------------------------
(* ConnectInputs and the reference.                                        *)

\* A transaction that connects is not in the index: with BIP34 it says its
\* height, and the history before has no coinbase twice on one chain.
LEMMA NotTwice ==
  ASSUME NEW d \in DbType, NEW a \in Blocks, NEW c \in Blocks, NEW n \in Nat,
         n < Len(Vtx[c]), View(d, a, c, n), InputsConnect(d, Vtx[c][n + 1], a)
  PROVE  d.pos[Vtx[c][n + 1]] = None
<1> DEFINE t == Vtx[c][n + 1]
           e == ConnectInputs(d, t, c)
<1>1. View(e, a, c, n + 1)
  BY ViewConnectTx
<1>2. n + 1 \in DOMAIN Vtx[c] /\ t \in Txs /\ c \in Blocks \ {Genesis} /\ Prev[c] = a /\ WellShaped(c)
  BY Basics DEF View, Position, Good
<1>3. d.pos \in [Txs -> Blocks \cup {None}] /\ e.pos[t] = c
  BY <1>2 DEF DbType, ConnectInputs
<1>4. ASSUME NEW b \in Blocks, d.pos[t] = b
      PROVE  FALSE
  <2>1. PICK i \in DOMAIN Vtx[b] : Applied(b, i, a, c, n) /\ Vtx[b][i] = t
    BY <1>2, <1>4 DEF View, PosOK
  <2>2. Applied(b, i, a, c, n + 1)
    BY <2>1, Basics DEF Applied
  <2>3. e.pos[t] = b
    BY <1>1, <1>2, <2>1, <2>2 DEF View, PosOK
  <2>4. b = c /\ c \notin Anc[a] /\ i <= n
    BY <1>2, <1>3, <2>1, <2>3, ParentFacts DEF Applied
  <2>5. i # n + 1
    BY <2>1, <2>4, Basics
  <2> QED
    BY <1>2, <2>1, <2>4, <2>5 DEF WellShaped
<1> QED
  BY <1>2, <1>3, <1>4

\* What is unspent of the outputs of t.
LEMMA UnspentOutputs ==
  ASSUME NEW d \in DbType, NEW t \in Txs
  PROVE  AlreadyUnspent(d, t) <=> Outputs(t) \cap Unspent(d) # {}
<1>1. ASSUME NEW o \in Outputs(t)
      PROVE  o \in Unspent(d) <=> d.pos[t] # None /\ (o \notin Outpoints \/ d.spent[o] = None)
  BY <1>1, OutputsType DEF Unspent
<1>2. ASSUME AlreadyUnspent(d, t)
      PROVE  Outputs(t) \cap Unspent(d) # {}
  <2>1. PICK n \in DOMAIN Out[t] : <<t, n>> \notin Outpoints \/ d.spent[<<t, n>>] = None
    BY <1>2 DEF AlreadyUnspent
  <2>2. <<t, n>> \in Outputs(t) /\ d.pos[t] # None
    BY <1>2 DEF Outputs, AlreadyUnspent
  <2> QED
    BY <1>1, <2>1, <2>2
<1>3. ASSUME NEW o \in Outputs(t) \cap Unspent(d)
      PROVE  AlreadyUnspent(d, t)
  <2>1. PICK n \in DOMAIN Out[t] : o = <<t, n>>
    BY <1>3 DEF Outputs
  <2> QED
    BY <1>1, <1>3, <2>1 DEF AlreadyUnspent
<1> QED
  BY <1>2, <1>3

\* The coins after ConnectInputs.
LEMMA CoinsConnected ==
  ASSUME NEW d \in DbType, NEW t \in Txs, NEW a \in Blocks, NEW c \in Blocks, InputsConnect(d, t, a),
         Outputs(t) \cap Unspent(d) = {}
  PROVE  CoinsOf(ConnectInputs(d, t, c)) =
           [o \in (Unspent(d) \ In[t]) \cup Outputs(t) |->
              IF o \in Outputs(t) THEN Height[c] ELSE CoinsOf(d)[o]]
<1> DEFINE e == ConnectInputs(d, t, c)
<1>1. /\ d.pos \in [Txs -> Blocks \cup {None}]
      /\ e.pos = [d.pos EXCEPT ![t] = c]
      /\ e.spent = [o \in Outpoints |->
                      IF o \in In[t] THEN t ELSE IF o[1] = t THEN None ELSE d.spent[o]]
  BY DEF DbType, ConnectInputs
<1>2. In[t] \subseteq Unspent(d) /\ Unspent(e) \subseteq (Unspent(d) \ In[t]) \cup Outputs(t)
  BY ConnectCoins
<1>3. c # None
  BY Basics
<1> HIDE DEF e
<1>4. ASSUME NEW o \in Outputs(t)
      PROVE  o \in Unspent(e) /\ e.pos[o[1]] = c
  <2>1. o[1] = t /\ e.pos[t] = c /\ o \notin In[t]
    BY <1>1, <1>2, OutputsType
  <2>2. o \notin Outpoints \/ e.spent[o] = None
    BY <1>1, <2>1
  <2> QED
    BY <1>3, <2>1, <2>2 DEF Unspent
<1>5. ASSUME NEW o \in Unspent(d) \ In[t], o \notin Outputs(t)
      PROVE  o \in Unspent(e) /\ e.pos[o[1]] = d.pos[o[1]]
  <2>1. PICK u \in Txs : o \in Outputs(u) /\ d.pos[u] # None
    BY DEF Unspent
  <2>2. o[1] = u /\ u # t /\ (o \notin Outpoints \/ d.spent[o] = None)
    BY <1>5, <2>1, OutputsType DEF Unspent
  <2>3. e.pos[u] = d.pos[u]
    BY <1>1, <2>2
  <2>4. o \notin Outpoints \/ e.spent[o] = None
    BY <1>1, <1>5, <2>2
  <2> QED
    BY <2>1, <2>2, <2>3, <2>4 DEF Unspent
<1>6. Unspent(e) = (Unspent(d) \ In[t]) \cup Outputs(t)
  BY <1>2, <1>4, <1>5
<1>7. CoinsOf(e) = [o \in (Unspent(d) \ In[t]) \cup Outputs(t) |-> Height[e.pos[o[1]]]]
  BY <1>6 DEF CoinsOf
<1>8. \A o \in (Unspent(d) \ In[t]) \cup Outputs(t) :
        Height[e.pos[o[1]]] = IF o \in Outputs(t) THEN Height[c] ELSE CoinsOf(d)[o]
  BY <1>4, <1>5 DEF CoinsOf
<1> QED
  BY <1>7, <1>8 DEF e

\* Where the index is the reference's coins, a transaction of ConnectBlock
\* connects exactly when the reference can spend it, and the coins and the
\* fees stay the same.
LEMMA ConnectIsSpend ==
  ASSUME NEW d \in DbType, NEW a \in Blocks, NEW c \in Blocks, NEW n \in Nat,
         n < Len(Vtx[c]), View(d, a, c, n), NEW s, s.ok, s.coins = CoinsOf(d)
  PROVE  LET t == Vtx[c][n + 1]
             e == SpendTx(s, t, Height[c])
         IN /\ e.ok <=> (c \in RulesV2 => ~ AlreadyUnspent(d, t)) /\ InputsConnect(d, t, a)
            /\ e.ok => /\ e.coins = CoinsOf(ConnectInputs(d, t, c))
                       /\ e.fees = IF IsCoinBase(t) THEN s.fees ELSE s.fees + ValueIn(t) - ValueOut(t)
<1> DEFINE t == Vtx[c][n + 1]
           e == SpendTx(s, t, Height[c])
           U == Unspent(d)
           taken == In[t] \cap U
<1>1. t \in Txs /\ c \in Blocks \ {Genesis} /\ Prev[c] = a
  BY Basics DEF View, Position
<1>2. DOMAIN s.coins = U /\ \A o \in U : s.coins[o] = Height[d.pos[o[1]]]
  BY DEF CoinsOf
<1>3. /\ e.ok <=> /\ taken = In[t] /\ Outputs(t) \cap U = {}
                  /\ t \in ScriptsOk
                  /\ IsCoinBase(t) \/ SumFunctionOnSet(Value, taken) >= ValueOut(t)
                  /\ \A o \in taken : /\ Height[c] >= s.coins[o] + Lock[t]
                                      /\ IsCoinBase(o[1]) => s.coins[o] = Height[c] \/ Height[c] >= s.coins[o] + COINBASE_MATURITY
      /\ e.coins = [o \in (U \ taken) \cup Outputs(t) |-> IF o \in Outputs(t) THEN Height[c] ELSE s.coins[o]]
      /\ e.fees = IF IsCoinBase(t) THEN s.fees ELSE s.fees + SumFunctionOnSet(Value, taken) - ValueOut(t)
  BY <1>2 DEF SpendTx
<1>4. Height[c] \in Nat /\ Height[a] \in Nat /\ Height[c] = Height[a] + 1 /\ COINBASE_MATURITY \in Nat
      /\ Lock[t] \in Nat
  BY <1>1, TreeAssumption, TxAssumption, ParameterAssumption
<1>5. ASSUME NEW o \in U
      PROVE  /\ d.pos[o[1]] \in Blocks /\ o[1] \in Txs /\ o \in Outputs(o[1])
             /\ Height[d.pos[o[1]]] \in Nat
             /\ d.pos[o[1]] \in Anc[a] \/ d.pos[o[1]] = c
             /\ o \notin Outpoints \/ d.spent[o] = None
  <2>1. PICK u \in Txs : o \in Outputs(u) /\ d.pos[u] # None /\ (o \notin Outpoints \/ d.spent[o] = None)
    BY DEF Unspent
  <2>2. o[1] = u /\ d.pos[u] \in Blocks
    BY <2>1, OutputsType DEF DbType
  <2>3. PICK i \in DOMAIN Vtx[d.pos[u]] : Applied(d.pos[u], i, a, c, n)
    BY <2>1, <2>2 DEF View, PosOK
  <2>4. d.pos[u] \in Anc[a] \/ d.pos[u] = c
    BY <2>3 DEF Applied
  <2>5. Height[d.pos[u]] \in Nat
    BY <2>2, TreeAssumption
  <2> QED
    BY <2>1, <2>2, <2>4, <2>5
<1>6. ASSUME NEW o \in U
      PROVE  LET h == Height[d.pos[o[1]]] IN
             /\ SequenceLockPasses(t, d.pos[o[1]], a) <=> Height[c] >= h + Lock[t]
             /\ ~ Immature(o[1], d.pos[o[1]], a) <=>
                  (IsCoinBase(o[1]) => h = Height[c] \/ Height[c] >= h + COINBASE_MATURITY)
  <2>1. CASE d.pos[o[1]] = c
    <3>1. ~ Immature(o[1], d.pos[o[1]], a)
      BY <1>1, <2>1, ParentFacts DEF Immature
    <3>2. SequenceLockPasses(t, d.pos[o[1]], a) <=> Height[c] >= Height[d.pos[o[1]]] + Lock[t]
      BY <1>4 DEF SequenceLockPasses
    <3> QED
      BY <2>1, <3>1, <3>2
  <2>2. CASE d.pos[o[1]] \in Anc[a]
    <3> DEFINE h == Height[d.pos[o[1]]]
    <3>1. h \in Nat /\ h < Height[c]
      BY <1>1, <1>5, <2>2, ParentFacts
    <3>2. SequenceLockPasses(t, d.pos[o[1]], a) <=> Height[c] >= h + Lock[t]
      BY <1>4 DEF SequenceLockPasses
    <3>3. Immature(o[1], d.pos[o[1]], a) <=>
            IsCoinBase(o[1]) /\ Height[a] - h < COINBASE_MATURITY - 1
      BY <2>2 DEF Immature
    <3> HIDE DEF h
    <3>4. Height[a] - h < COINBASE_MATURITY - 1 <=> ~ (h = Height[c] \/ Height[c] >= h + COINBASE_MATURITY)
      BY <1>4, <3>1
    <3> QED
      BY <3>2, <3>3, <3>4 DEF h
  <2> QED
    BY <1>5, <2>1, <2>2
<1>7. AlreadyUnspent(d, t) <=> Outputs(t) \cap U # {}
  BY <1>1, UnspentOutputs
<1> HIDE DEF t
<1>8. ASSUME e.ok
      PROVE  (c \in RulesV2 => ~ AlreadyUnspent(d, t)) /\ InputsConnect(d, t, a) /\ Outputs(t) \cap U = {}
  <2>1. /\ In[t] \subseteq U /\ In[t] \subseteq Outpoints /\ t \in ScriptsOk
        /\ IsCoinBase(t) \/ ValueIn(t) >= ValueOut(t)
    <3>1. taken = In[t]
      BY <1>3, <1>8
    <3> QED
      BY <1>1, <1>3, <1>8, <3>1, Basics DEF ValueIn
  <2>2. ASSUME NEW o \in In[t]
        PROVE  /\ d.pos[o[1]] # None /\ o[2] \in DOMAIN Out[o[1]]
               /\ ~ Immature(o[1], d.pos[o[1]], a) /\ SequenceLockPasses(t, d.pos[o[1]], a)
               /\ d.spent[o] = None
    <3>1. o \in U /\ o \in taken
      BY <2>1
    <3>2. d.pos[o[1]] # None /\ d.spent[o] = None /\ o \in Outputs(o[1])
      BY <1>5, <2>1, <3>1, Basics
    <3>3. o[2] \in DOMAIN Out[o[1]]
      BY <3>2 DEF Outputs
    <3>4. /\ Height[c] >= s.coins[o] + Lock[t]
          /\ IsCoinBase(o[1]) => s.coins[o] = Height[c] \/ Height[c] >= s.coins[o] + COINBASE_MATURITY
      BY <1>3, <1>8, <3>1
    <3>5. s.coins[o] = Height[d.pos[o[1]]]
      BY <1>2, <3>1
    <3> HIDE DEF e, U, taken
    <3> QED
      BY <1>6, <3>1, <3>2, <3>3, <3>4, <3>5
  <2> QED
    BY <1>3, <1>7, <1>8, <2>1, <2>2 DEF InputsConnect
<1>9. ASSUME c \in RulesV2 => ~ AlreadyUnspent(d, t), InputsConnect(d, t, a)
      PROVE  e.ok
  <2>1. In[t] \subseteq U
    BY <1>1, <1>9, ConnectCoins
  <2>2. d.pos[t] = None
    BY <1>9, NotTwice DEF t
  <2>3. ~ AlreadyUnspent(d, t)
    BY <2>2 DEF AlreadyUnspent
  <2>4. taken = In[t]
    BY <2>1
  <2>5. t \in ScriptsOk /\ (IsCoinBase(t) \/ SumFunctionOnSet(Value, taken) >= ValueOut(t))
    BY <1>9, <2>4 DEF InputsConnect, ValueIn
  <2>6. ASSUME NEW o \in taken
        PROVE  /\ Height[c] >= s.coins[o] + Lock[t]
               /\ IsCoinBase(o[1]) => s.coins[o] = Height[c] \/ Height[c] >= s.coins[o] + COINBASE_MATURITY
    <3>1. o \in U /\ ~ Immature(o[1], d.pos[o[1]], a) /\ SequenceLockPasses(t, d.pos[o[1]], a)
      BY <1>9, <2>4 DEF InputsConnect
    <3>2. s.coins[o] = Height[d.pos[o[1]]]
      BY <1>2, <3>1
    <3> HIDE DEF U, taken
    <3> QED
      BY <1>6, <3>1, <3>2
  <2> HIDE DEF e, U, taken
  <2> QED
    BY <1>3, <1>7, <2>3, <2>4, <2>5, <2>6
<1>10. ASSUME e.ok
       PROVE  /\ e.coins = CoinsOf(ConnectInputs(d, t, c))
              /\ e.fees = IF IsCoinBase(t) THEN s.fees ELSE s.fees + ValueIn(t) - ValueOut(t)
  <2>1. InputsConnect(d, t, a) /\ Outputs(t) \cap U = {} /\ taken = In[t]
    BY <1>3, <1>8, <1>10
  <2>2. CoinsOf(ConnectInputs(d, t, c)) =
          [o \in (U \ In[t]) \cup Outputs(t) |-> IF o \in Outputs(t) THEN Height[c] ELSE CoinsOf(d)[o]]
    <3>1. Outputs(t) \cap Unspent(d) = {}
      BY <2>1
    <3> HIDE DEF e, taken
    <3> QED
      BY ONLY <1>1, <2>1, <3>1, CoinsConnected
  <2>3. e.coins = CoinsOf(ConnectInputs(d, t, c))
    <3> HIDE DEF e, U, taken
    <3> QED
      BY <1>3, <2>1, <2>2
  <2> QED
    BY <1>3, <2>1, <2>3 DEF ValueIn
<1> HIDE DEF e
<1> QED
  BY <1>8, <1>9, <1>10 DEF e, t

\* A block with a transaction that cannot be spent is not valid ...
LEMMA SpoiledBlock ==
  ASSUME NEW s, NEW b \in Blocks, NEW n \in 0 .. Len(Vtx[b]), ~ SpendTxs(s, b)[n].ok
  PROVE  ~ SpendBlock(s, b).ok
<1> DEFINE len == Len(Vtx[b])
           f == SpendTxs(s, b)
           Well == {m \in Nat : n <= m /\ m <= len /\ f[m].ok}
<1>1. len \in Nat /\ \A m \in 0 .. len : m # 0 => f[m] = SpendTx(f[m - 1], Vtx[b][m], Height[b])
  <2>1. len \in Nat
    BY Basics
  <2> QED
    BY <2>1, SpendTxsStep
<1>2. ~ f[n].ok /\ n \in Nat
  BY <1>1
<1> HIDE DEF f, len
<1>3. Well = {}
  <2>1. SUFFICES ASSUME Well # {} PROVE FALSE
    OBVIOUS
  <2>2. PICK m \in Well : m \in Nat /\ \A i \in Nat : i < m => i \notin Well
    BY <2>1, LeastOutside
  <2>3. n < m /\ m \in 0 .. len /\ m # 0 /\ m - 1 \in Nat
    BY <1>1, <1>2, <2>2
  <2>4. ~ f[m - 1].ok
    BY <1>1, <2>2, <2>3
  <2>5. f[m] = SpendTx(f[m - 1], Vtx[b][m], Height[b])
    BY <1>1, <2>3
  <2>6. ~ f[m].ok
    BY <2>4, <2>5 DEF SpendTx
  <2> QED
    BY <2>2, <2>6
<1>4. n <= len
  BY <1>1 DEF len
<1>5. ~ f[len].ok
  BY <1>1, <1>2, <1>3, <1>4
<1> QED
  BY <1>5 DEF SpendBlock, f, len

\* ... and no block on top of one is.
LEMMA SpoiledLine ==
  ASSUME NEW b \in Blocks, NEW a \in Anc[b], ~ Reference[a].ok
  PROVE  ~ Reference[b].ok
<1> DEFINE Well == {n \in Nat : \E c \in Blocks : Height[c] = n /\ a \in Anc[c] /\ Reference[c].ok}
<1>1. Well = {}
  <2>1. SUFFICES ASSUME Well # {} PROVE FALSE
    OBVIOUS
  <2>2. PICK n \in Well : n \in Nat /\ \A m \in Nat : m < n => m \notin Well
    BY <2>1, LeastOutside
  <2>3. PICK c \in Blocks : Height[c] = n /\ a \in Anc[c] /\ Reference[c].ok
    BY <2>2
  <2>4. c # a /\ c # Genesis
    BY <2>3, TreeAssumption
  <2>5. /\ Prev[c] \in Blocks /\ a \in Anc[Prev[c]]
        /\ Height[Prev[c]] \in Nat /\ Height[Prev[c]] < n
    BY <2>3, <2>4, TreeAssumption
  <2>6. ~ Reference[Prev[c]].ok
    BY <2>2, <2>5
  <2>7. Reference[c] = SpendBlock(Reference[Prev[c]], c)
    BY <2>4, ReferenceStep
  <2>8. 0 \in 0 .. Len(Vtx[c])
    BY Basics
  <2>9. ~ SpendTxs(Reference[Prev[c]], c)[0].ok
    <3> DEFINE r == Reference[Prev[c]]
    <3>1. ~ r.ok
      BY <2>6
    <3> HIDE DEF r
    <3>2. SpendTxs(r, c)[0] = [ok |-> r.ok, coins |-> r.coins, fees |-> 0]
      BY SpendTxsStep
    <3>3. ~ SpendTxs(r, c)[0].ok
      BY <3>1, <3>2
    <3> QED
      BY <3>3 DEF r
  <2> QED
    BY <2>3, <2>7, <2>8, <2>9, SpoiledBlock
<1>2. Height[b] \in Nat
  BY TreeAssumption
<1> QED
  BY <1>1, <1>2

\* The coins of a view of a chain are those of its blocks.
LEMMA ViewCoinsOf ==
  ASSUME NEW d \in DbType, NEW a \in Blocks, View(d, a, None, 0)
  PROVE  CoinsOf(d) = CoinsOfLine(a)
<1>1. Unspent(d) = LineCoins(a)
  BY ViewCoins
<1>2. ASSUME NEW o \in LineCoins(a)
      PROVE  d.pos[o[1]] = Maker(o[1], a)
  <2> DEFINE t == o[1]
             m == Maker(t, a)
  <2>1. PICK u \in LineTxs(a) : o \in Outputs(u)
    BY DEF LineCoins
  <2>2. t = u /\ t \in Txs /\ \E b \in Anc[a] \ {Genesis} : \E i \in DOMAIN Vtx[b] : Vtx[b][i] = t
    BY <2>1, OutputsType DEF LineTxs
  <2>3. m \in Anc[a] \ {Genesis} /\ \E i \in DOMAIN Vtx[m] : Vtx[m][i] = t
    <3> HIDE DEF t
    <3> QED
      BY <2>2 DEF Maker
  <2> HIDE DEF t, m
  <2>4. m \in Blocks /\ \E i \in DOMAIN Vtx[m] : Applied(m, i, a, None, 0) /\ Vtx[m][i] = t
    BY <2>3, Basics DEF Applied
  <2>5. d.pos[t] = m
    BY <2>2, <2>4 DEF View, PosOK
  <2> QED
    BY <2>5 DEF t, m
<1>3. CoinsOf(d) = [o \in LineCoins(a) |-> Height[d.pos[o[1]]]]
  BY <1>1 DEF CoinsOf
<1> QED
  BY <1>2, <1>3 DEF CoinsOfLine

----------------------------------------------------------------------------
(* The node follows the longest valid chain, while its process runs.       *)

LEMMA InitLongest == Init => LongestInv
<1> SUFFICES ASSUME Init PROVE LongestInv
  OBVIOUS
<1>1. db.best = Genesis /\ at = Genesis /\ pc = "idle" /\ best = Genesis /\ index = {Genesis} /\ hollow = {}
      /\ \A b \in Blocks : disk[b] # "lost"
  BY DEF Init, FreshDb
<1>2. Anc[Genesis] = {Genesis} /\ Height[Genesis] \in Nat
  BY TreeAssumption
<1>3. LineCoins(Genesis) = {}
  BY <1>2 DEF LineCoins, LineTxs
<1>4. LineMatches(Genesis)
  <2>1. CoinsOfLine(Genesis) = [o \in {} |-> 0]
    BY <1>3 DEF CoinsOfLine
  <2> QED
    BY <2>1, ReferenceStep DEF LineMatches
<1> QED
  BY <1>1, <1>2, <1>4 DEF LongestInv, JobMatches, NothingLost, Moving

\* The part of the invariant that is about coins.
Matches == JobMatches /\ \A a \in Anc[db.best] \cup Anc[at] : LineMatches(a)

\* Seek sets out from, or goes back along, a chain that is valid.
LEMMA SeekLongest ==
  ASSUME NEW a \in Blocks, Seek(a), txn' \in DbType, View(txn', a, None, 0), db'.best = db.best,
         db.best \in Blocks, \A x \in Anc[db.best] \cup Anc[a] : LineMatches(x), index \subseteq Blocks
  PROVE  /\ Matches'
         /\ pc' \in {"disconnect", "connect", "commit"} /\ new' = new
         /\ pc' = "connect" => cur' \in Anc[new]
<1>1. /\ at' \in Anc[a] /\ pc' \in {"disconnect", "connect", "commit"} /\ new' = new /\ fees' = 0
      /\ pc' = "connect" => at' = a /\ done' = 0 /\ cur' \in Anc[new] /\ cur' \in Blocks
  <2>1. a \in Anc[a] /\ (a \notin Anc[new] => Prev[a] \in Anc[a])
    <3>1. CASE a = Genesis
      BY <3>1, TreeAssumption
    <3>2. CASE a # Genesis
      BY <3>2, SelfAncestor, ParentFacts
    <3> QED
      BY <3>1, <3>2
  <2> QED
    BY <2>1 DEF Seek
<1>2. \A x \in Anc[db'.best] \cup Anc[at'] : LineMatches(x)
  BY <1>1, Basics
<1>3. ASSUME pc' = "connect"
      PROVE  JobMatches'
  <2>1. LineMatches(a) /\ CoinsOf(txn') = CoinsOfLine(a)
    BY SelfAncestor, ViewCoinsOf
  <2>2. SpendTxs(Reference[a], cur')[0] = [ok |-> Reference[a].ok, coins |-> Reference[a].coins, fees |-> 0]
    BY <1>1, <1>3, SpendTxsStep
  <2>3. fees' = 0 /\ at' = a /\ done' = 0
    BY <1>1, <1>3
  <2> QED
    BY <2>1, <2>2, <2>3 DEF JobMatches, LineMatches
<1> QED
  BY <1>1, <1>2, <1>3 DEF Matches, JobMatches, LineMatches

\* What is known in the middle of ConnectBlock.
LEMMA ConnectFacts ==
  ASSUME IndInv, pc = "connect"
  PROVE  /\ txn \in DbType /\ db \in DbType /\ db.best \in Blocks /\ best = db.best /\ done \in Nat
         /\ at \in Blocks /\ cur \in Blocks \ {Genesis} /\ Prev[cur] = at /\ Good(cur)
         /\ done <= Len(Vtx[cur]) /\ Len(Vtx[cur]) \in Nat
         /\ View(txn, at, cur, done) /\ index \subseteq Blocks
         /\ Reference[cur] = SpendBlock(Reference[at], cur)
<1>1. TypeOK /\ JobOK /\ TxnView
  BY IndInvParts
<1>2. View(txn, at, cur, done) /\ cur # None
  BY <1>1 DEF TxnView, Moving, JobOK
<1>3. /\ at \in Blocks /\ cur \in Blocks \ {Genesis} /\ Prev[cur] = at /\ Good(cur) /\ done <= Len(Vtx[cur])
  BY <1>2 DEF View, Position
<1>4. Reference[cur] = SpendBlock(Reference[at], cur) /\ Len(Vtx[cur]) \in Nat
  BY <1>3, ReferenceStep, Basics
<1> QED
  BY <1>1, <1>2, <1>3, <1>4 DEF TypeOK, JobOK, DbType

\* One transaction of ConnectBlock is one of the reference.
LEMMA ConnectTxLongest ==
  ASSUME IndInv, LongestInv, ConnectTx
  PROVE  LongestInv'
<1> DEFINE t == Vtx[cur][done + 1]
           r == Reference[at]
           s == SpendTxs(r, cur)[done]
           e == SpendTxs(r, cur)[done + 1]
<1>1. /\ pc = "connect" /\ done < Len(Vtx[cur]) /\ TxConnects(t)
      /\ txn' = ConnectInputs(txn, t, cur) /\ done' = done + 1
      /\ fees' = IF IsCoinBase(t) THEN fees ELSE fees + ValueIn(t) - ValueOut(t)
      /\ UNCHANGED <<db, pc, at, cur, new, index, hollow, best, disk>>
  BY DEF ConnectTx, memVars, fileVars
<1>2. /\ txn \in DbType /\ done \in Nat /\ at \in Blocks /\ cur \in Blocks
      /\ View(txn, at, cur, done) /\ Len(Vtx[cur]) \in Nat
  BY <1>1, ConnectFacts
<1>3. s.ok /\ s.coins = CoinsOf(txn) /\ s.fees = fees
  BY <1>1 DEF LongestInv, JobMatches
<1>4. e = SpendTx(s, t, Height[cur])
  <2>1. done + 1 \in 0 .. Len(Vtx[cur]) /\ done + 1 # 0
    BY <1>1, <1>2
  <2> DEFINE m == done + 1
  <2> HIDE DEF r, m
  <2>2. SpendTxs(r, cur)[m] = SpendTx(SpendTxs(r, cur)[m - 1], Vtx[cur][m], Height[cur])
    BY <1>2, <2>1, SpendTxsStep DEF m
  <2>3. m - 1 = done
    BY <1>2 DEF m
  <2>4. SpendTxs(r, cur)[m] = SpendTx(SpendTxs(r, cur)[done], Vtx[cur][m], Height[cur])
    BY <2>2, <2>3
  <2> QED
    BY <2>4 DEF m
<1>5. e.ok /\ e.coins = CoinsOf(txn') /\ e.fees = fees'
  <2>1. (cur \in RulesV2 => ~ AlreadyUnspent(txn, t)) /\ InputsConnect(txn, t, at)
    BY <1>1 DEF TxConnects
  <2> HIDE DEF s, e
  <2> QED
    BY <1>1, <1>2, <1>3, <1>4, <2>1, ConnectIsSpend
<1>6. JobMatches'
  BY <1>1, <1>5 DEF JobMatches
<1> QED
  BY <1>1, <1>6 DEF LongestInv, LineMatches, NothingLost, Moving

\* ConnectBlock that succeeds was given a valid block ...
LEMMA ConnectBlockLongest ==
  ASSUME IndInv, LongestInv, ConnectBlock
  PROVE  LongestInv'
<1> DEFINE s == SpendTxs(Reference[at], cur)[done]
           res == Reference[cur]
<1>1. /\ pc = "connect" /\ done = Len(Vtx[cur]) /\ CoinbaseValueOk
      /\ txn' = [txn EXCEPT !.idx[at] = cur] /\ Seek(cur)
      /\ UNCHANGED <<db, index, hollow, best, disk>>
  BY DEF ConnectBlock, memVars, fileVars
<1>2. /\ txn \in DbType /\ db.best \in Blocks /\ at \in Blocks /\ cur \in Blocks \ {Genesis} /\ Prev[cur] = at
      /\ View(txn, at, cur, Len(Vtx[cur])) /\ index \subseteq Blocks
      /\ Reference[cur] = SpendBlock(Reference[at], cur)
  BY <1>1, ConnectFacts
<1>3. View(txn, cur, None, 0)
  BY <1>2, ViewConnected
<1>4. txn' \in DbType /\ txn'.pos = txn.pos /\ txn'.spent = txn.spent
  BY <1>1, <1>2, RecordUpdate
<1>5. View(txn', cur, None, 0)
  BY <1>3, <1>4, ViewSameIndex
<1>6. s.ok /\ s.coins = CoinsOf(txn) /\ s.fees = fees
  BY <1>1 DEF LongestInv, JobMatches
<1>7. LineMatches(cur)
  <2>1. res = [ok |-> s.ok /\ ValueOut(Vtx[cur][1]) <= GetBlockValue(Height[cur], s.fees),
               coins |-> s.coins, fees |-> s.fees]
    BY <1>1, <1>2 DEF SpendBlock
  <2>2. ValueOut(Vtx[cur][1]) <= GetBlockValue(Height[cur], s.fees)
    BY <1>1, <1>6 DEF CoinbaseValueOk
  <2>3. res.ok /\ res.coins = s.coins
    <3> HIDE DEF s, res
    <3> QED
      BY <1>6, <2>1, <2>2
  <2>4. CoinsOf(txn) = CoinsOfLine(cur)
    BY <1>2, <1>3, ViewCoinsOf
  <2> QED
    BY <1>6, <2>3, <2>4 DEF LineMatches
<1>8. \A x \in Anc[db.best] \cup Anc[cur] : LineMatches(x)
  BY <1>2, <1>7, ParentFacts DEF LongestInv
<1>9. /\ Matches' /\ pc' \in {"disconnect", "connect", "commit"} /\ new' = new
      /\ pc' = "connect" => cur' \in Anc[new]
  BY <1>1, <1>2, <1>4, <1>5, <1>8, SeekLongest
<1>10. Height[new] > Height[best]
  BY <1>1 DEF LongestInv, Moving
<1> QED
  BY <1>1, <1>9, <1>10 DEF LongestInv, Matches, NothingLost

\* ... and one that fails was given one that is not valid.
LEMMA ConnectFailsLongest ==
  ASSUME IndInv, LongestInv, ConnectFails
  PROVE  LongestInv'
<1> DEFINE t == Vtx[cur][done + 1]
           r == Reference[at]
           s == SpendTxs(r, cur)[done]
           e == SpendTxs(r, cur)[done + 1]
<1>1. /\ pc = "connect"
      /\ \/ done < Len(Vtx[cur]) /\ ~ TxConnects(t)
         \/ done = Len(Vtx[cur]) /\ ~ CoinbaseValueOk
      /\ pc' = "purge" /\ at' = best
      /\ UNCHANGED <<db, cur, new, index, hollow, best, disk>>
  BY DEF ConnectFails, memVars, fileVars
<1>2. /\ txn \in DbType /\ done \in Nat /\ at \in Blocks /\ cur \in Blocks /\ best = db.best
      /\ View(txn, at, cur, done) /\ Len(Vtx[cur]) \in Nat /\ Reference[cur] = SpendBlock(Reference[at], cur)
  BY <1>1, ConnectFacts
<1>3. s.ok /\ s.coins = CoinsOf(txn) /\ s.fees = fees
  BY <1>1 DEF LongestInv, JobMatches
<1>4. ~ Reference[cur].ok
  <2>1. CASE done < Len(Vtx[cur]) /\ ~ TxConnects(t)
    <3>1. done + 1 \in 0 .. Len(Vtx[cur]) /\ done + 1 # 0
      BY <1>2, <2>1
    <3>2. e = SpendTx(s, t, Height[cur])
      <4> DEFINE m == done + 1
      <4> HIDE DEF r, m
      <4>1. SpendTxs(r, cur)[m] = SpendTx(SpendTxs(r, cur)[m - 1], Vtx[cur][m], Height[cur])
        BY <1>2, <3>1, SpendTxsStep DEF m
      <4>2. m - 1 = done
        BY <1>2 DEF m
      <4>3. SpendTxs(r, cur)[m] = SpendTx(SpendTxs(r, cur)[done], Vtx[cur][m], Height[cur])
        BY <4>1, <4>2
      <4> QED
        BY <4>3 DEF m
    <3>3. ~ ((cur \in RulesV2 => ~ AlreadyUnspent(txn, t)) /\ InputsConnect(txn, t, at))
      BY <2>1 DEF TxConnects
    <3>4. ~ e.ok
      <4> HIDE DEF s, e
      <4> QED
        BY <1>2, <1>3, <2>1, <3>2, <3>3, ConnectIsSpend
    <3> QED
      BY <1>2, <3>1, <3>4, SpoiledBlock
  <2>2. CASE done = Len(Vtx[cur]) /\ ~ CoinbaseValueOk
    <3>1. ~ (ValueOut(Vtx[cur][1]) <= GetBlockValue(Height[cur], s.fees))
      BY <1>3, <2>2 DEF CoinbaseValueOk
    <3> DEFINE res == Reference[cur]
    <3>2. res = [ok |-> s.ok /\ ValueOut(Vtx[cur][1]) <= GetBlockValue(Height[cur], s.fees),
                 coins |-> s.coins, fees |-> s.fees]
      BY <1>2, <2>2 DEF SpendBlock
    <3> HIDE DEF s, res
    <3>3. ~ res.ok
      BY <3>1, <3>2
    <3> QED
      BY <3>3 DEF res
  <2> QED
    BY <1>1, <2>1, <2>2
<1> QED
  BY <1>1, <1>2, <1>4 DEF LongestInv, JobMatches, LineMatches, NothingLost, Moving

\* Committing, adding and taking off: the best chain goes to a longer valid
\* one, and what is not higher stays where it is.
LEMMA ReorganizeLongest ==
  ASSUME IndInv, LongestInv, AddSideBlock \/ AddNewBest \/ DisconnectTx \/ DisconnectBlock \/ Commit
  PROVE  LongestInv'
<1>1. /\ TypeOK /\ best = db.best /\ db.best \in Blocks /\ at \in Blocks /\ txn \in DbType /\ txn.best = best
      /\ (pc = "index" => at = best /\ done = 0 /\ ~ Moving) /\ (pc = "commit" => at = new)
      /\ index \subseteq Blocks /\ new \in Blocks \cup {None} /\ TxnView
  BY IndInvParts DEF TypeOK, JobOK, DbType, Moving
<1>2. CASE AddSideBlock
  <2>1. /\ pc = "index" /\ Height[new] <= Height[best] /\ db'.best = best /\ at' = best /\ pc' = "idle"
        /\ UNCHANGED <<index, hollow, best, disk>>
    BY <1>1, <1>2 DEF AddSideBlock, Rest, memVars, fileVars
  <2>2. new \in Blocks /\ Height[new] \in Nat /\ Height[best] \in Nat
    <3>1. new \in Blocks
      BY <2>1, IndInvParts DEF JobOK
    <3> QED
      BY <1>1, <3>1, TreeAssumption
  <2>3. \A b \in index : ~ (Reference[b].ok /\ Height[b] > Height[best])
    BY <2>1, <2>2 DEF LongestInv
  <2> QED
    BY <1>1, <2>1, <2>3 DEF LongestInv, JobMatches, LineMatches, NothingLost, Moving
<1>3. CASE AddNewBest
  <2>1. /\ pc = "index" /\ Seek(best) /\ txn' = txn /\ db' = db /\ Height[new] > Height[best]
        /\ UNCHANGED <<index, hollow, best, disk>>
    BY <1>3 DEF AddNewBest, memVars, fileVars
  <2>2. View(txn, best, None, 0)
    BY <1>1, <2>1 DEF TxnView
  <2>3. \A x \in Anc[db.best] \cup Anc[best] : LineMatches(x)
    BY <1>1 DEF LongestInv
  <2>4. /\ Matches' /\ pc' \in {"disconnect", "connect", "commit"} /\ new' = new
        /\ pc' = "connect" => cur' \in Anc[new]
    BY <1>1, <2>1, <2>2, <2>3, SeekLongest
  <2> QED
    BY <2>1, <2>4 DEF LongestInv, Matches, NothingLost
<1>4. CASE DisconnectTx
  <2>1. pc = "disconnect" /\ UNCHANGED <<db, pc, new, at, cur, index, hollow, best, disk>>
    BY <1>4 DEF DisconnectTx, memVars, fileVars
  <2> QED
    BY <2>1 DEF LongestInv, JobMatches, LineMatches, NothingLost, Moving
<1>5. CASE DisconnectBlock
  <2>1. /\ pc = "disconnect" /\ done = 0 /\ txn' = [txn EXCEPT !.idx[at] = None] /\ Seek(at)
        /\ UNCHANGED <<db, index, hollow, best, disk>>
    BY <1>5 DEF DisconnectBlock, memVars, fileVars
  <2>2. View(txn, at, cur, 0)
    BY <1>1, <2>1 DEF TxnView, Moving
  <2>3. txn' \in DbType /\ txn'.pos = txn.pos /\ txn'.spent = txn.spent
    BY <1>1, <2>1, RecordUpdate
  <2>4. View(txn', at, cur, 0)
    BY <2>2, <2>3, ViewSameIndex
  <2>5. View(txn', at, None, 0)
    BY <1>1, <2>3, <2>4, ViewAtStart
  <2>6. \A x \in Anc[db.best] \cup Anc[at] : LineMatches(x)
    BY DEF LongestInv
  <2>7. /\ Matches' /\ pc' \in {"disconnect", "connect", "commit"} /\ new' = new
        /\ pc' = "connect" => cur' \in Anc[new]
    BY <1>1, <2>1, <2>3, <2>5, <2>6, SeekLongest
  <2>8. Height[new] > Height[best]
    BY <2>1 DEF LongestInv, Moving
  <2> QED
    BY <2>1, <2>7, <2>8 DEF LongestInv, Matches, NothingLost
<1>6. CASE Commit
  <2>1. /\ pc = "commit" /\ db'.best = new /\ at' = new /\ pc' = "idle" /\ at = new /\ best' = new
        /\ UNCHANGED <<index, hollow, disk>>
    BY <1>1, <1>6 DEF Commit, Rest, DbType, fileVars
  <2>2. Height[new] > Height[best] /\ new \in Blocks /\ Height[new] \in Nat /\ Height[best] \in Nat
    BY <1>1, <2>1, TreeAssumption DEF LongestInv
  <2>3. \A b \in index : ~ (Reference[b].ok /\ Height[b] > Height[new])
    <3>1. ASSUME NEW b \in index, Reference[b].ok, Height[b] > Height[new]
          PROVE  FALSE
      <4>1. Height[b] \in Nat
        BY <1>1, TreeAssumption
      <4>2. Height[b] > Height[best]
        BY <2>2, <3>1, <4>1
      <4>3. b = new
        BY <3>1, <4>2 DEF LongestInv
      <4> QED
        BY <2>2, <3>1, <4>3
    <3> QED
      BY <3>1
  <2>4. \A a \in Anc[new] : LineMatches(a)
    BY <2>1 DEF LongestInv
  <2> QED
    BY <2>1, <2>3, <2>4 DEF LongestInv, JobMatches, LineMatches, NothingLost, Moving
<1> QED
  BY <1>2, <1>3, <1>4, <1>5, <1>6

\* The purge: a block on one that is not valid is not valid either.
LEMMA PurgeLongest ==
  ASSUME IndInv, LongestInv, EraseBlockFromDisk \/ EraseBlockIndex
  PROVE  LongestInv'
<1>1. /\ db \in DbType /\ best = db.best /\ db.best \in Blocks /\ index \subseteq Blocks
      /\ disk \in [Blocks -> {"none", "ok", "null", "lost"}]
  BY IndInvParts DEF TypeOK, JobOK, DbType
<1>2. CASE EraseBlockFromDisk
  <2>1. /\ pc = "purge" /\ disk' = [disk EXCEPT ![cur] = "null"]
        /\ UNCHANGED <<db, pc, new, at, cur, index, hollow, best>>
    BY <1>2 DEF EraseBlockFromDisk, memVars, jobVars
  <2>2. \A b \in Blocks : disk'[b] # "lost"
    BY <1>1, <2>1 DEF LongestInv, NothingLost
  <2> QED
    BY <2>1, <2>2 DEF LongestInv, JobMatches, LineMatches, NothingLost, Moving
<1>3. CASE EraseBlockIndex
  <2>1. /\ pc = "purge" /\ db'.best = db.best /\ index' = index \ {cur}
        /\ UNCHANGED <<hollow, best, disk>>
        /\ \/ cur = new /\ pc' = "idle" /\ at' = best
           \/ (\E c \in index \cap Anc[new] : Prev[c] = cur /\ cur' = c) /\ UNCHANGED <<pc, new, at>>
    BY <1>1, <1>3 DEF EraseBlockIndex, Rest, DbType, fileVars
  <2>2. ~ Reference[cur].ok /\ at = best
    BY <2>1, IndInvParts DEF LongestInv, JobOK, Moving
  <2>3. CASE cur = new /\ pc' = "idle" /\ at' = best
    BY <1>1, <2>1, <2>3 DEF LongestInv, JobMatches, LineMatches, NothingLost, Moving
  <2>4. ASSUME NEW c \in index \cap Anc[new], Prev[c] = cur, cur' = c, UNCHANGED <<pc, new, at>>
        PROVE  LongestInv'
    <3>1. cur \in Anc[c] /\ c \in Blocks
      <4>1. c \in Blocks
        BY <1>1
      <4>2. CASE c = Genesis
        BY <2>4, <4>1, <4>2, SelfAncestor, TreeAssumption
      <4>3. CASE c # Genesis
        BY <2>4, <4>1, <4>3, ParentFacts, SelfAncestor
      <4> QED
        BY <4>1, <4>2, <4>3
    <3>2. ~ Reference[c].ok
      BY <2>2, <3>1, SpoiledLine
    <3> QED
      BY <2>1, <2>4, <3>2 DEF LongestInv, JobMatches, LineMatches, NothingLost, Moving
  <2> QED
    BY <2>1, <2>3, <2>4
<1> QED
  BY <1>2, <1>3

\* Nothing else is left to happen to a process that keeps running.
LEMMA RestLongest ==
  ASSUME IndInv, LongestInv, pc # "down", pc' # "down",
         \/ \E b \in Blocks : ReceiveBlock(b) \/ RefuseOrphan(b)
         \/ NextInQueue \/ AddWithoutFork \/ ReadFails \/ ReadNullBlock
         \/ Restart \/ \E kind \in CrashKinds : Crash(kind)
  PROVE  LongestInv'
<1>1. /\ txn \in DbType /\ cur \in Blocks \cup {None} /\ best = db.best
      /\ disk \in [Blocks -> {"none", "ok", "null", "lost"}]
      /\ (pc = "idle" => at = best) /\ (Moving => cur \in Blocks)
  BY IndInvParts DEF TypeOK, JobOK, Moving
<1>2. ~ ProcessEnds /\ ~ Restart
  BY DEF ProcessEnds, Rest, Restart
<1>3. CASE UNCHANGED <<index, hollow, best, disk, db, txn, pc, new, at, cur, done, fees>>
  BY <1>3 DEF LongestInv, JobMatches, LineMatches, NothingLost, Moving
<1>4. ASSUME NEW b \in Blocks, AcceptBlock(b)
      PROVE  LongestInv'
  <2>1. /\ pc = "idle" /\ pc' = "index" /\ new' = b /\ index' = index \cup {b}
        /\ disk' = [disk EXCEPT ![b] = "ok"]
        /\ UNCHANGED <<hollow, best, db, at>>
    BY <1>4 DEF AcceptBlock, Arrives, Idle
  <2>2. \A c \in Blocks : disk'[c] # "lost"
    BY <1>1, <2>1 DEF LongestInv, NothingLost
  <2> QED
    BY <2>1, <2>2 DEF LongestInv, JobMatches, LineMatches, NothingLost, Moving
<1>5. ASSUME NEW b \in Blocks, RefuseBlock(b) \/ StoreOrphan(b) \/ RefuseOrphan(b)
      PROVE  LongestInv'
  BY <1>3, <1>5 DEF RefuseBlock, StoreOrphan, RefuseOrphan, vars, memVars, fileVars, jobVars
<1>6. CASE NextInQueue
  BY <1>3, <1>6 DEF NextInQueue, memVars, fileVars, jobVars
<1>7. ~ AddWithoutFork
  BY DEF AddWithoutFork, LongestInv, NothingLost
<1>8. ~ ReadFails
  <2>1. SUFFICES ASSUME ReadFails PROVE FALSE
    OBVIOUS
  <2>2. Moving /\ \A b \in Blocks : disk[b] # "lost"
    BY <2>1 DEF ReadFails, Moving, LongestInv, NothingLost
  <2>3. pc = "connect" /\ done < Len(Vtx[cur]) /\ LostInput(Vtx[cur][done + 1])
    BY <1>1, <2>1, <2>2 DEF ReadFails
  <2>4. Vtx[cur][done + 1] \in Txs
    <3>1. done \in Nat /\ cur \in Blocks /\ Len(Vtx[cur]) \in Nat
      BY <2>3, ConnectFacts
    <3>2. done + 1 \in DOMAIN Vtx[cur]
      BY <2>3, <3>1, Basics
    <3> QED
      BY <3>1, <3>2, Basics
  <2>5. \A t \in Txs : txn.pos[t] # None => txn.pos[t] \in Blocks
    BY <1>1 DEF DbType
  <2> QED
    BY <2>2, <2>3, <2>4, <2>5, Basics DEF LostInput
<1>9. (\A b \in Blocks : ~ FollowFreedEntry(b)) /\ ~ ReadNullBlock /\ \A kind \in CrashKinds : ~ Crash(kind)
  BY <1>2 DEF FollowFreedEntry, ReadNullBlock, Crash
<1> QED
  BY <1>2, <1>4, <1>5, <1>6, <1>7, <1>8, <1>9 DEF ReceiveBlock

LEMMA NextLongest ==
  IndInv /\ LongestInv /\ pc # "down" /\ (pc # "down")' /\ [Next]_vars => LongestInv'
<1> SUFFICES ASSUME IndInv, LongestInv, pc # "down", pc' # "down", [Next]_vars PROVE LongestInv'
  OBVIOUS
<1>1. CASE UNCHANGED vars
  BY <1>1 DEF vars, memVars, fileVars, jobVars, LongestInv, JobMatches, LineMatches, NothingLost, Moving
<1>2. CASE Next
  BY <1>2, ConnectTxLongest, ConnectBlockLongest, ConnectFailsLongest, ReorganizeLongest, PurgeLongest,
     RestLongest DEF Next, HandlerStep, ReceiveBlock
<1> QED
  BY <1>1, <1>2

\* As long as the process runs the node is, between handlers, on a valid chain,
\* and has no valid one that is longer; and Reorganize deletes no valid block
\* (ConnectBlock and Reorganize against the reference, which spends each block of
\* a chain in turn).  After a restart a higher valid block may wait for a child:
\* one whose reorganization was cut off by an exception, or that a repair left.
THEOREM BestIsLongestValidCorrect == Spec /\ [](pc # "down") => []BestIsLongestValid
<1>1. Init => LongestInv
  BY InitLongest
<1>2. IndInv /\ LongestInv /\ pc # "down" /\ (pc # "down")' /\ [Next]_vars => LongestInv'
  BY NextLongest
<1>3. IndInv /\ LongestInv => BestIsLongestValid
  <2> SUFFICES ASSUME IndInv, LongestInv PROVE BestIsLongestValid
    OBVIOUS
  <2>1. best = db.best /\ best \in Blocks /\ index \subseteq Blocks
    BY IndInvParts DEF TypeOK, JobOK, DbType
  <2>2. Reference[best].ok
    BY <2>1, SelfAncestor DEF LongestInv, LineMatches
  <2>3. ASSUME Idle, NEW b \in index, Reference[b].ok
        PROVE  Height[b] <= Height[best]
    <3>1. ~ (Height[b] > Height[best])
      BY <2>3 DEF LongestInv, Idle
    <3>2. Height[b] \in Nat /\ Height[best] \in Nat
      BY <2>1, TreeAssumption
    <3> QED
      BY <3>1, <3>2
  <2> QED
    BY <2>2, <2>3 DEF BestIsLongestValid, LongestInv
<1> QED
  BY <1>1, <1>2, <1>3, Invariance, PTL DEF Spec
=============================================================================
