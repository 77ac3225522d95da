------------------------------- MODULE P2Pool -------------------------------
(***************************************************************************)
(* P2Pool nodes that mine, relay and sync a share chain (p2pool_net.cpp,   *)
(* templates and submits of rpc.cpp).  Every message handler and every     *)
(* submit holds cs_main, so each is one step of its node; what interleaves *)
(* is the nodes, their messages, the jobs miners still work on, clocks,    *)
(* connections and restarts.  All nodes run this program.                  *)
(***************************************************************************)
EXTENDS ShareChain

CONSTANTS
  Nodes, None,
  MAX_ORPHAN_SHARES, ORPHAN_BACKLOG, SHARES_PER_MESSAGE,
  ASK_ON_VERSION,        \* the 4 of P2PoolOnVersion
  MAX_RECENT_JOBS,
  \* times, in ticks of the clock
  ORPHAN_EXPIRY, SYNC_SERVE_INTERVAL, SYNC_ANSWER_WINDOW,
  Plans                  \* what there is at the start: shares (tree), who has which (has), links;
                         \* and bounds (left): who mines, how many shares are mined,
                         \* how often each connection is made, how many are cut, who may
                         \* restart, how many ticks there are

SYNC_GAP == 2 * MAX_UNCLE_DEPTH + SLACK

ASSUME P2PoolAssumption ==
  /\ {MAX_ORPHAN_SHARES, ORPHAN_BACKLOG, SHARES_PER_MESSAGE, ASK_ON_VERSION,
      MAX_RECENT_JOBS, ORPHAN_EXPIRY, SYNC_SERVE_INTERVAL, SYNC_ANSWER_WINDOW} \subseteq Nat
  /\ 0 < MAX_ORPHAN_SHARES /\ 0 < SHARES_PER_MESSAGE /\ 0 < MAX_RECENT_JOBS
  /\ None \notin Nodes

VARIABLES
  chain,    \* P2PoolChain()
  orphans,  \* mapOrphanShares, in the order they came
  peer,     \* nP2PoolSyncAskedAt, nP2PoolHistoryRecv and nP2PoolSyncServed of each connection
  asked,    \* nAskedOnVersion and nFirstHistoryAsk
  jobs,     \* gRecentJobs: the templates the miners of a node work on, newest first
  saved,    \* p2pool.dat
  links,    \* connections
  net,      \* messages under way, in order on each connection
  now,      \* the clock
  mined,    \* shares found so far
  blamed,   \* pairs of a node and the peer (or itself) it found at fault
  left      \* what is left of the plan

vars == <<chain, orphans, peer, asked, jobs, saved, links, net, now, mined, blamed, left>>

\* No time yet: the 0 of nP2PoolSyncAskedAt and the others, which is long ago.
Never == -1000

NewPeer == [asked |-> Never, recv |-> 0, served |-> Never]
NewRun == [versions |-> 0, first |-> Never]
NoFile == [tip |-> -1, part |-> <<>>]

Peers(n) == {p \in Nodes : {n, p} \in links /\ p # n}

Send(w, n, p, msg) == [w EXCEPT ![<<n, p>>] = Append(@, msg)]
SendAll(w, n, to, msg) == [l \in DOMAIN w |-> IF l[1] = n /\ l[2] \in to THEN Append(w[l], msg) ELSE w[l]]

ShareMsg(s) == [type |-> "share", share |-> s]
GetSharesMsg(ids) == [type |-> "getsh", ids |-> ids]
SyncMsg == [type |-> "sync"]
HistoryMsg(tip, part) == [type |-> "shares", tip |-> tip, part |-> part]

File(c) == [tip |-> Height(c, c.tip), part |-> History(c)]

----------------------------------------------------------------------------
(* AcceptShare: a share, and whatever was waiting for it.                  *)

\* Mutant: only the expired go.
MakeRoomOfExpired(v) == SelectSeq(v, LAMBDA o : now - o.time <= ORPHAN_EXPIRY)

\* Room for one more orphan: the expired go, then, if need be, the oldest.
MakeOrphanRoom(v) ==
  LET kept == SelectSeq(v, LAMBDA o : now - o.time <= ORPHAN_EXPIRY)
      oldest == CHOOSE i \in DOMAIN kept : \A j \in DOMAIN kept :
                  kept[i].time < kept[j].time \/ (kept[i].time = kept[j].time /\ i <= j)
  IN IF Len(kept) < MAX_ORPHAN_SHARES THEN kept ELSE RemoveAt(kept, oldest)

\* Mutant: the shares that were waiting are forgotten.
AcceptForgets(st, n, p, s) ==
  LET c == Add(st.chain, s, now) IN
  [st EXCEPT !.chain = c,
             !.orphans = SelectSeq(@, LAMBDA o : o.on # s.id),
             !.file = IF @ = None THEN File(c) ELSE @,
             !.net = SendAll(@, n, Peers(n) \ {p}, ShareMsg(s))]

\* The share was added: it is passed on, and the shares that waited on it are
\* tried.  st.file is the line MaybeSaveShares would write if it is time to.
Accepted(st, n, p, s) ==
  LET c == Add(st.chain, s, now)
      waited == SelectSeq(st.orphans, LAMBDA o : o.on = s.id)
  IN [st EXCEPT !.chain = c,
                !.todo = @ \o [i \in DOMAIN waited |-> waited[i].share],
                !.orphans = SelectSeq(@, LAMBDA o : o.on # s.id),
                !.file = IF @ = None THEN File(c) ELSE @,
                !.net = SendAll(@, n, Peers(n) \ {p}, ShareMsg(s))]

\* Its parent or an uncle is not here: it waits on the first of them, all are
\* asked for, and perhaps the peer's history.
Waits(st, n, p, s) ==
  LET missing == MissingOf(st.chain, s)
      tip == Height(st.chain, st.chain.tip)
      held == IF \E i \in DOMAIN st.orphans : st.orphans[i].share.id = s.id THEN st.orphans
              ELSE Append(MakeOrphanRoom(st.orphans), [share |-> s, on |-> Head(missing), time |-> now])
      ask == /\ tip < 0 \/ s.height > tip + SYNC_GAP \/ Len(held) >= ORPHAN_BACKLOG
             /\ now - st.peer.asked >= SYNC_SERVE_INTERVAL
      request == Send(st.net, n, p, GetSharesMsg(missing))
  IN IF tip >= 0 /\ s.height + HISTORY_SHARES < tip THEN st
     ELSE [st EXCEPT !.orphans = held,
                     !.peer = IF ask THEN [@ EXCEPT !.asked = now, !.recv = 0] ELSE @,
                     !.first = IF ask /\ @ = Never THEN now ELSE @,
                     !.net = IF ask THEN Send(request, n, p, SyncMsg) ELSE request]

TryShare(st, n, p) ==
  LET s == Last(st.todo)
      rest == [st EXCEPT !.todo = Front(@), !.begun = TRUE]
      r == Refusal(st.chain, s)
  IN IF r = "ok" THEN Accepted(rest, n, p, s)
     ELSE IF r = "missing" THEN Waits(rest, n, p, s)
     ELSE IF InnocentRefusal(r) \/ st.begun THEN rest ELSE [rest EXCEPT !.good = FALSE]

\* The loop over todo; every turn takes one share off it.
AcceptShare(n, p, s, w) ==
  LET f[i \in Nat] ==
        IF i = 0 THEN [chain |-> chain[n], orphans |-> orphans[n], peer |-> peer[n][p],
                       first |-> asked[n].first, net |-> w, todo |-> <<s>>, file |-> None,
                       begun |-> FALSE, good |-> TRUE]
        ELSE LET st == f[i - 1] IN IF st.todo = <<>> THEN st ELSE TryShare(st, n, p)
  IN f[(Len(orphans[n]) + 1) * (Len(orphans[n]) + 1)]

----------------------------------------------------------------------------
(* Messages.                                                               *)

\* The next message from p to n is taken off the connection.
Gets(n, p, type) == net[<<p, n>>] # <<>> /\ Head(net[<<p, n>>]).type = type
Taken(n, p) == [net EXCEPT ![<<p, n>>] = Tail(@)]
Msg(n, p) == Head(net[<<p, n>>])

Blame(n, p, good) == blamed' = IF good THEN blamed ELSE blamed \cup {<<n, p>>}

\* It is, or is not, two minutes since the last save.  (Bound: a file that no
\* restart will read is not kept up to date.)
MaybeSave(n, file) ==
  \/ UNCHANGED saved
  \/ n \in left.restart /\ file # None /\ file # saved[n] /\ saved' = [saved EXCEPT ![n] = file]

OnShare(n, p) ==
  /\ Gets(n, p, "share")
  /\ LET st == AcceptShare(n, p, Msg(n, p).share, Taken(n, p)) IN
     /\ chain' = [chain EXCEPT ![n] = st.chain]
     /\ orphans' = [orphans EXCEPT ![n] = st.orphans]
     /\ peer' = [peer EXCEPT ![n][p] = st.peer]
     /\ asked' = [asked EXCEPT ![n].first = st.first]
     /\ net' = st.net
     /\ MaybeSave(n, st.file)
     /\ Blame(n, p, st.good)
  /\ UNCHANGED <<jobs, links, now, mined, left>>

\* Any share held, but none taken on its work alone (GetShare).
OnGetShares(n, p) ==
  /\ Gets(n, p, "getsh")
  /\ LET c == chain[n]
         ids == SelectSeq(Msg(n, p).ids, LAMBDA id : Has(c, id) /\ ~ c.held[id].trusted)
     IN net' = FoldLeft(LAMBDA w, id : Send(w, n, p, ShareMsg(ShareOf(c, id))), Taken(n, p), ids)
  /\ UNCHANGED <<chain, orphans, peer, asked, jobs, saved, links, now, mined, blamed, left>>

\* A history goes out in parts, once in a while.
OnSync(n, p) ==
  /\ Gets(n, p, "sync")
  /\ LET h == History(chain[n])
         tip == Height(chain[n], chain[n].tip)
         parts == [i \in 1 .. (Len(h) + SHARES_PER_MESSAGE - 1) \div SHARES_PER_MESSAGE |->
                     SubSeq(h, (i - 1) * SHARES_PER_MESSAGE + 1,
                            Min({i * SHARES_PER_MESSAGE, Len(h)}))]
     IN IF now - peer[n][p].served < SYNC_SERVE_INTERVAL
          THEN net' = Taken(n, p) /\ UNCHANGED peer
          ELSE /\ net' = FoldLeft(LAMBDA w, part : Send(w, n, p, HistoryMsg(tip, part)), Taken(n, p), parts)
               /\ peer' = [peer EXCEPT ![n][p].served = now]
  /\ UNCHANGED <<chain, orphans, asked, jobs, saved, links, now, mined, blamed, left>>

\* Only from a peer that was asked, soon after, and no more than a history.
OnHistory(n, p) ==
  /\ Gets(n, p, "shares")
  /\ net' = Taken(n, p)
  /\ LET part == Msg(n, p).part
         recv == peer[n][p].recv + Len(part)
         top == Max({part[i].height : i \in DOMAIN part})
         tip == Min({Msg(n, p).tip, top + HISTORY_SHARES})
         took == AddHistory(chain[n], part, tip, now)
     IN IF now - peer[n][p].asked > SYNC_ANSWER_WINDOW THEN UNCHANGED <<chain, peer, blamed>>
        ELSE /\ peer' = [peer EXCEPT ![n][p].recv = recv]
             /\ IF recv > 3 * HISTORY_SHARES + 2 * SHARES_PER_MESSAGE THEN UNCHANGED <<chain, blamed>>
                ELSE chain' = [chain EXCEPT ![n] = took.chain] /\ Blame(n, p, took.good)
  /\ UNCHANGED <<orphans, asked, jobs, saved, links, now, mined, left>>

----------------------------------------------------------------------------
(* Mining.                                                                 *)

\* (In whole ticks: the same tick or so is less than the answer's time ago.)
P2PoolAwaitingHistory(n) ==
  chain[n].tip = 0 /\ asked[n].first # Never /\ now - asked[n].first < SYNC_ANSWER_WINDOW + 1

\* What a share on the tip says, with these uncles.
TemplateData(c, uncles) ==
  [prev |-> c.tip, height |-> Height(c, c.tip) + 1, uncles |-> uncles,
   bits |-> NextShareBits(c, c.tip), after |-> NextShareMinTime(c, c.tip)]
Template(c, uncles, time) ==
  [id |-> 0, time |-> time, pays |-> WindowFor(c, TemplateData(c, uncles))] @@ TemplateData(c, uncles)

\* (Bound: no template twice running, where the code makes one every minute.)
P2PoolCoinbase(n) ==
  /\ left.mine > 0 /\ n \in left.miners /\ ~ P2PoolAwaitingHistory(n)
  /\ \E uncles \in UncleCandidates(chain[n], chain[n].tip) :
       /\ WindowHere(chain[n], TemplateData(chain[n], uncles))
       /\ LET job == Template(chain[n], uncles, now) IN
          /\ jobs[n] # <<>> => Head(jobs[n]) # job
          /\ jobs' = [jobs EXCEPT ![n] = SubSeq(<<job>> \o @, 1, Min({Len(@) + 1, MAX_RECENT_JOBS}))]
  /\ UNCHANGED <<chain, orphans, peer, asked, saved, links, net, now, mined, blamed, left>>

\* A miner finds a share for a job of late, which the tip may have left behind.
P2PoolSubmitShare(n, job) ==
  /\ left.mine > 0
  /\ left' = [left EXCEPT !.mine = @ - 1]
  /\ mined' = mined + 1
  /\ LET s == [job EXCEPT !.id = mined + 1]
         r == Refusal(chain[n], s)
     IN IF r = "ok"
          THEN /\ chain' = [chain EXCEPT ![n] = Add(@, s, now)]
               /\ net' = SendAll(net, n, Peers(n), ShareMsg(s))
               /\ MaybeSave(n, File(Add(chain[n], s, now)))
               /\ UNCHANGED blamed
          ELSE Blame(n, n, InnocentRefusal(r)) /\ UNCHANGED <<chain, net, saved>>
  /\ UNCHANGED <<orphans, peer, asked, jobs, links, now>>

----------------------------------------------------------------------------
(* Connections, restarts, time.                                            *)

\* P2PoolOnVersion on one side: does n ask?
AsksOnVersion(n) == chain[n].tip = 0 \/ asked[n].versions < ASK_ON_VERSION
OnVersion(r, n) ==
  IF AsksOnVersion(n) THEN [versions |-> r.versions + 1, first |-> IF r.first = Never THEN now ELSE r.first]
  ELSE r

\* Two nodes connect and exchange their versions.
Connect(n, p) ==
  /\ n # p /\ {n, p} \notin links
  /\ {n, p} \in DOMAIN left.connect /\ left.connect[{n, p}] > 0
  /\ left' = [left EXCEPT !.connect[{n, p}] = @ - 1]
  /\ links' = links \cup {{n, p}}
  /\ asked' = [m \in Nodes |-> IF m \in {n, p} THEN OnVersion(asked[m], m) ELSE asked[m]]
  /\ peer' = [m \in Nodes |-> [q \in Nodes |->
                IF {m, q} = {n, p} THEN [NewPeer EXCEPT !.asked = IF AsksOnVersion(m) THEN now ELSE @]
                ELSE peer[m][q]]]
  /\ net' = [l \in DOMAIN net |->
               IF {l[1], l[2]} = {n, p} /\ AsksOnVersion(l[1]) THEN <<SyncMsg>> ELSE net[l]]
  /\ UNCHANGED <<chain, orphans, jobs, saved, now, mined, blamed>>

Cut(gone) ==
  /\ links' = links \ gone
  /\ net' = [l \in DOMAIN net |-> IF {l[1], l[2]} \in gone THEN <<>> ELSE net[l]]
  /\ peer' = [m \in Nodes |-> [q \in Nodes |-> IF {m, q} \in gone THEN NewPeer ELSE peer[m][q]]]

Disconnect(l) ==
  /\ left.cut > 0 /\ l \in links
  /\ left' = [left EXCEPT !.cut = @ - 1]
  /\ Cut({l})
  /\ UNCHANGED <<chain, orphans, asked, jobs, saved, now, mined, blamed>>

\* The process ends and starts again with LoadShares; if it ended in
\* WriteShares after the remove there is no p2pool.dat.
Restart(n, lost) ==
  /\ n \in left.restart
  /\ left' = [left EXCEPT !.restart = @ \ {n}]
  /\ LET file == IF lost THEN NoFile ELSE saved[n] IN
     /\ chain' = [chain EXCEPT ![n] = AddHistory(EmptyChain, file.part, file.tip, now).chain]
     /\ saved' = [saved EXCEPT ![n] = file]
  /\ orphans' = [orphans EXCEPT ![n] = <<>>]
  /\ asked' = [asked EXCEPT ![n] = NewRun]
  /\ jobs' = [jobs EXCEPT ![n] = <<>>]
  /\ Cut({l \in links : n \in l})
  /\ UNCHANGED <<now, mined, blamed>>

Tick ==
  /\ left.tick > 0
  /\ left' = [left EXCEPT !.tick = @ - 1]
  /\ now' = now + 1
  /\ UNCHANGED <<chain, orphans, peer, asked, jobs, saved, links, net, mined, blamed>>

----------------------------------------------------------------------------
\* A plan's shares, each with its parent and its uncles, as they were mined.
Premined(tree) ==
  LET All(c, i) ==
        LET at == [c EXCEPT !.tip = tree[i].prev]
        IN Keep(c, [Template(at, tree[i].uncles, 0) EXCEPT !.id = i], FALSE, 1 + Cardinality(tree[i].uncles))
  IN FoldLeft(All, EmptyChain, [i \in DOMAIN tree |-> i])

\* A node has some of them: checked in full (tip 0), or from the beginning of a
\* history whose tip is at some height.
StartChain(tree, has) ==
  LET all == Premined(tree)
  IN AddHistory(EmptyChain, [i \in DOMAIN has.ids |-> ShareOf(all, has.ids[i])], has.tip, 0).chain

Init ==
  \E plan \in Plans :
    /\ chain = [n \in Nodes |-> StartChain(plan.tree, plan.has[n])]
    /\ saved = [n \in Nodes |-> File(chain[n])]
    /\ mined = Len(plan.tree)
    /\ links = plan.links
    /\ left = plan.left
    /\ orphans = [n \in Nodes |-> <<>>]
    /\ peer = [n \in Nodes |-> [p \in Nodes |-> NewPeer]]
    /\ asked = [n \in Nodes |-> NewRun]
    /\ jobs = [n \in Nodes |-> <<>>]
    /\ net = [l \in Nodes \X Nodes |-> <<>>]
    /\ now = 0 /\ blamed = {}

Next ==
  \/ \E n \in Nodes :
       \/ \E p \in Nodes : OnShare(n, p) \/ OnGetShares(n, p) \/ OnSync(n, p) \/ OnHistory(n, p) \/ Connect(n, p)
       \/ P2PoolCoinbase(n) \/ \E job \in Range(jobs[n]) : P2PoolSubmitShare(n, job)
       \/ \E lost \in BOOLEAN : Restart(n, lost)
  \/ \E l \in links : Disconnect(l)
  \/ Tick

Spec == Init /\ [][Next]_vars

----------------------------------------------------------------------------
(* Properties.                                                             *)

\* Type invariant; and a tip is held, a share's height is its parent's and one
\* more, no orphan is held twice, and a file is a history in order.
P2PoolTypeOK ==
  /\ \A n \in Nodes : LET c == chain[n] IN
       /\ c.tip = 0 \/ Has(c, c.tip)
       /\ Cardinality(DOMAIN c.held) <= MAX_CHAIN_SHARES
       /\ \A id \in DOMAIN c.held : LET e == c.held[id] IN
            /\ id \in 1 .. mined /\ e.trusted \in BOOLEAN
            /\ Cardinality(e.uncles) <= MAX_UNCLES
            /\ Has(c, e.prev) => e.height = c.held[e.prev].height + 1
       /\ Len(orphans[n]) <= MAX_ORPHAN_SHARES
       /\ \A i, j \in DOMAIN orphans[n] : orphans[n][i].share.id = orphans[n][j].share.id => i = j
       /\ \A i \in 2 .. Len(saved[n].part) : saved[n].part[i - 1].height <= saved[n].part[i].height
  /\ \A l \in DOMAIN net : net[l] # <<>> => {l[1], l[2]} \in links

\* No node of the network is ever found at fault, by another or, for a share of
\* its own, by itself: not for what the other lacks, has on trust, has dropped,
\* or gets late and out of order ("two honest nodes ended up banning each other
\* onto separate share chains", AddInContext).
HonestNotBlamed == blamed = {}

\* A share taken on its work alone lies below every share checked in full, and is
\* never the tip (AddHistory, AddInContext).
TrustStaysBelow ==
  \A n \in Nodes : LET c == chain[n] IN
    \A id \in DOMAIN c.held : c.held[id].trusted =>
      id # c.tip /\ (Has(c, c.held[id].prev) => c.held[c.held[id].prev].trusted)

\* A node with a tip can build a template, and it credits no share twice, on the
\* line and as an uncle or as the uncle of two: nothing the window on the tip needs
\* is dropped by Prune, by Evict or for a share checked in full.
TemplatePays ==
  \A n \in Nodes : LET c == chain[n] IN
    c.tip # 0 => \A uncles \in UncleCandidates(c, c.tip) : LET d == TemplateData(c, uncles) IN
      /\ WindowHere(c, d)
      /\ \A x, y \in WindowFor(c, d) : x[2] = y[2] => x = y

\* As long as nothing held is too old to count, no share checked in full has more
\* work behind it than the tip, where the two lines meet.
BestHeld ==
  \A n \in Nodes : LET c == chain[n] IN
    (\A id \in DOMAIN c.held : Live(c.held[id], now)) =>
      \A id \in DOMAIN c.held \ Range(WholeLine(c, c.tip)) :
        ~ c.held[id].trusted /\ LinesMeet(c, id, c.tip) =>
          WorkAbove(c, id, c.tip) <= WorkAbove(c, c.tip, id)

\* Nodes that stay connected while every line is mined on have tips of the same
\* work once all messages have arrived, in whatever order shares were mined and
\* came, and whether or not they had their parents and uncles (steady: the plan
\* is of that kind, and all of it has been mined).
Converge ==
  left.steady /\ left.mine = 0 /\ (\A l \in DOMAIN net : net[l] = <<>>) =>
    \A a, b \in Nodes : LET ca == chain[a]
                             cb == chain[b]
                         IN {a, b} \in links /\ ca.tip # 0 /\ cb.tip # 0 => ca.held[ca.tip].chain = cb.held[cb.tip].chain
=============================================================================
