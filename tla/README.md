# Bitflash in TLA+

Models of the Bitflash node (`src/src/`), checked with TLC on small instances
and, for the core, proved with TLAPS for all instances.

## 1. The system

A Bitflash node is one process with a few threads. Almost everything that
changes consensus state runs under `cs_main`, one handler at a time; what
interleaves with a handler is the end of the process, the threads that only take
another lock (wallet, memory pool, RPC, GUI), and the peers.

| Part | State | Operations | Talks to |
| --- | --- | --- | --- |
| Block chain (`main.cpp`, `main.h`, `db.cpp`) | `mapBlockIndex`, `pindexBest`, `pnext`, orphan blocks; on disk `blkindex.dat` (block index, `hashBestChain`, tx index) and `blk*.dat` | `ProcessBlock`, `AcceptBlock`, `AddToBlockIndex`, `Reorganize`, `ConnectBlock`, `DisconnectBlock`, `LoadBlockIndex` | network, memory pool, wallet, miner |
| Memory pool (`main.cpp`) | `mapTransactions`, `mapNextTx`, orphan transactions | `AcceptTransaction` (with replacement by fee), `RemoveFromMemoryPool`, `AddOrphanTx`, `LimitOrphanTx` | chain, network, miner, wallet |
| Wallet (`main.cpp`, `walletcmd.cpp`, `wallet_sqlite.cpp`, `bip32.cpp`) | keys, recovery phrase and its counters, key pool, `mapWallet`, encryption state | draw and refill the pool, new phrase, restore, encrypt, backup, `CreateTransaction`, `CommitTransactionSpent` | chain, RPC, swaps |
| Miner (`main.cpp`) | the block under construction | `BitcoinMiner` | chain, memory pool |
| Network (`net.cpp`, `tor.cpp`, `proxy.cpp`) | `vNodes`, addresses, bans, inventory | connect, disconnect, `ProcessMessages`, `SendMessages` | all |
| Pool server (`rpc.cpp`) | jobs, worker shares, balances | stratum submit, payout | chain, wallet |
| P2Pool (`p2pool_*.cpp`) | share chain, orphan shares, what each peer was asked and sent, `p2pool.dat` | add, relay and ask for shares, send and take histories, prune, evict, template, submit | network, miner, pool server |
| Swaps (`btfchatswap.cpp`, `chatswap.cpp`, `btcswap.cpp`) | one record per swap on each side | offer, fund, redeem, refund, resume | wallet, chat, Bitcoin light client |
| Bitcoin light client (`btclight.cpp`) | headers, filters, watched scripts | sync, reorganize, watch | swaps |
| Chat (`btfchat*.cpp`, `chat*.cpp`) | mailboxes, links, logs, relay store | send, relay, acknowledge, expire | network |
| Encrypted channel (`btfchan.cpp`) | keys of a connection, frame counters | handshake, seal, open | network, chat |
| Invoices (`invoice.cpp`) | invoices and their payments | create, pay, confirm, expire | wallet, chain |
| Script, encodings, explorer, market, GUI, Nostr | none that others rely on | pure functions, views, I/O | |

What is hard to get right, and to test:

* a reorganization that fails half way, after blocks were disconnected and
  others connected in an open database transaction;
* the end of the process between any two writes, with a database that syncs and
  block files that do not always;
* orphans, and what becomes of the rest of a branch that turns out invalid;
* a stricter build started on the data of an older one;
* values at the boundary: maturity, relative locks, halving, orphan limits;
* the memory pool across a reorganization: what goes back without a look at its
  inputs, what a removal erases that it does not own, and replacement on top;
* a swap on two chains: locks that run out, a refund and a redeem that race for the
  same output, a button pressed while a round works on a copy of the swap, the end
  of the process between a call of the wallet and the save;
* a wallet whose records are written one by one: the key pool, a new phrase, a
  restore on its own thread and encryption, with a write refused or the process
  ended in between;
* nodes that judge a share by the shares they happen to hold: ahead, behind, pruned,
  started from a history they took partly on trust, with shares in any order;
* for the parts not modelled yet: the relay store of the chat, payouts of the pool
  server, the headers of the Bitcoin light client.

`PROJECT.json` lists these with their lines under `hazards`.

## 2. Modules

| Module | What it is |
| --- | --- |
| `Chain` | the block chain of one node, its database, its block files, crashes and restarts |
| `MCChain` | block trees for TLC |
| `ChainProofs` | the inductive invariants of `Chain`, all theorems but `RestartableCorrect`, and the refinement of `Ledger` |
| `RestartProofs` | the proof that a node that has caught up can restart on what a crash leaves |
| `Mempool` | the memory pool and the miner's block, composed with `Chain` |
| `MCMempool` | a tree and its transactions for TLC, and the check of a block template |
| `MempoolProofs` | the inductive invariant of `Mempool` and the theorems |
| `Swap` | an atomic swap: the engines of both sides, their contracts and steps, the people, time |
| `MCSwap` | pairs of chains, with and without a side that does as it pleases |
| `SwapProofs` | the effects of every step of a swap, and the theorems about both coins |
| `Ledger` | what the block handling promises to its readers; `Chain` implements it |
| `Keys` | the keys of a wallet, in memory and in its file |
| `MCKeys` | what is asked of the wallet, and in which order |
| `MCAgain` | a wallet that is restored, spent from and restored again |
| `KeysProofs` | the inductive invariants of `Keys` and the theorems |
| `OnceProofs` | the proof that no key is given out twice |
| `SearchProofs` | the proof that what a restore misses lies behind a long silence |
| `NaturalSets` | least and greatest members of sets of numbers, and sums over finite sets, for the proofs |
| `ShareChain` | the share chain of one P2Pool node, as operators on a value |
| `P2Pool` | nodes with share chains, their messages, miners, clocks, restarts |
| `MCP2Pool` | small networks and the shares they start from |

### Chain

The blocks that exist anywhere are a constant tree (`Blocks`, `Prev`, `Height`,
`Anc`), the transactions a constant set (`Vtx`, `In`, `Out`). A peer may send any
block at any time, any number of times. One handler is one `ProcessBlock`, split
where a crash would leave a different disk behind:

| Code | Action |
| --- | --- |
| `ProcessBlock`, the early returns | `RefuseBlock`, `RefuseOrphan` |
| `ProcessBlock`, parent unknown; `GetOrphanRoot`, `LimitOrphanBlocks` | `StoreOrphan` |
| `ProcessBlock`, loop over `vWorkQueue` | `NextInQueue`, `AcceptBlock` of an orphan |
| `AcceptBlock`, `WriteToDisk`, start of `AddToBlockIndex` | `AcceptBlock` |
| `AddToBlockIndex`, not a new best block | `AddSideBlock` |
| `AddToBlockIndex` / `Reorganize`, search for the fork | `AddNewBest`, `AddWithoutFork` |
| `DisconnectBlock`, one `DisconnectInputs` at a time | `DisconnectTx`, `DisconnectBlock` |
| `ConnectBlock`, one `ConnectInputs` at a time | `ConnectTx`, `ConnectBlock`, `ConnectFails` |
| `ReadFromDisk` that throws, or reads a null block | `ReadFails`, `ReadNullBlock` |
| `WriteHashBestChain`, `TxnCommit`, `pnext`, `pindexBest` | `Commit` |
| the deletion of a failed branch | `EraseBlockFromDisk`, `EraseBlockIndex` |
| `LoadBlockIndex` (`main.cpp` and `db.cpp`) with its repair | `Restart`, then the actions above |
| kill, power loss | `Crash` |

`db` is the committed database, `txn` what the open transaction sees. The
variables `at`, `cur`, `done` say how far the handler is: the view in `txn` is the
chain up to `at` plus the first `done` transactions of its child `cur`.
A direct extension of the best block (`AddToBlockIndex`) and a reorganization
(`Reorganize`) go through the same steps, with no block to disconnect in the first
case, as in the code.

Abstractions:

* hashes are the blocks and transactions themselves; scripts are valid or not;
  time, `nBits`, finality (rules v3), sizes and signature operations decide
  membership of `CheckOk`, `StrictOk` and `ContextOk`;
* `StrictOk` is what a later build's `CheckBlock` lets through: after a restart
  the node may run either build, and never goes back;
* relative locks (BIP68) count blocks, not time; outputs are natural numbers;
* an entry that was deleted is memory that may hold anything: following a pointer
  to it is modelled as the end of the process (`FollowFreedEntry`), and the walk of
  `GetMedianTimePast` is taken to reach any depth, not eleven blocks;
* one block file; a power loss loses the bytes of any set of blocks no `fsync`
  covered, and never brings back what `EraseBlockFromDisk` overwrote;
* a transaction that has both an input that cannot be read and one that is
  invalid fails on either, since the order of its inputs is not kept;
* `GetPeerMedianHeight()` is a constant (`NetHeight`);
* what a commit does to the memory pool is in `Mempool`; to the wallet, not modelled.

What a valid chain is, `Chain` says a second time and without the code's means: `Reference` spends the
transactions of each block in turn over the coins of its parent, and knows nothing of the
transaction index, of `DisconnectBlock` or of what was tried before. `BestIsLongestValid`
compares the node with it.

### MCChain

Three trees. `Fork`: two branches that spend the same coinbase, a transaction on
both, a double spend with a block on top, an immature and a locked spend, a
coinbase that takes too much. `Broken`: a good branch one block of which a later
build refuses, and an invalid block with two children that have a child each.
`Own`: a block that spends its own coinbase.

### Ledger, and how Chain implements it

`Ledger` has one variable, the block the line ends in. A step replaces the line by a
higher one on which every coin is spent once, by a later transaction, at an age its
locks allow (`Extend`), or steps back along it (`Rewind`, the repair at start). It
knows no index, no branches, no crashes, and states validity over the blocks of the
line and not over a transaction index. `Chain` instantiates it with `tip <- db.best`,
the committed `hashBestChain`, and `ImplementsLedger` says that every behaviour of
the node is one of the ledger: a reorganization, however many steps and crashes it
takes, is one `Extend` or none. `OldEnough` has an exception for a coinbase that is
spent in its own block, which is what the code does (`chain_coinbase`).

### Mempool

`Mempool` extends `Chain`: every step of the chain is a step of the node
(`ChainStep`), and the pool reacts to it (`PoolFollows`). The code's locks justify
the grain: `cs_main` is held by a whole `ProcessBlock` and by a whole `"tx"` handler,
so neither starts inside the other, and the steps between are there only to follow
the code's loops.

| Code | Action |
| --- | --- |
| `"tx"`, `AcceptTransaction` accepted, with or without a replacement | `AcceptTx` |
| `"tx"`, missing inputs; `AddOrphanTx`, `LimitOrphanTx` | `AddOrphanTx` |
| `"tx"`, refused | `RefuseTx` |
| `"tx"`, loop over `mapOrphanTransactionsByPrev` | `TryOrphan` |
| `"tx"`, next of `vWorkQueue`, at the end `EraseOrphanTx` | `NextTx` |
| `Reorganize`/`AddToBlockIndex` have committed: `vResurrect`, `vDelete` | `Reorganized` |
| `AcceptTransaction(txdb, false)` of each of `vResurrect` | `Resurrect` |
| `RemoveFromMemoryPool` of each of `vDelete` | `TakeOut` |
| the end of the process | `PoolLost` |
| `BitcoinMiner` and the pool server: the passes over the pool | `Template`, a function of the state |

Abstractions:

* `Standard` is what `CheckTransaction`, `IsStandard` and the limit on signature
  operations let through; `Size`, `RelayFee` and `MinFee` are constants, so the fee
  rules keep their comparisons and lose only the sizes' arithmetic;
* whatever makes `ConnectInputs` fail makes an orphan, as in the code, where
  `pfMissingInputs` does not tell the reasons apart;
* the victim of `LimitOrphanTx` is any orphan (the code picks by a random hash);
* the order of `mapOrphanTransactionsByPrev`, and that between equal fee rates, is
  any order;
* the wallet's own transactions reach the pool as any other does; what the wallet
  does when they leave it is not modelled.

### MCMempool

Five blocks: on one parent a branch of one block that confirms a spend and its
child, and a branch of two that confirms another. Seven transactions besides the
coinbases: spends that conflict in one input or two, with fees and sizes that make
some of them sufficient replacements and others only better per byte, children in
the pool, and a child with a relative lock. `TemplateConnects` builds the block in
every order the code may take and replays it with `Chain`'s reference.

### Swap

The swap engine (`btfchatswap.cpp`) runs a round every twenty seconds: it reads the
steps of the other side, copies each swap, lets `Tick` work on the copy with calls of
the wallet, and merges the copy back. `Swap` has two engines. The contract of each
side is on a chain of one of three kinds: Bitflash; another coin with its own node,
whose memory pool counts as spent; or the light client, which sees blocks only.

| Code | Action |
| --- | --- |
| `Round`, the copy, and `Tick` up to its last call of the wallet before `TryRefund` | `TickInviting` ... `TickRedeeming`, one per stage |
| `TryRefund`; the part after a refund that failed | `TryRefund`, `RefundFailed` |
| `Round`, the merge | `Store`, with `Merge` |
| `ReadSteps` and `OnStep`, one step | `ReadStep` |
| `Take`, `Approve`, `Cancel` from the screen | `Take`, `Approve`, `Cancel` |
| the other wallet pays the contract, right or wrong amount | `Pay` |
| blocks with a funding or a spend | `ConfirmFunding`, `ConfirmSpend` |
| the end of the process, its restart | `Crash`, `Start` |
| a side that does not run this program | `Rogue` |
| half a day passes | `Advance` |

The record of a side keeps of `ChatSwap` what decides: the stage, `fUserOk`,
`fInvited`, `fSentLock`, which of the contract, transaction and secret fields are
filled, and the times. `con` is a contract as the blocks have it, `pend` the spends
of it that wait for a block: both sides' may wait, and either may win.

Abstractions:

* a wallet that does not answer is an application that is closed (`Crash`, `away`),
  except at a lock, where the refusal takes the approval back (`LockOurs`);
* the record is what is on disk: after a change nothing leaves the program before
  the save, so a crash in between is a crash before the change;
* confirmations are one step (`open`: enough of them) and blocks are not undone;
* a look at the other side's unconfirmed spend may miss it, or, on a node without
  `gettxspendingprevout`, see that the output is gone and not where to;
* a second lock after a crash takes the place of the first, which only `swaps.log`
  knows;
* a round takes seconds, so no half day passes before each engine that runs has seen
  the world as it is (`look`, `Settled`); this also keeps the state space small, since
  a round that would change nothing is not taken twice;
* a redeem that was sent in time is in a block before the lock it races with opens,
  the assumption `btfchatswap.h` makes of its six hours; a funding confirms
  within the day after the lock that `TryRefund` waits, or never;
* time is one clock, in half days, for both chains and both sides: the locks differ in
  length, the clocks do not drift apart;
* DigiByte's refund, which waits for its block (`refundSince`), is not modelled.

Assumption on the constants (`TimeAssumption`). The minimum a maker wants left before
it shows the secret and the taker's lock are not zero, and nobody is away for longer
than `nTakerMinLeft - TAKER_LOCK`: the taker locks last, with at least `nTakerMinLeft`
left on the maker's contract, and must find the secret in its own contract, which the
maker may take until `TAKER_LOCK` has passed, before the maker's runs out. With the code's
36 and 24 hours this is twelve hours. `btfchatswap.h:31-34` speaks of "the whole 24
hours between the two expiries"; those are what is left when both lock at once, and the
taker's wait for the maker's contract may take half of them. The bound is tight: with
an absence longer by one unit, and three mishaps instead of one, TLC finds a run of two
honest sides in which the taker locks with just `nTakerMinLeft` left, the maker redeems, ends before the
save, and refunds its own contract while the taker is away.

`MCSwap`: three pairs of chains (one coin of a swap is always Bitflash) with two engines, one of
them with a rogue maker, and the two with a light client with a rogue taker. The other pairs with a rogue side
are left to the theorems of section 4, which are of every pair.

### Keys

A wallet is `mem`, what the program knows, and `file`, the SQLite store; each record
is one write, each write may be refused, and the process may end between two. One
thread at a time holds `cs_keyPool` (`job`); the restore from the window has a thread
of its own that takes the lock at its two ends only (`rst`), so a change key can be
derived in the middle of it.

| Code | Action |
| --- | --- |
| `GetKeyFromPool`: refill, then the oldest key | `GetKeyFromPool`, `TopUpKeyPool`, `TakeFromPool`, `Give` |
| `TopUpKeyPool`: derive, count, or a random key; `WritePool` | `DeriveNext`, `RereadCounter`, `AdvanceCounter`, `RandomKey`, `WritePool` |
| an empty pool | `GenerateNewKey` |
| `CreateTransaction`, the change key | `DeriveNextHDChangeKey` |
| `CmdNewPhrase`, `SetHDSeedFromMnemonic`, write by write | `NewPhrase`, `ClearKeyPoolRecords`, `WriteSeed`, `AddDefaultKey`, `SetDefaultKey` |
| `RestoreFromPhrase`: batches on three branches, scan, end | `RestoreFromPhrase`, `RestoreKey`, `RestoreCount`, `RestoreWriteNext`, `RestoreLegacyKey`, `RestoreScan`, `RestoreFinish` |
| `EncryptWallet`: the new file, the two renames | `EncryptWallet`, `InstallEncrypted` |
| `BackupWallet` | `BackupWallet` |
| start: load, locked or not; a file without its default key is refused | `LoadWallet` |
| no file: a new wallet, its default key's record perhaps refused; a creation that fails or is cut off | `CreateNewWallet`, `CreationFails` |
| the end of the process, the loss of the machine | `Crash`, `Lose` |

A key is known by where it comes from: a branch, a phrase and an index, or a number
for a random one. `handed`, `out`, `paid`, `bak` and the others after them are what
the world knows of the wallet and the wallet does not keep; but for the coins on the
chain that a scan finds (`paid`), nothing the wallet does depends on them.

Abstractions: passphrases and ciphers (locked or not); a wallet made before schemas
is a start of its own; the scan finds exactly the coins of the keys in `mapKeys`;
drawing from the pool is not mixed with a restore (deriving change is), to keep the
number of states down. `CreateNewWallet` makes the file, its first key and its name in
one step, with the end of the process in between in `CreationFails`. While the wallet is locked `AddKey` refuses,
so a restore into it derives nothing (`StoreKey`, `RestoreLegacyKey`).

What the code does that the properties leave aside, met while they were stated and
checked. The ghost `blame` marks the runs in which one of
those that touch `HandedOnce` or `RestoreEnds` has happened:

* `AddKey` refuses a key whose record is there, and the loop of the restore then
  leaves the counter of that branch where it is (`walletcmd.cpp:207`): restoring a
  phrase into a wallet that has its keys never reaches `RESTORE_MIN_SCAN`, and, where
  no branch moves, not `RESTORE_MAX` either: it scans until it is stopped. The repository's `README.md:239`
  says that it stops "when a whole batch turns up nothing". `RestoreEnds` is for a wallet without the phrase's keys. A change
  key derived meanwhile can have the same effect, and can also be one that was given
  out before: the counters are behind what the search has not found yet ("during").
* Restored, spent from and restored again, a wallet misses the change of the spend
  (`keys_again`).
* `CreateNewSQLiteWallet` "cleans up on failure so a broken half-initialised wallet.sqlite is never left
  for the next start to load" (`db.cpp:1683-1684`), but the result of `WriteDefaultKey` is dropped
  (`db.cpp:1054`): a new wallet without that record works until the process ends, and
  the next start refuses its file (`LoadWallet`). A process that ends before that write leaves the same file.
* `EncryptWallet` builds its new pool from `nHDNext`, the counter of the old schema,
  on a BIP44 wallet too (`db.cpp:2636`), and may offer keys that were given out.
* A refused `WriteKey` leaves the key in `mapKeys`, and `AddKeyIfMissing` later takes
  it for stored; a refused `ErasePool` (`main.cpp:1050`) is not looked at, and
  after a restart the same key is drawn again.
* "Nothing was changed." (`gui.cpp:1235`) is also shown after a `SetHDSeedFromMnemonic`
  that failed half way.
* A process that ends between the two renames of `EncryptWalletPersistSQLite`
  (`db.cpp:2424`, `db.cpp:2436`) finds no wallet at the next start and makes a new
  one; the old and the encrypted file are both there under other names.
* `-newphrase` on a locked encrypted wallet, and a restore into one, last only until
  the next unlock, which brings back the encrypted seed.
* The last write of a counter in a restore may be refused (`walletcmd.cpp:215`,
  `walletcmd.cpp:227`: the result is not looked at) and after a restart the counter
  stands at keys that were given out before ("behind").

`MCKeys`: every order of three draws, a phrase and a backup with one refused write
and one crash; encryption of a wallet with and without a phrase with two crashes;
phrases with keys given out on both branches, two of them paid, then the machine
lost and the phrase restored, with a crash, a refused write, change keys on the way
or a second loss.

### ShareChain and P2Pool

`ShareChain` is `p2pool_chain.cpp`: a chain is a value (`held`, `tip`, `cut`), and each
method an operator. `P2Pool` gives one to each node. `P2PoolProcessMessage` and a
miner's submit run under `cs_main` and are one step each; what interleaves is nodes,
messages, connections, clocks, and jobs that the tip has left behind.

| Code | Definition |
| --- | --- |
| `AddInContext`, up to the first refusal; after it | `Refusal`; `Add`, with `Heavier`, `Prune`, `Evict` |
| `AddTrusted`, `AddHistory`, `History` | `AddTrusted`, `AddHistory`, `History` |
| `NextShareBits`, `NextShareMinTime`, `WindowFor`, the uncle rules | the same names |
| `"p2pshare"`: `AcceptShare` and its queue, `MakeOrphanRoom`, `RelayShare` | `OnShare`, with `AcceptShare`, `Accepted`, `Waits` |
| `"p2pgetsh"`, `"p2psync"`, `"p2pshares"` | `OnGetShares`, `OnSync`, `OnHistory` |
| `P2PoolOnVersion`, `AskHistory` | `Connect` |
| `P2PoolCoinbase`, a template; `P2PoolSubmitShare`, a share found for it | actions of these names |
| `MaybeSaveShares`, `WriteShares`; `LoadShares` | `MaybeSave`; `Restart` |
| a connection ends, time passes | `Disconnect`, `Tick` |

Abstractions:

* a target and a median are known by the shares they were computed from, and what a
  coinbase pays by the shares it credits: a node that reads other shares comes to
  another result, which is the hazard; the arithmetic is left out, and so are
  the comparisons of targets that decide whether an orphan is worth keeping
  (`p2pool_net.cpp:373`, `p2pool_net.cpp:443`);
* all shares weigh 1, so work is counted in shares and uncles;
* ids are numbers in the order of mining; a template's uncles are any that fit, as
  the code takes them in the order of their hashes. Ties of `Evict` and of
  `MakeOrphanRoom` go to the lowest id and to the first that came;
* work is always real: the caches of shares whose work was checked or was
  bad (`OrphanSeen`, `OrphanBadWork`) only save hashing;
* messages arrive in order on a connection and are lost with it; queues that are too
  full to send, sizes in bytes and hints about peers are left out;
* clocks are one clock in ticks: `SYNC_ANSWER_WINDOW`, `ORPHAN_EXPIRY` and
  `TIP_MAX_AGE` keep their order, and shares from the future do not occur;
* whether two minutes have passed since the last save is any answer; a process that
  ends in `WriteShares` between the remove and the rename has no file;
* of the jobs sent, the newest `MAX_RECENT_JOBS` are answered, and a template is made again
  when it is another one, not every minute; the tip of the block chain, which makes
  jobs stale too, does not move.

What the code does beside the properties:

* An uncle below the height from which a history is checked in full is held on
  trust. The share just above the boundary that names it is refused as `here:`
  (`p2pool_chain.cpp:121`), and this ends the history: a starting node gets no tip from
  it until it asks again.
* `AddHistory` neither tries the orphans that waited on its shares nor passes its
  shares on, and how old the tip is is looked at only when a share is added: two
  nodes converge with the next share that is mined, not at once.
* On a tie the line seen first stays, so two nodes with the same shares may mine
  on different tips of the same work; `Converge` speaks of work.

`MCP2Pool`: networks of two and three nodes in nine kinds of plans. Nodes that mine
on the same shares, one that is ahead, a connection that is cut; a line longer than a history
that a node syncs from nothing, from its beginning or from a history cut off; lines that
forked or never met; a node whose room is full.

## 3. Runs

| Run | Expect | Question |
| --- | --- | --- |
| `chain_fork` | pass | In every order of arrival, does the node end on the longest valid chain it has, with the index of that chain, and does every handler return? |
| `chain_crash` | pass | With a kill or a power loss at every step, is the committed index that of the committed chain, and does a node that has caught up start again? |
| `chain_repair` | violation | Does a node that fell back to the last good block stay off the bad one? It does not. |
| `chain_freed` | violation | Is the rest of an invalid branch deleted? Another child of a deleted block is left behind with a freed `pprev`. |
| `chain_coinbase` | violation | Are mined coins spent only after `COINBASE_MATURITY` blocks? A block may spend its own coinbase. |
| `pool` | pass | Through replacement, orphans, reorganizations and a crash, are the pool's maps consistent, is nothing confirmed left in it, and does the block a miner builds connect? |
| `pool_conflict` | violation | Do two transactions of the pool ever spend the same output? After a reorganization they do. |
| `swap` | pass | Whatever is pressed in the middle of rounds, refused, crashed or raced, is nobody's coin taken for nothing, does what is called off stay so, does a cancelled swap hold nothing, and does every coin in a contract the engine knows of come back or get paid for, with nobody looking? |
| `keys` | pass | Through crashes, refused writes, encryption and restores, is every key on offer stored and given out once, do the phrase and the backup cover what they promise, and does a restore into a wallet without the phrase's keys end, with nothing missed that its stop rule covers? |
| `keys_again` | violation | Does a second restore find what was spent after the first? It misses the change at the very index where the first stopped. |
| `p2pool` | pass | With shares in any order, histories, pruning and restarts, is no honest node blamed, does nothing taken on trust reach the tip, can the tip's window be paid, and do nodes agree? |
| `swap_race` | violation | Does a swap that is done have the other coin? Not for a taker whose coin is taken between its look for the secret and its refund. |

Properties of the passing runs of `Chain`: `TxIndexMatchesChain` (the committed transaction
index is the one of the committed chain), `NoDoubleSpend`, `InputsOldEnough`
(maturity and relative locks along the chain, through reorganizations),
`SupplyBound` (coins never exceed subsidies), `MainChainLinks` (`IsInMainChain`, in
memory and on disk), `DisconnectSucceeds` (no error return of `DisconnectInputs` is
reachable), `OrphansLackParents`, `BestIsLongestValid` (against the reference;
nothing valid is deleted), `Restartable` (the promise of the comment in
`WriteToDisk`), `HandlerReturns`, and `ImplementsLedger`, the refinement of `Ledger`.

Bounds. `Fork` has thirteen blocks and two branches deep enough for a
reorganization of two blocks in both directions, a failed one, and one onto a
branch with orphans; the orphan limit is 2, below the number of orphans that can
arrive; maturity 2 and halving at height 4 fall inside the tree. `Broken` with one
crash: a second crash meets only disks a first one can leave. `MAX_ORPHAN_BLOCKS`
is 0 there, since the orphans are the other run's question.

Properties of `pool`: `PoolTypeOK`; `NextTxAlive` (`mapNextTx` holds no dangling
pointer, though `RemoveFromMemoryPool` erases entries that belong to others);
`PoolNotConfirmed` (between handlers no transaction of the pool is in the chain);
`TemplateConnects` (whatever the pool holds, conflicts included, the block built from
it would connect); `ReplacementPays` (what leaves the pool leaves for a block, with
the process, or for one transaction that pays more than all it drops together).
`TemplateConnects` matters because of `pool_conflict`: `RemoveFromMemoryPool` of a
confirmed transaction erases the `mapNextTx` entries of a conflicting one that stays
in the pool, so when a reorganization puts the confirmed one back, both wait there.
The miner's `mapTestPool` is what keeps such a pair out of one block.

Bounds of `pool`: five blocks and seven transactions, a pool limit of 3 and an
orphan limit of 1, both below what can arrive, a block that holds fewer
transactions than the pool, one crash.

Properties of `swap`: `SwapTypeOK`; `NoLoss` (a side that runs this program never has
its coin redeemed while the other contract is refunded, or is not the one agreed on;
for the taker, if the maker runs it too); `CancelledHoldsNothing` (a cancelled swap
has no open contract that the record names, though `Cancel` may come at any moment of
a round that is making one); `CalledOffStays` (an action property: final stages are
final, and a swap called off goes on only to the refund or, if its coin was taken, to
the redeem); `PaidOrBack` (liveness: there is a time when nothing of a side that runs the program is outstanding in a
contract its record names). This last rests on `TryRefund` and on
everything that leads there: with a rogue taker, late payments, wrong amounts, crashes.

`swap_race`. `TryRefund` concludes from a spend with the secret that the swap is done.
For the maker that is right. The taker's round looks for the secret, finds none,
and calls the wallet for the refund; a maker who redeems in between, when
the taker's lock has just run out, makes the refund fail, and the second look, which
finds the secret, ends the taker's swap as `SW_DONE` without keeping it.

Bounds of the swap runs. The unit is half a day: locks of 4 and 2, the taker's minimum
3, waiting 1 are the code's 48, 24, 36 and 12 hours; the maker's minimum
of six hours and the hour before a fee bump are rounded up to 1, and
`nAnswerWithin`, which ends a swap before anything is locked, is cut to 0. One mishap (an
end of the process, with up to half a day of absence, or a refused lock) in all. The horizon of 8
is past the maker's lock and the day after it, so that every way a swap
can end is seen. Deadlock is not checked: a swap that has ended stops.

Properties of `keys`: `KeysTypeOK`; `OfferedStored` (a key on offer or given out is in a
file); `HandedOnce`; `PhraseCovers` (with a seed, every key given out derives from it);
`BackupCovers` (the keys in the pool at a backup are the next to be drawn);
`RestoreFinds` (the first coin a restore misses on a branch is `RESTORE_MIN_SCAN` deep or
more and behind `RESTORE_QUIET_BATCHES` batches without coins, with three limits that section 4
names) and `RestoreEnds` (liveness, of a wallet without the phrase's keys). `RestoreFinds` says what the stop
rule gives and no more; it is not what the code says the rule is for, and the next run shows the difference.

`keys_again`. The comment on `RESTORE_MIN_SCAN` (`walletcmd.cpp:34-38`) says: "Change starts
from wherever that restore stopped, so the next real change output can be just beyond the old
quiet window. The default restore has to look far enough for that ordinary "restore, then spend,
then restore again" path". With the code's constants a restore whose coins are in the early
batches ends with `nHDChangeNext` at 500, which is `RESTORE_MIN_SCAN`; the change of the next
spend goes to index 500; the second restore derives 0 to 499 and stops. `MCAgain` keeps, as a history
variable, the index at which each undisturbed restore stopped, and `RestoreAgainFinds`
asks that a coin there be found by the next.

Bounds of `keys`: a pool of 2, batches of 1 and two quiet batches, so that
`RESTORE_MIN_SCAN` is 5 and keys with coins lie at the first index, at the end
of a batch and behind a gap; `RESTORE_MAX` is far beyond what ends a restore. What is
asked comes in the order of a plan, and what happens in between in any order.

Properties of `p2pool`: `P2PoolTypeOK`; `HonestNotBlamed` (no `Misbehaving` between nodes that
run this program, and no share of one's own refused for a fault); `TrustStaysBelow`; `TemplatePays` (the window
on the tip is here and credits no share twice); `BestHeld` (no line that meets the tip's
and was checked in full has more work); `Converge` (connected nodes end with tips of
equal work).

Bounds of `p2pool`: a window of 4 with a retarget of 3, a median of 3, uncles 2 deep and one to a share,
so that a history (11 shares) is shorter than the longest line (15) and is sent in
parts of 6; room for 18 shares, which the bushy plan fills; 4 orphans, of which 3 are a
backlog; the 2 most recent jobs instead of 8, so that a share may be found for a job two tips old. `SLACK` is 0 and `PRUNE_SLACK` 1 instead of 10 and 10, the hardest values. Up to four shares are
mined in a plan, enough for two lines to overtake each other and for shares
to wait on shares that wait. Deadlock is not checked: a plan ends.

Restarts may fail for good after a power loss during the initial download
(`Restart` needs the tail to be readable): `chain_crash` therefore does not check
for deadlock.

Fairness. `WF(HandlerStep)`: the thread that runs `ProcessBlock` goes on. Nothing is
assumed of peers, crashes or restarts. In `Swap`, `WF(GoesOn)`: while a thread of an
engine can go on (`ThreadChatSwaps` loops until shutdown), an application that ended
can be started, a spend can find its block or time can pass, one of these happens.
One weak fairness over all is enough, since time passes only when each engine that
runs has done its round. Nothing is assumed of the people, of payments, of the
confirmation of a funding or of a rogue side. In `Keys`, `WF(HolderStep)` and
`WF(RestoreStep)`: neither the thread that holds `cs_keyPool` nor the restore's stops
while the process runs. `P2Pool` states safety only and assumes none.

## 4. Proofs

Every theorem below is `Spec => []P` (or `Spec => P` for an action property) of a module's
whole specification, for every value of its constants that satisfies the named
assumptions, with every crash, refusal and interleaving of the model in it; two theorems
of `Chain` are of a process that keeps running, and their paragraphs say why. The invariants the
proofs need were first checked with TLC on the runs' instances.

The proofs are laid out alike. One lemma per action says what the action does to the parts
of the state the invariants speak of (`...Effect`, `...Facts`): it expands the action once, and
the invariants' proofs cite it. Then one lemma per invariant says that a step keeps it,
with a step per action or per kind of action; then the start; then the theorem.

### Chain

| Theorem | Property | Invariant |
| --- | --- | --- |
| `TypeCorrect` | `TypeOK` | `IndInv` |
| `TxIndexCorrect` | `TxIndexMatchesChain` | `IndInv` |
| `NoDoubleSpendCorrect` | `NoDoubleSpend` | `IndInv` |
| `DisconnectCorrect` | `DisconnectSucceeds` | `IndInv` |
| `InputsOldEnoughCorrect` | `InputsOldEnough` | `IndInv` |
| `Refinement` | `ImplementsLedger` | `IndInv` |
| `MainChainLinksCorrect` | `MainChainLinks` | `IndInv`, `LinksInv` |
| `OrphansLackParentsCorrect` | `OrphansLackParents` | `IndInv`, `OrphansInv` |
| `SupplyBoundCorrect` | `SupplyBound` | `IndInv`, `MintInv` |
| `BestIsLongestValidCorrect` | `BestIsLongestValid` | `IndInv`, `LongestInv` |
| `RestartableCorrect` (`RestartProofs`) | `Restartable` | `IndInv`, `LinksInv`, `RestartInv` |

`IndInv`. `TxIndexMatchesChain` is not inductive: `Commit` replaces the
committed index by the open transaction's. `IndInv` therefore says of both that they
are views (`View`) of a position in the tree: each transaction of the chain up to
`at`, and of the first `done` of `cur`, has an entry naming its block (`PosOK`);
an outpoint is marked spent by exactly the transaction with an entry that spends it
(`SpentOK`); every input's transaction comes earlier, at the age the locks ask for, and each
transaction pays what it may (`OrderOK`): the order is what makes
the reverse order of `DisconnectBlock` right, the rest is what `InputsOldEnough` and
`Refinement` take from it; the blocks on the way are well
formed (`Position`); and a reorganization ends on a higher block or, in the repair at start, on
one of the chain (`JobOK`). `ViewConnectTx` and `ViewDisconnectTx` show that one
`ConnectInputs` and one `DisconnectInputs` move a view by one transaction, the
second without any check; `ViewConnected` and `ViewToDisconnect` that a view of a
whole block is a view of the chain with it. `ViewConnectTx` needs that a
transaction is not connected twice on one chain: by BIP30 and BIP34 under rules
v2, and before them by the assumption `LegacyCoinbases` about the history.

`Refinement`. `db.best` changes in `Commit` alone. `JobOK` says where it goes to, `IndInv`
that the new line is valid in the ledger's terms (`ViewIsValidLine`: a view of a
whole chain spends each coin once, after it was made, at its age); every other step stutters.

`LinksInv`. In memory `pnext` is the next block of the best chain and null off it; on disk
the record of each block has the same; but inside an open transaction the records link the
chain up to the block the handler has got to (`LinkedTo`), while `pnext` still links the old
one. `Commit` relinks memory along both branches, which are what lies above
their fork: for that a chain has one block at each height (`LineUnique`) and a step
down it reaches each (`LinksDown`).

`OrphansInv`. An orphan whose parent has an entry is a child of a block in the work queue, or
of the one the handler is at. The theorem is of a process that keeps running
(`Spec /\ [](pc # "down") => []OrphansLackParents`): after a restart on an index that
lost blocks, a new block can end a handler that throws (`ReadFails`) with its entry made and its
orphans not looked at. TLC checks the property on `chain_fork`, where the process does not end.

`MintInv`. The bound of the committed chain alone is not inductive, for a reorganization goes back to
blocks and sets out again from them. But the coins a chain leaves are a matter of its blocks
(`LineCoins`, which by `IndInv` is what the index says of a view, `ViewCoins`), so the bound is kept for each block of the
best chain and of the line the handler is on, where both directions move. In the middle of a
block it is `JobBounded`: the coins of the open transaction, with the fees counted so
far, are at most the subsidies below and what the first transaction made. So the block's last check
(the coinbase against `GetBlockValue` and the fees) closes the books on the new block. A connected
transaction moves its inputs' coins out, its outputs' in, and the difference to `nFees`
(`ConnectCoins`); the coinbase's own outputs need not be spendable for this, as under the
old rules a repeated coinbase makes coins that were there before.

`LongestInv`. For each block of the best chain and of the line the handler is on, what the index says
of a view of it is what the reference leaves there: the same coins, each made at the same height
(`LineMatches`), and in the middle of a block the coins and the fees of the transactions
spent so far (`JobMatches`). With that, a transaction connects exactly when the reference spends it (`ConnectIsSpend`). The reference
asks for more than the code: under the old rules `ConnectBlock` does not look for an unspent
transaction of the same hash, so the two
agree only since no transaction is connected twice on a chain (`NotTwice`, from the same
rules and assumption as `ViewConnectTx`). So `ConnectBlock` fails for invalid blocks and no others, as long
as every block can be read (`NothingLost`); an
invalid block makes every chain through it invalid (`SpoiledLine`), and what `Reorganize` then deletes is
of such chains. Of the blocks with an entry, none but those the handler is about to connect
can be valid and higher than the best block. The theorem too is of a process that keeps running: a
start that repairs, or that finds an index whose blocks were lost, has entries above its best block that it
does not try, and `AddToBlockIndex` compares with the best block only the block it adds. TLC checks the property on
`chain_fork`.

`RestartInv`. A crash may take every block that was written without an fsync, and blocks are
written so while the best chain is at most at `NetHeight - 3`. That the lost ones lie below what the
next start verifies rests on how the best chain passes that height: by one block, which is
written with an fsync, and this fsync takes the dirty ones with it
(`ChainOnDisk`). It could pass it otherwise only by a reorganization onto a longer
branch already in the index, and there is none to be had while nothing was repaired: an
entry or a record above the best block, and not on its way to be it, is `Barred` (`EntriesLow`,
`RecordsLow`). The walk down from it ends in a hollow or a freed entry, or what it would take off
or put on needs a block that is lost. So each reorganization that gets as far as
`Commit` has read its branches (`BranchRead`), and what it made the best chain is on disk.
A repair takes the best chain down and leaves entries above it, which is why `Restartable` speaks of a
node that was not repaired.

### Mempool

| Theorem | Property | Invariant |
| --- | --- | --- |
| `NodeInvariance` | | `IndInv`, `PoolInv` |
| `PoolTypeCorrect` | `PoolTypeOK` | `PoolTypeOK` |
| `NextTxAliveCorrect` | `NextTxAlive` | itself, with the types |
| `PoolNotConfirmedCorrect` | `PoolNotConfirmed` | `IndInv`, `PoolInv` |
| `ReplacementPaysCorrect` | `ReplacementPays` | `IndInv`, `PoolInv` |

`PoolNotConfirmed` speaks of the time between handlers; in between,
`Reorganize` has committed and `vResurrect` and `vDelete` are being worked off.
`PoolInv` says what is true at every step: a transaction of the pool, or still to be
put back, that is in the committed chain is still to be taken out. It rests on the
`IndInv` of `Chain`: a step of the chain maps to `Spec`'s, so `IndInv` carries over
(`NodeInvariance`); the committed index changes only with the best block, in
`Commit`; the index of the new chain differs from that of the old one by the
transactions of `Anc[new] \ Anc[best]`, which are those of `gone`. What takes a
transaction in checks the index (`Accepts`), except `Resurrect`, which is why `back`
is in the invariant.

`ReplacementPays` is an action property: every action but those of a transaction's arrival
leaves the pool alone, takes out what is in `gone` or ends the process, and what `Accepts` drops is
what `ReplacementPaysEnough` compares with. "More" is strict because the relay fee is
at least one unit for any size (`FeeForSize` rounds up, `main.h:416`), which is the assumption on `RelayFee`.

### Swap

| Theorem | Property | Invariants |
| --- | --- | --- |
| `SwapTypesCorrect` | `SwapTypeOK` | itself |
| `CalledOffStaysCorrect` | `CalledOffStays` | `SideInv` |
| `CancelledHoldsNothingCorrect` | `CancelledHoldsNothing` | `SideInv`, `HeldInv` |
| `NoLossCorrect` | `NoLoss` | all the others |

Every step of a round is one of nine kinds (`RoundKinds`): early, fund, payment, watch,
redeem, look, refund, no refund, refund failed. A kind says what becomes of the copy, of the
steps sent and of the contracts, and no more; `TickEffect` proves that each action of `Tick` is of one
of them, once, and every later proof splits on the kinds. `ConStep` does the same for the
contract of a side: what may change it, whoever acts.

* `SideInv` relates the copy a round works on to the record it was taken from: a round that
  runs goes only forward from the stage it started in (`Later`), while the record stays what it was
  or is called off, and it can be called off only while nothing was approved or while a payment is
  awaited. With it `Merge` keeps what was called off (`CalledOffStays`).
* `HeldInv`: a record *or a copy* that is cancelled and names a contract has one that is not
  open and whose day after the lock has passed, so that no block opens it any more. The copy is needed
  since `Cancel` may come in the middle of the round that decides it.
* `RefundInv`: a refund waits for a block, or is in one, only past the lock.
* `ToldInv`: the step `lock1` or `lock2` is sent by an engine that has a contract
  and is past `WAIT_PAYMENT` for good, so it does not lock again.
* `ExposedInv`: a redeem in a block or on its way has shown the secret.
* `MakerInv` is the maker's side of `NoLoss`, whatever the taker does: once the secret is
  out, the taker's contract is the good one and either redeemed, or open with the maker's
  redeem alone waiting, before its lock runs out (`Sure`). `CheckTheirs` in the round that first redeems is what makes
  it so, and `Advance` (a redeem sent in time is in a block before the lock) what keeps it.
* `TakerInv` is the taker's side, of two honest sides. The taker locks only for a good
  contract that is open and locked for long enough (`LockedOK`, from
  `nTakerMinLeft` and `TimeAssumption`). From the moment the secret is out until the
  maker's coin is `Taken`, less time has passed than its lock and its absence
  (`Hurry`); so the maker could not refund yet (`ShownEarly`). `Hurry` holds over a step of time
  because a running engine has just looked: if its own contract is redeemed and it is calm, it is
  past `LOCKED` and `REDEEMING` only with the redeem sent (`LookOK`). And its swap does not end, nor turn to
  the refund, before the coin is `Taken`, unless the secret can no longer be shown
  (`EndedOK`). A round that goes as far as the refund finds the secret unshown and too late to be
  shown (`TriesOK`): the race of `swap_race`, in which the refund fails because the maker has just
  redeemed, takes a maker who redeems when the taker's lock has run out, as a rogue one may.

### Keys

| Theorem | Property | Invariants |
| --- | --- | --- |
| `TypesCorrect` | `KeysTypeOK` | `TypeInv` |
| `OfferedStoredCorrect` | `OfferedStored` | `TypeInv`, `StoredInv` |
| `PhraseCoversCorrect` | `PhraseCovers` | the first two, and `PhraseInv` |
| `BackupCoversCorrect` | `BackupCovers` | the first two, and `BackupInv` |
| `HandedOnceCorrect` (`OnceProofs`) | `HandedOnce` | the first two, and `OnceInv` |
| `RestoreFindsCorrect` (`SearchProofs`) | `RestoreFinds` | the first two, `KeysKnown` and `SearchInv` |

For every plan: any order of requests, any number of refused writes and ends of the process,
any number of phrases.

* `TypeInv` says where the two threads may be at the same time: a restore holds
  `cs_keyPool` at its two ends only, and a holder that works for it ends with it.
* `StoredInv` says at each step where the key in hand is: `TopUpKeyPool` writes a key before its pool
  record and both before it is given out; between the two renames of `EncryptWallet`
  the keys are in the spare file or in the one moved aside.
* `PhraseInv`: memory and file agree on the seed but for the very records of a seed that are
  being written (`SeedsAgree`), the pool is empty from one seed to the next
  (`PoolCovered`: `ClearKeyPoolRecords` comes first), and the key in hand is of the seed
  (`HandCovered`). A refused write ends the promise, and so does a phrase over an encrypted one ("relabel").
* `BackupInv`: as long as a backup must cover `left` draws there is an index `t` such that the pool, in
  memory and on disk, has `left` records up to `t`, each of a key of the backup or one whose write was
  refused, and every new record goes behind `t`. A refused `ErasePool` leaves the record on disk, which is
  why the count is of the indices that memory and file share.
* `OnceInv`, as long as `blame` is empty. A key is in one place at a time: in the pool, in the hand of the
  holder of `cs_keyPool`, or given out (`PlacesApart`). Every such key (`Taken`) is below the counter of its
  branch, in memory and in the file the next start loads (`CountersAhead`), so the key a derivation makes
  is nobody's, after a crash as well; a random key is below `made`. Three things stand in the way
  of that, and each has its part. While a restore searches, its counters start from zero and are behind the
  keys given out before; but what it has made is below them (`FoundBelow`), and `RestoreFinish`
  keeps as given out what the wallet has a key for and no more, so at its end they are past everything again. The
  records of a new seed go to the file one by one, with the counters last (`SeedWritten`): a process that ends in between loads that
  seed with old counters, and this is harmless because none of its keys is taken. And
  memory may know no seed, or another schema than the file, when the wallet is locked or a legacy batch
  is searched (`SeedsMatch`). The exceptions `HandedOnce` names are the steps that break one of these
  parts: a refused `ErasePool` (`PlacesApart`), `EncryptWallet` on a BIP44 wallet
  (its new pool starts on the receive branch at the legacy counter), a phrase over an encrypted one
  (`SeedsMatch`), and a restore that is cut off, drawn from, over keys it has (`Found`), or whose last counter was not written.
* `KeysKnown`: no key that is anywhere, or has coins, is of a phrase and random at once.
* `SearchInv`, as long as the restore is `Undisturbed`. Each branch is derived without a gap (`Derived`), and
  the chain was searched for all of it but the batch in hand (`Looked`); what was found lies below
  that, and the quiet batches, seen together on all branches, lie right before it on each
  (`BranchSearched`). A scan that finds nothing new adds the batch in hand to the silence, since a key of it with
  coins would have been found (`ScanBranch`). When the search ends each branch is `RESTORE_MIN_SCAN` deep,
  so the least key it missed on a branch is deeper, and the silence lies before it (`SilenceBefore`).
  While the phrase is installed (`NothingFound`) and while it is searched for, no other step can be taken that leaves
  the restore undisturbed (`InstallAlone`, `SearchAlone`).

`RestoreFinds` speaks of a restore that ends below `RESTORE_MAX` in a wallet that has no key of the phrase, and even
then it has three limits. `DeriveNextHDChangeKey` may move
the change counter while the restore searches, so a key is skipped. A key whose `AddKey` is refused ends its
batch with `break` (`walletcmd.cpp:211`, `:223`, `:237`), and a batch cut short counts as quiet like a whole
one: after `RESTORE_QUIET_BATCHES` of them fewer keys were looked at than the constants say. And coins of the phrase that
the wallet knew before are nothing new when a batch is searched (`mapWallet` does not grow), so that batch counts as quiet.

### Method

The provers cannot use a library theorem that takes an operator, so induction over numbers is by the
least counterexample: `LeastNat` of `NaturalSets`, which `MinIsLeast`, `GreatestNat` and
`MaxIsGreatest` extend to what `Min` and `Max` choose. Sums over sets are folds, of which the library
proves nothing: `SumExists`, `SumUnique` and `SumStep` of `NaturalSets` show, by the same least
counterexample over the size of the set, that such a sum takes one step per member, and
`SumUnion`, `SumAdd` and `SumExchange` follow from it. That a recursive function has the steps its
definition says is shown in the same way where a proof needs it, for `SpendTxs` and for
`Reference` (`SpendTxsStep`, `ReferenceStep`): the least block, by height, or the least position that no function
on what lies below could be extended to does not exist.

### Only model-checked

* Liveness: `HandlerReturns`, `PaidOrBack`, `RestoreEnds`.
* `TemplateConnects`: the block template is made by folds over the pool, in passes that end when
  nothing more fits.
* All of `P2Pool`: the lines of shares are sequences that the code filters, sorts and folds, and
  the provers know nothing of what `SelectSeq`, `SortSeq` or a fold with an operator yields.

## 5. Plan

Done: `Chain` with `Ledger`, `Mempool`, `Swap`, `Keys`, `P2Pool` and their runs; the
theorems of section 4. Left, in this order:

1. Proofs: `TrustStaysBelow` of `P2Pool`, which rests on what `Add` and `AddHistory` do to
   `held`; first their folds must be written without recursive functions.
2. `Send`: `CreateTransaction` and `CommitTransactionSpent`, and `mapWallet` through
   a failed reorganization.
3. `ChatRelay`, `BtcLight`, `Invoice`, `PoolServer`, `Net`.
4. `refundSince` of DigiByte in `Swap`; shares of different work in `ShareChain`.
5. Pure algorithms against references: retarget, `EvalScript`'s conditionals.

## 6. Not modelled

See `components` in `PROJECT.json`. Out of reach or without a protocol of their own:
the GUI, encodings, hash functions and proof-of-work algorithms, market data,
Nostr, the JSON-RPC dispatch. By lines these are most of the repository: the vendored
hash functions (`pow_vendor`, with tables of tens of thousands of lines), the vendored
`imgui`, and the self-tests hold no state a model could say anything about, and the models cover only
a small share of all lines for that reason; what they cover is where the
program's own state changes.
