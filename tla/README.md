# WayaWolfCoin: models, checks and proofs

TLA+ modules that model the node in `src/`, TLC configurations that check them
on small instances, and theorems about them that TLAPS proves for every value
of the constants. Line numbers are those of the files under `src/src/` at this
commit. `PROJECT.json` maps every definition to the lines it stands for, and
lists runs, mutants, hazards, findings and theorems.

## 1. Inventory

### Threads and locks

- **Socket thread** (`ThreadSocketHandler`, net.cpp): removes and deletes nodes,
  accepts, reads and writes sockets; a round takes about 50 ms.
- **Message thread** (`ThreadMessageHandler`): for every node in turn
  `ProcessMessages`, then `SendMessages`; sleeps 100 ms when there is nothing to do.
- **Openers** (`ThreadOpenConnections`, `ThreadOpenAddedConnections`) and the RPC
  thread, which open connections.
- **Miner** (`StakeMiner`), which calls `ProcessBlock` for its own blocks, and
  the wallet's and secure messaging's threads.

Two locks matter. `cs_main` guards the chain, the pool, the orphans and the
per-peer download state. `cs_vNodes` guards `vNodes` and, where the code takes
it, the reference counts. Neither covers a whole message: `ProcessMessage` takes
`cs_main` for its prologue, lets it go and takes it again in the branch of the
command, and `SendMessages` gives up if `TRY_LOCK(cs_main)` fails. What must
survive the process is in LevelDB, changed by one write batch per `TxnCommit`.

### Components

| Component | State | Operations | What makes it correct |
|---|---|---|---|
| Best chain, block index (main.cpp, txdb-leveldb.cpp) | `mapBlockIndex`, `pindexBest`, `pnext`, `nMoneySupply`; stored records, `hashBestChain`, `CTxIndex` | `AcceptBlock`, `SetBestChain`, `Reorganize`, `ConnectBlock`, `DisconnectBlock`, `LoadBlockIndex` | each commit is a valid chain, heavier than the last; the coin index is what that chain leaves unspent; links and money supply follow |
| Memory pool (txmempool.cpp) | `mapTx`, `mapNextTx` | `AcceptToMemoryPool`, `remove`, `removeConflicts` | nothing confirmed, no two spends of one output |
| Orphan blocks (main.cpp 2680-2830) | two maps, two sets of stakes, work queue | `ProcessBlock`, `PruneOrphanBlocks` | maps agree, area bounded, orphans released with their parent |
| Block download (main.cpp 185-345, 3385, 3645-3800, 4180-4410) | `CNodeState`, `mapBlocksToDownload`, `mapBlocksInFlight` | inv, block, stall test, request loop, `Misbehaving`, `FinalizeNode` | maps, lists and counters agree; a silent peer keeps no block |
| Nodes and connections (net.cpp, net.h) | `vNodes`, `vNodesDisconnected`, `nRefCount`, `semOutbound`, `pnodeSync` | connect, accept, serve, poll, remove, delete | no node deleted in use, no permit lost, removed nodes deleted: true until a node is handed out twice |
| Checkpoints, Velocity | derived from the chain; `VELOCITY_FACTOR` | `CheckSync`, `RollingCheckpoints`, `tx_Factor` | buried blocks stay |
| Orphan transactions, relay | `mapOrphanTransactions`, `mapAskFor`, `mapAlreadyAskedFor`, `mapRelay` | tx and inv handlers, `AskFor`, `LimitOrphanTxSize` | both orphan maps agree; what was asked for is asked again |
| Address manager (addrman.cpp) | new and tried tables, `nRefCount`, `vRandom` | `Add`, `Good`, `Attempt`, `Select` | tables, counts and positions agree |
| Stake modifier, kernel (kernel.cpp) | none of its own | `ComputeNextStakeModifier` | deterministic, no block selected twice |
| Block size limit (blocksizecalculator.cpp) | list of sizes, `sorted`, `MAX_BLOCK_SIZE`, `pblockindexFBBHLast` | `ComputeBlockSize`, `FindBlockByHeight` | the limit is a function of the best chain |
| Difficulty VRX (blockparams.cpp) | globals recomputed for each block | retarget | limits, no overflow |
| Miner, wallet, database environment, secure messaging, alerts, demi-nodes | their own maps | block creation, coin selection, key pool, flush | not modelled (section 7) |

Scripts, keys, hashes, RPC, user interface, start-up and the vendored libraries
keep no protocol state of their own and are not modelled.

### How they interact

    socket thread --- vNodes, nRefCount ------ message thread --- openers
         | FinalizeNode                              | ProcessMessage, SendMessages
         v                                           v
       download state  <-- MarkBlockAsReceived -- "block" --> ProcessBlock <-- miner
                                                     |  parent missing   |  parent indexed
                                                     v                   v
                                                orphan blocks --> AcceptBlock
                                                     work queue      | AddToBlockIndex (commit)
                                                                     v
                                         memory pool <---------- SetBestChain (commits)

### Hard behaviours

A reorganization is several commits, and the process may end or a block be
refused between two of them; state in memory and state in the database then
differ. Handlers of one message see the state change between two critical
sections. Maps hold iterators into lists that belong to peers which disconnect
at any time. A node is used by three kinds of threads whose references are
counted by an unprotected integer. Stalls, bans and removal happen in rounds of
loops that may skip a node. A request for a transaction is spaced over all peers
by a map that forgets, so a silent peer delays an honest one. The address manager
and the block size calculator keep several copies of one fact (positions,
counters, a sorted list), each updated at its own place. `PROJECT.json` lists each hazard at its line.

## 2. Modules

| Module | Role |
|---|---|
| `BlockDownload`, `MCBlockDownload`, `BlockDownload_proofs` | the block download scheduler |
| `ChainTree` | the data of the chain: blocks, branches, trust, transactions |
| `Ledger` | abstract specification: a best block with valid history and its coins |
| `ChainState`, `MCChainState`, `ChainState_proofs`, `ChainLedger_proofs` | the best chain; implements `Ledger` |
| `OrphanBlocks`, `MCOrphanBlocks`, `OrphanBlocks_proofs` | `ProcessBlock`'s holding area |
| `BlockSize`, `MCBlockSize`, `BlockSize_proofs` | the block size limit, composed with the steps of `ChainState` |
| `NetNode`, `MCNetNode`, `NetNode_proofs` | nodes, references, the semaphore, the sync node |
| `TxRelay`, `MCTxRelay`, `TxRelay_proofs` | requests for transactions, orphan transactions |
| `AddrTables` | abstract specification: each host unknown, new or tried |
| `AddrMan`, `MCAddrMan`, `AddrMan_proofs` | the address manager; implements `AddrTables` |

Definitions ending in `_Something` next to another definition are mutants: what
a plausible slip in that code would make of it. No specification uses them; each
shows that a property would notice.

### BlockDownload

Variables have the names of the code; the lists and counters are fields of
`CNodeState`. `turn` is the place of the message thread: idle, between the
prologue and the branch of a message of a peer, or between that message and
`SendMessages`. Those are the places where `cs_main` is free and another thread
can come in, and where `State()` is dereferenced unchecked afterwards. An action
is one critical section: `ReceiveMessage` (prologue), `HandleVersion`,
`HandleInv`, `HandleBlock`, `HandleOther`, `SendMessages` (ban, stall test and
request loop, in that order), `SkipSendMessages` (a `TRY_LOCK` that fails),
`FinalizeNode`, `InitializeNode`, `LocalAccept` (blocks that do not come through
the `block` message). An `inv` has one entry;
the entries of one message are independent of each other and a run of messages
has the same effect.

What NetNode shows of reference counts is taken over as two sets of peers. `Kept`
are nodes that are never deleted (`addnode onetry`, rpcnet.cpp:130, or removed
before they are marked, net.cpp:1721): `FinalizeNode` is never enabled for them.
`Shared` are nodes that were handed out a second time, whose count may be too low
(net.cpp:404): they may be finalized while the message thread works on them. The
handler then uses freed memory and takes no further step (`HandlerLost`).

Time is relative: now is 0, `Tick` makes every stamp older and a stamp stops at
`Horizon`. The tests compare differences of at most `2 * Timeout`, and `Horizon`
is larger. A tick does not pass over a stall or a silence that the loops, which
run many times in a unit of two minutes, would have acted on.

### ChainTree, Ledger, ChainState

A block tree is given by constants: parents, branches, heights, trust,
transactions. What `CheckBlock` and `AcceptBlock` test of one block has been
passed; what `ConnectBlock` tests of one block is membership of `Invalid`. A
block that repeats a transaction of its branch is one of those
(`RepeatAssumption`): a coinbase starts with its height (main.cpp:2594), and the
inputs of any other transaction are spent. What
depends on the state is modelled: inputs in the transaction index, double spends,
`DepthAllowed`, `RollingBlockKept`, `SupplyAllowed`, `CheckSync`, Velocity's
`tx_Factor` (its look-up of the inputs; the comparison of values in it is left out).

`cs_main` is held from `AcceptBlock` to the end of `SetBestChain`, so only a crash
can come between two commits. An action is the code up to the next commit:
`AcceptBlock` (block record), then `ExtendBest` or `Reorganize` (to the first
heavier block), then `ConnectSecondary` for each further block. `target` is the
block `SetBestChain` was called for and `cursor` the last one it connected.
`db...` variables are the database; `Crash` forgets the others and
`LoadBlockIndex` reads them back. A `View` is the open write batch, with the
in-memory money supply, which stays changed when the batch is aborted. What
follows `ConnectBlock` in each of the steps is an operator of that view
(`Extended`, `Switched`, `Continued`), as `BlockSize` needs it too; `Restarted`
is what a crash leaves.

`Velocity_check` reads `VELOCITY_HEIGHT[nHeight]`, past the end of a one-element
array. What it answers is a constant set of heights; the runs take `{4}` and
`{3, 4}`, and the proofs any.

`Ledger` is what the rest of the node relies on: one step replaces the best block
by a heavier one with a valid history and the coins by what that history leaves.
`ChainState` implements it with `tip <- dbBest` and `coins` the outputs that
`CTxIndex` says are unspent: every other step, and every crash, is a stutter.

### BlockSize

`ConnectBlock` calls `CheckBlock`, which compares the block with `MAX_BLOCK_SIZE`,
and then `ComputeBlockSize`, which sets it. The actions are those of `ChainState`
with these two calls before each `ConnectBlock`: `Connecting` threads a pair of a
view and a calculator through the blocks connected. The calculator keeps the list
of sizes, `sorted` and `pblockindexFBBHLast`, none of which a failed or
disconnected block takes back. `Inserted` has several results when the list is not
in order, as `lower_bound` is then undefined. `CheckBlock` also runs when a block
arrives, but an orphan is accepted later under another limit, so `SizedAcceptBlock`
takes a block of any size. A null pointer in
`FindBlockByHeight`, which a long chain of further blocks can reach, ends the
process (`Survived`). `LookUp` is `getblockhash`. `phase` is not of the code: it
tells whether only children of the best block were connected since the list was
filled, and nothing but `SteadyLimit` reads it.

### OrphanBlocks

`mapOrphanBlocks` and `mapOrphanBlocksByPrev` are separate variables, as the code
erases from them at different places. `AcceptBlock` is a choice of outcomes: the
block is indexed and accepted, refused, or (if `BestChainMayFail`) indexed and
refused because `SetBestChain` failed. `HoldOrphan` and `AcceptArrived` are the
two halves of `ProcessBlock`; `ProcessOrphan` and `NextInQueue` are the work
queue, one orphan a step so that `Restart` can come between. The random walk of
`PruneOrphanBlocks` is a choice among the orphans it can end at, those without
dependents; that it spares the others is its loop's own condition and no property.
`failed` is not of the code: it remembers the indexed blocks `AcceptBlock` returned
false for, and nothing but `HeldUntilParent` reads it.

### NetNode

A node is a place in memory that is allocated, deleted and allocated again.
`node` holds the fields of the `CNode` there, `alive` the allocated ones;
`opener`, `socket` and `poll` are the threads' places and local copies. A step is
one critical section of `cs_vNodes` or one unlocked access; the unprotected
`AddRef` of `ConnectNode` is the two steps `ReadCount` and `WriteCount`.
`CSemaphoreGrant` has no lock either: `TestGrant`, `PostOld`, `ClearOld` and
`MoveGrant` are the accesses of `MoveTo`, `RemoveNode` (the test), `PostGrant` and
`ClearGrant` those of `Release` in the socket thread, and setting `fNetworkNode` is
a step of its own; the node is in `vNodes` all the while. The opener goes on with a
node that was deleted under it: it reads and writes what is at that place by then.

`handed` counts how often `ConnectNode` has found a node that is connected already
and handed it out. `FindNode` returns a pointer that nothing protects, so what the
code promises about references and permits holds up to that moment only, and the
properties say so: `PermitsConserved`, `CopiesNotDeleted` and `OutboundBounded`
have the premise `handed = 0`. After it, `UsedNotDeleted` fails (section 5).

### TxRelay

One critical section of `cs_main` is an action: `HandleInv`, `SendGetData`,
`ReceiveTx` and `ReceiveKnown` (the `tx` handler for a transaction the node lacks
or has), `Confirm` (a block), `Disconnect`. `setAskFor`, `mapAskFor` and `asked`
are per peer, `mapAlreadyAskedFor` is the `limitedmap` shared by all of them, which
loses its oldest entry when it is full. `asked` is the getdata the peer has not
answered. Times are relative to now and `Tick` brings every request nearer. The
handler's walk over the orphans that depend on a new pool transaction is a set `W`
with the properties of the walk's result (`IsWalk`), whatever its order. What
`AcceptToMemoryPool` tests of one transaction is membership of `Unfit`. The chain
only grows here: reorganizations, which put transactions back into the pool, are
ChainState's, and `sendrawtransaction` is left out. The handler's first
`AlreadyHave` comes before it locks `cs_main` (main.cpp:3742, 3748); the model has
both in one step.

### AddrTables, AddrMan

All operations hold `cs`, so each is one action on the record `am`, the object's
fields. `AddNew` and `AddAgain` are the two outcomes of `Add_`, `Good` moves an
entry to a tried bucket and back to a new one what it evicts, `GetAddr` shuffles
`vRandom`, and `Reload` writes `peers.dat` and reads it, which renumbers entries and
rebuilds buckets and counters. Which entry of a full bucket goes depends on times and
random numbers and is any of those the code may pick. Buckets are constants,
as their hashes are under a key chosen once.

`AddrTables` is what the rest of the node may rely on: an operation learns or
promotes one host, at most one other pays for it with its place, a tried host goes
back to the new ones at worst, and writing and reading the file loses none.
`AddrMan` implements it with `table <- TableOf`; shuffles and restarts are stutters.

## 3. Runs

Every passing run finds no error in the whole state space of its instance.

| Run | Instance | Shows |
|---|---|---|
| `block_download` | 2 peers, 3 blocks, 2 requests a peer, queue limit 3, both nodes may be deleted in use | lists, counters and maps agree and no block is both queued and in flight; no entry of a dropped peer; requests bounded; the front of a list is its oldest request |
| `block_download_live` | 2 peers, one never deleted and one that may be deleted in use, 1 block, fair | stalls are resolved, bans enforced |
| `chain_state` | 13 blocks, 6 transactions, 2 crashes, `d3` invalid, Velocity at height 4 | refinement of `Ledger` with failures as an extension and in the middle of `Reorganize`; one `SetBestChain` keeps the rolling block; links, supply and pool |
| `chain_state_invalid` | 13 blocks with sizes, 1 that connecting refuses, Velocity at two heights, 2 crashes, a median of 3 sizes | composed with the block size calculator: trust grows although blocks are refused in the middle of `SetBestChain`; what a search by height returns, also while further blocks connect; the limit follows a chain that is only extended |
| `orphan_blocks` | 6 blocks, limit 2, failing best chains, restarts | maps, bound, stakes; no orphan stranded but by a failure |
| `addr_man` | 4 hosts, 5 services, buckets of 2 and of 1 | `Check_()` never fails; no bucket overflows; refinement of `AddrTables` |
| `tx_relay` | a silent and an honest peer, 7 transactions, 1 orphan, 1 remembered request, fair | orphan maps agree; what is wanted is queued or asked for, and obtained in the end |
| `net_node` | 2 openers, 2 nodes, 1 host, 2 permits, 1 inbound, 1 node handed out | before a node is handed out: permits conserved between the accesses of `MoveTo` and `Release`, no copy holds a deleted node; the lists name allocated nodes, always |
| `net_node_live` | 2 nodes, inbound and `addnode onetry`, fair | removed inbound nodes are deleted; a sync node is found again |
| `chain_state_failed`, `block_size_rule`, `net_node_used` | a tree in which a further block fails; as `chain_state_invalid`; as `net_node` without inbound peers | the findings of section 5 |

### Bounds, and why they are enough

- *BlockDownload.* Two peers compete for a block, and three blocks are one more
  than a peer may have in flight, so that a request waits and every list has a
  middle. `Horizon = 3` is the least that tells every comparison apart for
  `Timeout = 1`. Scores matter up to the threshold: `MaxMisbehavior` is at least
  `BanScore`, and a higher score acts as that one does. Peers and blocks are
  interchangeable, hence the symmetry; it is not used in the liveness run.
- *ChainState.* The branches of the tree `a1..a4`, `b3..b5`, `d3..d4` and `c2..c4`
  fork at two depths, give reorganizations with one and with several further blocks,
  refused ones (supply, depth, rolling block) and second reorganizations;
  `s3` and `s4` spend the same output on two branches, `s1` and `s2` another,
  and `s5` spends an output of its own branch. `MaxReorg = 1` is the code's value;
  `d3` is invalid: it fails as a child of the best block, and at the start of a
  reorganization to `d4` after blocks were disconnected. `b4` spends an output of
  `b3`, which Velocity at height 4 does not see: the reorganization fails after `b3`
  was connected in the batch. No further block fails in this run, as the properties
  are false then (finding 1); in `chain_state_invalid` some do.
  `RollingMin = RollingDepth = 2`, `SyncDepth = 3` and `FactorHeight = 3` scale
  the code's 500, 121, 620 and 500 to these heights, so that every test has
  blocks on both sides of it.
  Two crashes allow one during the work that follows the other.
- *BlockSize.* `Past = 3` stands for `NUM_BLOCKS_FOR_MEDIAN_BLOCK`, 25: the list is
  filled at height 3 of a tree of height 7, replaced on every branch, and the branch
  `b3..b7` is longer than the list, so that the lookup during further blocks goes
  through the cut next links. `UIntRange = 4` and `Multiple = 2` let the doubled
  median wrap; `MinBlockSize = 2` and `InitialLimit = 3` put blocks on both sides of
  the limit. The block `b5` is too big under the limit that some histories leave:
  it then fails as a further block, the next links have a gap and a lookup ends
  there. In others it connects, and the connection of `b6` meets a null pointer.
- *TxRelay.* `MaxAlreadyAsked = 2` makes the shared map forget one request for the
  next, which is what the code's 50000 entries do to the oldest. One orphan makes
  every second one an eviction. The seven transactions are a chain of orphans with
  two inputs, a conflict, and one that is refused. `Retry = MaxWait = 1`: a request
  is due or waits for another peer's answer.
- *AddrMan.* One new bucket can overflow and one tried bucket is shared by three
  services, so that an eviction finds its own new bucket full; a host is in both
  new buckets and has two ports. `MaxId = 4` ids between two restarts.
- *OrphanBlocks.* Two orphans are the limit and six blocks overfill it; chains of
  three orphans, siblings and three blocks with one stake all occur.
- *NetNode.* Handing out a node needs two openers at one host that both hold a
  permit; allocation at the same place needs a deletion, and one node more for the
  thread that still looks at the first. One node is handed out (`MaxHanded = 1`), as
  the properties but `TypeOK` are about the time before. Nodes are interchangeable;
  openers too. `OutboundBounded` can only fail with more nodes than permits, three,
  for which the run would be several times as long: it is proved, not checked.

`CHECK_DEADLOCK FALSE` is set where a behaviour really ends: peer ids are never
handed out twice (BlockDownload), the tree has no more blocks (ChainState,
BlockSize), everything is confirmed (TxRelay), no id is left (AddrMan), the message
thread has lost its node (BlockDownload). OrphanBlocks can always restart and the
loops of NetNode never end, so deadlock is checked there.

### Fairness

- *BlockDownload.* `ThreadMessageHandler` visits every peer again and again, but
  `SendMessages` does its work only if `TRY_LOCK(cs_main)` succeeds. As the lock
  is free again and again, a peer that can be served infinitely often is served:
  strong fairness of `SendMessages`. A message read is handled to the end (weak
  fairness of `HandleMessage`); the socket thread deletes nodes without
  references and runs the inactivity test in every round (weak fairness of
  `FinalizeNode`, which is never enabled for a node in `Kept`, and of
  `InactivityTimeout`); time passes (weak fairness of `Tick`).
  Nothing a peer does is fair: it may send nothing, or anything but the block.
- *NetNode.* The two loops go on: weak fairness of the socket thread's round, and
  strong fairness of the message thread, which waits for `cs_vNodes` while the socket
  thread goes through its list and gets it in the end. Peers need never connect, close or answer.
- *TxRelay.* Time passes (`Tick`), the message thread serves every peer again and
  again (`SendGetData`), and honest peers answer a getdata: weak fairness. Nothing
  makes a peer announce anything or a block come, and the silent peer owes nothing.

`StallResolved` excludes a peer that keeps delivering what was asked of it: that
peer is not stalling. It excludes the nodes in `Kept`, whose blocks stay in flight
for ever as nobody finalizes them, and histories in which the message handler lost
its node. `SyncResumes` allows for `Misled`: `pnodeSync` is the address of a node
that was deleted, another node was allocated there and was never told to start, and
the message thread takes it for the sync node as long as it is connected. `BanEnforced` is of peers that are not local and have sent
their version, as `SendMessages` returns early for the others.
`AnnouncedIsObtained` ends when the peer leaves or a conflicting transaction comes
first, and is about transactions whose inputs are confirmed.

## 4. What is proved

All proofs are in modules of their own and cite the named assumptions of the
module they are about. Nothing else is assumed.

**BlockDownload_proofs** (any peers, blocks and limits; `DownloadAssumption`).
The inductive invariant `Inv` is the type invariant with `QueuesAgree`,
`NoDanglingPeer`, `OneAssignment` and `TransitBound`, regrouped by list; no property
assumes that the peer being served still has its state. None of them is inductive alone: that a list element can be erased needs
that it occurs once and that its map entry is there; that a dropped peer leaves no
entry needs that all entries of a peer are in its list; that the counters bound
the request loop needs that they are the lengths. `FrontAlwaysOldest` adds that
a list of blocks in flight is in the order of their times: a request goes to the
back with the time now, an erasure keeps the order of the rest, and a tick makes
all times older alike. The first part proves what
erasing, appending, splitting and concatenating do to sequences; the second that
each operation keeps list, counter and map in agreement; the third goes through
the actions. Theorems: `TypeCorrect`, `QueuesAlwaysAgree`, `PeersStayLive`,
`RequestsBounded`, `FrontAlwaysOldest`.

**ChainState_proofs** (any tree, any invalid blocks, any Velocity heights, any
number of crashes; `TreeAssumption`, `TrustAssumption`, `ChainAssumption`).
`CommittedTrustGrows` says that every change of the stored best block, by
extension, reorganization, a further block or after a crash, gains trust. It needs
`WorkInv`, which relates the stored best block, the one in memory, `target` and
`cursor` between two commits; for example, while further blocks are connected
`cursor` is the stored best block and an ancestor of `target`. After a failed
connection `best` is heavier than `dbBest`, and that this never lets a lighter
block in is the interesting case. The first part proves what is needed of trees
(branches are chains, nested, with one block a height) from `TreeAssumption`, by
the least element of a set of naturals. `RollingBlockSurvives` says that one
`SetBestChain`, whatever it connects and wherever it fails, keeps the block
`RollingDepth` below the best block it started from: the comparison is made with the
intermediate block's branch, and `BuriedInv` carries it through the further blocks.
It says nothing of two calls in a row: a heavier branch may be shorter, its rolling
block lies lower, and the next reorganization may take out what was buried.

**ChainLedger_proofs** (as ChainState_proofs, with `TxAssumption` and
`RepeatAssumption`). What `ConnectBlock`, `DisconnectBlock` and the folds of
`Reorganize` and `ConnectSecondary` over a path of blocks do to the transaction
index, the next links and the money supply. As the library's induction theorems
take an operator, an induction over the blocks of a path is made by hand: the
least position at which the claim fails.

- `PoolInv` is `WorkInv` with the types and the two pool properties. It gives
  `ChainTypesAlwaysOK`, `ConfirmedLeavePool` and `PoolNeverDoubleSpends` without
  any hypothesis: `Attached` takes out of the pool exactly what the commit puts in
  the index, and what a reorganization gives back is tested against both.
- `LedgerInv` says that the branch of the stored best block has no invalid block
  and no double spend, that the index records exactly its transactions and
  leaves unspent exactly its coins, that the next links lead along it and that
  the supplies add up along it, in memory and in the database. The heart is that
  disconnecting a block of a sound branch is the inverse of connecting it. It
  yields `LedgerIsAtomic` (the refinement, a step of `Ledger` for a commit and a
  stutter for the rest), `NextLinksAlwaysFollowBest`, `SupplyAlwaysAddsUp` and
  `BestStaysStored`.

The second invariant has the hypothesis `[]SecondaryConnects`: when a further
block is to be connected, it connects. Without it the four statements are false,
which is finding 1 of section 5; with it blocks may still be invalid, be refused
as an extension or in the first part of a reorganization, and the process may
crash anywhere.

**OrphanBlocks_proofs** (any blocks, stakes and limit; `OrphanAssumption`).
`Inv` adds to the properties that the area is finite and that every orphan with an
indexed parent is one the work queue will still reach, unless `AcceptBlock` failed
for the parent after indexing it. Theorems: `OrphanMapsAgree`, `OrphanTypes`,
`OrphanAreaBounded`, `HeldNeverIndexed`, `OnlyFailedStrand`. `StakesSeenOnce` is
about steps: of those that index a block only one does so while the queue is empty,
and there `setStakeSeen` contains every stake of the index.

**BlockSize_proofs** (any tree, sizes and limits; `SizeAssumption` and those of
ChainState). `SizedTrustGrows`: the composition keeps `WorkInv`. The lemmas of
ChainState_proofs about `Extended`, `Switched` and `Continued` hold for whatever
view `ConnectBlock` leaves, so the calculator only decides which blocks connect; a
null pointer followed in the middle is a crash. `SizedInv` joins the chain's
invariants with these parts:

- `LinksWithin`: a next link is missing or leads along the branch connected so far,
  whatever connections failed. A search by `FindBlockByHeight` from a block of the
  branch therefore climbs along it, or meets a gap. While further blocks connect,
  `pindexBest` is still on the branch `Reorganize` has left, whose next links are cut
  above the fork: a search that starts there goes down that branch, or ends in a
  null pointer. `BestChainAlwaysFound` says which of these is returned. The block
  found last stays on one of the two branches because a new best block resets it.
- `SizesOK`: a list is empty or has `Past` sizes, as one size goes in only if one
  is taken out. The results of the blocks connected by one call are a fold over
  sets of calculators, followed by an induction over its positions.
- `SteadyInv`: while only children of the best block connect, the list is sorted
  and has the sizes of the newest `Past` blocks. Two sequences in order are equal
  if every number has as many smaller elements in one as in the other, so the
  insertion that `lower_bound` finds is compared with sorting by counting. This
  gives `SteadyLimitKept`.

**TxRelay_proofs** (any transactions, peers and limits; `TxRelayAssumption`).
`OrphanTablesAgree`: adding, erasing and walking keep `mapOrphanTransactionsByPrev`
the table its orphans determine. `OrphansAlwaysBounded`: `LimitOrphanTxSize`
restores the limit after every message. `QueueInv` includes, beyond `TypeOK` (`TypesAlwaysOK`), that
the queues stay in the order of their times and the limited map below its limit,
which needs that a new request never comes before `now` and at most `MaxWait`
later. `RelayInv` joins all of this with `WantedIsPending` (`WantedAlwaysPending`):
a transaction wanted from a peer leaves its queue only into the getdata of that
peer, and every other way out makes it unwanted.

**NetNode_proofs** (any nodes, openers, permits, with or without `addnode onetry`;
`NetAssumption`). `NodeTypes` holds throughout: the lists name allocated nodes,
whatever the reference counts say. The inductive `Inv` joins the types with `Safe`,
which holds as long as `ConnectNode` has handed out no node it found (`handed = 0`).
Then every node in the hands of an opener is that opener's alone. The grants, posted
ones aside, account for every permit between any two accesses of `MoveTo` and
`Release`: `PermitsAlwaysConserved`. The reference counts are exact, one for each
copy that holds the node and the constructor's own until it is released, and a node
is deleted at zero only: `CopiesNeverDeleted`. `OutboundAlwaysBounded` counts the
connections opened with a grant by a surjection from permits. The premise is not an
assumption on the threads: any number of openers runs from the start, and the first
call that finds a connected node ends what is claimed. After it the claims are false
(section 5).

**AddrMan_proofs** (any services, hosts, sources, bucket hashes, limits and ids;
`AddrManAssumption`). The inductive `InOrder` says in three parts what `Consistent`
says and more. `Indexed`: `mapAddr` is the entries by host, and `vRandom` and the
positions are inverse to each other in both directions, where `Check_()` looks at
one; the other is what lets `SwapRandom` and the deletion at the end of `vRandom`
be understood. `NewTable`: every reference to a new entry is in a bucket and every
bucket within its size. `TriedTable`: a tried entry is once in the bucket of its
own service. The steps inside an operation do not keep it: an entry is counted
before it joins its bucket, so `Joining` is what holds of `Add_` while `ShrinkNew`
makes room, and in `MakeTried` an entry is in no table (`Between`), with a place
sure to be free in the bucket it just left. For `Reload` the ranks of a finite set
of ids are shown to count from 0 without a gap (`Ranks`), so that the new numbers
are a bijection and nothing is beyond a limit when it is read back
(`EverythingKept`). Theorems: `TablesAlwaysConsistent`, `BucketsAlwaysBounded`, and
`TablesAlwaysRefined`, in which each operation is a step of `AddrTables` for the host
of its entry, and `GetAddr` and `Reload` are stutters.

**Only model-checked.** Liveness (`StallResolved`, `BanEnforced`,
`AnnouncedIsObtained`, `NodesReclaimed`, `SyncResumes`), which is out of this
prover's reach. Every safety property of a passing run is a theorem above,
`NextLinksFollowBest`, `SupplyAddsUp` and `AtomicLedger` under `[]SecondaryConnects`. That
what the folds of `Reorganize` compute ends, and `FindBlockByHeight`'s search, is
by definition: both run over finite data.

## 5. Findings

1. **A refused block becomes the best block** (`chain_state_failed`, main.cpp:2261).
   When a further block fails after a committed reorganization, the loop ends and
   the code makes the block `SetBestChain` was called for `pindexBest`, while the
   database keeps the last connected one. The next block builds on one that was
   refused. The ledger, the next links and the supplies are therefore proved only
   for connections of further blocks that succeed; and the next links keep a gap
   below `pindexBest`, at which `getblockhash` follows a null pointer.
2. **The block size limit is not a function of the chain** (`block_size_rule`,
   blocksizecalculator.cpp:43). The first call is for a block below
   `NUM_BLOCKS_FOR_MEDIAN_BLOCK` if a node connects its chain from the genesis
   block; it sorts the empty list and marks it sorted, and the list filled later
   stays in block order. Its middle element is no median, and two nodes with the same
   best chain may disagree on `MAX_BLOCK_SIZE`, which main.h:36 calls a network rule.

3. **A node is deleted in use** (`net_node_used`, net.cpp:404). `FindNode` returns a
   node after it has released `cs_vNodes`, and `ConnectNode` increments its
   `nRefCount`, a plain integer, outside of the lock. The increment may overwrite, or
   be overwritten by, one made for a copy of `vNodes`; the count then reaches zero
   while a thread uses the node, which net.cpp:1004 says it waits for. Both
   openers then move their grants to one node, where one is lost if neither sees the
   other's; and a grant that the socket thread and an opener release at once is posted
   twice.

What the models also show, without a run of its own:

- A peer that closes before `OpenNetworkConnection` moves the grant (net.cpp:1721) is
  removed first; the node then gets the grant and keeps its reference: it is never
  deleted, as one of `addnode onetry` (rpcnet.cpp:130), and the blocks in flight from
  it stay there for ever.
- A `pnodeSync` stored after its node was deleted may fit the next node allocated at
  the same place (net.cpp:1767, `Misled`).
- `DepthAllowed` is true of a heavier branch that is shorter (main.cpp:2013). Its tip
  has a lower rolling block, so that the next reorganization may remove a block that
  was behind the rolling checkpoint (main.cpp:2030).
- `AcceptBlock` returns false for a block it has indexed when `SetBestChain` fails
  (main.cpp:2771); the orphans that wait for it are neither processed nor dropped.
- "Recursively process any orphan transactions that depended on this one"
  (main.cpp:3760) accepts none of them: `AcceptToMemoryPool` looks for inputs in the
  transaction index only (main.cpp:874), and the transaction they depend on has
  entered the pool, not a block. They stay, and hide later copies of themselves
  through `AlreadyHave`, until `LimitOrphanTxSize` drops them. This is a defect of
  the code, which the model follows; no property states it.
- The `tx` handler returns for a known transaction before `setAskFor.erase`
  (main.cpp:3742), so the peer's entry stays.
- A chain of further blocks longer than `NUM_BLOCKS_FOR_MEDIAN_BLOCK` above the fork
  may run `FindBlockByHeight` into a null next link (main.cpp:1284).

Some statements that one might expect are not properties here, because the code
does otherwise: pool transactions whose inputs a new block spends stay in the
pool (main.cpp:2182 calls `remove` only); transactions of blocks deeper than
`BLOCK_REORG_MAX_DEPTH` do not come back (main.cpp:2098); that constant limits the
difference of two heights and not the number of blocks disconnected
(main.cpp:2007); blocks from the work queue are accepted without the duplicate
stake test (main.cpp:2790); the area may hold one orphan more than
`-maxorphanblocks` (main.cpp:1333), which `AreaBounded` allows for; a node of
`addnode onetry` is never deleted, so `NodesReclaimed` is about inbound ones;
`SelectTried` returns the position its oldest entry was swapped away from
(addrman.cpp:138-143), so the entry `MakeTried` evicts may be any of the bucket.

## 6. Plan

Done: BlockDownload, ChainTree/Ledger/ChainState, OrphanBlocks, NetNode, AddrTables/
AddrMan, TxRelay and BlockSize, and proofs of the safety properties the passing
runs check. Next:

1. `NextLinksFollowBest` in a weaker form that a failed further connection keeps:
   `LinksWithin` is that for lookups.
2. **Intake**: a composition of BlockDownload and OrphanBlocks, so that `have` and
   the eviction of orphans are no longer free choices.
3. What a node announces itself: `vInventoryToSend` with its trickle, `mapRelay`.
4. The wallet's key pool and lock, the database environment's reference counts and
   `mruset`, as far as they pay.

## 7. Not modelled, and why

Scripts, signatures, hashes, serialization and base58 are pure functions of bytes;
signature checks are part of `Invalid`. RPC, user interface and start-up have no
state the properties tell apart. The vendored libraries are taken at their word:
a LevelDB batch is written entirely or not at all. VRX works on doubles and 256-bit
targets, and the stake modifier selects by 256-bit hashes: with free hashes any
candidate may be chosen, and little is left to check. Demi-nodes change the depth
constants only, and the copies of these constants that `init.cpp` sets are not
those main.cpp reads (`static` in a header); `MAX_BLOCK_SIZE` is static in a header
too, and BlockSize models main.cpp's copy. The miner, the wallet, the database
environment, secure messaging and alerts are components of their own beside
the node. In ChainState, `-reindex`, the checks of the last blocks at start-up and
the address index are left out; fees and rate limits of the pool, message framing,
bans and one-shot connections likewise. Of the address manager, times and services
of an entry are left out.
