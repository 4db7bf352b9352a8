# SophiaTX: specifications, model checking and proofs

TLA+ modules for the core of the SophiaTX node: the undo machinery of its
database, the chain with its forks and its log, the threads around its write queue,
the witness schedule, the synchronization between nodes, and the parts of the ledger
in which long sequences of legal operations could go wrong. TLC checks each module on
small instances; TLAPS proves the main safety properties of all of them but `PeerSync` for every value
of the constants.

## 1. The system

`src/` is a delegated-proof-of-stake blockchain node derived from Steem and Graphene.

| Part | Where | What it does |
| --- | --- | --- |
| chainbase | `libraries/chainbase` | tables of objects in a memory-mapped file, with a stack of undo sessions |
| fork database | `libraries/chain/fork_database.cpp` | the tree of recent blocks |
| block log | `libraries/chain/block_log.cpp` | the file of irreversible blocks and its index |
| chain database | `libraries/chain/database.cpp` | applies blocks and transactions, switches forks, decides what is irreversible |
| evaluators | `libraries/chain/sophiatx_evaluator.cpp` | one per operation: transfers, vesting, votes, escrow, recovery, applications, custom content |
| economic model | `libraries/chain/economics.cpp` | pools of coins, rewards, interests, fees |
| witness schedule | `libraries/chain/witness_schedule.cpp` | who produces the next blocks |
| chain and witness plugins | `libraries/plugins/{chain,witness}` | the write queue, and block production |
| network | `libraries/net`, `libraries/plugins/p2p` | synchronization between peers, propagation of new blocks |
| application | `libraries/appbase` | starts and stops the plugins |
| protocol, APIs, wallet, fc, ... | the rest | data types, queries, clients, utilities |

A block comes from a peer or from the witness plugin, passes the write queue of the
chain plugin, and reaches `database::push_block`. It is put into the fork database;
if the head changes, the chain database pops and applies blocks, each in an undo
session of chainbase. Applying a block runs the evaluators, then the periodic work
(interests, rewards, withdrawals, expirations, hardforks), then decides
which blocks are irreversible; these are committed in chainbase and appended to the
block log.

`PROJECT.json` lists every part with its status, the hazards, and for each
definition the lines it models.

## 2. The modules

| Module | Models | Notes |
| --- | --- | --- |
| `VersionedStore` | what chainbase promises | abstract: a table and a stack of complete saved versions |
| `UndoIndex` | `chainbase::generic_index` | undo states hold differences; refines `VersionedStore` |
| `ForkDatabase` | `fork_database` | operators on a record: index, links, head, window |
| `ChainDatabase` | `push_block`, `pop_block`, `generate_block`, `push_transaction`, irreversibility, `open` | composes `ForkDatabase`, the log and the undo depth |
| `BlockLog` | `block_log` | two buffered files, killed processes, `open`, `construct_index` |
| `WitnessVotes` | votes, proxies, hardfork 1.1 | tallies as propagated differences |
| `Economics` | `economics.cpp` | pure functions on the record of pools |
| `Ledger` | balances, vesting, fees, interests, rewards | composes `Economics` with the operations and the end of a block |
| `Escrow` | the four escrow operations and the expiration | |
| `AccountRecovery` | owner authorities, recovery, reset | |
| `WriteQueue` | the write queue of the chain plugin, the read/write locks of chainbase | used by itself in proofs and in `DatabaseLock.cfg` |
| `NodeThreads` | API workers, p2p thread, block production, shutdown | composes with `WriteQueue`; shown to implement it |
| `WitnessSchedule` | virtual times, choice and shuffle of witnesses, missed slots, hardfork votes | a step is a block |
| `PeerSync` | the synchronization and inventory code of `node.cpp` with its delegate | several nodes that run the same code |
| `MC...` | values for TLC | |
| `SumTheorems` | nothing of the code: sums over finite sets | lemmas for `LedgerProofs`, `AgreementProofs` and `VotesProofs` |
| `ProxyTheorems` | nothing more of the code: chains of proxies, and what a difference that travels along one changes | lemmas for `VotesProofs` |
| `...Proofs` | theorems | `StorageProofs` is about `UndoIndex` and `BlockLog`, `ChainProofs` about `ForkDatabase` and `ChainDatabase`, `LedgerProofs` about `Economics` and `Ledger`, `AgreementProofs` about `AccountRecovery` and `Escrow`, `SchedulingProofs` about `WitnessSchedule`, `WriteQueue` and `NodeThreads`, `VotesProofs` about `WitnessVotes` |

Definitions keep the names of the functions they model (`squash`, `apply_block`,
`adjust_proxied_witness_votes`). A definition whose comment begins with
"Mutant:" is a deliberately wrong version of the definition after it; with it in
place the property named in `PROJECT.json` must fail.

### chainbase: `VersionedStore`, `UndoIndex`

`indices`, `next_id`, `revision` and `stack` are the members of `generic_index`; the
history variable `saved` keeps what the table was when each session began.
`emplace`, `modify` and `remove` record into the top undo state as `on_create`,
`on_modify` and `on_remove` do; `undo`, `squash`, `commit`, `set_revision` are the
session operations. `undo` restores in the three loops of the code, so a missing
object or a taken unique key would be seen (`UndoNeverFails`). The refinement maps
the stack to the complete versions that its differences stand for.

### The chain: `ForkDatabase`, `ChainDatabase`, `BlockLog`

A block is the sequence of its ancestors' bodies and its own, so equal blocks have
equal histories and `previous` is a prefix. `chain` stands for everything in
chainbase: the state is a function of the blocks applied, and undo is exact by
`UndoIndex`. `depth` counts the undo states of blocks. Everything runs under the
write lock, so the only interleaving inside `push_block` is a killed process:
`pc` splits it into `pop`, `apply_block`, `commit`, `append`, `finish` and
`restore_pending`, and `crash_and_open` may come between any two. The mapped memory
survives a kill; `open` undoes to the last committed block and compares with the log.
A block has a slot (slot `s` belongs to witness `s % n` of the `n` scheduled), transactions,
and a fault: it fails at once, or late, after it was made irreversible. Pending,
popped and stashed transactions are the three lists of the code. In `ChainDatabase` the log is
the sequence of blocks; `BlockLog` models the file behind it with the buffers of its
two streams, any part of which may be written when the process is killed.

### The threads: `WriteQueue`, `NodeThreads`

A caller of `accept_block`, `accept_transaction` or `generate_block` keeps its
`write_context` on its stack, so the caller stands for its context. The writing thread
pops, locks, visits, sets the promise and takes more in separate steps; callers and
the writing thread share no lock. `NodeThreads` adds what the callers do around it: the
synchronous broadcast with its callback in two maps, `maybe_produce_block` with each of its
four reads of the unlocked head as a step of its own, the p2p thread that hands over blocks
and transactions, and `quit` with the plugins stopped in the reverse of the order of
their start. Of the chain only the time of the head, the schedule in force and the
transactions in it are kept, with fork switches that take some of them away. A switch may
fail after a block of the new branch has been applied: the chain is then what it
was, but the callbacks that this block answered stay answered.

### Who is next: `WitnessSchedule`

`wit` has of each witness object its votes, its key, `virtual_last_update`,
`virtual_position`, `virtual_scheduled_time`, its hardfork vote and what it missed. A step is
`apply_block`: the header, at most one operation (a change of votes, a `witness_update`), and the
end of the block with the votes for hardforks, missed slots and, at the end of a round, the new schedule.
Then `process_hardforks`: hardfork 1.1 counts all votes anew, which sets them to none at
whatever place in its lap a witness is, and adjusts the virtual times to what is found. What is found is
the matter of `WitnessVotes`; here it is any of the numbers of the plan.
`Lap` is the range of the 128-bit numbers. The shuffle is a choice among orders. `software`
is what each operator has installed.

### Peers: `PeerSync`

`node[n]` is the state of a node: what its database knows, its connections with the
fields of `peer_connection`, the received blocks, the calls under way, which loops have
been triggered, and the messages under way to each peer. Every handler and every task runs on the p2p
thread without yielding, so each is an operator from a node's record to its new record, and
one action. Block ids are paths in the tree of blocks. A connection is ordered; it can
break at any moment with everything in it lost, time out, or be closed by either side, and is made
again. All nodes run this code: the module is about how correct nodes get along. Whoever is disconnected
for an error is recorded in `blamed`, or in `misjudged` if its answer was compared with another synopsis than
the one it was made for; the message carries that synopsis, which no handler reads for anything else. The order of
ready tasks is left open (fc runs them as they became ready), so the model has more
orders than a run. Left out: transactions, the steps of the handshake, addresses,
`item_not_available` (sent for a block only by a node that no longer has it) and with it
`inhibit_fetching_sync_blocks` (otherwise set only for an exception that `handle_block` does not throw),
the expiry of inventories, caches and items to fetch, the firewall check, rate limits,
the check for implausible block numbers, hardfork checks, and restarts. Blocks are never
forgotten, and the list of recently accepted blocks has no limit (200 in the code).

### The ledger: `WitnessVotes`, `Economics`, `Ledger`, `Escrow`, `AccountRecovery`

`WitnessVotes` has the stake of each account, its proxy, its votes, and the two tallies
the code keeps (`proxied_vsf_votes` by level, `witness_object::votes`). The history
variable `fresh` records whether anything was counted as proxied when hardfork 1.1
recalculated the votes.

`Economics` has the integer divisions of the code. `Ledger` adds balances, vesting
shares, withdrawals and the holdings considered for interests; `apply_block` is the
end of a block in the order of `_apply_block`: interests, the null account,
rewards, withdrawals. `halted` marks a block that nobody can apply because an assertion
in it fails.

`Escrow` and `AccountRecovery` have the evaluators as actions. In both the time of the
operations is that of the previous block, and the processing at the end of the block uses the
new one, as in the code. `paid`, `replaced` and `since` are history variables.

## 3. What TLC checks

Passing runs. Unless said otherwise deadlock is checked too.

| Run | Properties | What it shows |
| --- | --- | --- |
| `undo_index` | `UndoIsExact`, `UndoNeverFails`, `ImplementsVersionedStore` | two objects with two unique keys, three nested sessions: objects are created, modified and removed at every level before `squash`, `undo` or `commit` |
| `chain` | `FailedPushUnwound`, `NoTransactionTwice`, `NoTransactionLost`, `PendingApplies`, `OnLongestBranch`, `UndoReachesIrreversible`, `FetchedIsOnChain`, `LogIsOnChain`, `IrreversibleStays`, `PushReturns` | four networks: branches that outgrow each other with transactions and an invalid end; blocks that become irreversible with a short undo history; a chain before voting starts; branches from below the last irreversible block with blocks that fail early and late. Processes are killed in all of them; blocks are produced locally in the first |
| `block_log` | `ReadsBack`, `IndexComplete`, `FlushedStays` | from a log of two blocks to five, with partly written buffers |
| `votes_proxies` | `NoProxyLoop`, `ProxiedExact`, `VotesExact` | five accounts, chains of proxies longer than the recursion depth, the hardfork at any time |
| `ledger` | `SupplyIsHeld`, `TotalIsAccounted`, `WithdrawalIsExact` | one operation per block for five blocks; no deadlock check, since the last block ends the run and a chain may halt |
| `escrow` | `AllOrNothing`, `NothingLost`, `EventuallySettled` | two ids of one sender and one of another, with different deadlines; no deadlock check, since the last block ends the run |
| `account_recovery` | `EndorserIsRecent`, `OwnerCanReturn`, `ChangeIsDelayed` | an account, two helpers, any time between blocks |
| `node_threads` | `ContextsAlive`, `CallbacksOwned`, `GeneratedIsDue`, `EveryCallReturns`, `ShutdownCompletes` | two API workers on one transaction, a worker and a reader, asynchronous calls, production across a change of schedule, fork switches that succeed or fail; each up to the end of a shutdown, which is where the run stops. A call whose callback another call has taken back is left out of the last two (`NeverOrphaned` below) |
| `witness_schedule` | `VirtualTimesConsistent`, `ScheduleIsFull`, `TurnComes`, `HardforkHappens` | four witnesses, up to three in a round, one of these for its votes: votes change, keys come and go, slots are missed, two hardforks are voted for with mixed versions, and the first counts all votes anew while laps are under way. When everybody scheduled has given up its key nobody can sign a block and the chain stops, so deadlock is not checked |
| `peer_sync` | `RequestsOwned`, `HonestNotBlamed`, `SyncSettles` | two or three nodes, behind each other, on forks within and beyond what can be undone, making blocks; connections break and time out at any moment, up to twice. A network at rest has nothing left to do, so deadlock is not checked; that two nodes rest in sync if their connection holds and new blocks come in their order is part of `SyncSettles` |

Runs that end in a violation: the code does not do what an assertion of
the repository says.

| Run | Property | What happens |
| --- | --- | --- |
| `chain_partition` | `MainBranchHasIrreversible` | A witness that was cut off built three blocks. While it switches to the longer branch, `pop_block` moves the head of the fork database back along the *new* branch; the irreversible block is not found on it and the assertion in `update_last_irreversible_block` rejects a valid branch. |
| `ledger_interest` | `NeverHalts` | An amount that comes in right after the account's turn counts for no block, and for a whole period when it leaves in the next block; the holding becomes negative, and at the account's next turn the assertion in `withdraw_interests` rejects every block. |

### Further deviations

Met while modelling; each has a configuration that shows it (`tlc -config X.cfg M`). Where
one lists two properties TLC stops at the first that fails; take that one out to see the other.

| Configuration, module | Property | What happens |
| --- | --- | --- |
| `UndoIndexSquash.cfg`, `MCUndoIndex` | `SquashReducesRevision` | `squash()` of the only undo state keeps the revision (`chainbase.hpp:384`); the comment above it says the head revision is reduced. |
| `ChainOldFork.cfg`, `MCChain` | `FailedPushUnwound` | A longer branch from below the last irreversible block can be linked; popping stops at the last undo state and throws with the reversible blocks gone (`database.cpp:594`). |
| `ChainLateFailure.cfg`, `MCChain` | `FailedPushUnwound` | With one scheduled witness a block is committed while it is applied (`database.cpp:2250`); a later step that throws is not undone. |
| `ChainStaleHead.cfg`, `MCChain` | `HighestBlockReturned` | `fork_database::remove` leaves `_head` on a block that is no longer in the index (`database.cpp:650`). |
| `ChainStaleHead.cfg`, `MCChain` | `LogIsOnChain` | With such a `_head` just above the chain, a known block that is pushed again is tried as if it were the next one (`database.cpp:644`), fails, and is removed although the chain contains it. When it becomes irreversible, the only block of its number that is left may be one of another branch: `fetch_block_on_main_branch_by_number` returns that one (`fork_database.cpp:227`), and it is logged. |
| `BlockLogFaults.cfg`, `BlockLog` | `IndexComplete` | `construct_index` writes nothing for a log of exactly one block (`block_log.cpp:369`). |
| `BlockLogFaults.cfg`, `BlockLog` | `HeadAtEnd` | A kill during an append leaves a torn block that `open` does not recognise (`block_log.cpp:217`). |
| `LedgerFaults.cfg`, `MCLedger` | `PoolsCoverTotal` | Coins sent to the null account leave the supply and enter no pool (`database.cpp:1090`), against the total that `validate_invariants` asserts. |
| `LedgerFaults.cfg`, `MCLedger` | `WitnessIsVested` | A withdrawal begun before the account becomes a witness takes an active witness below the required vesting (`sophiatx_evaluator.cpp:613`). |
| `VotesRecalculated.cfg`, `MCWitnessVotes` | `VotesWithinSupply` | `recalculate_all_votes` resets the votes of the witnesses and not what is proxied to the accounts, so that proxied votes count twice and a witness has more votes than there are coins. |
| `DatabaseLock.cfg`, `WriteQueue` | `ReadersExcluded` | A writer that has waited a second moves on to the next lock of the ring, while the readers go on holding theirs: they read while it writes (`chainbase.hpp:1024`). |
| `NodeAssert.cfg`, `MCNodeThreads` | `AssertHolds` | `maybe_produce_block` asserts that the clock is past the head, but the head may be newer than the one the slot was computed from (`witness_plugin.cpp:268`). |
| `NodeAssert.cfg`, `MCNodeThreads` | `NeverOrphaned` | Two calls of `broadcast_transaction_synchronous` for one transaction: the one that fails erases the callback of the transaction id (`network_broadcast_api.cpp:89`), even if the other registered it meanwhile. The other waits on, also at the end of a shutdown. |
| `NodeShutdownOrder.cfg`, `MCNodeThreads` | `ShutdownCompletes` | If the configuration names the webserver first, the webserver is stopped last, and waits for a worker whose call waits for a block that no longer comes. |
| `WitnessTurns.cfg`, `MCWitnessSchedule` | `TurnAlwaysComes` | A witness that loses its votes keeps its place in the lap; when its turn comes and its next lap would end beyond the virtual clock, the clock is reset for everybody. If another witness gains and loses votes again and again, one with few votes never completes a lap. |
| `PeerSyncBacklog.cfg`, `MCPeerSync` | `BacklogDrained` | "process `_received_sync_items` to try to pass as many messages as possible to the client" (`node.cpp:3313`): a received block that has been accepted meanwhile ends the loop (`node.cpp:3253`), and the blocks behind it stay although they could be handed over. |
| `PeerSyncBacklog.cfg`, `MCPeerSync` | `NeverStalled` | "This is a state we should never get into in the first place" (`node.cpp:1371`): a synchronization can be in it while its last blocks are being pushed, since `ids_of_items_being_processed` is not looked at; a healthy connection may be terminated. |
| `PeerSyncOvertaken.cfg`, `MCPeerSync` | `AnswersSynopsisSent` | "It should either be an empty list of blocks, or a list of blocks that builds off of one of the blocks in the synopsis we sent" (`node.cpp:2395`): a new block that comes before its predecessor restarts the synchronization while a block is being pushed, and after the push a second synopsis replaces the first (`node.cpp:3148`). The answer to the first is compared with the second (`node.cpp:2451`), and a peer that has answered correctly is disconnected. `HonestNotBlamed` leaves out this case and no other. |
| `PeerSyncRelay.cfg`, `MCPeerSync` | `SyncCompletes` | The loop that asks for sync blocks passes over a peer that is busy with an advertised block. When that block arrives only the loop for advertised items is triggered (`node.cpp:3492`), and synchronization with this peer stops short. |
| `EscrowDispute.cfg`, `MCEscrow` | `DisputedOnDeadline` | At the expiration itself no dispute can be raised (`sophiatx_evaluator.cpp:487`); the comment on the operation says "before or on". |

Noted while modelling, without a configuration of its own:

- A block that has been received from a connection that breaks before the block is
  handed over stays in `_received_sync_items`. After reconnecting it is not asked for, and
  if nothing else has to be fetched, nothing triggers the backlog. `SyncCompletes` fails in
  `Behind(1)`; `SyncSettles` therefore claims that nodes end in sync only if their connection holds.
- A node that makes several blocks between two rounds of `advertise_inventory_loop` advertises them in
  the order of a hash set. If the last comes first, the peer restarts its synchronization and gets the blocks in
  both ways; it can then rest with a block left in the backlog, or in its list of ids (the rows
  `BacklogDrained` and `SyncCompletes`), so `SyncSettles` also has the condition that no new block came too early.
  The id of the message that was too early stays in `_message_ids_currently_being_processed`
  (`node.cpp:3345`), and later inventories with it are ignored.
- While as many blocks are being pushed as allowed, `process_backlog_of_sync_blocks` returns before
  it compares the backlog with its limit (`node.cpp:3176`), so fetching goes on. The
  list of ids can then empty with nobody asking for more, until the connection is found stalled
  and made again (`terminate_stalled` in `PeerSync`). `SyncCompletes` fails in `FarBehind` too.
- A node that is the only producer does not finish its shutdown while a synchronous broadcast waits:
  `EveryCallReturns` and `ShutdownCompletes` assume that peers go on making blocks.
- After a fork switch the witness plugin may sign a second block for a slot.

### Bounds

- `undo_index`: two objects are enough for one to take the key of the other; the
  theorems remove the bound.
- `chain`: blocks come from small trees (`Net`) in any order, repeatedly or never.
  Each tree is the smallest in which its case happens: two switches and a failed
  switch; a block becoming irreversible with forks on both sides of it; a branch from
  below the irreversible block. Transactions expire within the run, and one needs the other.
- `votes_proxies`: five accounts and depth three (four in the code), so that a chain can be
  longer than the depth and a loop is prevented by the check and not by the depth.
  The propagation is linear in the stakes, so one coin is enough. Accounts are
  interchangeable (symmetry). `VotesProofs` removes these bounds.
- `ledger`: the percentages, the interest period and the supplies are scaled so that
  divisions leave remainders and each account has its turn for interests more than
  once within the five blocks.
- `escrow`: three times of blocks and two deadlines. `account_recovery`: the
  recovery period is longer than a request, and the run longer than both; the theorems
  remove the bounds.
- `node_threads`: each plan gives work to the threads whose interleavings matter together (blocks come from the peers in all of them,
  transactions in the one with asynchronous calls and the one with production); one
  transaction, since callbacks of different ones do not meet; two locks, so that the ring
  comes round. `SchedulingProofs` removes the bounds of the safety properties.
- `witness_schedule`: a lap of 23 units and up to three votes (41 and six in
  `WitnessTurns.cfg`) let the virtual clock come to its end within a few rounds. Slots are counted modulo a multiple of all sizes of a schedule. The proofs
  remove the bounds of the safety properties.
- `peer_sync`: lists of two ids, one block per request and one being pushed, a prefetch of four ids, for
  2000, 200, 200 and 10000 in the code; the longest chain, seven blocks, has more ids than the
  prefetch. `SyncSettles` promises that two nodes end in sync
  if what they lack fits the prefetch of ids (10000 in the code); beyond that it
  only promises that they come to rest. Up to two faults in `Behind`, one in `Split` and
  `Producing(2, 1)`, none with three nodes. In `Overtaken` a list of ids that is not empty meets a
  newer synopsis; with fewer blocks this does not happen between two nodes.

### Fairness

`FairSpec` of `ChainDatabase` is weak fairness of the steps of a `push_block` that is
under way: one thread holds the write lock and runs. Nothing makes
blocks arrive. `FairSpec` of `Escrow` is weak fairness of `apply_block`: witnesses keep
producing. No operation of a user is fair.

`FairThreadsSpec` of `NodeThreads` makes the threads run: the writing thread, the workers, the p2p
thread, the steps of a shutdown. Strong fairness stands for a mutex that lets no new reader in while a
writer waits, and for peers that keep making blocks. `FairSpec` of `WitnessSchedule`
says that blocks go on. `FairSpec` of `PeerSync`: a p2p thread that has something to
run runs, what has been sent over a connection that holds arrives, and the loop of timers
finds closing and stalled connections once nothing else happens. Timeouts of live
connections, breaks and new blocks are not fair.

## 4. What is proved

TLAPS proves these for all values of the constants that satisfy the ASSUMEs of the
modules, which TLC evaluates in the runs.

- `StorageProofs`, chainbase: `TypeCorrect`, `UndoExactness`, `UndoCannotThrow`,
  `RevisionNumbers`, `IdsFresh`, and `IndexImplementsStore`, the refinement. Exactness
  alone is not inductive: `squash` merges two undo states, so the invariant says of every state of the
  stack that reverting it from the version above gives the version saved, that its
  three parts are disjoint and consistent with these two versions, and that
  unique keys are unique in every version. `MergeIsExact` is the heart: the merge of
  two consistent states reverts to the lower version.
- `StorageProofs`, block log: `AlwaysReadsBack`, `AlwaysIndexComplete`, `AlwaysFlushedStays`, for
  any number of blocks and any loss of buffered bytes. The invariant `LogInv` says that both files and
  what is buffered for them are beginnings of the same list of blocks, so that whatever part a killed process wrote,
  `open` finds the index too short, too long or right, and mends it. The theorems begin with a log of at least two blocks:
  with one block `construct_index` writes nothing (see the table above).
- `AgreementProofs`, escrows: `AlwaysAllOrNothing`, `AlwaysRatifiedInTime`,
  `AlwaysApprovalIsFinal`, `AlwaysNothingLost`. The invariant is the balance of each escrow with what was
  paid, with the types and the deadline; each action touches one escrow (`OneEscrow`),
  except for the end of a block. The last theorem is about sums: every coin of the start is in
  a balance or in an open escrow.
- `AgreementProofs`, account recovery: `AlwaysRecoveryTypeOK`, `AlwaysHistoryIsRecent`, `AlwaysEndorserIsRecent`,
  `AlwaysOwnerCanReturn`, `AlwaysChangeIsDelayed`. The history is cleared only up to its
  first valid entry, so the invariant has its order in time; a request is
  bounded by the time the recovery account took office; a change carries its period. That
  the loop finds a first valid entry is the well-foundedness of the naturals.
- `LedgerProofs`, economic model: `InitialPools`, `FeeIsShared`, `MiningRewardIsCovered`,
  `InterestIsCovered`, `PromotionIsCovered`: whatever the percentages and amounts,
  rounding neither makes nor loses a coin and no pool goes below zero.
- `LedgerProofs`, ledger: `AlwaysSupplyIsHeld`, `AlwaysTotalIsAccounted`, `AlwaysWithdrawalIsExact`, for any
  accounts and any sequence of operations and blocks. The invariant `LedgerInv` has the types (no balance and no
  pool is negative), the supply as the sum of what accounts hold, the total with what the null account
  has swallowed, and for each withdrawal that its remainder is full payments and a rest and is covered by
  the shares of the account; without the last part a payment could exceed the shares and the sums would not
  be kept. The end of a block is followed step by step in the order of the code.
- `VotesProofs`: `AlwaysNoProxyLoop`, `AlwaysProxiedExact`, `AlwaysVotesExact`, `AlwaysCounted` and `AlwaysWithinSupply`, for
  any finite set of accounts, any witnesses, any recursion depth and chains of any length. `VotesInv` says that every chain of proxies ends,
  that an account with a proxy does not vote, that the votes of an account are as many as it has counted, and that since a hardfork that
  found nothing proxied both tallies are exact: what is proxied to an account on a level is the sum of the stakes
  of those that many hops below it, and the votes of a witness the stakes of those whose chain ends, within the depth, at an account
  that votes for it. Exactness alone is not inductive. A new proxy is two steps in the code, what the account has is taken from the old chain and
  brought to the new one, and the proof follows them: `ProxyTheorems` compares the hops, sums and ends of chains before and after a chain is cut
  at an account (`CutProxied`, `CutVotes`; then `TakenAway` and `BroughtTo` in `VotesProofs`). It needs that the new chain does not lead back to the account, which is what
  the check of the evaluator finds out; and that the account itself does not vote afterwards, or
  its stake would count twice. `recalculate_all_votes` is a fold over the accounts, and exact for those counted so far after each.
  `AlwaysWithinSupply` is the assertion that `VotesRecalculated.cfg` shows to fail, under the condition under which it holds.
- `SumTheorems`: what a sum over a finite set does when one or two of its terms change, and that it does not depend
  on the order in which the fold takes the terms. The induction is by a least counterexample, since the
  induction theorems of the library cannot be applied.
- `SchedulingProofs`, threads: `QueueIsSafe` for any number of callers, readers and locks, from
  `QueueInv`: a context in the queue or in the hands of the writing thread belongs to a caller that
  still waits, once, and an answer is stored before the promise is set.
  `ThreadsImplementQueue`: every step of `NodeThreads` is a step of `WriteQueue` or leaves its
  variables alone, so that `ContextsStayAlive` follows. `CallbacksAreOwned` needs what a
  worker's context points to while its callback is registered; `GeneratedBlocksAreDue` that a
  slot which was due when the main thread read the clock is due ever after.
- `SchedulingProofs`, witness schedule: `AlwaysConsistent`, `AlwaysFull`, `AlwaysInOrder`. The first
  bounds products and quotients of natural numbers: at its present speed nobody runs more than a lap by
  the time computed for it. For the second the first `n` of a strict order are counted; TLAPS
  cannot apply the induction theorems of its library, so induction on `n` is done by hand, with a least
  counterexample (`Least`). The third needs that nobody votes beyond the next hardfork.

- `ChainProofs`, for any tree of blocks, any witnesses, transactions and limits, with failures and
  crashes at every step. Without any condition: `ChainTypeCorrect`; `UndoHistoryBounded`; `AlwaysPendingApplies`, whose
  invariant says that while blocks are popped and applied nothing is pending; and `IrreversibleStaysRunning`: as long as
  the process is not killed, what callers have seen irreversible stays, since it is below the undo
  history (`SeenInv`) and nothing else is ever popped, whatever the fork database answers.
  Across crashes what counts is the log, and the log is filled from the fork database, whose head may be on
  another branch than the chain. `AlwaysLogIsOnChain` says that the log is nevertheless the beginning of the chain, under two
  conditions. `NextIsHeld`: the fork database has not dropped the chain's own block of the next number to be
  logged; it may hold others of that number, and the fetch may fail. `ManyWitnesses`: two witnesses or more, so that the last irreversible
  block is below the head (`LastIrreversibleBelow`), since a sibling of the head can be fetched in its place. The invariant is `LogInv`: the log is the beginning of the chain
  and does not reach into the undo history, and every block of the chain was valid where it is; together with `BranchInv`: while blocks are applied, the head of the fork
  database may be another block than the chain's, but it is a sibling of the one block that is pushed, or lies on the branch that is
  switched to, or back to. From this `FetchedIsOwn` concludes that a block fetched below the head is the chain's own or none. `AlwaysNoTransactionTwice` has the same conditions, since the log is what a node is opened with.
  `NextIsHeld` holds in the worlds of `chain` and in that of `chain_partition`, in which the fetch fails but the log stays right;
  `ChainStaleHead.cfg` shows how it fails.
  `AlwaysIrreversibleStays` and `AlwaysUndoReachesIrreversible` also need that the fetch does not fail, or the log stays behind
  what callers have seen. Their condition is `FetchedIsOnChain`: the block found for the next number exists and is the chain's
  own. Their invariant `DiskInv` adds to `LogInv` that the log ends where the undo history
  begins, except between `commit` and `append`, when it may end lower, and that the callers' view is in the log. TLC finds this
  condition true in the four worlds of `chain`; `chain_partition` and `ChainStaleHead.cfg` show the two ways in which it fails, so it
  is a hypothesis of these theorems and not one of them.

Only model-checked:

- liveness (`PushReturns`, `EventuallySettled`, `EveryCallReturns`, `ShutdownCompletes`, `TurnComes`,
  `HardforkHappens`, `SyncSettles`), which TLAPS does not handle;
- of the chain, `NextIsHeld` (outside the listed runs) and `FetchedIsOnChain` themselves (see above), `FailedPushUnwound` and `OnLongestBranch`, which hold only of branches that start
  above the last irreversible block, and depend on what the fork database still links; `NoTransactionLost`, which
  compares the lists of popped and pending transactions with an earlier chain, in order;
- everything about the peers: `PeerSync` uses recursive operators for its loops, and what `RequestsOwned` and `HonestNotBlamed` say
  of a node depends on how the other nodes answer, through every message under way.

## 5. What is not modelled, and the plan

`PROJECT.json` has the reason for each part. Abstracted within the modelled parts:
signatures and serialisation; checkpoints and skip flags of `push_block`; the widths of
products in `economics.cpp` (128 bits in the code); private networks (except for hardfork votes); the conversion of
fees from other currencies; active authorities, memo keys and metadata.

The map covers about one line in twenty of the implementation: `src/` also holds fc, the
wallet, APIs, external plugins, serialisation and command lines, which have little
state that a model would tell apart. What is modelled is the part in which the order of events matters.

`PROJECT.json` lists the hazards that the runs are about. Others met while modelling have a row in
the table of deviations, are covered by a property listed for a related hazard, or are one of these, which
nothing here checks:

- restarts of a node in the middle of a synchronization;
- products in `economics.cpp` that would not fit 128 bits.

Left to do, in this order:

1. Custom content (sequence numbers of senders and receivers), applications, sponsored
   fees, price feeds, bandwidth.
2. Sessions of chainbase over all indexes.
3. Three nodes with faults in `PeerSync`; the handshake and the exchange of addresses.
4. `WitnessSchedule` composed with `WitnessVotes`: votes change by any bounded amount now.
5. Proofs: `FailedPushUnwound` and `NoTransactionLost` of the chain, from an invariant that relates
   the blocks still to be applied, the branch left and the transactions put aside; the safety properties of `PeerSync`, with its loops written as folds.
