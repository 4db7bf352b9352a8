--------------------------- MODULE ChainDatabase ----------------------------
(***************************************************************************)
(* chain::database: pushing blocks and transactions, switching forks,      *)
(* making blocks irreversible, and opening again after a crash.            *)
(*                                                                         *)
(* The state that chainbase holds is a function of the blocks applied, so  *)
(* chain, the head block with its history, stands for all of it, and undo  *)
(* (exact by module UndoIndex) takes the last block off.  Everything runs  *)
(* under the write lock; one push_block is split into steps only because   *)
(* the process may be killed between any two of them.  The mapped memory   *)
(* survives that, with the undo states in it.                              *)
(***************************************************************************)
EXTENDS ForkDatabase, Functions

CONSTANTS
  Start,         \* the irreversible chain the node was opened with
  Txs,           \* transactions
  Expiration,    \* the slot at which a transaction expires
  Needs,         \* the transactions a transaction builds on
  MaxBlockTxs,   \* transactions that fit into a block
  Worlds         \* the networks considered, by name

\* One block's own part of its history.
Faults == {"none", "early", "late"}

Bodies == [slot : Nat, txs : Seq(Txs), fault : Faults]

\* What a node may find itself in: the blocks that peers send (some of which may
\* leave the chain below an irreversible block: deep), the number of scheduled witnesses
\* (wso.num_scheduled_witnesses), SOPHIATX_MAX_WITNESSES,
\* SOPHIATX_START_MINER_VOTING_BLOCK and SOPHIATX_MAX_UNDO_HISTORY, and two bounds: no
\* block is generated above number height or after slot last.
IsWorld(w) ==
  /\ DOMAIN w = {"net", "deep", "scheduled", "max_witnesses", "start_voting",
                 "max_undo", "height", "last"}
  /\ w.net \subseteq Seq(Bodies) \ {<< >>}
  /\ w.deep \in BOOLEAN /\ w.scheduled \in Nat \ {0}
  /\ w.max_witnesses \in Nat /\ w.start_voting \in Nat /\ w.max_undo \in Nat \ {0}
  /\ w.height \in Nat /\ w.last \in Nat

ASSUME ChainAssumption ==
  /\ MaxBlockTxs \in Nat /\ Expiration \in [Txs -> Nat] /\ Needs \in [Txs -> SUBSET Txs]
  /\ \A w \in DOMAIN Worlds : IsWorld(Worlds[w])

VARIABLES
  world,    \* the name of the network the node is in; it never changes
  chain,    \* the chainbase state: the head block with all its ancestors
  depth,    \* how many undo states of blocks there are to take off
  torn,     \* some effects of a block that failed were never undone
  fdb,      \* _fork_db
  log,      \* _block_log, as the sequence of its blocks
  pending,  \* _pending_tx
  popped,   \* _popped_tx
  stash,    \* _pending_transactions of the pending_transactions_restorer
  pc,       \* where push_block is, "idle" outside it
  mode,     \* which loop of _push_block applies blocks
  todo,     \* the blocks this loop still has to apply
  old,      \* the branch left by a fork switch, lowest block first
  failed,   \* push_block is going to throw
  before    \* history variable: the state in which push_block was called

vars == <<world, chain, depth, torn, fdb, log, pending, popped, stash, pc, mode, todo,
          old, failed, before>>

body(b) == b[Len(b)]

HeadSlot(c) == IF c = << >> THEN 0 ELSE body(c).slot

TxsOf(c) == UNION {Range(c[k].txs) : k \in 1 .. Len(c)}

-----------------------------------------------------------------------------
\* Irreversibility.

\* witness_object::last_confirmed_block_num of witness i; slot s belongs to witness
\* s % N.
last_confirmed(w, c, i) ==
  LET own == {k \in 1 .. Len(c) : c[k].slot % w.scheduled = i}
  IN IF own = {} THEN 0 ELSE CHOOSE k \in own : \A j \in own : j <= k

\* The last block that three quarters of the witnesses have confirmed: element
\* offset of the confirmed numbers in ascending order.
Confirmed(w, c) ==
  LET last == [i \in 0 .. w.scheduled - 1 |-> last_confirmed(w, c, i)]
      offset == (25 * w.scheduled) \div 100
  IN CHOOSE n \in 0 .. Len(c) :
        /\ Cardinality({i \in DOMAIN last : last[i] < n}) <= offset
        /\ Cardinality({i \in DOMAIN last : last[i] <= n}) > offset

\* What update_last_irreversible_block proposes after block n of chain c in world w.
Candidate(w, c, n) ==
  IF n < w.start_voting THEN Larger(0, n - w.max_witnesses) ELSE Confirmed(w, Ancestor(c, n))

\* dgp.last_irreversible_block_num: it never moves back along a chain.
last_irreversible(w, c) ==
  LET cs == {Candidate(w, c, n) : n \in 1 .. Len(c)} \cup {0}
  IN CHOOSE n \in cs : \A m \in cs : m <= n

Lib(c) == last_irreversible(Worlds[world], c)

\* What undo_all() brings back.
Base == Ancestor(chain, num(chain) - depth)

-----------------------------------------------------------------------------
\* Transactions.

\* Mutant: transactions are forgotten two slots early.
KnownTxs_Early(c) == {t \in TxsOf(c) : HeadSlot(c) + 2 <= Expiration[t]}

\* The transaction index: clear_expired_transactions has dropped the others.
KnownTxs(c) == {t \in TxsOf(c) : HeadSlot(c) <= Expiration[t]}

\* _apply_transaction on chain c after the transactions of sequence s.
Applies(t, c, s) ==
  /\ t \notin KnownTxs(c) \cup Range(s)
  /\ c # << >> => HeadSlot(c) < Expiration[t]
  /\ Needs[t] \subseteq TxsOf(c) \cup Range(s)

AllApply(ts, c) == \A i \in 1 .. Len(ts) : Applies(ts[i], c, SubSeq(ts, 1, i - 1))

\* Every block of the chain could be applied on top of those below it.
IsValid(c) == \A k \in 1 .. Len(c) : AllApply(c[k].txs, Ancestor(c, k - 1))

ASSUME StartAssumption == Start \in Seq(Bodies) /\ IsValid(Start)

\* Mutant: nothing is checked but that the transaction is not pending already.
Pushed_Unchecked(t, ts) == IF t \in Range(ts) THEN ts ELSE Append(ts, t)

\* is_known_transaction followed by _push_transaction.
Pushed(t, ts) == IF Applies(t, chain, ts) THEN Append(ts, t) ELSE ts

-----------------------------------------------------------------------------
Init ==
  /\ world \in DOMAIN Worlds
  /\ chain = Start /\ depth = 0 /\ torn = FALSE
  /\ fdb = IF Start = << >> THEN EmptyForkDb ELSE start_block(EmptyForkDb, Start)
  /\ log = BranchAbove(Start, 0)
  /\ pending = << >> /\ popped = << >> /\ stash = << >>
  /\ pc = "idle" /\ mode = "push" /\ todo = << >> /\ old = << >> /\ failed = FALSE
  /\ before = [chain |-> Start, txs |-> {}, irreversible |-> Start]

\* The highest block that callers of the database have seen irreversible.
SeenIrreversible ==
  IF pc = "idle" /\ Lib(chain) > num(before.irreversible)
  THEN Ancestor(chain, Lib(chain)) ELSE before.irreversible

\* The callers' view, recorded before it changes.
Remember == before' = [chain |-> chain, txs |-> TxsOf(chain) \cup Range(pending),
                       irreversible |-> SeenIrreversible]

\* push_block up to the first change of the chain: the pending transactions are
\* set aside and the fork database decides what happens next.
BeginPush(b) ==
  /\ Remember
  /\ stash' = pending /\ pending' = << >>
  /\ IF ~ CanPush(fdb, b)
     THEN /\ failed' = TRUE /\ pc' = "restore_pending"
          /\ UNCHANGED <<fdb, mode, todo, old>>
     ELSE LET f == push_block(fdb, b)
              h == f.head
          IN /\ fdb' = f
             /\ IF previous(h) = chain
                THEN /\ mode' = "push" /\ todo' = <<b>> /\ old' = << >>
                     /\ pc' = "apply" /\ failed' = FALSE
                ELSE IF num(h) <= num(chain)
                THEN /\ pc' = "restore_pending" /\ failed' = FALSE
                     /\ UNCHANGED <<mode, todo, old>>
                ELSE IF ~ CanFetchBranches(f, h, chain)
                THEN /\ pc' = "restore_pending" /\ failed' = TRUE
                     /\ UNCHANGED <<mode, todo, old>>
                ELSE /\ mode' = "switch" /\ pc' = "pop" /\ failed' = FALSE
                     /\ todo' = BranchAbove(h, ForkPoint(h, chain))
                     /\ old' = BranchAbove(chain, ForkPoint(h, chain))
  /\ UNCHANGED <<chain, depth, torn, log, popped>>

receive_block ==
  pc = "idle" /\ UNCHANGED world /\ \E b \in Worlds[world].net : BeginPush(b)

\* The transactions a generated block takes: not expired, applicable in order,
\* and no more than fit.
Selected(slot) ==
  LET picked[n \in 0 .. Len(pending)] ==
        IF n = 0 THEN << >>
        ELSE IF Expiration[pending[n]] >= slot /\ Len(picked[n - 1]) < MaxBlockTxs
        THEN Pushed(pending[n], picked[n - 1])
        ELSE picked[n - 1]
  IN picked[Len(pending)]

generate_block ==
  /\ pc = "idle" /\ UNCHANGED world /\ num(chain) < Worlds[world].height
  /\ \E s \in HeadSlot(chain) + 1 .. Worlds[world].last :
        BeginPush(Append(chain, [slot |-> s, txs |-> Selected(s), fault |-> "none"]))

push_transaction ==
  /\ pc = "idle" /\ UNCHANGED world
  /\ \E t \in Txs : /\ Applies(t, chain, pending)
                    /\ pending' = Append(pending, t)
  /\ Remember
  /\ UNCHANGED <<chain, depth, torn, fdb, log, popped, stash, pc, mode, todo, old, failed>>
-----------------------------------------------------------------------------
\* The loops of _push_block.

\* session's destructor, or undo(): nothing happens if no undo state is left.
Undone == IF depth > 0 THEN previous(chain) ELSE chain

LessDeep == IF depth > 0 THEN depth - 1 ELSE 0

\* fetch_block_by_id finds the block in the fork database or in the log.
IsKnownBlock(b) == b \in fdb.index \/ b \in Range(log)

\* Mutant: the transactions of a block go behind those of the block above it.
pop_Reversed ==
  /\ pc = "pop" /\ UNCHANGED world
  /\ IF chain = previous(old[1])
     THEN /\ pc' = "apply"
          /\ UNCHANGED <<chain, depth, fdb, popped, failed>>
     ELSE IF ~ IsKnownBlock(chain) \/ ~ CanPop(fdb)
     THEN /\ pc' = "restore_pending" /\ failed' = TRUE
          /\ UNCHANGED <<chain, depth, fdb, popped>>
     ELSE /\ fdb' = pop_block(fdb)
          /\ chain' = Undone /\ depth' = LessDeep
          /\ popped' = popped \o body(chain).txs
          /\ UNCHANGED <<pc, failed>>
  /\ UNCHANGED <<torn, log, pending, stash, mode, todo, old, before>>

\* Pop blocks until the chain is where the two branches meet.
pop ==
  /\ pc = "pop" /\ UNCHANGED world
  /\ IF chain = previous(old[1])
     THEN /\ pc' = "apply"
          /\ UNCHANGED <<chain, depth, fdb, popped, failed>>
     ELSE IF ~ IsKnownBlock(chain) \/ ~ CanPop(fdb)
     THEN /\ pc' = "restore_pending" /\ failed' = TRUE
          /\ UNCHANGED <<chain, depth, fdb, popped>>
     ELSE /\ fdb' = pop_block(fdb)
          /\ chain' = Undone /\ depth' = LessDeep
          /\ popped' = body(chain).txs \o popped
          /\ UNCHANGED <<pc, failed>>
  /\ UNCHANGED <<torn, log, pending, stash, mode, todo, old, before>>

\* Mutant: the branch that was left is not applied again.
ApplyFailed_NoWayBack ==
  /\ failed' = TRUE
  /\ fdb' = Erased(fdb, Range(todo)) /\ pc' = "restore_pending"
  /\ UNCHANGED <<log, pending, popped, stash, mode, todo, old, before>>

\* What the exception of a block that cannot be applied leads to: give up, or
\* go back to the branch that was left.
ApplyFailed ==
  /\ failed' = TRUE
  /\ CASE mode = "push" ->
            /\ fdb' = remove(fdb, Head(todo)) /\ pc' = "restore_pending"
            /\ UNCHANGED <<mode, todo>>
       [] mode = "switch" ->
            /\ fdb' = [Erased(fdb, Range(todo)) EXCEPT !.head = old[Len(old)]]
            /\ mode' = "back" /\ todo' = old /\ pc' = "pop"
       [] mode = "back" ->
            /\ pc' = "restore_pending" /\ UNCHANGED <<fdb, mode, todo>>
  /\ UNCHANGED <<log, pending, popped, stash, old, before>>

\* The checks of _apply_block before anything is made irreversible, the limit of
\* the undo history the last of them.
CanApply(b) ==
  /\ previous(b) = chain
  /\ HeadSlot(chain) < body(b).slot
  /\ body(b).fault # "early"
  /\ AllApply(body(b).txs, chain)
  /\ num(b) - Lib(chain) < Worlds[world].max_undo

\* start_undo_session and _apply_block up to update_signing_witness.
apply_block ==
  /\ pc = "apply" /\ UNCHANGED world
  /\ IF todo = << >>
     THEN /\ pc' = "restore_pending"
          /\ UNCHANGED <<chain, depth, torn, fdb, log, pending, popped, stash, mode, todo,
                         old, failed, before>>
     ELSE IF CanApply(Head(todo))
     THEN /\ chain' = Head(todo) /\ depth' = depth + 1 /\ pc' = "commit"
          /\ UNCHANGED <<torn, fdb, log, pending, popped, stash, mode, todo, old, failed,
                         before>>
     ELSE /\ ApplyFailed
          /\ UNCHANGED <<chain, depth, torn>>

\* An exception after commit(): only what still has an undo state is undone.
LateFailure ==
  /\ chain' = Undone /\ depth' = LessDeep /\ torn' = (torn \/ depth = 0)
  /\ ApplyFailed

\* Mutant: one undo state too many is dropped.
commit_OneMore ==
  /\ pc = "commit" /\ UNCHANGED world
  /\ depth' = IF depth > num(chain) - Lib(chain)
              THEN Larger(0, num(chain) - Lib(chain) - 1) ELSE depth
  /\ pc' = "append"
  /\ UNCHANGED <<chain, torn, fdb, log, pending, popped, stash, mode, todo, old, failed,
                 before>>

\* Mutant: nothing is ever committed.
commit_Never ==
  /\ pc = "commit" /\ pc' = "append" /\ UNCHANGED world
  /\ UNCHANGED <<chain, depth, torn, fdb, log, pending, popped, stash, mode, todo, old,
                 failed, before>>

\* update_last_irreversible_block: the undo states up to the new number go ...
commit ==
  /\ pc = "commit" /\ UNCHANGED world
  /\ depth' = IF depth > num(chain) - Lib(chain) THEN num(chain) - Lib(chain) ELSE depth
  /\ pc' = "append"
  /\ UNCHANGED <<chain, torn, fdb, log, pending, popped, stash, mode, todo, old, failed,
                 before>>

\* ... the blocks up to it are written to the log, and the fork database
\* forgets what lies below.
append ==
  /\ pc = "append" /\ UNCHANGED world
  /\ LET b == fetch_block_on_main_branch_by_number(fdb, Len(log) + 1)
     IN IF Len(log) >= Lib(chain)
        THEN /\ fdb' = set_max_size(fdb, num(chain) - Lib(chain) + 1)
             /\ pc' = "finish"
             /\ UNCHANGED <<chain, depth, torn, log, pending, popped, stash, mode, todo,
                            old, failed, before>>
        ELSE IF b # NoBlock
        THEN /\ log' = Append(log, b)
             /\ UNCHANGED <<chain, depth, torn, fdb, pending, popped, stash, pc, mode,
                            todo, old, failed, before>>
        ELSE LateFailure

\* The rest of apply_block, and session.push().
finish ==
  /\ pc = "finish" /\ UNCHANGED world
  /\ IF body(chain).fault = "late"
     THEN LateFailure
     ELSE /\ todo' = Tail(todo) /\ pc' = "apply"
          /\ UNCHANGED <<chain, depth, torn, fdb, log, pending, popped, stash, mode, old,
                         failed, before>>

\* The destructor of pending_transactions_restorer, one transaction at a time:
\* first those of the popped blocks, then those that were pending.
restore_pending ==
  /\ pc = "restore_pending" /\ UNCHANGED world
  /\ IF popped # << >>
     THEN /\ pending' = Pushed(Head(popped), pending) /\ popped' = Tail(popped)
          /\ UNCHANGED <<stash, pc>>
     ELSE IF stash # << >>
     THEN /\ pending' = Pushed(Head(stash), pending) /\ stash' = Tail(stash)
          /\ UNCHANGED <<popped, pc>>
     ELSE /\ pc' = "idle"
          /\ UNCHANGED <<pending, popped, stash>>
  /\ UNCHANGED <<chain, depth, torn, fdb, log, mode, todo, old, failed, before>>

\* The process is killed and started again.  open() undoes everything that can
\* be undone and compares the head with the log; when they disagree the chain
\* plugin replays the log.
crash_and_open ==
  LET agrees == Base # << >> => num(Base) <= Len(log) /\ log[num(Base)] = Base
      c == IF agrees THEN Base ELSE IF log = << >> THEN << >> ELSE log[Len(log)]
  IN /\ chain' = c /\ depth' = 0
     /\ torn' = (agrees /\ (torn \/ (pc \in {"append", "finish"} /\ depth = 0)))
     /\ fdb' = IF c = << >> THEN EmptyForkDb
               ELSE IF agrees THEN start_block(EmptyForkDb, c)
               ELSE start_block([EmptyForkDb EXCEPT !.max_size = num(c) - Lib(c) + 1], c)
     /\ pending' = << >> /\ popped' = << >> /\ stash' = << >>
     /\ pc' = "idle" /\ mode' = "push" /\ todo' = << >> /\ old' = << >> /\ failed' = FALSE
     /\ before' = [chain |-> c, txs |-> {}, irreversible |-> SeenIrreversible]
     /\ UNCHANGED <<world, log>>

Step == pop \/ apply_block \/ commit \/ append \/ finish \/ restore_pending

Next == receive_block \/ generate_block \/ push_transaction \/ Step \/ crash_and_open

Spec == Init /\ [][Next]_vars

\* pop_block leaves everything as it is: its caller's loop never ends.
Spinning ==
  /\ pc = "pop" /\ chain # previous(old[1]) /\ IsKnownBlock(chain) /\ CanPop(fdb)
  /\ pop_block(fdb) = fdb /\ Undone = chain /\ body(chain).txs = << >>

\* The thread that holds the write lock keeps running: a push_block that is under way
\* goes on to change something, unless it is in a loop that changes nothing.  (This is
\* WF_vars(Step), written without ENABLED: in every other place of push_block a step
\* changes pc or one of the sequences.)
FairSpec == Spec /\ ([]<>(pc = "idle") \/ <>[]Spinning \/ []<><<TRUE>>_vars)

-----------------------------------------------------------------------------
(***************************************************************************)
(* Properties.                                                             *)
(***************************************************************************)

\* The log is the beginning of the chain, block by block, even while a fork
\* switch is under way and whenever the process is killed: what
\* update_last_irreversible_block writes is never on another branch.
LogIsOnChain ==
  /\ Len(log) <= num(chain)
  /\ \A n \in 1 .. Len(log) : log[n] = Ancestor(chain, n)

\* A block that callers have seen irreversible stays in the chain, across fork
\* switches, failures and crashes.
IrreversibleStays ==
  pc = "idle" => /\ num(before.irreversible) <= num(chain)
                 /\ before.irreversible = Ancestor(chain, num(before.irreversible))

\* Between two calls the undo states reach back exactly to the last irreversible
\* block, or to the block the node was opened at, and that block is in the log; they
\* never outgrow SOPHIATX_MAX_UNDO_HISTORY.
UndoReachesIrreversible ==
  pc = "idle" => /\ depth <= num(chain) - Lib(chain)
                 /\ num(Base) = Len(log)
                 /\ depth < Worlds[world].max_undo

\* push_block "may fail" in which case every partial change is unwound: the chain
\* is what it was.
FailedPushUnwound ==
  ~ Worlds[world].deep /\ pc = "idle" /\ failed => chain = before.chain /\ ~ torn

\* No transaction is ever twice in the chain: the transaction index forgets it
\* only when its expiration keeps it out.
NoTransactionTwice ==
  \A j, k \in 1 .. Len(chain) : \A t \in Range(chain[j].txs) :
     /\ t \in Range(chain[k].txs) => j = k
     /\ Cardinality({i \in 1 .. Len(chain[j].txs) : chain[j].txs[i] = t}) = 1

\* A push_block, with or without a fork switch, loses no transaction: what was in
\* the chain or pending before is so afterwards unless it can no longer be applied.
NoTransactionLost ==
  pc = "idle" => \A t \in before.txs :
     t \in TxsOf(chain) \cup Range(pending) \/ ~ Applies(t, chain, pending)

\* The pending transactions can be applied in their order on top of the chain, so
\* that a block generated from them is valid.
PendingApplies ==
  pc = "idle" => AllApply(pending, chain)

\* The node is on the longest branch it knows of.
OnLongestBranch ==
  ~ Worlds[world].deep /\ pc = "idle" => \A b \in fdb.index : num(b) <= num(chain)

\* "Every time a block is pushed into the fork DB the block with the highest
\* block_num will be returned."
HighestBlockReturned ==
  pc = "apply" /\ mode = "push" =>
     fdb.head \in fdb.index /\ \A b \in fdb.index : num(b) <= num(fdb.head)

\* "Current fork in the fork database does not contain the
\* last_irreversible_block": the assertion that the block to be logged is there.
MainBranchHasIrreversible ==
  ~ Worlds[world].deep /\ pc = "append" /\ Len(log) < Lib(chain)
     => fetch_block_on_main_branch_by_number(fdb, Len(log) + 1) # NoBlock

\* What the fork database finds for the next block to be logged is there and is the
\* chain's own block of that number, never one of another branch.
FetchedIsOnChain ==
  pc = "append" /\ Len(log) < Lib(chain)
     => LET b == fetch_block_on_main_branch_by_number(fdb, Len(log) + 1)
        IN b # NoBlock /\ b = Ancestor(chain, Len(log) + 1)

\* push_block returns, whatever happens in it.
PushReturns == []<>(pc = "idle")
=============================================================================
