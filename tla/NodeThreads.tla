----------------------------- MODULE NodeThreads -----------------------------
(***************************************************************************)
(* The threads of a node around the write queue: the workers of the        *)
(* webserver that serve network_broadcast_api, the p2p thread that hands   *)
(* over what peers send, and the main thread, which produces blocks (the   *)
(* witness plugin) and in the end shuts the plugins down.                  *)
(*                                                                         *)
(* Times are counted in slots.  Of the chain only what the threads look    *)
(* at is kept: the time of the head block, which schedule is in force, and *)
(* the transactions in the chain and pending.                              *)
(***************************************************************************)
EXTENDS WriteQueue, FiniteSets

CONSTANTS
  Worker,      \* threads of the webserver's pool
  Tx,          \* transactions
  Expiration,  \* the time at which a transaction expires
  Ours,        \* for each schedule, the times at which it is our witness's turn
  Future,      \* allow_future_time
  Order,       \* the plugins in the order in which they were started
  Scenarios,   \* bounds: which threads get work to do, which calls the workers
               \* serve, when the clock starts, and which schedules come into force
  MaxClock     \* bound: the clock stops here, and peers make no later block

main == "main"
p2p == "p2p"

ASSUME ThreadAssumption ==
  /\ Caller = Worker \cup {main, p2p} /\ main \notin Worker /\ p2p \notin Worker
  /\ Expiration \in [Tx -> Nat] /\ Future \in Nat /\ MaxClock \in Nat

ASSUME ClockAssumption == \A p \in Scenarios : p.clock \in Nat

VARIABLES
  now,          \* the clock
  head_block,   \* time of the head block, and the schedule after it
  included,     \* the transactions in the chain
  pending,      \* _pending_tx
  pc,           \* where each thread is
  req,          \* what its context points to
  callbacks,    \* _callbacks: for a transaction, the worker that waits for it
  expirations,  \* _callback_expirations
  promised,     \* the workers whose confirmation has been set
  prod,         \* the locals of maybe_produce_block
  production_enabled, \* _production_enabled
  scenario,     \* the plan followed
  closing       \* how many plugins have been asked to shut down

chainVars == <<head_block, included, pending>>

apiVars == <<callbacks, expirations, promised>>

threadVars == <<queueVars, lockVars, chainVars, apiVars, now, pc, req, prod, production_enabled,
                scenario, closing>>

NoReq == [kind |-> "none"]

\* The context of a call: a transaction, which broadcast_transaction_synchronous waits
\* for (sync), a block not later than limit, or a block to be made.
TxReq(t, sync) == [kind |-> "tx", tx |-> t, sync |-> sync]
BlockReq(limit) == [kind |-> "block", limit |-> limit, sync |-> FALSE]
GenerateReq(when) == [kind |-> "generate", when |-> when]

Locals == [now |-> 0, slot |-> 0]

ThreadsInit ==
  /\ QueueInit
  /\ scenario \in Scenarios
  /\ now = scenario.clock /\ head_block = [time |-> 0, order |-> 1]
  /\ included = {} /\ pending = {}
  /\ pc = [c \in Caller |-> "idle"] /\ req = [c \in Caller |-> NoReq]
  /\ callbacks = [t \in {} |-> main] /\ expirations = {} /\ promised = {}
  /\ prod = Locals /\ production_enabled = FALSE /\ closing = 0

tick ==
  /\ now < MaxClock /\ now' = now + 1
  /\ UNCHANGED <<queueVars, lockVars, chainVars, apiVars, pc, req, prod, production_enabled, scenario,
                 closing>>

\* The latest time of a block that check_time_in_block lets through.
Latest == IF now + Future < MaxClock THEN now + Future ELSE MaxClock

\* Mutant: plugins are shut down in the order in which they were started.
Victim_Forward(i) == Order[i]

\* The i-th plugin that application::shutdown turns to: last started, first stopped.
Victim(i) == Order[Len(Order) + 1 - i]

\* A plugin runs until its turn comes.
Closed(plugin) == \E i \in 1 .. closing : Victim(i) = plugin

-----------------------------------------------------------------------------
(***************************************************************************)
(* What the writing thread does with a request.                            *)
(***************************************************************************)

\* Mutant: nobody is told that a transaction has expired.
on_applied_block_NoLate(b) ==
  LET told == DOMAIN callbacks \cap b.txs
  IN /\ promised' = promised \cup {callbacks[t] : t \in told}
     /\ callbacks' = [t \in DOMAIN callbacks \ told |-> callbacks[t]]
     /\ UNCHANGED expirations

\* on_applied_block of network_broadcast_api, under its mutex: who waits for a
\* transaction of the block, or for one that has expired, gets the answer.
on_applied_block(b) ==
  LET late == {t \in expirations : Expiration[t] < b.time}
      told == DOMAIN callbacks \cap (b.txs \cup late)
  IN /\ promised' = promised \cup {callbacks[t] : t \in told}
     /\ callbacks' = [t \in DOMAIN callbacks \ told |-> callbacks[t]]
     /\ expirations' = expirations \ late

\* The transactions that the restorer can apply again on a new head.
Restored(txs, time) == {t \in txs : time < Expiration[t]}

\* A block on top of the head ...
Extends(b) ==
  /\ b.time > head_block.time /\ b.txs \cap included = {}
  /\ \A t \in b.txs : head_block.time < Expiration[t]

extend(b) ==
  /\ \E o \in scenario.schedules : head_block' = [time |-> b.time, order |-> o]
  /\ included' = included \cup b.txs
  /\ pending' = Restored(pending \ b.txs, b.time)

\* ... or one that makes another branch the longest, on which the head may be
\* older; the transactions of the branch that was left are pending again.
switch(b) ==
  /\ \E o \in scenario.schedules : head_block' = [time |-> b.time, order |-> o]
  /\ included' = b.txs
  /\ pending' = Restored((pending \cup included) \ b.txs, b.time)

\* push_block.  A branch may turn out to be invalid after b, one of its blocks, has been
\* applied: it is left for the old one again.
visit_block(b) ==
  \/ /\ b.fork \/ Extends(b)
     /\ visit("ok") /\ on_applied_block(b) /\ IF b.fork THEN switch(b) ELSE extend(b)
  \/ ~ b.fork /\ ~ Extends(b) /\ visit("throw") /\ UNCHANGED <<chainVars, apiVars>>
  \/ b.fork /\ visit("throw") /\ on_applied_block(b) /\ UNCHANGED chainVars

NewBlock(time, txs, fork) == [time |-> time, txs |-> txs, fork |-> fork]

\* push_transaction.
visit_transaction(t) ==
  /\ IF t \in included \cup pending \/ head_block.time >= Expiration[t]
     THEN visit("throw") /\ UNCHANGED pending
     ELSE visit("ok") /\ pending' = pending \cup {t}
  /\ UNCHANGED <<head_block, included, apiVars>>

\* Mutant: the witness plugin's word is taken for it.
CanGenerate_Trusting(when) == TRUE

\* The checks at the beginning of _generate_block.
CanGenerate(when) == when > head_block.time /\ when \in Ours[head_block.order]

visit_generate(when) ==
  IF CanGenerate(when)
  THEN LET b == [time |-> when, txs |-> {t \in pending : Expiration[t] >= when}]
       IN visit("ok") /\ on_applied_block(b) /\ extend(b)
  ELSE visit("throw") /\ UNCHANGED <<chainVars, apiVars>>

\* Which block a peer sent is decided here, where it first matters; its time was
\* compared with the clock when it came.
write_processing ==
  /\ \/ /\ writer = "locked"
        /\ LET r == req[cxt] IN
           \/ r.kind = "block"
              /\ \E time \in 1 .. r.limit, txs \in SUBSET Tx, fork \in BOOLEAN :
                    visit_block(NewBlock(time, txs, fork))
           \/ r.kind = "tx" /\ visit_transaction(r.tx)
           \/ r.kind = "generate" /\ visit_generate(r.when)
     \/ WriterStep /\ UNCHANGED <<chainVars, apiVars>>
  /\ UNCHANGED <<now, pc, req, prod, production_enabled, scenario, closing>>

-----------------------------------------------------------------------------
(***************************************************************************)
(* network_broadcast_api, one call at a time in each worker.               *)
(***************************************************************************)
Goto(c, where) == pc' = [pc EXCEPT ![c] = where]

Others(c) == UNCHANGED <<chainVars, now, prod, production_enabled, scenario, closing, lockVars>>

\* The call ends, and its promise with it.
leave_call(w) ==
  /\ Goto(w, "idle") /\ req' = [req EXCEPT ![w] = NoReq] /\ promised' = promised \ {w}

\* broadcast_transaction_synchronous: the callback is registered, unless there is
\* one for this transaction.
register(w, t) ==
  /\ pc[w] = "idle" /\ ~ Closed("webserver") /\ w \in scenario.threads
  /\ t \notin DOMAIN callbacks
  /\ callbacks' = [u \in DOMAIN callbacks \cup {t} |-> IF u = t THEN w ELSE callbacks[u]]
  /\ expirations' = expirations \cup {t} /\ UNCHANGED promised
  /\ req' = [req EXCEPT ![w] = TxReq(t, TRUE)]
  /\ Goto(w, "registered") /\ Others(w) /\ UNCHANGED queueVars

\* broadcast_transaction and broadcast_block.
begin(w) ==
  /\ pc[w] = "idle" /\ ~ Closed("webserver") /\ w \in scenario.threads /\ scenario.plain
  /\ \E r \in {TxReq(t, FALSE) : t \in Tx} \cup {BlockReq(Latest)} :
        req' = [req EXCEPT ![w] = r]
  /\ Goto(w, "registered") /\ Others(w) /\ UNCHANGED <<queueVars, apiVars>>

accept(w) ==
  /\ pc[w] = "registered" /\ submit(w) /\ Goto(w, "submitted")
  /\ Others(w) /\ UNCHANGED <<apiVars, req>>

accepted(w) ==
  /\ pc[w] = "submitted" /\ return(w)
  /\ Goto(w, IF result[w] = "ok" THEN "broadcast" ELSE "failed")
  /\ Others(w) /\ UNCHANGED <<apiVars, req>>

\* Mutant: the callback stays.
failed_Keeps(w) ==
  /\ pc[w] = "failed" /\ leave_call(w)
  /\ Others(w) /\ UNCHANGED <<queueVars, callbacks, expirations>>

\* The exception handler takes the callback back, if it is still there.
failed(w) ==
  /\ pc[w] = "failed" /\ leave_call(w)
  /\ callbacks' = [t \in DOMAIN callbacks \ (IF req[w].sync THEN {req[w].tx} ELSE {})
                    |-> callbacks[t]]
  /\ Others(w) /\ UNCHANGED <<queueVars, expirations>>

\* broadcast() is carried out by the p2p thread, between its own jobs.
broadcast(w) ==
  /\ pc[w] = "broadcast" /\ pc[p2p] = "idle"
  /\ IF req[w].sync THEN Goto(w, "await") /\ UNCHANGED <<req, promised>> ELSE leave_call(w)
  /\ Others(w) /\ UNCHANGED <<queueVars, callbacks, expirations>>

confirmed(w) ==
  /\ pc[w] = "await" /\ w \in promised /\ leave_call(w)
  /\ Others(w) /\ UNCHANGED <<queueVars, callbacks, expirations>>

WorkerStep(w) ==
  \/ accept(w) \/ accepted(w) \/ failed(w) \/ broadcast(w) \/ confirmed(w)

-----------------------------------------------------------------------------
(***************************************************************************)
(* The p2p thread.                                                         *)
(***************************************************************************)

\* The thread runs its tasks in turn: a broadcast that waits for it comes first.
Receptive == pc[p2p] = "idle" /\ \A c \in Caller : pc[c] # "broadcast"

receive(r) ==
  /\ req' = [req EXCEPT ![p2p] = r]
  /\ submit(p2p) /\ Goto(p2p, "submitted") /\ Others(p2p) /\ UNCHANGED apiVars

\* handle_block, which does nothing once the plugin is being shut down.
handle_block == Receptive /\ ~ Closed("p2p") /\ receive(BlockReq(Latest))

\* Blocks come in every plan, transactions in those that give the p2p thread work.
handle_transaction ==
  /\ Receptive /\ p2p \in scenario.threads
  /\ \E t \in Tx : receive(TxReq(t, FALSE))

handled ==
  /\ pc[p2p] = "submitted" /\ return(p2p) /\ Goto(p2p, "idle")
  /\ req' = [req EXCEPT ![p2p] = NoReq] /\ Others(p2p) /\ UNCHANGED apiVars

-----------------------------------------------------------------------------
(***************************************************************************)
(* The main thread.                                                        *)
(***************************************************************************)
Api == UNCHANGED <<apiVars, chainVars, now, lockVars>>

\* get_slot_time(slot) with the head as it is now, and get_slot_at_time.
SlotTime(slot) == head_block.time + slot

SlotAt(time) == IF time < SlotTime(1) THEN 0 ELSE time - SlotTime(1) + 1

\* maybe_produce_block reads the clock, and looks at the head without a lock, four times:
\* are we in sync, unless we have been before, ...
production_synced ==
  /\ pc[main] = "idle" /\ main \in scenario.threads
  /\ production_enabled \/ SlotTime(1) >= now
  /\ production_enabled' = TRUE /\ prod' = [now |-> now, slot |-> 0]
  /\ Goto(main, "synced") /\ Api /\ UNCHANGED <<queueVars, req, scenario, closing>>

\* ... which slot is it, ...
production_slot ==
  /\ pc[main] = "synced"
  /\ LET slot == SlotAt(prod.now)
     IN IF slot = 0 THEN Goto(main, "idle") /\ prod' = Locals
        ELSE Goto(main, "slot") /\ prod' = [now |-> prod.now, slot |-> slot]
  /\ Api /\ UNCHANGED <<queueVars, req, production_enabled, scenario, closing>>

\* ... whose slot is it, ...
production_witness ==
  /\ pc[main] = "slot"
  /\ LET mine == SlotTime(prod.slot) \in Ours[head_block.order]
     IN Goto(main, IF mine THEN "witness" ELSE "idle") /\ prod' = IF mine THEN prod ELSE Locals
  /\ Api /\ UNCHANGED <<queueVars, req, production_enabled, scenario, closing>>

\* ... and when is it.  Without the key, with too few witnesses taking part, or
\* off the time of the slot, no block is made.
production_time ==
  /\ pc[main] = "witness"
  /\ \/ /\ SlotTime(prod.slot) = prod.now
        /\ req' = [req EXCEPT ![main] = GenerateReq(SlotTime(prod.slot))]
        /\ submit(main) /\ Goto(main, "submitted")
     \/ Goto(main, "idle") /\ UNCHANGED <<queueVars, req>>
  /\ prod' = Locals /\ Api /\ UNCHANGED <<production_enabled, scenario, closing>>

\* generate_block returns; the block is broadcast by the p2p thread.
produced ==
  /\ pc[main] = "submitted" /\ return(main)
  /\ Goto(main, IF result[main] = "ok" THEN "broadcast" ELSE "idle")
  /\ req' = [req EXCEPT ![main] = NoReq] /\ Api /\ UNCHANGED <<prod, production_enabled, scenario, closing>>

broadcast_block ==
  /\ pc[main] = "broadcast" /\ pc[p2p] = "idle" /\ Goto(main, "idle")
  /\ Api /\ UNCHANGED <<queueVars, req, prod, production_enabled, scenario, closing>>

ProductionStep ==
  \/ production_synced \/ production_slot \/ production_witness \/ production_time
  \/ produced \/ broadcast_block

\* A signal is handled between two jobs of the main thread; exec() then calls
\* shutdown(): plugin_shutdown of one plugin after the other.
quit ==
  /\ pc[main] = "idle" /\ Goto(main, "shutdown")
  /\ Api /\ UNCHANGED <<queueVars, req, prod, production_enabled, scenario, closing>>

shutdown ==
  /\ pc[main] = "shutdown" /\ closing < Len(Order)
  /\ closing' = closing + 1 /\ Goto(main, "closing")
  /\ IF Victim(closing + 1) = "chain"
     THEN stop ELSE UNCHANGED <<queueVars, lockVars>>
  /\ UNCHANGED <<apiVars, chainVars, now, req, prod, production_enabled, scenario>>

\* stop_webserver joins the workers, node::close waits for the p2p thread, and
\* stop_write_processing joins the writing thread.
shut_down ==
  LET plugin == Victim(closing)
  IN /\ pc[main] = "closing"
     /\ plugin = "webserver" => \A w \in Worker : pc[w] = "idle"
     /\ plugin = "p2p" => pc[p2p] = "idle"
     /\ plugin = "chain" => writer = "stopped"
     /\ pc' = [pc EXCEPT ![main] = "shutdown",
                         ![p2p] = IF plugin = "p2p" THEN "closed" ELSE @]
     /\ Api /\ UNCHANGED <<queueVars, req, prod, production_enabled, scenario, closing>>

ShutdownStep == shutdown \/ shut_down

\* Readers: any thread, with_read_lock.
read(r) ==
  /\ ReaderStep(r)
  /\ UNCHANGED <<chainVars, apiVars, now, pc, req, prod, production_enabled, scenario, closing>>

\* The process has ended.
Down == pc[main] = "shutdown" /\ closing = Len(Order)

-----------------------------------------------------------------------------
ThreadsNext ==
  \/ tick \/ write_processing \/ handle_block \/ handle_transaction \/ handled
  \/ ProductionStep \/ quit \/ ShutdownStep
  \/ \E w \in Worker : WorkerStep(w) \/ begin(w) \/ \E t \in Tx : register(w, t)
  \/ \E r \in Reader \cap scenario.threads : read(r)

ThreadsSpec == ThreadsInit /\ [][ThreadsNext]_threadVars

lock_taken == writer = "popped" /\ write_processing /\ writer' = "locked"

\* A block arrives that is later than everything before.
latest_block == writer = "locked" /\ write_processing /\ head_block'.time = MaxClock

\* Every thread runs, and the peers go on making blocks.  No call is fair, and no
\* reader: one that never gives its lock back stops nobody.  A mutex lets no reader in
\* while a writer waits for it, so that readers do not always come first.
FairThreadsSpec ==
  /\ ThreadsSpec /\ WF_threadVars(write_processing) /\ SF_threadVars(lock_taken)
  /\ WF_threadVars(handled)
  /\ SF_threadVars(handle_block) /\ SF_threadVars(latest_block) /\ SF_threadVars(ShutdownStep)
  /\ \A w \in Worker : WF_threadVars(WorkerStep(w))

-----------------------------------------------------------------------------
(***************************************************************************)
(* Properties.                                                             *)
(***************************************************************************)

\* A callback refers to a promise on the stack of the worker that registered it:
\* as long as it is registered, this worker is still in the call for this very
\* transaction, and the promise, which can be set only once, is not set.
CallbacksOwned ==
  \A t \in DOMAIN callbacks :
     /\ pc[callbacks[t]] # "idle" /\ req[callbacks[t]].tx = t
     /\ callbacks[t] \notin promised

\* The witness plugin chose the slot from a head it did not lock; whatever happened
\* since, a block it generates is for a slot of our witness in the schedule of the
\* block below, after that block, and not ahead of the clock.
GeneratedIsDue ==
  [][writer = "locked" /\ req[cxt].kind = "generate" /\ head_block' # head_block
       => /\ head_block'.time > head_block.time /\ head_block'.time <= now
          /\ head_block'.time \in Ours[head_block.order]]_threadVars

\* "this assert should not fail, because now <= db->head_block_time() should have
\* resulted in slot == 0".
AssertHolds == pc[main] = "slot" => prod.now > head_block.time

\* The worker waits for an answer that nobody has: the callback has been taken back by
\* another call for the same transaction, which failed.
Orphaned(w) ==
  pc[w] = "await" /\ w \notin promised /\ w \notin {callbacks[t] : t \in DOMAIN callbacks}

\* broadcast_transaction_synchronous returns: with the block, with the expiration,
\* or with an exception, also while the node is being shut down.  The one exception is
\* a call whose callback another call has taken back.
EveryCallReturns == \A w \in Worker : pc[w] # "idle" ~> pc[w] = "idle" \/ Orphaned(w)

\* A shutdown that has begun comes to its end: no plugin waits for a thread that waits
\* for a plugin already gone.
ShutdownCompletes ==
  pc[main] = "shutdown" ~> Down \/ \E w \in Worker : Orphaned(w)

\* The confirmation that a call waits for can still come.
NeverOrphaned == \A w \in Worker : ~ Orphaned(w)
=============================================================================
