----------------------------- MODULE WriteQueue ------------------------------
(***************************************************************************)
(* How threads reach the database: the write queue of chain_plugin_full    *)
(* with its one writing thread, and the read/write locks of chainbase.     *)
(*                                                                         *)
(* A caller keeps its write_context on its own stack and blocks until the  *)
(* promise in it is set, so a caller stands for its context.  Callers and  *)
(* the writing thread share no lock; every access of one to the state of   *)
(* the other is a step of its own.                                         *)
(***************************************************************************)
EXTENDS Naturals, Sequences

CONSTANTS
  Caller,    \* threads that call accept_block, accept_transaction or generate_block
  Reader,    \* threads that call with_read_lock
  NumLocks,  \* CHAINBASE_NUM_RW_LOCKS
  NoCaller

ASSUME QueueAssumption == NumLocks \in Nat \ {0} /\ NoCaller \notin Caller

VARIABLES
  queue,    \* write_queue: the callers whose contexts it points to
  call,     \* "none": no context; "waiting" for the promise; "set": promise set
  result,   \* success and except of the context
  writer,   \* the writing thread: where it is
  cxt,      \* and the context it works on
  running,  \* cleared by stop_write_processing
  current,  \* _current_lock, modulo NumLocks
  locks,    \* the readers that hold each lock
  reading   \* the lock a reader has chosen or holds

queueVars == <<queue, call, result, writer, cxt, running>>

lockVars == <<current, locks, reading>>

Lock == 0 .. NumLocks - 1

Free == [state |-> "no", lock |-> 0]

QueueInit ==
  /\ queue = << >> /\ call = [c \in Caller |-> "none"]
  /\ result = [c \in Caller |-> "none"]
  /\ writer = "idle" /\ cxt = NoCaller /\ running = TRUE
  /\ current = 0 /\ locks = [l \in Lock |-> {}] /\ reading = [r \in Reader |-> Free]

-----------------------------------------------------------------------------
\* The caller.

\* accept_block, accept_transaction, generate_block up to the wait.
submit(c) ==
  /\ call[c] = "none"
  /\ queue' = Append(queue, c)
  /\ call' = [call EXCEPT ![c] = "waiting"]
  /\ UNCHANGED <<result, writer, cxt, running>>

\* get() returns; the context goes out of scope with the call.
return(c) ==
  /\ call[c] = "set"
  /\ call' = [call EXCEPT ![c] = "none"] /\ result' = [result EXCEPT ![c] = "none"]
  /\ UNCHANGED <<queue, writer, cxt, running>>

-----------------------------------------------------------------------------
\* The writing thread, start_write_processing.

pop ==
  /\ writer = "idle" /\ running /\ queue # << >>
  /\ cxt' = Head(queue) /\ queue' = Tail(queue) /\ writer' = "popped"
  /\ UNCHANGED <<call, result, running, lockVars>>

\* with_write_lock gets the lock it tries ...
write_lock ==
  /\ writer = "popped" /\ locks[current] = {}
  /\ writer' = "locked"
  /\ UNCHANGED <<queue, call, result, cxt, running, lockVars>>

\* ... or waits for a second and goes on to the next one, made anew.
next_lock ==
  /\ writer = "popped" /\ locks[current] # {}
  /\ current' = (current + 1) % NumLocks
  /\ locks' = [locks EXCEPT ![current'] = {}]
  /\ UNCHANGED <<queueVars, reading>>

\* Mutant: the promise is set before the result is stored.
visit_Wakes(outcome) ==
  /\ writer = "locked"
  /\ call' = [call EXCEPT ![cxt] = "set"] /\ writer' = "stored"
  /\ UNCHANGED <<queue, result, cxt, running, lockVars>>

\* write_request_visitor: the request is carried out and what came of it stored.
visit(outcome) ==
  /\ writer = "locked"
  /\ result' = [result EXCEPT ![cxt] = outcome] /\ writer' = "stored"
  /\ UNCHANGED <<queue, call, cxt, running, lockVars>>

\* request_promise_visitor.
set_value ==
  /\ writer = "stored"
  /\ call' = [call EXCEPT ![cxt] = "set"] /\ writer' = "answered" /\ cxt' = NoCaller
  /\ UNCHANGED <<queue, result, running, lockVars>>

\* The next request, under the same lock ...
pop_more ==
  /\ writer = "answered" /\ queue # << >>
  /\ cxt' = Head(queue) /\ queue' = Tail(queue) /\ writer' = "locked"
  /\ UNCHANGED <<call, result, running, lockVars>>

\* ... or the lock is given up: the queue is empty, or it was held long enough.
unlock ==
  /\ writer = "answered"
  /\ writer' = "idle"
  /\ UNCHANGED <<queue, call, result, cxt, running, lockVars>>

\* The loop ends.
leave ==
  /\ writer = "idle" /\ ~ running
  /\ writer' = "stopped"
  /\ UNCHANGED <<queue, call, result, cxt, running, lockVars>>

\* stop_write_processing; it then joins the thread.
stop == /\ running /\ running' = FALSE
        /\ UNCHANGED <<queue, call, result, writer, cxt, lockVars>>

WriterStep == pop \/ write_lock \/ next_lock \/ set_value \/ pop_more \/ unlock \/ leave

-----------------------------------------------------------------------------
\* with_read_lock.

Holds(l) == writer \in {"locked", "stored", "answered"} /\ l = current

\* The reader looks up which lock is the current one ...
choose_lock(r) ==
  /\ reading[r].state = "no"
  /\ reading' = [reading EXCEPT ![r] = [state |-> "chosen", lock |-> current]]
  /\ UNCHANGED <<queueVars, current, locks>>

\* ... takes it ...
read_lock(r) ==
  /\ reading[r].state = "chosen" /\ ~ Holds(reading[r].lock)
  /\ reading' = [reading EXCEPT ![r].state = "held"]
  /\ locks' = [locks EXCEPT ![reading[r].lock] = @ \cup {r}]
  /\ UNCHANGED <<queueVars, current>>

\* ... or gives up after a second, lock_exception.
read_timeout(r) ==
  /\ reading[r].state = "chosen" /\ Holds(reading[r].lock)
  /\ reading' = [reading EXCEPT ![r] = Free]
  /\ UNCHANGED <<queueVars, current, locks>>

read_unlock(r) ==
  /\ reading[r].state = "held"
  /\ reading' = [reading EXCEPT ![r] = Free]
  /\ locks' = [locks EXCEPT ![reading[r].lock] = @ \ {r}]
  /\ UNCHANGED <<queueVars, current>>

ReaderStep(r) == choose_lock(r) \/ read_lock(r) \/ read_timeout(r) \/ read_unlock(r)

-----------------------------------------------------------------------------
(***************************************************************************)
(* The queue by itself: any thread may call at any time, and a request may *)
(* succeed or fail.                                                        *)
(***************************************************************************)
QueueNext ==
  \/ \E c \in Caller : (submit(c) \/ return(c)) /\ UNCHANGED lockVars
  \/ WriterStep
  \/ \E outcome \in {"ok", "throw"} : visit(outcome)
  \/ stop
  \/ \E r \in Reader : ReaderStep(r)

QueueSpec == QueueInit /\ [][QueueNext]_<<queueVars, lockVars>>

\* "It is the caller's responsibility to ensure the pointer to the write context
\* remains valid until the contained promise is complete": every context that the
\* queue or the writing thread is going to use belongs to a call that still waits,
\* and is there only once.
ContextsAlive ==
  /\ \A i \in 1 .. Len(queue) : call[queue[i]] = "waiting"
  /\ \A i, j \in 1 .. Len(queue) : queue[i] = queue[j] => i = j
  /\ writer \in {"popped", "locked", "stored"} =>
        call[cxt] = "waiting" /\ \A i \in 1 .. Len(queue) : queue[i] # cxt

\* The caller finds its result once it is woken, and not one of an earlier call.
AnswerIsThere == \A c \in Caller : call[c] = "set" => result[c] # "none"

\* A call that waits is in the queue or in the hands of the writing thread.
NoCallForgotten ==
  \A c \in Caller : call[c] = "waiting" =>
     \/ \E i \in 1 .. Len(queue) : queue[i] = c
     \/ cxt = c /\ writer \in {"popped", "locked", "stored"}

\* "two or more threads may read the database at the same time, but all writes must
\* be protected by a mutex": nobody reads while the writing thread writes.
ReadersExcluded ==
  writer = "locked" => \A r \in Reader : reading[r].state # "held"
=============================================================================
