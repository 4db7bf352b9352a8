------------------------------ MODULE PeerSync ------------------------------
(***************************************************************************)
(* graphene::net::node_impl with its delegate p2p_plugin_impl: how nodes   *)
(* that all run this code bring each other up to date, and pass new blocks *)
(* on.  Every message handler and every task of a node's p2p thread runs   *)
(* without yielding, so each is one step; it is an operator that takes the *)
(* record of the node to its new one.                                      *)
(*                                                                         *)
(* A block id is the path from the first block to the block, << >> is the  *)
(* id of no block.  A connection is ordered and loses nothing before it    *)
(* breaks.  The handshake is one step up to the first message of the       *)
(* synchronization.  All blocks are valid; the chain database prefers the  *)
(* longer chain, the first one seen among equals.                          *)
(***************************************************************************)
EXTENDS Integers, Sequences, SequencesExt, FiniteSetsExt

CONSTANTS
  Node,
  Batch,     \* the ids get_block_ids returns at most
  Prefetch,  \* GRAPHENE_NET_MIN_BLOCK_IDS_TO_PREFETCH
  PerPeer,   \* maximum_blocks_per_peer_during_syncing
  AtOnce,    \* maximum_number_of_blocks_to_handle_at_one_time
  Backlog,   \* maximum_number_of_sync_blocks_to_prefetch
  Worlds     \* bounds: who connects to whom, the chains at the start, how many blocks
             \* can be undone, how many every node makes and how often a timer
             \* fires or a connection breaks

ASSUME SyncAssumption ==
  /\ {Batch, PerPeer, AtOnce, Backlog} \subseteq Nat \ {0} /\ Prefetch \in Nat
  /\ \A w \in Worlds :
        w.links \subseteq Node \X Node /\ w.head \in [Node -> Seq(Nat)]
        /\ w.undo \in Nat /\ w.blocks \in [Node -> Nat] /\ w.faults \in Nat

VARIABLES
  node,    \* the state of every node
  world,   \* the world we are in
  blocks,  \* how many blocks every node may still make
  faults   \* how much may still break

vars == <<node, world, blocks, faults>>

NoBlock == << >>

num(b) == Len(b)

previous(b) == Front(b)

Ancestor(b, n) == SubSeq(b, 1, n)

-----------------------------------------------------------------------------
(* A node and its connections. *)

\* peer_connection, as constructed.  item_ids_requested_from_peer is the sequence of
\* the one synopsis sent, if any.  inhibit_fetching_sync_blocks stays false: blocks
\* are never forgotten, so no peer lacks a sync item, and handle_block does not throw
\* block_older_than_undo_history.
NewPeer ==
  [state |-> "none", ids_of_items_to_get |-> << >>, ids_of_items_being_processed |-> {},
   number_of_unfetched_item_ids |-> 0, we_need_sync_items_from_peer |-> TRUE,
   peer_needs_sync_items_from_us |-> TRUE, last_block_delegate_has_seen |-> NoBlock,
   item_ids_requested |-> << >>, sync_items_requested |-> {}, items_requested |-> {},
   inventory_advertised_to_peer |-> {}, inventory_peer_advertised_to_us |-> {},
   we_have_requested_close |-> FALSE, they_have_requested_close |-> FALSE]

\* A node that starts with the chain up to b: known are the blocks of its database,
\* head its head, out what is under way to its peers; calls are the blocks whose tasks
\* are waiting, and of the loops it is kept whether they have been triggered.  Two
\* history variables have the peers that it has disconnected because of an error:
\* misjudged if their answer was compared with another synopsis than it was made
\* for, blamed for anything else.
Started(b) ==
  [known |-> {Ancestor(b, n) : n \in 1 .. num(b)}, head |-> b,
   peer |-> [p \in Node |-> NewPeer], out |-> [p \in Node |-> << >>],
   blamed |-> {}, misjudged |-> {}, message_ids_currently_being_processed |-> {},
   most_recent_blocks_accepted |-> {b}, received_sync_items |-> << >>,
   new_received_sync_items |-> << >>, calls |-> << >>, suspended |-> FALSE,
   active_sync_requests |-> {}, items_to_fetch |-> << >>, new_inventory |-> {},
   backlog |-> FALSE, fetch_sync |-> FALSE, fetch_items |-> FALSE]

Init ==
  /\ world \in Worlds
  /\ node = [n \in Node |-> Started(world.head[n])]
  /\ blocks = world.blocks /\ faults = world.faults

Active(s) == {p \in Node : s.peer[p].state = "active"}

idle(c) ==
  c.items_requested = {} /\ c.sync_items_requested = {} /\ c.item_ids_requested = << >>

send_message(s, p, m) == [s EXCEPT !.out[p] = Append(@, m)]

\* Applies step to the peers of Q, which it treats independently of each other.
ForEach(step(_, _), s, Q) == FoldSet(LAMBDA p, t : step(t, p), s, Q)

close_connection(s, p) ==
  [s EXCEPT !.peer[p].state = "terminating", !.out[p] = Append(@, [type |-> "eof"])]

disconnect_from_peer(s, p) ==
  LET t == [s EXCEPT !.peer[p].state = "closing"]
  IN IF t.peer[p].they_have_requested_close THEN close_connection(t, p)
     ELSE send_message([t EXCEPT !.peer[p].we_have_requested_close = TRUE], p,
                       [type |-> "closing"])

\* disconnect_from_peer with caused_by_error.
Blame(s, p) == disconnect_from_peer([s EXCEPT !.blamed = @ \cup {p}], p)

Misjudge(s, p) == disconnect_from_peer([s EXCEPT !.misjudged = @ \cup {p}], p)

-----------------------------------------------------------------------------
(* The delegate: the chain database behind p2p_plugin_impl. *)

has_item(s, b) == b \in s.known

\* The number must be one of the chain's, or get_block_id_for_num throws.
is_included_block(s, b) == IsPrefix(b, s.head)

last_non_undoable_block_num(s) == Max({0, num(s.head) - world.undo})

\* What accept_block does with b.
Verdict(s, b) ==
  IF num(b) < last_non_undoable_block_num(s) THEN "rejected"
  ELSE IF num(b) > 1 /\ previous(b) \notin s.known THEN "unlinkable"
  ELSE "accepted"

accept_block(s, b) ==
  [s EXCEPT !.known = @ \cup {b},
            !.head = IF num(b) > num(@) THEN b ELSE @,
            !.most_recent_blocks_accepted = @ \cup {b}]

\* The numbers from low to high that a synopsis up to top contains: each step goes half
\* the way that is left to top.
RECURSIVE Halving(_, _, _)
Halving(low, high, top) ==
  LET next == low + (top - low + 2) \div 2
  IN <<low>> \o (IF next <= high THEN Halving(next, high, top) ELSE << >>)

\* The number of the last block of b that is in our chain.
LastCommon(s, b) == Max({n \in 0 .. num(b) : IsPrefix(Ancestor(b, n), s.head)})

\* get_blockchain_synopsis throws block_older_than_undo_history.
OlderThanUndoHistory(s, reference) ==
  LastCommon(s, reference) < Min({num(reference), last_non_undoable_block_num(s)})

get_blockchain_synopsis(s, reference, after) ==
  LET tip == IF reference = NoBlock THEN s.head ELSE reference
      low == Max({1, Min({last_non_undoable_block_num(s), num(tip)})})
      nums == Halving(low, num(tip), num(tip) + after)
  IN IF tip = NoBlock THEN << >> ELSE [i \in DOMAIN nums |-> Ancestor(tip, nums[i])]

\* The places of a synopsis that get_block_ids can start from.
Reachable(s, synopsis) ==
  {i \in DOMAIN synopsis : has_item(s, synopsis[i]) /\ is_included_block(s, synopsis[i])}

\* Mutant: begins after the block that both have.
get_block_ids_After(s, synopsis) ==
  LET reachable == Reachable(s, synopsis)
      from == IF synopsis = << >> THEN 1 ELSE num(synopsis[Max(reachable)]) + 1
      to == Min({num(s.head), from + Batch - 1})
  IN IF s.head = NoBlock \/ (synopsis # << >> /\ reachable = {}) THEN << >>
     ELSE [i \in 1 .. to - from + 1 |-> Ancestor(s.head, from + i - 1)]

get_block_ids(s, synopsis) ==
  LET reachable == Reachable(s, synopsis)
      from == IF synopsis = << >> THEN 1 ELSE num(synopsis[Max(reachable)])
      to == Min({num(s.head), from + Batch - 1})
  IN IF s.head = NoBlock \/ (synopsis # << >> /\ reachable = {}) THEN << >>
     ELSE [i \in 1 .. to - from + 1 |-> Ancestor(s.head, from + i - 1)]

-----------------------------------------------------------------------------
(* Asking a peer for the ids of its blocks. *)

\* The ids the peer has told us of complete the synopsis.
create_blockchain_synopsis_for_peer(s, p) ==
  LET c == s.peer[p]
      ids == c.ids_of_items_to_get
      synopsis == get_blockchain_synopsis(s, c.last_block_delegate_has_seen, Len(ids))
      first == num(Head(ids))
      top == first + Len(ids) - 1
      low == IF synopsis = << >> THEN 1 ELSE num(Head(synopsis))
      nums == SelectSeq(Halving(low, top, top), LAMBDA n : n >= first)
  IN IF ids = << >> THEN synopsis
     ELSE synopsis \o [i \in DOMAIN nums |-> ids[nums[i] - first + 1]]

fetch_next_batch_of_item_ids_from_peer(s, p) ==
  IF OlderThanUndoHistory(s, s.peer[p].last_block_delegate_has_seen)
  THEN disconnect_from_peer(s, p)
  ELSE LET synopsis == create_blockchain_synopsis_for_peer(s, p)
       IN send_message([s EXCEPT !.peer[p].item_ids_requested = <<synopsis>>], p,
                       [type |-> "fetch_ids", synopsis |-> synopsis])

start_synchronizing_with_peer(s, p) ==
  LET c == [s.peer[p] EXCEPT !.ids_of_items_to_get = << >>,
                             !.number_of_unfetched_item_ids = 0,
                             !.we_need_sync_items_from_peer = TRUE,
                             !.last_block_delegate_has_seen = NoBlock]
  IN fetch_next_batch_of_item_ids_from_peer([s EXCEPT !.peer[p] = c], p)

\* The connection joins the active ones.
new_peer_just_added(s, p) ==
  start_synchronizing_with_peer([s EXCEPT !.peer[p].state = "active"], p)

-----------------------------------------------------------------------------
(* The handlers of messages. *)

\* answers is not sent: it is the synopsis that the list of ids was made for.
on_fetch_blockchain_item_ids_message(s, p, synopsis) ==
  LET ids == get_block_ids(s, synopsis)
      remaining == IF ids = << >> THEN 0 ELSE num(s.head) - num(Last(ids))
      in_sync == \/ ids = << >>
                 \/ Len(ids) = 1 /\ Head(ids) \in ToSet(synopsis)
      answering == [s EXCEPT !.peer[p].peer_needs_sync_items_from_us = ~in_sync]
      restarted ==
        IF /\ ~s.peer[p].we_need_sync_items_from_peer
           /\ synopsis # << >> /\ ~has_item(s, Last(synopsis))
        THEN start_synchronizing_with_peer(answering, p) ELSE answering
      replied == send_message(restarted, p,
                   [type |-> "ids", item_hashes_available |-> ids,
                    total_remaining_item_count |-> remaining, answers |-> synopsis])
  IN IF s.peer[p].state = "handshaking" THEN new_peer_just_added(replied, p) ELSE replied

\* The answer builds on the synopsis we sent.
ValidResponse(synopsis, ids) ==
  ids # << >> => IF synopsis = << >> THEN num(Head(ids)) = 1
                 ELSE Head(ids) \in ToSet(synopsis)

\* How many ids of a new list name blocks we have.
Seen(s, ids) == Max({k \in 0 .. Len(ids) : \A i \in 1 .. k : has_item(s, ids[i])})

\* The connection c once the non-empty list ids has been added to the ids to get.
Merged(s, p, ids) ==
  LET c == s.peer[p]
      old == c.ids_of_items_to_get
      first_for_other == \E q \in Active(s) \ {p} :
                           /\ s.peer[q].ids_of_items_to_get # << >>
                           /\ Head(s.peer[q].ids_of_items_to_get) = Head(ids)
      seen == IF first_for_other THEN 0 ELSE Seen(s, ids)
      kept == {i \in DOMAIN old : old[i] = Head(ids)}
  IN IF old = << >>
     THEN [c EXCEPT !.ids_of_items_to_get = SubSeq(ids, seen + 1, Len(ids)),
                    !.last_block_delegate_has_seen = IF seen = 0 THEN @ ELSE ids[seen]]
     ELSE IF kept # {}
     THEN [c EXCEPT !.ids_of_items_to_get = SubSeq(old, 1, Max(kept) - 1) \o ids]
     ELSE [c EXCEPT !.ids_of_items_to_get = Tail(ids),
                    !.last_block_delegate_has_seen = Head(ids)]

\* The peer has told us of no block that we do not have.
UpToDate(s, p, ids, remaining) ==
  /\ remaining = 0 /\ (ids = << >> \/ (Len(ids) = 1 /\ has_item(s, Head(ids))))
  /\ s.peer[p].ids_of_items_to_get = << >> /\ s.peer[p].number_of_unfetched_item_ids = 0

on_blockchain_item_ids_inventory_message(s, p, ids, remaining, answers) ==
  LET answered == [s EXCEPT !.peer[p].item_ids_requested = << >>]
      merged == IF ids = << >> THEN answered
                ELSE [answered EXCEPT !.peer[p] = Merged(answered, p, ids)]
      listed == [merged EXCEPT !.peer[p].number_of_unfetched_item_ids = remaining]
      wanted == Len(listed.peer[p].ids_of_items_to_get)
  IN IF s.peer[p].item_ids_requested = << >> THEN s
     ELSE IF ~ValidResponse(Head(s.peer[p].item_ids_requested), ids)
     THEN IF s.peer[p].item_ids_requested = <<answers>> THEN Blame(s, p) ELSE Misjudge(s, p)
     ELSE IF UpToDate(s, p, ids, remaining)
     THEN [answered EXCEPT !.peer[p].we_need_sync_items_from_peer = FALSE]
     ELSE IF IF remaining # 0 THEN wanted > Prefetch ELSE wanted > 0
     THEN [listed EXCEPT !.fetch_sync = TRUE]
     ELSE fetch_next_batch_of_item_ids_from_peer(listed, p)

\* Every block asked for is known.
on_fetch_items_message(s, p, items) ==
  [s EXCEPT !.peer[p].last_block_delegate_has_seen = Last(items),
            !.out[p] = @ \o [i \in DOMAIN items |-> [type |-> "block", block |-> items[i]]]]

on_closing_connection_message(s, p) ==
  LET t == [s EXCEPT !.peer[p].they_have_requested_close = TRUE]
  IN IF t.peer[p].we_have_requested_close THEN close_connection(t, p) ELSE t

on_item_ids_inventory_message(s, p, items) ==
  LET new == SelectSeq(items, LAMBDA b :
               /\ b \notin s.message_ids_currently_being_processed \cup s.new_inventory
               /\ \A q \in Active(s) : b \notin s.peer[q].inventory_advertised_to_peer)
      wanted == SelectSeq(new, LAMBDA b :
                  /\ \A q \in Active(s) : b \notin s.peer[q].items_requested
                  /\ b \notin ToSet(s.items_to_fetch))
  IN [s EXCEPT !.peer[p].inventory_peer_advertised_to_us = @ \cup ToSet(new),
               !.items_to_fetch = @ \o wanted,
               !.fetch_items = @ \/ wanted # << >>]

\* Advertises b, and makes it known as accepted.
broadcast(s, b) ==
  [s EXCEPT !.most_recent_blocks_accepted = @ \cup {b}, !.new_inventory = @ \cup {b}]

FirstToGet(s, b) ==
  {q \in Active(s) : /\ s.peer[q].ids_of_items_to_get # << >>
                     /\ Head(s.peer[q].ids_of_items_to_get) = b}

\* When handle_block throws, the id of the message stays among the ones being processed.
process_block_during_normal_operation(s, p, b) ==
  LET accepted == b \in s.most_recent_blocks_accepted \/ Verdict(s, b) = "accepted"
      pushed == IF b \in s.most_recent_blocks_accepted THEN s
                ELSE [accept_block(s, b) EXCEPT !.message_ids_currently_being_processed = @ \ {b}]
      thrown == [s EXCEPT !.message_ids_currently_being_processed = @ \cup {b}]
      offered == {q \in Active(s) : b \in s.peer[q].inventory_peer_advertised_to_us}
      Note(t, q) == [t EXCEPT !.peer[q].last_block_delegate_has_seen = b]
  IN IF accepted THEN broadcast(ForEach(Note, pushed, offered), b)
     ELSE IF Verdict(s, b) = "unlinkable" THEN start_synchronizing_with_peer(thrown, p)
     ELSE ForEach(Blame, thrown, {p} \cup FirstToGet(s, b))

process_block_during_sync(s, b) ==
  [s EXCEPT !.new_received_sync_items = Append(@, b), !.backlog = TRUE]

process_block_message(s, p, b) ==
  LET c == s.peer[p]
      normal == process_block_during_normal_operation(
                  [s EXCEPT !.peer[p].items_requested = @ \ {b}], p, b)
      sync == process_block_during_sync(
                [s EXCEPT !.peer[p].sync_items_requested = @ \ {b},
                          !.active_sync_requests = @ \ {b}], b)
  IN IF b \in c.items_requested
     THEN [normal EXCEPT !.fetch_items = @ \/ idle(normal.peer[p])]
     ELSE IF b \notin c.sync_items_requested THEN Blame(s, p)
     ELSE IF ~idle(sync.peer[p]) THEN sync
     ELSE IF c.number_of_unfetched_item_ids > 0 /\ Len(c.ids_of_items_to_get) < Prefetch
     THEN fetch_next_batch_of_item_ids_from_peer(sync, p)
     ELSE [sync EXCEPT !.fetch_sync = TRUE]

\* Mutant: the requests of the connection stay recorded.
on_connection_closed_Keeps(s, p) ==
  LET c == s.peer[p]
      t == [s EXCEPT !.peer[p] = NewPeer,
                     !.fetch_sync = @ \/ c.sync_items_requested # {},
                     !.fetch_items = @ \/ c.items_requested # {}]
      offered == {b \in c.items_requested : \E q \in Active(t) :
                    b \in t.peer[q].inventory_peer_advertised_to_us}
  IN [t EXCEPT !.items_to_fetch = @ \o SetToSeq(offered \ ToSet(@))]

\* The connection is gone: what it was asked for is asked of others.
on_connection_closed(s, p) ==
  LET c == s.peer[p]
      t == [s EXCEPT !.peer[p] = NewPeer,
                     !.active_sync_requests = @ \ c.sync_items_requested,
                     !.fetch_sync = @ \/ c.sync_items_requested # {},
                     !.fetch_items = @ \/ c.items_requested # {}]
      offered == {b \in c.items_requested : \E q \in Active(t) :
                    b \in t.peer[q].inventory_peer_advertised_to_us}
  IN [t EXCEPT !.items_to_fetch = @ \o SetToSeq(offered \ ToSet(@))]

on_message(s, p, m) ==
  CASE m.type = "fetch_ids" -> on_fetch_blockchain_item_ids_message(s, p, m.synopsis)
    [] m.type = "ids" ->
         on_blockchain_item_ids_inventory_message(s, p, m.item_hashes_available,
                                                  m.total_remaining_item_count, m.answers)
    [] m.type = "fetch_items" -> on_fetch_items_message(s, p, m.items)
    [] m.type = "block" -> process_block_message(s, p, m.block)
    [] m.type = "inventory" -> on_item_ids_inventory_message(s, p, m.items)
    [] m.type = "closing" -> on_closing_connection_message(s, p)
    [] m.type = "eof" -> on_connection_closed(s, p)

-----------------------------------------------------------------------------
(* The tasks of the p2p thread. *)

\* The connection has nothing left to get, and nothing being processed.
Finished(c) ==
  /\ c.ids_of_items_to_get = << >> /\ c.number_of_unfetched_item_ids = 0
  /\ c.ids_of_items_being_processed = {}

\* The peers of Q no longer wait for b to be processed.
Processed(s, Q, b) ==
  LET Done(t, q) == [t EXCEPT !.peer[q].ids_of_items_being_processed = @ \ {b}]
      done == ForEach(Done, s, Q)
  IN ForEach(fetch_next_batch_of_item_ids_from_peer, done,
             {q \in Q : Finished(done.peer[q])})

\* Hands received blocks over, one after the other, as long as one is the next block
\* of some peer.  One that has been accepted meanwhile ends the loop.
RECURSIVE HandOver(_)
HandOver(s) ==
  LET all == s.new_received_sync_items \o s.received_sync_items
      first == {i \in DOMAIN all : FirstToGet(s, all[i]) # {}}
      b == all[Min(first)]
      Pop(t, q) == [t EXCEPT !.peer[q].ids_of_items_to_get = Tail(@),
                             !.peer[q].ids_of_items_being_processed = @ \cup {b}]
      taken == [s EXCEPT !.new_received_sync_items = << >>, !.received_sync_items = all]
      popped == ForEach(Pop, taken, FirstToGet(s, b))
      waiting == {q \in Active(s) : b \in popped.peer[q].ids_of_items_being_processed}
      called == [popped EXCEPT !.received_sync_items = RemoveAt(@, Min(first)),
                               !.calls = Append(@, b)]
      full == Len(called.received_sync_items) >= Backlog
  IN IF first = {} THEN taken
     ELSE IF b \in s.most_recent_blocks_accepted THEN Processed(popped, waiting, b)
     ELSE IF Len(called.calls) >= AtOnce THEN [called EXCEPT !.suspended = full]
     ELSE HandOver(called)

process_backlog_of_sync_blocks(s) ==
  LET t == HandOver([s EXCEPT !.backlog = FALSE, !.suspended = FALSE])
  IN IF Len(s.calls) >= AtOnce THEN [s EXCEPT !.backlog = FALSE]
     ELSE [t EXCEPT !.fetch_sync = @ \/ ~t.suspended]

\* Mutant: does not have the backlog looked at again.
send_sync_block_to_node_delegate_Silent(s, b) ==
  LET accepted == Verdict(s, b) = "accepted"
      started == [s EXCEPT !.calls = Tail(@)]
      t == IF accepted THEN accept_block(started, b) ELSE started
      processing == {q \in Active(s) : b \in s.peer[q].ids_of_items_being_processed}
      in_sync == {q \in Active(s) : /\ s.peer[q].ids_of_items_to_get = << >>
                                    /\ s.peer[q].ids_of_items_being_processed = {}
                                    /\ ~s.peer[q].peer_needs_sync_items_from_us
                                    /\ ~s.peer[q].we_need_sync_items_from_peer}
      Note(u, q) == [u EXCEPT !.peer[q].last_block_delegate_has_seen = b]
  IN IF accepted
     THEN ForEach(start_synchronizing_with_peer,
                  Processed(ForEach(Note, t, processing), processing, b), in_sync)
     ELSE ForEach(Blame, t, processing)

\* Passes b to the database.  Peers that have nothing to give, and are in sync with us,
\* learn of it by a new synchronization.
send_sync_block_to_node_delegate(s, b) ==
  LET accepted == Verdict(s, b) = "accepted"
      started == [s EXCEPT !.calls = Tail(@), !.backlog = TRUE]
      t == IF accepted THEN accept_block(started, b) ELSE started
      processing == {q \in Active(s) : b \in s.peer[q].ids_of_items_being_processed}
      in_sync == {q \in Active(s) : /\ s.peer[q].ids_of_items_to_get = << >>
                                    /\ s.peer[q].ids_of_items_being_processed = {}
                                    /\ ~s.peer[q].peer_needs_sync_items_from_us
                                    /\ ~s.peer[q].we_need_sync_items_from_peer}
      Note(u, q) == [u EXCEPT !.peer[q].last_block_delegate_has_seen = b]
  IN IF accepted
     THEN ForEach(start_synchronizing_with_peer,
                  Processed(ForEach(Note, t, processing), processing, b), in_sync)
     ELSE ForEach(Blame, t, processing)

\* What a peer is asked for: the first blocks it can give that nobody has been asked for.
SyncRequest(s, c) ==
  LET received == ToSet(s.received_sync_items \o s.new_received_sync_items)
      free == SelectSeq(c.ids_of_items_to_get,
                        LAMBDA b : b \notin received \cup s.active_sync_requests)
  IN IF c.we_need_sync_items_from_peer /\ idle(c)
     THEN SubSeq(free, 1, Min({PerPeer, Len(free)})) ELSE << >>

request_sync_items_from_peer(s, p, items) ==
  send_message([s EXCEPT !.active_sync_requests = @ \cup ToSet(items),
                         !.peer[p].sync_items_requested = @ \cup ToSet(items)],
               p, [type |-> "fetch_items", items |-> items])

\* One round of fetch_sync_items_loop that visits the active peers in this order.
fetch_sync_items_loop(s, order) ==
  LET Ask(t, p) ==
        LET items == SyncRequest(t, t.peer[p])
        IN IF items = << >> THEN t ELSE request_sync_items_from_peer(t, p, items)
      t == [s EXCEPT !.fetch_sync = FALSE]
  IN IF s.suspended THEN t ELSE FoldLeft(Ask, t, order)

\* One round of fetch_items_loop: every item is asked of the first idle peer in this
\* order that advertised it and has not been asked for another one.
fetch_items_loop(s, order) ==
  LET Ask(t, b) ==
        LET free == SelectSeq(order, LAMBDA p :
                      idle(t.peer[p]) /\ b \in t.peer[p].inventory_peer_advertised_to_us)
            p == Head(free)
        IN IF free = << >> THEN t
           ELSE send_message([t EXCEPT !.items_to_fetch = SelectSeq(@, LAMBDA x : x # b),
                                       !.peer[p].items_requested = {b}],
                             p, [type |-> "fetch_items", items |-> <<b>>])
  IN FoldLeft(Ask, [s EXCEPT !.fetch_items = FALSE], s.items_to_fetch)

\* One round of advertise_inventory_loop, with the new items in this order.
advertise_inventory_loop(s, order) ==
  LET Tell(t, p) ==
        LET c == t.peer[p]
            items == SelectSeq(order, LAMBDA b : b \notin c.inventory_advertised_to_peer
                                                   \cup c.inventory_peer_advertised_to_us)
        IN IF c.peer_needs_sync_items_from_us \/ items = << >> THEN t
           ELSE send_message([t EXCEPT !.peer[p].inventory_advertised_to_peer =
                                         @ \cup ToSet(items)],
                             p, [type |-> "inventory", items |-> items])
  IN ForEach(Tell, [s EXCEPT !.new_inventory = {}], Active(s))

-----------------------------------------------------------------------------
(* The steps. *)

\* Connections are made again until there are enough.
connect(o, i) ==
  /\ <<o, i>> \in world.links
  /\ node[o].peer[i].state = "none" /\ node[i].peer[o].state = "none"
  /\ node' = [node EXCEPT
                ![o] = new_peer_just_added([@ EXCEPT !.out[i] = << >>], i),
                ![i].peer[o].state = "handshaking", ![i].out[o] = << >>]
  /\ UNCHANGED <<world, blocks, faults>>

Open(n, p) == node[n].peer[p].state \in {"handshaking", "active", "closing"}

\* n reads a message of p.
receive(n, p) ==
  /\ Open(n, p) /\ node[p].out[n] # << >>
  /\ node' = [node EXCEPT ![n] = on_message(@, p, Head(node[p].out[n])),
                          ![p].out[n] = Tail(@)]
  /\ UNCHANGED <<world, blocks, faults>>

Step(n, s) == node' = [node EXCEPT ![n] = s] /\ UNCHANGED <<world, blocks, faults>>

\* The read loop notices that we closed the connection.
closed(n, p) ==
  node[n].peer[p].state = "terminating" /\ Step(n, on_connection_closed(node[n], p))

run_backlog(n) ==
  node[n].backlog /\ Step(n, process_backlog_of_sync_blocks(node[n]))

push_sync_block(n) ==
  /\ node[n].calls # << >>
  /\ Step(n, send_sync_block_to_node_delegate(node[n], Head(node[n].calls)))

\* _active_connections is a hash set of pointers: its order is any.
fetch_sync_items(n) ==
  /\ node[n].fetch_sync
  /\ \E order \in SetToSeqs(Active(node[n])) : Step(n, fetch_sync_items_loop(node[n], order))

fetch_items(n) ==
  /\ node[n].fetch_items
  /\ \E order \in SetToSeqs(Active(node[n])) : Step(n, fetch_items_loop(node[n], order))

\* _new_inventory is a hash set.
advertise(n) ==
  /\ node[n].new_inventory # {}
  /\ \E order \in SetToSeqs(node[n].new_inventory) :
        Step(n, advertise_inventory_loop(node[n], order))

\* The witness plugin makes a block and broadcasts it.
make_block(n) ==
  LET b == Append(node[n].head, n)
  IN /\ blocks[n] > 0 /\ blocks' = [blocks EXCEPT ![n] = @ - 1]
     /\ node' = [node EXCEPT ![n] = broadcast(accept_block(@, b), b)]
     /\ UNCHANGED <<world, faults>>

\* A state in which the loop below takes the synchronization to have stalled.
Stalled(c) ==
  /\ c.we_need_sync_items_from_peer
  /\ c.item_ids_requested = << >> /\ c.ids_of_items_to_get = << >>

\* terminate_inactive_connections_loop: a request has not been answered in time, or the
\* handshake, or the synchronization has stalled.
terminate(n, p) ==
  /\ faults > 0 /\ faults' = faults - 1
  /\ \/ node[n].peer[p].state = "handshaking"
     \/ node[n].peer[p].state = "active" /\ ~idle(node[n].peer[p])
     \/ node[n].peer[p].state = "active" /\ Stalled(node[n].peer[p])
  /\ node' = [node EXCEPT ![n] = close_connection(@, p)]
  /\ UNCHANGED <<world, blocks>>

\* The same loop: nothing has been received for long.
disconnect_inactive(n, p) ==
  /\ faults > 0 /\ faults' = faults - 1
  /\ node[n].peer[p].state = "active"
  /\ node' = [node EXCEPT ![n] = disconnect_from_peer(@, p)]
  /\ UNCHANGED <<world, blocks>>

\* There is something for n to do.
Busy(n) ==
  LET s == node[n]
  IN \/ s.backlog \/ s.calls # << >> \/ s.fetch_sync \/ s.fetch_items \/ s.new_inventory # {}
     \/ \E p \in Node :
          \/ /\ <<n, p>> \in world.links
             /\ s.peer[p].state = "none" /\ node[p].peer[n].state = "none"
          \/ Open(n, p) /\ node[p].out[n] # << >>
          \/ s.peer[p].state \in {"closing", "terminating"}

Rescuable(n, p) ==
  /\ node[n].peer[p].state = "active" /\ Stalled(node[n].peer[p])
  /\ \A m \in Node : ~Busy(m)

\* The same loop finds a stalled synchronization once nothing else happens any more.
terminate_stalled(n, p) == Rescuable(n, p) /\ Step(n, close_connection(node[n], p))

\* The same loop: the peer has had its time to close the connection.
terminate_closing(n, p) ==
  node[n].peer[p].state = "closing" /\ Step(n, close_connection(node[n], p))

\* The connection breaks, and what is under way is lost.
break(n, p) ==
  /\ faults > 0 /\ faults' = faults - 1
  /\ Open(n, p) /\ Open(p, n)
  /\ node' = [node EXCEPT ![n].out[p] = <<[type |-> "eof"]>>,
                          ![p].out[n] = <<[type |-> "eof"]>>]
  /\ UNCHANGED <<world, blocks>>

Work(n) ==
  \/ run_backlog(n) \/ push_sync_block(n) \/ fetch_sync_items(n)
  \/ fetch_items(n) \/ advertise(n)
  \/ \E p \in Node : connect(n, p) \/ receive(n, p) \/ closed(n, p)
                     \/ terminate_closing(n, p) \/ terminate_stalled(n, p)

Disturbance ==
  \E n \in Node :
    \/ make_block(n)
    \/ \E p \in Node : terminate(n, p) \/ disconnect_inactive(n, p) \/ break(n, p)

Next == Disturbance \/ \E n \in Node : Work(n)

Spec == Init /\ [][Next]_vars

-----------------------------------------------------------------------------
(* Properties. *)

\* A step of Work(n) is possible.
CanWork(n) == Busy(n) \/ \E p \in Node : Rescuable(n, p)

\* The p2p thread of a node runs what is ready to run, TCP delivers what was sent or
\* breaks the connection, and the timers of connections fire.
Fairness == \A n \in Node : []<>~CanWork(n) \/ []<><<Work(n)>>_vars

FairSpec == Spec /\ Fairness

Quiet == \A n \in Node : ~CanWork(n)

\* Connected nodes hold chains of the same length, and both know it.
InSync ==
  \A l \in world.links :
    /\ num(node[l[1]].head) = num(node[l[2]].head)
    /\ \A n, p \in {l[1], l[2]} : n # p =>
         /\ node[n].peer[p].state = "active"
         /\ ~node[n].peer[p].we_need_sync_items_from_peer
         /\ ~node[n].peer[p].peer_needs_sync_items_from_us

\* The blocks recorded as under way are exactly the ones some connected peer has been
\* asked for, and no two peers have been asked for the same one: a connection that ends
\* gives its requests back, so no block is lost to fetch_sync_items_loop.
RequestsOwned ==
  \A n \in Node :
    LET asked(p) == node[n].peer[p].sync_items_requested
    IN /\ node[n].active_sync_requests = UNION {asked(p) : p \in Node}
       /\ \A p, q \in Node : p # q => asked(p) \cap asked(q) = {}

\* A node that runs this code is not disconnected for an error, unless its answer meets a
\* synopsis that has replaced the one it answers: its lists of ids build on the synopsis
\* they were made for, even when it switches to another branch or a list is overtaken
\* by blocks, and it only sends blocks it has been asked for and that are accepted.
HonestNotBlamed == \A n \in Node : node[n].blamed = {}

\* What process_block_during_sync says of the backlog: "process _received_sync_items to
\* try to pass as many messages as possible to the client".  When the task has run, and
\* more blocks may be handled, no received block is the next one of a peer.
BacklogDrained ==
  \A n \in Node : ~node[n].backlog /\ Len(node[n].calls) < AtOnce =>
     \A b \in ToSet(node[n].received_sync_items) : FirstToGet(node[n], b) = {}

\* Two nodes whose connection does not break, whose ids to get fit into one list, and
\* to which no new block has come before the one it builds on.
Sheltered ==
  /\ Cardinality(world.links) = 1 /\ world.faults = 0
  /\ \A n \in Node : /\ Len(world.head[n]) + world.blocks[n] <= Prefetch
                     /\ node[n].message_ids_currently_being_processed = {}

\* Synchronization comes to an end: no node asks, restarts or reconnects for ever.  And
\* if two nodes keep their connection and new blocks come in their order, they end with
\* equally long chains and both know.
SyncSettles == <>[](Quiet /\ (Sheltered => InSync))

\* What terminate_inactive_connections_loop says of a synchronization that it takes to
\* have stalled: "This is a state we should never get into in the first place".
NeverStalled == \A n \in Node : \A p \in Active(node[n]) : ~Stalled(node[n].peer[p])

\* What on_blockchain_item_ids_inventory_message says of an answer: "It should either be
\* an empty list of blocks, or a list of blocks that builds off of one of the blocks in
\* the synopsis we sent".
AnswersSynopsisSent == \A n \in Node : node[n].misjudged = {}

\* SyncSettles without its condition: synchronization always ends in sync.
SyncCompletes == <>[]InSync
=============================================================================
