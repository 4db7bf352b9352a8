--------------------------- MODULE WitnessSchedule ---------------------------
(***************************************************************************)
(* Who produces the next blocks.  The witnesses with most votes are        *)
(* scheduled in every round; the others take turns, the more votes the     *)
(* more often: each runs laps in a virtual time and is scheduled when it   *)
(* completes one.  With the blocks they produce the scheduled witnesses    *)
(* also vote for the next hardfork.                                        *)
(*                                                                         *)
(* A step is a block: its header, at most one operation in it, and what    *)
(* _apply_block does to the witnesses at its end.                          *)
(***************************************************************************)
EXTENDS Integers, FiniteSets

CONSTANTS
  Witness,        \* numbers that order witnesses by id and by name
  Genesis,        \* the witness there is at the beginning, initminer
  MaxWitnesses,   \* SOPHIATX_MAX_WITNESSES
  MaxVoted,       \* SOPHIATX_MAX_VOTED_WITNESSES_HF0
  Required,       \* SOPHIATX_HARDFORK_REQUIRED_WITNESSES
  Lap,            \* the largest uint128, which is also the length of a lap
  Day,            \* SOPHIATX_BLOCKS_PER_DAY
  Times,          \* when each hardfork may be applied, _hardfork_times
  Plans,          \* bounds: which operations there are, whom the first block makes
                  \* witnesses, how many slots may be missed, how lists are shuffled,
                  \* how many votes hardfork 1.1 may find
  MaxVotes,       \* bound: votes of a witness
  MaxTime,        \* bound: the clock stops here
  Cycle           \* bound: slots are counted modulo this, a multiple of all schedule sizes

ASSUME ScheduleAssumption ==
  /\ Witness \subseteq Nat /\ IsFiniteSet(Witness) /\ Genesis \in Witness
  /\ MaxWitnesses \in Nat \ {0, 1} /\ MaxVoted \in Nat \ {0} /\ MaxVoted <= MaxWitnesses
  /\ Lap \in Nat \ {0} /\ MaxVotes \in Nat /\ Required \in Nat \ {0} /\ Day \in Nat
  /\ DOMAIN Times \subseteq Nat
  /\ Cycle \in Nat /\ \A n \in 1 .. MaxWitnesses : Cycle % n = 0

ASSUME PlanAssumption ==
  \A p \in Plans : /\ p.joined \subseteq Witness /\ p.updated \subseteq Witness
                    /\ p.counts \subseteq 0 .. MaxVotes

VARIABLES
  wit,       \* the witness objects
  vtime,     \* current_virtual_time
  shuffled,  \* current_shuffled_witnesses
  hardfork,  \* hardfork_property_object
  head,      \* the head block: its number (in its round, and up to a day), its time and
             \* its slot
  software,  \* the latest hardfork that the node of each witness knows
  plan       \* the plan followed

vars == <<wit, vtime, shuffled, hardfork, head, software, plan>>

Uint(n) == n % (Lap + 1)

UpTo(bound, n) == IF n < bound THEN n ELSE bound

Keyed(w) == {v \in DOMAIN w : w[v].key}

\* The default values of a witness_object.
NewWitness(key) ==
  [votes |-> 0, key |-> key, last |-> 0, pos |-> 0, time |-> Lap, vote |-> 0,
   unseen |-> head.age]

\* The state after genesis, or after a first block in which others became witnesses.
Init ==
  /\ plan \in Plans
  /\ head = IF plan.joined = {} THEN [num |-> 0, age |-> 0, time |-> 0, slot |-> 0]
            ELSE [num |-> 1, age |-> 1, time |-> 1, slot |-> 1]
  /\ wit = [w \in {Genesis} \cup plan.joined |->
              [NewWitness(TRUE) EXCEPT !.unseen = IF w = Genesis THEN 0 ELSE @]]
  /\ vtime = 0
  /\ shuffled = [i \in 1 .. 1 |-> Genesis]
  /\ hardfork = [last |-> 0, next |-> 0]
  /\ software = [w \in Witness |-> 0]

-----------------------------------------------------------------------------
\* Virtual time.

\* adjust_witness_vote at time t: what the witness has run since the last update is added
\* to its position, and the rest of the lap will be run at the new speed.
Adjusted(o, t, delta) ==
  LET pos == Uint(o.pos + o.votes * Uint(t - o.last))
      votes == o.votes + delta
      time == Uint(t + Uint(Lap - pos) \div (votes + 1))
  IN [o EXCEPT !.pos = pos, !.last = t, !.votes = votes,
               !.time = IF time < t THEN Lap ELSE time]

\* A new lap from time t on.
Restarted(o, t) == [o EXCEPT !.pos = 0, !.last = t, !.time = t + Lap \div (o.votes + 1)]

\* The order of by_vote_name ...
Better(w, a, b) == w[a].votes > w[b].votes \/ (w[a].votes = w[b].votes /\ a < b)

\* Mutant: the order of the wrong index.
Sooner_Votes(w, a, b) == Better(w, a, b)

\* ... and of by_schedule_time.
Sooner(w, a, b) == w[a].time < w[b].time \/ (w[a].time = w[b].time /\ a < b)

\* The highest voted witnesses.
Voted(w) ==
  LET keyed == Keyed(w)
  IN {a \in keyed : Cardinality({b \in keyed : Better(w, b, a)}) < MaxVoted}

\* Mutant: one too many.
Processed_OneMore(w, voted) ==
  LET rest == Keyed(w) \ voted
      room == MaxWitnesses - Cardinality(voted)
  IN {a \in DOMAIN w : Cardinality({b \in rest : Sooner(w, b, a)}) <= room}

\* Those that the walk along by_schedule_time comes to before the schedule is full.
Processed(w, voted) ==
  LET rest == Keyed(w) \ voted
      room == MaxWitnesses - Cardinality(voted)
  IN {a \in DOMAIN w : Cardinality({b \in rest : Sooner(w, b, a)}) < room}

\* The virtual time that everyone advances to.
IsNewTime(w, processed, t) ==
  IF processed = {} THEN t = vtime
  ELSE (\E a \in processed : t = w[a].time) /\ (\A a \in processed : w[a].time <= t)

\* The next lap of somebody does not end within the range of the clock.
Overflows(w, processed, t) == \E a \in processed : t + Lap \div (w[a].votes + 1) > Lap

\* Mutant: only those that were processed start again when the clock does.
Lapped_Some(w, processed, t, over) ==
  [a \in DOMAIN w |->
     IF a \in processed THEN Restarted(w[a], IF over THEN 0 ELSE t) ELSE w[a]]

\* The laps after the update; reset_virtual_schedule_time when the clock is at its end.
Lapped(w, processed, t, over) ==
  [a \in DOMAIN w |->
     IF over THEN Restarted(w[a], 0)
     ELSE IF a \in processed THEN Restarted(w[a], t) ELSE w[a]]

\* "number of active witnesses does not equal expected_active_witnesses"
Expected(w, processed) ==
  UpTo(MaxWitnesses, Cardinality(DOMAIN w) - Cardinality(processed \ Keyed(w)))

-----------------------------------------------------------------------------
\* Hardforks.

Size(s) == Cardinality(DOMAIN s)

RequiredOf(s) == IF plan.private THEN Size(s) \div 2 + 1 ELSE Required

Backers(w, s, v) == {i \in DOMAIN s : w[s[i]].vote = v}

\* The first version in order that enough scheduled witnesses vote for.
Counted(w, s) ==
  LET enough == {v \in DOMAIN Times : Cardinality(Backers(w, s, v)) >= RequiredOf(s)}
  IN IF enough = {} THEN hardfork.last ELSE CHOOSE v \in enough : \A u \in enough : v <= u

\* process_hardforks.  Votes are for the hardfork after the last one, so that its loop
\* applies one at most (HardforksInOrder).
Forked(h, time) ==
  IF h.last < h.next /\ Times[h.next] <= time THEN [h EXCEPT !.last = @ + 1] ELSE h

\* recalculate_all_votes of hardfork 1.1: all votes are set to none, at whatever place in its
\* lap a witness is, and those that somebody votes for are adjusted to what is found.
Recounted(w, t, found) ==
  [a \in DOMAIN w |->
     LET none == [w[a] EXCEPT !.votes = 0]
     IN IF a \in DOMAIN found THEN Adjusted(none, t, found[a]) ELSE none]

-----------------------------------------------------------------------------
\* A block.

\* get_scheduled_witness
Scheduled(slot) == shuffled[1 + ((head.slot + slot) % Size(shuffled))]

\* Mutant: a witness votes once.
Reported_Once(o, known) ==
  [o EXCEPT !.vote = IF @ = 0 /\ hardfork.last < known THEN hardfork.last + 1 ELSE @]

\* The extensions that _generate_block puts into the header and _apply_block reads.
Reported(o, known) ==
  [o EXCEPT !.vote = IF hardfork.last < known THEN hardfork.last + 1
                     ELSE IF @ > known THEN hardfork.last ELSE @]

NoOp == [kind |-> "none"]

\* The operations of the plan: a vote, or a witness_update.
Ops ==
  {NoOp} \cup {[kind |-> "vote", on |-> v[1], delta |-> v[2]] : v \in plan.votes}
         \cup {[kind |-> "update", on |-> a, key |-> k] : a \in plan.updated, k \in BOOLEAN}

Applies(w, op) ==
  \/ op.kind \in {"none", "update"}
  \/ op.kind = "vote" /\ op.on \in DOMAIN w /\ w[op.on].votes + op.delta \in 0 .. MaxVotes

Applied(w, op) ==
  CASE op.kind = "vote" -> [w EXCEPT ![op.on] = Adjusted(@, vtime, op.delta)]
    [] op.kind = "update" /\ op.on \in DOMAIN w -> [w EXCEPT ![op.on].key = op.key]
    [] op.kind = "update" /\ op.on \notin DOMAIN w ->
         [a \in DOMAIN w \cup {op.on} |-> IF a = op.on THEN NewWitness(op.key) ELSE w[a]]
    [] OTHER -> w

\* update_global_dynamic_data and update_signing_witness: those whose slots were
\* missed lose their keys if they have not been seen for a day.
Signed(w, missed, by) ==
  LET late == {Scheduled(i) : i \in 1 .. missed} \ {by}
  IN [a \in DOMAIN w |->
        [w[a] EXCEPT !.key = @ /\ ~ (a \in late /\ w[a].unseen > Day),
                     !.unseen = IF a = by THEN 0 ELSE UpTo(Day + 1, @ + 1)]]

\* The orders that the shuffle may leave the list in.
Shuffles(set) ==
  {s \in [1 .. Cardinality(set) -> set] :
     /\ \A a \in set : \E i \in DOMAIN s : s[i] = a
     /\ plan.sorted => \A i, j \in DOMAIN s : i < j => s[i] < s[j]}

\* The witnesses after a block at whose end they are w: what hardfork 1.1 makes of them, if
\* the block applies it.  The votes found are those of WitnessVotes.
Left(w, recount) ==
  IF recount
  THEN \E voted \in SUBSET DOMAIN w : \E found \in [voted -> plan.counts] :
         wit' = Recounted(w, vtime', found)
  ELSE wit' = w

\* update_witness_schedule4 at the end of a round, or nothing; then process_hardforks.
Rescheduled(w, num, recount) ==
  IF num = 0
  THEN \E voted \in {Voted(w)} : \E processed \in {Processed(w, voted)} :
         LET chosen == voted \cup (processed \cap Keyed(w))
         IN /\ chosen # {} /\ Cardinality(chosen) = Expected(w, processed)
            /\ \E t \in 0 .. Lap : \E over \in {Overflows(w, processed, t)} :
                 /\ IsNewTime(w, processed, t)
                 /\ vtime' = IF over THEN 0 ELSE t
                 /\ Left(Lapped(w, processed, t, over), recount)
            /\ shuffled' \in Shuffles(chosen)
  ELSE UNCHANGED <<vtime, shuffled>> /\ Left(w, recount)

apply_block(missed, op) ==
  LET by == Scheduled(missed + 1)
      num == (head.num + 1) % MaxWitnesses
      w == Applied([wit EXCEPT ![by] = Reported(@, software[by])], op)
      next == IF num = 0 THEN Counted(w, shuffled) ELSE hardfork.next
  IN /\ wit[by].key /\ software[by] >= hardfork.last
     /\ Applies(wit, op)
     /\ head' = [num |-> num, time |-> UpTo(MaxTime, head.time + missed + 1),
                 age |-> UpTo(Day + 1, head.age + 1),
                 slot |-> (head.slot + missed + 1) % Cycle]
     /\ hardfork' = Forked([hardfork EXCEPT !.next = next], head'.time)
     /\ \E signed \in {Signed(w, missed, by)} :
           Rescheduled(signed, num, hardfork.last = 0 /\ hardfork'.last = 1)
     /\ UNCHANGED <<software, plan>>

\* Somebody installs another version of the node.
install(a, v) ==
  /\ v # software[a]
  /\ software' = [software EXCEPT ![a] = v]
  /\ UNCHANGED <<wit, vtime, shuffled, hardfork, head, plan>>

Block == \E missed \in plan.missed, op \in Ops : apply_block(missed, op)

Next == Block \/ \E a \in plan.moving, v \in DOMAIN Times : install(a, v)

Spec == Init /\ [][Next]_vars

\* Blocks go on being made (every block has another number than the one before):
\* somebody who is scheduled keeps a key and is up to date.
FairSpec == Spec /\ []<><<head'.num # head.num>>_vars

-----------------------------------------------------------------------------
\* Properties.

OnTrack(o, t) ==
  /\ o.last <= t /\ t <= o.time /\ o.time <= Lap
  /\ o.pos + o.votes * (o.time - o.last) <= Lap

\* Nobody is overtaken by the virtual clock: whoever waits for its turn completes its
\* lap now or later, and at its present speed it will not have run more than the lap
\* by then, so that no subtraction in adjust_witness_vote wraps around, whatever votes,
\* updates and resets of the clock there were.
VirtualTimesConsistent == \A a \in DOMAIN wit : OnTrack(wit[a], vtime)

\* Whenever an update might come, it finds as many witnesses as it expects: the
\* assertion in update_witness_schedule4 cannot fail and stop the chain.
ScheduleIsFull ==
  LET voted == Voted(wit)
      processed == Processed(wit, voted)
  IN Cardinality(voted \cup (processed \cap Keyed(wit))) = Expected(wit, processed)

VotesStay == \A a \in DOMAIN wit : a \in DOMAIN wit' /\ wit'[a].votes = wit[a].votes

\* Once votes no longer change, everybody with a vote and a key has a turn again and
\* again, however many others there are with more votes and however often the virtual
\* clock comes to its end.
TurnComes ==
  \A a \in Witness :
    <>[](a \in DOMAIN wit /\ wit[a].key /\ wit[a].votes > 0) /\ <>[][VotesStay]_vars
      => []<>(\E i \in DOMAIN shuffled : shuffled[i] = a)

\* "The top N witnesses by votes are scheduled every round, every one else takes turns
\* being scheduled proportional to their votes" (witness_objects.hpp): the same while
\* votes change.
TurnAlwaysComes ==
  \A a \in Witness :
    <>[](a \in DOMAIN wit /\ wit[a].key /\ wit[a].votes > 0)
      => []<>(\E i \in DOMAIN shuffled : shuffled[i] = a)

\* The loop in process_hardforks never has two hardforks to apply, whoever upgraded,
\* voted and went back in between: everybody votes for the next one at most.
HardforksInOrder ==
  /\ hardfork.next <= hardfork.last + 1
  /\ \A a \in DOMAIN wit : wit[a].vote <= hardfork.last + 1

\* If from some time on all witnesses that are scheduled know a hardfork, and they are
\* enough and miss no slot, it is applied, whatever they ran, voted for and withdrew
\* before: a vote is renewed with the next block of its witness.
HardforkHappens ==
  \A v \in DOMAIN Times :
    (plan.missed = {0})
      /\ <>[](/\ Size(shuffled) >= RequiredOf(shuffled)
              /\ \A i \in DOMAIN shuffled : software[shuffled[i]] >= v)
      => <>(hardfork.last >= v)
=============================================================================
