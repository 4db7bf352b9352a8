-------------------------- MODULE SchedulingProofs --------------------------
(***************************************************************************)
(* Who acts when: the threads of a node, and the witnesses of the chain.   *)
(*                                                                         *)
(* For any number of threads, locks, transactions and schedules: the       *)
(* contexts in the write queue stay alive, the threads of a node use the   *)
(* queue as WriteQueue says, the callbacks of network_broadcast_api are    *)
(* owned by calls that last, and a generated block is due.                 *)
(*                                                                         *)
(* For any number of witnesses, any width of the virtual clock and any     *)
(* sequence of blocks: virtual times stay consistent, a schedule is always *)
(* full, and hardforks come one after the other.                           *)
(***************************************************************************)
EXTENDS NodeThreads, WitnessSchedule, FiniteSetTheorems, TLAPS

\* The steps late in a module of this size need more than the default time.
USE SMTT(30), ZenonT(30), SMTT(60)

-----------------------------------------------------------------------------
\* The turns of the witnesses.

\* A witness object as far as its turns are concerned.
IsObject(o) ==
  /\ o = [votes |-> o.votes, key |-> o.key, last |-> o.last, pos |-> o.pos,
          time |-> o.time, vote |-> o.vote, unseen |-> o.unseen]
  /\ o.votes \in Nat /\ o.last \in Nat /\ o.pos \in Nat /\ o.time \in Nat

\* A table of witnesses all of which are on track at virtual time t.
Table(w, t) ==
  /\ w = [a \in DOMAIN w |-> w[a]] /\ DOMAIN w \subseteq Witness
  /\ \A a \in DOMAIN w : IsObject(w[a]) /\ OnTrack(w[a], t)

Inv == plan \in Plans /\ vtime \in Nat /\ vtime <= Lap /\ Table(wit, vtime)

-----------------------------------------------------------------------------
\* Arithmetic.

\* Every non-empty set of natural numbers has a least element.
LEMMA Least ==
  ASSUME NEW S \in SUBSET Nat, S # {}
  PROVE  \E n \in S : \A m \in S : n <= m
<1>1. PICK n \in S : \A m \in S : ~ (<<m, n>> \in OpToRel(<, Nat))
  BY NatLessThanWellFounded, WFMin, Zenon
<1>2. \A m \in S : ~ (m < n)
  BY <1>1, Zenon DEF OpToRel
<1> QED BY <1>2

LEMMA LapIsNatural == Lap \in Nat
BY ScheduleAssumption

\* A lap is divided by votes + 1, so that nobody runs more than it.
LEMMA Division ==
  ASSUME NEW x \in Nat, NEW v \in Nat
  PROVE  /\ x \div (v + 1) \in Nat
         /\ v * (x \div (v + 1)) <= x
         /\ x \div (v + 1) <= x
<1> DEFINE y == v + 1
<1>0. y \in Nat \ {0}
  OBVIOUS
<1> HIDE DEF y
<1>1. x = (y * (x \div y)) + (x % y) /\ x % y \in 0 .. y - 1 /\ x \div y \in Int
  BY <1>0
<1>2. ASSUME NEW q \in Int, NEW r \in 0 .. y - 1, x = (y * q) + r
      PROVE  q \in Nat /\ v * q <= x /\ q <= x
  <2>1. q >= 0
    <3>1. CASE q <= -1
      <4>1. y * q <= y * (-1)
        BY <3>1, <1>0, Z3
      <4> QED BY <4>1, <1>2, <1>0, Z3
    <3> QED BY <3>1
  <2>2. y * q = (v * q) + q
    BY <2>1, Z3 DEF y
  <2>3. v * q >= 0
    BY <2>1, Z3
  <2> QED BY <2>1, <2>2, <2>3, <1>2, <1>0
<1>3. x \div y \in Nat /\ v * (x \div y) <= x /\ x \div y <= x
  BY <1>1, <1>2
<1> QED BY <1>3 DEF y

\* Products of natural numbers grow with their factors.
LEMMA Monotone ==
  ASSUME NEW v \in Nat, NEW x \in Nat, NEW y \in Nat, x <= y
  PROVE  v * x \in Nat /\ v * x <= v * y
BY Z3

\* Numbers within the range of the clock are not changed by its width ...
LEMMA Within ==
  ASSUME NEW n \in Nat, n <= Lap
  PROVE  Uint(n) = n
<1>1. Lap + 1 \in Nat \ {0} /\ n \in 0 .. Lap
  BY ScheduleAssumption
<1> QED BY <1>1, ScheduleAssumption DEF Uint

\* ... and a sum that leaves it comes back below what was added to.
LEMMA Wraps ==
  ASSUME NEW t \in Nat, NEW q \in Nat, t <= Lap, q <= Lap, t + q > Lap
  PROVE  Uint(t + q) < t
<1> DEFINE L == Lap + 1
<1>1. L \in Nat \ {0} /\ (t + q) - L \in 0 .. L - 1
  BY ScheduleAssumption
<1> HIDE DEF L
<1>2. t + q = (L * ((t + q) \div L)) + ((t + q) % L) /\ (t + q) % L \in 0 .. L - 1
      /\ (t + q) \div L \in Int
  BY <1>1
<1>3. ASSUME NEW d \in Int, NEW m \in 0 .. L - 1, t + q = (L * d) + m
      PROVE  m = (t + q) - L
  <2>1. CASE d <= 0
    <3>1. L * d <= 0
      BY <2>1, <1>1, Z3
    <3> QED BY <3>1, <1>1, <1>3, Z3
  <2>2. CASE d >= 2
    <3>1. L * d >= L * 2
      BY <2>2, <1>1, Z3
    <3> QED BY <3>1, <1>1, <1>3, Z3
  <2>3. CASE d = 1
    BY <2>3, <1>1, <1>3, Z3
  <2> QED BY <2>1, <2>2, <2>3
<1>4. (t + q) % L = (t + q) - L
  BY <1>2, <1>3
<1> QED BY <1>1, <1>4, ScheduleAssumption DEF L, Uint

-----------------------------------------------------------------------------
\* One witness.

\* A vote does not throw a witness off its track: what it has run since the last
\* update is within the lap, and the rest of the lap ends within the range of the
\* clock or is put at its end.
LEMMA AdjustedOnTrack ==
  ASSUME NEW o, NEW t \in Nat, NEW delta, IsObject(o), OnTrack(o, t), t <= Lap,
         o.votes + delta \in Nat
  PROVE  IsObject(Adjusted(o, t, delta)) /\ OnTrack(Adjusted(o, t, delta), t)
<1> DEFINE p == o.pos + o.votes * (t - o.last)
           v == o.votes + delta
           q == (Lap - p) \div (v + 1)
           e == IF t + q > Lap THEN Lap ELSE t + q
<1>1. t - o.last \in Nat /\ o.time - o.last \in Nat /\ t - o.last <= o.time - o.last
  BY DEF IsObject, OnTrack
<1>2. /\ o.votes * (t - o.last) \in Nat /\ o.votes * (o.time - o.last) \in Nat
      /\ o.votes * (t - o.last) <= o.votes * (o.time - o.last)
  BY <1>1, Monotone DEF IsObject
<1>3. p \in Nat /\ p <= Lap
  BY <1>2, LapIsNatural DEF IsObject, OnTrack
<1>4. Uint(t - o.last) = t - o.last
  <2>1. t - o.last <= Lap
    BY LapIsNatural DEF IsObject
  <2> QED BY <1>1, <2>1, Within
<1>5. Uint(p) = p
  BY <1>3, Within
<1> HIDE DEF p, v
<1>6. Lap - p \in Nat /\ Lap - p <= Lap
  BY <1>3, ScheduleAssumption
<1>7. Uint(Lap - p) = Lap - p
  BY <1>6, Within
<1>8. v \in Nat
  BY DEF v
<1>9. q \in Nat /\ v * q <= Lap - p /\ q <= Lap
  <2>1. q \in Nat /\ v * q <= Lap - p /\ q <= Lap - p
    BY <1>6, <1>8, Division, Zenon
  <2> HIDE DEF q
  <2> QED BY <2>1, <1>6, LapIsNatural
<1> HIDE DEF q
<1>10. (IF Uint(t + q) < t THEN Lap ELSE Uint(t + q)) = e
  <2>1. CASE t + q > Lap
    BY <2>1, <1>9, Wraps
  <2>2. CASE ~ (t + q > Lap)
    <3>1. t + q \in Nat /\ t + q <= Lap
      BY <2>2, <1>9, ScheduleAssumption
    <3> QED BY <3>1, <1>9, <2>2, Within
  <2> QED BY <2>1, <2>2
<1>11. e \in Nat /\ t <= e /\ e <= Lap /\ e - t \in Nat /\ e - t <= q
  BY <1>9, ScheduleAssumption
<1>12. v * (e - t) \in Nat /\ v * (e - t) <= v * q
  BY <1>8, <1>9, <1>11, Monotone
<1>13. v * q \in Nat
  BY <1>8, <1>9, Monotone
<1> HIDE DEF e
<1>14. p + v * (e - t) <= Lap
  BY <1>3, <1>6, <1>9, <1>12, <1>13, ScheduleAssumption
<1>15. Adjusted(o, t, delta) = [o EXCEPT !.pos = p, !.last = t, !.votes = v, !.time = e]
  BY <1>4, <1>5, <1>7, <1>10, Zenon DEF Adjusted, p, v, q
<1>16. Adjusted(o, t, delta) =
         [votes |-> v, key |-> o.key, last |-> t, pos |-> p, time |-> e,
          vote |-> o.vote, unseen |-> o.unseen]
  BY <1>15, Zenon DEF IsObject
<1> QED BY <1>16, <1>3, <1>8, <1>11, <1>14 DEF IsObject, OnTrack

\* A new lap that ends within the range of the clock.
LEMMA RestartedOnTrack ==
  ASSUME NEW o, IsObject(o), NEW t \in Nat, t + Lap \div (o.votes + 1) <= Lap
  PROVE  IsObject(Restarted(o, t)) /\ OnTrack(Restarted(o, t), t)
<1> DEFINE q == Lap \div (o.votes + 1)
<1>1. q \in Nat /\ o.votes * q <= Lap /\ q <= Lap
  BY Division, LapIsNatural DEF IsObject
<1>2. t + q <= Lap
  OBVIOUS
<1>3. Restarted(o, t) = [o EXCEPT !.pos = 0, !.last = t, !.time = t + q]
  BY DEF Restarted
<1> HIDE DEF q
<1>4. Restarted(o, t) =
        [votes |-> o.votes, key |-> o.key, last |-> t, pos |-> 0, time |-> t + q,
         vote |-> o.vote, unseen |-> o.unseen]
  BY <1>3, Zenon DEF IsObject
<1>5. (t + q) - t = q /\ o.votes \in Nat
  BY <1>1 DEF IsObject
<1>6. o.votes * q \in Nat
  BY <1>1, <1>5, Monotone
<1>7. 0 + o.votes * ((t + q) - t) <= Lap
  BY <1>1, <1>5, <1>6
<1>8. t + q \in Nat /\ t <= t + q
  BY <1>1
<1> QED BY <1>2, <1>4, <1>5, <1>7, <1>8 DEF IsObject, OnTrack

\* Somebody who has just become a witness.
LEMMA NewOnTrack ==
  ASSUME NEW k, NEW t \in Nat, t <= Lap
  PROVE  IsObject(NewWitness(k)) /\ OnTrack(NewWitness(k), t)
BY ScheduleAssumption DEF NewWitness, IsObject, OnTrack

\* A change of the other fields.
LEMMA OthersOnTrack ==
  ASSUME NEW o, IsObject(o), NEW t, OnTrack(o, t), NEW k, NEW v, NEW u, NEW n,
         n = [votes |-> o.votes, key |-> k, last |-> o.last, pos |-> o.pos,
              time |-> o.time, vote |-> v, unseen |-> u]
  PROVE  IsObject(n) /\ OnTrack(n, t)
BY DEF IsObject, OnTrack

-----------------------------------------------------------------------------
\* All witnesses.

\* Whoever is not processed is behind everyone who is: had it been sooner than one of
\* them, no more witnesses would be ahead of it than of that one.
LEMMA ProcessedFirst ==
  ASSUME NEW w, NEW voted, NEW t, Table(w, t), MaxWitnesses - Cardinality(voted) \in Int,
         NEW p \in Processed(w, voted), NEW a \in DOMAIN w \ Processed(w, voted)
  PROVE  w[p].time <= w[a].time
<1> DEFINE rest == Keyed(w) \ voted
           Ahead(x) == {b \in rest : Sooner(w, b, x)}
           room == MaxWitnesses - Cardinality(voted)
<1>1. p \in DOMAIN w /\ a \in DOMAIN w
  BY DEF Processed
<1>2. \A x \in DOMAIN w : w[x].time \in Nat /\ x \in Nat
  BY ScheduleAssumption DEF Table, IsObject
<1>3. rest \subseteq DOMAIN w
  BY DEF Keyed
<1>4. ASSUME NEW x \in DOMAIN w
      PROVE  IsFiniteSet(Ahead(x)) /\ Cardinality(Ahead(x)) \in Nat
  <2>1. Ahead(x) \subseteq Witness
    BY <1>3 DEF Table
  <2> QED BY <2>1, FS_Subset, FS_CardinalityType, ScheduleAssumption
<1>5. Cardinality(Ahead(p)) < room /\ ~ (Cardinality(Ahead(a)) < room)
  BY <1>1 DEF Processed
<1>6. SUFFICES ASSUME w[a].time < w[p].time PROVE FALSE
  BY <1>1, <1>2
<1>7. Ahead(a) \subseteq Ahead(p)
  BY <1>1, <1>2, <1>3, <1>6 DEF Sooner
<1>8. Cardinality(Ahead(a)) <= Cardinality(Ahead(p))
  BY <1>1, <1>4, <1>7, FS_Subset
<1> HIDE DEF Ahead, room
<1> QED BY <1>1, <1>4, <1>5, <1>8 DEF room

\* The update at the end of a round, with or without a reset of the clock.
LEMMA LappedOnTrack ==
  ASSUME NEW w, NEW voted, Table(w, vtime), vtime \in Nat, vtime <= Lap,
         MaxWitnesses - Cardinality(voted) \in Int, NEW t \in 0 .. Lap,
         IsNewTime(w, Processed(w, voted), t)
  PROVE  LET processed == Processed(w, voted)
             over == Overflows(w, processed, t)
         IN Table(Lapped(w, processed, t, over), IF over THEN 0 ELSE t)
<1> DEFINE processed == Processed(w, voted)
           over == Overflows(w, processed, t)
           lapped == Lapped(w, processed, t, over)
           new == IF over THEN 0 ELSE t
<1>1. /\ lapped = [a \in DOMAIN lapped |-> lapped[a]] /\ DOMAIN lapped = DOMAIN w
      /\ DOMAIN w \subseteq Witness
  BY DEF Lapped, Table
<1>2. processed \subseteq DOMAIN w
  BY DEF Processed
<1>3. \A x \in DOMAIN w : IsObject(w[x]) /\ OnTrack(w[x], vtime)
  BY DEF Table
<1>4. ASSUME NEW a \in DOMAIN w
      PROVE  IsObject(lapped[a]) /\ OnTrack(lapped[a], new)
  <2>1. Lap \div (w[a].votes + 1) \in Nat /\ Lap \div (w[a].votes + 1) <= Lap
    BY <1>3, Division, LapIsNatural, Zenon DEF IsObject
  <2>2. CASE over
    <3>1. lapped[a] = Restarted(w[a], 0) /\ new = 0
      BY <2>2 DEF Lapped
    <3>2. 0 + Lap \div (w[a].votes + 1) <= Lap
      BY <2>1
    <3> QED BY <3>1, <3>2, <1>3, RestartedOnTrack, Zenon
  <2>3. CASE ~ over /\ a \in processed
    <3>1. lapped[a] = Restarted(w[a], t) /\ new = t /\ t \in Nat
      BY <2>3, LapIsNatural DEF Lapped
    <3>2. ~ (t + Lap \div (w[a].votes + 1) > Lap)
      BY <2>3 DEF Overflows
    <3> HIDE DEF lapped, new, over, processed
    <3>3. t + Lap \div (w[a].votes + 1) <= Lap
      BY <2>1, <3>1, <3>2, LapIsNatural
    <3> QED BY <3>1, <3>3, <1>3, RestartedOnTrack
  <2>4. CASE ~ over /\ a \notin processed
    <3>1. lapped[a] = w[a] /\ new = t
      BY <2>4 DEF Lapped
    <3>2. vtime <= t /\ t <= w[a].time
      <4>1. CASE processed = {}
        BY <4>1, <1>3 DEF IsNewTime, OnTrack
      <4>2. CASE processed # {}
        <5>1. PICK p \in processed : t = w[p].time
          BY <4>2 DEF IsNewTime
        <5>2. vtime <= w[p].time
          BY <5>1, <1>2, <1>3 DEF OnTrack
        <5>3. w[p].time <= w[a].time
          BY <2>4, ProcessedFirst
        <5> QED BY <5>1, <5>2, <5>3
      <4> QED BY <4>1, <4>2
    <3> HIDE DEF lapped, new, over, processed
    <3>3. w[a].last <= t
      BY <1>3, <3>2, LapIsNatural DEF IsObject, OnTrack
    <3> QED BY <3>1, <3>2, <3>3, <1>3, Zenon DEF OnTrack
  <2> QED BY <2>2, <2>3, <2>4, Zenon
<1> HIDE DEF lapped, new
<1>5. Table(lapped, new)
  BY <1>1, <1>4 DEF Table
<1> QED BY <1>5 DEF lapped, new

\* The header of a block: only the vote for a hardfork changes.
LEMMA ReportedOnTrack ==
  ASSUME NEW by, NEW known, Table(wit, vtime)
  PROVE  LET w == [wit EXCEPT ![by] = Reported(@, known)]
         IN /\ Table(w, vtime) /\ DOMAIN w = DOMAIN wit
            /\ \A a \in DOMAIN wit : w[a].votes = wit[a].votes
<1> DEFINE w == [wit EXCEPT ![by] = Reported(@, known)]
<1>1. ASSUME NEW o, IsObject(o), OnTrack(o, vtime)
      PROVE  /\ IsObject(Reported(o, known)) /\ OnTrack(Reported(o, known), vtime)
             /\ Reported(o, known).votes = o.votes
  <2> DEFINE v == IF hardfork.last < known THEN hardfork.last + 1
                  ELSE IF o.vote > known THEN hardfork.last ELSE o.vote
  <2>1. Reported(o, known) = [o EXCEPT !.vote = v]
    BY DEF Reported
  <2> HIDE DEF v
  <2>2. Reported(o, known) =
          [votes |-> o.votes, key |-> o.key, last |-> o.last, pos |-> o.pos,
           time |-> o.time, vote |-> v, unseen |-> o.unseen]
    BY <1>1, <2>1 DEF IsObject
  <2> QED BY <1>1, <2>2, OthersOnTrack
<1>2. DOMAIN w = DOMAIN wit /\ w = [a \in DOMAIN w |-> w[a]]
  BY DEF Table
<1>3. ASSUME NEW a \in DOMAIN wit
      PROVE  IsObject(w[a]) /\ OnTrack(w[a], vtime) /\ w[a].votes = wit[a].votes
  <2>1. IsObject(wit[a]) /\ OnTrack(wit[a], vtime)
    BY DEF Table
  <2>2. w[a] = IF a = by THEN Reported(wit[a], known) ELSE wit[a]
    BY DEF Table
  <2> HIDE DEF w
  <2> QED BY <2>1, <2>2, <1>1
<1> HIDE DEF w
<1>4. Table(w, vtime)
  BY <1>2, <1>3 DEF Table
<1> QED BY <1>2, <1>3, <1>4 DEF w

\* The operation in a block.
LEMMA AppliedOnTrack ==
  ASSUME NEW w, NEW op \in Ops, Table(w, vtime), vtime \in Nat, vtime <= Lap,
         Applies(w, op), plan \in Plans
  PROVE  Table(Applied(w, op), vtime)
<1>1. \A x \in DOMAIN w : IsObject(w[x]) /\ OnTrack(w[x], vtime)
  BY DEF Table
<1>2. CASE op.kind = "vote"
  <2> DEFINE n == [w EXCEPT ![op.on] = Adjusted(@, vtime, op.delta)]
  <2>1. Applied(w, op) = n
    BY <1>2 DEF Applied
  <2>2. op.on \in DOMAIN w /\ w[op.on].votes + op.delta \in Nat
    BY <1>2, ScheduleAssumption DEF Applies
  <2>3. DOMAIN n = DOMAIN w /\ n = [a \in DOMAIN n |-> n[a]]
    BY DEF Table
  <2>4. ASSUME NEW a \in DOMAIN w
        PROVE  IsObject(n[a]) /\ OnTrack(n[a], vtime)
    <3>1. n[a] = IF a = op.on THEN Adjusted(w[a], vtime, op.delta) ELSE w[a]
      BY DEF Table
    <3> HIDE DEF n
    <3>2. CASE a = op.on
      BY <3>1, <3>2, <2>2, <1>1, AdjustedOnTrack
    <3>3. CASE a # op.on
      BY <3>1, <3>3, <1>1
    <3> QED BY <3>2, <3>3
  <2> HIDE DEF n
  <2> QED BY <2>1, <2>3, <2>4 DEF Table
<1>3. CASE op.kind = "update" /\ op.on \in DOMAIN w
  <2> DEFINE n == [w EXCEPT ![op.on].key = op.key]
  <2>1. Applied(w, op) = n
    BY <1>3 DEF Applied
  <2>3. DOMAIN n = DOMAIN w /\ n = [a \in DOMAIN n |-> n[a]]
    BY DEF Table
  <2>4. ASSUME NEW a \in DOMAIN w
        PROVE  IsObject(n[a]) /\ OnTrack(n[a], vtime)
    <3>1. n[a] = IF a = op.on THEN [w[a] EXCEPT !.key = op.key] ELSE w[a]
      BY DEF Table
    <3> HIDE DEF n
    <3>2. CASE a = op.on
      <4>1. n[a] = [votes |-> w[a].votes, key |-> op.key, last |-> w[a].last,
                    pos |-> w[a].pos, time |-> w[a].time, vote |-> w[a].vote,
                    unseen |-> w[a].unseen]
        BY <3>1, <3>2, <1>1 DEF IsObject
      <4> QED BY <4>1, <1>1, OthersOnTrack, Zenon
    <3>3. CASE a # op.on
      BY <3>1, <3>3, <1>1
    <3> QED BY <3>2, <3>3
  <2> HIDE DEF n
  <2> QED BY <2>1, <2>3, <2>4 DEF Table
<1>4. CASE op.kind = "update" /\ op.on \notin DOMAIN w
  <2> DEFINE n == [a \in DOMAIN w \cup {op.on} |->
                     IF a = op.on THEN NewWitness(op.key) ELSE w[a]]
  <2>1. Applied(w, op) = n
    BY <1>4 DEF Applied
  <2>2. op.on \in Witness
    BY <1>4, PlanAssumption DEF Ops, NoOp
  <2>3. n = [a \in DOMAIN n |-> n[a]] /\ DOMAIN n \subseteq Witness
    BY <2>2 DEF Table
  <2>4. ASSUME NEW a \in DOMAIN n
        PROVE  IsObject(n[a]) /\ OnTrack(n[a], vtime)
    <3>1. n[a] = (IF a = op.on THEN NewWitness(op.key) ELSE w[a]) /\ (a # op.on => a \in DOMAIN w)
      OBVIOUS
    <3> HIDE DEF n
    <3> QED BY <3>1, <1>1, NewOnTrack
  <2> HIDE DEF n
  <2> QED BY <2>1, <2>3, <2>4 DEF Table
<1>5. CASE op.kind = "none"
  BY <1>5 DEF Applied
<1> QED BY <1>2, <1>3, <1>4, <1>5 DEF Applies

\* The end of a block: keys that are lost, and the signer seen.
LEMMA SignedOnTrack ==
  ASSUME NEW w, NEW missed, NEW by, Table(w, vtime)
  PROVE  Table(Signed(w, missed, by), vtime)
<1> DEFINE n == Signed(w, missed, by)
<1>1. n = [a \in DOMAIN n |-> n[a]] /\ DOMAIN n = DOMAIN w /\ DOMAIN w \subseteq Witness
  BY DEF Signed, Table
<1>2. ASSUME NEW a \in DOMAIN w
      PROVE  IsObject(n[a]) /\ OnTrack(n[a], vtime)
  <2> DEFINE late == {Scheduled(i) : i \in 1 .. missed} \ {by}
             k == w[a].key /\ ~ (a \in late /\ w[a].unseen > Day)
             u == IF a = by THEN 0 ELSE UpTo(Day + 1, w[a].unseen + 1)
  <2>1. n[a] = [w[a] EXCEPT !.key = k, !.unseen = u]
    BY DEF Signed, Table, IsObject
  <2>2. IsObject(w[a]) /\ OnTrack(w[a], vtime)
    BY DEF Table
  <2> HIDE DEF n, k, u
  <2>3. n[a] = [votes |-> w[a].votes, key |-> k, last |-> w[a].last, pos |-> w[a].pos,
                time |-> w[a].time, vote |-> w[a].vote, unseen |-> u]
    BY <2>1, <2>2, Zenon DEF IsObject
  <2> QED BY <2>2, <2>3, OthersOnTrack, Zenon
<1> HIDE DEF n
<1>3. Table(n, vtime)
  BY <1>1, <1>2 DEF Table
<1> QED BY <1>3 DEF n

-----------------------------------------------------------------------------
\* Ranks.  Walking along an index up to a number of entries is counting who is ahead.

\* r orders the members of s strictly and totally.
Orders(r, s) ==
  /\ \A a \in s : <<a, a>> \notin r
  /\ \A a, b \in s : a # b => <<a, b>> \in r \/ <<b, a>> \in r
  /\ \A a, b, c \in s : <<a, b>> \in r /\ <<b, c>> \in r => <<a, c>> \in r

\* Who is ahead of a in s, and those with fewer than k ahead of them.
Ahead(r, s, a) == {b \in s : <<b, a>> \in r}

FirstOf(r, s, k) == {a \in s : Cardinality(Ahead(r, s, a)) < k}

\* A finite set that is not empty has a last element.
LEMMA Last ==
  ASSUME NEW r, NEW s, IsFiniteSet(s), s # {}, Orders(r, s)
  PROVE  \E z \in s : \A a \in s \ {z} : <<a, z>> \in r
<1> DEFINE n == Cardinality(s)
           Rank(a) == Cardinality(Ahead(r, s, a))
           gaps == {n - Rank(a) : a \in s}
<1>1. ASSUME NEW a \in s
      PROVE  /\ IsFiniteSet(Ahead(r, s, a)) /\ Rank(a) \in Nat /\ n \in Nat /\ Rank(a) <= n
  <2>1. Ahead(r, s, a) \subseteq s
    BY DEF Ahead
  <2> QED BY <2>1, FS_Subset, FS_CardinalityType
<1>2. gaps \in SUBSET Nat /\ gaps # {}
  <2> HIDE DEF Rank, n
  <2> QED BY <1>1
<1>3. PICK g \in gaps : \A h \in gaps : g <= h
  BY <1>2, Least, Zenon
<1>4. PICK z \in s : g = n - Rank(z)
  OBVIOUS
<1>5. ASSUME NEW a \in s, <<z, a>> \in r
      PROVE  FALSE
  <2>1. n - Rank(z) <= n - Rank(a)
    BY <1>3, <1>4
  <2>2. Ahead(r, s, z) \subseteq Ahead(r, s, a) /\ z \in Ahead(r, s, a) /\ z \notin Ahead(r, s, z)
    BY <1>5 DEF Ahead, Orders
  <2>3. Rank(z) <= Rank(a) /\ Rank(z) # Rank(a)
    BY <2>2, <1>1, FS_Subset
  <2> HIDE DEF Rank, n
  <2> QED BY <1>1, <2>1, <2>3
<1> QED BY <1>5, Zenon DEF Orders

\* As many have fewer than k ahead of them as there are, up to k.
LEMMA FirstOnes ==
  ASSUME NEW r, NEW all, IsFiniteSet(all), Orders(r, all), NEW k \in Nat
  PROVE  Cardinality(FirstOf(r, all, k)) =
           IF Cardinality(all) < k THEN Cardinality(all) ELSE k
<1> DEFINE Good(s) == Cardinality(FirstOf(r, s, k)) =
                        IF Cardinality(s) < k THEN Cardinality(s) ELSE k
           bad == {n \in Nat : \E s \in SUBSET all : Cardinality(s) = n /\ ~ Good(s)}
<1>1. \A s \in SUBSET all : IsFiniteSet(s) /\ Cardinality(s) \in Nat
  BY FS_Subset, FS_CardinalityType
<1>2. SUFFICES ASSUME bad # {} PROVE FALSE
  <2> HIDE DEF Good
  <2>1. Good(all)
    BY <1>1, <1>2
  <2> QED BY <2>1 DEF Good
<1>3. PICK n \in bad : \A m \in bad : n <= m
  <2>1. bad \in SUBSET Nat
    OBVIOUS
  <2> HIDE DEF bad
  <2> QED BY <1>2, <2>1, Least
<1>4. PICK s \in SUBSET all : Cardinality(s) = n /\ ~ Good(s)
  <2> HIDE DEF Good
  <2> QED OBVIOUS
<1>5. s # {}
  <2> SUFFICES ASSUME s = {} PROVE FALSE
    OBVIOUS
  <2>1. FirstOf(r, s, k) = {} /\ Cardinality({}) = 0
    BY FS_EmptySet DEF FirstOf
  <2> QED BY <2>1, <1>4
<1>6. Orders(r, s)
  BY DEF Orders
<1>7. PICK z \in s : \A a \in s \ {z} : <<a, z>> \in r
  BY <1>1, <1>5, <1>6, Last
<1> DEFINE t == s \ {z}
<1>8. t \in SUBSET all /\ Cardinality(t) = n - 1 /\ n \in Nat /\ n - 1 \in Nat /\ IsFiniteSet(t)
  <2>1. Cardinality(t) = Cardinality(s) - 1 /\ t \in SUBSET all
    BY <1>1, FS_RemoveElement
  <2> QED BY <2>1, <1>1, <1>4
<1>9. Good(t)
  <2> HIDE DEF Good, t
  <2>1. n - 1 \notin bad
    <3> HIDE DEF bad
    <3> QED BY <1>3, <1>8
  <2> QED BY <2>1, <1>8
<1>10. Ahead(r, s, z) = t /\ \A a \in t : Ahead(r, s, a) = Ahead(r, t, a)
  BY <1>6, <1>7, Zenon DEF Ahead, Orders
<1>11. FirstOf(r, s, k) = FirstOf(r, t, k) \cup (IF n - 1 < k THEN {z} ELSE {})
  BY <1>8, <1>10 DEF FirstOf
<1>12. z \notin FirstOf(r, t, k) /\ IsFiniteSet(FirstOf(r, t, k))
       /\ Cardinality(FirstOf(r, t, k)) \in Nat
  <2>1. FirstOf(r, t, k) \subseteq t
    BY DEF FirstOf
  <2> QED BY <2>1, <1>8, FS_Subset, FS_CardinalityType, Zenon
<1> HIDE DEF t
<1>13. CASE n - 1 < k
  <2>1. Cardinality(FirstOf(r, s, k)) = Cardinality(FirstOf(r, t, k)) + 1
    BY <1>11, <1>12, <1>13, FS_AddElement, Zenon
  <2> QED BY <2>1, <1>4, <1>8, <1>9, <1>13
<1>14. CASE ~ (n - 1 < k)
  <2>1. FirstOf(r, s, k) = FirstOf(r, t, k)
    BY <1>11, <1>14
  <2> QED BY <2>1, <1>4, <1>8, <1>9, <1>14
<1> QED BY <1>13, <1>14

\* The size of the union of disjoint sets.
LEMMA Apart ==
  ASSUME NEW s, NEW t, IsFiniteSet(s), IsFiniteSet(t), s \cap t = {}
  PROVE  Cardinality(s \cup t) = Cardinality(s) + Cardinality(t)
<1>1. Cardinality(s \cup t) = Cardinality(s) + Cardinality(t) - 0
  BY FS_Union, FS_EmptySet
<1>2. Cardinality(s) \in Nat /\ Cardinality(t) \in Nat
  BY FS_CardinalityType
<1> QED BY <1>1, <1>2

\* Both indices are linear orders.
LEMMA Indices ==
  ASSUME NEW w, NEW all \in SUBSET Nat, NEW s \in SUBSET all,
         \A a \in all : w[a].votes \in Nat /\ w[a].time \in Nat
  PROVE  /\ Orders({p \in all \X all : Better(w, p[1], p[2])}, s)
         /\ Orders({p \in all \X all : Sooner(w, p[1], p[2])}, s)
<1>1. \A a, b \in s : /\ <<a, b>> \in {p \in all \X all : Better(w, p[1], p[2])} <=> Better(w, a, b)
                     /\ <<a, b>> \in {p \in all \X all : Sooner(w, p[1], p[2])} <=> Sooner(w, a, b)
  OBVIOUS
<1>2. \A a \in s : a \in Nat /\ w[a].votes \in Nat /\ w[a].time \in Nat
  OBVIOUS
<1>3. Orders({p \in all \X all : Better(w, p[1], p[2])}, s)
  <2>1. /\ \A a \in s : ~ Better(w, a, a)
        /\ \A a, b \in s : a # b => Better(w, a, b) \/ Better(w, b, a)
        /\ \A a, b, c \in s : Better(w, a, b) /\ Better(w, b, c) => Better(w, a, c)
    BY <1>2 DEF Better
  <2> QED BY <1>1, <2>1, Zenon DEF Orders
<1>4. Orders({p \in all \X all : Sooner(w, p[1], p[2])}, s)
  <2>1. /\ \A a \in s : ~ Sooner(w, a, a)
        /\ \A a, b \in s : a # b => Sooner(w, a, b) \/ Sooner(w, b, a)
        /\ \A a, b, c \in s : Sooner(w, a, b) /\ Sooner(w, b, c) => Sooner(w, a, c)
    BY <1>2 DEF Sooner
  <2> QED BY <1>1, <2>1, Zenon DEF Orders
<1> QED BY <1>3, <1>4

\* However the votes, the keys and the virtual times are, the walk along by_vote_name
\* and the one along by_schedule_time together find as many witnesses as are expected:
\* a full round, or else everybody who has a key.
LEMMA FullSchedule ==
  ASSUME NEW w, NEW vt, Table(w, vt)
  PROVE  LET voted == Voted(w)
             processed == Processed(w, voted)
         IN Cardinality(voted \cup (processed \cap Keyed(w))) = Expected(w, processed)
<1> DEFINE all == DOMAIN w
           keyed == Keyed(w)
           better == {p \in all \X all : Better(w, p[1], p[2])}
           sooner == {p \in all \X all : Sooner(w, p[1], p[2])}
           voted == Voted(w)
           rest == keyed \ voted
           room == MaxWitnesses - Cardinality(voted)
           processed == Processed(w, voted)
           turns == processed \cap rest
<1>1. /\ IsFiniteSet(all) /\ keyed \subseteq all /\ voted \subseteq keyed
      /\ \A a \in all : a \in Nat /\ w[a].votes \in Nat /\ w[a].time \in Nat
  BY FS_Subset, ScheduleAssumption DEF Table, IsObject, Keyed, Voted
<1>2. \A s \in SUBSET all : IsFiniteSet(s) /\ Cardinality(s) \in Nat
  BY <1>1, FS_Subset, FS_CardinalityType, Zenon
<1>3. Orders(better, keyed) /\ Orders(sooner, rest)
  <2>1. all \in SUBSET Nat /\ keyed \in SUBSET all /\ rest \in SUBSET all
    BY <1>1
  <2>2. \A a \in all : w[a].votes \in Nat /\ w[a].time \in Nat
    BY <1>1
  <2> HIDE DEF all, keyed, rest
  <2> QED BY <2>1, <2>2, Indices, Zenon
<1>4. voted = FirstOf(better, keyed, MaxVoted)
  <2>1. \A a \in keyed : Ahead(better, keyed, a) = {b \in keyed : Better(w, b, a)}
    BY <1>1 DEF Ahead
  <2> QED BY <2>1 DEF FirstOf, Voted
<1>5. Cardinality(voted) = IF Cardinality(keyed) < MaxVoted THEN Cardinality(keyed) ELSE MaxVoted
  <2>1. IsFiniteSet(keyed) /\ MaxVoted \in Nat
    BY <1>1, <1>2, ScheduleAssumption
  <2> HIDE DEF keyed, voted, better
  <2> QED BY <2>1, <1>3, <1>4, FirstOnes
<1>6. room \in Nat
  BY <1>1, <1>2, <1>5, ScheduleAssumption
<1>7. turns = FirstOf(sooner, rest, room)
  <2>1. \A a \in rest : Ahead(sooner, rest, a) = {b \in rest : Sooner(w, b, a)}
    BY <1>1 DEF Ahead
  <2> QED BY <2>1, <1>1, Zenon DEF FirstOf, Processed
<1>8. Cardinality(turns) = IF Cardinality(rest) < room THEN Cardinality(rest) ELSE room
  <2>1. IsFiniteSet(rest)
    BY <1>1, <1>2
  <2> HIDE DEF turns, rest, room, sooner
  <2> QED BY <2>1, <1>3, <1>6, <1>7, FirstOnes
<1> DEFINE unkeyed == processed \ keyed
           chosen == voted \cup (processed \cap keyed)
<1>9. /\ chosen \in SUBSET all /\ rest \in SUBSET all /\ voted \in SUBSET all
      /\ turns \in SUBSET all /\ unkeyed \in SUBSET all /\ keyed \in SUBSET all
  BY <1>1 DEF Processed
<1>10. Cardinality(chosen) = Cardinality(voted) + Cardinality(turns)
  <2>1. chosen = voted \cup turns /\ voted \cap turns = {}
    BY <1>1
  <2>2. Cardinality(voted \cup turns) = Cardinality(voted) + Cardinality(turns)
    <3> HIDE DEF voted, turns
    <3> QED BY <1>2, <1>9, <2>1, Apart
  <2> HIDE DEF chosen, turns, voted
  <2> QED BY <1>2, <1>9, <2>1, <2>2
<1>11. Cardinality(keyed) = Cardinality(voted) + Cardinality(rest)
  <2>1. keyed = voted \cup rest /\ voted \cap rest = {}
    BY <1>1
  <2>2. Cardinality(voted \cup rest) = Cardinality(voted) + Cardinality(rest)
    <3> HIDE DEF voted, rest
    <3> QED BY <1>2, <1>9, <2>1, Apart
  <2> HIDE DEF keyed, rest, voted
  <2> QED BY <1>2, <1>9, <2>1, <2>2
<1>12. Cardinality(unkeyed) + Cardinality(keyed) <= Cardinality(all)
  <2>1. unkeyed \cup keyed \in SUBSET all /\ unkeyed \cap keyed = {}
    BY <1>9
  <2>2. /\ Cardinality(unkeyed \cup keyed) = Cardinality(unkeyed) + Cardinality(keyed)
        /\ Cardinality(unkeyed \cup keyed) <= Cardinality(all)
    <3> HIDE DEF unkeyed, keyed, all
    <3> QED BY <1>1, <1>2, <1>9, <2>1, Apart, FS_Subset
  <2> HIDE DEF keyed, unkeyed, all
  <2> QED BY <1>2, <1>9, <2>1, <2>2
\* There is room for everybody: the walk comes to the end of the index.
<1>13. ASSUME Cardinality(rest) < room
       PROVE  Cardinality(unkeyed) + Cardinality(keyed) = Cardinality(all)
  <2>1. ASSUME NEW a \in all
        PROVE  a \in processed
    <3> DEFINE ahead == {b \in rest : Sooner(w, b, a)}
    <3>1. IsFiniteSet(rest) /\ ahead \subseteq rest
      BY <1>2, <1>9
    <3>2. Cardinality(ahead) <= Cardinality(rest) /\ Cardinality(ahead) \in Nat
      BY <3>1, FS_Subset, FS_CardinalityType
    <3>3. Cardinality(rest) \in Nat
      BY <1>2, <1>9
    <3> HIDE DEF room
    <3>4. Cardinality(ahead) < room
      <4> HIDE DEF ahead, rest
      <4> QED BY <3>2, <3>3, <1>6, <1>13
    <3> QED BY <3>4 DEF Processed, room
  <2>2. all = unkeyed \cup keyed /\ unkeyed \cap keyed = {}
    BY <2>1, <1>9
  <2>3. Cardinality(unkeyed \cup keyed) = Cardinality(unkeyed) + Cardinality(keyed)
    <3> HIDE DEF unkeyed, keyed
    <3> QED BY <1>2, <1>9, <2>2, Apart
  <2> HIDE DEF keyed, unkeyed, all
  <2> QED BY <1>2, <1>9, <2>2, <2>3
<1>14. Expected(w, processed) = UpTo(MaxWitnesses, Cardinality(all) - Cardinality(unkeyed))
  BY DEF Expected
<1>15. /\ Cardinality(voted) \in Nat /\ Cardinality(rest) \in Nat /\ Cardinality(all) \in Nat
       /\ Cardinality(keyed) \in Nat /\ Cardinality(unkeyed) \in Nat /\ MaxWitnesses \in Nat
  BY <1>2, <1>9, ScheduleAssumption, Zenon
<1>16. Cardinality(chosen) = Expected(w, processed)
  <2> HIDE DEF chosen, unkeyed, keyed, all, rest, voted, processed, turns
  <2>1. CASE Cardinality(rest) < room
    BY <2>1, <1>6, <1>8, <1>10, <1>11, <1>13, <1>14, <1>15 DEF UpTo
  <2>2. CASE ~ (Cardinality(rest) < room)
    BY <2>2, <1>6, <1>8, <1>10, <1>11, <1>12, <1>14, <1>15 DEF UpTo
  <2> QED BY <2>1, <2>2
<1> QED BY <1>16

-----------------------------------------------------------------------------
\* A witness that has lost its votes is on its track.
LEMMA NoneOnTrack ==
  ASSUME NEW o, NEW t \in Nat, IsObject(o), OnTrack(o, t)
  PROVE  /\ IsObject([o EXCEPT !.votes = 0]) /\ OnTrack([o EXCEPT !.votes = 0], t)
         /\ [o EXCEPT !.votes = 0].votes = 0
<1> DEFINE n == [o EXCEPT !.votes = 0]
<1>1. n = [votes |-> 0, key |-> o.key, last |-> o.last, pos |-> o.pos, time |-> o.time,
           vote |-> o.vote, unseen |-> o.unseen]
  BY DEF IsObject
<1> HIDE DEF n
<1>2. /\ n.votes = 0 /\ n.last = o.last /\ n.pos = o.pos /\ n.time = o.time
      /\ n = [votes |-> n.votes, key |-> n.key, last |-> n.last, pos |-> n.pos,
              time |-> n.time, vote |-> n.vote, unseen |-> n.unseen]
  BY <1>1
<1>3. o.last \in Nat /\ o.pos \in Nat /\ o.time \in Nat /\ o.votes \in Nat
  BY DEF IsObject
<1>4. o.time - o.last \in Nat
  BY <1>3 DEF OnTrack
<1>5. o.votes * (o.time - o.last) \in Nat
  BY <1>3, <1>4, Monotone
<1>6. o.pos + 0 * (o.time - o.last) <= Lap
  BY <1>3, <1>4, <1>5, LapIsNatural DEF OnTrack
<1>7. IsObject(n)
  BY <1>2, <1>3 DEF IsObject
<1>8. OnTrack(n, t)
  BY <1>2, <1>6 DEF OnTrack
<1> QED BY <1>2, <1>7, <1>8 DEF n

\* Hardfork 1.1 throws nobody off its track, whatever votes it finds.
LEMMA RecountedOnTrack ==
  ASSUME NEW w, NEW t \in Nat, t <= Lap, Table(w, t), NEW found,
         \A a \in DOMAIN found : found[a] \in Nat
  PROVE  Table(Recounted(w, t, found), t)
<1> DEFINE n == Recounted(w, t, found)
<1>1. n = [a \in DOMAIN n |-> n[a]] /\ DOMAIN n = DOMAIN w /\ DOMAIN w \subseteq Witness
  BY DEF Recounted, Table
<1>2. ASSUME NEW a \in DOMAIN w
      PROVE  IsObject(n[a]) /\ OnTrack(n[a], t)
  <2> DEFINE none == [w[a] EXCEPT !.votes = 0]
  <2>1. IsObject(none) /\ OnTrack(none, t) /\ none.votes = 0
    BY NoneOnTrack, Zenon DEF Table
  <2>2. n[a] = IF a \in DOMAIN found THEN Adjusted(none, t, found[a]) ELSE none
    BY DEF Recounted
  <2> HIDE DEF none, n
  <2>3. CASE a \in DOMAIN found
    <3>1. none.votes + found[a] \in Nat
      BY <2>1, <2>3
    <3> QED BY <2>1, <2>2, <2>3, <3>1, AdjustedOnTrack
  <2> QED BY <2>1, <2>2, <2>3
<1> HIDE DEF n
<1>3. Table(n, t)
  BY <1>1, <1>2 DEF Table
<1> QED BY <1>3 DEF n

\* The witnesses are left on track, with or without hardfork 1.1.
LEMMA LeftOnTrack ==
  ASSUME plan \in Plans, NEW w, NEW recount, vtime' \in Nat, vtime' <= Lap, Table(w, vtime'),
         Left(w, recount)
  PROVE  Table(wit', vtime')
<1>1. CASE recount
  <2>1. PICK voted \in SUBSET DOMAIN w : \E found \in [voted -> plan.counts] :
          wit' = Recounted(w, vtime', found)
    BY <1>1, Zenon DEF Left
  <2>2. PICK found \in [voted -> plan.counts] : wit' = Recounted(w, vtime', found)
    BY <2>1
  <2>3. \A a \in DOMAIN found : found[a] \in Nat
    BY <2>2, PlanAssumption, ScheduleAssumption
  <2> QED BY <2>2, <2>3, RecountedOnTrack
<1>2. CASE ~ recount
  BY <1>2, Zenon DEF Left
<1> QED BY <1>1, <1>2

\* update_witness_schedule, at the end of a round or not, and process_hardforks.
LEMMA RescheduledOnTrack ==
  ASSUME plan \in Plans, NEW w, NEW num, NEW recount, Table(w, vtime), vtime \in Nat,
         vtime <= Lap, Rescheduled(w, num, recount)
  PROVE  vtime' \in Nat /\ vtime' <= Lap /\ Table(wit', vtime')
<1>1. CASE num = 0
  <2> DEFINE voted == Voted(w)
             processed == Processed(w, voted)
  <2>1. PICK t \in 0 .. Lap :
          /\ IsNewTime(w, processed, t)
          /\ vtime' = IF Overflows(w, processed, t) THEN 0 ELSE t
          /\ Left(Lapped(w, processed, t, Overflows(w, processed, t)), recount)
    BY <1>1 DEF Rescheduled
  <2>2. Cardinality(voted) \in Nat
    <3>1. voted \subseteq Witness
      BY DEF Voted, Keyed, Table
    <3> QED BY <3>1, FS_Subset, FS_CardinalityType, ScheduleAssumption
  <2>3. MaxWitnesses - Cardinality(voted) \in Int
    BY <2>2, ScheduleAssumption
  <2> HIDE DEF voted
  <2>4. Table(Lapped(w, processed, t, Overflows(w, processed, t)), vtime')
    BY <2>1, <2>3, LappedOnTrack
  <2>5. vtime' \in Nat /\ vtime' <= Lap
    BY <2>1, LapIsNatural
  <2> QED BY <2>1, <2>4, <2>5, LeftOnTrack
<1>2. CASE num # 0
  <2>1. vtime' = vtime /\ Left(w, recount)
    BY <1>2, Zenon DEF Rescheduled
  <2> QED BY <2>1, LeftOnTrack
<1> QED BY <1>1, <1>2

\* The invariant is kept by every step.
LEMMA InvKept ==
  ASSUME Inv, [Next]_vars
  PROVE  Inv'
<1>1. ASSUME NEW missed \in plan.missed, NEW op \in Ops, apply_block(missed, op)
      PROVE  Inv'
  <2> DEFINE by == Scheduled(missed + 1)
             u == [wit EXCEPT ![by] = Reported(@, software[by])]
             w == Applied(u, op)
             num == (head.num + 1) % MaxWitnesses
             recount == hardfork.last = 0 /\ hardfork'.last = 1
  <2>1. Applies(wit, op) /\ Rescheduled(Signed(w, missed, by), num, recount) /\ plan' = plan
    BY <1>1 DEF apply_block
  <2>2. /\ Table(u, vtime) /\ DOMAIN u = DOMAIN wit
        /\ \A a \in DOMAIN wit : u[a].votes = wit[a].votes
    BY ReportedOnTrack, Zenon DEF Inv
  <2> HIDE DEF u, by
  <2>3. Applies(u, op)
    BY <2>1, <2>2 DEF Applies
  <2>4. Table(w, vtime)
    BY <2>2, <2>3, AppliedOnTrack DEF Inv
  <2> HIDE DEF w, num, recount
  <2>5. Table(Signed(w, missed, by), vtime)
    BY <2>4, SignedOnTrack
  <2>6. vtime' \in Nat /\ vtime' <= Lap /\ Table(wit', vtime')
    BY <2>1, <2>5, RescheduledOnTrack DEF Inv
  <2> QED BY <2>1, <2>6 DEF Inv, Table
<1>2. ASSUME NEW a \in plan.moving, NEW v \in DOMAIN Times, install(a, v)
      PROVE  Inv'
  BY <1>2 DEF install, Inv, Table
<1>3. CASE UNCHANGED vars
  BY <1>3 DEF vars, Inv, Table
<1> QED BY <1>1, <1>2, <1>3 DEF Next, Block

\* The invariant holds initially.
LEMMA InvInitially == Init => Inv
<1> SUFFICES ASSUME Init PROVE Inv
  OBVIOUS
<1>1. vtime = 0 /\ plan \in Plans /\ 0 \in Nat /\ 0 <= Lap
  BY LapIsNatural DEF Init
<1>2. /\ DOMAIN wit \subseteq Witness
      /\ wit = [a \in DOMAIN wit |-> wit[a]]
  BY ScheduleAssumption, PlanAssumption, Zenon DEF Init
<1>3. ASSUME NEW a \in DOMAIN wit
      PROVE  IsObject(wit[a]) /\ OnTrack(wit[a], 0)
  <2> DEFINE u == IF a = Genesis THEN 0 ELSE NewWitness(TRUE).unseen
  <2>1. wit[a] = [NewWitness(TRUE) EXCEPT !.unseen = u]
    BY DEF Init
  <2>2. IsObject(NewWitness(TRUE)) /\ OnTrack(NewWitness(TRUE), 0)
    BY LapIsNatural DEF NewWitness, IsObject, OnTrack
  <2> HIDE DEF u
  <2>3. wit[a] = [votes |-> NewWitness(TRUE).votes, key |-> NewWitness(TRUE).key,
                  last |-> NewWitness(TRUE).last, pos |-> NewWitness(TRUE).pos,
                  time |-> NewWitness(TRUE).time, vote |-> NewWitness(TRUE).vote,
                  unseen |-> u]
    BY <2>1, Zenon DEF NewWitness
  <2> QED BY <2>2, <2>3, OthersOnTrack, Zenon
<1> QED BY <1>1, <1>2, <1>3 DEF Inv, Table

\* Virtual times stay consistent: for every number of witnesses, size of a round, width
\* of the clock, and sequence of votes, witness_updates, missed slots and resets, no
\* computation in adjust_witness_vote wraps around unnoticed and nobody is overtaken.
THEOREM AlwaysConsistent == Spec => []VirtualTimesConsistent
<1>1. Init => Inv
  BY InvInitially
<1>2. Inv /\ [Next]_vars => Inv'
  BY InvKept
<1>3. Inv => VirtualTimesConsistent
  BY DEF Inv, Table, VirtualTimesConsistent
<1> QED BY <1>1, <1>2, <1>3, PTL DEF Spec

\* The assertion in update_witness_schedule4 holds at the end of every round, for every
\* number of witnesses and of places in a round: the chain does not stop there.
THEOREM AlwaysFull == Spec => []ScheduleIsFull
<1>1. Init => Inv
  BY InvInitially
<1>2. Inv /\ [Next]_vars => Inv'
  BY InvKept
<1>3. Inv => ScheduleIsFull
  BY FullSchedule DEF Inv, ScheduleIsFull
<1> QED BY <1>1, <1>2, <1>3, PTL DEF Spec
-----------------------------------------------------------------------------
\* Hardforks.

\* Nobody in the table votes for a hardfork beyond n.
VotesUpTo(w, n) == \A a \in DOMAIN w : w[a].vote \in Nat /\ w[a].vote <= n

\* The hardforks, and the list that votes are counted in.
ForkInv ==
  /\ hardfork = [last |-> hardfork.last, next |-> hardfork.next]
  /\ hardfork.last \in Nat /\ hardfork.next \in Nat /\ hardfork.next <= hardfork.last + 1
  /\ VotesUpTo(wit, hardfork.last + 1)
  /\ IsFiniteSet(DOMAIN shuffled) /\ \A i \in DOMAIN shuffled : shuffled[i] \in DOMAIN wit

\* The other changes of a witness leave its vote alone.
LEMMA VoteStays ==
  ASSUME NEW o, IsObject(o)
  PROVE  /\ \A t, delta : Adjusted(o, t, delta).vote = o.vote
         /\ [o EXCEPT !.votes = 0].vote = o.vote
         /\ \A t : Restarted(o, t).vote = o.vote
         /\ \A k : [o EXCEPT !.key = k].vote = o.vote
         /\ \A k, u : [o EXCEPT !.key = k, !.unseen = u].vote = o.vote
<1>1. ASSUME NEW p, NEW l, NEW v, NEW t
      PROVE  [o EXCEPT !.pos = p, !.last = l, !.votes = v, !.time = t].vote = o.vote
  BY DEF IsObject
<1>2. ASSUME NEW p, NEW l, NEW t
      PROVE  [o EXCEPT !.pos = p, !.last = l, !.time = t].vote = o.vote
  BY DEF IsObject
<1>3. \A k : [o EXCEPT !.key = k].vote = o.vote
  BY DEF IsObject
<1>4. \A k, u : [o EXCEPT !.key = k, !.unseen = u].vote = o.vote
  BY DEF IsObject
<1>5. ASSUME NEW t, NEW delta
      PROVE  Adjusted(o, t, delta).vote = o.vote
  <2> DEFINE p == Uint(o.pos + o.votes * Uint(t - o.last))
             v == o.votes + delta
             x == Uint(t + Uint(Lap - p) \div (v + 1))
             e == IF x < t THEN Lap ELSE x
  <2>1. Adjusted(o, t, delta) = [o EXCEPT !.pos = p, !.last = t, !.votes = v, !.time = e]
    BY DEF Adjusted
  <2> HIDE DEF p, v, e
  <2> QED BY <1>1, <2>1
<1>6. ASSUME NEW t
      PROVE  Restarted(o, t).vote = o.vote
  <2> DEFINE e == t + Lap \div (o.votes + 1)
  <2>1. Restarted(o, t) = [o EXCEPT !.pos = 0, !.last = t, !.time = e]
    BY DEF Restarted
  <2> HIDE DEF e
  <2> QED BY <1>2, <2>1
<1>7. [o EXCEPT !.votes = 0].vote = o.vote
  BY DEF IsObject
<1> QED BY <1>3, <1>4, <1>5, <1>6, <1>7

\* The header, the operation and the end of a block put up no vote beyond the next
\* hardfork, whatever version the witness runs.
LEMMA BlockVotes ==
  ASSUME Inv, ForkInv, NEW by, NEW known, NEW op \in Ops, NEW missed, Applies(wit, op),
         NEW u, u = [wit EXCEPT ![by] = Reported(@, known)]
  PROVE  /\ DOMAIN wit \subseteq DOMAIN Applied(u, op)
         /\ VotesUpTo(Applied(u, op), hardfork.last + 1)
         /\ DOMAIN Signed(Applied(u, op), missed, by) = DOMAIN Applied(u, op)
         /\ VotesUpTo(Signed(Applied(u, op), missed, by), hardfork.last + 1)
<1> DEFINE n == hardfork.last + 1
           w == Applied(u, op)
           signed == Signed(w, missed, by)
<1>1. /\ Table(u, vtime) /\ DOMAIN u = DOMAIN wit
      /\ \A a \in DOMAIN wit : u[a].votes = wit[a].votes
  BY ReportedOnTrack, Zenon DEF Inv
<1>2. VotesUpTo(u, n)
  <2> SUFFICES ASSUME NEW a \in DOMAIN wit
               PROVE  u[a].vote \in Nat /\ u[a].vote <= n
    BY <1>1 DEF VotesUpTo
  <2>1. IsObject(wit[a]) /\ u[a] = IF a = by THEN Reported(wit[a], known) ELSE wit[a]
    BY DEF Inv, Table
  <2>2. wit[a].vote \in Nat /\ wit[a].vote <= n
    BY DEF ForkInv, VotesUpTo
  <2>3. \A v : [wit[a] EXCEPT !.vote = v].vote = v
    BY <2>1 DEF IsObject
  <2>4. Reported(wit[a], known).vote =
          IF hardfork.last < known THEN hardfork.last + 1
          ELSE IF wit[a].vote > known THEN hardfork.last ELSE wit[a].vote
    BY <2>3, Zenon DEF Reported
  <2> QED BY <2>1, <2>2, <2>4 DEF ForkInv
<1>3. \A a \in DOMAIN u : IsObject(u[a])
  BY <1>1 DEF Table
<1>4. Table(w, vtime)
  BY <1>1, AppliedOnTrack, Zenon DEF Inv, Applies
<1>5. DOMAIN u \subseteq DOMAIN w /\ VotesUpTo(w, n)
  <2> n \in Nat
    BY DEF ForkInv
  <2> HIDE DEF n
  <2>1. CASE op.kind = "vote"
    <3>1. w = [u EXCEPT ![op.on] = Adjusted(@, vtime, op.delta)]
      BY <2>1 DEF Applied
    <3>2. \A a \in DOMAIN u : w[a] = IF a = op.on THEN Adjusted(u[a], vtime, op.delta) ELSE u[a]
      <4> HIDE DEF w
      <4> QED BY <3>1, <1>1 DEF Table
    <3>3. DOMAIN w = DOMAIN u
      BY <3>1, Zenon
    <3> HIDE DEF w
    <3> QED BY <1>2, <1>3, <3>2, <3>3, VoteStays DEF VotesUpTo
  <2>2. CASE op.kind = "update" /\ op.on \in DOMAIN u
    <3>1. w = [u EXCEPT ![op.on].key = op.key]
      BY <2>2 DEF Applied
    <3> HIDE DEF w
    <3>2. \A a \in DOMAIN u : w[a] = IF a = op.on THEN [u[a] EXCEPT !.key = op.key] ELSE u[a]
      BY <3>1, <1>1 DEF Table
    <3>3. DOMAIN w = DOMAIN u
      BY <3>1
    <3>4. \A a \in DOMAIN u : \A k : [u[a] EXCEPT !.key = k].vote = u[a].vote
      BY <1>3, VoteStays
    <3>5. ASSUME NEW a \in DOMAIN u
          PROVE  w[a].vote = u[a].vote
      <4>1. [u[a] EXCEPT !.key = op.key].vote = u[a].vote
        BY <3>4
      <4>2. CASE a = op.on
        <5>1. w[a] = [u[a] EXCEPT !.key = op.key]
          BY <3>2, <4>2
        <5> QED BY <4>1, <5>1, Zenon
      <4>3. CASE a # op.on
        BY <3>2, <4>3, Zenon
      <4> QED BY <4>2, <4>3
    <3> QED BY <1>2, <3>3, <3>5 DEF VotesUpTo
  <2>3. CASE op.kind = "update" /\ op.on \notin DOMAIN u
    <3>1. w = [a \in DOMAIN u \cup {op.on} |-> IF a = op.on THEN NewWitness(op.key) ELSE u[a]]
      BY <2>3 DEF Applied
    <3>2. NewWitness(op.key).vote = 0
      BY DEF NewWitness
    <3> HIDE DEF w
    <3> QED BY <1>2, <3>1, <3>2 DEF VotesUpTo
  <2>4. CASE op.kind = "none"
    BY <2>4, <1>2 DEF Applied
  <2> QED BY <2>1, <2>2, <2>3, <2>4, Zenon DEF Applies
<1>6. DOMAIN signed = DOMAIN w
  BY DEF Signed
<1>7. VotesUpTo(signed, n)
  <2> SUFFICES ASSUME NEW a \in DOMAIN w
               PROVE  signed[a].vote = w[a].vote
    <3> HIDE DEF signed, w, n
    <3> QED BY <1>5, <1>6 DEF VotesUpTo
  <2>1. IsObject(w[a])
    BY <1>4, Zenon DEF Table
  <2>2. \A k, x : [w[a] EXCEPT !.key = k, !.unseen = x].vote = w[a].vote
    BY <2>1, VoteStays
  <2>3. signed[a] =
          [w[a] EXCEPT !.key = w[a].key
                         /\ ~ (a \in {Scheduled(i) : i \in 1 .. missed} \ {by}
                               /\ w[a].unseen > Day),
                       !.unseen = IF a = by THEN 0 ELSE UpTo(Day + 1, w[a].unseen + 1)]
    BY <2>1 DEF Signed, IsObject
  <2> HIDE DEF signed, w
  <2> QED BY <2>2, <2>3
<1> QED BY <1>1, <1>5, <1>6, <1>7, Zenon
\* What the scheduled witnesses agree on is what one of them votes for.
LEMMA CountedUpTo ==
  ASSUME NEW w, NEW s, NEW n, VotesUpTo(w, n), IsFiniteSet(DOMAIN s),
         \A i \in DOMAIN s : s[i] \in DOMAIN w,
         hardfork.last \in Nat, hardfork.last <= n
  PROVE  Counted(w, s) \in Nat /\ Counted(w, s) <= n
<1> DEFINE enough == {v \in DOMAIN Times : Cardinality(Backers(w, s, v)) >= RequiredOf(s)}
           first == CHOOSE v \in enough : \A u \in enough : v <= u
<1>1. CASE enough = {}
  BY <1>1, Zenon DEF Counted
<1>2. CASE enough # {}
  <2>1. enough \in SUBSET Nat
    BY ScheduleAssumption
  <2>2. \E v \in enough : \A u \in enough : v <= u
    <3> HIDE DEF enough
    <3> QED BY <1>2, <2>1, Least
  <2>3. first \in enough
    <3> HIDE DEF enough
    <3> QED BY <2>2
  <2>4. Counted(w, s) = first
    BY <1>2, Zenon DEF Counted
  <2> HIDE DEF first
  <2>5. RequiredOf(s) \in Nat /\ RequiredOf(s) >= 1
    <3>1. Size(s) \in Nat
      BY FS_CardinalityType DEF Size
    <3> QED BY <3>1, ScheduleAssumption DEF RequiredOf
  <2>6. Backers(w, s, first) # {}
    <3> SUFFICES ASSUME Backers(w, s, first) = {} PROVE FALSE
      BY Zenon
    <3>1. Cardinality(Backers(w, s, first)) = 0
      BY FS_EmptySet
    <3>2. Cardinality(Backers(w, s, first)) >= RequiredOf(s)
      BY <2>3
    <3> QED BY <3>1, <3>2, <2>5
  <2>7. PICK i \in DOMAIN s : w[s[i]].vote = first
    BY <2>6 DEF Backers
  <2> QED BY <2>4, <2>7 DEF VotesUpTo
<1> QED BY <1>1, <1>2

\* Neither does hardfork 1.1 change what witnesses vote for.
LEMMA LeftVotes ==
  ASSUME NEW w, NEW recount, NEW n, \A a \in DOMAIN w : IsObject(w[a]), Left(w, recount),
         VotesUpTo(w, n)
  PROVE  VotesUpTo(wit', n) /\ DOMAIN wit' = DOMAIN w
<1>1. CASE recount
  <2>1. PICK found : wit' = Recounted(w, vtime', found)
    BY <1>1, Zenon DEF Left
  <2>2. DOMAIN wit' = DOMAIN w
    BY <2>1 DEF Recounted
  <2>3. ASSUME NEW a \in DOMAIN w
        PROVE  wit'[a].vote = w[a].vote
    <3> DEFINE none == [w[a] EXCEPT !.votes = 0]
    <3>1. none.vote = w[a].vote /\ IsObject(none)
      <4>1. none = [votes |-> 0, key |-> w[a].key, last |-> w[a].last, pos |-> w[a].pos,
                    time |-> w[a].time, vote |-> w[a].vote, unseen |-> w[a].unseen]
        BY DEF IsObject
      <4> HIDE DEF none
      <4> QED BY <4>1 DEF IsObject
    <3>2. wit'[a] = IF a \in DOMAIN found THEN Adjusted(none, vtime', found[a]) ELSE none
      BY <2>1 DEF Recounted
    <3> HIDE DEF none
    <3>3. Adjusted(none, vtime', found[a]).vote = none.vote
      BY <3>1, VoteStays
    <3> QED BY <3>1, <3>2, <3>3
  <2> QED BY <2>2, <2>3, Zenon DEF VotesUpTo
<1>2. CASE ~ recount
  BY <1>2, Zenon DEF Left
<1> QED BY <1>1, <1>2

\* update_witness_schedule changes no votes, and it lists existing witnesses.
LEMMA RescheduledVotes ==
  ASSUME NEW w, NEW num, NEW recount, NEW n, Table(w, vtime), Rescheduled(w, num, recount),
         VotesUpTo(w, n), IsFiniteSet(DOMAIN shuffled), \A i \in DOMAIN shuffled : shuffled[i] \in DOMAIN w
  PROVE  /\ VotesUpTo(wit', n) /\ IsFiniteSet(DOMAIN shuffled')
         /\ \A i \in DOMAIN shuffled' : shuffled'[i] \in DOMAIN wit'
<1>1. CASE num = 0
  <2> DEFINE voted == Voted(w)
             processed == Processed(w, voted)
             chosen == voted \cup (processed \cap Keyed(w))
  <2>1. PICK t \in 0 .. Lap :
          Left(Lapped(w, processed, t, Overflows(w, processed, t)), recount)
    BY <1>1, Zenon DEF Rescheduled
  <2>2. shuffled' \in Shuffles(chosen)
    BY <1>1, Zenon DEF Rescheduled
  <2>3. chosen \subseteq DOMAIN w
    BY Zenon DEF Voted, Keyed
  <2> DEFINE lapped == Lapped(w, processed, t, Overflows(w, processed, t))
  <2> HIDE DEF chosen, processed
  <2>4. DOMAIN lapped = DOMAIN w
    BY DEF Lapped
  <2>5. ASSUME NEW a \in DOMAIN w
        PROVE  lapped[a].vote = w[a].vote /\ IsObject(lapped[a])
    <3>1. IsObject(w[a])
      BY DEF Table
    <3>2. lapped[a] \in {Restarted(w[a], 0), Restarted(w[a], t), w[a]}
      BY Zenon DEF Lapped
    <3>3. ASSUME NEW s \in Nat PROVE IsObject(Restarted(w[a], s))
      <4> DEFINE q == Lap \div (w[a].votes + 1)
      <4>1. q \in Nat
        BY <3>1, Division, LapIsNatural, Zenon DEF IsObject
      <4>2. Restarted(w[a], s) = [w[a] EXCEPT !.pos = 0, !.last = s, !.time = s + q]
        BY DEF Restarted
      <4> HIDE DEF q
      <4>3. Restarted(w[a], s) =
              [votes |-> w[a].votes, key |-> w[a].key, last |-> s, pos |-> 0, time |-> s + q,
               vote |-> w[a].vote, unseen |-> w[a].unseen]
        BY <3>1, <4>2, Zenon DEF IsObject
      <4> QED BY <3>1, <4>1, <4>3 DEF IsObject
    <3>4. t \in Nat
      BY LapIsNatural
    <3> QED BY <3>1, <3>2, <3>3, <3>4, VoteStays
  <2>6. IsFiniteSet(chosen) /\ Cardinality(chosen) \in Nat
    <3>1. chosen \subseteq Witness
      BY <2>3 DEF Table
    <3> QED BY <3>1, ScheduleAssumption, FS_Subset, FS_CardinalityType, Zenon
  <2>7. shuffled' \in [1 .. Cardinality(chosen) -> chosen]
    BY <2>2, Zenon DEF Shuffles
  <2>8. IsFiniteSet(DOMAIN shuffled')
    <3>1. DOMAIN shuffled' = 1 .. Cardinality(chosen)
      BY <2>7
    <3> QED BY <3>1, <2>6, FS_Interval
  <2>9. Left(lapped, recount)
    BY <2>1
  <2> HIDE DEF lapped
  <2>10. VotesUpTo(lapped, n)
    BY <2>4, <2>5, Zenon DEF VotesUpTo
  <2>11. VotesUpTo(wit', n) /\ DOMAIN wit' = DOMAIN w
    BY <2>4, <2>5, <2>9, <2>10, LeftVotes, Zenon
  <2> QED BY <2>3, <2>7, <2>8, <2>11, Zenon
<1>2. CASE num # 0
  <2>1. shuffled' = shuffled /\ Left(w, recount)
    BY <1>2, Zenon DEF Rescheduled
  <2>2. VotesUpTo(wit', n) /\ DOMAIN wit' = DOMAIN w
    BY <2>1, LeftVotes, Zenon DEF Table
  <2> QED BY <2>1, <2>2, Zenon
<1> QED BY <1>1, <1>2

\* The hardforks stay in order with every step.
LEMMA ForkInvKept ==
  ASSUME Inv, ForkInv, [Next]_vars
  PROVE  ForkInv'
<1>1. ASSUME NEW missed \in plan.missed, NEW op \in Ops, apply_block(missed, op)
      PROVE  ForkInv'
  <2> DEFINE by == Scheduled(missed + 1)
             u == [wit EXCEPT ![by] = Reported(@, software[by])]
             w == Applied(u, op)
             signed == Signed(w, missed, by)
             num == (head.num + 1) % MaxWitnesses
             next == IF num = 0 THEN Counted(w, shuffled) ELSE hardfork.next
             n == hardfork.last + 1
  <2>1. /\ Applies(wit, op)
        /\ Rescheduled(signed, num, hardfork.last = 0 /\ hardfork'.last = 1)
        /\ hardfork' = Forked([hardfork EXCEPT !.next = next], head'.time)
    BY <1>1 DEF apply_block
  <2>2. /\ DOMAIN wit \subseteq DOMAIN w /\ VotesUpTo(w, n)
        /\ DOMAIN signed = DOMAIN w /\ VotesUpTo(signed, n)
    BY <2>1, BlockVotes, Zenon
  <2>3. Table(signed, vtime)
    <3>1. /\ Table(u, vtime) /\ DOMAIN u = DOMAIN wit
          /\ \A a \in DOMAIN wit : u[a].votes = wit[a].votes
      BY ReportedOnTrack, Zenon DEF Inv
    <3> HIDE DEF u, by
    <3>2. Table(w, vtime)
      BY <2>1, <3>1, AppliedOnTrack DEF Inv, Applies
    <3> HIDE DEF w
    <3> QED BY <3>2, SignedOnTrack
  <2> HIDE DEF signed, w, num
  <2>4. n \in Nat /\ hardfork.last \in Nat /\ hardfork.last <= n
    BY DEF ForkInv
  <2>5. \A i \in DOMAIN shuffled : shuffled[i] \in DOMAIN w /\ shuffled[i] \in DOMAIN signed
    BY <2>2 DEF ForkInv
  <2> HIDE DEF n
  <2>6. /\ VotesUpTo(wit', n) /\ IsFiniteSet(DOMAIN shuffled')
        /\ \A i \in DOMAIN shuffled' : shuffled'[i] \in DOMAIN wit'
    BY <2>1, <2>2, <2>3, <2>5, RescheduledVotes DEF ForkInv
  <2>7. next \in Nat /\ next <= n
    <3>1. Counted(w, shuffled) \in Nat /\ Counted(w, shuffled) <= n
      BY <2>2, <2>4, <2>5, CountedUpTo DEF ForkInv
    <3>2. hardfork.next \in Nat /\ hardfork.next <= n
      BY DEF ForkInv, n
    <3> QED BY <3>1, <3>2
  <2> HIDE DEF next
  <2>8. [hardfork EXCEPT !.next = next] = [last |-> hardfork.last, next |-> next]
    BY DEF ForkInv
  <2>9. /\ hardfork' \in {[last |-> hardfork.last, next |-> next],
                          [last |-> hardfork.last + 1, next |-> next]}
    <3> DEFINE h == [last |-> hardfork.last, next |-> next]
    <3>1. [h EXCEPT !.last = @ + 1] = [last |-> hardfork.last + 1, next |-> next]
      OBVIOUS
    <3> QED BY <2>1, <2>8, <3>1, Zenon DEF Forked
  <2>10. /\ hardfork' = [last |-> hardfork'.last, next |-> hardfork'.next]
         /\ hardfork'.last \in Nat /\ hardfork'.next = next /\ n <= hardfork'.last + 1
    BY <2>4, <2>9 DEF n
  <2>11. hardfork'.next \in Nat /\ hardfork'.next <= hardfork'.last + 1
    BY <2>4, <2>7, <2>10
  <2>12. VotesUpTo(wit', hardfork'.last + 1)
    BY <2>4, <2>6, <2>10 DEF VotesUpTo
  <2> QED BY <2>6, <2>10, <2>11, <2>12 DEF ForkInv, VotesUpTo
<1>2. ASSUME NEW a \in plan.moving, NEW v \in DOMAIN Times, install(a, v)
      PROVE  ForkInv'
  BY <1>2 DEF install, ForkInv, VotesUpTo
<1>3. CASE UNCHANGED vars
  BY <1>3 DEF vars, ForkInv, VotesUpTo
<1> QED BY <1>1, <1>2, <1>3, Zenon DEF Next, Block

\* Hardforks are applied one after the other: nobody's vote, and so nothing that the
\* votes are counted to, is beyond the hardfork after the last one, and the loop of
\* process_hardforks has at most one to apply.
THEOREM AlwaysInOrder == Spec => []HardforksInOrder
<1>1. Init => Inv /\ ForkInv
  <2> SUFFICES ASSUME Init PROVE ForkInv
    BY InvInitially
  <2>1. hardfork = [last |-> 0, next |-> 0]
    BY DEF Init
  <2>2. VotesUpTo(wit, 1)
    <3> SUFFICES ASSUME NEW a \in DOMAIN wit PROVE wit[a].vote = 0
      BY DEF VotesUpTo
    <3> DEFINE u == IF a = Genesis THEN 0 ELSE NewWitness(TRUE).unseen
    <3>1. wit[a] = [NewWitness(TRUE) EXCEPT !.unseen = u]
      BY DEF Init
    <3> HIDE DEF u
    <3> QED BY <3>1 DEF NewWitness
  <2>3. IsFiniteSet(DOMAIN shuffled) /\ \A i \in DOMAIN shuffled : shuffled[i] \in DOMAIN wit
    <3>1. shuffled = [i \in 1 .. 1 |-> Genesis] /\ Genesis \in DOMAIN wit
      BY DEF Init
    <3>2. IsFiniteSet({1})
      BY FS_Singleton, Zenon
    <3>3. 1 .. 1 = {1}
      OBVIOUS
    <3> QED BY <3>1, <3>2, <3>3
  <2>4. hardfork.last = 0 /\ hardfork.next = 0 /\ hardfork.last + 1 = 1
    BY <2>1
  <2>5. hardfork.next <= hardfork.last + 1 /\ hardfork.last \in Nat /\ hardfork.next \in Nat
    BY <2>4
  <2> QED BY <2>1, <2>2, <2>3, <2>4, <2>5, Zenon DEF ForkInv
<1>2. Inv /\ ForkInv /\ [Next]_vars => Inv' /\ ForkInv'
  BY InvKept, ForkInvKept
<1>3. ForkInv => HardforksInOrder
  BY DEF ForkInv, VotesUpTo, HardforksInOrder
<1> QED BY <1>1, <1>2, <1>3, PTL DEF Spec

-----------------------------------------------------------------------------
\* The queue.

Busy == {"popped", "locked", "stored"}

\* The writing thread has a context in hand exactly while it is busy, and it has
\* stored a result before it sets the promise.
QueueInv ==
  /\ queue \in Seq(Caller)
  /\ call \in [Caller -> {"none", "waiting", "set"}]
  /\ result \in [Caller -> {"none", "ok", "throw"}]
  /\ writer \in Busy \cup {"idle", "answered", "stopped"}
  /\ writer \in Busy => cxt \in Caller
  /\ writer = "stored" => result[cxt] # "none"
  /\ ContextsAlive /\ AnswerIsThere /\ NoCallForgotten

\* What Append, Head and Tail do to the elements of a queue.
LEMMA QueueElements ==
  ASSUME NEW q \in Seq(Caller)
  PROVE  /\ \A c \in Caller :
               /\ Append(q, c) \in Seq(Caller) /\ Len(Append(q, c)) = Len(q) + 1
               /\ \A i \in 1 .. Len(q) : Append(q, c)[i] = q[i]
               /\ Append(q, c)[Len(q) + 1] = c
         /\ q # << >> =>
               /\ Head(q) = q[1] /\ Head(q) \in Caller /\ Len(q) \in Nat \ {0}
               /\ Tail(q) \in Seq(Caller) /\ Len(Tail(q)) = Len(q) - 1
               /\ \A i \in 1 .. Len(q) - 1 : Tail(q)[i] = q[i + 1]
  OBVIOUS

LEMMA SubmitKeeps == ASSUME QueueInv, NEW c \in Caller, submit(c) PROVE QueueInv'
<1>1. /\ queue' \in Seq(Caller) /\ Len(queue') = Len(queue) + 1
      /\ \A i \in 1 .. Len(queue) : queue'[i] = queue[i]
      /\ queue'[Len(queue) + 1] = c /\ Len(queue) \in Nat
  BY QueueElements DEF QueueInv, submit
<1>2. \A i \in 1 .. Len(queue) : queue[i] # c
  BY DEF QueueInv, ContextsAlive, submit
<1>3. ContextsAlive'
  BY <1>1, <1>2 DEF QueueInv, ContextsAlive, submit, Busy
<1>4. NoCallForgotten'
  BY <1>1 DEF QueueInv, NoCallForgotten, submit
<1>5. AnswerIsThere'
  BY DEF QueueInv, AnswerIsThere, submit
<1> QED BY <1>1, <1>3, <1>4, <1>5 DEF QueueInv, submit

LEMMA ReturnKeeps == ASSUME QueueInv, NEW c \in Caller, return(c) PROVE QueueInv'
<1>1. ContextsAlive'
  BY DEF QueueInv, ContextsAlive, return, Busy
<1>2. NoCallForgotten'
  BY DEF QueueInv, NoCallForgotten, return
<1>3. AnswerIsThere'
  BY DEF QueueInv, AnswerIsThere, return
<1>4. writer = "stored" => cxt # c
  BY DEF QueueInv, ContextsAlive, return
<1> QED BY <1>1, <1>2, <1>3, <1>4 DEF QueueInv, return, Busy

\* pop and pop_more take the first context out of the queue.
LEMMA PopKeeps ==
  ASSUME QueueInv, queue # << >>, cxt' = Head(queue), queue' = Tail(queue),
         writer \notin Busy, writer' \in {"popped", "locked"}, UNCHANGED <<call, result, running>>
  PROVE  QueueInv'
<1>1. /\ cxt' = queue[1] /\ cxt' \in Caller /\ Len(queue) \in Nat \ {0}
      /\ queue' \in Seq(Caller) /\ Len(queue') = Len(queue) - 1
      /\ \A i \in 1 .. Len(queue) - 1 : queue'[i] = queue[i + 1]
  BY QueueElements DEF QueueInv
<1>2. ContextsAlive'
  BY <1>1 DEF QueueInv, ContextsAlive
<1>3. ASSUME NEW c \in Caller, call[c] = "waiting" , cxt' # c
      PROVE  \E i \in 1 .. Len(queue') : queue'[i] = c
  <2>1. PICK i \in 1 .. Len(queue) : queue[i] = c
    BY <1>3 DEF QueueInv, NoCallForgotten, Busy
  <2>2. i # 1 /\ i - 1 \in 1 .. Len(queue')
    BY <1>1, <1>3, <2>1
  <2>3. queue'[i - 1] = c
    BY <1>1, <2>1, <2>2
  <2> QED BY <2>2, <2>3, ZenonT(30)
<1>4. NoCallForgotten'
  BY <1>1, <1>3 DEF NoCallForgotten
<1> QED BY <1>1, <1>2, <1>4 DEF QueueInv, AnswerIsThere, Busy

LEMMA WriterKeeps == ASSUME QueueInv, WriterStep PROVE QueueInv'
<1>1. CASE pop
  BY <1>1, PopKeeps DEF pop, Busy
<1>2. CASE pop_more
  BY <1>2, PopKeeps DEF pop_more, Busy
<1>3. CASE write_lock
  BY <1>3 DEF write_lock, QueueInv, ContextsAlive, AnswerIsThere, NoCallForgotten, Busy
<1>4. CASE next_lock
  BY <1>4 DEF next_lock, queueVars, QueueInv, ContextsAlive, AnswerIsThere, NoCallForgotten
<1>5. CASE set_value
  <2>1. cxt \in Caller /\ result[cxt] # "none"
    BY <1>5 DEF set_value, QueueInv, Busy
  <2>2. ContextsAlive'
    BY <1>5, <2>1 DEF set_value, QueueInv, ContextsAlive
  <2>3. NoCallForgotten' /\ AnswerIsThere'
    BY <1>5, <2>1 DEF set_value, QueueInv, NoCallForgotten, AnswerIsThere
  <2> QED BY <1>5, <2>1, <2>2, <2>3 DEF set_value, QueueInv, Busy
<1>6. CASE unlock \/ leave
  BY <1>6 DEF unlock, leave, QueueInv, ContextsAlive, AnswerIsThere, NoCallForgotten, Busy
<1> QED BY <1>1, <1>2, <1>3, <1>4, <1>5, <1>6 DEF WriterStep

LEMMA VisitKeeps ==
  ASSUME QueueInv, NEW outcome \in {"ok", "throw"}, visit(outcome) PROVE QueueInv'
  BY DEF visit, QueueInv, ContextsAlive, AnswerIsThere, NoCallForgotten, Busy

LEMMA QueueStep == QueueInv /\ [QueueNext]_<<queueVars, lockVars>> => QueueInv'
<1> SUFFICES ASSUME QueueInv, [QueueNext]_<<queueVars, lockVars>> PROVE QueueInv'
  OBVIOUS
<1>1. CASE \E c \in Caller : submit(c) \/ return(c)
  BY <1>1, SubmitKeeps, ReturnKeeps
<1>2. CASE WriterStep
  BY <1>2, WriterKeeps
<1>3. CASE \E outcome \in {"ok", "throw"} : visit(outcome)
  BY <1>3, VisitKeeps
<1>4. CASE stop \/ \E r \in Reader : ReaderStep(r)
  BY <1>4 DEF stop, ReaderStep, choose_lock, read_lock, read_timeout, read_unlock, queueVars,
              QueueInv, ContextsAlive, AnswerIsThere, NoCallForgotten
<1>5. CASE UNCHANGED <<queueVars, lockVars>>
  BY <1>5 DEF queueVars, QueueInv, ContextsAlive, AnswerIsThere, NoCallForgotten
<1> QED BY <1>1, <1>2, <1>3, <1>4, <1>5 DEF QueueNext

LEMMA QueueStart == QueueInit => QueueInv
  BY DEF QueueInit, QueueInv, ContextsAlive, AnswerIsThere, NoCallForgotten, Busy

\* The write queue by itself, with any callers, readers and locks: what a context
\* points to is there as long as it is used, and a call that waits will be answered
\* by what is in the queue or in the writing thread's hands.
THEOREM QueueIsSafe == QueueSpec => [](ContextsAlive /\ AnswerIsThere /\ NoCallForgotten)
<1>1. QueueInv => ContextsAlive /\ AnswerIsThere /\ NoCallForgotten
  BY DEF QueueInv
<1> QED BY <1>1, QueueStart, QueueStep, PTL DEF QueueSpec

-----------------------------------------------------------------------------
\* The threads.

LEMMA VisitBlock ==
  ASSUME NEW b, visit_block(b) PROVE \E outcome \in {"ok", "throw"} : visit(outcome)
  BY DEF visit_block

LEMMA WritingUsesQueue ==
  ASSUME write_processing
  PROVE  WriterStep \/ \E outcome \in {"ok", "throw"} : visit(outcome)
<1>1. CASE WriterStep
  BY <1>1
<1>2. CASE \E time, txs, fork : visit_block(NewBlock(time, txs, fork))
  BY <1>2, VisitBlock
<1>3. CASE \E t : visit_transaction(t)
  BY <1>3 DEF visit_transaction
<1>4. CASE \E when : visit_generate(when)
  BY <1>4 DEF visit_generate
<1> QED BY <1>1, <1>2, <1>3, <1>4 DEF write_processing

LEMMA WorkerUsesQueue ==
  ASSUME NEW w \in Worker, WorkerStep(w) \/ begin(w) \/ \E t \in Tx : register(w, t)
  PROVE  [QueueNext]_<<queueVars, lockVars>>
<1>1. CASE accept(w) \/ accepted(w)
  BY <1>1, ThreadAssumption DEF accept, accepted, Others, QueueNext
<1>2. CASE failed(w) \/ broadcast(w) \/ confirmed(w) \/ begin(w)
  BY <1>2, ZenonT(30) DEF failed, broadcast, confirmed, begin, Others
<1>3. CASE \E t \in Tx : register(w, t)
  BY <1>3, Zenon DEF register, Others
<1> QED BY <1>1, <1>2, <1>3, ZenonT(30) DEF WorkerStep

LEMMA MainUsesQueue ==
  ASSUME ProductionStep \/ quit \/ ShutdownStep
  PROVE  [QueueNext]_<<queueVars, lockVars>>
<1>1. CASE production_time \/ produced
  BY <1>1, ThreadAssumption, ZenonT(30) DEF production_time, produced, Api, QueueNext
<1>2. CASE \/ production_synced \/ production_slot \/ production_witness \/ broadcast_block
            \/ quit \/ shut_down
  BY <1>2, Zenon DEF production_synced, production_slot, production_witness, broadcast_block, quit, shut_down, Api
<1>3. CASE shutdown
  BY <1>3, ZenonT(30) DEF shutdown, QueueNext
<1> QED BY <1>1, <1>2, <1>3, ZenonT(30) DEF ProductionStep, ShutdownStep

LEMMA ThreadsUseQueue == [ThreadsNext]_threadVars => [QueueNext]_<<queueVars, lockVars>>
<1> SUFFICES ASSUME [ThreadsNext]_threadVars PROVE [QueueNext]_<<queueVars, lockVars>>
  OBVIOUS
<1>1. CASE tick \/ UNCHANGED threadVars
  BY <1>1 DEF tick, threadVars
<1>2. CASE write_processing
  BY <1>2, WritingUsesQueue DEF QueueNext
<1>3. CASE handle_block \/ handle_transaction \/ handled
  BY <1>3, ThreadAssumption, ZenonT(30)
     DEF handle_block, handle_transaction, handled, receive, Others, QueueNext
<1>4. CASE ProductionStep \/ quit \/ ShutdownStep
  BY <1>4, MainUsesQueue
<1>5. CASE \E w \in Worker : WorkerStep(w) \/ begin(w) \/ \E t \in Tx : register(w, t)
  BY <1>5, WorkerUsesQueue
<1>6. CASE \E r \in Reader : read(r)
  BY <1>6 DEF read, QueueNext
<1> QED BY <1>1, <1>2, <1>3, <1>4, <1>5, <1>6, ZenonT(30) DEF ThreadsNext

\* The API workers, the p2p thread and the main thread are callers as WriteQueue
\* describes them: the threads of a node implement the queue.
THEOREM ThreadsImplementQueue == ThreadsSpec => QueueSpec
<1>1. ThreadsInit => QueueInit
  BY DEF ThreadsInit
<1> QED BY <1>1, ThreadsUseQueue, PTL DEF ThreadsSpec, QueueSpec

\* In the composed node as well every context in use belongs to a call that waits for
\* it, whatever thread it was made by.
THEOREM ContextsStayAlive == ThreadsSpec => []ContextsAlive
  BY ThreadsImplementQueue, QueueIsSafe, PTL

-----------------------------------------------------------------------------
\* The callbacks of network_broadcast_api.

InCall == {"registered", "submitted", "failed", "broadcast", "await"}

Place == InCall \cup {"idle", "synced", "slot", "witness", "shutdown", "closing", "closed"}

\* Each callback belongs to a worker in a synchronous call for this transaction; a
\* worker whose promise is set is still in its call.
CallbackInv ==
  /\ pc \in [Caller -> Place] /\ req = [c \in Caller |-> req[c]]
  /\ \A t \in DOMAIN callbacks :
        /\ callbacks[t] \in Worker /\ callbacks[t] \notin promised
        /\ pc[callbacks[t]] \in InCall /\ req[callbacks[t]] = TxReq(t, TRUE)
  /\ \A w \in promised : w \in Worker /\ pc[w] \in InCall

\* The fields of a context.
LEMMA Contexts ==
  /\ NoReq.kind = "none"
  /\ \A t : TxReq(t, TRUE).kind = "tx" /\ TxReq(t, TRUE).tx = t /\ TxReq(t, TRUE).sync
  /\ \A t : TxReq(t, FALSE).kind = "tx" /\ ~ TxReq(t, FALSE).sync
  /\ \A n : BlockReq(n).kind = "block" /\ ~ BlockReq(n).sync
  /\ \A n : GenerateReq(n).kind = "generate" /\ GenerateReq(n).when = n
  BY DEF NoReq, TxReq, BlockReq, GenerateReq

\* The owner of a callback knows its transaction, so that it owns no other one.
LEMMA Owner ==
  ASSUME CallbackInv, NEW t \in DOMAIN callbacks
  PROVE  req[callbacks[t]].tx = t /\ req[callbacks[t]].sync
<1>1. req[callbacks[t]] = TxReq(t, TRUE)
  BY ZenonT(30) DEF CallbackInv
<1> QED BY <1>1, Contexts, ZenonT(30)

\* A block tells the owners of some callbacks, and takes those callbacks out.
LEMMA AppliedKeeps ==
  ASSUME CallbackInv, NEW b, on_applied_block(b), UNCHANGED <<pc, req>>
  PROVE  CallbackInv'
<1>1. ASSUME NEW t \in DOMAIN callbacks', NEW u \in DOMAIN callbacks \ DOMAIN callbacks'
      PROVE  callbacks'[t] = callbacks[t] /\ t \in DOMAIN callbacks /\ callbacks[t] # callbacks[u]
  <2>1. t \in DOMAIN callbacks /\ callbacks'[t] = callbacks[t] /\ t # u
    BY <1>1 DEF on_applied_block
  <2> QED BY <2>1, Owner
<1>2. promised' = promised \cup {callbacks[u] : u \in DOMAIN callbacks \ DOMAIN callbacks'}
  BY DEF on_applied_block
<1>3. DOMAIN callbacks' \subseteq DOMAIN callbacks
      /\ \A t \in DOMAIN callbacks' : callbacks'[t] = callbacks[t]
  BY DEF on_applied_block
<1>4. \A t \in DOMAIN callbacks' : callbacks'[t] \notin promised'
  BY <1>1, <1>2, <1>3, ZenonT(30) DEF CallbackInv
<1> QED BY <1>2, <1>3, <1>4, ZenonT(30) DEF CallbackInv

LEMMA WritingKeepsCallbacks == ASSUME CallbackInv, write_processing PROVE CallbackInv'
<1>1. UNCHANGED <<pc, req>>
  BY ZenonT(30) DEF write_processing
<1>2. UNCHANGED apiVars \/ \E b : on_applied_block(b)
  BY ZenonT(30) DEF write_processing, visit_block, visit_transaction, visit_generate
<1>3. CASE UNCHANGED apiVars
  BY <1>1, <1>3, ZenonT(30) DEF CallbackInv, apiVars
<1> QED BY <1>1, <1>2, <1>3, AppliedKeeps

\* A worker that leaves its call has no callback any more.
LEMMA LeavingKeeps ==
  ASSUME CallbackInv, NEW w \in Worker, leave_call(w),
         DOMAIN callbacks' \subseteq DOMAIN callbacks,
         \A t \in DOMAIN callbacks' : callbacks'[t] = callbacks[t] /\ callbacks[t] # w
  PROVE  CallbackInv'
  BY ThreadAssumption, ZenonT(30) DEF CallbackInv, leave_call, Goto, Place, InCall

LEMMA WorkerKeepsCallbacks ==
  ASSUME CallbackInv, NEW w \in Worker,
         WorkerStep(w) \/ begin(w) \/ \E t \in Tx : register(w, t)
  PROVE  CallbackInv'
<1> USE ThreadAssumption
<1>1. CASE accept(w)
  BY <1>1, ZenonT(30) DEF accept, Goto, apiVars, CallbackInv, Place, InCall
<1>2. CASE accepted(w)
  BY <1>2, ZenonT(30) DEF accepted, Goto, apiVars, CallbackInv, Place, InCall
<1>3. CASE failed(w)
  <2>1. \A t \in DOMAIN callbacks' : callbacks'[t] = callbacks[t] /\ callbacks[t] # w
    BY <1>3, Owner DEF failed
  <2> QED BY <1>3, <2>1, LeavingKeeps, ZenonT(30) DEF failed
<1>4. CASE broadcast(w)
  <2>1. CASE req[w].sync
    BY <1>4, <2>1, ZenonT(30) DEF broadcast, Goto, CallbackInv, Place, InCall
  <2>2. CASE ~ req[w].sync
    <3>1. \A t \in DOMAIN callbacks : callbacks[t] # w
      BY <2>2, Owner
    <3> QED BY <1>4, <2>2, <3>1, LeavingKeeps, ZenonT(30) DEF broadcast
  <2> QED BY <2>1, <2>2
<1>5. CASE confirmed(w)
  BY <1>5, LeavingKeeps, ZenonT(30) DEF confirmed, CallbackInv
<1>6. CASE begin(w)
  BY <1>6, ZenonT(30) DEF begin, Goto, apiVars, CallbackInv, Place, InCall
<1>7. ASSUME NEW u \in Tx, register(w, u) PROVE CallbackInv'
  <2>1. \A t \in DOMAIN callbacks : callbacks[t] # w
    BY <1>7, ZenonT(30) DEF register, CallbackInv, Place, InCall
  <2>2. w \notin promised
    BY <1>7, ZenonT(30) DEF register, CallbackInv, Place, InCall
  <2>3. DOMAIN callbacks' = DOMAIN callbacks \cup {u} /\ callbacks'[u] = w
        /\ \A t \in DOMAIN callbacks : callbacks'[t] = callbacks[t]
    BY <1>7, ZenonT(30) DEF register
  <2>4. req'[w] = TxReq(u, TRUE) /\ \A c \in Caller \ {w} : req'[c] = req[c]
    BY <1>7, ZenonT(30) DEF register, CallbackInv
  <2>5. pc'[w] = "registered" /\ \A c \in Caller \ {w} : pc'[c] = pc[c]
    BY <1>7 DEF register, Goto, CallbackInv
  <2>6. pc' \in [Caller -> Place] /\ req' = [c \in Caller |-> req'[c]] /\ promised' = promised
    BY <1>7, ZenonT(30) DEF register, Goto, CallbackInv, Place, InCall
  <2>7. \A t \in DOMAIN callbacks : callbacks[t] \in Caller \ {w}
    BY <2>1, ZenonT(30) DEF CallbackInv
  <2>8. \A t \in DOMAIN callbacks' :
          /\ callbacks'[t] \in Worker /\ callbacks'[t] \notin promised'
          /\ pc'[callbacks'[t]] \in InCall /\ req'[callbacks'[t]] = TxReq(t, TRUE)
    <3> TAKE t \in DOMAIN callbacks'
    <3>1. CASE t = u
      BY <2>2, <2>3, <2>4, <2>5, <2>6, <3>1 DEF InCall
    <3>2. CASE t \in DOMAIN callbacks
      <4>1. /\ callbacks'[t] = callbacks[t] /\ promised' = promised
            /\ pc'[callbacks[t]] = pc[callbacks[t]] /\ req'[callbacks[t]] = req[callbacks[t]]
        BY <2>3, <2>4, <2>5, <2>6, <2>7, <3>2
      <4> QED BY <3>2, <4>1, ZenonT(30) DEF CallbackInv
    <3> QED BY <2>3, <3>1, <3>2, ZenonT(30)
  <2>9. \A v \in promised' : v \in Worker /\ pc'[v] \in InCall
    BY <2>2, <2>5, <2>6 DEF CallbackInv
  <2> QED BY <2>6, <2>8, <2>9, ZenonT(30) DEF CallbackInv
<1> QED BY <1>1, <1>2, <1>3, <1>4, <1>5, <1>6, <1>7 DEF WorkerStep

\* The other threads touch neither the callbacks nor what the workers do.
LEMMA OthersKeepCallbacks ==
  ASSUME CallbackInv, UNCHANGED apiVars, pc' \in [Caller -> Place],
         req' = [c \in Caller |-> req'[c]],
         \A w \in Worker : pc'[w] = pc[w] /\ req'[w] = req[w]
  PROVE  CallbackInv'
  BY ZenonT(30) DEF CallbackInv, apiVars

\* The main thread and the p2p thread move, and change nobody's context but their own.
LEMMA MovingKeepsCallbacks ==
  ASSUME CallbackInv, UNCHANGED apiVars, NEW c \in {main, p2p}, NEW l \in Place, Goto(c, l),
         UNCHANGED req \/ \E r : req' = [req EXCEPT ![c] = r]
  PROVE  CallbackInv'
<1>1. pc' \in [Caller -> Place] /\ \A w \in Worker : pc'[w] = pc[w]
  BY ThreadAssumption DEF CallbackInv, Goto
<1>2. req' = [d \in Caller |-> req'[d]] /\ \A w \in Worker : req'[w] = req[w]
  <2>1. req = [d \in Caller |-> req[d]]
    BY DEF CallbackInv
  <2>2. CASE UNCHANGED req
    BY <2>1, <2>2
  <2>3. ASSUME NEW r, req' = [req EXCEPT ![c] = r]
        PROVE  req' = [d \in Caller |-> req'[d]] /\ \A w \in Worker : req'[w] = req[w]
    BY <2>1, <2>3, ThreadAssumption, ZenonT(30)
  <2> QED BY <2>2, <2>3
<1> QED BY <1>1, <1>2, OthersKeepCallbacks

LEMMA CallbackStep == CallbackInv /\ [ThreadsNext]_threadVars => CallbackInv'
<1> SUFFICES ASSUME CallbackInv, [ThreadsNext]_threadVars PROVE CallbackInv'
  OBVIOUS
<1> USE ThreadAssumption
<1>1. CASE tick \/ UNCHANGED threadVars \/ \E r \in Reader : read(r)
  BY <1>1, ZenonT(30) DEF tick, read, threadVars, CallbackInv, apiVars
<1>2. CASE write_processing
  BY <1>2, WritingKeepsCallbacks
<1>3. CASE handle_block \/ handle_transaction \/ handled
  <2>1. ASSUME NEW r, receive(r) PROVE CallbackInv'
    BY <2>1, MovingKeepsCallbacks, ZenonT(30) DEF receive, Place, InCall
  <2>2. CASE handled
    BY <2>2, MovingKeepsCallbacks, ZenonT(30) DEF handled, Place, InCall
  <2> QED BY <1>3, <2>1, <2>2, ZenonT(30) DEF handle_block, handle_transaction
<1>4. CASE ProductionStep
  <2>0. CASE production_synced
    <3>1. /\ UNCHANGED apiVars /\ \E l \in Place : Goto(main, l)
          /\ UNCHANGED req \/ \E r : req' = [req EXCEPT ![main] = r]
      BY <2>0 DEF production_synced, Api, Place, InCall
    <3> QED BY <3>1, MovingKeepsCallbacks
  <2>1. CASE production_slot
    <3>1. /\ UNCHANGED apiVars /\ \E l \in Place : Goto(main, l)
          /\ UNCHANGED req \/ \E r : req' = [req EXCEPT ![main] = r]
      BY <2>1, ZenonT(30) DEF production_slot, Api, Place, InCall
    <3> QED BY <3>1, MovingKeepsCallbacks
  <2>2. CASE production_witness
    <3>1. /\ UNCHANGED apiVars /\ \E l \in Place : Goto(main, l)
          /\ UNCHANGED req \/ \E r : req' = [req EXCEPT ![main] = r]
      BY <2>2, ZenonT(30) DEF production_witness, Api, Place, InCall
    <3> QED BY <3>1, MovingKeepsCallbacks, ZenonT(30)
  <2>3. CASE production_time
    <3>1. /\ UNCHANGED apiVars /\ \E l \in Place : Goto(main, l)
          /\ UNCHANGED req \/ \E r : req' = [req EXCEPT ![main] = r]
      BY <2>3, Zenon DEF production_time, Api, Place, InCall
    <3> QED BY <3>1, MovingKeepsCallbacks, ZenonT(30)
  <2>4. CASE produced
    <3>1. /\ UNCHANGED apiVars /\ \E l \in Place : Goto(main, l)
          /\ UNCHANGED req \/ \E r : req' = [req EXCEPT ![main] = r]
      BY <2>4, ZenonT(30) DEF produced, Api, Place, InCall
    <3> QED BY <3>1, MovingKeepsCallbacks
  <2>5. CASE broadcast_block
    <3>1. /\ UNCHANGED apiVars /\ \E l \in Place : Goto(main, l)
          /\ UNCHANGED req \/ \E r : req' = [req EXCEPT ![main] = r]
      BY <2>5, Zenon DEF broadcast_block, Api, Place, InCall
    <3> QED BY <3>1, MovingKeepsCallbacks, ZenonT(30)
  <2> QED BY <1>4, <2>0, <2>1, <2>2, <2>3, <2>4, <2>5 DEF ProductionStep
<1>5. CASE quit \/ ShutdownStep
  <2>1. CASE quit \/ shutdown
    <3>1. UNCHANGED <<apiVars, req>> /\ \E l \in Place : Goto(main, l)
      BY <2>1, ZenonT(30) DEF quit, shutdown, Api, Place, InCall
    <3> QED BY <3>1, MovingKeepsCallbacks, ZenonT(30)
  <2>2. CASE shut_down
    <3>1. UNCHANGED <<apiVars, req>>
      BY <2>2 DEF shut_down, Api
    <3>2. pc' \in [Caller -> Place] /\ \A w \in Worker : pc'[w] = pc[w]
      BY <2>2 DEF shut_down, CallbackInv, Place, InCall
    <3>3. req' = [c \in Caller |-> req'[c]]
      BY <3>1 DEF CallbackInv
    <3> QED BY <3>1, <3>2, <3>3, OthersKeepCallbacks
  <2> QED BY <1>5, <2>1, <2>2 DEF ShutdownStep
<1>6. CASE \E w \in Worker : WorkerStep(w) \/ begin(w) \/ \E t \in Tx : register(w, t)
  BY <1>6, WorkerKeepsCallbacks
<1> QED BY <1>1, <1>2, <1>3, <1>4, <1>5, <1>6 DEF ThreadsNext

\* For any number of workers and transactions: as long as a callback is registered,
\* the promise it refers to is on the stack of a call that has not been answered.
THEOREM CallbacksAreOwned == ThreadsSpec => []CallbacksOwned
<1>1. ThreadsInit => CallbackInv
  BY DEF ThreadsInit, CallbackInv, Place
<1>2. CallbackInv => CallbacksOwned
  BY Contexts, ZenonT(30) DEF CallbackInv, CallbacksOwned, InCall
<1> QED BY <1>1, <1>2, CallbackStep, PTL DEF ThreadsSpec

-----------------------------------------------------------------------------
\* Generated blocks.

\* A slot that was due when the main thread looked at the clock is due ever after.
DueInv ==
  /\ now \in Nat /\ prod.now \in Nat /\ prod.now <= now /\ req = [c \in Caller |-> req[c]]
  /\ \A c \in Caller : req[c].kind = "generate" => req[c].when \in Nat /\ req[c].when <= now

\* Nothing else is asked for that would have to be due.
LEMMA OtherRequest ==
  ASSUME DueInv, NEW c \in Caller, NEW r, r.kind # "generate", req' = [req EXCEPT ![c] = r],
         UNCHANGED <<now, prod>>
  PROVE  DueInv'
  BY DEF DueInv

LEMMA DueStep == DueInv /\ [ThreadsNext]_threadVars => DueInv'
<1> SUFFICES ASSUME DueInv, [ThreadsNext]_threadVars PROVE DueInv'
  OBVIOUS
<1> USE ThreadAssumption
<1>1. CASE tick \/ UNCHANGED threadVars \/ write_processing \/ \E r \in Reader : read(r)
  BY <1>1 DEF tick, read, write_processing, threadVars, DueInv
<1>2. CASE handle_block \/ handle_transaction \/ handled
  BY <1>2, Contexts, ZenonT(30) DEF handle_block, handle_transaction, handled, receive, Others, DueInv
<1>3. CASE production_time
  <2>1. UNCHANGED now /\ prod' = Locals /\ Locals.now = 0
    BY <1>3, Zenon DEF production_time, Api, Locals
  <2>2. CASE UNCHANGED req
    BY <2>1, <2>2 DEF DueInv
  <2>3. CASE /\ SlotTime(prod.slot) = prod.now
             /\ req' = [req EXCEPT ![main] = GenerateReq(SlotTime(prod.slot))]
    <3>1. GenerateReq(prod.now).when = prod.now
      BY Contexts
    <3>2. \A c \in Caller : req'[c] = IF c = main THEN GenerateReq(prod.now) ELSE req[c]
      BY <2>3 DEF DueInv
    <3>3. req' = [c \in Caller |-> req'[c]]
      BY <2>3 DEF DueInv
    <3> QED BY <2>1, <3>1, <3>2, <3>3 DEF DueInv
  <2> QED BY <1>3, <2>2, <2>3, ZenonT(30) DEF production_time
<1>4. CASE \/ production_synced \/ production_slot \/ production_witness
            \/ produced \/ broadcast_block
  <2>0. CASE production_synced
    <3>1. UNCHANGED <<now, req>> /\ prod' = [now |-> now, slot |-> 0]
      BY <2>0, ZenonT(30) DEF production_synced, Api
    <3> QED BY <3>1 DEF DueInv
  <2>1. CASE production_slot
    <3>1. UNCHANGED <<now, req>> /\ (prod' = Locals \/ \E slot : prod' = [now |-> prod.now, slot |-> slot])
      BY <2>1, ZenonT(30) DEF production_slot, Api
    <3>2. Locals.now = 0
      BY DEF Locals
    <3> QED BY <3>1, <3>2 DEF DueInv
  <2>2. CASE production_witness
    <3>1. (prod' = prod \/ prod' = Locals) /\ UNCHANGED <<now, req>>
      BY <2>2, ZenonT(30) DEF production_witness, Api
    <3>2. Locals.now = 0
      BY DEF Locals
    <3> QED BY <3>1, <3>2 DEF DueInv
  <2>3. CASE produced
    BY <2>3, OtherRequest, Contexts, ZenonT(30) DEF produced, Api
  <2>4. CASE broadcast_block
    BY <2>4 DEF broadcast_block, Api, DueInv
  <2> QED BY <1>4, <2>0, <2>1, <2>2, <2>3, <2>4
<1>5. CASE quit \/ ShutdownStep
  BY <1>5, ZenonT(30) DEF quit, ShutdownStep, shutdown, shut_down, Api, DueInv
<1>6. ASSUME NEW w \in Worker, WorkerStep(w) PROVE DueInv'
  <2>1. UNCHANGED <<now, prod>> /\ (UNCHANGED req \/ req' = [req EXCEPT ![w] = NoReq])
    BY <1>6, ZenonT(30) DEF WorkerStep, accept, accepted, failed, broadcast, confirmed, leave_call, Others
  <2>2. CASE UNCHANGED req
    BY <2>1, <2>2 DEF DueInv
  <2> QED BY <2>1, <2>2, OtherRequest, Contexts, ZenonT(30)
<1>7. ASSUME NEW w \in Worker, begin(w) \/ \E t \in Tx : register(w, t) PROVE DueInv'
  <2>1. UNCHANGED <<now, prod>>
    BY <1>7, ZenonT(30) DEF begin, register, Others
  <2>2. PICK r : req' = [req EXCEPT ![w] = r] /\ r.kind # "generate"
    <3>1. CASE begin(w)
      <4>1. PICK r \in {TxReq(t, FALSE) : t \in Tx} \cup {BlockReq(Latest)} :
               req' = [req EXCEPT ![w] = r]
        BY <3>1, ZenonT(30) DEF begin
      <4> QED BY <4>1, Contexts, ZenonT(30)
    <3>2. CASE \E t \in Tx : register(w, t)
      <4>1. PICK t \in Tx : req' = [req EXCEPT ![w] = TxReq(t, TRUE)]
        BY <3>2, ZenonT(30) DEF register
      <4>2. TxReq(t, TRUE).kind # "generate"
        BY Contexts, ZenonT(30)
      <4> QED BY <4>1, <4>2, ZenonT(30)
    <3> QED BY <1>7, <3>1, <3>2
  <2> QED BY <2>1, <2>2, OtherRequest, ZenonT(30)
<1> QED BY <1>1, <1>2, <1>3, <1>4, <1>5, <1>6, <1>7 DEF ThreadsNext, ProductionStep

\* For any schedules and clocks: although the head was read without a lock, what
\* generate_block appends is due, follows the head, and is our witness's turn.
THEOREM GeneratedBlocksAreDue == ThreadsSpec => GeneratedIsDue
<1> DEFINE Due == writer = "locked" /\ req[cxt].kind = "generate" /\ head_block' # head_block
                    => /\ head_block'.time > head_block.time /\ head_block'.time <= now
                       /\ head_block'.time \in Ours[head_block.order]
<1>1. ThreadsInit => DueInv
  <2>1. ASSUME ThreadsInit PROVE prod.now = 0 /\ req = [c \in Caller |-> NoReq] /\ now \in Nat
    <3>1. Locals.now = 0
      BY DEF Locals
    <3>2. scenario \in Scenarios /\ now = scenario.clock /\ prod = Locals /\ req = [c \in Caller |-> NoReq]
      BY <2>1 DEF ThreadsInit
    <3> QED BY <3>1, <3>2, ClockAssumption
  <2> QED BY <2>1, Contexts DEF DueInv
<1>2. ASSUME QueueInv, DueInv, [ThreadsNext]_threadVars PROVE [Due]_threadVars
  <2> SUFFICES ASSUME writer = "locked", req[cxt].kind = "generate", head_block' # head_block
               PROVE  /\ head_block'.time > head_block.time /\ head_block'.time <= now
                      /\ head_block'.time \in Ours[head_block.order]
    BY DEF threadVars
  <2>1. write_processing
    BY <1>2, ZenonT(30) DEF ThreadsNext, tick, WorkerStep, accept, accepted, failed, broadcast, confirmed, begin,
       register, handle_block, handle_transaction, handled, receive, ProductionStep, production_synced,
       production_slot,
       production_witness, production_time, produced, broadcast_block, quit, ShutdownStep, shutdown,
       shut_down, read, Others, Api, chainVars, threadVars
  <2>2. visit_generate(req[cxt].when)
    BY <2>1 DEF write_processing, chainVars
  <2>3. CanGenerate(req[cxt].when) /\ head_block'.time = req[cxt].when
    <3>1. CanGenerate(req[cxt].when)
      BY <2>2 DEF visit_generate, chainVars
    <3>2. \E txs : extend([time |-> req[cxt].when, txs |-> txs])
      BY <2>2, <3>1, ZenonT(30) DEF visit_generate
    <3>3. ASSUME NEW when, NEW txs, extend([time |-> when, txs |-> txs]) PROVE head_block'.time = when
      BY <3>3 DEF extend
    <3> QED BY <3>1, <3>2, <3>3, ZenonT(30)
  <2>4. cxt \in Caller
    BY <1>2 DEF QueueInv, Busy
  <2> QED BY <1>2, <2>3, <2>4 DEF CanGenerate, DueInv
<1>3. ThreadsInit => QueueInv
  BY QueueStart DEF ThreadsInit
<1> QED BY <1>1, <1>2, <1>3, DueStep, QueueStep, ThreadsUseQueue, PTL DEF ThreadsSpec, GeneratedIsDue
=============================================================================
