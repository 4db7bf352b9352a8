------------------------- MODULE MCWitnessSchedule -------------------------
(***************************************************************************)
(* Four witnesses, three of them in a round, one of these for its votes.   *)
(***************************************************************************)
EXTENDS WitnessSchedule

NoPlan ==
  [joined |-> {}, votes |-> {}, updated |-> {}, moving |-> {}, missed |-> {0},
   sorted |-> TRUE, private |-> FALSE, counts |-> {}]

\* Votes change, and so the turns that witnesses have.
Turns == [NoPlan EXCEPT !.joined = Witness \ {Genesis}, !.votes = Witness \X {-1, 1}]

\* Witnesses are created, lose their keys and get new ones.
Keys == [NoPlan EXCEPT !.updated = Witness, !.missed = {0, 1}]

\* Two hardforks.
Forks == [NoPlan EXCEPT !.joined = Witness \ {Genesis}, !.moving = Witness]

\* The same in a private network, and with slots missed and all the orders that a
\* shuffle may leave.
Private == [Forks EXCEPT !.joined = {2, 3}, !.moving = {1, 2, 3}, !.private = TRUE]

Shuffled ==
  [Forks EXCEPT !.joined = {2, 3}, !.moving = {2}, !.missed = {0, 1}, !.sorted = FALSE]

\* Hardfork 1.1 finds other votes than there were.
Recount ==
  [Forks EXCEPT !.joined = {2, 3}, !.moving = {1, 2}, !.votes = {<<1, 1>>, <<2, 2>>, <<3, 1>>},
                !.counts = {1, 3}]

MCPlans == {Turns, Keys, Forks, Private, Shuffled, Recount}

\* Two with many votes, one that gains as many and loses them, and one with few.
Wavering == {[Turns EXCEPT !.votes = {<<1, 6>>, <<2, 6>>, <<3, 6>>, <<3, -6>>, <<4, 1>>}]}

MCTimes == [v \in 0 .. 2 |-> IF v = 0 THEN 0 ELSE 2 + 3 * v]
=============================================================================
