--------------------------- MODULE MCNodeThreads ----------------------------
\* NodeThreads for TLC.
EXTENDS NodeThreads

MCWorker == {"w1", "w2"}

MCCaller == MCWorker \cup {"main", "p2p"}

MCTx == {"t1"}

MCExpiration == [t \in MCTx |-> 1]

MCOurs == <<{1}, {2}>>

\* The order in which sophiatxd starts them, unless its configuration names another.
MCOrder == <<"chain", "p2p", "webserver">>

\* The order when the configuration names the webserver first.
OtherOrder == <<"webserver", "chain", "p2p">>

MCReader == {"r"}

MCScenarios ==
  {[threads |-> {"w1", "w2"}, plain |-> FALSE, clock |-> 2, schedules |-> {1}],
   [threads |-> {"w1", "r"}, plain |-> FALSE, clock |-> 2, schedules |-> {1}],
   [threads |-> {"w1", "p2p"}, plain |-> TRUE, clock |-> 2, schedules |-> {1}],
   [threads |-> {"main", "p2p"}, plain |-> FALSE, clock |-> 1, schedules |-> {1, 2}]}
=============================================================================
