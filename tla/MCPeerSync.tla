----------------------------- MODULE MCPeerSync -----------------------------
(***************************************************************************)
(* Small networks for PeerSync.  A chain is written as the path to its     *)
(* head, so two chains fork where their paths differ.                      *)
(***************************************************************************)
EXTENDS PeerSync

World(links, head, undo, made, broken) ==
  [links |-> links, head |-> head, undo |-> undo, blocks |-> made, faults |-> broken]

Pair == {<<1, 2>>}
Star == {<<1, 2>>, <<1, 3>>}
Off == << >>
None == <<0, 0, 0>>

\* Node 1 is behind by three blocks.
Behind(broken) == World(Pair, << <<0>>, <<0, 0, 0, 0>>, Off >>, 1, None, broken)

\* Node 1 is behind by more ids than it keeps.
FarBehind == World(Pair, << <<0>>, <<0, 0, 0, 0, 0, 0, 0>>, Off >>, 1, None, 0)

\* The nodes have forked; node 1 may make its branch the longer one.
Forked(made) == World(Pair, << <<0, 1>>, <<0, 0, 0>>, Off >>, 9, <<made, 0, 0>>, 0)

\* The nodes have forked before what they can undo.
Split == World(Pair, << <<1, 1, 1>>, <<0, 0, 0>>, Off >>, 1, <<1, 0, 0>>, 1)

\* The nodes are in sync, and node 2 makes blocks.
Producing(made, broken) == World(Pair, << <<0>>, <<0>>, Off >>, 9, <<0, made, 0>>, broken)

\* Node 1 is behind two others that are in sync.
TwoSources == World(Star, << <<0>>, <<0, 0, 0>>, <<0, 0, 0>> >>, 9, None, 0)

\* Node 2 makes a block while node 1 is between it and node 3.
Relay == World(Star, << <<0>>, <<0>>, <<0>> >>, 9, <<0, 1, 0>>, 0)

\* Node 2 makes so many blocks that node 1 asks anew while it handles one of them.
Overtaken == World(Pair, << <<0, 0>>, <<0, 0>>, Off >>, 9, <<0, 4, 0>>, 0)

Networks ==
  {Behind(0), Behind(2), FarBehind, Forked(0), Forked(1), Split,
   Producing(3, 0), Producing(2, 1), Overtaken, TwoSources, Relay}

OnlyTwoSources == {TwoSources}
OnlyRelay == {Relay}
OnlyOvertaken == {Overtaken}
=============================================================================
