------------------------------ MODULE MCChain -------------------------------
\* ChainDatabase for TLC: small trees of blocks that peers send.
EXTENDS ChainDatabase

\* A block body.
Body(slot, txs, fault) == [slot |-> slot, txs |-> txs, fault |-> fault]

\* A branch of empty blocks at the given slots.
Branch(slots) == [k \in 1 .. Len(slots) |-> Body(slots[k], << >>, "none")]

\* The blocks of a branch from number n on.
From(n, branch) == {Ancestor(branch, k) : k \in n .. Len(branch)}

OneBlock == Branch(<<1>>)

MCTxs == {"t1", "t2"}

MCExpiration == [t \in MCTxs |-> IF t = "t1" THEN 6 ELSE 7]

MCNeeds == [t \in MCTxs |-> IF t = "t2" THEN {"t1"} ELSE {}]

\* Two branches that outgrow each other, one with a transaction in it, and a
\* continuation of that one that is not valid.
ForksNet ==
  LET a == [Branch(<<1, 2, 5, 6>>) EXCEPT ![2].txs = <<"t1">>]
  IN From(2, a) \cup From(2, Branch(<<1, 3, 4, 5>>))
       \cup {[a EXCEPT ![4].fault = "early"]}

\* A chain on which blocks become irreversible, with short forks off it.
LibNet ==
  From(2, Branch(<<1, 2, 3, 4, 5, 6>>)) \cup From(4, Branch(<<1, 2, 3, 7, 8, 9>>))
    \cup From(3, Branch(<<1, 2, 5, 7>>)) \cup From(2, Branch(<<1, 4>>))

\* One of four witnesses is cut off and builds three blocks of its own while the
\* others build four.
PartitionNet ==
  From(2, Branch(<<1, 4, 8, 12>>)) \cup From(2, Branch(<<1, 2, 3, 5, 6>>))

\* A chain, and a longer branch that leaves it below the last irreversible block.
OldForkNet ==
  From(2, Branch(<<1, 2, 3, 4>>)) \cup From(2, Branch(<<1, 5, 6, 7, 8>>))

\* The same with blocks that fail at different points.
AnyForkNet ==
  LET a == Branch(<<1, 2, 3, 4>>)
      b == Branch(<<1, 5, 6, 7, 8>>)
  IN From(2, a) \cup From(2, b) \cup {[a EXCEPT ![4].fault = "late"], [b EXCEPT ![5].fault = "early"]}

\* Three branches, and continuations of two of them that are not valid.
InvalidNet ==
  LET a == Branch(<<1, 2, 3, 4>>)
      c == Branch(<<1, 3, 4, 5>>)
  IN From(2, a) \cup From(3, Branch(<<1, 2, 5, 6>>)) \cup From(2, c)
       \cup {[a EXCEPT ![3].fault = "early"], [a EXCEPT ![4].fault = "early"],
             [c EXCEPT ![3].fault = "early"]}

\* A block that fails after it has been made irreversible.
LateNet == {[Branch(<<1, 2>>) EXCEPT ![2].fault = "late"], Branch(<<1, 3>>)}

\* Worlds: blocks confirmed by n witnesses, all of them voting from the start.
World(net, n, height, last) ==
  [net |-> net, deep |-> FALSE, scheduled |-> n, max_witnesses |-> n, start_voting |-> 0,
   max_undo |-> 100, height |-> height, last |-> last]

PartitionWorlds == [partition |-> World(PartitionNet, 4, 0, 12)]

OldForkWorlds == [old_fork |-> World(OldForkNet, 2, 0, 8)]

LateWorlds == [late |-> World(LateNet, 1, 0, 3)]

StaleHeadWorlds ==
  [forks |-> World(ForksNet, 3, 0, 6), invalid |-> World(InvalidNet, 3, 0, 9)]

MCWorlds ==
  [forks |-> World(ForksNet, 3, 4, 6),
   irreversible |-> [World(LibNet, 3, 0, 9) EXCEPT !.max_undo = 4],
   unvoted |-> [World(LibNet, 3, 0, 9) EXCEPT !.start_voting = 5, !.max_witnesses = 2],
   any_fork |-> [World(AnyForkNet, 2, 0, 8) EXCEPT !.deep = TRUE]]
=============================================================================
