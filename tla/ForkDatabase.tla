---------------------------- MODULE ForkDatabase ----------------------------
(***************************************************************************)
(* chain::fork_database: the tree of recent blocks, as operators on its    *)
(* state f, a record of                                                    *)
(*   index     the blocks in _index                                        *)
(*   linked    the blocks whose weak pointer prev can still be locked      *)
(*   head      the block _head points to, NoBlock if it is null            *)
(*   max_size  _max_size                                                   *)
(*                                                                         *)
(* A block id is a hash over the whole history below the block, so a block *)
(* is modelled by that history: the sequence of the headers and bodies     *)
(* from block 1 to the block itself.  << >> is the id of genesis.  _head   *)
(* may point to a block that is no longer in the index.  _unlinked_index   *)
(* is never filled (the insertion follows a throw).                        *)
(***************************************************************************)
EXTENDS Integers, Sequences, FiniteSets

CONSTANT NoBlock  \* the null pointer

DefaultMaxSize == 1024

num(b) == Len(b)

previous(b) == SubSeq(b, 1, Len(b) - 1)

\* The ancestor of b with number n, b itself if n is its own number.
Ancestor(b, n) == SubSeq(b, 1, n)

Larger(x, y) == IF x >= y THEN x ELSE y

EmptyForkDb == [index |-> {}, linked |-> {}, head |-> NoBlock, max_size |-> DefaultMaxSize]

start_block(f, b) == [f EXCEPT !.index = @ \cup {b}, !.head = b]

\* The number up to which blocks are too old to be kept.
Oldest(f) == Larger(0, num(f.head) - f.max_size)

\* Erasing a block expires the pointers of its children.
Erased(f, S) ==
  [f EXCEPT !.index = @ \ S,
            !.linked = {b \in @ : previous(b) \notin S /\ (b \in S => b = f.head)}]

\* The checks of _push_block.
CanPush(f, b) ==
  f.head # NoBlock => /\ num(b) > Oldest(f)
                      /\ num(b) > 1 => previous(b) \in f.index

\* Mutant: a branch must be longer by two to become the head.
push_block_ByTwo(f, b) ==
  [f EXCEPT
     !.index = @ \cup {b},
     !.linked = IF f.head # NoBlock /\ num(b) > 1 THEN @ \cup {b} ELSE @,
     !.head = IF f.head = NoBlock \/ num(b) > num(f.head) + 1 THEN b ELSE @]

\* A block that is known already is not inserted again, and keeps its pointer
\* (the second copy that _head may then point to is not told from the first).
push_block(f, b) ==
  [f EXCEPT
     !.index = @ \cup {b},
     !.linked = IF f.head # NoBlock /\ num(b) > 1 /\ b \notin f.index
                THEN @ \cup {b} ELSE @,
     !.head = IF f.head = NoBlock \/ num(b) > num(f.head) THEN b ELSE @]

\* Mutant: the last block may be popped.
CanPop_Always(f) == f.head # NoBlock

CanPop(f) == f.head # NoBlock /\ f.head \in f.linked

pop_block(f) == [f EXCEPT !.head = previous(@)]

\* Mutant: two blocks too many are erased.
set_max_size_TooSmall(f, s) ==
  LET g == [f EXCEPT !.max_size = s]
  IN IF f.head = NoBlock THEN g
     ELSE Erased(g, {b \in g.index : num(b) < num(f.head) - s + 3})

set_max_size(f, s) ==
  LET g == [f EXCEPT !.max_size = s]
  IN IF f.head = NoBlock THEN g ELSE Erased(g, {b \in g.index : num(b) < Oldest(g)})

remove(f, b) == Erased(f, {b})

\* The number of the block both branches of fetch_branch_from build on: the two
\* walks stop at the first pair of blocks with the same parent, which are one
\* and the same block if one branch contains the other.
ForkPoint(first, second) ==
  LET common == {n \in 0 .. num(first) - 1 :
                   n < num(second) /\ Ancestor(first, n) = Ancestor(second, n)}
  IN CHOOSE n \in common : \A m \in common : m <= n

\* Every walk over prev must find its pointer alive.
CanFetchBranches(f, first, second) ==
  /\ {first, second} \subseteq f.index
  /\ \A b \in {first, second} :
        \A n \in ForkPoint(first, second) + 2 .. num(b) : Ancestor(b, n) \in f.linked

\* The blocks of b above number n, the lowest first.
BranchAbove(b, n) == [k \in 1 .. num(b) - n |-> Ancestor(b, n + k)]

\* nullptr if the number is above the head's; the walk stops at a dead pointer.
walk_main_branch_to_num(f, n) ==
  IF /\ n <= num(f.head)
     /\ \A m \in n + 1 .. num(f.head) : Ancestor(f.head, m) \in f.linked
  THEN Ancestor(f.head, n)
  ELSE NoBlock

\* Mutant: any block of that number will do.
fetch_block_Any(f, n) ==
  LET blocks == {b \in f.index : num(b) = n}
  IN IF blocks = {} THEN NoBlock ELSE CHOOSE b \in blocks : TRUE

fetch_block_on_main_branch_by_number(f, n) ==
  LET blocks == {b \in f.index : num(b) = n}
  IN IF blocks = {} THEN NoBlock
     ELSE IF Cardinality(blocks) = 1 THEN CHOOSE b \in blocks : TRUE
     ELSE walk_main_branch_to_num(f, n)
=============================================================================
