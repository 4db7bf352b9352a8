------------------------------ MODULE BlockLog ------------------------------
(***************************************************************************)
(* chain::block_log: the file of irreversible blocks and its index, under  *)
(* appends, reads, and a process that may be killed and started again.     *)
(*                                                                         *)
(* A file is the sequence of what is written to it: a block is two pieces  *)
(* of data (so that it can be torn) and its own position; the index has    *)
(* one position per block.  Each stream has a buffer, which is lost when   *)
(* the process is killed, and from which any beginning may reach the file  *)
(* at any time.  A stream that is switched to reading is closed first,     *)
(* which empties its buffer.  The mutex makes each operation atomic.       *)
(***************************************************************************)
EXTENDS Naturals, Sequences

CONSTANTS
  Stored,    \* the blocks in both files when the process is first started
  MaxBlocks  \* bound: the last block that is appended

ASSUME BlockLogAssumption == Stored \in Nat /\ MaxBlocks \in Nat /\ Stored <= MaxBlocks

VARIABLES
  block_file,   \* what the disk has of the block file
  block_buffer, \* what block_stream has not written yet
  index_file,
  index_buffer,
  log_head,     \* the number of the head block, 0 if head has no value
  status,       \* "open", "killed", or "unreadable" if open() has thrown
  flushed       \* history variable: the head at the end of the last flush()

log_vars == <<block_file, block_buffer, index_file, index_buffer, log_head, status, flushed>>

Data(n, i) == [block |-> n, part |-> i]

Position(p) == [position |-> p]

IsPosition(x) == DOMAIN x = {"position"}

\* What the streams have been given; a reader sees all of it.
Blocks == block_file \o block_buffer
Index == index_file \o index_buffer

\* What append writes for block n at position pos.
Written(n, pos) == <<Data(n, 1), Data(n, 2), Position(pos)>>

\* read_block_helper: the number of the block that begins at pos, 0 if what is
\* there cannot be unpacked.
read_block(file, pos) ==
  IF pos + 2 <= Len(file)
     /\ \E n \in 1 .. MaxBlocks : SubSeq(file, pos + 1, pos + 2) = <<Data(n, 1), Data(n, 2)>>
  THEN file[pos + 1].block
  ELSE 0

\* The positions that construct_index meets: it goes on while the position it
\* read last is below the one at the end of the file, and it begins at 0.
construct_index(file) ==
  LET end_pos == file[Len(file)].position
      number == Len(file) \div 3
  IN IF end_pos = 0 THEN << >> ELSE [n \in 1 .. number |-> file[3 * n].position]

LogInit ==
  /\ block_file = [k \in 1 .. 3 * Stored |-> LET n == (k + 2) \div 3
                                             IN Written(n, 3 * (n - 1))[k - 3 * (n - 1)]]
  /\ index_file = [n \in 1 .. Stored |-> 3 * (n - 1)]
  /\ block_buffer = << >> /\ index_buffer = << >>
  /\ log_head = Stored /\ status = "open" /\ flushed = Stored

\* Mutant: the index gets the position behind the block.
append_NextPosition ==
  /\ status = "open" /\ log_head < MaxBlocks
  /\ Len(Index) = log_head
  /\ block_buffer' = block_buffer \o Written(log_head + 1, Len(Blocks))
  /\ index_buffer' = Append(index_buffer, Len(Blocks) + 3)
  /\ log_head' = log_head + 1
  /\ UNCHANGED <<block_file, index_file, status, flushed>>

\* The database appends the block after the head; the index must be that long.
append ==
  /\ status = "open" /\ log_head < MaxBlocks
  /\ Len(Index) = log_head
  /\ block_buffer' = block_buffer \o Written(log_head + 1, Len(Blocks))
  /\ index_buffer' = Append(index_buffer, Len(Blocks))
  /\ log_head' = log_head + 1
  /\ UNCHANGED <<block_file, index_file, status, flushed>>

\* Some of a buffer is written because the buffer is full.
spill ==
  /\ status = "open"
  /\ \/ \E k \in 1 .. Len(block_buffer) :
           /\ block_file' = block_file \o SubSeq(block_buffer, 1, k)
           /\ block_buffer' = SubSeq(block_buffer, k + 1, Len(block_buffer))
           /\ UNCHANGED <<index_file, index_buffer>>
     \/ \E k \in 1 .. Len(index_buffer) :
           /\ index_file' = index_file \o SubSeq(index_buffer, 1, k)
           /\ index_buffer' = SubSeq(index_buffer, k + 1, Len(index_buffer))
           /\ UNCHANGED <<block_file, block_buffer>>
  /\ UNCHANGED <<log_head, status, flushed>>

\* Mutant: the block file is not flushed.
flush_IndexOnly ==
  /\ status = "open"
  /\ index_file' = Index /\ index_buffer' = << >>
  /\ flushed' = log_head
  /\ UNCHANGED <<block_file, block_buffer, log_head, status>>

flush ==
  /\ status = "open"
  /\ block_file' = Blocks /\ block_buffer' = << >>
  /\ index_file' = Index /\ index_buffer' = << >>
  /\ flushed' = log_head
  /\ UNCHANGED <<log_head, status>>

\* read_block_by_num switches the index to reading, and the block file only if
\* there is a block of that number to be read.
read_block_by_num(n) ==
  /\ status = "open"
  /\ index_file' = Index /\ index_buffer' = << >>
  /\ IF n \in 1 .. log_head
     THEN block_file' = Blocks /\ block_buffer' = << >>
     ELSE UNCHANGED <<block_file, block_buffer>>
  /\ UNCHANGED <<log_head, status, flushed>>

killed ==
  /\ status = "open" /\ status' = "killed"
  /\ block_buffer' = << >> /\ index_buffer' = << >> /\ log_head' = 0
  /\ UNCHANGED <<block_file, index_file, flushed>>

\* Mutant: an index that is ahead of the block file is accepted.
IndexFits_IfAhead ==
  index_file # << >> /\ index_file[Len(index_file)] >= block_file[Len(block_file)].position

\* The heads of the two files are the same.
IndexFits ==
  index_file # << >> /\ index_file[Len(index_file)] = block_file[Len(block_file)].position

\* open() in a new process.  The last piece of the block file must be a position
\* at which there is a block, or reading the head throws.
open ==
  /\ status # "open"
  /\ IF block_file = << >>
     THEN /\ log_head' = 0 /\ status' = "open"
          /\ index_file' = << >> /\ index_buffer' = << >>
     ELSE IF ~ IsPosition(block_file[Len(block_file)])
     THEN /\ status' = "unreadable"
          /\ UNCHANGED <<log_head, index_file, index_buffer>>
     ELSE /\ log_head' = read_block(block_file, block_file[Len(block_file)].position)
          /\ status' = "open"
          /\ IF IndexFits
             THEN UNCHANGED <<index_file, index_buffer>>
             ELSE index_file' = << >> /\ index_buffer' = construct_index(block_file)
  /\ UNCHANGED <<block_file, block_buffer, flushed>>

LogNext ==
  append \/ spill \/ flush \/ (\E n \in {log_head, MaxBlocks + 1} : read_block_by_num(n))
    \/ killed \/ open

LogSpec == LogInit /\ [][LogNext]_log_vars

-----------------------------------------------------------------------------
(***************************************************************************)
(* Properties.                                                             *)
(***************************************************************************)

\* Whatever was lost of either file when the process was killed, every block up
\* to the head is found through the index, under its own number: the assertion
\* "Wrong block was read from block log." never fails, and no read throws.
ReadsBack ==
  status = "open" => \A n \in 1 .. log_head : /\ n <= Len(Index)
                                              /\ read_block(Blocks, Index[n]) = n

\* "The main file is the only file that needs to persist. The index file can be
\* reconstructed during a linear scan of the main file": an open log has an index
\* entry for each block, so that append never finds itself at the wrong position.
IndexComplete == status = "open" => Len(Index) = log_head

\* A block that flush() has written is in every log that is opened later.
FlushedStays == status = "open" => flushed <= log_head

\* "The head block of the file can be found by seeking to the position contained
\* in the last 8 bytes the file."
HeadAtEnd ==
  status = "killed" /\ block_file # << >> => IsPosition(block_file[Len(block_file)])
=============================================================================
