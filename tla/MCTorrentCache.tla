--------------------------- MODULE MCTorrentCache ---------------------------
(* Instances of TorrentCache for TLC: two blocks, of two cells and of one. *)
EXTENDS TorrentCache

CONSTANTS r1, r2, m1

TwoBlocks == [b \in 0 .. 1 |-> IF b = 0 THEN 2 ELSE 1]
OneBlock == [b \in 0 .. 0 |-> 2]

\* each cell alone, and a read across the end of the first block
Across == {[blk |-> 0, from |-> 0, to |-> 0, more |-> 0],
           [blk |-> 0, from |-> 1, to |-> 1, more |-> 0],
           [blk |-> 0, from |-> 1, to |-> 1, more |-> 1]}
Within == {[blk |-> 0, from |-> 0, to |-> 0, more |-> 0],
           [blk |-> 0, from |-> 1, to |-> 1, more |-> 0]}
=============================================================================
