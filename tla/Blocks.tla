------------------------------- MODULE Blocks -------------------------------
(***************************************************************************)
(* The data every part of the indexer agrees on: heights, blocks, and the  *)
(* tip, which is the height and hash a next block is compared with.        *)
(*                                                                         *)
(* A hash is compared for equality and nothing else, and only between      *)
(* blocks of one height, so it is the number of the branch on which the    *)
(* node minted the block: within a branch a height is minted once, on one  *)
(* parent, and the pair <<height, branch>> identifies a block.             *)
(***************************************************************************)
EXTENDS Integers, Sequences

CONSTANTS MaxHeight,   \* bound: the highest block the node ever mints
          MaxReorgs    \* bound: how often the node abandons blocks

ASSUME BlocksAssumption == MaxHeight \in Nat /\ MaxReorgs \in Nat

Heights == 0 .. MaxHeight
Hashes  == 0 .. MaxReorgs

\* Option<i64> and Option<u64> over heights: a height is never negative.
None == -1

Block   == [height : Heights, hash : Hashes, parent : Hashes]
NoBlock == [height |-> None, hash |-> None, parent |-> None]

\* tip.rs Tip: what the next block is classified against.  NoTip is None.
Tip   == [height : Heights, hash : Hashes]
NoTip == [height |-> None, hash |-> None]

TipOf(b) == [height |-> b.height, hash |-> b.hash]

Larger(a, b)  == IF a >= b THEN a ELSE b
Smaller(a, b) == IF a <= b THEN a ELSE b
=============================================================================
