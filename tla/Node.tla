-------------------------------- MODULE Node --------------------------------
(***************************************************************************)
(* The chain node the indexer reads, which is not part of this repository: *)
(* a chain of blocks that grows, may abandon its newest blocks for another *)
(* branch, and certifies heights as final.  What ingestion/src/rpc.rs uses *)
(* of it: GET /status answers the tip and the finalized height, and        *)
(* GET /blocks?from&to answers the blocks it has in that range.            *)
(***************************************************************************)
EXTENDS Blocks

CONSTANT FinalityRespected   \* the node never abandons a height it certified

ASSUME NodeAssumption == FinalityRespected \in BOOLEAN

VARIABLES chain,      \* chain[h + 1] is the hash of the node's block h
          branch,     \* the branch the node mints on, numbered by its reorgs
          finalized   \* the highest certified height, or None

nodeVars == <<chain, branch, finalized>>

NodeTip == Len(chain) - 1

NodeBlock(h) ==
    [height |-> h, hash |-> chain[h + 1], parent |-> IF h = 0 THEN 0 ELSE chain[h]]

\* The blocks from .. to the node can serve, in order.
BlocksBetween(from, to) ==
    [i \in 1 .. Larger(Smaller(to, NodeTip) - from + 1, 0) |-> NodeBlock(from + i - 1)]

NodeTypeOK ==
    /\ chain \in Seq(Hashes)
    /\ Len(chain) \in 1 .. MaxHeight + 1
    /\ branch \in Hashes
    /\ finalized \in Heights \cup {None}

NodeInit == chain = <<0>> /\ branch = 0 /\ finalized = None

Mint ==
    /\ NodeTip < MaxHeight
    /\ chain' = Append(chain, branch)
    /\ UNCHANGED <<branch, finalized>>

\* The node abandons every block above d and goes on from there on a new branch.
Reorg ==
    /\ branch < MaxReorgs
    /\ \E d \in 0 .. NodeTip - 1 :
        /\ FinalityRespected => d >= finalized
        /\ chain' = SubSeq(chain, 1, d + 1)
    /\ branch' = branch + 1
    /\ UNCHANGED finalized

Finalize ==
    /\ \E h \in Heights :
        /\ finalized < h /\ h <= NodeTip
        /\ finalized' = h
    /\ UNCHANGED <<chain, branch>>

NodeNext == Mint \/ Reorg \/ Finalize
=============================================================================
