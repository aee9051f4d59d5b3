-------------------------------- MODULE Links --------------------------------
(***************************************************************************)
(* retracer-core/src/lib.rs, where a chain is started: the two bounded     *)
(* channels between the task that reads the node and the task that         *)
(* indexes, one of blocks and one of heights to send again.                *)
(***************************************************************************)
EXTENDS Blocks

CONSTANTS BlockCapacity,    \* the block channel's bound, 300
          RewindCapacity    \* the rewind channel's bound, 4

ASSUME LinksAssumption ==
    BlockCapacity \in Nat \ {0} /\ RewindCapacity \in Nat \ {0}

VARIABLES blockCh, rewindCh

linkVars == <<blockCh, rewindCh>>

LinksTypeOK ==
    /\ blockCh \in Seq(Block) /\ Len(blockCh) <= BlockCapacity
    /\ rewindCh \in Seq(Heights) /\ Len(rewindCh) <= RewindCapacity

LinksInit == blockCh = <<>> /\ rewindCh = <<>>
==============================================================================
