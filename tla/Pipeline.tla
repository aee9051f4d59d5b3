------------------------------ MODULE Pipeline ------------------------------
(***************************************************************************)
(* One chain from node to store: the node, the task that reads it and the  *)
(* task that indexes it, in one process that may end at any point and is   *)
(* started again with nothing but the store.                               *)
(***************************************************************************)
EXTENDS Reader, Indexer

CONSTANT MaxCrashes    \* bound: how often the process ends for no reason of its own

ASSUME PipelineAssumption == MaxCrashes \in Nat

VARIABLE crashes

vars == <<nodeVars, readerVars, linkVars, indexerVars, crashes>>

TypeOK ==
    /\ NodeTypeOK /\ ReaderTypeOK /\ LinksTypeOK /\ IndexerTypeOK
    /\ crashes \in 0 .. MaxCrashes

Init == NodeInit /\ ReaderInit /\ LinksInit /\ IndexerInit /\ crashes = 0

NodeStep    == NodeNext /\ UNCHANGED <<readerVars, linkVars, indexerVars, crashes>>
ReaderStep  == ReaderNext /\ UNCHANGED <<nodeVars, indexerVars, crashes>>
IndexerStep ==
    /\ IndexerNext(network.finalized)
    /\ UNCHANGED <<nodeVars, readerVars, crashes>>

\* Runner::run ends when any task ends, and a supervisor starts it again.
Restart ==
    /\ ReaderRestart(cursor) /\ IndexerRestart
    /\ blockCh' = <<>> /\ rewindCh' = <<>>
    /\ UNCHANGED nodeVars

Crash == crashes < MaxCrashes /\ crashes' = crashes + 1 /\ Restart

ReaderFails == ReaderEnds /\ Restart /\ UNCHANGED crashes

Next == NodeStep \/ ReaderStep \/ IndexerStep \/ Crash \/ ReaderFails

Spec == Init /\ [][Next]_vars

-----------------------------------------------------------------------------
(***************************************************************************)
(* Safety.                                                                 *)
(***************************************************************************)

\* The cursor is at or above every row, so a process that resumes after it
\* never asks the node for a height it has stored.
CursorCoversRows == \A h \in Heights : IsStored(rows, h) => h <= cursor

\* However many forks an episode peels, it never un-indexes more heights than
\* the finality depth.
EpisodeBounded == rewoundFrom # None => rewoundFrom - cursor <= FinalityDepth

\* Two rows next to each other are linked by hash: no block is ever indexed on
\* top of one it does not follow, whichever branches are under way.
NeighboursLinked ==
    \A h \in Heights \ {0} :
        IsStored(rows, h) /\ IsStored(rows, h - 1) => rows[h].parent = rows[h - 1].hash

\* That is so until a block is accepted past a gap, as long as commits land.
LinkedBeforeGap == gapTaken \/ NeighboursLinked

\* Between batches the tip in memory is the block at the cursor, as long as no
\* block was accepted past a gap.
TipFollowsStore == index = "receive" => gapTaken \/ tip = TipAt(rows, cursor)

\* A rollback is decided on only if it spares every height the process, or one
\* before it, knew to be final.
RollbackSparesFinal ==
    [][index # "rollback" /\ index' = "rollback" => RollbackHeight(tip) >= knownFinal]_vars

\* A block is announced to subscribers only once its row is committed, until a
\* block is accepted at or below the cursor, for want of a tip to compare it with:
\* the row there may then be another's.
AnnouncedLanded ==
    [][behind' \/ \A b \in announced' \ announced : rows'[b.height] = b]_vars

\* While the node does not reorganise, a process always finds the block it
\* resumes after, whatever fails: a tip is never lost by starting again.
ResumePointStored == branch = 0 /\ cursor # None => IsStored(rows, cursor)

\* Up to the first gap that is accepted, the store is what ChainIndex promises.
CI == INSTANCE ChainIndex
KeepsChainIndex == CI!Init /\ [][gapTaken' \/ CI!Next]_storeVars

(***************************************************************************)
(* Liveness.  A task that can go on does; the node answers a status and a  *)
(* page now and then, however often a request fails; it need not mint,     *)
(* reorganise or finalise anything, and the process need not end.          *)
(***************************************************************************)
Fairness ==
    /\ WF_vars(TakeRewinds /\ ReaderStep)
    /\ SF_vars(PollStatus /\ ReaderStep)
    /\ SF_vars(FetchPage /\ ReaderStep)
    /\ WF_vars(SendBlock /\ ReaderStep)
    /\ WF_vars(ReaderFails)
    /\ WF_vars(IndexerStep)

FairSpec == Spec /\ Fairness

\* The head of the inbox is a fork the task will not follow.
Refusing ==
    /\ Draining
    /\ \/ IsForkBelowFinalized(tip, Incoming, network.finalized)
       \/ IsForkTooDeep(tip, Incoming, rewoundFrom, network.finalized)

\* The index reaches the node's tip for good once the node rests, through forks
\* and restarts, unless a commit fails, or it accepts a gap or refuses a fork.
CatchesUp == <>[](cursor >= NodeTip) \/ <>(gapTaken \/ Refusing \/ failures > 0)

(***************************************************************************)
(* What the comments say of forks and failed commits.                      *)
(***************************************************************************)

\* Nothing is under way and the reader has asked for everything there is.
Idle ==
    /\ index = "receive" /\ rpc \in {"top", "poll"} /\ next > NodeTip
    /\ blockCh = <<>> /\ rewindCh = <<>>

\* A block that was dropped, by a fork or by a commit that failed, comes back:
\* once nothing is under way the index has no holes.  With nothing finalized no
\* fork is refused for it.
DroppedBlocksComeBack ==
    Idle /\ knownFinal = None => \A h \in 0 .. cursor : IsStored(rows, h)
=============================================================================
