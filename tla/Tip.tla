--------------------------------- MODULE Tip ---------------------------------
(***************************************************************************)
(* retracer-core/src/tip.rs: what the index task does with a block, given  *)
(* its tip.  One predicate for each variant of TipAction; `classify`       *)
(* returns the first that applies, in the order of the definitions below,  *)
(* and their conjuncts make them exclusive.                                *)
(***************************************************************************)
EXTENDS Blocks

CONSTANT FinalityDepth    \* ChainSpec::finality_depth

ASSUME TipAssumption == FinalityDepth \in Nat

\* Mutant: the parent hash is not compared.
ExtendsByHeight(tip, b) == tip = NoTip \/ b.height = tip.height + 1

\* TipAction::Extend.  With nothing indexed the first block defines the start.
Extends(tip, b) ==
    \/ tip = NoTip
    \/ b.height = tip.height + 1 /\ b.parent = tip.hash

\* TipAction::Stale: at or below the tip.
IsStale(tip, b) == tip # NoTip /\ b.height <= tip.height

\* TipAction::Gap: heights are missing between the tip and the block.
IsGap(tip, b) == tip # NoTip /\ b.height > tip.height + 1

\* The block follows the tip and names another parent: the tip is the bad one.
Contradicts(tip, b) ==
    tip # NoTip /\ b.height = tip.height + 1 /\ b.parent # tip.hash

\* The last height still trusted.  One block is peeled per detection.
RollbackHeight(tip) == tip.height - 1

\* Cumulative depth of the rollback episode, from where the episode began.
RollbackDepth(tip, rewoundFrom) ==
    LET start == IF rewoundFrom = None THEN tip.height ELSE rewoundFrom
    IN  Larger(start - RollbackHeight(tip), 0)

\* The rollback would go below a certified height.
ReachesFinalized(tip, finalized) ==
    finalized # None /\ RollbackHeight(tip) < finalized

\* Mutant: each step is measured on its own.
DeeperThanAllowedPerStep(tip, rewoundFrom) ==
    RollbackDepth(tip, None) > FinalityDepth

DeeperThanAllowed(tip, rewoundFrom) ==
    RollbackDepth(tip, rewoundFrom) > FinalityDepth

\* TipAction::ForkBelowFinalized: a certificate outranks the depth heuristic.
IsForkBelowFinalized(tip, b, finalized) ==
    Contradicts(tip, b) /\ ReachesFinalized(tip, finalized)

\* TipAction::ForkTooDeep.
IsForkTooDeep(tip, b, rewoundFrom, finalized) ==
    /\ Contradicts(tip, b)
    /\ ~ReachesFinalized(tip, finalized)
    /\ DeeperThanAllowed(tip, rewoundFrom)

\* TipAction::Fork: the tip is un-indexed and asked for again.
IsFork(tip, b, rewoundFrom, finalized) ==
    /\ Contradicts(tip, b)
    /\ ~ReachesFinalized(tip, finalized)
    /\ ~DeeperThanAllowed(tip, rewoundFrom)
==============================================================================
