----------------------------- MODULE LedgerView -----------------------------
(***************************************************************************)
(* What tables derived from blocks promise: they are a view of the chain.  *)
(* Blocks come on top, each with its rows, and go from the top with theirs;*)
(* nothing else ever changes a row.                                        *)
(***************************************************************************)
EXTENDS SequencesExt, Integers

CONSTANT RowsOf(_, _)    \* the rows of a block, by its height and contents

VARIABLES chain, view

RowsFrom(c, n) == UNION {RowsOf(h - 1, c[h]) : h \in n + 1 .. Len(c)}

Init == chain = <<>> /\ view = {}

Extend ==
    /\ IsStrictPrefix(chain, chain')
    /\ view' = view \cup RowsFrom(chain', Len(chain))

Retract ==
    /\ IsStrictPrefix(chain', chain)
    /\ view' = view \ RowsFrom(chain, Len(chain'))

Spec == Init /\ [][Extend \/ Retract]_<<chain, view>>

\* All of the chain's rows are there, and no others.
IsView == view = RowsFrom(chain, 0)
=============================================================================
