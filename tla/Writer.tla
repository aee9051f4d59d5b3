------------------------------- MODULE Writer -------------------------------
(***************************************************************************)
(* The index task as the parts that read the store see it.  It puts blocks *)
(* on top of the cursor, a batch in one transaction, and it un-indexes the *)
(* block at the cursor when the node has left it for another branch.  The  *)
(* rows stay one chain up to the cursor, which is ChainIndex; what the     *)
(* task goes through to keep it so is in Pipeline.                         *)
(***************************************************************************)
EXTENDS BlockStore, SequencesExt

CONSTANT MaxBatch    \* the most blocks in a batch

ASSUME WriterAssumption == MaxBatch \in Nat \ {0}

VARIABLES rows, cursor,   \* the store
          branch          \* the branch the next blocks are on

writerVars == <<rows, cursor, branch>>

WriterTypeOK ==
    /\ rows \in [Heights -> Block \cup {NoBlock}]
    /\ cursor \in Heights \cup {None}
    /\ branch \in Hashes

WriterInit == rows = NoRows /\ cursor = None /\ branch = 0

\* The n blocks above the cursor.
BlocksAbove(n) ==
    [i \in 1 .. n |->
        [height |-> cursor + i, hash |-> branch,
         parent |-> IF i > 1 \/ cursor = None THEN branch ELSE rows[cursor].hash]]

\* insert_blocks, as a batch that lands.
Store(bs) == rows' = InsertRows(rows, bs) /\ cursor' = InsertCursor(cursor, bs)

\* rollback_to one below the cursor.  Genesis is the same on every branch.
Unstore ==
    /\ cursor > 0
    /\ rows' = RollbackRows(rows, cursor - 1)
    /\ cursor' = RollbackCursor(cursor, cursor - 1)

\* get_blocks_in_range: the first `limit` rows between two heights, in order.
RowsBetween(low, high, limit) ==
    LET stored   == {h \in low .. high : IsStored(rows, h)}
        place(h) == Cardinality({g \in stored : g <= h})
    IN  [i \in 1 .. Smaller(Cardinality(stored), limit) |->
            rows[CHOOSE h \in stored : place(h) = i]]

\* What the writer stands for: the store that the pipeline keeps.
CI == INSTANCE ChainIndex
=============================================================================
