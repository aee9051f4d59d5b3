----------------------------- MODULE BlockStore -----------------------------
(***************************************************************************)
(* storage/src/lib.rs, the part the index task writes: the blocks table,   *)
(* one row per height, and the ingestion cursor.  `rows` maps a height to  *)
(* its row or to NoBlock; `cursor` is last_height, or None when the chain  *)
(* has no cursor row.  Every other table is keyed by the height of a block *)
(* and written and deleted in the same transactions.                       *)
(***************************************************************************)
EXTENDS Blocks

NoRows == [h \in Heights |-> NoBlock]

IsStored(rows, h) == rows[h] # NoBlock

\* The rows a batch offers at height h.  Batches ascend, so there is one at most.
Offered(batch, h) == {i \in DOMAIN batch : batch[i].height = h}

\* insert_blocks: ON CONFLICT (chain_id, height) DO NOTHING keeps a row that is
\* already there, even when the incoming block has another hash.
InsertRows(rows, batch) ==
    [h \in Heights |->
        IF ~IsStored(rows, h) /\ Offered(batch, h) # {}
        THEN batch[CHOOSE i \in Offered(batch, h) : TRUE]
        ELSE rows[h]]

\* Mutant: the cursor is that of the first block of the batch.
InsertCursorFirst(cursor, batch) ==
    IF batch = <<>> THEN cursor ELSE Larger(cursor, batch[1].height)

\* The cursor upsert, which only moves it up.
InsertCursor(cursor, batch) ==
    IF batch = <<>> THEN cursor ELSE Larger(cursor, batch[Len(batch)].height)

\* Mutants of the rollback: a row kept at the boundary, and the monotonic guard
\* of the upsert kept for the cursor.
RollbackRowsKeepsOne(rows, r) ==
    [h \in Heights |-> IF h > r + 1 THEN NoBlock ELSE rows[h]]

RollbackCursorGuarded(cursor, r) == Larger(cursor, r)

\* rollback_to: every row above r goes ...
RollbackRows(rows, r) == [h \in Heights |-> IF h > r THEN NoBlock ELSE rows[h]]

\* ... and the cursor is set to r whatever it was; below genesis it is deleted.
RollbackCursor(cursor, r) == IF r < 0 THEN None ELSE r

\* get_block_hash at a height, as the tip built from it.
TipAt(rows, h) ==
    IF h \in Heights /\ IsStored(rows, h) THEN TipOf(rows[h]) ELSE NoTip
=============================================================================
