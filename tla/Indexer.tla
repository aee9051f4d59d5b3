------------------------------- MODULE Indexer -------------------------------
(***************************************************************************)
(* retracer-core/src/lib.rs `index_chain`: the one task that writes a      *)
(* chain's rows.  It takes what the channel holds, classifies each block   *)
(* against a tip kept in memory, collects the ones it accepts in a batch,  *)
(* and commits the batch in one transaction when it is full or when what   *)
(* it took is used up.  A fork is rolled back one block at a time, and the *)
(* reader is asked to send the heights again.                              *)
(***************************************************************************)
EXTENDS Tip, BlockStore, Links

CONSTANTS BatchSize,      \* INSERT_BATCH_BLOCKS, 200: also recv_many's limit
          MaxFailures     \* bound: how many commits fail

ASSUME IndexerAssumption == BatchSize \in Nat \ {0} /\ MaxFailures \in Nat

VARIABLES index,          \* where the loop is, see IndexStates
          tip,            \* the tip in memory
          rewoundFrom,    \* where the rollback episode in progress began
          inbox,          \* blocks received and not yet classified
          batch,          \* blocks accepted and not yet committed
          rows, cursor,   \* the store
          failures,       \* commits that failed so far
          gapTaken,       \* history: a block was accepted with heights missing
          behind,         \* history: a block was accepted at or below the cursor
          announced       \* history: blocks sent on the broadcast channel

IndexStates == {"receive", "drain", "rollback", "rewind"}

taskVars    == <<index, tip, rewoundFrom, inbox, batch>>
storeVars   == <<rows, cursor>>
indexerVars == <<taskVars, storeVars, failures, gapTaken, behind, announced>>

IndexerTypeOK ==
    /\ index \in IndexStates
    /\ tip \in Tip \cup {NoTip}
    /\ rewoundFrom \in Heights \cup {None}
    /\ inbox \in Seq(Block) /\ batch \in Seq(Block)
    /\ rows \in [Heights -> Block \cup {NoBlock}]
    /\ cursor \in Heights \cup {None}
    /\ failures \in 0 .. MaxFailures
    /\ gapTaken \in BOOLEAN /\ behind \in BOOLEAN
    /\ announced \subseteq Block

IndexerInit ==
    /\ index = "receive" /\ tip = NoTip /\ rewoundFrom = None
    /\ inbox = <<>> /\ batch = <<>>
    /\ rows = NoRows /\ cursor = None
    /\ failures = 0 /\ gapTaken = FALSE /\ behind = FALSE /\ announced = {}

\* Mutant: a new process starts without a tip.
RestartWithoutTip ==
    /\ index' = "receive" /\ tip' = NoTip /\ rewoundFrom' = None
    /\ inbox' = <<>> /\ batch' = <<>>
    /\ UNCHANGED <<storeVars, failures, gapTaken, behind, announced>>

\* A new process has the store and nothing else: its tip is the cursor's block.
IndexerRestart ==
    /\ index' = "receive" /\ tip' = TipAt(rows, cursor) /\ rewoundFrom' = None
    /\ inbox' = <<>> /\ batch' = <<>>
    /\ UNCHANGED <<storeVars, failures, gapTaken, behind, announced>>

(***************************************************************************)
(* flush_batch: one transaction for the batch.  It lands and its blocks    *)
(* are broadcast; or it fails; or it lands and its answer is lost, which   *)
(* the task cannot tell from a failure.  Nothing happens to an empty one.  *)
(***************************************************************************)
Outcomes(bs) ==
    IF bs # <<>> /\ failures < MaxFailures
    THEN {"landed", "failed", "unanswered"}
    ELSE {"landed"}

\* Mutant: the cursor is not written in the blocks' transaction.
CursorAlwaysMoves(o, bs) == InsertCursor(cursor, bs)

RowsAfter(o, bs)   == IF o = "failed" THEN rows ELSE InsertRows(rows, bs)
CursorAfter(o, bs) == IF o = "failed" THEN cursor ELSE InsertCursor(cursor, bs)

\* Mutant: the broadcast does not wait for the commit.
AnnounceAlways(o, bs) ==
    /\ announced' = announced \cup {bs[i] : i \in DOMAIN bs}
    /\ failures' = IF o = "landed" THEN failures ELSE failures + 1

Announce(o, bs) ==
    /\ announced' = IF o = "landed"
                    THEN announced \cup {bs[i] : i \in DOMAIN bs}
                    ELSE announced
    /\ failures' = IF o = "landed" THEN failures ELSE failures + 1

Flush(o, bs) ==
    /\ rows' = RowsAfter(o, bs)
    /\ cursor' = CursorAfter(o, bs)
    /\ Announce(o, bs)

-----------------------------------------------------------------------------
\* recv_many: everything the channel holds, up to a batch.
Receive ==
    /\ index = "receive" /\ blockCh # <<>>
    /\ LET n == Smaller(Len(blockCh), BatchSize)
       IN  /\ inbox' = SubSeq(blockCh, 1, n)
           /\ blockCh' = SubSeq(blockCh, n + 1, Len(blockCh))
    /\ index' = "drain"
    /\ UNCHANGED <<tip, rewoundFrom, batch, storeVars, failures, rewindCh,
                   gapTaken, behind, announced>>

\* The block at hand, and the way past it.
Draining  == index = "drain" /\ inbox # <<>>
Incoming  == Head(inbox)
NextInbox == inbox' = Tail(inbox)

\* The block is Stale: it is dropped.
SkipStale ==
    /\ Draining /\ IsStale(tip, Incoming)
    /\ NextInbox
    /\ UNCHANGED <<index, tip, rewoundFrom, batch, storeVars, failures, linkVars,
                   gapTaken, behind, announced>>

(***************************************************************************)
(* What Extend and Gap share: the tip moves to the block before anything   *)
(* is written, the episode ends, and the block joins the batch.  A batch   *)
(* that is full is committed at once, and what became of it is not looked  *)
(* at: a failure leaves the tip where it is.                               *)
(***************************************************************************)
Accept(b) ==
    LET bs == Append(batch, b)
    IN  /\ tip' = TipOf(b)
        /\ rewoundFrom' = None
        /\ NextInbox
        /\ behind' = (behind \/ b.height <= cursor)
        /\ \/ /\ Len(bs) < BatchSize
              /\ batch' = bs
              /\ UNCHANGED <<storeVars, failures, announced>>
           \/ /\ Len(bs) >= BatchSize
              /\ batch' = <<>>
              /\ \E o \in Outcomes(bs) : Flush(o, bs)
        /\ UNCHANGED <<index, linkVars>>

ExtendTip ==
    /\ Draining /\ Extends(tip, Incoming)
    /\ Accept(Incoming)
    /\ UNCHANGED gapTaken

\* A Gap is logged and accepted like an extension.
TakeGap ==
    /\ Draining /\ IsGap(tip, Incoming)
    /\ Accept(Incoming)
    /\ gapTaken' = TRUE
(***************************************************************************)
(* A Fork: the batch is committed first, whatever comes of it, and the     *)
(* block is dropped.  The finalized height is not read again before the    *)
(* rollback, which is another transaction.                                 *)
(***************************************************************************)
DetectFork(finalizedHeight) ==
    /\ Draining /\ IsFork(tip, Incoming, rewoundFrom, finalizedHeight)
    /\ \E o \in Outcomes(batch) : Flush(o, batch)
    /\ batch' = <<>>
    /\ NextInbox
    /\ index' = "rollback"
    /\ UNCHANGED <<tip, rewoundFrom, linkVars, gapTaken, behind>>

\* rollback_to one below the tip; the tip is read back from the store.
RollBack ==
    /\ index = "rollback"
    /\ LET r == RollbackHeight(tip)
       IN  /\ rows' = RollbackRows(rows, r)
           /\ cursor' = RollbackCursor(cursor, r)
           /\ tip' = TipAt(rows', r)
    /\ rewoundFrom' = IF rewoundFrom = None THEN tip.height ELSE rewoundFrom
    /\ index' = "rewind"
    /\ UNCHANGED <<inbox, batch, failures, linkVars, gapTaken, behind, announced>>

\* Mutant: the request to send the heights again is lost.
RewindLost ==
    /\ index = "rewind"
    /\ index' = "drain"
    /\ UNCHANGED <<tip, rewoundFrom, inbox, batch, storeVars, failures, linkVars,
                   gapTaken, behind, announced>>

\* rewind_tx.send, which waits while the channel is full.  The height asked for
\* is the one above the rollback, so the one above the cursor it set.
SendRewind ==
    /\ index = "rewind"
    /\ Len(rewindCh) < RewindCapacity
    /\ rewindCh' = Append(rewindCh, cursor + 1)
    /\ index' = "drain"
    /\ UNCHANGED <<tip, rewoundFrom, inbox, batch, storeVars, failures, blockCh,
                   gapTaken, behind, announced>>

\* A fork that is refused, below finality or too deep: the batch is committed,
\* whatever comes of it, and the block is dropped.
Refuse ==
    /\ \E o \in Outcomes(batch) : Flush(o, batch)
    /\ batch' = <<>>
    /\ NextInbox
    /\ UNCHANGED <<index, tip, rewoundFrom, linkVars, gapTaken, behind>>

RefuseBelowFinalized(finalizedHeight) ==
    /\ Draining /\ IsForkBelowFinalized(tip, Incoming, finalizedHeight)
    /\ Refuse

RefuseTooDeep(finalizedHeight) ==
    /\ Draining /\ IsForkTooDeep(tip, Incoming, rewoundFrom, finalizedHeight)
    /\ Refuse

\* Everything received is classified: the batch is committed.  Only here does a
\* failure set the tip back, to the cursor's block or, if that read fails too,
\* to nothing.
EndBatch ==
    /\ index = "drain" /\ inbox = <<>>
    /\ \E o \in Outcomes(batch) :
        /\ Flush(o, batch)
        /\ \/ o = "landed" /\ UNCHANGED tip
           \/ o # "landed" /\ tip' \in {TipAt(rows', cursor'), NoTip}
    /\ batch' = <<>>
    /\ index' = "receive"
    /\ UNCHANGED <<rewoundFrom, inbox, linkVars, gapTaken, behind>>

IndexerNext(finalizedHeight) ==
    \/ Receive \/ SkipStale \/ ExtendTip \/ TakeGap
    \/ DetectFork(finalizedHeight) \/ RollBack \/ SendRewind
    \/ RefuseBelowFinalized(finalizedHeight) \/ RefuseTooDeep(finalizedHeight)
    \/ EndBatch
==============================================================================
