--------------------------- MODULE PipelineProofs ---------------------------
(***************************************************************************)
(* Theorems about Pipeline, for every bound, capacity and finality depth,  *)
(* whatever the node does and whatever fails.                              *)
(***************************************************************************)
EXTENDS Pipeline, TLAPS

USE BlocksAssumption, TipAssumption, NodeAssumption, LinksAssumption,
    ReaderAssumption, IndexerAssumption, PipelineAssumption

-----------------------------------------------------------------------------
(***************************************************************************)
(* Type correctness, one component at a time.                              *)
(***************************************************************************)

RowsType == [Heights -> Block \cup {NoBlock}]

\* What the node serves are blocks.
LEMMA ServedBlocks ==
    ASSUME NodeTypeOK, NEW from \in 0 .. MaxHeight + 1, NEW to \in Int
    PROVE  BlocksBetween(from, to) \in Seq(Block)
<1> DEFINE n == Larger(Smaller(to, NodeTip) - from + 1, 0)
<1>1. Len(chain) \in Nat /\ NodeTip \in Int
    BY DEF NodeTypeOK, NodeTip
<1>2. n \in Nat
    BY <1>1 DEF Larger, Smaller
<1>3. ASSUME NEW i \in 1 .. n
      PROVE  NodeBlock(from + i - 1) \in Block
    <2>1. from + i - 1 \in 0 .. NodeTip
        BY <1>1, <1>3 DEF Larger, Smaller
    <2>2. from + i - 1 \in Heights
        BY <2>1 DEF NodeTypeOK, NodeTip, Heights
    <2>3. /\ chain[from + i - 1 + 1] \in Hashes
          /\ from + i - 1 # 0 => chain[from + i - 1] \in Hashes
        BY <2>1 DEF NodeTypeOK, NodeTip
    <2> QED
        BY <2>2, <2>3 DEF NodeBlock, Block, Hashes
<1> QED
    BY <1>2, <1>3 DEF BlocksBetween

\* What the node does leaves it well-typed.
LEMMA NodeTypes ==
    ASSUME NodeTypeOK, NodeNext
    PROVE  NodeTypeOK'
<1>1. CASE Mint
    BY <1>1 DEF Mint, NodeTypeOK, NodeTip
<1>2. CASE Reorg
    <2>1. PICK d \in 0 .. NodeTip - 1 : chain' = SubSeq(chain, 1, d + 1)
        BY <1>2 DEF Reorg
    <2>2. d + 1 \in 1 .. Len(chain)
        BY <2>1 DEF NodeTypeOK, NodeTip
    <2>3. chain' \in Seq(Hashes) /\ Len(chain') = d + 1
        BY <2>1, <2>2 DEF NodeTypeOK
    <2> QED
        BY <1>2, <2>2, <2>3 DEF Reorg, NodeTypeOK, Hashes
<1>3. CASE Finalize
    BY <1>3 DEF Finalize, NodeTypeOK
<1> QED
    BY <1>1, <1>2, <1>3 DEF NodeNext

\* What the reader does leaves it and the channels well-typed.
LEMMA ReaderTypes ==
    ASSUME NodeTypeOK, ReaderTypeOK, LinksTypeOK, ReaderNext
    PROVE  ReaderTypeOK' /\ LinksTypeOK'
<1> USE DEF ReaderTypeOK, LinksTypeOK
<1>1. NodeTip \in Heights
    BY DEF NodeTypeOK, NodeTip, Heights
<1>2. CASE PollStatus
    BY <1>1, <1>2 DEF PollStatus, linkVars, NodeTypeOK, Larger
<1>3. CASE FetchPage
    <2>1. Smaller(network.tip, next + PageSize - 1) \in Int
        BY DEF Smaller, Heights, None
    <2>2. Wanted \in Seq(Block)
        BY <2>1, ServedBlocks DEF Wanted
    <2> QED
        BY <1>3, <2>2 DEF FetchPage, linkVars
<1>4. CASE RequestFails
    BY <1>4 DEF RequestFails, linkVars
<1>5. CASE SendBlock
    <2>1. page \in Seq(Block) /\ page # <<>>
        BY <1>5 DEF SendBlock
    <2>2. Head(page) \in Block /\ Tail(page) \in Seq(Block)
        BY <2>1
    <2>3. Head(page).height + 1 \in 0 .. MaxHeight + 1
        <3>1. Head(page).height \in Heights
            BY <2>2 DEF Block
        <3> HIDE DEF ReaderTypeOK, LinksTypeOK
        <3> QED
            BY ONLY <3>1, BlocksAssumption DEF Heights
    <2>4. blockCh' \in Seq(Block) /\ Len(blockCh') <= BlockCapacity
        BY <1>5, <2>2 DEF SendBlock
    <2> QED
        BY <1>5, <2>2, <2>3, <2>4 DEF SendBlock
<1>6. CASE TakeRewinds
    <2>1. next' \in 0 .. MaxHeight + 1
        BY <1>6 DEF TakeRewinds, Heights
    <2>2. rewindCh' \in Seq(Heights) /\ Len(rewindCh') <= RewindCapacity
        BY <1>6 DEF TakeRewinds
    <2> QED
        BY <1>6, <2>1, <2>2 DEF TakeRewinds
<1> QED
    BY <1>2, <1>3, <1>4, <1>5, <1>6 DEF ReaderNext

\* The tip of a block, and the tip read back from a row, are tips.
LEMMA TipTypes ==
    /\ \A b \in Block : TipOf(b) \in Tip
    /\ \A rs \in RowsType, h \in Int : TipAt(rs, h) \in Tip \cup {NoTip}
<1>1. \A b \in Block : TipOf(b) \in Tip
    BY DEF TipOf, Tip, Block
<1> QED
    BY <1>1 DEF TipAt, IsStored, RowsType

\* A batch that lands, fails or is left unanswered leaves a well-typed store.
LEMMA FlushTypes ==
    ASSUME IndexerTypeOK, NEW bs \in Seq(Block), NEW o \in Outcomes(bs), Flush(o, bs)
    PROVE  /\ rows' \in RowsType /\ cursor' \in Heights \cup {None}
           /\ failures' \in 0 .. MaxFailures /\ announced' \subseteq Block
<1> USE DEF IndexerTypeOK
<1>1. \A i \in DOMAIN bs : bs[i] \in Block
    OBVIOUS
<1>2. InsertRows(rows, bs) \in RowsType
    <2>1. ASSUME NEW h \in Heights
          PROVE  InsertRows(rows, bs)[h] \in Block \cup {NoBlock}
        <3>1. CASE ~IsStored(rows, h) /\ Offered(bs, h) # {}
            <4>1. (CHOOSE i \in Offered(bs, h) : TRUE) \in DOMAIN bs
                BY <3>1 DEF Offered
            <4> QED
                BY <1>1, <3>1, <4>1 DEF InsertRows
        <3>2. CASE ~(~IsStored(rows, h) /\ Offered(bs, h) # {})
            BY <3>2 DEF InsertRows
        <3> QED
            BY <3>1, <3>2
    <2> QED
        BY <2>1 DEF InsertRows, RowsType
<1>3. InsertCursor(cursor, bs) \in Heights \cup {None}
    <2>1. CASE bs = <<>>
        BY <2>1 DEF InsertCursor
    <2>2. CASE bs # <<>>
        <3>1. bs[Len(bs)].height \in Heights
            BY <1>1, <2>2 DEF Block
        <3> QED
            BY <2>2, <3>1 DEF InsertCursor, Larger
    <2> QED
        BY <2>1, <2>2
<1>4. rows' \in RowsType /\ cursor' \in Heights \cup {None}
    BY <1>2, <1>3 DEF Flush, RowsAfter, CursorAfter, RowsType
<1>5. failures' \in 0 .. MaxFailures
    BY DEF Flush, Announce, Outcomes
<1>6. announced' \subseteq Block
    BY <1>1 DEF Flush, Announce
<1> QED
    BY <1>4, <1>5, <1>6

\* What a rollback step and the request after it rely on: there is a tip to peel
\* off, nothing is waiting to be committed, and the height asked for exists.
RollbackReady ==
    /\ index = "rollback" => tip # NoTip /\ batch = <<>>
    /\ index = "rewind" => cursor < MaxHeight

\* The head of the inbox is a block, and a block less is still an inbox.
LEMMA InboxTypes ==
    ASSUME IndexerTypeOK, Draining
    PROVE  Incoming \in Block /\ Tail(inbox) \in Seq(Block)
BY DEF IndexerTypeOK, Draining, Incoming

\* A block that joins the batch, full or not, leaves the index task well-typed.
LEMMA AcceptTypes ==
    ASSUME IndexerTypeOK, LinksTypeOK, Draining, Accept(Incoming)
    PROVE  /\ index' = "drain"
           /\ tip' \in Tip /\ rewoundFrom' = None
           /\ inbox' \in Seq(Block) /\ batch' \in Seq(Block)
           /\ rows' \in RowsType /\ cursor' \in Heights \cup {None}
           /\ failures' \in 0 .. MaxFailures /\ announced' \subseteq Block
           /\ behind' \in BOOLEAN /\ LinksTypeOK'
<1> DEFINE bs == Append(batch, Incoming)
<1>1. Incoming \in Block /\ Tail(inbox) \in Seq(Block) /\ bs \in Seq(Block)
    BY InboxTypes DEF IndexerTypeOK
<1>2. /\ index' = "drain" /\ rewoundFrom' = None
      /\ inbox' \in Seq(Block) /\ behind' \in BOOLEAN
      /\ UNCHANGED linkVars
    BY <1>1 DEF Accept, NextInbox, Draining
<1>3. tip' \in Tip
    BY <1>1, TipTypes DEF Accept
<1>4. CASE batch' = bs /\ UNCHANGED <<storeVars, failures, announced>>
    BY <1>1, <1>2, <1>3, <1>4 DEF IndexerTypeOK, LinksTypeOK, linkVars, storeVars, RowsType
<1>5. CASE batch' = <<>> /\ \E o \in Outcomes(bs) : Flush(o, bs)
    <2>1. /\ rows' \in RowsType /\ cursor' \in Heights \cup {None}
          /\ failures' \in 0 .. MaxFailures /\ announced' \subseteq Block
        BY <1>1, <1>5, FlushTypes
    <2> QED
        BY <1>2, <1>3, <1>5, <2>1 DEF LinksTypeOK, linkVars
<1> QED
    BY <1>4, <1>5 DEF Accept

\* Every step of the index task leaves it and the channels well-typed.
LEMMA IndexerTypes ==
    ASSUME IndexerTypeOK, LinksTypeOK, RollbackReady, NEW final, IndexerNext(final)
    PROVE  IndexerTypeOK' /\ LinksTypeOK' /\ RollbackReady'
<1>1. CASE Receive
    <2> DEFINE n == Smaller(Len(blockCh), BatchSize)
    <2>1. n \in 1 .. Len(blockCh)
        BY <1>1 DEF Receive, LinksTypeOK, Smaller
    <2>2. SubSeq(blockCh, 1, n) \in Seq(Block)
        BY <2>1 DEF LinksTypeOK
    <2>3. /\ SubSeq(blockCh, n + 1, Len(blockCh)) \in Seq(Block)
          /\ Len(SubSeq(blockCh, n + 1, Len(blockCh))) <= BlockCapacity
        BY <2>1 DEF LinksTypeOK
    <2> QED
        BY <1>1, <2>2, <2>3
        DEF Receive, IndexerTypeOK, LinksTypeOK, RollbackReady, storeVars, IndexStates
<1>2. CASE SkipStale
    BY <1>2, InboxTypes
    DEF SkipStale, NextInbox, Draining, IndexerTypeOK, LinksTypeOK, RollbackReady,
        storeVars, linkVars
<1>3. CASE ExtendTip \/ TakeGap
    <2>1. Draining /\ Accept(Incoming) /\ gapTaken' \in BOOLEAN
        BY <1>3 DEF ExtendTip, TakeGap, IndexerTypeOK
    <2> QED
        BY <2>1, AcceptTypes DEF IndexerTypeOK, RollbackReady, IndexStates, RowsType
<1>4. CASE DetectFork(final)
    <2>1. /\ rows' \in RowsType /\ cursor' \in Heights \cup {None}
          /\ failures' \in 0 .. MaxFailures /\ announced' \subseteq Block
        BY <1>4, FlushTypes DEF DetectFork, IndexerTypeOK
    <2>2. tip # NoTip
        BY <1>4 DEF DetectFork, IsFork, Contradicts
    <2> QED
        BY <1>4, <2>1, <2>2, InboxTypes
        DEF DetectFork, NextInbox, IndexerTypeOK, LinksTypeOK, RollbackReady, linkVars,
            IndexStates, RowsType
<1>5. CASE RollBack
    <2> DEFINE r == RollbackHeight(tip)
    <2>1. tip \in Tip /\ tip.height \in Heights
        BY <1>5 DEF RollBack, RollbackReady, IndexerTypeOK, Tip
    <2>2. r \in Int /\ r < MaxHeight /\ (r < 0 \/ r \in Heights)
        BY <2>1 DEF RollbackHeight, Heights
    <2>3. cursor' \in Heights \cup {None} /\ cursor' < MaxHeight
        BY <1>5, <2>2 DEF RollBack, RollbackCursor, None
    <2>4. rows' \in RowsType
        BY <1>5 DEF RollBack, RollbackRows, IndexerTypeOK, RowsType
    <2>5. tip' \in Tip \cup {NoTip}
        BY <1>5, <2>2, <2>4, TipTypes DEF RollBack
    <2>6. rewoundFrom' \in Heights \cup {None}
        BY <1>5, <2>1 DEF RollBack, IndexerTypeOK
    <2> QED
        BY <1>5, <2>3, <2>4, <2>5, <2>6
        DEF RollBack, IndexerTypeOK, LinksTypeOK, RollbackReady, linkVars, IndexStates, RowsType
<1>6. CASE SendRewind
    <2>1. cursor + 1 \in Heights
        BY <1>6 DEF SendRewind, RollbackReady, IndexerTypeOK, Heights, None
    <2>2. rewindCh' \in Seq(Heights) /\ Len(rewindCh') <= RewindCapacity
        BY <1>6, <2>1 DEF SendRewind, LinksTypeOK
    <2> QED
        BY <1>6, <2>2
        DEF SendRewind, IndexerTypeOK, LinksTypeOK, RollbackReady, storeVars, IndexStates
<1>7. CASE RefuseBelowFinalized(final) \/ RefuseTooDeep(final)
    <2>1. Draining /\ Refuse
        BY <1>7 DEF RefuseBelowFinalized, RefuseTooDeep
    <2>2. /\ rows' \in RowsType /\ cursor' \in Heights \cup {None}
          /\ failures' \in 0 .. MaxFailures /\ announced' \subseteq Block
        BY <2>1, FlushTypes DEF Refuse, IndexerTypeOK
    <2> QED
        BY <2>1, <2>2, InboxTypes
        DEF Refuse, Draining, NextInbox, IndexerTypeOK, LinksTypeOK, RollbackReady,
            linkVars, IndexStates, RowsType
<1>8. CASE EndBatch
    <2>1. PICK o \in Outcomes(batch) :
            /\ Flush(o, batch)
            /\ tip' = tip \/ tip' \in {TipAt(rows', cursor'), NoTip}
        BY <1>8 DEF EndBatch
    <2>2. /\ rows' \in RowsType /\ cursor' \in Heights \cup {None}
          /\ failures' \in 0 .. MaxFailures /\ announced' \subseteq Block
        BY <2>1, FlushTypes DEF IndexerTypeOK
    <2>3. tip' \in Tip \cup {NoTip}
        <3>1. cursor' \in Int
            BY <2>2 DEF Heights, None
        <3> QED
            BY <2>1, <2>2, <3>1, TipTypes DEF IndexerTypeOK
    <2> QED
        BY <1>8, <2>2, <2>3
        DEF EndBatch, IndexerTypeOK, LinksTypeOK, RollbackReady, linkVars, IndexStates, RowsType
<1> QED
    BY <1>1, <1>2, <1>3, <1>4, <1>5, <1>6, <1>7, <1>8 DEF IndexerNext

-----------------------------------------------------------------------------
TypeInv == TypeOK /\ RollbackReady

\* A process that starts has typed variables.
LEMMA RestartTypes ==
    ASSUME TypeInv, Restart
    PROVE  NodeTypeOK' /\ ReaderTypeOK' /\ LinksTypeOK' /\ IndexerTypeOK'
<1>1. tip' \in Tip \cup {NoTip}
    BY TipTypes DEF TypeInv, TypeOK, IndexerTypeOK, RowsType, Restart, IndexerRestart, Heights, None
<1>2. next' \in 0 .. MaxHeight + 1
    BY DEF TypeInv, TypeOK, IndexerTypeOK, Restart, ReaderRestart, Heights, None
<1>3. NodeTypeOK'
    BY DEF TypeInv, TypeOK, NodeTypeOK, Restart, nodeVars
<1>4. ReaderTypeOK' /\ LinksTypeOK'
    BY <1>2 DEF TypeInv, TypeOK, ReaderTypeOK, LinksTypeOK, Restart, ReaderRestart, NoNetwork
<1>5. IndexerTypeOK'
    BY <1>1 DEF TypeInv, TypeOK, IndexerTypeOK, Restart, IndexerRestart, storeVars, IndexStates
<1> QED
    BY <1>3, <1>4, <1>5

\* A chain that is added for the first time is well-typed.
LEMMA TypeInit == Init => TypeInv
<1> SUFFICES ASSUME Init PROVE TypeInv
    OBVIOUS
<1>1. NodeTypeOK
    BY DEF Init, NodeInit, NodeTypeOK, Hashes
<1>2. ReaderTypeOK /\ LinksTypeOK
    BY DEF Init, ReaderInit, LinksInit, ReaderTypeOK, LinksTypeOK, NoNetwork, Heights
<1>3. IndexerTypeOK /\ RollbackReady
    <2>1. rows \in [Heights -> Block \cup {NoBlock}]
        BY DEF Init, IndexerInit, NoRows
    <2>2. index = "receive" /\ index \in IndexStates
        BY DEF Init, IndexerInit, IndexStates
    <2>3. inbox \in Seq(Block) /\ batch \in Seq(Block)
        BY DEF Init, IndexerInit
    <2>4. failures \in 0 .. MaxFailures
        BY DEF Init, IndexerInit
    <2> QED
        BY <2>1, <2>2, <2>3, <2>4 DEF Init, IndexerInit, IndexerTypeOK, RollbackReady
<1> QED
    BY <1>1, <1>2, <1>3 DEF TypeInv, TypeOK, Init

\* Every step, the end of a process among them, leaves the pipeline well-typed.
LEMMA TypeStep == TypeInv /\ [Next]_vars => TypeInv'
<1> SUFFICES ASSUME TypeInv, [Next]_vars PROVE TypeInv'
    OBVIOUS
<1> USE DEF TypeInv, TypeOK
<1>1. CASE NodeStep
    BY <1>1, NodeTypes
    DEF NodeStep, readerVars, linkVars, indexerVars, taskVars, storeVars, ReaderTypeOK,
        LinksTypeOK, IndexerTypeOK, RollbackReady
<1>2. CASE ReaderStep
    BY <1>2, ReaderTypes
    DEF ReaderStep, nodeVars, indexerVars, taskVars, storeVars, NodeTypeOK, IndexerTypeOK,
        RollbackReady
<1>3. CASE IndexerStep
    BY <1>3, IndexerTypes
    DEF IndexerStep, nodeVars, readerVars, NodeTypeOK, ReaderTypeOK
<1>4. CASE Crash \/ ReaderFails
    <2>1. Restart /\ crashes' \in 0 .. MaxCrashes
        BY <1>4 DEF Crash, ReaderFails
    <2>2. RollbackReady'
        BY <2>1 DEF Restart, IndexerRestart, RollbackReady
    <2>3. NodeTypeOK' /\ ReaderTypeOK' /\ LinksTypeOK' /\ IndexerTypeOK'
        BY <2>1, RestartTypes
    <2> QED
        BY <2>1, <2>2, <2>3
<1>5. CASE UNCHANGED vars
    BY <1>5
    DEF vars, nodeVars, readerVars, linkVars, indexerVars, taskVars, storeVars, NodeTypeOK,
        ReaderTypeOK, LinksTypeOK, IndexerTypeOK, RollbackReady
<1> QED
    BY <1>1, <1>2, <1>3, <1>4, <1>5 DEF Next

\* Every variable of the pipeline keeps its type, and the channels their bounds.
THEOREM TypeCorrect == Spec => []TypeOK
<1>1. TypeInv => TypeOK
    BY DEF TypeInv
<1> QED
    BY <1>1, TypeInit, TypeStep, PTL DEF Spec

\* The types hold together with what a rollback needs: the tip it peels is a block.
THEOREM TypeInvariant == Spec => []TypeInv
BY TypeInit, TypeStep, PTL DEF Spec

-----------------------------------------------------------------------------
(***************************************************************************)
(* The cursor covers the rows.  By itself that is not inductive: a batch   *)
(* sets the cursor to its last height only, so every other height of it    *)
(* has to be below the last, which is the tip's.                           *)
(***************************************************************************)
LastOf(bs) == bs[Len(bs)]

BatchEndsAtTip ==
    batch # <<>> =>
        /\ tip = TipOf(LastOf(batch))
        /\ \A i \in DOMAIN batch : batch[i].height <= LastOf(batch).height

CoverInv == CursorCoversRows /\ BatchEndsAtTip

\* A block at the end of a batch that ends below it.
LEMMA AppendAscends ==
    ASSUME NEW bs \in Seq(Block), NEW b \in Block,
           \A i \in DOMAIN bs : bs[i].height <= b.height
    PROVE  LET cs == Append(bs, b)
           IN  /\ cs \in Seq(Block) /\ cs # <<>> /\ LastOf(cs) = b
               /\ \A i \in DOMAIN cs : cs[i].height <= LastOf(cs).height
<1> DEFINE cs == Append(bs, b)
<1>1. cs \in Seq(Block) /\ Len(cs) = Len(bs) + 1 /\ cs[Len(bs) + 1] = b
    OBVIOUS
<1>2. \A i \in DOMAIN cs : (i \in DOMAIN bs /\ cs[i] = bs[i]) \/ i = Len(bs) + 1
    OBVIOUS
<1>3. b.height \in Int
    BY DEF Block, Heights
<1> QED
    BY <1>1, <1>2, <1>3 DEF LastOf

\* What a batch leaves in the store is covered, whatever becomes of it.
LEMMA FlushCovers ==
    ASSUME IndexerTypeOK, CursorCoversRows,
           NEW bs \in Seq(Block), NEW o, Flush(o, bs),
           \A i \in DOMAIN bs : bs[i].height <= LastOf(bs).height
    PROVE  CursorCoversRows'
<1> SUFFICES ASSUME NEW h \in Heights, IsStored(rows', h) PROVE h <= cursor'
    BY DEF CursorCoversRows
<1>1. CASE o = "failed"
    BY <1>1 DEF Flush, RowsAfter, CursorAfter, CursorCoversRows
<1>2. CASE o # "failed"
    <2>1. rows' = InsertRows(rows, bs) /\ cursor' = InsertCursor(cursor, bs)
        BY <1>2 DEF Flush, RowsAfter, CursorAfter
    <2>2. cursor \in Int
        BY DEF IndexerTypeOK, Heights, None
    <2>3. \A i \in DOMAIN bs : bs[i].height \in Int
        <3>1. \A i \in DOMAIN bs : bs[i] \in Block
            OBVIOUS
        <3> QED
            BY <3>1 DEF Block, Heights
    <2>4. /\ cursor' \in Int /\ cursor' >= cursor
          /\ \A i \in DOMAIN bs : cursor' >= bs[i].height
        <3>1. CASE bs = <<>>
            BY <2>1, <2>2, <3>1 DEF InsertCursor
        <3>2. CASE bs # <<>>
            <4>1. Len(bs) \in DOMAIN bs
                BY <3>2
            <4> QED
                BY <2>1, <2>2, <2>3, <3>2, <4>1 DEF InsertCursor, Larger, LastOf
        <3> QED
            BY <3>1, <3>2
    <2>5. CASE IsStored(rows, h)
        <3>1. h \in Int /\ h <= cursor
            BY <2>5 DEF CursorCoversRows, Heights
        <3> QED
            BY <2>2, <2>4, <3>1
    <2>6. CASE ~IsStored(rows, h)
        <3>1. Offered(bs, h) # {}
            BY <2>1, <2>6 DEF InsertRows, IsStored
        <3>2. PICK i \in DOMAIN bs : bs[i].height = h
            BY <3>1 DEF Offered
        <3> QED
            BY <2>4, <3>2
    <2> QED
        BY <2>5, <2>6
<1> QED
    BY <1>1, <1>2

\* Every step keeps every stored height at or below the cursor.
LEMMA CoverStep == TypeInv /\ CoverInv /\ [Next]_vars => CoverInv'
<1> SUFFICES ASSUME TypeInv, CoverInv, [Next]_vars PROVE CoverInv'
    OBVIOUS
<1>1. IndexerTypeOK /\ RollbackReady
    BY DEF TypeInv, TypeOK
<1>2. CASE UNCHANGED <<rows, cursor, batch, tip>>
    BY <1>2 DEF CoverInv, CursorCoversRows, BatchEndsAtTip
<1>3. CASE IndexerStep
    <2>1. CASE Receive \/ SkipStale \/ SendRewind
        BY <1>2, <2>1 DEF Receive, SkipStale, SendRewind, storeVars
    <2>2. CASE ExtendTip \/ TakeGap
        <3> DEFINE bs == Append(batch, Incoming)
        <3>1. Draining /\ Accept(Incoming) /\ (tip = NoTip \/ Incoming.height > tip.height)
            <4>1. CASE ExtendTip
                <5>1. tip = NoTip \/ tip \in Tip
                    BY <1>1 DEF IndexerTypeOK
                <5> QED
                    BY <4>1, <5>1 DEF ExtendTip, Extends, Tip, Heights
            <4>2. CASE TakeGap
                <5>1. tip \in Tip
                    BY <1>1, <4>2 DEF IndexerTypeOK, TakeGap, IsGap
                <5>2. Incoming \in Block
                    BY <1>1, <4>2, InboxTypes DEF TakeGap
                <5> QED
                    BY <4>2, <5>1, <5>2 DEF TakeGap, IsGap, Tip, Block, Heights
            <4> QED
                BY <2>2, <4>1, <4>2
        <3>2. Incoming \in Block /\ batch \in Seq(Block)
            BY <1>1, <3>1, InboxTypes DEF IndexerTypeOK
        <3>3. \A i \in DOMAIN batch : batch[i].height <= Incoming.height
            <4> SUFFICES ASSUME NEW i \in DOMAIN batch
                         PROVE  batch[i].height <= Incoming.height
                OBVIOUS
            <4>1. /\ batch[i] \in Block /\ LastOf(batch) \in Block
                  /\ batch[i].height <= LastOf(batch).height
                  /\ tip = TipOf(LastOf(batch))
                BY <3>2 DEF CoverInv, BatchEndsAtTip, LastOf
            <4>2. tip # NoTip /\ tip.height = LastOf(batch).height
                BY <4>1 DEF TipOf, NoTip, None, Block, Heights
            <4> QED
                BY <3>1, <3>2, <4>1, <4>2 DEF Block, Heights
        <3>4. /\ bs \in Seq(Block) /\ bs # <<>> /\ LastOf(bs) = Incoming
              /\ \A i \in DOMAIN bs : bs[i].height <= LastOf(bs).height
            BY <3>2, <3>3, AppendAscends
        <3>5. CASE batch' = bs /\ UNCHANGED storeVars
            BY <3>1, <3>4, <3>5
            DEF Accept, CoverInv, CursorCoversRows, BatchEndsAtTip, storeVars, LastOf
        <3>6. CASE batch' = <<>> /\ \E o \in Outcomes(bs) : Flush(o, bs)
            <4>1. CursorCoversRows'
                BY <1>1, <3>4, <3>6, FlushCovers DEF CoverInv
            <4> QED
                BY <3>6, <4>1 DEF CoverInv, BatchEndsAtTip
        <3> QED
            BY <3>1, <3>5, <3>6 DEF Accept
    <2>3. CASE \E o \in Outcomes(batch) : Flush(o, batch) /\ batch' = <<>>
        <3>1. batch \in Seq(Block) /\ \A i \in DOMAIN batch : batch[i].height <= LastOf(batch).height
            BY <1>1 DEF CoverInv, BatchEndsAtTip, IndexerTypeOK
        <3>2. CursorCoversRows'
            BY <1>1, <2>3, <3>1, FlushCovers DEF CoverInv
        <3> QED
            BY <2>3, <3>2 DEF CoverInv, BatchEndsAtTip
    <2>4. CASE RollBack
        <3> DEFINE r == RollbackHeight(tip)
        <3>1. r \in Int /\ r >= -1
            BY <1>1, <2>4 DEF RollBack, RollbackReady, IndexerTypeOK, Tip, Heights, RollbackHeight
        <3>2. \A h \in Heights : IsStored(rows', h) => h <= r
            BY <2>4, <3>1 DEF RollBack, RollbackRows, IsStored, Heights
        <3>3. cursor' = r
            BY <2>4, <3>1 DEF RollBack, RollbackCursor, None
        <3>4. batch' = <<>>
            BY <1>1, <2>4 DEF RollBack, RollbackReady
        <3> QED
            BY <3>2, <3>3, <3>4 DEF CoverInv, CursorCoversRows, BatchEndsAtTip
    <2> QED
        BY <1>3, <2>1, <2>2, <2>3, <2>4
        DEF IndexerStep, IndexerNext, DetectFork, RefuseBelowFinalized, RefuseTooDeep, Refuse,
            EndBatch
<1>4. CASE Crash \/ ReaderFails
    <2>1. UNCHANGED <<rows, cursor>> /\ batch' = <<>>
        BY <1>4 DEF Crash, ReaderFails, Restart, IndexerRestart, storeVars
    <2> QED
        BY <2>1 DEF CoverInv, CursorCoversRows, BatchEndsAtTip
<1> QED
    BY <1>2, <1>3, <1>4
    DEF Next, NodeStep, ReaderStep, vars, indexerVars, taskVars, storeVars

\* The cursor is at or above every row: through commits that fail or whose
\* answer is lost, forks, and processes that end between any two steps.
THEOREM CursorCovers == Spec => []CursorCoversRows
<1>1. Init => CoverInv
    BY DEF Init, IndexerInit, CoverInv, CursorCoversRows, BatchEndsAtTip, NoRows, IsStored
<1>2. CoverInv => CursorCoversRows
    BY DEF CoverInv
<1> QED
    BY <1>1, <1>2, CoverStep, TypeInvariant, PTL DEF Spec

-----------------------------------------------------------------------------
(***************************************************************************)
(* The depth of an episode.  Between two rollbacks of one episode nothing  *)
(* is accepted, so nothing is waiting in the batch and the cursor stays    *)
(* where the last rollback left it; the next step was measured against the *)
(* start of the episode when it was decided on.                            *)
(***************************************************************************)
EpisodeInv ==
    /\ EpisodeBounded
    /\ rewoundFrom # None => batch = <<>>
    /\ index = "rollback" => RollbackDepth(tip, rewoundFrom) <= FinalityDepth

\* Committing an empty batch changes nothing in the store.
LEMMA EmptyFlush ==
    ASSUME NEW o, Flush(o, <<>>)
    PROVE  cursor' = cursor
BY DEF Flush, CursorAfter, InsertCursor

\* Every step, each peeled block among them, keeps the episode's bound.
LEMMA EpisodeStep == TypeInv /\ EpisodeInv /\ [Next]_vars => EpisodeInv'
<1> SUFFICES ASSUME TypeInv, EpisodeInv, [Next]_vars PROVE EpisodeInv'
    OBVIOUS
<1>1. IndexerTypeOK /\ RollbackReady
    BY DEF TypeInv, TypeOK
<1>2. CASE UNCHANGED <<index, tip, rewoundFrom, batch, cursor>>
    BY <1>2 DEF EpisodeInv, EpisodeBounded
<1>3. CASE IndexerStep
    <2>1. CASE Receive \/ SkipStale \/ SendRewind
        BY <2>1 DEF Receive, SkipStale, SendRewind, storeVars, EpisodeInv, EpisodeBounded
    <2>2. CASE ExtendTip \/ TakeGap
        <3>1. rewoundFrom' = None /\ index' = "drain"
            BY <2>2 DEF ExtendTip, TakeGap, Accept, Draining
        <3> QED
            BY <3>1 DEF EpisodeInv, EpisodeBounded
    <2>3. CASE DetectFork(network.finalized)
        <3>1. RollbackDepth(tip, rewoundFrom) <= FinalityDepth
            <4>1. tip \in Tip /\ rewoundFrom \in Int
                BY <1>1, <2>3
                DEF DetectFork, IsFork, Contradicts, IndexerTypeOK, Heights, None
            <4>2. RollbackDepth(tip, rewoundFrom) \in Int
                BY <4>1 DEF RollbackDepth, RollbackHeight, Larger, Tip, Heights, None
            <4> QED
                BY <2>3, <4>2 DEF DetectFork, IsFork, DeeperThanAllowed
        <3>2. UNCHANGED <<tip, rewoundFrom>> /\ batch' = <<>>
            BY <2>3 DEF DetectFork
        <3>3. rewoundFrom # None => cursor' = cursor
            BY <2>3, EmptyFlush DEF DetectFork, EpisodeInv
        <3> QED
            BY <3>1, <3>2, <3>3 DEF EpisodeInv, EpisodeBounded, RollbackDepth
    <2>4. CASE RollBack
        <3> DEFINE r == RollbackHeight(tip)
                   start == IF rewoundFrom = None THEN tip.height ELSE rewoundFrom
        <3>1. tip \in Tip /\ batch = <<>> /\ index = "rollback"
            BY <1>1, <2>4 DEF RollBack, RollbackReady, IndexerTypeOK
        <3>2. r \in Int /\ r >= -1 /\ cursor' = r
            BY <2>4, <3>1 DEF RollBack, RollbackHeight, RollbackCursor, Tip, Heights, None
        <3>3. start \in Int /\ start - r <= FinalityDepth
            BY <1>1, <3>1, <3>2
            DEF EpisodeInv, RollbackDepth, Larger, IndexerTypeOK, Tip, Heights, None
        <3>4. rewoundFrom' = start /\ batch' = <<>> /\ index' = "rewind"
            BY <2>4, <3>1 DEF RollBack
        <3> QED
            BY <3>2, <3>3, <3>4 DEF EpisodeInv, EpisodeBounded
    <2>5. CASE RefuseBelowFinalized(network.finalized) \/ RefuseTooDeep(network.finalized)
        <3>1. Refuse /\ index = "drain"
            BY <2>5 DEF RefuseBelowFinalized, RefuseTooDeep, Draining
        <3>2. rewoundFrom # None => cursor' = cursor
            BY <3>1, EmptyFlush DEF Refuse, EpisodeInv
        <3> QED
            BY <3>1, <3>2 DEF Refuse, EpisodeInv, EpisodeBounded
    <2>6. CASE EndBatch
        <3>1. rewoundFrom # None => cursor' = cursor
            BY <2>6, EmptyFlush DEF EndBatch, EpisodeInv
        <3> QED
            BY <2>6, <3>1 DEF EndBatch, EpisodeInv, EpisodeBounded
    <2> QED
        BY <1>3, <2>1, <2>2, <2>3, <2>4, <2>5, <2>6 DEF IndexerStep, IndexerNext
<1>4. CASE Crash \/ ReaderFails
    <2>1. rewoundFrom' = None /\ index' = "receive"
        BY <1>4 DEF Crash, ReaderFails, Restart, IndexerRestart
    <2> QED
        BY <2>1 DEF EpisodeInv, EpisodeBounded
<1> QED
    BY <1>2, <1>3, <1>4
    DEF Next, NodeStep, ReaderStep, vars, indexerVars, taskVars, storeVars

\* However many forks an episode peels, one block at a time, the heights it
\* un-indexes are never more than the finality depth.
THEOREM EpisodesBounded == Spec => []EpisodeBounded
<1>1. Init => EpisodeInv
    BY DEF Init, IndexerInit, EpisodeInv, EpisodeBounded
<1>2. EpisodeInv => EpisodeBounded
    BY DEF EpisodeInv
<1> QED
    BY <1>1, <1>2, EpisodeStep, TypeInvariant, PTL DEF Spec

-----------------------------------------------------------------------------
(***************************************************************************)
(* Finality.  The index task reads the finalized height from the network   *)
(* view, which is written before any block read after it is sent: so as    *)
(* long as a block is under way the view is the latest one published, by   *)
(* this process or one before it.                                          *)
(***************************************************************************)
UnderWay == rpc \in {"fetch", "send"} \/ blockCh # <<>> \/ inbox # <<>>

FinalInv ==
    /\ knownFinal <= finalized
    /\ UnderWay => network.finalized = knownFinal

\* Every step keeps what the process and its predecessors know to be final.
LEMMA FinalStep == TypeInv /\ FinalInv /\ [Next]_vars => FinalInv'
<1> SUFFICES ASSUME TypeInv, FinalInv, [Next]_vars PROVE FinalInv'
    OBVIOUS
<1>1. knownFinal \in Int /\ finalized \in Int
    BY DEF TypeInv, TypeOK, NodeTypeOK, ReaderTypeOK, Heights, None
<1>2. CASE UNCHANGED vars
    BY <1>2
    DEF FinalInv, UnderWay, vars, nodeVars, readerVars, linkVars, indexerVars, taskVars
<1>3. CASE NodeStep
    <2>1. finalized' \in Int /\ finalized' >= finalized
        BY <1>1, <1>3 DEF NodeStep, NodeNext, Mint, Reorg, Finalize, Heights
    <2> QED
        BY <1>1, <1>3, <2>1
        DEF NodeStep, FinalInv, UnderWay, readerVars, linkVars, indexerVars, taskVars
<1>4. CASE ReaderStep
    <2>1. UNCHANGED <<finalized, inbox>>
        BY <1>4 DEF ReaderStep, nodeVars, indexerVars, taskVars
    <2>2. CASE PollStatus
        BY <1>1, <2>1, <2>2 DEF PollStatus, FinalInv, Larger
    <2>3. CASE FetchPage \/ SendBlock
        <3>1. UNCHANGED <<knownFinal, network>> /\ rpc \in {"fetch", "send"}
            BY <2>3 DEF FetchPage, SendBlock
        <3> QED
            BY <2>1, <3>1 DEF FinalInv, UnderWay
    <2>4. CASE TakeRewinds \/ RequestFails
        <3>1. UNCHANGED <<knownFinal, network, blockCh>> /\ rpc' \in {"top", "poll"}
            BY <2>4 DEF TakeRewinds, RequestFails, linkVars
        <3> QED
            BY <2>1, <3>1 DEF FinalInv, UnderWay
    <2> QED
        BY <1>4, <2>2, <2>3, <2>4 DEF ReaderStep, ReaderNext
<1>5. CASE IndexerStep
    <2>1. UNCHANGED <<finalized, rpc, network, knownFinal>>
        BY <1>5 DEF IndexerStep, nodeVars, readerVars
    <2>2. UnderWay' => UnderWay
        <3>1. inbox' # <<>> => inbox # <<>> \/ blockCh # <<>>
            BY <1>5
            DEF IndexerStep, IndexerNext, Receive, SkipStale, ExtendTip, TakeGap, Accept, NextInbox,
                Draining, DetectFork, RollBack, SendRewind, RefuseBelowFinalized, RefuseTooDeep,
                Refuse, EndBatch
        <3>2. blockCh' # <<>> => blockCh # <<>>
            BY <1>5
            DEF IndexerStep, IndexerNext, Receive, SkipStale, ExtendTip, TakeGap, Accept,
                DetectFork, RollBack, SendRewind, RefuseBelowFinalized, RefuseTooDeep,
                Refuse, EndBatch, linkVars
        <3> QED
            BY <2>1, <3>1, <3>2 DEF UnderWay
    <2> QED
        BY <2>1, <2>2 DEF FinalInv
<1>6. CASE Crash \/ ReaderFails
    BY <1>6
    DEF Crash, ReaderFails, Restart, ReaderRestart, IndexerRestart, FinalInv, UnderWay, nodeVars
<1> QED
    BY <1>2, <1>3, <1>4, <1>5, <1>6 DEF Next

\* A rollback is decided on only above every height this process, or one before
\* it, ever published as final, even if the node abandons what it certified.
THEOREM FinalSpared == Spec => RollbackSparesFinal
<1>1. Init => FinalInv
    BY DEF Init, NodeInit, ReaderInit, LinksInit, IndexerInit, FinalInv, UnderWay, None
<1>2. TypeInv /\ FinalInv /\ [Next]_vars
        => (index # "rollback" /\ index' = "rollback" => RollbackHeight(tip) >= knownFinal)
    <2> SUFFICES ASSUME TypeInv, FinalInv, [Next]_vars, index # "rollback", index' = "rollback"
                 PROVE  RollbackHeight(tip) >= knownFinal
        OBVIOUS
    <2>1. IndexerStep
        BY DEF Next, NodeStep, ReaderStep, Crash, ReaderFails, Restart, IndexerRestart, vars,
            indexerVars, taskVars
    <2>2. DetectFork(network.finalized)
        BY <2>1
        DEF IndexerStep, IndexerNext, Receive, SkipStale, ExtendTip, TakeGap, Accept, RollBack,
            SendRewind, RefuseBelowFinalized, RefuseTooDeep, Refuse, EndBatch
    <2>3. tip \in Tip /\ ~ReachesFinalized(tip, network.finalized)
        BY <2>2 DEF DetectFork, IsFork, Contradicts, TypeInv, TypeOK, IndexerTypeOK
    <2>4. network.finalized = knownFinal
        BY <2>2 DEF DetectFork, Draining, FinalInv, UnderWay
    <2>5. knownFinal \in Int
        BY DEF TypeInv, TypeOK, ReaderTypeOK, Heights, None
    <2> QED
        BY <2>3, <2>4, <2>5 DEF ReachesFinalized, RollbackHeight, Tip, Heights, None
<1> QED
    BY <1>1, <1>2, FinalStep, TypeInvariant, PTL DEF Spec, RollbackSparesFinal

-----------------------------------------------------------------------------
(***************************************************************************)
(* What is announced is stored.  The rows of a batch are free, since its   *)
(* heights rise from above the cursor, which covers the rows: that holds   *)
(* until a block is accepted at or below the cursor, which needs a tip     *)
(* that was lost.                                                          *)
(***************************************************************************)
RowsPlaced == \A h \in Heights : IsStored(rows, h) => rows[h].height = h

Rising(bs) ==
    \A i \in DOMAIN bs :
        bs[i].height > cursor /\ \A j \in DOMAIN bs : i < j => bs[i].height < bs[j].height

Above == (tip # NoTip => tip.height >= cursor) /\ Rising(batch)

LandInv == RowsPlaced /\ (behind \/ Above)

\* A row that is written has the height it is written at.
LEMMA FlushPlaces ==
    ASSUME RowsPlaced, NEW bs \in Seq(Block), NEW o, Flush(o, bs)
    PROVE  RowsPlaced'
<1> SUFFICES ASSUME NEW h \in Heights, IsStored(rows', h) PROVE rows'[h].height = h
    BY DEF RowsPlaced
<1>1. CASE rows' = rows
    BY <1>1 DEF RowsPlaced
<1>2. CASE rows' = InsertRows(rows, bs)
    <2>1. CASE ~IsStored(rows, h) /\ Offered(bs, h) # {}
        <3>1. (CHOOSE i \in Offered(bs, h) : TRUE) \in Offered(bs, h)
            BY <2>1
        <3> QED
            BY <1>2, <2>1, <3>1 DEF InsertRows, Offered
    <2>2. CASE ~(~IsStored(rows, h) /\ Offered(bs, h) # {})
        <3>1. rows'[h] = rows[h]
            BY <1>2, <2>2 DEF InsertRows
        <3> QED
            BY <3>1 DEF RowsPlaced, IsStored
    <2> QED
        BY <2>1, <2>2
<1> QED
    BY <1>1, <1>2 DEF Flush, RowsAfter

\* The rows of a batch that rises from above the cursor are free.
LEMMA FlushLands ==
    ASSUME IndexerTypeOK, CursorCoversRows, NEW bs \in Seq(Block), Rising(bs),
           NEW o, Flush(o, bs), NEW b \in announced' \ announced
    PROVE  rows'[b.height] = b
<1>1. rows' = InsertRows(rows, bs) /\ \E i \in DOMAIN bs : b = bs[i]
    BY DEF Flush, Announce, RowsAfter
<1>2. PICK i \in DOMAIN bs : b = bs[i]
    BY <1>1
<1>3. /\ cursor \in Int /\ DOMAIN bs \subseteq Nat
      /\ \A j \in DOMAIN bs : bs[j].height \in Heights /\ bs[j].height \in Int
    <2>1. \A j \in DOMAIN bs : bs[j] \in Block
        OBVIOUS
    <2> QED
        BY <2>1 DEF IndexerTypeOK, Block, Heights, None
<1>4. ~IsStored(rows, b.height)
    BY <1>2, <1>3 DEF Rising, CursorCoversRows
<1>5. Offered(bs, b.height) = {i}
    <2>1. ASSUME NEW j \in DOMAIN bs, bs[j].height = b.height PROVE j = i
        <3>1. j < i \/ j = i \/ i < j
            BY <1>3
        <3> QED
            BY <1>2, <1>3, <2>1, <3>1 DEF Rising
    <2> QED
        BY <1>2, <2>1 DEF Offered
<1> QED
    BY <1>1, <1>2, <1>3, <1>4, <1>5 DEF InsertRows

\* A batch leaves the cursor where it is, or moves it up to its last block.
LEMMA FlushCursor ==
    ASSUME IndexerTypeOK, NEW bs \in Seq(Block), NEW o, Flush(o, bs)
    PROVE  cursor' = cursor \/ (bs # <<>> /\ cursor' = LastOf(bs).height)
BY DEF Flush, CursorAfter, InsertCursor, Larger, LastOf

\* An accepted block goes on top of the batch, and of the tip if there is one.
LEMMA AcceptRises ==
    ASSUME TypeInv, CoverInv, Above, Draining, Incoming.height > cursor,
           Extends(tip, Incoming) \/ IsGap(tip, Incoming)
    PROVE  Rising(Append(batch, Incoming))
<1> DEFINE bs == Append(batch, Incoming)
<1>1. /\ Incoming \in Block /\ batch \in Seq(Block) /\ tip \in Tip \cup {NoTip}
      /\ Incoming.height \in Int /\ Len(batch) \in Nat
    BY InboxTypes DEF TypeInv, TypeOK, IndexerTypeOK, Block, Heights
<1>2. \A i \in DOMAIN batch : batch[i] \in Block /\ batch[i].height \in Int
    <2>1. \A b \in Block : b.height \in Int
        BY DEF Block, Heights
    <2> QED
        BY <1>1, <2>1
<1>3. ASSUME NEW i \in DOMAIN batch PROVE batch[i].height < Incoming.height
    <2>1. /\ LastOf(batch) \in Block /\ batch[i].height <= LastOf(batch).height
          /\ tip = TipOf(LastOf(batch))
        BY <1>1 DEF CoverInv, BatchEndsAtTip, LastOf
    <2>2. tip # NoTip /\ tip.height = LastOf(batch).height /\ tip.height \in Int
        BY <2>1 DEF TipOf, NoTip, None, Block, Heights
    <2>3. Incoming.height > tip.height
        BY <1>1, <2>2 DEF Extends, IsGap
    <2> QED
        BY <1>1, <1>2, <2>1, <2>2, <2>3
<1>4. /\ DOMAIN bs = 1 .. Len(batch) + 1 /\ DOMAIN batch = 1 .. Len(batch)
      /\ \A i \in DOMAIN batch : bs[i] = batch[i]
      /\ bs[Len(batch) + 1] = Incoming
    BY <1>1
<1>5. ASSUME NEW i \in DOMAIN bs
      PROVE  bs[i].height > cursor /\ \A j \in DOMAIN bs : i < j => bs[i].height < bs[j].height
    <2> HIDE DEF bs
    <2>1. CASE i = Len(batch) + 1
        BY <1>1, <1>4, <2>1
    <2>2. CASE i \in DOMAIN batch
        <3>1. bs[i].height > cursor
            BY <1>4, <2>2 DEF Above, Rising
        <3>2. ASSUME NEW j \in DOMAIN bs, i < j PROVE bs[i].height < bs[j].height
            <4>1. CASE j = Len(batch) + 1
                BY <1>3, <1>4, <2>2, <4>1
            <4>2. CASE j \in DOMAIN batch
                BY <1>4, <2>2, <3>2, <4>2 DEF Above, Rising
            <4> QED
                BY <1>1, <1>4, <4>1, <4>2
        <3> QED
            BY <3>1, <3>2
    <2> QED
        BY <1>1, <1>4, <2>1, <2>2
<1> QED
    BY <1>5 DEF Rising

Landed == \A b \in announced' \ announced : rows'[b.height] = b

\* Every step keeps the batch above the cursor, and announces what it stored.
LEMMA LandStep ==
    TypeInv /\ CoverInv /\ LandInv /\ [Next]_vars => LandInv' /\ (behind' \/ Landed)
<1> SUFFICES ASSUME TypeInv, CoverInv, LandInv, [Next]_vars
             PROVE  LandInv' /\ (behind' \/ Landed)
    OBVIOUS
<1>1. /\ IndexerTypeOK /\ RollbackReady /\ RowsPlaced /\ CursorCoversRows /\ BatchEndsAtTip
      /\ cursor \in Int /\ cursor >= -1 /\ batch \in Seq(Block) /\ tip \in Tip \cup {NoTip}
      /\ NoTip.height = -1 /\ None = -1
    BY DEF TypeInv, TypeOK, IndexerTypeOK, LandInv, CoverInv, Heights, None, NoTip
<1>2. \A h \in Int : TipAt(rows, h) # NoTip => TipAt(rows, h).height = h
    BY <1>1 DEF TipAt, TipOf, RowsPlaced
<1>3. CASE UNCHANGED <<rows, cursor, batch, tip, behind, announced>>
    BY <1>1, <1>3 DEF LandInv, RowsPlaced, Above, Rising, Landed, IsStored
<1>4. ASSUME batch' = <<>>, UNCHANGED <<rows, cursor, announced, behind>>,
             tip' = TipAt(rows, cursor)
      PROVE  LandInv' /\ Landed
    <2>1. Above'
        BY <1>1, <1>2, <1>4 DEF Above, Rising
    <2> QED
        BY <1>1, <1>4, <2>1 DEF LandInv, RowsPlaced, Landed, IsStored
<1>5. CASE ExtendTip \/ TakeGap
    <2> DEFINE bs == Append(batch, Incoming)
    <2>1. /\ Draining /\ Accept(Incoming)
          /\ Extends(tip, Incoming) \/ IsGap(tip, Incoming)
        BY <1>5 DEF ExtendTip, TakeGap
    <2>2. /\ Incoming \in Block /\ Incoming.height \in Int /\ bs \in Seq(Block) /\ bs # <<>>
          /\ LastOf(bs) = Incoming
        <3>1. Incoming \in Block
            BY <1>1, <2>1, InboxTypes
        <3>2. Incoming.height \in Int
            BY <3>1 DEF Block, Heights
        <3>3. bs \in Seq(Block) /\ Len(bs) = Len(batch) + 1 /\ bs[Len(batch) + 1] = Incoming
            BY <1>1, <3>1
        <3>4. Len(batch) \in Nat
            BY <1>1
        <3> QED
            BY <3>1, <3>2, <3>3, <3>4 DEF LastOf
    <2>3. tip' = TipOf(Incoming) /\ behind' = (behind \/ Incoming.height <= cursor)
        BY <2>1 DEF Accept
    <2>4. behind' \/ (Above /\ Incoming.height > cursor /\ Rising(bs))
        <3> SUFFICES ASSUME ~behind' PROVE Above /\ Incoming.height > cursor /\ Rising(bs)
            OBVIOUS
        <3>1. ~behind /\ ~(Incoming.height <= cursor)
            BY <2>3
        <3>2. Above /\ Incoming.height > cursor
            BY <1>1, <2>2, <3>1 DEF LandInv
        <3> QED
            BY <2>1, <3>2, AcceptRises
    <2>5. CASE batch' = bs /\ UNCHANGED <<storeVars, failures, announced>>
        <3>1. behind' \/ Above'
            BY <1>1, <2>2, <2>3, <2>4, <2>5 DEF Above, Rising, TipOf, storeVars
        <3> QED
            BY <1>1, <2>5, <3>1 DEF LandInv, RowsPlaced, IsStored, Landed, storeVars
    <2>6. CASE batch' = <<>> /\ \E o \in Outcomes(bs) : Flush(o, bs)
        <3>1. PICK o \in Outcomes(bs) : Flush(o, bs)
            BY <2>6
        <3> HIDE DEF bs
        <3>2. RowsPlaced'
            BY <1>1, <2>2, <3>1, FlushPlaces
        <3>3. cursor' = cursor \/ cursor' = Incoming.height
            BY <1>1, <2>2, <3>1, FlushCursor
        <3>4. behind' \/ Above'
            BY <1>1, <2>2, <2>3, <2>4, <2>6, <3>3 DEF Above, Rising, TipOf
        <3>5. behind' \/ Landed
            <4> SUFFICES ASSUME ~behind', NEW b \in announced' \ announced
                         PROVE  rows'[b.height] = b
                BY DEF Landed
            <4> QED
                BY <1>1, <2>2, <2>4, <3>1, FlushLands
        <3> QED
            BY <3>2, <3>4, <3>5 DEF LandInv
    <2> QED
        BY <2>1, <2>5, <2>6 DEF Accept
<1>6. ASSUME NEW o, Flush(o, batch), batch' = <<>>, behind' = behind,
             tip' = tip \/ tip' \in {TipAt(rows', cursor'), NoTip}
      PROVE  LandInv' /\ (behind' \/ Landed)
    <2>1. RowsPlaced'
        BY <1>1, <1>6, FlushPlaces
    <2>2. cursor' = cursor \/ (batch # <<>> /\ cursor' = LastOf(batch).height)
        BY <1>1, <1>6, FlushCursor
    <2>3. cursor' \in Int
        <3>1. ASSUME batch # <<>> PROVE LastOf(batch).height \in Int
            <4>1. LastOf(batch) \in Block
                BY <1>1, <3>1 DEF LastOf
            <4> QED
                BY <4>1 DEF Block, Heights
        <3> QED
            BY <1>1, <2>2, <3>1
    <2>4. TipAt(rows', cursor') # NoTip => TipAt(rows', cursor').height = cursor'
        BY <2>1, <2>3 DEF TipAt, TipOf, RowsPlaced
    <2>5. ASSUME ~behind, tip' = tip, tip # NoTip PROVE tip.height >= cursor'
        <3>1. tip.height >= cursor
            BY <2>5 DEF LandInv, Above
        <3>2. batch # <<>> => tip.height = LastOf(batch).height
            BY <1>1 DEF BatchEndsAtTip, TipOf
        <3>3. batch # <<>> => tip.height >= LastOf(batch).height
            BY <1>1, <2>3, <2>5, <3>2 DEF Tip, Heights
        <3> QED
            BY <2>2, <3>1, <3>3
    <2>6. behind' \/ Above'
        <3>1. Rising(batch)'
            BY <1>6 DEF Rising
        <3>2. ASSUME ~behind PROVE tip' # NoTip => tip'.height >= cursor'
            BY <1>6, <2>3, <2>4, <2>5, <3>2
        <3> QED
            BY <1>6, <3>1, <3>2 DEF Above
    <2>7. behind' \/ Landed
        <3> SUFFICES ASSUME ~behind', NEW b \in announced' \ announced
                     PROVE  rows'[b.height] = b
            BY DEF Landed
        <3> QED
            BY <1>1, <1>6, FlushLands DEF LandInv, Above
    <2> QED
        BY <2>1, <2>6, <2>7 DEF LandInv
<1>7. CASE RollBack
    <2> DEFINE r == RollbackHeight(tip)
    <2>1. /\ r \in Int /\ r >= -1 /\ batch = <<>> /\ batch' = batch
          /\ rows' = RollbackRows(rows, r) /\ cursor' = RollbackCursor(cursor, r)
          /\ tip' = TipAt(rows', r) /\ UNCHANGED <<announced, behind>>
        BY <1>1, <1>7 DEF RollBack, RollbackReady, Tip, Heights, RollbackHeight
    <2>2. cursor' = r
        BY <1>1, <2>1 DEF RollbackCursor
    <2>3. RowsPlaced'
        BY <1>1, <2>1 DEF RowsPlaced, RollbackRows, IsStored
    <2>4. tip' # NoTip => tip'.height = cursor'
        BY <2>1, <2>2, <2>3 DEF TipAt, TipOf, RowsPlaced
    <2>5. Above'
        BY <2>1, <2>2, <2>4 DEF Above, Rising
    <2> QED
        BY <2>1, <2>3, <2>5 DEF LandInv, Landed
<1>8. CASE IndexerStep
    <2>1. CASE Receive \/ SkipStale \/ SendRewind
        BY <1>3, <2>1 DEF Receive, SkipStale, SendRewind, storeVars
    <2>2. CASE DetectFork(network.finalized) \/ RefuseBelowFinalized(network.finalized)
               \/ RefuseTooDeep(network.finalized) \/ EndBatch
        <3>1. PICK o \in Outcomes(batch) :
                /\ Flush(o, batch) /\ batch' = <<>> /\ behind' = behind
                /\ tip' = tip \/ tip' \in {TipAt(rows', cursor'), NoTip}
            BY <2>2 DEF DetectFork, RefuseBelowFinalized, RefuseTooDeep, Refuse, EndBatch
        <3> QED
            BY <1>6, <3>1
    <2> QED
        BY <1>5, <1>7, <1>8, <2>1, <2>2 DEF IndexerStep, IndexerNext
<1>9. CASE Crash \/ ReaderFails
    <2>1. /\ batch' = <<>> /\ UNCHANGED <<rows, cursor, announced, behind>>
          /\ tip' = TipAt(rows, cursor)
        BY <1>9 DEF Crash, ReaderFails, Restart, IndexerRestart, storeVars
    <2> QED
        BY <1>4, <2>1
<1> QED
    BY <1>3, <1>8, <1>9 DEF Next, NodeStep, ReaderStep, vars, indexerVars, taskVars, storeVars

\* Whatever fails, forks or ends, a block that is announced is in its row, until
\* a block is accepted at or below the cursor.
THEOREM AnnouncedStored == Spec => AnnouncedLanded
<1>1. Init => CoverInv /\ LandInv
    BY DEF Init, IndexerInit, CoverInv, CursorCoversRows, BatchEndsAtTip, LandInv, RowsPlaced,
           Above, Rising, NoRows, IsStored
<1>2. TypeInv /\ CoverInv /\ LandInv /\ [Next]_vars
        => LandInv' /\ [behind' \/ Landed]_vars
    BY LandStep
<1>3. TypeInv /\ CoverInv /\ LandInv /\ [Next]_vars
        => [behind' \/ \A b \in announced' \ announced : rows'[b.height] = b]_vars
    BY <1>2 DEF Landed
<1> QED
    BY <1>1, <1>2, <1>3, CoverStep, TypeInvariant, PTL DEF Spec, AnnouncedLanded

-----------------------------------------------------------------------------
(***************************************************************************)
(* Blocks come from the node: what the tasks hold and the store keeps are  *)
(* blocks of any set that has all the node serves.                         *)
(***************************************************************************)
TipFrom(S, t) == t = NoTip \/ \E b \in S : t = TipOf(b)

Held(S) ==
    /\ page \in Seq(S) /\ blockCh \in Seq(S) /\ inbox \in Seq(S) /\ batch \in Seq(S)
    /\ rows \in [Heights -> S \cup {NoBlock}]
    /\ TipFrom(S, tip)

\* A commit adds rows of its blocks, or none.
LEMMA HeldFlush ==
    ASSUME NEW S, rows \in [Heights -> S \cup {NoBlock}], NEW bs \in Seq(S), NEW o, Flush(o, bs)
    PROVE  rows' \in [Heights -> S \cup {NoBlock}]
<1>1. \A i \in DOMAIN bs : bs[i] \in S
    OBVIOUS
<1>2. ASSUME NEW h \in Heights
      PROVE  InsertRows(rows, bs)[h] \in S \cup {NoBlock}
    <2>1. CASE ~IsStored(rows, h) /\ Offered(bs, h) # {}
        <3>1. (CHOOSE i \in Offered(bs, h) : TRUE) \in DOMAIN bs
            BY <2>1 DEF Offered
        <3> QED
            BY <1>1, <2>1, <3>1 DEF InsertRows
    <2>2. CASE ~(~IsStored(rows, h) /\ Offered(bs, h) # {})
        BY <2>2 DEF InsertRows
    <2> QED
        BY <2>1, <2>2
<1>3. InsertRows(rows, bs) \in [Heights -> S \cup {NoBlock}]
    BY <1>2 DEF InsertRows
<1> QED
    BY <1>3 DEF Flush, RowsAfter

\* A tip taken from a block, or read back from a row, is of one of them.
LEMMA HeldTips ==
    ASSUME NEW S
    PROVE  /\ TipFrom(S, NoTip)
           /\ \A b \in S : TipFrom(S, TipOf(b))
           /\ \A rs \in [Heights -> S \cup {NoBlock}] : \A h : TipFrom(S, TipAt(rs, h))
BY DEF TipFrom, TipAt, IsStored

\* A first part and a rest of a sequence of blocks.
LEMMA HeldParts ==
    ASSUME NEW S, NEW s \in Seq(S), s # <<>>
    PROVE  /\ Head(s) \in S /\ Head(s) = s[1] /\ Tail(s) \in Seq(S)
           /\ \A n \in 1 .. Len(s) :
                /\ SubSeq(s, 1, n) \in Seq(S) /\ SubSeq(s, n + 1, Len(s)) \in Seq(S)
                /\ SubSeq(s, 1, n) # <<>> /\ SubSeq(s, 1, n)[1] = s[1]
OBVIOUS

\* What the reader does keeps every block in its hands one that the node served.
LEMMA HeldReader ==
    ASSUME TypeInv, NEW S, Held(S), ReaderStep, FetchPage => Wanted \in Seq(S)
    PROVE  Held(S)'
<1> USE DEF Held
<1>1. UNCHANGED <<inbox, batch, rows, tip>>
    BY DEF ReaderStep, indexerVars, taskVars, storeVars
<1>2. CASE TakeRewinds \/ PollStatus \/ RequestFails
    BY <1>1, <1>2 DEF TakeRewinds, PollStatus, RequestFails, linkVars
<1>3. CASE FetchPage
    BY <1>1, <1>3 DEF FetchPage, linkVars
<1>4. CASE SendBlock
    <2>1. page # <<>>
        BY <1>4 DEF SendBlock, TypeInv, TypeOK, ReaderTypeOK
    <2>2. Head(page) \in S /\ Tail(page) \in Seq(S)
        BY <2>1, HeldParts
    <2>3. Append(blockCh, Head(page)) \in Seq(S)
        BY <2>2
    <2> QED
        BY <1>1, <1>4, <2>2, <2>3 DEF SendBlock
<1> QED
    BY <1>2, <1>3, <1>4 DEF ReaderStep, ReaderNext

\* What the index task does keeps every block it holds or stores one it was sent.
LEMMA HeldIndexer ==
    ASSUME TypeInv, NEW S, Held(S), IndexerStep
    PROVE  Held(S)'
<1> USE DEF Held
<1>1. page' = page
    BY DEF IndexerStep, readerVars
<1>2. CASE Receive
    <2> DEFINE n == Smaller(Len(blockCh), BatchSize)
    <2>1. blockCh # <<>> /\ n \in 1 .. Len(blockCh)
        BY <1>2 DEF Receive, LinksTypeOK, Smaller, TypeInv, TypeOK
    <2>2. SubSeq(blockCh, 1, n) \in Seq(S) /\ SubSeq(blockCh, n + 1, Len(blockCh)) \in Seq(S)
        BY <2>1, HeldParts
    <2> QED
        BY <1>1, <1>2, <2>2 DEF Receive, storeVars
<1>3. CASE SkipStale \/ SendRewind
    <2>1. UNCHANGED <<blockCh, batch, rows, tip>>
        BY <1>3 DEF SkipStale, SendRewind, storeVars, linkVars
    <2>2. inbox' \in Seq(S)
        <3>1. CASE SkipStale
            <4>1. inbox # <<>> /\ inbox' = Tail(inbox)
                BY <3>1 DEF SkipStale, Draining, NextInbox
            <4> QED
                BY <4>1, HeldParts
        <3>2. CASE SendRewind
            BY <3>2 DEF SendRewind
        <3> QED
            BY <1>3, <3>1, <3>2
    <2> QED
        BY <1>1, <2>1, <2>2
<1>4. CASE ExtendTip \/ TakeGap
    <2> DEFINE bs == Append(batch, Incoming)
    <2>1. Draining /\ Accept(Incoming)
        BY <1>4 DEF ExtendTip, TakeGap
    <2>2. Incoming \in S /\ Tail(inbox) \in Seq(S) /\ bs \in Seq(S)
        BY <2>1, HeldParts DEF Draining, Incoming
    <2>3. TipFrom(S, tip')
        BY <2>1, <2>2, HeldTips DEF Accept
    <2>4. rows' \in [Heights -> S \cup {NoBlock}] /\ batch' \in Seq(S)
        <3>1. CASE batch' = bs /\ rows' = rows
            BY <2>2, <3>1
        <3>2. CASE batch' = <<>> /\ \E o \in Outcomes(bs) : Flush(o, bs)
            <4>1. PICK o \in Outcomes(bs) : Flush(o, bs)
                BY <3>2
            <4>2. bs \in Seq(S) /\ rows \in [Heights -> S \cup {NoBlock}]
                BY <2>2
            <4> HIDE DEF bs
            <4>3. rows' \in [Heights -> S \cup {NoBlock}]
                BY <4>1, <4>2, HeldFlush
            <4> QED
                BY <3>2, <4>3
        <3> QED
            BY <2>1, <3>1, <3>2 DEF Accept, storeVars
    <2> QED
        BY <1>1, <2>1, <2>2, <2>3, <2>4 DEF Accept, NextInbox, linkVars
<1>5. CASE DetectFork(network.finalized) \/ RefuseBelowFinalized(network.finalized)
           \/ RefuseTooDeep(network.finalized)
    <2>1. /\ Draining /\ NextInbox /\ batch' = <<>> /\ UNCHANGED <<tip, blockCh>>
          /\ \E o \in Outcomes(batch) : Flush(o, batch)
        BY <1>5 DEF DetectFork, RefuseBelowFinalized, RefuseTooDeep, Refuse, linkVars
    <2>2. rows' \in [Heights -> S \cup {NoBlock}] /\ Tail(inbox) \in Seq(S)
        BY <2>1, HeldFlush, HeldParts DEF Draining
    <2> QED
        BY <1>1, <2>1, <2>2 DEF NextInbox
<1>6. CASE RollBack
    <2>1. rows' \in [Heights -> S \cup {NoBlock}]
        BY <1>6 DEF RollBack, RollbackRows
    <2>2. TipFrom(S, tip')
        BY <1>6, <2>1, HeldTips DEF RollBack
    <2> QED
        BY <1>1, <1>6, <2>1, <2>2 DEF RollBack, linkVars
<1>7. CASE EndBatch
    <2>1. /\ batch' = <<>> /\ UNCHANGED <<inbox, blockCh>>
          /\ \E o \in Outcomes(batch) : Flush(o, batch)
          /\ tip' = tip \/ tip' \in {TipAt(rows', cursor'), NoTip}
        BY <1>7 DEF EndBatch, linkVars
    <2>2. rows' \in [Heights -> S \cup {NoBlock}]
        BY <2>1, HeldFlush
    <2>3. TipFrom(S, tip')
        BY <2>1, <2>2, HeldTips
    <2> QED
        BY <1>1, <2>1, <2>2, <2>3
<1> QED
    BY <1>2, <1>3, <1>4, <1>5, <1>6, <1>7 DEF IndexerStep, IndexerNext

\* No step of the pipeline makes up a block.
LEMMA HeldStep ==
    ASSUME TypeInv, NEW S, Held(S), [Next]_vars, FetchPage => Wanted \in Seq(S)
    PROVE  Held(S)'
<1>1. CASE UNCHANGED <<readerVars, linkVars, indexerVars>>
    BY <1>1 DEF Held, readerVars, linkVars, indexerVars, taskVars, storeVars
<1>2. CASE Crash \/ ReaderFails
    <2>1. Restart
        BY <1>2 DEF Crash, ReaderFails
    <2>2. TipFrom(S, tip') /\ rows' = rows
        BY <2>1, HeldTips DEF Restart, IndexerRestart, Held, storeVars
    <2> QED
        BY <2>1, <2>2 DEF Restart, ReaderRestart, IndexerRestart, Held
<1> QED
    BY <1>1, <1>2, HeldReader, HeldIndexer DEF Next, NodeStep, vars

-----------------------------------------------------------------------------
(***************************************************************************)
(* Where a process resumes.  Until the node reorganises every block is of  *)
(* one branch, so there is no fork and no rollback, and the cursor goes    *)
(* from one stored block to another, whatever commits fail between.        *)
(***************************************************************************)
Plain == {b \in Block : b.hash = 0 /\ b.parent = 0}

FirstBranch ==
    /\ chain \in Seq({0}) /\ Held(Plain)
    /\ index \in {"receive", "drain"}
    /\ cursor # None => IsStored(rows, cursor)

FirstInv == branch = 0 => FirstBranch

\* A commit leaves the cursor on a stored block.
LEMMA FlushStored ==
    ASSUME IndexerTypeOK, cursor # None => IsStored(rows, cursor),
           NEW bs \in Seq(Block), NEW o, Flush(o, bs)
    PROVE  cursor' # None => IsStored(rows', cursor')
<1>1. CASE bs = <<>> \/ o = "failed"
    <2>1. cursor' = cursor
        BY <1>1 DEF Flush, CursorAfter, InsertCursor
    <2>2. \A h \in Heights : IsStored(rows, h) => rows'[h] = rows[h]
        BY DEF Flush, RowsAfter, InsertRows
    <2> QED
        BY <2>1, <2>2 DEF IndexerTypeOK, IsStored
<1>2. CASE bs # <<>> /\ o # "failed"
    <2> DEFINE n == Len(bs)
    <2>1. n \in DOMAIN bs /\ bs[n] \in Block
        BY <1>2
    <2>2. bs[n].height \in Heights
        BY <2>1 DEF Block
    <2>3. rows' = InsertRows(rows, bs) /\ cursor' = Larger(cursor, bs[n].height)
        BY <1>2 DEF Flush, RowsAfter, CursorAfter, InsertCursor
    <2>4. \A h \in Heights : IsStored(rows, h) => IsStored(rows', h)
        BY <2>3 DEF InsertRows, IsStored
    <2>5. IsStored(rows', bs[n].height)
        <3>1. bs[n].height \in Heights /\ n \in Offered(bs, bs[n].height)
            BY <2>1, <2>2 DEF Offered
        <3>2. \A b \in Block : b # NoBlock
            BY DEF Block, NoBlock, Heights, None
        <3>3. \A i \in DOMAIN bs : bs[i] \in Block
            OBVIOUS
        <3> DEFINE i == CHOOSE j \in Offered(bs, bs[n].height) : TRUE
        <3>4. i \in DOMAIN bs
            BY <3>1 DEF Offered
        <3>5. CASE IsStored(rows, bs[n].height)
            BY <2>2, <2>4, <3>5
        <3>6. CASE ~IsStored(rows, bs[n].height)
            <4>1. rows'[bs[n].height] = bs[i]
                BY <2>3, <3>1, <3>6 DEF InsertRows
            <4> HIDE DEF i
            <4> QED
                BY <3>2, <3>3, <3>4, <4>1 DEF IsStored
        <3> QED
            BY <3>5, <3>6
    <2>6. cursor' = bs[n].height \/ (cursor' = cursor /\ cursor # None)
        BY <2>2, <2>3 DEF Larger, IndexerTypeOK, Heights, None
    <2> QED
        BY <2>4, <2>5, <2>6 DEF IndexerTypeOK
<1> QED
    BY <1>1, <1>2

\* On one branch no block contradicts the tip.
LEMMA NoForks ==
    ASSUME FirstBranch, Draining
    PROVE  ~Contradicts(tip, Incoming)
<1>1. Incoming \in Plain
    BY HeldParts DEF FirstBranch, Held, Draining, Incoming
<1>2. tip # NoTip => tip.hash = 0
    BY DEF FirstBranch, Held, TipFrom, TipOf, Plain
<1> QED
    BY <1>1, <1>2 DEF Contradicts, Plain

LEMMA FirstStep == TypeInv /\ FirstInv /\ [Next]_vars => FirstInv'
<1> SUFFICES ASSUME TypeInv, FirstInv, [Next]_vars, branch' = 0 PROVE FirstBranch'
    BY DEF FirstInv
<1>1. NodeTypeOK /\ ReaderTypeOK /\ IndexerTypeOK /\ batch \in Seq(Block)
    BY DEF TypeInv, TypeOK, IndexerTypeOK
<1>2. branch = 0 /\ ~(NodeStep /\ Reorg)
    <2>1. NodeStep /\ Reorg => branch' # 0 /\ branch' = branch + 1
        BY <1>1 DEF Reorg, NodeTypeOK, Hashes
    <2>2. CASE NodeStep
        BY <2>1, <2>2 DEF NodeStep, NodeNext, Mint, Finalize
    <2>3. CASE ~NodeStep
        BY <2>3
        DEF Next, ReaderStep, IndexerStep, Crash, ReaderFails, Restart, vars, nodeVars
    <2> QED
        BY <2>1, <2>2, <2>3
<1>3. FirstBranch
    BY <1>2 DEF FirstInv
<1>4. chain' \in Seq({0})
    <2>1. CASE Mint
        BY <1>2, <1>3, <2>1 DEF Mint, FirstBranch
    <2>2. CASE UNCHANGED chain
        BY <1>3, <2>2 DEF FirstBranch
    <2> QED
        BY <1>2, <2>1, <2>2
        DEF Next, NodeStep, NodeNext, Finalize, ReaderStep, IndexerStep, Crash, ReaderFails,
            Restart, vars, nodeVars
<1>5. Wanted \in Seq(Plain)
    <2> DEFINE bs == BlocksBetween(next, Smaller(network.tip, next + PageSize - 1))
    <2>1. Smaller(network.tip, next + PageSize - 1) \in Int /\ next \in 0 .. MaxHeight + 1
        BY <1>1 DEF ReaderTypeOK, Smaller, Heights, None
    <2>2. bs \in Seq(Block)
        BY <1>1, <2>1, ServedBlocks
    <2>3. ASSUME NEW i \in DOMAIN bs PROVE bs[i] \in Plain
        <3>1. i \in Nat /\ bs[i] \in Block
            <4> HIDE DEF bs
            <4> QED
                BY <2>2
        <3>2. bs[i] = NodeBlock(next + i - 1)
            BY DEF BlocksBetween
        <3>3. /\ NodeBlock(next + i - 1).hash = chain[next + i]
              /\ NodeBlock(next + i - 1).parent = IF next + i - 1 = 0 THEN 0 ELSE chain[next + i - 1]
            BY <2>1, <3>1 DEF NodeBlock
        <3>4. i <= Larger(Smaller(Smaller(network.tip, next + PageSize - 1), NodeTip) - next + 1, 0)
            BY <2>1 DEF BlocksBetween, Larger, Smaller, NodeTip
        <3>5. /\ next + i \in DOMAIN chain
              /\ next + i - 1 # 0 => next + i - 1 \in DOMAIN chain
            <4> DEFINE top == Smaller(network.tip, next + PageSize - 1)
            <4>1. Len(chain) \in Nat /\ DOMAIN chain = 1 .. Len(chain)
                BY <1>1 DEF NodeTypeOK
            <4>2. i >= 1
                <5>1. Len(bs) \in Nat /\ DOMAIN bs = 1 .. Len(bs)
                    <6> HIDE DEF bs
                    <6> QED
                        BY <2>2
                <5> HIDE DEF bs
                <5> QED
                    BY <5>1
            <4>3. top \in Int
                BY <2>1
            <4> HIDE DEF top
            <4>4. Smaller(top, NodeTip) \in Int /\ Smaller(top, NodeTip) <= Len(chain) - 1
                BY <4>1, <4>3 DEF NodeTip, Smaller
            <4>5. i <= Larger(Smaller(top, NodeTip) - next + 1, 0)
                BY <3>4 DEF top
            <4>6. next + i - 1 <= Len(chain) - 1
                <5> DEFINE lim == Smaller(top, NodeTip)
                <5>1. lim \in Int /\ lim <= Len(chain) - 1 /\ i <= Larger(lim - next + 1, 0)
                    BY <4>4, <4>5
                <5> HIDE DEF lim
                <5> QED
                    BY <2>1, <3>1, <4>1, <4>2, <5>1 DEF Larger
            <4> QED
                BY <2>1, <3>1, <4>1, <4>2, <4>6
        <3>6. \A j \in DOMAIN chain : chain[j] = 0
            BY <1>3 DEF FirstBranch
        <3> QED
            BY <3>1, <3>2, <3>3, <3>5, <3>6 DEF Plain
    <2>4. bs \in Seq(Plain)
        <3> HIDE DEF bs
        <3>1. Len(bs) \in Nat /\ DOMAIN bs = 1 .. Len(bs) /\ bs = [i \in 1 .. Len(bs) |-> bs[i]]
            BY <2>2
        <3> QED
            BY <2>3, <3>1
    <2> QED
        BY <2>4 DEF Wanted
<1>6. Held(Plain)'
    BY <1>3, <1>5, HeldStep DEF FirstBranch
<1>7. index' \in {"receive", "drain"} /\ (cursor' # None => IsStored(rows', cursor'))
    <2>1. CASE UNCHANGED <<index, storeVars>>
        BY <1>3, <2>1 DEF FirstBranch, storeVars
    <2>2. CASE ExtendTip \/ TakeGap
        <3>1. Draining /\ Accept(Incoming) /\ Incoming \in Block
            BY <1>1, <2>2, InboxTypes DEF ExtendTip, TakeGap
        <3>2. Append(batch, Incoming) \in Seq(Block)
            BY <1>1, <3>1
        <3>3. CASE UNCHANGED storeVars
            BY <2>1, <3>1, <3>3 DEF Accept
        <3>4. CASE \E o \in Outcomes(Append(batch, Incoming)) : Flush(o, Append(batch, Incoming))
            BY <1>1, <1>3, <3>1, <3>2, <3>4, FlushStored DEF FirstBranch, Accept
        <3> QED
            BY <3>1, <3>3, <3>4 DEF Accept
    <2>3. CASE EndBatch \/ RefuseBelowFinalized(network.finalized)
               \/ RefuseTooDeep(network.finalized)
        <3>1. (\E o \in Outcomes(batch) : Flush(o, batch)) /\ index' \in {index, "receive"}
            BY <2>3 DEF EndBatch, RefuseBelowFinalized, RefuseTooDeep, Refuse
        <3> QED
            BY <1>1, <1>3, <3>1, FlushStored DEF FirstBranch
    <2>4. CASE DetectFork(network.finalized)
        BY <1>3, <2>4, NoForks DEF DetectFork, IsFork
    <2>5. CASE Receive \/ SkipStale \/ RollBack \/ SendRewind
        BY <1>3, <2>1, <2>5 DEF Receive, SkipStale, RollBack, SendRewind, FirstBranch, storeVars
    <2>6. CASE Crash \/ ReaderFails
        BY <1>3, <2>6 DEF Crash, ReaderFails, Restart, IndexerRestart, storeVars, FirstBranch
    <2> QED
        BY <2>1, <2>2, <2>3, <2>4, <2>5, <2>6
        DEF Next, NodeStep, ReaderStep, IndexerStep, IndexerNext, vars, indexerVars, taskVars
<1> QED
    BY <1>4, <1>6, <1>7 DEF FirstBranch

\* While the node does not reorganise the cursor is a stored block, so a process
\* that starts finds its tip, whatever commits failed before it.
THEOREM ResumeAlwaysFound == Spec => []ResumePointStored
<1>1. Init => FirstInv
    <2>1. rows = NoRows => rows \in [Heights -> Plain \cup {NoBlock}]
        BY DEF NoRows
    <2> QED
        BY <2>1
        DEF Init, NodeInit, ReaderInit, LinksInit, IndexerInit, FirstInv, FirstBranch, Held, TipFrom
<1>2. FirstInv => ResumePointStored
    BY DEF FirstInv, FirstBranch, ResumePointStored
<1> QED
    BY <1>1, <1>2, FirstStep, TypeInvariant, PTL DEF Spec

-----------------------------------------------------------------------------
(***************************************************************************)
(* As long as commits land, and up to the first block that is accepted     *)
(* past a gap, the store is the chain ChainIndex promises.                 *)
(*                                                                         *)
(* The invariant follows a block from the node to its row.  What is stored *)
(* is one chain up to the cursor; the batch goes on where it ends and the  *)
(* tip where the batch ends, so a block that extends the tip extends the   *)
(* chain.  The first block is genesis, because a reader without a cursor   *)
(* starts there; and genesis is never rolled back, because every block at  *)
(* height 1 names it, so after a rollback there always is a tip.           *)
(***************************************************************************)
\* A block of the node's tree: nothing comes before the one genesis block.
Rooted == {b \in Block : (b.height = 0 => b.hash = 0) /\ (b.height = 1 => b.parent = 0)}

RootInv == chain[1] = 0 /\ Held(Rooted)

\* The rows are one chain from genesis to the cursor.
RowsChain ==
    \A h \in Heights :
        /\ h <= cursor => rows[h].height = h
        /\ 0 < h /\ h <= cursor => rows[h].parent = rows[h - 1].hash
        /\ h > cursor => rows[h] = NoBlock

\* The batch goes on where the rows end.
Follows(bs) ==
    \A i \in DOMAIN bs :
        /\ bs[i].height = cursor + i
        /\ i = 1 /\ cursor # None => bs[i].parent = rows[cursor].hash
        /\ i > 1 => bs[i].parent = bs[i - 1].hash

\* The tip is where the batch ends.
TipEndsBatch == tip = IF batch = <<>> THEN TipAt(rows, cursor) ELSE TipOf(LastOf(batch))

\* The height of the next block the index task will see.
NextHeight ==
    IF inbox # <<>> THEN inbox[1].height
    ELSE IF blockCh # <<>> THEN blockCh[1].height
    ELSE IF page # <<>> THEN page[1].height
    ELSE next

\* With nothing indexed the node is read from genesis on.
StartsAtGenesis == tip = NoTip => NextHeight = 0 /\ rewindCh = <<>> /\ index # "rewind"

OneChain == RowsChain /\ Follows(batch) /\ TipEndsBatch /\ StartsAtGenesis

\* Nothing is left over between batches, and genesis is never rolled back.
Places ==
    /\ index = "receive" => inbox = <<>> /\ batch = <<>>
    /\ index = "rollback" => tip.height > 0

ChainInv == RootInv /\ Places /\ (gapTaken \/ OneChain)

-----------------------------------------------------------------------------
(***************************************************************************)
(* Every block comes from the node's tree.                                 *)
(***************************************************************************)
LEMMA RootedServed ==
    ASSUME NodeTypeOK, chain[1] = 0, NEW from \in 0 .. MaxHeight + 1, NEW to \in Int
    PROVE  /\ BlocksBetween(from, to) \in Seq(Rooted)
           /\ BlocksBetween(from, to) # <<>> => BlocksBetween(from, to)[1].height = from
<1> DEFINE bs == BlocksBetween(from, to)
<1>1. bs \in Seq(Block) /\ Len(bs) \in Nat
    <2>1. bs \in Seq(Block)
        BY ServedBlocks
    <2> HIDE DEF bs
    <2> QED
        BY <2>1
<1>2. ASSUME NEW i \in DOMAIN bs
      PROVE  bs[i] = NodeBlock(from + i - 1) /\ bs[i] \in Rooted
    <2>1. bs[i] = NodeBlock(from + i - 1) /\ i \in Int
        BY <1>1, <1>2 DEF BlocksBetween
    <2>2. bs[i] \in Block
        BY <1>1, <1>2
    <2> QED
        BY <2>1, <2>2 DEF NodeBlock, Rooted
<1>3. bs \in Seq(Rooted)
    <2> DEFINE n == Larger(Smaller(to, NodeTip) - from + 1, 0)
    <2>1. n \in Nat
        BY DEF NodeTypeOK, NodeTip, Larger, Smaller
    <2>2. bs = [i \in 1 .. n |-> NodeBlock(from + i - 1)]
        BY DEF BlocksBetween
    <2>3. \A i \in 1 .. n : NodeBlock(from + i - 1) \in Rooted
        BY <1>2, <2>1, <2>2
    <2> QED
        BY <2>1, <2>2, <2>3
<1>4. ASSUME bs # <<>>
      PROVE  bs[1].height = from
    <2>1. 1 \in DOMAIN bs
        BY <1>1, <1>4
    <2> QED
        BY <1>2, <2>1 DEF NodeBlock
<1> QED
    BY <1>3, <1>4

\* The genesis block stays the first, and every block one of the tree.
LEMMA RootStep == TypeInv /\ RootInv /\ [Next]_vars => RootInv'
<1> SUFFICES ASSUME TypeInv, RootInv, [Next]_vars PROVE RootInv'
    OBVIOUS
<1>1. NodeTypeOK /\ ReaderTypeOK
    BY DEF TypeInv, TypeOK
<1>2. chain'[1] = chain[1]
    <2>1. chain \in Seq(Hashes) /\ Len(chain) >= 1
        BY <1>1 DEF NodeTypeOK
    <2>2. CASE UNCHANGED chain \/ Mint
        BY <2>1, <2>2 DEF Mint
    <2>3. CASE Reorg
        <3>1. PICK d \in 0 .. NodeTip - 1 : chain' = SubSeq(chain, 1, d + 1)
            BY <2>3 DEF Reorg
        <3>2. d + 1 \in 1 .. Len(chain)
            BY <2>1, <3>1 DEF NodeTip
        <3> QED
            BY <2>1, <3>1, <3>2
    <2> QED
        BY <2>2, <2>3
        DEF Next, NodeStep, NodeNext, Finalize, ReaderStep, IndexerStep, Crash, ReaderFails,
            Restart, vars, nodeVars
<1>3. Wanted \in Seq(Rooted)
    <2>1. Smaller(network.tip, next + PageSize - 1) \in Int
        BY <1>1 DEF ReaderTypeOK, Smaller, Heights, None
    <2> QED
        BY <1>1, <2>1, RootedServed DEF Wanted, ReaderTypeOK, RootInv
<1>4. Held(Rooted)'
    BY <1>3, HeldStep DEF RootInv
<1> QED
    BY <1>2, <1>4 DEF RootInv

-----------------------------------------------------------------------------
(***************************************************************************)
(* The store is one chain.                                                 *)
(***************************************************************************)

\* A batch that follows the rows and lands makes the chain longer.
LEMMA FlushGrows ==
    ASSUME IndexerTypeOK, RowsChain, NEW bs \in Seq(Block), bs # <<>>, Follows(bs),
           Flush("landed", bs)
    PROVE  /\ RowsChain'
           /\ TipAt(rows', cursor') = TipOf(LastOf(bs))
           /\ CI!Grow
<1> DEFINE n == Len(bs)
<1>1. /\ n \in Nat \ {0} /\ DOMAIN bs = 1 .. n
      /\ \A i \in 1 .. n : bs[i] \in Block /\ bs[i].height = cursor + i
    BY DEF Follows
<1>2. cursor \in Int /\ cursor >= -1
    BY DEF IndexerTypeOK, Heights, None
<1>3. cursor' = cursor + n /\ cursor' \in Heights
    <2>1. cursor' = Larger(cursor, bs[n].height)
        BY DEF Flush, CursorAfter, InsertCursor
    <2>2. bs[n].height = cursor + n /\ bs[n].height \in Heights
        BY <1>1 DEF Block
    <2> QED
        BY <1>1, <1>2, <2>1, <2>2 DEF Larger
<1>4. rows' = InsertRows(rows, bs)
    BY DEF Flush, RowsAfter
<1>5. ASSUME NEW h \in Heights, h <= cursor \/ h > cursor'
      PROVE  rows'[h] = rows[h]
    <2>1. CASE h <= cursor
        <3>1. rows[h].height = h
            BY <2>1 DEF RowsChain
        <3>2. IsStored(rows, h)
            BY <3>1 DEF IsStored, NoBlock, None, Heights
        <3> QED
            BY <1>4, <3>2 DEF InsertRows
    <2>2. CASE h > cursor'
        <3>1. Offered(bs, h) = {}
            BY <1>1, <1>2, <1>3, <2>2 DEF Offered, Heights
        <3> QED
            BY <1>4, <3>1 DEF InsertRows
    <2> QED
        BY <1>5, <2>1, <2>2
<1>6. ASSUME NEW h \in Heights, cursor < h, h <= cursor'
      PROVE  rows'[h] = bs[h - cursor] /\ h - cursor \in 1 .. n
    <2>1. h - cursor \in 1 .. n
        BY <1>2, <1>3, <1>6 DEF Heights
    <2>2. Offered(bs, h) = {h - cursor}
        <3>1. \A i \in 1 .. n : bs[i].height = h <=> i = h - cursor
            <4> SUFFICES ASSUME NEW i \in 1 .. n
                         PROVE  bs[i].height = h <=> i = h - cursor
                OBVIOUS
            <4>1. bs[i].height = cursor + i /\ i \in Int /\ h \in Int
                BY <1>1 DEF Heights
            <4> QED
                BY <1>2, <4>1
        <3>2. Offered(bs, h) = {i \in 1 .. n : bs[i].height = h}
            BY <1>1 DEF Offered
        <3> HIDE DEF n
        <3> QED
            BY <2>1, <3>1, <3>2
    <2>3. rows[h] = NoBlock
        BY <1>2, <1>6 DEF RowsChain, Heights
    <2>4. rows'[h] = bs[CHOOSE i \in {h - cursor} : TRUE]
        BY <1>4, <2>2, <2>3 DEF InsertRows, IsStored
    <2> QED
        BY <2>1, <2>4
<1>7. ASSUME NEW h \in Heights, cursor < h, h <= cursor'
      PROVE  /\ rows'[h].height = h
             /\ h > 0 => rows'[h].parent = rows'[h - 1].hash
    <2> DEFINE i == h - cursor
    <2>1. rows'[h] = bs[i] /\ i \in 1 .. n
        BY <1>6, <1>7
    <2>2. rows'[h].height = h
        BY <1>1, <1>2, <2>1 DEF Heights
    <2>3. CASE i = 1
        <3>1. h > 0 => cursor # None /\ h - 1 = cursor /\ h - 1 \in Heights
            BY <1>2, <2>3 DEF Heights, None
        <3>2. h > 0 => rows'[h - 1] = rows[cursor]
            BY <1>2, <1>5, <3>1
        <3>3. cursor # None => bs[i].parent = rows[cursor].hash
            BY <1>1, <2>1, <2>3 DEF Follows
        <3> QED
            BY <2>1, <2>2, <3>1, <3>2, <3>3
    <2>4. CASE i > 1
        <3>1. h - 1 \in Heights /\ cursor < h - 1 /\ h - 1 <= cursor' /\ (h - 1) - cursor = i - 1
            BY <1>2, <1>3, <1>7, <2>4 DEF Heights
        <3>2. rows'[h - 1] = bs[i - 1]
            BY <1>6, <3>1
        <3>3. bs[i].parent = bs[i - 1].hash
            BY <1>1, <2>1, <2>4 DEF Follows
        <3> QED
            BY <2>1, <2>2, <3>2, <3>3
    <2> QED
        BY <1>2, <2>1, <2>3, <2>4
<1>8. RowsChain'
    <2> SUFFICES ASSUME NEW h \in Heights
                 PROVE  /\ h <= cursor' => rows'[h].height = h
                        /\ 0 < h /\ h <= cursor' => rows'[h].parent = rows'[h - 1].hash
                        /\ h > cursor' => rows'[h] = NoBlock
        BY DEF RowsChain
    <2>1. CASE h <= cursor
        <3>1. 0 < h => h - 1 \in Heights /\ h - 1 <= cursor
            BY <1>2, <2>1 DEF Heights
        <3> QED
            BY <1>1, <1>2, <1>3, <1>5, <2>1, <3>1 DEF RowsChain, Heights
    <2>2. CASE cursor < h /\ h <= cursor'
        BY <1>2, <1>3, <1>7, <2>2 DEF Heights
    <2>3. CASE h > cursor'
        BY <1>1, <1>2, <1>3, <1>5, <2>3 DEF RowsChain, Heights
    <2> QED
        BY <1>2, <1>3, <2>1, <2>2, <2>3 DEF Heights
<1>9. TipAt(rows', cursor') = TipOf(LastOf(bs))
    <2>1. rows'[cursor'] = bs[n]
        BY <1>1, <1>2, <1>3, <1>6
    <2>2. IsStored(rows', cursor')
        BY <1>1, <1>3, <2>1 DEF IsStored, Block, NoBlock, None, Heights
    <2> QED
        BY <1>3, <2>1, <2>2 DEF TipAt, LastOf
<1>10. CI!Grow
    <2>1. cursor' \in CI!Heights /\ cursor' > cursor
        BY <1>1, <1>2, <1>3 DEF CI!Heights, Heights
    <2>2. \A h \in CI!Heights : h <= cursor \/ h > cursor' => rows'[h] = rows[h]
        BY <1>5 DEF CI!Heights, Heights
    <2>3. \A h \in CI!Heights :
            cursor < h /\ h <= cursor' =>
                rows'[h].height = h /\ (h > 0 => rows'[h].parent = rows'[h - 1].hash)
        BY <1>7 DEF CI!Heights, Heights
    <2> QED
        BY <2>1, <2>2, <2>3 DEF CI!Grow
<1> QED
    BY <1>8, <1>9, <1>10

\* The loop's place and what it holds stay in agreement in every step.
LEMMA PlacesStep == TypeInv /\ RootInv /\ Places /\ [Next]_vars => Places'
<1> SUFFICES ASSUME TypeInv, RootInv, Places, [Next]_vars PROVE Places'
    OBVIOUS
<1>1. CASE UNCHANGED <<index, inbox, tip, batch>>
    BY <1>1 DEF Places
<1>2. CASE IndexerStep
    <2>1. CASE DetectFork(network.finalized)
        <3>1. tip \in Tip /\ Contradicts(tip, Incoming) /\ inbox # <<>>
            BY <2>1 DEF DetectFork, IsFork, Contradicts, Draining, TypeInv, TypeOK, IndexerTypeOK
        <3>2. Incoming \in Rooted
            BY <3>1, HeldParts DEF RootInv, Held, Incoming
        <3>3. tip.height # 0
            BY <3>1, <3>2 DEF Contradicts, RootInv, Held, TipFrom, TipOf, Rooted, NoTip
        <3> QED
            BY <2>1, <3>1, <3>3 DEF DetectFork, Places, Tip, Heights
    <2>2. CASE EndBatch
        BY <2>2 DEF EndBatch, Places
    <2>3. CASE ~DetectFork(network.finalized) /\ ~EndBatch
        <3>1. index' \in {"drain", "rewind"}
            BY <1>2, <2>3
            DEF IndexerStep, IndexerNext, Receive, SkipStale, ExtendTip, TakeGap, Accept, Draining,
                RollBack, SendRewind, RefuseBelowFinalized, RefuseTooDeep, Refuse
        <3> QED
            BY <3>1 DEF Places
    <2> QED
        BY <2>1, <2>2, <2>3
<1>3. CASE Crash \/ ReaderFails
    BY <1>3 DEF Crash, ReaderFails, Restart, IndexerRestart, Places
<1> QED
    BY <1>1, <1>2, <1>3 DEF Next, NodeStep, ReaderStep, vars, indexerVars, taskVars

\* What the reader does leaves the next height where it is while nothing is indexed.
LEMMA OneChainReader ==
    ASSUME TypeInv, RootInv, OneChain, ReaderStep
    PROVE  OneChain'
<1>1. UNCHANGED <<index, tip, inbox, batch, rows, cursor>>
    BY DEF ReaderStep, indexerVars, taskVars, storeVars
<1>2. RowsChain' /\ Follows(batch)' /\ TipEndsBatch'
    BY <1>1 DEF OneChain, RowsChain, Follows, TipEndsBatch
<1>3. SUFFICES ASSUME tip = NoTip
               PROVE  NextHeight' = 0 /\ rewindCh' = <<>> /\ index' # "rewind"
    BY <1>1, <1>2 DEF OneChain, StartsAtGenesis
<1>4. NextHeight = 0 /\ rewindCh = <<>> /\ index # "rewind"
    BY <1>3 DEF OneChain, StartsAtGenesis
<1>5. CASE TakeRewinds \/ PollStatus
    BY <1>1, <1>4, <1>5 DEF TakeRewinds, PollStatus, linkVars, NextHeight
<1>6. CASE FetchPage
    <2>1. Smaller(network.tip, next + PageSize - 1) \in Int
        BY DEF TypeInv, TypeOK, ReaderTypeOK, Smaller, Heights, None
    <2>2. page' # <<>> /\ page'[1].height = next
        BY <1>6, <2>1, RootedServed
        DEF FetchPage, Wanted, RootInv, Held, TypeInv, TypeOK, ReaderTypeOK
    <2>3. page = <<>>
        BY <1>6 DEF FetchPage, TypeInv, TypeOK, ReaderTypeOK
    <2> QED
        BY <1>1, <1>4, <1>6, <2>2, <2>3 DEF FetchPage, linkVars, NextHeight
<1>7. CASE RequestFails
    BY <1>1, <1>4, <1>7 DEF RequestFails, linkVars, NextHeight
<1>8. CASE SendBlock
    <2>1. page # <<>> /\ blockCh \in Seq(Rooted) /\ page \in Seq(Rooted)
        BY <1>8 DEF SendBlock, RootInv, Held, TypeInv, TypeOK, ReaderTypeOK
    <2>2. Head(page) = page[1]
        BY <2>1, HeldParts
    <2>3. blockCh' # <<>> /\ blockCh'[1] = IF blockCh = <<>> THEN page[1] ELSE blockCh[1]
        BY <1>8, <2>1, <2>2 DEF SendBlock
    <2> QED
        BY <1>1, <1>4, <1>8, <2>1, <2>3 DEF SendBlock, NextHeight
<1> QED
    BY <1>5, <1>6, <1>7, <1>8 DEF ReaderStep, ReaderNext

\* What the tip says of the store and of the batch.
LEMMA TipKnows ==
    ASSUME TypeInv, OneChain
    PROVE  /\ batch = <<>> /\ tip = NoTip => cursor = None
           /\ batch = <<>> /\ tip # NoTip =>
                cursor \in Heights /\ tip = TipOf(rows[cursor]) /\ tip.height = cursor
           /\ batch # <<>> =>
                /\ tip # NoTip /\ tip = TipOf(LastOf(batch))
                /\ tip.height = cursor + Len(batch)
<1> USE DEF OneChain
<1>1. cursor \in Heights \cup {None} /\ batch \in Seq(Block)
    BY DEF TypeInv, TypeOK, IndexerTypeOK
<1>2. ASSUME batch = <<>>
      PROVE  /\ tip = NoTip => cursor = None
             /\ tip # NoTip =>
                    cursor \in Heights /\ tip = TipOf(rows[cursor]) /\ tip.height = cursor
    <2>1. tip = TipAt(rows, cursor)
        BY <1>2 DEF TipEndsBatch
    <2>2. CASE cursor \in Heights
        <3>1. rows[cursor].height = cursor
            BY <2>2 DEF RowsChain, Heights
        <3>2. IsStored(rows, cursor)
            BY <2>2, <3>1 DEF IsStored, NoBlock, None, Heights
        <3> QED
            BY <2>1, <2>2, <3>1, <3>2 DEF TipAt, TipOf, NoTip, None, Heights
    <2>3. CASE cursor = None
        BY <2>1, <2>3 DEF TipAt, None, Heights
    <2> QED
        BY <1>1, <2>2, <2>3
<1>3. ASSUME batch # <<>>
      PROVE  /\ tip # NoTip /\ tip = TipOf(LastOf(batch))
             /\ tip.height = cursor + Len(batch)
    <2>1. tip = TipOf(LastOf(batch))
        BY <1>3 DEF TipEndsBatch
    <2>2. Len(batch) \in DOMAIN batch /\ LastOf(batch) \in Block
        BY <1>1, <1>3 DEF LastOf
    <2>3. LastOf(batch).height = cursor + Len(batch)
        BY <2>2 DEF Follows, LastOf
    <2> QED
        BY <2>1, <2>2, <2>3 DEF TipOf, NoTip, None, Block, Heights
<1> QED
    BY <1>2, <1>3

\* A block that extends the tip extends the batch.
LEMMA ExtendFollows ==
    ASSUME TypeInv, RootInv, OneChain, Draining, Extends(tip, Incoming)
    PROVE  Follows(Append(batch, Incoming))
<1> DEFINE bs == Append(batch, Incoming)
           n  == Len(batch)
<1>1. /\ batch \in Seq(Block) /\ Incoming \in Block /\ inbox # <<>>
      /\ cursor \in Int /\ cursor >= -1
    BY InboxTypes DEF TypeInv, TypeOK, IndexerTypeOK, Draining, Heights, None
<1>2. /\ n \in Nat /\ DOMAIN bs = 1 .. n + 1 /\ bs[n + 1] = Incoming
      /\ \A i \in 1 .. n : bs[i] = batch[i] /\ i \in DOMAIN batch
    BY <1>1
<1>3. Incoming.height = cursor + n + 1
    <2>1. CASE tip = NoTip
        <3>1. batch = <<>> /\ cursor = None
            BY <2>1, TipKnows
        <3>2. Incoming.height = 0
            BY <1>1, <2>1, HeldParts DEF OneChain, StartsAtGenesis, NextHeight, Incoming, RootInv, Held
        <3> QED
            BY <3>1, <3>2 DEF None
    <2>2. CASE tip # NoTip
        <3>1. Incoming.height = tip.height + 1
            BY <2>2 DEF Extends
        <3>2. tip.height = cursor + n
            BY <1>1, <2>2, TipKnows
        <3> QED
            BY <3>1, <3>2
    <2> QED
        BY <2>1, <2>2
<1>4. n = 0 /\ cursor # None => Incoming.parent = rows[cursor].hash
    <2> SUFFICES ASSUME n = 0, cursor # None PROVE Incoming.parent = rows[cursor].hash
        OBVIOUS
    <2>1. batch = <<>> /\ tip # NoTip
        BY <1>1, TipKnows
    <2> QED
        BY <2>1, TipKnows DEF Extends, TipOf
<1>5. n > 0 => Incoming.parent = batch[n].hash
    <2> SUFFICES ASSUME n > 0 PROVE Incoming.parent = batch[n].hash
        OBVIOUS
    <2>1. batch # <<>>
        OBVIOUS
    <2> QED
        BY <2>1, TipKnows DEF Extends, TipOf, LastOf
<1>6. Follows(batch)
    BY DEF OneChain
<1> HIDE DEF n, bs
<1> SUFFICES ASSUME NEW i \in 1 .. n + 1
             PROVE  /\ bs[i].height = cursor + i
                    /\ i = 1 /\ cursor # None => bs[i].parent = rows[cursor].hash
                    /\ i > 1 => bs[i].parent = bs[i - 1].hash
    BY <1>2 DEF Follows, bs
<1>7. CASE i = n + 1
    <2>1. i > 1 => bs[i - 1] = batch[n]
        BY <1>2, <1>7
    <2> QED
        BY <1>1, <1>2, <1>3, <1>4, <1>5, <1>7, <2>1
<1>8. CASE i \in 1 .. n
    <2>1. i > 1 => i - 1 \in 1 .. n
        BY <1>2, <1>8
    <2> QED
        BY <1>2, <1>6, <1>8, <2>1 DEF Follows
<1> QED
    BY <1>2, <1>7, <1>8

\* Committing the batch leaves one chain that ends at the tip.
LEMMA FlushKeepsChain ==
    ASSUME MaxFailures = 0, TypeInv, OneChain, NEW o \in Outcomes(batch), Flush(o, batch)
    PROVE  /\ o = "landed"
           /\ RowsChain' /\ tip = TipAt(rows', cursor')
           /\ CI!Next \/ UNCHANGED storeVars
<1>1. IndexerTypeOK /\ batch \in Seq(Block)
    BY DEF TypeInv, TypeOK, IndexerTypeOK
<1>2. o = "landed"
    BY <1>1 DEF Outcomes, IndexerTypeOK
<1>3. CASE batch = <<>>
    <2>1. \A h \in Heights : Offered(batch, h) = {}
        BY <1>3 DEF Offered
    <2>2. InsertRows(rows, batch) = rows
        BY <1>1, <2>1 DEF InsertRows, IndexerTypeOK
    <2>3. rows' = rows /\ cursor' = cursor
        BY <1>2, <1>3, <2>2 DEF Flush, RowsAfter, CursorAfter, InsertCursor
    <2> QED
        BY <1>2, <1>3, <2>3 DEF OneChain, RowsChain, TipEndsBatch, storeVars
<1>4. CASE batch # <<>>
    <2>1. RowsChain' /\ TipAt(rows', cursor') = TipOf(LastOf(batch)) /\ CI!Grow
        BY <1>1, <1>2, <1>4, FlushGrows DEF OneChain
    <2> QED
        BY <1>2, <1>4, <2>1 DEF OneChain, TipEndsBatch, CI!Next
<1> QED
    BY <1>3, <1>4

\* The index task keeps one chain and only takes steps ChainIndex allows.
LEMMA OneChainIndexer ==
    ASSUME MaxFailures = 0, TypeInv, ChainInv, OneChain, IndexerStep, ~gapTaken'
    PROVE  OneChain' /\ (CI!Next \/ UNCHANGED storeVars)
<1>1. IndexerTypeOK /\ RollbackReady /\ RootInv /\ Places
    BY DEF TypeInv, TypeOK, ChainInv
<1>2. UNCHANGED <<page, next>>
    BY DEF IndexerStep, readerVars
<1>3. CASE Receive
    <2> DEFINE n == Smaller(Len(blockCh), BatchSize)
    <2>1. blockCh # <<>> /\ blockCh \in Seq(Rooted) /\ n \in 1 .. Len(blockCh)
        BY <1>1, <1>3 DEF Receive, RootInv, Held, Smaller
    <2>2. inbox = <<>> /\ inbox' # <<>> /\ inbox'[1] = blockCh[1]
        BY <1>1, <1>3, <2>1, HeldParts DEF Receive, Places
    <2>3. UNCHANGED <<tip, batch, rows, cursor, rewindCh>> /\ index' = "drain"
        BY <1>3 DEF Receive, storeVars
    <2> QED
        BY <2>1, <2>2, <2>3
        DEF OneChain, RowsChain, Follows, TipEndsBatch, StartsAtGenesis, NextHeight, storeVars
<1>4. CASE SkipStale \/ SendRewind
    <2>1. UNCHANGED <<tip, batch, rows, cursor>> /\ tip # NoTip
        BY <1>4 DEF SkipStale, IsStale, SendRewind, storeVars, OneChain, StartsAtGenesis
    <2> QED
        BY <2>1 DEF OneChain, RowsChain, Follows, TipEndsBatch, StartsAtGenesis, storeVars
<1>5. CASE ExtendTip
    <2> DEFINE bs == Append(batch, Incoming)
    <2>1. Draining /\ Extends(tip, Incoming) /\ Accept(Incoming)
        BY <1>5 DEF ExtendTip
    <2>2. Incoming \in Block /\ bs \in Seq(Block) /\ bs # <<>> /\ LastOf(bs) = Incoming
        BY <1>1, <2>1, InboxTypes DEF IndexerTypeOK, LastOf
    <2>3. Follows(bs)
        BY <1>1, <2>1, ExtendFollows
    <2>4. tip' = TipOf(LastOf(bs)) /\ tip' # NoTip
        BY <2>1, <2>2 DEF Accept, TipOf, NoTip, None, Block, Heights
    <2>5. CASE batch' = bs /\ UNCHANGED storeVars
        BY <2>2, <2>3, <2>4, <2>5
        DEF OneChain, RowsChain, Follows, TipEndsBatch, StartsAtGenesis, storeVars, LastOf
    <2>6. CASE batch' = <<>> /\ \E o \in Outcomes(bs) : Flush(o, bs)
        <3>1. Flush("landed", bs)
            BY <1>1, <2>6 DEF Outcomes, IndexerTypeOK
        <3> HIDE DEF bs
        <3>2. RowsChain' /\ TipAt(rows', cursor') = TipOf(LastOf(bs)) /\ CI!Grow
            BY <1>1, <2>2, <2>3, <3>1, FlushGrows DEF OneChain
        <3> QED
            BY <2>4, <2>6, <3>2
            DEF OneChain, Follows, TipEndsBatch, StartsAtGenesis, CI!Next
    <2> QED
        BY <2>1, <2>5, <2>6 DEF Accept
<1>6. CASE DetectFork(network.finalized) \/ RefuseBelowFinalized(network.finalized)
           \/ RefuseTooDeep(network.finalized)
    <2>1. /\ tip # NoTip /\ tip' = tip /\ batch' = <<>>
          /\ \E o \in Outcomes(batch) : Flush(o, batch)
        BY <1>6
        DEF DetectFork, RefuseBelowFinalized, RefuseTooDeep, Refuse, IsFork,
            IsForkBelowFinalized, IsForkTooDeep, Contradicts
    <2>2. RowsChain' /\ tip = TipAt(rows', cursor') /\ (CI!Next \/ UNCHANGED storeVars)
        BY <2>1, FlushKeepsChain
    <2> QED
        BY <2>1, <2>2 DEF OneChain, Follows, TipEndsBatch, StartsAtGenesis
<1>7. CASE RollBack
    <2> DEFINE r == RollbackHeight(tip)
    <2>1. batch = <<>> /\ tip # NoTip /\ tip.height > 0 /\ index = "rollback"
        BY <1>1, <1>7 DEF RollBack, RollbackReady, Places
    <2>2. cursor \in Heights /\ tip.height = cursor
        BY <2>1, TipKnows
    <2>3. r = cursor - 1 /\ r \in Heights /\ r < cursor
        BY <2>1, <2>2 DEF RollbackHeight, Heights
    <2>4. cursor' = r /\ rows' = RollbackRows(rows, r) /\ batch' = <<>>
        BY <1>7, <2>1, <2>3 DEF RollBack, RollbackCursor, Heights
    <2>5. \A h \in Heights : rows'[h] = IF h > r THEN NoBlock ELSE rows[h]
        BY <2>4 DEF RollbackRows
    <2>6. RowsChain'
        <3> SUFFICES ASSUME NEW h \in Heights
                     PROVE  /\ h <= r => rows'[h].height = h
                            /\ 0 < h /\ h <= r => rows'[h].parent = rows'[h - 1].hash
                            /\ h > r => rows'[h] = NoBlock
            BY <2>4 DEF RowsChain
        <3>1. h <= r => h <= cursor
            BY <2>2, <2>3 DEF Heights
        <3>2. 0 < h /\ h <= r => h - 1 \in Heights /\ ~(h - 1 > r)
            BY <2>3 DEF Heights
        <3>3. h <= r => ~(h > r)
            BY <2>3 DEF Heights
        <3> QED
            BY <2>5, <3>1, <3>2, <3>3 DEF OneChain, RowsChain
    <2>7. tip' = TipAt(rows', cursor') /\ tip' # NoTip
        <3>1. tip' = TipAt(rows', r)
            BY <1>7 DEF RollBack
        <3>2. rows'[r].height = r
            BY <2>3, <2>4, <2>6 DEF RowsChain, Heights
        <3>3. IsStored(rows', r)
            BY <2>3, <3>2 DEF IsStored, NoBlock, None, Heights
        <3> QED
            BY <2>3, <2>4, <3>1, <3>2, <3>3 DEF TipAt, TipOf, NoTip, None, Heights
    <2>8. CI!Retract
        BY <2>2, <2>3, <2>4
        DEF CI!Retract, CI!Heights, CI!NoBlock, CI!None, RollbackRows, Heights, NoBlock, None
    <2> QED
        BY <2>4, <2>6, <2>7, <2>8
        DEF OneChain, Follows, TipEndsBatch, StartsAtGenesis, CI!Next
<1>8. CASE EndBatch
    <2>1. PICK o \in Outcomes(batch) : Flush(o, batch) /\ (o = "landed" => tip' = tip)
        BY <1>8 DEF EndBatch
    <2>2. o = "landed" /\ RowsChain' /\ tip = TipAt(rows', cursor') /\ (CI!Next \/ UNCHANGED storeVars)
        BY <2>1, FlushKeepsChain
    <2>3. batch' = <<>> /\ index' = "receive" /\ UNCHANGED <<inbox, linkVars>>
        BY <1>8 DEF EndBatch
    <2> QED
        BY <1>2, <2>1, <2>2, <2>3
        DEF OneChain, Follows, TipEndsBatch, StartsAtGenesis, NextHeight, linkVars
<1>9. CASE TakeGap
    BY <1>9 DEF TakeGap
<1> QED
    BY <1>3, <1>4, <1>5, <1>6, <1>7, <1>8, <1>9 DEF IndexerStep, IndexerNext

\* One chain is kept, and every step of the store is one ChainIndex allows.
LEMMA ChainStep ==
    ASSUME MaxFailures = 0, TypeInv, ChainInv, [Next]_vars
    PROVE  ChainInv' /\ [gapTaken' \/ CI!Next]_storeVars
<1>1. RootInv' /\ Places'
    BY RootStep, PlacesStep DEF ChainInv
<1>2. SUFFICES ASSUME ~gapTaken'
               PROVE  OneChain' /\ (CI!Next \/ UNCHANGED storeVars)
    BY <1>1 DEF ChainInv
<1>3. ~gapTaken
    BY <1>2
    DEF Next, NodeStep, ReaderStep, IndexerStep, IndexerNext, Receive, SkipStale, ExtendTip,
        TakeGap, DetectFork, RollBack, SendRewind, RefuseBelowFinalized, RefuseTooDeep, Refuse,
        EndBatch, Crash, ReaderFails, Restart, IndexerRestart, vars, indexerVars
<1>4. OneChain
    BY <1>3 DEF ChainInv
<1>5. CASE UNCHANGED <<page, next, linkVars, taskVars, storeVars>>
    BY <1>4, <1>5
    DEF OneChain, RowsChain, Follows, TipEndsBatch, StartsAtGenesis, NextHeight, linkVars,
        taskVars, storeVars
<1>6. CASE ReaderStep
    BY <1>4, <1>6, OneChainReader DEF ReaderStep, ChainInv, indexerVars
<1>7. CASE IndexerStep
    BY <1>2, <1>4, <1>7, OneChainIndexer
<1>8. CASE Crash \/ ReaderFails
    <2>1. /\ UNCHANGED <<rows, cursor>> /\ tip' = TipAt(rows, cursor)
          /\ index' = "receive" /\ inbox' = <<>> /\ batch' = <<>>
          /\ blockCh' = <<>> /\ rewindCh' = <<>> /\ page' = <<>> /\ next' = cursor + 1
        BY <1>8 DEF Crash, ReaderFails, Restart, ReaderRestart, IndexerRestart, storeVars
    <2>2. tip' = NoTip => cursor = None
        <3> SUFFICES ASSUME tip' = NoTip, cursor \in Heights PROVE FALSE
            BY DEF TypeInv, TypeOK, IndexerTypeOK
        <3>1. rows[cursor].height = cursor
            BY <1>4 DEF OneChain, RowsChain, Heights
        <3> QED
            BY <2>1, <3>1 DEF TipAt, TipOf, IsStored, NoTip, NoBlock, None, Heights
    <2> QED
        BY <1>4, <2>1, <2>2
        DEF OneChain, RowsChain, Follows, TipEndsBatch, StartsAtGenesis, NextHeight, storeVars,
            None
<1> QED
    BY <1>5, <1>6, <1>7, <1>8
    DEF Next, NodeStep, vars, readerVars, indexerVars

\* A chain that is added for the first time has an empty store and one chain.
LEMMA ChainInit == Init => ChainInv /\ CI!Init
<1> SUFFICES ASSUME Init PROVE ChainInv /\ CI!Init
    OBVIOUS
<1>1. RootInv /\ Places
    <2>1. rows \in [Heights -> Rooted \cup {NoBlock}]
        BY DEF Init, IndexerInit, NoRows
    <2> QED
        BY <2>1
        DEF Init, NodeInit, ReaderInit, LinksInit, IndexerInit, RootInv, Held, TipFrom,
            Places
<1>2. OneChain
    BY DEF Init, ReaderInit, LinksInit, IndexerInit, OneChain, RowsChain, Follows, TipEndsBatch,
        StartsAtGenesis, NextHeight, TipAt, NoRows, Heights, None
<1>3. CI!Init
    BY DEF Init, IndexerInit, NoRows, CI!Init, CI!Empty, CI!Heights, CI!NoBlock, CI!None, Heights,
        NoBlock, None
<1> QED
    BY <1>1, <1>2, <1>3 DEF ChainInv

\* As long as commits land, the pipeline implements ChainIndex up to the first
\* gap it accepts, through forks, refusals and restarts at any point.
THEOREM ImplementsChainIndex ==
    ASSUME MaxFailures = 0
    PROVE  Spec => KeepsChainIndex
<1>1. TypeInv /\ ChainInv /\ [Next]_vars => ChainInv' /\ [gapTaken' \/ CI!Next]_storeVars
    BY ChainStep
<1> QED
    BY <1>1, ChainInit, TypeInvariant, PTL DEF Spec, KeepsChainIndex

\* As long as commits land, no row is stored next to one it is not linked to,
\* up to the first gap that is accepted.
THEOREM RowsLinked ==
    ASSUME MaxFailures = 0
    PROVE  Spec => []LinkedBeforeGap
<1>1. TypeInv /\ ChainInv /\ [Next]_vars => ChainInv'
    BY ChainStep
<1>2. TypeInv /\ ChainInv => LinkedBeforeGap
    <2> SUFFICES ASSUME OneChain, TypeInv, NEW h \in Heights \ {0}, IsStored(rows, h)
                 PROVE  rows[h].parent = rows[h - 1].hash
        BY DEF ChainInv, LinkedBeforeGap, NeighboursLinked
    <2>1. cursor \in Int /\ h \in Int /\ h > 0
        BY DEF TypeInv, TypeOK, IndexerTypeOK, Heights, None
    <2> QED
        BY <2>1 DEF OneChain, RowsChain, IsStored
<1> QED
    BY <1>1, <1>2, ChainInit, TypeInvariant, PTL DEF Spec

\* As long as commits land, the tip in memory is the block at the cursor between
\* batches, up to the first gap that is accepted, through forks and restarts.
THEOREM TipAlwaysFollows ==
    ASSUME MaxFailures = 0
    PROVE  Spec => []TipFollowsStore
<1>1. TypeInv /\ ChainInv /\ [Next]_vars => ChainInv'
    BY ChainStep
<1>2. ChainInv => TipFollowsStore
    BY DEF ChainInv, OneChain, TipEndsBatch, TipFollowsStore, Places
<1> QED
    BY <1>1, <1>2, ChainInit, TypeInvariant, PTL DEF Spec
=============================================================================
