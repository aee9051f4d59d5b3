---------------------------- MODULE StreamProofs ----------------------------
(***************************************************************************)
(* Theorems about BlockStream: its types, that the handoff from replay to  *)
(* live is exact, and that a drained stream has sent what it owes.         *)
(***************************************************************************)
EXTENDS BlockStream, WriterProofs

USE BlocksAssumption, WriterAssumption, StreamAssumption

\* The last height that was broadcast, or never will be.
Told == cursor - Len(pending)

\* What is to be broadcast are the rows at the top.
PendingIsTop ==
    /\ Told >= None
    /\ \A i \in DOMAIN pending : pending[i] = rows[Told + i]

\* What a connection has in each of its phases.
PhasesKept ==
    /\ stream = "closed" => Closed
    /\ stream = "opening" => from # None /\ ceiling = None /\ sent = <<>>
    /\ stream = "replay" => from # None
    /\ stream # "replay" => page = <<>>
    /\ from = None => ceiling = None
    /\ lagged => live = <<>>

TypeInv == TypeOK /\ RowsToCursor /\ PendingIsTop /\ PhasesKept

-----------------------------------------------------------------------------
(***************************************************************************)
(* The steps of the index task, and types.                                 *)
(***************************************************************************)
Committing == Commit \/ CommitUnanswered

LEMMA TypeInvWriter == TypeInv => WriterInv
BY DEF TypeInv, TypeOK, WriterInv

\* A commit adds rows at the top; what is below stays.  If it is answered the new
\* ones are what is to be broadcast.
LEMMA CommitAdds ==
    ASSUME TypeInv, Committing
    PROVE  /\ WriterInv' /\ pending = <<>> /\ cursor' > cursor /\ branch' = branch
           /\ \A h \in Heights : h <= cursor => rows'[h] = rows[h]
           /\ pending' \in Seq(Block) /\ Len(pending') <= MaxBatch
           /\ Commit => /\ cursor' = cursor + Len(pending')
                        /\ \A i \in DOMAIN pending' : pending'[i] = rows'[cursor + i]
           /\ ~Commit => pending' = <<>>
<1>1. WriterInv /\ branch' = branch /\ pending = <<>>
    BY TypeInvWriter DEF Committing, Commit, CommitUnanswered
<1>2. PICK n \in 1 .. Smaller(MaxBatch, MaxHeight - cursor) :
        /\ Store(BlocksAbove(n))
        /\ Commit => pending' = BlocksAbove(n)
        /\ ~Commit => pending' = <<>>
    <2>1. CASE Commit
        BY <2>1 DEF Commit
    <2>2. CASE ~Commit
        BY <1>1, <2>2 DEF Committing, CommitUnanswered
    <2> QED
        BY <2>1, <2>2
<1>3. branch' \in Hashes
    BY <1>1, WriterKnown
<1>4. /\ WriterInv' /\ cursor' = cursor + n
      /\ \A h \in Heights :
            rows'[h] = IF cursor < h /\ h <= cursor + n THEN BlocksAbove(n)[h - cursor]
                                                       ELSE rows[h]
    BY <1>1, <1>2, <1>3, StoreGrows
<1>5. /\ BlocksAbove(n) \in Seq(Block) /\ Len(BlocksAbove(n)) = n
      /\ n \in Nat \ {0} /\ cursor + n \in Heights
    BY <1>1, BatchAbove
<1>6. n <= MaxBatch
    BY <1>1, <1>5, WriterKnown DEF Smaller
<1>7. /\ pending' \in Seq(Block) /\ Len(pending') <= MaxBatch
      /\ Commit => Len(pending') = n /\ DOMAIN pending' = 1 .. n
    <2>1. CASE Commit
        BY <1>2, <1>5, <1>6, <2>1, BlockSeqs
    <2>2. CASE ~Commit
        BY <1>2, <2>2, BlockSeqs
    <2> QED
        BY <2>1, <2>2
<1>8. cursor \in Int /\ cursor >= -1 /\ MaxHeight \in Nat
    BY <1>1, WriterKnown
<1>9. ASSUME Commit, NEW i \in DOMAIN pending'
      PROVE  pending'[i] = rows'[cursor + i]
    <2>1. i \in 1 .. n /\ cursor + i \in Heights
        BY <1>5, <1>7, <1>8, <1>9 DEF Heights
    <2>2. rows'[cursor + i] = BlocksAbove(n)[(cursor + i) - cursor] /\ (cursor + i) - cursor = i
        BY <1>4, <1>8, <2>1
    <2> QED
        BY <1>2, <1>9, <2>2
<1>10. cursor' > cursor /\ \A h \in Heights : h <= cursor => rows'[h] = rows[h]
    BY <1>4, <1>5, <1>8 DEF Heights
<1> QED
    BY <1>1, <1>2, <1>4, <1>7, <1>9, <1>10

LEMMA RollbackTakesTop ==
    ASSUME TypeInv, Rollback
    PROVE  /\ WriterInv' /\ pending = <<>> /\ pending' = <<>>
           /\ cursor' = cursor - 1 /\ cursor > 0
           /\ \A h \in Heights : h <= cursor' => rows'[h] = rows[h]
<1>1. WriterInv /\ Unstore /\ branch' \in Hashes /\ pending = <<>> /\ pending' = pending
    BY TypeInvWriter, WriterKnown DEF Rollback, Hashes
<1>2. /\ WriterInv' /\ cursor' = cursor - 1 /\ cursor > 0
      /\ \A h \in Heights : h < cursor => rows'[h] = rows[h]
    BY <1>1, UnstoreRetracts
<1>3. cursor \in Int
    BY <1>1, WriterKnown
<1> QED
    BY <1>1, <1>2, <1>3 DEF Heights

\* What holds of any connection's variables, apart from the store's.
ConnTypeOK ==
    /\ stream \in {"closed", "opening", "replay", "live"}
    /\ from \in Heights \cup {None, MaxHeight + 1}
    /\ ceiling \in Heights \cup {None} /\ next \in 0 .. MaxHeight + 1
    /\ page \in Seq(Block) /\ Len(page) <= PageSize
    /\ live \in Seq(Block) /\ Len(live) <= Capacity
    /\ lagged \in BOOLEAN
    /\ sent \in Seq(Block)
    /\ resume \in 1 .. MaxHeight + 1 \cup {None}
    /\ base \in Heights \cup {None}
    /\ mishaps \subseteq {"rollback", "read", "unanswered"}

StoreTypeOK ==
    /\ WriterTypeOK /\ RowsToCursor /\ PendingIsTop
    /\ pending \in Seq(Block) /\ Len(pending) <= MaxBatch
    /\ readFailures \in 0 .. MaxReadFailures
    /\ unanswered \in 0 .. MaxUnanswered

LEMMA TypeParts == TypeInv <=> StoreTypeOK /\ ConnTypeOK /\ PhasesKept
BY DEF TypeInv, TypeOK, StoreTypeOK, ConnTypeOK

LEMMA TypesStart == Init => TypeInv
<1> SUFFICES ASSUME Init PROVE TypeInv
    OBVIOUS
<1>1. WriterInv
    BY WriterStarts DEF Init
<1>2. StoreTypeOK
    BY <1>1, EmptyKnown
    DEF Init, StoreTypeOK, WriterInv, PendingIsTop, Told, WriterInit, None
<1>3. ConnTypeOK
    <2>1. /\ page = <<>> /\ live = <<>> /\ sent = <<>> /\ lagged = FALSE
          /\ stream = "closed" /\ from = None /\ ceiling = None /\ next = 0
          /\ resume = None /\ base = None /\ mishaps = {}
        BY DEF Init, Closed
    <2>2. /\ page \in Seq(Block) /\ Len(page) <= PageSize /\ sent \in Seq(Block)
          /\ live \in Seq(Block) /\ Len(live) <= Capacity
        BY <2>1, BlockSeqs
    <2>3. lagged \in BOOLEAN /\ mishaps \subseteq {"rollback", "read", "unanswered"}
        BY <2>1
    <2>4. next \in 0 .. MaxHeight + 1
        BY <2>1
    <2> QED
        BY <2>1, <2>2, <2>3, <2>4 DEF ConnTypeOK
<1>4. PhasesKept
    BY DEF Init, Closed, PhasesKept
<1> QED
    BY <1>2, <1>3, <1>4, TypeParts

LEMMA StoreTypesKept == TypeInv /\ [Next]_vars => StoreTypeOK'
<1> SUFFICES ASSUME TypeInv, [Next]_vars PROVE StoreTypeOK'
    OBVIOUS
<1>1. StoreTypeOK /\ WriterInv /\ pending \in Seq(Block)
    BY TypeParts, TypeInvWriter DEF StoreTypeOK
<1>2. CASE Committing
    <2>1. PendingIsTop'
        <3>1. CASE Commit
            <4>1. Told' = cursor /\ cursor \in Int /\ cursor >= -1
                BY <1>1, <1>2, <3>1, CommitAdds, BlockSeqs, WriterKnown DEF Told
            <4> QED
                BY <1>2, <3>1, <4>1, CommitAdds DEF PendingIsTop, None
        <3>2. CASE ~Commit
            <4>1. Told' = cursor' /\ cursor' \in Int /\ cursor' >= -1 /\ DOMAIN pending' = {}
                BY <1>1, <1>2, <3>2, CommitAdds, BlockSeqs
                DEF Told, WriterInv, WriterTypeOK, Heights, None
            <4> QED
                BY <4>1 DEF PendingIsTop, None
        <3> QED
            BY <3>1, <3>2
    <2>2. readFailures' = readFailures /\ unanswered' \in 0 .. MaxUnanswered
        BY <1>1, <1>2 DEF Committing, Commit, CommitUnanswered, countVars, StoreTypeOK
    <2> QED
        BY <1>1, <1>2, <2>1, <2>2, CommitAdds DEF StoreTypeOK, WriterInv
<1>3. CASE Rollback
    <2>1. WriterInv' /\ pending' = <<>> /\ UNCHANGED countVars
        BY <1>3, RollbackTakesTop DEF Rollback
    <2>2. PendingIsTop'
        BY <2>1, WriterKnown, RollbackTakesTop, <1>3, <1>1, EmptyKnown DEF PendingIsTop, Told, None
    <2> QED
        BY <1>1, <2>1, <2>2, EmptyKnown DEF StoreTypeOK, WriterInv, countVars
<1>4. CASE Broadcast
    <2>1. /\ pending # <<>> /\ pending' = Tail(pending) /\ UNCHANGED <<writerVars, countVars>>
        BY <1>4 DEF Broadcast
    <2>2. PendingIsTop'
        <3>1. /\ Len(pending) \in Nat \ {0} /\ Len(pending') = Len(pending) - 1
              /\ DOMAIN pending = 1 .. Len(pending) /\ DOMAIN pending' = 1 .. Len(pending) - 1
              /\ \A i \in 1 .. Len(pending) - 1 : pending'[i] = pending[i + 1]
            BY <1>1, <2>1, BlockTail
        <3>2. cursor \in Int /\ Told' = Told + 1 /\ Told \in Int /\ rows' = rows
            BY <1>1, <2>1, <3>1, WriterKnown DEF Told, writerVars
        <3>3. ASSUME NEW i \in DOMAIN pending' PROVE pending'[i] = rows'[Told' + i]
            <4>1. i + 1 \in DOMAIN pending /\ pending'[i] = pending[i + 1]
                BY <3>1
            <4>2. Told + (i + 1) = Told' + i
                BY <3>1, <3>2
            <4> QED
                BY <1>1, <3>2, <4>1, <4>2 DEF StoreTypeOK, PendingIsTop
        <3> QED
            BY <1>1, <3>2, <3>3 DEF StoreTypeOK, PendingIsTop, None
    <2>3. WriterTypeOK' /\ RowsToCursor'
        BY <1>1, <2>1 DEF StoreTypeOK, WriterTypeOK, RowsToCursor, writerVars
    <2>4. pending' \in Seq(Block) /\ Len(pending') <= MaxBatch
        BY <1>1, <2>1, BlockTail DEF StoreTypeOK
    <2> QED
        BY <1>1, <2>1, <2>2, <2>3, <2>4 DEF StoreTypeOK, countVars
<1>5. CASE /\ UNCHANGED writerVars /\ pending' \in {pending, <<>>}
           /\ readFailures' \in 0 .. MaxReadFailures /\ UNCHANGED unanswered
    <2>1. WriterTypeOK' /\ RowsToCursor'
        BY <1>1, <1>5 DEF StoreTypeOK, WriterTypeOK, RowsToCursor, writerVars
    <2>2. PendingIsTop' /\ pending' \in Seq(Block) /\ Len(pending') <= MaxBatch
        <3>1. rows' = rows /\ cursor' = cursor /\ cursor \in Int /\ cursor >= -1
            BY <1>1, <1>5, WriterKnown DEF writerVars
        <3>2. CASE pending' = pending
            BY <1>1, <3>1, <3>2 DEF PendingIsTop, Told, StoreTypeOK
        <3>3. CASE pending' = <<>>
            BY <3>1, <3>3, BlockSeqs DEF PendingIsTop, Told, None
        <3> QED
            BY <1>5, <3>2, <3>3
    <2> QED
        BY <1>1, <1>5, <2>1, <2>2 DEF StoreTypeOK
<1>6. ASSUME ~Committing, ~Rollback, ~Broadcast
      PROVE  /\ UNCHANGED writerVars /\ pending' \in {pending, <<>>}
             /\ readFailures' \in 0 .. MaxReadFailures /\ UNCHANGED unanswered
    <2>1. readFailures \in 0 .. MaxReadFailures
        BY <1>1 DEF StoreTypeOK
    <2>2. CASE UNCHANGED vars
        BY <2>1, <2>2 DEF vars, countVars
    <2>3. CASE Open \/ ReadTip \/ SendReplayed \/ ReplayEnds \/ SendLive
        BY <2>1, <2>3 DEF Open, ReadTip, SendReplayed, ReplayEnds, SendLive, countVars
    <2>4. CASE ReadPage \/ ReadPageFails
        BY <2>1, <2>4 DEF ReadPage, ReadPageFails, countVars
    <2>5. CASE CutOff \/ Drop \/ Crash
        BY <2>1, <2>5 DEF CutOff, Drop, Crash, countVars
    <2> QED
        BY <1>6, <2>2, <2>3, <2>4, <2>5 DEF Next, Committing
<1> QED
    BY <1>2, <1>3, <1>4, <1>5, <1>6

\* A page has no more rows than its limit, and reads on after the last of them.
LEMMA PageRead ==
    ASSUME TypeInv, ReadPage
    PROVE  LET n == RunLength(next, ceiling, PageSize)
           IN  /\ n \in Nat /\ n <= PageSize
               /\ page' \in Seq(Block) /\ Len(page') = n /\ DOMAIN page' = 1 .. n
               /\ \A i \in 1 .. n : page'[i] = rows[next + i - 1]
               /\ n = 0 => stream' = "live" /\ next' = next
               /\ n > 0 => stream' = stream /\ next' = next + n
               /\ next' \in 0 .. MaxHeight + 1
               /\ page = <<>> /\ stream = "replay" /\ next <= ceiling
<1> DEFINE n == RunLength(next, ceiling, PageSize)
<1>1. WriterInv /\ next \in Nat /\ next <= MaxHeight + 1 /\ ceiling \in Int /\ ceiling <= MaxHeight
    BY TypeInvWriter, TypeParts DEF ConnTypeOK, Heights, None
<1>2. /\ n \in Nat /\ n <= PageSize
      /\ RowsBetween(next, ceiling, PageSize) \in Seq(Block)
      /\ Len(RowsBetween(next, ceiling, PageSize)) = n
      /\ \A i \in 1 .. n :
            /\ next + i - 1 \in Heights
            /\ RowsBetween(next, ceiling, PageSize)[i] = rows[next + i - 1]
            /\ rows[next + i - 1].height = next + i - 1
    <2> HIDE DEF n
    <2>1. PageSize \in Nat \ {0}
        OBVIOUS
    <2> QED
        BY <1>1, <2>1, RowsBetweenIs DEF n
<1> HIDE DEF n
<1>3. /\ page' = RowsBetween(next, ceiling, PageSize)
      /\ IF page' = <<>> THEN stream' = "live" /\ next' = next
                         ELSE next' = page'[Len(page')].height + 1 /\ stream' = stream
      /\ page = <<>> /\ stream = "replay" /\ next <= ceiling
    BY DEF ReadPage, Reading
<1>4. page' \in Seq(Block) /\ Len(page') = n /\ DOMAIN page' = 1 .. n /\ (page' = <<>> <=> n = 0)
    BY <1>2, <1>3, BlockSeqs
<1>5. \A i \in 1 .. n : page'[i] = rows[next + i - 1]
    BY <1>2, <1>3
<1>6. CASE n = 0
    BY <1>1, <1>2, <1>3, <1>4, <1>5, <1>6 DEF n
<1>7. CASE n > 0
    <2>1. n \in 1 .. n
        BY <1>2, <1>7
    <2>2. page'[n].height = next + n - 1 /\ next + n - 1 \in Heights
        BY <1>2, <1>3, <2>1
    <2>3. next' = next + n /\ stream' = stream /\ next' \in 0 .. MaxHeight + 1
        BY <1>1, <1>2, <1>3, <1>4, <1>7, <2>2 DEF Heights
    <2> QED
        BY <1>2, <1>3, <1>4, <1>5, <1>7, <2>3 DEF n
<1> QED
    BY <1>2, <1>6, <1>7

LEMMA ConnKept == TypeInv /\ [Next]_vars => ConnTypeOK' /\ PhasesKept'
<1> SUFFICES ASSUME TypeInv, [Next]_vars PROVE ConnTypeOK' /\ PhasesKept'
    OBVIOUS
<1>1. ConnTypeOK /\ PhasesKept /\ WriterInv /\ pending \in Seq(Block)
    BY TypeParts, TypeInvWriter DEF StoreTypeOK
<1>2. CASE UNCHANGED <<connVars, resume>> /\ mishaps' \subseteq {"rollback", "read", "unanswered"}
    BY <1>1, <1>2 DEF connVars, ConnTypeOK, PhasesKept, Closed
<1>3. CASE Commit \/ CommitUnanswered \/ UNCHANGED vars
    <2>1. mishaps' \in {mishaps, {}, mishaps \cup {"unanswered"}}
        BY <1>3 DEF Commit, CommitUnanswered, Befalls, vars
    <2>2. UNCHANGED <<connVars, resume>>
        BY <1>3 DEF Commit, CommitUnanswered, vars
    <2> QED
        BY <1>1, <1>2, <2>1, <2>2 DEF ConnTypeOK
<1>4. CASE Broadcast
    <2>1. /\ pending # <<>>
          /\ UNCHANGED <<stream, from, ceiling, next, page, sent, base, resume, mishaps>>
          /\ \/ stream # "closed" /\ Queue(Head(pending))
             \/ UNCHANGED <<live, lagged>>
        BY <1>4 DEF Broadcast, Subscribed
    <2>2. CASE UNCHANGED <<live, lagged>>
        BY <1>1, <1>2, <2>1, <2>2 DEF connVars, ConnTypeOK
    <2>3. CASE stream # "closed" /\ Queue(Head(pending))
        <3>1. Head(pending) \in Block
            BY <1>1, <2>1, BlockTail
        <3>2. CASE lagged \/ Len(live) = Capacity
            <4>1. live' = <<>> /\ lagged' = TRUE
                BY <2>3, <3>2 DEF Queue
            <4>2. live' \in Seq(Block) /\ Len(live') <= Capacity
                BY <4>1, BlockSeqs
            <4> QED
                BY <1>1, <2>1, <2>3, <4>1, <4>2 DEF ConnTypeOK, PhasesKept
        <3>3. CASE ~lagged /\ Len(live) # Capacity
            <4>1. live' = Append(live, Head(pending)) /\ lagged' = lagged
                BY <2>3, <3>3 DEF Queue
            <4>2. live' \in Seq(Block) /\ Len(live') <= Capacity
                BY <1>1, <3>1, <3>3, <4>1, BlockAppended DEF ConnTypeOK
            <4> QED
                BY <1>1, <2>1, <2>3, <3>3, <4>1, <4>2 DEF ConnTypeOK, PhasesKept
        <3> QED
            BY <3>2, <3>3
    <2> QED
        BY <2>1, <2>2, <2>3
<1>5. CASE Rollback
    <2>1. /\ UNCHANGED <<stream, from, ceiling, next, page, live, lagged, sent, resume>>
          /\ base' = (IF stream = "closed" THEN base ELSE Smaller(base, cursor'))
          /\ mishaps' \in {{}, mishaps \cup {"rollback"}}
        BY <1>5 DEF Rollback, Befalls
    <2>2. cursor' \in Heights
        BY <1>1, <1>5, RollbackTakesTop, WriterKnown DEF Heights
    <2>3. base' \in Heights \cup {None}
        BY <1>1, <2>1, <2>2 DEF ConnTypeOK, Smaller
    <2> QED
        BY <1>1, <2>1, <2>3 DEF ConnTypeOK, PhasesKept, Closed
<1>6. CASE Open
    <2>1. /\ stream = "closed" /\ mishaps' = {}
          /\ from' \in Heights \cup {None} \cup {resume}
          /\ stream' = (IF from' = None THEN "live" ELSE "opening")
          /\ base' = cursor - Len(pending)
          /\ UNCHANGED <<ceiling, next, page, live, lagged, sent, resume>>
        BY <1>6 DEF Open
    <2>2. Closed /\ from' \in Heights \cup {None, MaxHeight + 1}
        BY <1>1, <2>1 DEF PhasesKept, ConnTypeOK, Heights
    <2>3. base' \in Heights \cup {None}
        BY <1>1, <2>1, BlockSeqs, TypeParts, WriterKnown DEF StoreTypeOK, PendingIsTop, Told, Heights, None
    <2> QED
        BY <1>1, <2>1, <2>2, <2>3 DEF ConnTypeOK, PhasesKept, Closed
<1>7. CASE ReadTip
    <2>1. /\ stream = "opening" /\ stream' = "replay" /\ next' = from
          /\ ceiling' = (IF cursor = None THEN from - 1 ELSE cursor)
          /\ UNCHANGED <<from, page, live, lagged, sent, base, resume, mishaps>>
        BY <1>7 DEF ReadTip
    <2>2. from \in 0 .. MaxHeight + 1 /\ from # None
        BY <1>1, <2>1 DEF PhasesKept, ConnTypeOK, Heights
    <2>3. ceiling' \in Heights \cup {None} /\ next' \in 0 .. MaxHeight + 1
        BY <1>1, <2>1, <2>2 DEF WriterInv, WriterTypeOK, Heights, None
    <2> QED
        BY <1>1, <2>1, <2>2, <2>3 DEF ConnTypeOK, PhasesKept
<1>8. CASE ReadPage
    <2>1. UNCHANGED <<from, ceiling, live, lagged, sent, base, resume, mishaps>>
        BY <1>8 DEF ReadPage
    <2>2. /\ page' \in Seq(Block) /\ Len(page') <= PageSize /\ next' \in 0 .. MaxHeight + 1
          /\ stream = "replay"
          /\ stream' = "replay" \/ (stream' = "live" /\ page' = <<>>)
        BY <1>8, PageRead, BlockSeqs
    <2> QED
        BY <1>1, <2>1, <2>2 DEF ConnTypeOK, PhasesKept
<1>9. CASE ReadPageFails
    BY <1>1, <1>9 DEF ReadPageFails, Reading, Befalls, ConnTypeOK, PhasesKept
<1>10. CASE SendReplayed
    <2>1. /\ stream = "replay" /\ page # <<>> /\ sent' = Append(sent, Head(page)) /\ page' = Tail(page)
          /\ UNCHANGED <<stream, from, ceiling, next, live, lagged, base, resume, mishaps>>
        BY <1>10 DEF SendReplayed
    <2>2. /\ sent' \in Seq(Block) /\ page' \in Seq(Block) /\ Len(page') <= PageSize
        BY <1>1, <2>1, BlockTail, BlockAppended DEF ConnTypeOK
    <2> QED
        BY <1>1, <2>1, <2>2 DEF ConnTypeOK, PhasesKept
<1>11. CASE ReplayEnds
    BY <1>1, <1>11 DEF ReplayEnds, ConnTypeOK, PhasesKept
<1>12. CASE SendLive
    <2>1. /\ stream = "live" /\ live # <<>> /\ live' = Tail(live)
          /\ sent' \in {sent, Append(sent, Head(live))}
          /\ UNCHANGED <<stream, from, ceiling, next, page, lagged, base, resume, mishaps>>
        BY <1>12 DEF SendLive
    <2>2. /\ sent' \in Seq(Block) /\ live' \in Seq(Block) /\ Len(live') <= Capacity
        <3>1. live \in Seq(Block) /\ Len(live) <= Capacity /\ sent \in Seq(Block)
            BY <1>1 DEF ConnTypeOK
        <3>2. Head(live) \in Block /\ live' \in Seq(Block) /\ Len(live') <= Capacity
            BY <2>1, <3>1, BlockTail
        <3>3. Append(sent, Head(live)) \in Seq(Block)
            BY <3>1, <3>2, BlockAppended
        <3> QED
            BY <2>1, <3>1, <3>2, <3>3
    <2> QED
        BY <1>1, <2>1, <2>2 DEF ConnTypeOK, PhasesKept
<1>13. CASE CutOff \/ Drop \/ Crash
    <2>1. PICK k \in 0 .. Len(sent) : Close(k)
        BY <1>13 DEF CutOff, Drop, Crash
    <2>2. resume' \in 1 .. MaxHeight + 1 \cup {None}
        <3>1. k # 0 => sent[k] \in Block
            BY <1>1, <2>1, BlockSeqs DEF ConnTypeOK
        <3>2. k # 0 => sent[k].height \in Heights
            BY <3>1 DEF Block
        <3> QED
            BY <1>1, <2>1, <3>2 DEF ConnTypeOK, Close, Heights
    <2>3. /\ page' = <<>> /\ live' = <<>> /\ sent' = <<>> /\ lagged' = FALSE
          /\ stream' = "closed" /\ from' = None /\ ceiling' = None /\ next' = 0
          /\ base' = None /\ mishaps' = {}
        BY <2>1 DEF Close
    <2>4. /\ page' \in Seq(Block) /\ Len(page') <= PageSize /\ sent' \in Seq(Block)
          /\ live' \in Seq(Block) /\ Len(live') <= Capacity
        BY <2>3, BlockSeqs
    <2>5. next' \in 0 .. MaxHeight + 1
        BY <2>3
    <2>6. mishaps' \subseteq {"rollback", "read", "unanswered"}
        BY <2>3
    <2> QED
        <3>1. lagged' \in BOOLEAN
            BY <2>3
        <3> QED
            BY <2>2, <2>3, <2>4, <2>5, <2>6, <3>1 DEF ConnTypeOK, PhasesKept, Closed
<1> QED
    BY <1>3, <1>4, <1>5, <1>6, <1>7, <1>8, <1>9, <1>10, <1>11, <1>12, <1>13 DEF Next

LEMMA TypesKept == TypeInv /\ [Next]_vars => TypeInv'
<1> SUFFICES ASSUME TypeInv, [Next]_vars PROVE TypeInv'
    OBVIOUS
<1>1. StoreTypeOK' /\ ConnTypeOK' /\ PhasesKept'
    BY StoreTypesKept, ConnKept
<1> QED
    BY <1>1 DEF TypeInv, TypeOK, StoreTypeOK, ConnTypeOK

LEMMA TypesAlways == Spec => []TypeInv
BY TypesStart, TypesKept, PTL DEF Spec

\* The types of BlockStream, with the bounds of its page and of the broadcast.
THEOREM StreamTypeCorrect == Spec => []TypeOK
<1>1. TypeInv => TypeOK
    BY DEF TypeInv
<1> QED
    BY <1>1, TypesAlways, PTL

-----------------------------------------------------------------------------
\* The height a connection's first event has, and that of its last.
First == IF from = None THEN base + 1 ELSE Start

Reached ==
    IF stream = "replay" THEN Smaller(next - 1, ceiling) - Len(page)
                         ELSE Larger(Told - Len(live), ceiling)

\* What was sent are the rows from the first to the last.
SentIsRun ==
    /\ \A i \in DOMAIN sent : First + i - 1 \in 0 .. cursor /\ sent[i] = rows[First + i - 1]
    /\ stream # "opening" /\ ~(stream = "live" /\ lagged) => First + Len(sent) - 1 = Reached

\* The page in hand are the rows below `next`, which is in the part to replay.
PageIsRun ==
    stream = "replay" =>
        /\ from <= next - Len(page) /\ next <= Larger(from, ceiling + 1)
        /\ \A i \in DOMAIN page : page[i] = rows[next - Len(page) + i - 1]

\* The broadcast holds the rows up to the last that was broadcast, and leaves no
\* gap to the replay.
LiveIsRun ==
    /\ ~lagged =>
        /\ base <= Told - Len(live)
        /\ stream # "live" => base = Told - Len(live)
        /\ \A i \in DOMAIN live : live[i] = rows[Told - Len(live) + i]
    /\ base <= Told
    /\ stream # "opening" /\ from # None =>
        base <= ceiling /\ (from <= ceiling => ceiling <= cursor)

Exact == SentIsRun /\ PageIsRun /\ LiveIsRun

\* The last block of a height in a sequence.
IsLast(s, h, b) ==
    \E i \in DOMAIN s :
        /\ s[i] = b /\ b.height = h
        /\ \A j \in DOMAIN s : s[j].height = h => j <= i

Lacks(s, h) == \A i \in DOMAIN s : s[i].height # h

\* A height that was broadcast since the client subscribed waits to be sent, or
\* what was sent last for it is its row.
Covered(h) ==
    \/ IsLast(live, h, rows[h])
    \/ /\ stream = "live" /\ Lacks(live, h)
       /\ h > ceiling => IsLast(sent, h, rows[h])

LiveCovers == base <= Told /\ \A h \in Heights : base < h /\ h <= Told => Covered(h)

\* The conditions under which everything a client is owed waits for it.
Promised == stream # "closed" /\ mishaps \subseteq {"rollback"} /\ ~lagged

StreamInv ==
    /\ TypeInv
    /\ stream # "closed" /\ mishaps = {} => Exact
    /\ Promised => LiveCovers

LEMMA StreamKnown ==
    ASSUME TypeInv
    PROVE  /\ cursor \in Int /\ cursor >= -1 /\ cursor <= MaxHeight /\ MaxHeight \in Nat
           /\ Told \in Int /\ Told >= -1 /\ Told <= cursor
           /\ from \in Int /\ from >= -1 /\ from <= MaxHeight + 1
           /\ ceiling \in Int /\ ceiling >= -1 /\ next \in Nat
           /\ base \in Int /\ base >= -1
           /\ pending \in Seq(Block) /\ page \in Seq(Block)
           /\ live \in Seq(Block) /\ sent \in Seq(Block)
           /\ Len(pending) \in Nat /\ DOMAIN pending = 1 .. Len(pending)
           /\ Len(page) \in Nat /\ DOMAIN page = 1 .. Len(page)
           /\ Len(live) \in Nat /\ DOMAIN live = 1 .. Len(live)
           /\ Len(sent) \in Nat /\ DOMAIN sent = 1 .. Len(sent)
           /\ None = -1 /\ Told = cursor - Len(pending)
<1>1. StoreTypeOK /\ ConnTypeOK /\ WriterInv
    BY TypeParts, TypeInvWriter
<1>2. /\ cursor \in Int /\ cursor >= -1 /\ cursor <= MaxHeight /\ MaxHeight \in Nat
    BY <1>1, WriterKnown
<1>3. /\ from \in Int /\ from >= -1 /\ from <= MaxHeight + 1
      /\ ceiling \in Int /\ ceiling >= -1 /\ next \in Nat
      /\ base \in Int /\ base >= -1
    BY <1>1, <1>2 DEF ConnTypeOK, Heights, None
<1>4. /\ pending \in Seq(Block) /\ page \in Seq(Block) /\ live \in Seq(Block) /\ sent \in Seq(Block)
    BY <1>1 DEF ConnTypeOK, StoreTypeOK
<1>5. Told \in Int /\ Told >= -1 /\ Told <= cursor /\ Told = cursor - Len(pending)
    BY <1>1, <1>2, <1>4, BlockSeqs DEF StoreTypeOK, PendingIsTop, Told, None
<1> QED
    BY <1>2, <1>3, <1>4, <1>5, BlockSeqs DEF None

LEMMA StreamNumbers ==
    ASSUME TypeInv
    PROVE  /\ cursor \in Int /\ cursor >= -1 /\ cursor <= MaxHeight
           /\ Told \in Int /\ Told >= -1 /\ Told <= cursor
           /\ from \in Int /\ from >= -1 /\ ceiling \in Int /\ ceiling >= -1 /\ next \in Nat
           /\ base \in Int /\ base >= -1 /\ None = -1
           /\ Len(page) \in Nat /\ Len(live) \in Nat /\ Len(sent) \in Nat
BY StreamKnown

LEMMA BoundsKnown ==
    \A a, b \in Int : /\ Larger(a, b) >= a /\ Smaller(a, b) \in Int
                     /\ Smaller(a, b + 1) - 1 = Smaller(a - 1, b)
BY DEF Larger, Smaller

LEMMA FirstKnown ==
    ASSUME TypeInv
    PROVE  Start \in Int /\ First \in Int
<1>1. from \in Int /\ ceiling \in Int /\ base \in Int
    BY StreamNumbers
<1>2. Start \in Int
    BY <1>1 DEF Start, Smaller
<1> QED
    BY <1>1, <1>2 DEF First

\* Blocks are added at the top: what is below, and all a connection has, stays.
LEMMA CommitKeepsExact ==
    ASSUME TypeInv, TypeInv', stream # "closed", Exact, Commit
    PROVE  Exact'
<1>1. UNCHANGED connVars /\ cursor' > cursor /\ pending = <<>>
      /\ \A h \in Heights : h <= cursor => rows'[h] = rows[h]
    BY CommitAdds DEF Commit, Committing
<1>2. Told' = Told /\ Told = cursor
    BY <1>1, CommitAdds, BlockSeqs, StreamKnown DEF Told, Committing
<1>3. /\ from' = from /\ ceiling' = ceiling /\ next' = next /\ page' = page /\ live' = live
      /\ lagged' = lagged /\ sent' = sent /\ base' = base /\ stream' = stream
      /\ First' = First /\ Reached' = Reached
    BY <1>1, <1>2 DEF connVars, First, Start, Reached
<1>4. cursor' \in Int
    BY <1>1, StreamKnown, CommitAdds DEF Committing, WriterInv, WriterTypeOK, Heights, None
<1>5. SentIsRun'
    <2>1. /\ \A i \in DOMAIN sent : First + i - 1 \in 0 .. cursor /\ sent[i] = rows[First + i - 1]
          /\ stream # "opening" /\ ~(stream = "live" /\ lagged) => First + Len(sent) - 1 = Reached
        BY DEF Exact, SentIsRun
    <2>2. cursor \in Int /\ cursor' \in Int /\ cursor <= cursor' /\ cursor <= MaxHeight
        BY <1>1, <1>4, StreamNumbers
    <2>3. \A h \in 0 .. cursor : h \in 0 .. cursor' /\ h \in Heights /\ h <= cursor
        BY <2>2 DEF Heights
    <2> QED
        BY <1>1, <1>3, <2>1, <2>3 DEF SentIsRun
<1>6. PageIsRun'
    <2> SUFFICES ASSUME stream = "replay"
                 PROVE  /\ from <= next - Len(page) /\ next <= Larger(from, ceiling + 1)
                        /\ \A i \in DOMAIN page : page[i] = rows'[next - Len(page) + i - 1]
        BY <1>3 DEF PageIsRun
    <2>1. /\ from <= next - Len(page) /\ next <= Larger(from, ceiling + 1)
          /\ \A i \in DOMAIN page : page[i] = rows[next - Len(page) + i - 1]
          /\ from # None /\ (from <= ceiling => ceiling <= cursor)
        BY StreamKnown DEF Exact, PageIsRun, LiveIsRun, TypeInv, PhasesKept
    <2>2. ASSUME NEW i \in DOMAIN page
          PROVE  next - Len(page) + i - 1 \in Heights /\ next - Len(page) + i - 1 <= cursor
        <3>1. /\ from \in Int /\ next \in Int /\ ceiling \in Int /\ cursor \in Int
              /\ from >= -1 /\ None = -1 /\ Len(page) \in Nat /\ cursor <= MaxHeight
              /\ DOMAIN page = 1 .. Len(page)
            BY StreamKnown
        <3>2. next <= ceiling + 1 /\ ceiling <= cursor
            BY <2>1, <3>1 DEF Larger
        <3> QED
            BY <2>1, <3>1, <3>2 DEF Heights
    <2> QED
        BY <1>1, <2>1, <2>2
<1>7. LiveIsRun'
    <2>1. ASSUME ~lagged, NEW i \in DOMAIN live
          PROVE  Told - Len(live) + i \in Heights /\ Told - Len(live) + i <= cursor
        <3>1. /\ base \in Int /\ base >= -1 /\ Told \in Int /\ Told <= cursor /\ cursor \in Int
              /\ Len(live) \in Nat /\ i \in 1 .. Len(live) /\ cursor <= MaxHeight
            BY StreamKnown
        <3>2. base <= Told - Len(live)
            BY <2>1 DEF Exact, LiveIsRun
        <3> QED
            BY <3>1, <3>2 DEF Heights
    <2>2. ~lagged => \A i \in DOMAIN live : live[i] = rows'[Told - Len(live) + i]
        BY <1>1, <2>1 DEF Exact, LiveIsRun
    <2>3. cursor \in Int /\ ceiling \in Int
        BY StreamKnown
    <2> QED
        BY <1>1, <1>2, <1>3, <1>4, <2>2, <2>3 DEF Exact, LiveIsRun
<1> QED
    BY <1>5, <1>6, <1>7 DEF Exact

LEMMA BroadcastKeepsExact ==
    ASSUME TypeInv, TypeInv', stream # "closed", Exact, Broadcast
    PROVE  Exact'
<1>1. /\ pending # <<>> /\ pending' = Tail(pending)
      /\ UNCHANGED <<rows, cursor, stream, from, ceiling, next, page, sent, base>>
      /\ Queue(Head(pending))
    BY DEF Broadcast, Subscribed, writerVars
<1>2. Head(pending) = rows[Told + 1] /\ Told' = Told + 1 /\ Head(pending) \in Block
    <2>0. pending \in Seq(Block) /\ cursor \in Int
        BY StreamKnown
    <2>1. /\ Len(pending) \in Nat \ {0} /\ Head(pending) = pending[1] /\ Head(pending) \in Block
          /\ DOMAIN pending = 1 .. Len(pending) /\ Len(pending') = Len(pending) - 1
        BY <1>1, <2>0, BlockTail
    <2>2. 1 \in DOMAIN pending
        BY <2>1
    <2>3. pending[1] = rows[Told + 1]
        BY <2>2 DEF TypeInv, PendingIsTop
    <2>4. Told' = Told + 1
        BY <1>1, <2>0, <2>1 DEF Told
    <2> QED
        BY <2>1, <2>3, <2>4
<1>3. /\ First' = First /\ Told \in Int /\ cursor \in Int /\ base \in Int /\ ceiling \in Int
      /\ Len(live) \in Nat /\ DOMAIN live = 1 .. Len(live) /\ live \in Seq(Block)
    BY <1>1, StreamKnown DEF First, Start
<1>4. CASE lagged \/ Len(live) = Capacity
    <2>1. live' = <<>> /\ lagged' = TRUE
        BY <1>1, <1>4 DEF Queue
    <2>2. SentIsRun'
        <3>1. stream \in {"opening", "replay", "live"}
            BY TypeParts DEF ConnTypeOK
        <3>2. stream = "replay" => Reached' = Reached
            BY <1>1 DEF Reached
        <3> QED
            BY <1>1, <1>3, <2>1, <3>1, <3>2 DEF Exact, SentIsRun
    <2>3. PageIsRun'
        BY <1>1 DEF Exact, PageIsRun
    <2>4. LiveIsRun'
        BY <1>1, <1>2, <1>3, <2>1 DEF Exact, LiveIsRun
    <2> QED
        BY <2>2, <2>3, <2>4 DEF Exact
<1>5. CASE ~lagged /\ Len(live) # Capacity
    <2>1. live' = Append(live, Head(pending)) /\ lagged' = lagged
        BY <1>1, <1>5 DEF Queue
    <2>2. /\ Len(live') = Len(live) + 1 /\ DOMAIN live' = 1 .. Len(live) + 1
          /\ \A i \in 1 .. Len(live) : live'[i] = live[i]
          /\ live'[Len(live) + 1] = rows[Told + 1]
        BY <1>2, <1>3, <2>1, BlockAppended
    <2>3. Told' - Len(live') = Told - Len(live)
        BY <1>2, <1>3, <2>2
    <2>4. LiveIsRun'
        <3>1. ASSUME NEW i \in DOMAIN live' PROVE live'[i] = rows'[Told' - Len(live') + i]
            <4>1. CASE i \in 1 .. Len(live)
                BY <1>1, <1>5, <2>2, <2>3, <4>1, StreamKnown DEF Exact, LiveIsRun
            <4>2. CASE i = Len(live) + 1
                <5>1. Told' - Len(live') + i = Told + 1
                    BY <1>3, <2>3, <4>2
                <5> QED
                    BY <1>1, <2>2, <4>2, <5>1
            <4> QED
                BY <1>3, <2>2, <4>1, <4>2
        <3>2. base' <= Told'
            <4>1. base <= Told /\ base' = base
                BY <1>1 DEF Exact, LiveIsRun
            <4> QED
                BY <1>2, <1>3, <4>1
        <3> QED
            BY <1>1, <1>5, <2>1, <2>3, <3>1, <3>2 DEF Exact, LiveIsRun
    <2>5. Reached' = Reached
        BY <1>1, <2>3 DEF Reached
    <2> QED
        BY <1>1, <1>3, <2>1, <2>4, <2>5 DEF Exact, SentIsRun, PageIsRun
<1> QED
    BY <1>4, <1>5

\* Nothing waits for a client that just subscribed, and nothing was sent to it.
LEMMA OpenIsExact ==
    ASSUME TypeInv, TypeInv', Open
    PROVE  Exact'
<1>1. /\ stream = "closed" /\ Closed
      /\ stream' = (IF from' = None THEN "live" ELSE "opening")
      /\ base' = Told
      /\ UNCHANGED <<rows, cursor, pending, ceiling, next, page, live, lagged, sent>>
    BY DEF Open, Told, TypeInv, PhasesKept, writerVars
<1>2. Told' = Told /\ live' = <<>> /\ sent' = <<>> /\ ceiling' = None /\ lagged' = FALSE
    BY <1>1 DEF Told, Closed
<1>3. Len(live') = 0 /\ DOMAIN live' = {} /\ Len(sent') = 0 /\ DOMAIN sent' = {}
    BY <1>2, BlockSeqs
<1>4. SentIsRun'
    <2> SUFFICES ASSUME stream' # "opening" PROVE First' + Len(sent') - 1 = Reached'
        BY <1>3 DEF SentIsRun
    <2>1. from' = None /\ stream' = "live"
        BY <1>1
    <2> QED
        BY <1>1, <1>2, <1>3, <2>1, StreamKnown DEF First, Reached, Larger
<1>5. PageIsRun'
    BY <1>1 DEF PageIsRun
<1>6. LiveIsRun'
    BY <1>1, <1>2, <1>3, StreamKnown DEF LiveIsRun
<1> QED
    BY <1>4, <1>5, <1>6 DEF Exact

\* The ceiling leaves no gap to what the broadcast holds.
LEMMA ReadTipKeepsExact ==
    ASSUME TypeInv, TypeInv', Exact, ReadTip
    PROVE  Exact'
<1>1. /\ stream = "opening" /\ stream' = "replay" /\ next' = from
      /\ ceiling' = (IF cursor = None THEN from - 1 ELSE cursor)
      /\ UNCHANGED <<rows, cursor, pending, from, page, live, lagged, sent, base>>
      /\ Told' = Told
    BY DEF ReadTip, writerVars, Told
<1>2. from # None /\ from >= 0 /\ sent = <<>> /\ page = <<>>
    BY <1>1, StreamKnown DEF TypeInv, PhasesKept
<1>3. Len(sent) = 0 /\ DOMAIN sent = {} /\ Len(page) = 0 /\ DOMAIN page = {}
    BY <1>2, BlockSeqs
<1>4. from \in Int /\ cursor \in Int /\ ceiling' \in Int /\ None = -1
    BY <1>1, <1>2, StreamNumbers
<1>5. LiveIsRun'
    <2>1. /\ ~lagged => base <= Told - Len(live) /\ base = Told - Len(live)
          /\ ~lagged => \A i \in DOMAIN live : live[i] = rows[Told - Len(live) + i]
          /\ base <= Told
        BY <1>1 DEF Exact, LiveIsRun
    <2>2. base <= ceiling' /\ (from <= ceiling' => ceiling' <= cursor)
        <3>1. Told <= cursor /\ Told \in Int /\ base \in Int /\ (cursor = -1 => Told = -1)
            BY StreamNumbers
        <3> QED
            BY <1>1, <1>2, <1>4, <2>1, <3>1
    <2> QED
        BY <1>1, <2>1, <2>2 DEF LiveIsRun
<1>6. PageIsRun'
    <2>1. Larger(from, ceiling' + 1) >= from
        BY <1>4, BoundsKnown
    <2> QED
        BY <1>1, <1>3, <1>4, <2>1 DEF PageIsRun
<1>7. SentIsRun'
    <2>1. from' = from /\ First' = Start' /\ stream' = "replay"
        BY <1>1, <1>2 DEF First
    <2>2. Start' = Smaller(from, ceiling' + 1)
        BY <1>1, <1>2 DEF Start
    <2>3. Reached' = Smaller(from - 1, ceiling')
        BY <1>1, <1>3, <1>4 DEF Reached, Smaller
    <2>4. First' - 1 = Reached' /\ First' \in Int
        BY <1>4, <2>1, <2>2, <2>3, BoundsKnown
    <2> QED
        BY <1>1, <1>3, <2>4 DEF SentIsRun
<1> QED
    BY <1>5, <1>6, <1>7 DEF Exact

\* The rows of a page follow those that were sent.
LEMMA ReadPageKeepsExact ==
    ASSUME TypeInv, TypeInv', Exact, ReadPage
    PROVE  Exact'
<1> DEFINE n == RunLength(next, ceiling, PageSize)
<1>1. /\ n \in Nat /\ Len(page') = n /\ DOMAIN page' = 1 .. n
      /\ \A i \in 1 .. n : page'[i] = rows[next + i - 1]
      /\ n > 0 => stream' = stream /\ next' = next + n
      /\ page = <<>> /\ stream = "replay" /\ next <= ceiling
    BY PageRead
<1>2. /\ UNCHANGED <<rows, cursor, pending, from, ceiling, live, lagged, sent, base>>
      /\ Told' = Told /\ First' = First
    BY DEF ReadPage, writerVars, Told, First, Start
<1>3. /\ cursor \in Int /\ next \in Nat /\ ceiling \in Int /\ from \in Int /\ Len(page) = 0
      /\ First \in Int /\ base \in Int
    BY <1>1, StreamNumbers, FirstKnown, BlockSeqs
<1>4. from <= next /\ next <= ceiling /\ ceiling <= cursor
    BY <1>1, <1>3, StreamKnown DEF Exact, PageIsRun, LiveIsRun, TypeInv, PhasesKept
<1>5. n > 0 /\ next + n <= ceiling + 1
    BY <1>3, <1>4 DEF RunLength, Smaller
<1> HIDE DEF n
<1>6. stream' = "replay" /\ next' = next + n
    BY <1>1, <1>5
<1>7. Reached = next - 1 /\ Reached' = next - 1
    BY <1>1, <1>2, <1>3, <1>4, <1>5, <1>6 DEF Reached, Smaller
<1>8. SentIsRun'
    BY <1>1, <1>2, <1>6, <1>7 DEF Exact, SentIsRun
<1>9. PageIsRun'
    <2>1. next' - Len(page') = next /\ \A i \in 1 .. n : next' - Len(page') + i - 1 = next + i - 1
        BY <1>1, <1>3, <1>6
    <2> QED
        BY <1>1, <1>2, <1>3, <1>4, <1>5, <1>6, <2>1 DEF PageIsRun, Larger
<1>10. LiveIsRun'
    BY <1>1, <1>2, <1>6 DEF Exact, LiveIsRun
<1> QED
    BY <1>8, <1>9, <1>10 DEF Exact

LEMMA SendReplayedKeepsExact ==
    ASSUME TypeInv, TypeInv', Exact, SendReplayed
    PROVE  Exact'
<1>1. /\ stream = "replay" /\ page # <<>>
      /\ sent' = Append(sent, Head(page)) /\ page' = Tail(page)
      /\ UNCHANGED <<rows, cursor, pending, stream, from, ceiling, next, live, lagged, base>>
      /\ Told' = Told /\ First' = First
    BY DEF SendReplayed, writerVars, Told, First, Start
<1>2. /\ cursor \in Int /\ next \in Nat /\ ceiling \in Int /\ from \in Int /\ base \in Int
      /\ First \in Int /\ Len(sent) \in Nat /\ Len(page) \in Nat /\ from >= -1
      /\ page \in Seq(Block) /\ sent \in Seq(Block) /\ None = -1
    BY StreamKnown, FirstKnown
<1>3. /\ Len(page) > 0 /\ Head(page) = page[1] /\ Head(page) \in Block /\ 1 \in DOMAIN page
      /\ Len(page') = Len(page) - 1 /\ DOMAIN page' = 1 .. Len(page) - 1
      /\ DOMAIN page = 1 .. Len(page)
      /\ \A i \in 1 .. Len(page) - 1 : page'[i] = page[i + 1]
    BY <1>1, <1>2, BlockTail
<1>4. /\ Len(sent') = Len(sent) + 1 /\ DOMAIN sent' = 1 .. Len(sent) + 1
      /\ DOMAIN sent = 1 .. Len(sent)
      /\ \A i \in 1 .. Len(sent) : sent'[i] = sent[i]
      /\ sent'[Len(sent) + 1] = Head(page)
    BY <1>1, <1>2, <1>3, BlockAppended
<1>5. /\ from <= next - Len(page) /\ next <= Larger(from, ceiling + 1)
      /\ \A i \in DOMAIN page : page[i] = rows[next - Len(page) + i - 1]
      /\ from # None /\ (from <= ceiling => ceiling <= cursor)
    BY <1>1 DEF Exact, PageIsRun, LiveIsRun, TypeInv, PhasesKept
<1>6. next <= ceiling + 1 /\ ceiling <= cursor /\ from >= 0
    BY <1>2, <1>3, <1>5 DEF Larger
<1>7. Reached = next - 1 - Len(page) /\ Reached' = next - Len(page)
    BY <1>1, <1>2, <1>3, <1>6 DEF Reached, Smaller
<1>8. First + Len(sent) - 1 = next - 1 - Len(page)
    BY <1>1, <1>7 DEF Exact, SentIsRun
<1>9. Head(page) = rows[First + Len(sent)]
    <2>1. next - Len(page) + 1 - 1 = First + Len(sent)
        BY <1>2, <1>8
    <2> QED
        BY <1>3, <1>5, <2>1
<1>10. First + Len(sent) \in 0 .. cursor
    BY <1>2, <1>3, <1>5, <1>6, <1>8
<1>11. SentIsRun'
    <2>1. ASSUME NEW i \in DOMAIN sent'
          PROVE  First' + i - 1 \in 0 .. cursor' /\ sent'[i] = rows'[First' + i - 1]
        <3>1. CASE i \in 1 .. Len(sent)
            BY <1>1, <1>4, <3>1 DEF Exact, SentIsRun
        <3>2. CASE i = Len(sent) + 1
            <4>1. First' + i - 1 = First + Len(sent)
                BY <1>1, <1>2, <3>2
            <4> QED
                BY <1>1, <1>4, <1>9, <1>10, <3>2, <4>1
        <3> QED
            BY <1>2, <1>4, <3>1, <3>2
    <2>2. First' + Len(sent') - 1 = Reached'
        BY <1>1, <1>2, <1>4, <1>7, <1>8
    <2> QED
        BY <2>1, <2>2 DEF SentIsRun
<1>12. PageIsRun'
    <2>1. next' - Len(page') = next - Len(page) + 1
        BY <1>1, <1>2, <1>3
    <2>2. ASSUME NEW i \in DOMAIN page' PROVE page'[i] = rows'[next' - Len(page') + i - 1]
        <3>1. i + 1 \in DOMAIN page /\ page'[i] = page[i + 1]
            BY <1>2, <1>3
        <3>2. next - Len(page) + (i + 1) - 1 = next' - Len(page') + i - 1
            BY <1>2, <1>3, <2>1
        <3> QED
            BY <1>1, <1>5, <3>1, <3>2
    <2> QED
        BY <1>1, <1>2, <1>5, <2>1, <2>2 DEF PageIsRun
<1>13. LiveIsRun'
    BY <1>1 DEF Exact, LiveIsRun
<1> QED
    BY <1>11, <1>12, <1>13 DEF Exact

\* The replay ends where the broadcast goes on, or beyond.
LEMMA ReplayEndsKeepsExact ==
    ASSUME TypeInv, TypeInv', Exact, ReplayEnds
    PROVE  Exact'
<1>1. /\ stream = "replay" /\ stream' = "live" /\ page = <<>> /\ next > ceiling
      /\ UNCHANGED <<rows, cursor, pending, from, ceiling, next, page, live, lagged, sent, base>>
      /\ Told' = Told /\ First' = First /\ Told \in Int
    BY StreamKnown DEF ReplayEnds, writerVars, Told, First, Start
<1>2. /\ next \in Nat /\ ceiling \in Int /\ Len(page) = 0 /\ base \in Int /\ Len(live) \in Nat
    BY <1>1, StreamKnown, BlockSeqs
<1>3. from # None /\ base <= ceiling
    BY <1>1 DEF Exact, LiveIsRun, TypeInv, PhasesKept
<1>4. ~lagged => Reached' = Reached
    <2>1. Reached = ceiling
        BY <1>1, <1>2 DEF Reached, Smaller
    <2>2. ~lagged => Told - Len(live) <= ceiling
        BY <1>1, <1>3 DEF Exact, LiveIsRun
    <2> QED
        BY <1>1, <1>2, <2>1, <2>2 DEF Reached, Larger
<1>5. SentIsRun'
    BY <1>1, <1>4 DEF Exact, SentIsRun
<1>6. PageIsRun'
    BY <1>1 DEF PageIsRun
<1>7. LiveIsRun'
    BY <1>1 DEF Exact, LiveIsRun
<1> QED
    BY <1>5, <1>6, <1>7 DEF Exact

\* The next of the broadcast is the block above the last that was sent, or one
\* that was replayed.
LEMMA SendLiveKeepsExact ==
    ASSUME TypeInv, TypeInv', Exact, SendLive
    PROVE  Exact'
<1>1. /\ stream = "live" /\ live # <<>> /\ ~lagged
      /\ sent' = (IF Passes(Head(live)) THEN Append(sent, Head(live)) ELSE sent)
      /\ live' = Tail(live)
      /\ UNCHANGED <<rows, cursor, pending, stream, from, ceiling, next, page, lagged, base>>
      /\ Told' = Told /\ First' = First
    BY DEF SendLive, writerVars, Told, First, Start, TypeInv, PhasesKept
<1>2. /\ cursor \in Int /\ ceiling \in Int /\ base \in Int /\ base >= -1 /\ Told \in Int
      /\ First \in Int /\ Len(sent) \in Nat /\ Len(live) \in Nat /\ Told <= cursor
      /\ live \in Seq(Block) /\ sent \in Seq(Block)
      /\ cursor <= MaxHeight /\ MaxHeight \in Nat
    BY StreamKnown, FirstKnown
<1>3. /\ Len(live) > 0 /\ Head(live) = live[1] /\ Head(live) \in Block /\ 1 \in DOMAIN live
      /\ Len(live') = Len(live) - 1 /\ DOMAIN live' = 1 .. Len(live) - 1
      /\ DOMAIN live = 1 .. Len(live)
      /\ \A i \in 1 .. Len(live) - 1 : live'[i] = live[i + 1]
    BY <1>1, <1>2, BlockTail
<1> DEFINE h == Told - Len(live) + 1
<1>4. /\ base <= Told - Len(live) /\ Head(live) = rows[h]
    BY <1>1, <1>3 DEF Exact, LiveIsRun
<1>5. /\ h \in Heights /\ h <= cursor /\ h \in 0 .. cursor /\ Told' - Len(live') = h
    BY <1>1, <1>2, <1>3, <1>4 DEF Heights
<1>6. Head(live).height = h /\ (Passes(Head(live)) <=> h > ceiling)
    BY <1>4, <1>5, WriterKnown, TypeInvWriter DEF Passes
<1>7. Reached = Larger(h - 1, ceiling) /\ Reached' = Larger(h, ceiling)
      /\ First + Len(sent) - 1 = Reached
    <2>1. Reached' = Larger(Told' - Len(live'), ceiling)
        BY <1>1 DEF Reached
    <2>2. Reached = Larger(Told - Len(live), ceiling) /\ Told - Len(live) = h - 1
        BY <1>1, <1>2 DEF Reached
    <2> QED
        BY <1>1, <1>5, <2>1, <2>2 DEF Exact, SentIsRun
<1>8. LiveIsRun'
    <2>1. ASSUME NEW i \in DOMAIN live' PROVE live'[i] = rows'[Told' - Len(live') + i]
        <3>1. i + 1 \in DOMAIN live /\ live'[i] = live[i + 1]
            BY <1>2, <1>3
        <3>2. Told - Len(live) + (i + 1) = Told' - Len(live') + i
            BY <1>1, <1>2, <1>3
        <3> QED
            BY <1>1, <3>1, <3>2 DEF Exact, LiveIsRun
    <2>2. base' <= Told' - Len(live')
        BY <1>1, <1>2, <1>4, <1>5
    <2> QED
        BY <1>1, <2>1, <2>2 DEF Exact, LiveIsRun
<1> HIDE DEF h
<1>9. SentIsRun'
    <2>1. CASE h > ceiling
        <3>1. sent' = Append(sent, Head(live))
            BY <1>1, <1>6, <2>1
        <3>2. /\ Len(sent') = Len(sent) + 1 /\ DOMAIN sent' = 1 .. Len(sent) + 1
              /\ DOMAIN sent = 1 .. Len(sent)
              /\ \A i \in 1 .. Len(sent) : sent'[i] = sent[i]
              /\ sent'[Len(sent) + 1] = Head(live)
            BY <1>2, <1>3, <3>1, BlockAppended
        <3>3. h \in Int /\ First + Len(sent) = h /\ Reached' = h
            BY <1>2, <1>5, <1>7, <2>1 DEF Larger, Heights
        <3>4. ASSUME NEW i \in DOMAIN sent'
              PROVE  First' + i - 1 \in 0 .. cursor' /\ sent'[i] = rows'[First' + i - 1]
            <4>1. CASE i \in 1 .. Len(sent)
                BY <1>1, <3>2, <4>1 DEF Exact, SentIsRun
            <4>2. CASE i = Len(sent) + 1
                <5>1. First' + i - 1 = h
                    BY <1>1, <1>2, <3>3, <4>2
                <5> QED
                    BY <1>1, <1>4, <1>5, <3>2, <4>2, <5>1
            <4> QED
                BY <1>2, <3>2, <4>1, <4>2
        <3>5. First' + Len(sent') - 1 = Reached'
            BY <1>1, <1>2, <3>2, <3>3
        <3> QED
            BY <3>4, <3>5 DEF SentIsRun
    <2>2. CASE ~(h > ceiling)
        <3>1. sent' = sent /\ Reached' = Reached
            BY <1>1, <1>2, <1>5, <1>6, <1>7, <2>2 DEF Larger, Heights
        <3> QED
            BY <1>1, <3>1 DEF Exact, SentIsRun
    <2> QED
        BY <2>1, <2>2
<1>10. PageIsRun'
    BY <1>1 DEF PageIsRun
<1> QED
    BY <1>8, <1>9, <1>10 DEF Exact

LEMMA ExactKept ==
    ASSUME TypeInv, TypeInv', [Next]_vars,
           stream # "closed" /\ mishaps = {} => Exact, stream' # "closed", mishaps' = {}
    PROVE  Exact'
<1>1. CASE UNCHANGED vars
    BY <1>1 DEF vars, writerVars, connVars, Exact, SentIsRun, PageIsRun, LiveIsRun, First,
                Start, Reached, Told
<1>2. CASE Commit \/ Broadcast
    <2>1. stream' = stream /\ mishaps' = mishaps
        BY <1>2 DEF Commit, Broadcast, connVars
    <2> QED
        BY <1>2, <2>1, CommitKeepsExact, BroadcastKeepsExact
<1>3. CASE Open
    BY <1>3, OpenIsExact
<1>4. CASE ReadTip \/ ReadPage \/ SendReplayed \/ ReplayEnds \/ SendLive
    <2>1. stream # "closed" /\ mishaps' = mishaps
        BY <1>4 DEF ReadTip, ReadPage, Reading, SendReplayed, ReplayEnds, SendLive
    <2> QED
        BY <1>4, <2>1, ReadTipKeepsExact, ReadPageKeepsExact, SendReplayedKeepsExact,
           ReplayEndsKeepsExact, SendLiveKeepsExact
<1>5. ~(CommitUnanswered \/ Rollback \/ ReadPageFails)
    BY DEF CommitUnanswered, Rollback, ReadPageFails, Reading, Befalls, connVars
<1>6. ~(CutOff \/ Drop \/ Crash)
    BY DEF CutOff, Drop, Crash, Close
<1> QED
    BY <1>1, <1>2, <1>3, <1>4, <1>5, <1>6 DEF Next

-----------------------------------------------------------------------------
(***************************************************************************)
(* What waits for a connection through forks.                              *)
(***************************************************************************)
LEMMA LastAppended ==
    ASSUME NEW s \in Seq(Block), NEW b \in Block
    PROVE  /\ IsLast(Append(s, b), b.height, b)
           /\ \A h, x : h # b.height /\ IsLast(s, h, x) => IsLast(Append(s, b), h, x)
           /\ \A h : h # b.height /\ Lacks(s, h) => Lacks(Append(s, b), h)
<1> DEFINE t == Append(s, b)
<1>1. /\ Len(s) \in Nat /\ DOMAIN s = 1 .. Len(s) /\ DOMAIN t = 1 .. Len(s) + 1
      /\ \A i \in 1 .. Len(s) : t[i] = s[i]
      /\ t[Len(s) + 1] = b
    BY BlockAppended
<1> HIDE DEF t
<1>2. IsLast(t, b.height, b)
    BY <1>1 DEF IsLast
<1>3. ASSUME NEW h, NEW x, h # b.height, IsLast(s, h, x) PROVE IsLast(t, h, x)
    <2>1. PICK i \in DOMAIN s :
            /\ s[i] = x /\ x.height = h
            /\ \A j \in DOMAIN s : s[j].height = h => j <= i
        BY <1>3 DEF IsLast
    <2>2. i \in DOMAIN t /\ t[i] = x
        BY <1>1, <2>1
    <2>3. ASSUME NEW j \in DOMAIN t, t[j].height = h PROVE j <= i
        <3>1. j # Len(s) + 1
            BY <1>1, <1>3, <2>3
        <3>2. j \in 1 .. Len(s)
            BY <1>1, <3>1
        <3> QED
            BY <1>1, <2>1, <2>3, <3>2
    <2> QED
        BY <2>1, <2>2, <2>3 DEF IsLast
<1>4. ASSUME NEW h, h # b.height, Lacks(s, h) PROVE Lacks(t, h)
    <2> SUFFICES ASSUME NEW i \in DOMAIN t PROVE t[i].height # h
        BY DEF Lacks
    <2>1. CASE i = Len(s) + 1
        BY <1>1, <1>4, <2>1
    <2>2. CASE i # Len(s) + 1
        <3>1. i \in 1 .. Len(s)
            BY <1>1, <2>2
        <3> QED
            BY <1>1, <1>4, <3>1 DEF Lacks
    <2> QED
        BY <2>1, <2>2
<1> QED
    BY <1>2, <1>3, <1>4 DEF t

LEMMA LastOfTail ==
    ASSUME NEW s \in Seq(Block), s # <<>>
    PROVE  /\ Head(s) \in Block
           /\ \A h, x : IsLast(s, h, x) =>
                \/ IsLast(Tail(s), h, x)
                \/ Head(s) = x /\ x.height = h /\ Lacks(Tail(s), h)
           /\ \A h : Lacks(s, h) => Lacks(Tail(s), h) /\ Head(s).height # h
<1> DEFINE t == Tail(s)
<1>1. /\ Len(s) \in Nat \ {0} /\ Head(s) = s[1] /\ Head(s) \in Block
      /\ DOMAIN s = 1 .. Len(s) /\ DOMAIN t = 1 .. Len(s) - 1
      /\ \A i \in 1 .. Len(s) - 1 : t[i] = s[i + 1]
    BY BlockTail
<1> HIDE DEF t
<1>2. \A i \in DOMAIN t : i + 1 \in DOMAIN s /\ t[i] = s[i + 1] /\ i \in Nat
    BY <1>1
<1>3. ASSUME NEW h, NEW x, IsLast(s, h, x)
      PROVE  \/ IsLast(t, h, x)
             \/ Head(s) = x /\ x.height = h /\ Lacks(t, h)
    <2>1. PICK i \in DOMAIN s :
            /\ s[i] = x /\ x.height = h
            /\ \A j \in DOMAIN s : s[j].height = h => j <= i
        BY <1>3 DEF IsLast
    <2>2. ASSUME NEW j \in DOMAIN t, t[j].height = h PROVE j + 1 <= i
        BY <1>2, <2>1, <2>2
    <2>3. CASE i = 1
        <3>1. Lacks(t, h)
            BY <1>1, <2>2, <2>3 DEF Lacks
        <3> QED
            BY <1>1, <2>1, <2>3, <3>1
    <2>4. CASE i # 1
        <3>1. i - 1 \in DOMAIN t /\ t[i - 1] = x
            BY <1>1, <2>1, <2>4
        <3>2. \A j \in DOMAIN t : t[j].height = h => j <= i - 1
            BY <1>1, <2>2
        <3> QED
            BY <2>1, <3>1, <3>2 DEF IsLast
    <2> QED
        BY <2>3, <2>4
<1>4. ASSUME NEW h, Lacks(s, h) PROVE Lacks(t, h) /\ Head(s).height # h
    <2>1. 1 \in DOMAIN s
        BY <1>1
    <2> QED
        BY <1>1, <1>2, <1>4, <2>1 DEF Lacks
<1> QED
    BY <1>1, <1>3, <1>4 DEF t

LEMMA StoreKeepsCover ==
    ASSUME TypeInv, TypeInv', LiveCovers, Commit \/ Rollback, stream # "closed"
    PROVE  LiveCovers'
<1>1. UNCHANGED <<stream, ceiling, live, sent>>
    BY DEF Commit, Rollback, connVars
<1>2. /\ Told = cursor /\ Told' <= cursor /\ Told' \in Int /\ cursor \in Int /\ base \in Int
      /\ \A h \in Heights : h <= Told' => rows'[h] = rows[h]
      /\ base' <= Told'
      /\ \A h \in Heights : base' < h /\ h <= Told' => base < h /\ h <= Told
    <2>1. cursor \in Int /\ base \in Int /\ Told \in Int /\ Told = cursor - Len(pending)
        BY StreamKnown
    <2>2. CASE Commit
        <3>1. /\ pending = <<>> /\ base' = base /\ cursor' = cursor + Len(pending')
              /\ pending' \in Seq(Block)
              /\ \A h \in Heights : h <= cursor => rows'[h] = rows[h]
            BY <2>2, CommitAdds DEF Committing, Commit, connVars
        <3>2. Told' = cursor /\ Told = cursor
            BY <2>1, <3>1, BlockSeqs DEF Told
        <3> QED
            BY <2>1, <3>1, <3>2 DEF LiveCovers
    <2>3. CASE Rollback
        <3>1. /\ pending = <<>> /\ pending' = <<>> /\ cursor' = cursor - 1
              /\ base' = Smaller(base, cursor')
              /\ \A h \in Heights : h <= cursor' => rows'[h] = rows[h]
            BY <2>3, RollbackTakesTop DEF Rollback
        <3>2. Told' = cursor - 1 /\ Told = cursor
            BY <2>1, <3>1, BlockSeqs DEF Told
        <3> QED
            BY <2>1, <3>1, <3>2 DEF Smaller, Heights
    <2> QED
        BY <2>2, <2>3
<1>3. ASSUME NEW h \in Heights, base' < h, h <= Told' PROVE Covered(h)'
    <2>1. Covered(h) /\ rows'[h] = rows[h]
        BY <1>2, <1>3 DEF LiveCovers
    <2> QED
        BY <1>1, <2>1 DEF Covered, IsLast, Lacks
<1> QED
    BY <1>2, <1>3 DEF LiveCovers

LEMMA BroadcastKeepsCover ==
    ASSUME TypeInv, TypeInv', LiveCovers, Broadcast, stream # "closed", ~lagged'
    PROVE  LiveCovers'
<1> DEFINE b == Head(pending)
<1>1. /\ pending # <<>> /\ pending' = Tail(pending)
      /\ UNCHANGED <<rows, cursor, stream, from, ceiling, sent, base>>
      /\ live' = Append(live, b)
    BY DEF Broadcast, Subscribed, writerVars, Queue
<1>2. /\ pending \in Seq(Block) /\ live \in Seq(Block) /\ cursor \in Int /\ base \in Int
      /\ Told \in Int /\ Told >= -1 /\ Told <= cursor /\ cursor <= MaxHeight /\ MaxHeight \in Nat
    BY StreamKnown
<1>3. b = rows[Told + 1] /\ Told' = Told + 1 /\ b \in Block /\ Told + 1 <= cursor
    <2>1. /\ pending[1] = rows[Told + 1] /\ b = pending[1] /\ b \in Block
          /\ Len(pending') = Len(pending) - 1 /\ Len(pending) \in Nat \ {0}
        BY <1>1, <1>2, BlockTail DEF TypeInv, PendingIsTop
    <2> QED
        BY <1>1, <1>2, <2>1 DEF Told
<1> HIDE DEF b
<1>4. b.height = Told + 1
    <2>1. Told + 1 \in Heights
        BY <1>2, <1>3 DEF Heights
    <2> QED
        BY <1>3, <2>1, WriterKnown, TypeInvWriter
<1>5. ASSUME NEW h \in Heights, base' < h, h <= Told' PROVE Covered(h)'
    <2>1. CASE h = Told + 1
        BY <1>1, <1>2, <1>3, <1>4, <2>1, LastAppended DEF Covered
    <2>2. CASE h # Told + 1
        <3>1. Covered(h)
            BY <1>1, <1>2, <1>3, <1>5, <2>2 DEF LiveCovers, Heights
        <3>2. IsLast(live, h, rows[h]) => IsLast(live', h, rows[h])
            BY <1>1, <1>2, <1>3, <1>4, <2>2, LastAppended
        <3>3. Lacks(live, h) => Lacks(live', h)
            BY <1>1, <1>2, <1>3, <1>4, <2>2, LastAppended
        <3> QED
            BY <1>1, <3>1, <3>2, <3>3 DEF Covered
    <2> QED
        BY <2>1, <2>2
<1>6. base' <= Told'
    BY <1>1, <1>2, <1>3 DEF LiveCovers
<1> QED
    BY <1>5, <1>6 DEF LiveCovers

LEMMA SendLiveKeepsCover ==
    ASSUME TypeInv, LiveCovers, SendLive
    PROVE  LiveCovers'
<1> DEFINE b == Head(live)
<1>1. /\ stream = "live" /\ live # <<>>
      /\ sent' = (IF Passes(b) THEN Append(sent, b) ELSE sent)
      /\ live' = Tail(live)
      /\ UNCHANGED <<rows, cursor, pending, stream, ceiling, base>>
      /\ Told' = Told
    BY DEF SendLive, writerVars, Told
<1>2. live \in Seq(Block) /\ sent \in Seq(Block) /\ b \in Block
    BY <1>1, StreamKnown, LastOfTail
<1>3. ASSUME NEW h \in Heights, Covered(h) PROVE Covered(h)'
    <2> SUFFICES \/ IsLast(live', h, rows[h])
                 \/ /\ Lacks(live', h)
                    /\ h > ceiling => IsLast(sent', h, rows[h])
        BY <1>1 DEF Covered
    <2>1. CASE IsLast(live, h, rows[h])
        <3>1. \/ IsLast(live', h, rows[h])
              \/ b = rows[h] /\ rows[h].height = h /\ Lacks(live', h)
            BY <1>1, <1>2, <2>1, LastOfTail
        <3>2. CASE b = rows[h] /\ rows[h].height = h /\ Lacks(live', h)
            <4>1. h > ceiling => IsLast(sent', h, rows[h])
                BY <1>1, <1>2, <3>2, LastAppended DEF Passes
            <4> QED
                BY <3>2, <4>1
        <3> QED
            BY <3>1, <3>2
    <2>2. CASE Lacks(live, h) /\ (h > ceiling => IsLast(sent, h, rows[h]))
        <3>1. Lacks(live', h) /\ b.height # h
            BY <1>1, <1>2, <2>2, LastOfTail
        <3>2. IsLast(sent, h, rows[h]) => IsLast(sent', h, rows[h])
            BY <1>1, <1>2, <3>1, LastAppended
        <3> QED
            BY <2>2, <3>1, <3>2
    <2> QED
        BY <1>3, <2>1, <2>2 DEF Covered
<1> HIDE DEF b
<1> QED
    BY <1>1, <1>3 DEF LiveCovers

LEMMA CoverKept ==
    ASSUME TypeInv, TypeInv', [Next]_vars, Promised => LiveCovers, Promised'
    PROVE  LiveCovers'
<1>1. CASE UNCHANGED vars
    BY <1>1 DEF vars, writerVars, connVars, Promised, LiveCovers, Covered, IsLast, Lacks, Told
<1>2. CASE Commit \/ Rollback
    <2>1. /\ UNCHANGED <<stream, lagged>>
          /\ mishaps' = mishaps \/ mishaps' = IF stream = "closed" THEN {} ELSE mishaps \cup {"rollback"}
        BY <1>2 DEF Commit, Rollback, Befalls, connVars
    <2>2. Promised
        BY <2>1 DEF Promised
    <2> QED
        BY <1>2, <2>2, StoreKeepsCover DEF Promised
<1>3. CASE Broadcast
    <2>1. Promised
        BY <1>3 DEF Promised, Broadcast, Subscribed, Queue
    <2> QED
        BY <1>3, <2>1, BroadcastKeepsCover DEF Promised
<1>4. CASE Open
    <2>1. base' = Told /\ Told' = Told /\ Told \in Int
        BY <1>4, StreamKnown DEF Open, Told, writerVars
    <2> QED
        BY <2>1 DEF LiveCovers, Heights
<1>5. CASE ReadTip \/ ReadPage \/ SendReplayed \/ ReplayEnds
    <2>1. /\ stream \in {"opening", "replay"} /\ mishaps' = mishaps
          /\ UNCHANGED <<rows, cursor, pending, live, lagged, base>>
        BY <1>5 DEF ReadTip, ReadPage, Reading, SendReplayed, ReplayEnds, writerVars
    <2>2. Promised /\ Told' = Told
        BY <2>1 DEF Promised, Told
    <2> QED
        BY <2>1, <2>2 DEF LiveCovers, Covered, IsLast
<1>6. CASE SendLive
    <2>1. Promised
        BY <1>6 DEF SendLive, Promised
    <2> QED
        BY <1>6, <2>1, SendLiveKeepsCover
<1>7. ~(CommitUnanswered \/ ReadPageFails)
    BY DEF CommitUnanswered, ReadPageFails, Reading, Befalls, Promised, connVars
<1>8. ~(CutOff \/ Drop \/ Crash)
    BY DEF CutOff, Drop, Crash, Close, Promised
<1> QED
    BY <1>1, <1>2, <1>3, <1>4, <1>5, <1>6, <1>7, <1>8 DEF Next

-----------------------------------------------------------------------------
LEMMA StreamInvStarts == Init => StreamInv
BY TypesStart DEF Init, Closed, Promised, StreamInv

LEMMA StreamInvKept == StreamInv /\ [Next]_vars => StreamInv'
<1> SUFFICES ASSUME StreamInv, [Next]_vars PROVE StreamInv'
    OBVIOUS
<1>1. TypeInv /\ TypeInv'
    BY TypesKept DEF StreamInv
<1>2. stream' # "closed" /\ mishaps' = {} => Exact'
    BY <1>1, ExactKept DEF StreamInv
<1>3. Promised' => LiveCovers'
    BY <1>1, CoverKept DEF StreamInv
<1> QED
    BY <1>1, <1>2, <1>3 DEF StreamInv

LEMMA StreamAlways == Spec => []StreamInv
BY StreamInvStarts, StreamInvKept, PTL DEF Spec

\* Each event of an exact connection is the row of its height.
LEMMA SentHeights ==
    ASSUME TypeInv, SentIsRun
    PROVE  \A i \in DOMAIN sent :
                /\ First + i - 1 \in Heights /\ sent[i] = rows[First + i - 1]
                /\ sent[i].height = First + i - 1
<1> SUFFICES ASSUME NEW i \in DOMAIN sent
             PROVE  /\ First + i - 1 \in Heights /\ sent[i] = rows[First + i - 1]
                    /\ sent[i].height = First + i - 1
    OBVIOUS
<1>1. First + i - 1 \in 0 .. cursor /\ sent[i] = rows[First + i - 1]
    BY DEF SentIsRun
<1>2. First + i - 1 \in Heights /\ First + i - 1 <= cursor
    BY <1>1, StreamKnown DEF Heights
<1> QED
    BY <1>1, <1>2, WriterKnown, TypeInvWriter

\* A connection nothing befell was sent each height once and in order, from the
\* one it asked for, however commits, broadcasts, reads and sends interleaved.
THEOREM HandoffAlwaysExact == Spec => []HandoffExact
<1>1. StreamInv => HandoffExact
    <2> SUFFICES ASSUME StreamInv, mishaps = {} PROVE Consecutive
        BY DEF HandoffExact
    <2>1. TypeInv /\ sent \in Seq(Block) /\ Len(sent) \in Nat /\ DOMAIN sent = 1 .. Len(sent)
        BY StreamKnown DEF StreamInv
    <2>2. CASE stream = "closed"
        <3>1. sent = <<>> /\ Len(sent) = 0
            BY <2>1, <2>2, BlockSeqs DEF TypeInv, PhasesKept, Closed
        <3> QED
            BY <3>1 DEF Consecutive
    <2>3. CASE stream # "closed"
        <3>1. \A i \in 1 .. Len(sent) : sent[i].height = First + i - 1
            BY <2>1, <2>3, SentHeights DEF StreamInv, Exact
        <3>2. First \in Int
            BY <2>1, FirstKnown
        <3>3. \A i \in 1 .. Len(sent) - 1 : sent[i + 1].height = sent[i].height + 1
            BY <2>1, <3>1, <3>2
        <3>4. from # None /\ sent # <<>> => sent[1].height = Start
            <4>1. sent # <<>> => 1 \in 1 .. Len(sent)
                BY <2>1, BlockSeqs
            <4>2. from # None => First = Start
                BY DEF First
            <4> QED
                BY <3>1, <3>2, <4>1, <4>2
        <3> QED
            BY <3>3, <3>4 DEF Consecutive
    <2> QED
        BY <2>2, <2>3
<1> QED
    BY <1>1, StreamAlways, PTL

\* What a client holds for a height is the last event of it.
LEMMA HeldIsLast ==
    ASSUME TypeInv, NEW h, NEW b, IsLast(sent, h, b)
    PROVE  Held(h) = b
<1> DEFINE at == {i \in DOMAIN sent : sent[i].height = h}
           top(i) == \A j \in at : j <= i
<1>1. PICK i \in DOMAIN sent :
        /\ sent[i] = b /\ b.height = h
        /\ \A j \in DOMAIN sent : sent[j].height = h => j <= i
    BY DEF IsLast
<1>2. i \in at /\ top(i)
    BY <1>1
<1>3. \A k \in at : top(k) => k = i
    <2>1. \A k \in at : k \in Int
        BY StreamKnown
    <2> QED
        BY <1>2, <2>1
<1>4. (CHOOSE k \in at : top(k)) = i
    <2> HIDE DEF at, top
    <2> QED
        BY <1>2, <1>3
<1>5. Held(h) = sent[CHOOSE k \in at : top(k)]
    BY <1>2 DEF Held
<1> QED
    BY <1>1, <1>4, <1>5

\* A drained stream has sent the stored row of every height it owes its client,
\* through any number of forks.
THEOREM NothingEverMissed == Spec => []NothingMissed
<1>1. StreamInv => NothingMissed
    <2> SUFFICES ASSUME StreamInv, Drained, mishaps \subseteq {"rollback"},
                        NEW h \in Heights, h <= cursor, Owed(h)
                 PROVE  IsLast(sent, h, rows[h])
        BY HeldIsLast DEF NothingMissed, StreamInv
    <2>1. /\ TypeInv /\ stream = "live" /\ live = <<>> /\ ~lagged /\ Told = cursor
          /\ DOMAIN live = {} /\ Len(live) = 0
        <3>1. TypeInv /\ stream = "live" /\ live = <<>> /\ ~lagged /\ pending = <<>>
            BY DEF StreamInv, Drained
        <3>2. Told = cursor - Len(pending) /\ cursor \in Int
            BY <3>1, StreamKnown
        <3> QED
            BY <3>1, <3>2, BlockSeqs
    <2>2. CASE h > base /\ h > ceiling
        <3>1. Covered(h)
            BY <2>1, <2>2, StreamKnown DEF StreamInv, Promised, LiveCovers, Heights
        <3> QED
            BY <2>1, <2>2, <3>1 DEF Covered, IsLast
    <2>3. CASE from # None /\ h >= from /\ "rollback" \notin mishaps
        <3>1. Exact
            BY <2>1, <2>3 DEF StreamInv
        <3>2. /\ from \in Int /\ ceiling \in Int /\ cursor \in Int /\ h \in Int
              /\ Len(sent) \in Nat /\ DOMAIN sent = 1 .. Len(sent)
            BY <2>1, StreamKnown DEF Heights
        <3>3. First \in Int /\ First <= h
            BY <2>3, <3>2 DEF First, Start, Smaller
        <3>4. First + Len(sent) - 1 >= h
            BY <2>1, <3>1, <3>2 DEF Exact, SentIsRun, Reached, Larger
        <3>5. h - First + 1 \in DOMAIN sent /\ First + (h - First + 1) - 1 = h
            BY <3>2, <3>3, <3>4
        <3>6. \A i \in DOMAIN sent :
                sent[i] = rows[First + i - 1] /\ sent[i].height = First + i - 1
            BY <2>1, <3>1, SentHeights DEF Exact
        <3>7. sent[h - First + 1] = rows[h] /\ rows[h].height = h
            BY <3>5, <3>6
        <3>8. \A j \in DOMAIN sent : sent[j].height = h => j <= h - First + 1
            BY <3>2, <3>3, <3>6
        <3> QED
            BY <3>5, <3>7, <3>8 DEF IsLast
    <2> QED
        BY <2>2, <2>3 DEF Owed
<1> QED
    BY <1>1, StreamAlways, PTL

=============================================================================
