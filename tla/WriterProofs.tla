---------------------------- MODULE WriterProofs ----------------------------
(***************************************************************************)
(* What the two steps of the writer do to the store, for every module that *)
(* takes them: they keep the rows one run of blocks up to the cursor, and  *)
(* each is a step of ChainIndex.                                           *)
(***************************************************************************)
EXTENDS Writer, WellFoundedInduction, FiniteSetTheorems, SequenceTheorems,
        TLAPS

USE BlocksAssumption, WriterAssumption

\* A set of naturals with an element has a least one.
LEMMA Least ==
    ASSUME NEW T \in SUBSET Nat, T # {}
    PROVE  \E x \in T : \A y \in T : x <= y
<1> DEFINE Less == OpToRel(<, Nat)
<1>1. IsWellFoundedOn(Less, Nat)
    BY NatLessThanWellFounded
<1>2. \A x, y \in Nat : x < y => <<x, y>> \in Less
    BY DEF OpToRel
<1> HIDE DEF Less
<1>3. PICK x \in T : \A y \in T : <<y, x>> \notin Less
    BY <1>1, WFMin
<1>4. \A y \in T : ~(y < x)
    BY <1>2, <1>3
<1> QED
    BY <1>4

\* What a function makes of a finite set is finite.
LEMMA ImageFinite ==
    ASSUME NEW S, IsFiniteSet(S), NEW f, DOMAIN f = S
    PROVE  IsFiniteSet({f[x] : x \in S})
<1> DEFINE T == {f[x] : x \in S}
           g == [x \in S |-> f[x]]
<1>1. g \in Surjection(S, T)
    BY DEF Surjection
<1> QED
    BY <1>1, FS_Surjection

\* What is taken from a sequence and what is put on it.
LEMMA HeadAndTail ==
    ASSUME NEW S, NEW s \in Seq(S), s # <<>>
    PROVE  /\ Len(s) \in Nat \ {0} /\ Head(s) = s[1] /\ Head(s) \in S
           /\ Tail(s) \in Seq(S) /\ Len(Tail(s)) = Len(s) - 1
           /\ DOMAIN s = 1 .. Len(s) /\ DOMAIN Tail(s) = 1 .. Len(s) - 1
           /\ \A i \in 1 .. Len(s) - 1 : Tail(s)[i] = s[i + 1]
           /\ Tail(s) = <<>> <=> Len(s) = 1
<1>1. Len(s) \in Nat \ {0} /\ DOMAIN s = 1 .. Len(s) /\ Head(s) = s[1]
    BY EmptySeq, LenProperties
<1>2. /\ Head(s) \in S /\ Tail(s) \in Seq(S) /\ Len(Tail(s)) = Len(s) - 1
      /\ \A i \in 1 .. Len(Tail(s)) : Tail(s)[i] = s[i + 1]
    BY HeadTailProperties
<1>3. DOMAIN Tail(s) = 1 .. Len(Tail(s))
    BY <1>2, LenProperties
<1>4. Tail(s) = <<>> <=> Len(Tail(s)) = 0
    BY <1>2, EmptySeq
<1> QED
    BY <1>1, <1>2, <1>3, <1>4

LEMMA Appended ==
    ASSUME NEW S, NEW s \in Seq(S), NEW b \in S
    PROVE  /\ Append(s, b) \in Seq(S) /\ Append(s, b) # <<>>
           /\ Len(s) \in Nat /\ Len(Append(s, b)) = Len(s) + 1
           /\ DOMAIN s = 1 .. Len(s) /\ DOMAIN Append(s, b) = 1 .. Len(s) + 1
           /\ \A i \in 1 .. Len(s) : Append(s, b)[i] = s[i]
           /\ Append(s, b)[Len(s) + 1] = b
BY AppendProperties, LenProperties

LEMMA EmptyKnown ==
    ASSUME NEW S
    PROVE  /\ <<>> \in Seq(S) /\ Len(<<>>) = 0 /\ DOMAIN <<>> = {}
           /\ \A s \in Seq(S) : s = <<>> <=> Len(s) = 0
BY EmptySeq, LenProperties

\* The same of sequences of blocks.
LEMMA BlockSeqs ==
    /\ <<>> \in Seq(Block) /\ Len(<<>>) = 0 /\ DOMAIN <<>> = {}
    /\ \A s \in Seq(Block) :
        /\ Len(s) \in Nat /\ DOMAIN s = 1 .. Len(s) /\ (s = <<>> <=> Len(s) = 0)
        /\ \A i \in 1 .. Len(s) : s[i] \in Block
BY EmptyKnown, LenProperties

LEMMA BlockTail ==
    \A s \in Seq(Block) : s # <<>> =>
        /\ Len(s) \in Nat \ {0} /\ Head(s) = s[1] /\ Head(s) \in Block
        /\ Tail(s) \in Seq(Block) /\ Len(Tail(s)) = Len(s) - 1
        /\ DOMAIN s = 1 .. Len(s) /\ DOMAIN Tail(s) = 1 .. Len(s) - 1
        /\ \A i \in 1 .. Len(s) - 1 : Tail(s)[i] = s[i + 1]
BY HeadAndTail

LEMMA BlockAppended ==
    \A s \in Seq(Block), b \in Block :
        /\ Append(s, b) \in Seq(Block)
        /\ Len(s) \in Nat /\ Len(Append(s, b)) = Len(s) + 1
        /\ DOMAIN s = 1 .. Len(s) /\ DOMAIN Append(s, b) = 1 .. Len(s) + 1
        /\ \A i \in 1 .. Len(s) : Append(s, b)[i] = s[i]
        /\ Append(s, b)[Len(s) + 1] = b
BY Appended

\* A row at every height up to the cursor, and none above.
RowsToCursor ==
    \A h \in Heights :
        IF h <= cursor THEN rows[h] \in Block /\ rows[h].height = h
                       ELSE rows[h] = NoBlock

WriterInv == WriterTypeOK /\ RowsToCursor

LEMMA WriterKnown ==
    ASSUME WriterInv
    PROVE  /\ MaxHeight \in Nat /\ cursor \in Int /\ cursor >= -1 /\ cursor <= MaxHeight
           /\ branch \in Hashes
           /\ \A h \in Heights : h <= cursor => rows[h] \in Block /\ rows[h].height = h
BY DEF WriterInv, WriterTypeOK, RowsToCursor, Heights, None

\* The store begins as ChainIndex does.
LEMMA WriterStarts == WriterInit => WriterInv /\ CI!Init
BY DEF WriterInit, WriterInv, WriterTypeOK, RowsToCursor, NoRows, Heights, Hashes, None,
       NoBlock, CI!Init, CI!Empty, CI!Heights, CI!NoBlock, CI!None

\* The blocks of a batch stand above the cursor in order, each on the one below.
LEMMA BatchAbove ==
    ASSUME WriterInv, NEW n \in 1 .. Smaller(MaxBatch, MaxHeight - cursor)
    PROVE  /\ BlocksAbove(n) \in Seq(Block) /\ Len(BlocksAbove(n)) = n
           /\ BlocksAbove(n) # <<>> /\ n \in Nat \ {0} /\ cursor + n \in Heights
           /\ \A i \in 1 .. n :
                /\ BlocksAbove(n)[i] \in Block
                /\ BlocksAbove(n)[i].height = cursor + i
                /\ BlocksAbove(n)[i].hash = branch
                /\ i > 1 => BlocksAbove(n)[i].parent = branch
           /\ cursor # None => BlocksAbove(n)[1].parent = rows[cursor].hash
<1>1. /\ n \in Nat \ {0} /\ cursor \in Int /\ cursor >= None
      /\ \A i \in 1 .. n : cursor + i \in Heights
      /\ cursor + n \in Heights
    BY DEF WriterInv, WriterTypeOK, Smaller, Heights, None
<1>2. branch \in Hashes /\ (cursor # None => rows[cursor].hash \in Hashes)
    <2>1. branch \in Hashes
        BY DEF WriterInv, WriterTypeOK
    <2>2. cursor # None => cursor \in Heights /\ rows[cursor] \in Block
        BY <1>1 DEF WriterInv, WriterTypeOK, RowsToCursor
    <2> QED
        BY <2>1, <2>2 DEF Block
<1>3. \A i \in 1 .. n :
        [height |-> cursor + i, hash |-> branch,
         parent |-> IF i > 1 \/ cursor = None THEN branch ELSE rows[cursor].hash] \in Block
    BY <1>1, <1>2 DEF Block
<1>4. BlocksAbove(n) \in [1 .. n -> Block]
    BY <1>3 DEF BlocksAbove
<1>5. BlocksAbove(n) \in Seq(Block) /\ Len(BlocksAbove(n)) = n
    BY <1>1, <1>4
<1>6. BlocksAbove(n) # <<>>
    BY <1>1, <1>5
<1>7. \A i \in 1 .. n :
        /\ BlocksAbove(n)[i] \in Block
        /\ BlocksAbove(n)[i].height = cursor + i
        /\ BlocksAbove(n)[i].hash = branch
        /\ i > 1 => BlocksAbove(n)[i].parent = branch
    BY <1>1, <1>3 DEF BlocksAbove
<1>8. cursor # None => BlocksAbove(n)[1].parent = rows[cursor].hash
    BY <1>1 DEF BlocksAbove
<1> QED
    BY <1>1, <1>5, <1>6, <1>7, <1>8

\* A batch that lands keeps the rows one run, with a higher cursor.
LEMMA StoreGrows ==
    ASSUME WriterInv, NEW n \in 1 .. Smaller(MaxBatch, MaxHeight - cursor),
           Store(BlocksAbove(n)), branch' \in Hashes
    PROVE  /\ WriterInv' /\ CI!Grow /\ cursor' = cursor + n
           /\ \A h \in Heights :
                rows'[h] = IF cursor < h /\ h <= cursor + n THEN BlocksAbove(n)[h - cursor]
                                                           ELSE rows[h]
<1> DEFINE bs == BlocksAbove(n)
<1>1. /\ bs \in Seq(Block) /\ Len(bs) = n /\ bs # <<>>
      /\ n \in Nat \ {0} /\ cursor + n \in Heights /\ cursor \in Int /\ cursor >= None
    BY BatchAbove DEF WriterInv, WriterTypeOK, Heights, None
<1>2. \A i \in 1 .. n :
        /\ bs[i] \in Block /\ bs[i].height = cursor + i /\ bs[i].hash = branch
        /\ i > 1 => bs[i].parent = branch
    BY BatchAbove
<1>3. cursor # None => bs[1].parent = rows[cursor].hash
    BY BatchAbove
<1>4. DOMAIN bs = 1 .. n
    BY <1>1
<1> HIDE DEF bs
<1>5. cursor' = cursor + n
    BY <1>1, <1>2 DEF Store, InsertCursor, Larger, Heights, bs
<1>6. ASSUME NEW h \in Heights
      PROVE  rows'[h] = IF cursor < h /\ h <= cursor + n THEN bs[h - cursor] ELSE rows[h]
    <2>1. Offered(bs, h) = {i \in 1 .. n : cursor + i = h}
        BY <1>2, <1>4 DEF Offered
    <2>2. rows'[h] = IF ~IsStored(rows, h) /\ Offered(bs, h) # {}
                     THEN bs[CHOOSE i \in Offered(bs, h) : TRUE] ELSE rows[h]
        BY DEF Store, InsertRows, bs
    <2>3. IsStored(rows, h) <=> h <= cursor
        BY DEF IsStored, WriterInv, RowsToCursor, NoBlock, Block, None, Heights
    <2>4. CASE cursor < h /\ h <= cursor + n
        <3>1. Offered(bs, h) = {h - cursor}
            BY <1>1, <2>1, <2>4 DEF Heights
        <3> QED
            BY <1>1, <2>2, <2>3, <2>4, <3>1 DEF Heights
    <2>5. CASE ~(cursor < h /\ h <= cursor + n)
        BY <1>1, <2>1, <2>2, <2>3, <2>5 DEF Heights
    <2> QED
        BY <2>4, <2>5
<1>7. DOMAIN rows' = Heights /\ rows' = [h \in Heights |-> rows'[h]]
    BY DEF Store, InsertRows
<1>8. \A h \in Heights :
        cursor < h /\ h <= cursor + n =>
            h - cursor \in 1 .. n /\ rows'[h] \in Block /\ rows'[h].height = h
    BY <1>1, <1>2, <1>6 DEF Heights
<1>9. RowsToCursor'
    BY <1>1, <1>5, <1>6, <1>8 DEF WriterInv, RowsToCursor, Heights
<1>10. \A h \in Heights : rows'[h] \in Block \cup {NoBlock}
    BY <1>9 DEF RowsToCursor
<1>11. WriterInv'
    BY <1>1, <1>5, <1>7, <1>9, <1>10 DEF WriterInv, WriterTypeOK
<1>12. ASSUME NEW h \in Heights, cursor < h, h <= cursor + n, h > 0
       PROVE  rows'[h].parent = rows'[h - 1].hash
    <2>1. h - 1 \in Heights /\ h - cursor \in 1 .. n /\ rows'[h] = bs[h - cursor]
        BY <1>1, <1>6, <1>12 DEF Heights
    <2>2. CASE h = cursor + 1
        <3>1. rows'[h - 1] = rows[cursor] /\ cursor # None /\ h - cursor = 1
            BY <1>1, <1>6, <1>12, <2>1, <2>2 DEF Heights, None
        <3> QED
            BY <1>3, <2>1, <3>1
    <2>3. CASE h > cursor + 1
        <3>1. /\ (h - 1) - cursor \in 1 .. n /\ h - cursor > 1
              /\ rows'[h - 1] = bs[(h - 1) - cursor]
            BY <1>1, <1>6, <1>12, <2>1, <2>3 DEF Heights
        <3> QED
            BY <1>2, <2>1, <3>1
    <2> QED
        BY <1>1, <1>12, <2>2, <2>3 DEF Heights
<1>13. CI!Grow
    <2>1. cursor + n > cursor
        BY <1>1
    <2>2. \A h \in Heights :
            /\ h <= cursor \/ h > cursor + n => rows'[h] = rows[h]
            /\ cursor < h /\ h <= cursor + n =>
                /\ rows'[h].height = h
                /\ h > 0 => rows'[h].parent = rows'[h - 1].hash
        BY <1>1, <1>6, <1>8, <1>12 DEF Heights
    <2> QED
        BY <1>1, <1>5, <2>1, <2>2 DEF CI!Grow, CI!Heights, Heights
<1> QED
    BY <1>5, <1>6, <1>11, <1>13 DEF bs

\* Un-indexing the block at the cursor keeps them one run, one shorter.
LEMMA UnstoreRetracts ==
    ASSUME WriterInv, Unstore, branch' \in Hashes
    PROVE  /\ WriterInv' /\ CI!Retract /\ cursor' = cursor - 1 /\ cursor > 0
           /\ \A h \in Heights : h < cursor => rows'[h] = rows[h]
<1>1. cursor > 0 /\ cursor \in Heights /\ cursor - 1 \in Heights /\ cursor' = cursor - 1
    BY DEF WriterInv, WriterTypeOK, Unstore, RollbackCursor, Heights, None
<1>2. rows' = [h \in Heights |-> IF h > cursor - 1 THEN NoBlock ELSE rows[h]]
    BY DEF Unstore, RollbackRows
<1>3. RowsToCursor'
    BY <1>1, <1>2 DEF WriterInv, RowsToCursor, Heights
<1>4. WriterInv'
    BY <1>1, <1>2, <1>3 DEF WriterInv, WriterTypeOK
<1>5. CI!Retract
    BY <1>1, <1>2 DEF CI!Retract, CI!Heights, CI!NoBlock, Heights, NoBlock, CI!None, None
<1>6. \A h \in Heights : h < cursor => rows'[h] = rows[h]
    BY <1>1, <1>2 DEF Heights
<1> QED
    BY <1>1, <1>4, <1>5, <1>6

-----------------------------------------------------------------------------
(***************************************************************************)
(* What a page is.                                                         *)
(***************************************************************************)
\* How many rows there are to read between two heights, up to a limit.
RunLength(low, high, limit) ==
    IF low <= Smaller(high, cursor)
    THEN Smaller(Smaller(high, cursor) - low + 1, limit)
    ELSE 0

\* Of one run of rows a page is the first part from its lower end.
LEMMA RowsBetweenIs ==
    ASSUME WriterInv, NEW low \in Nat, NEW high \in Int, high <= MaxHeight,
           NEW limit \in Nat \ {0}
    PROVE  LET n == RunLength(low, high, limit)
           IN  /\ n \in Nat /\ n <= limit
               /\ RowsBetween(low, high, limit) = [i \in 1 .. n |-> rows[low + i - 1]]
               /\ RowsBetween(low, high, limit) \in Seq(Block)
               /\ Len(RowsBetween(low, high, limit)) = n
               /\ \A i \in 1 .. n :
                    /\ low + i - 1 \in Heights /\ low + i - 1 <= high /\ low + i - 1 <= cursor
                    /\ RowsBetween(low, high, limit)[i] = rows[low + i - 1]
                    /\ rows[low + i - 1] \in Block
                    /\ rows[low + i - 1].height = low + i - 1
<1> DEFINE top      == Smaller(high, cursor)
           stored   == {h \in low .. high : IsStored(rows, h)}
           place(h) == Cardinality({g \in stored : g <= h})
           n        == RunLength(low, high, limit)
<1>1. /\ cursor \in Int /\ cursor >= -1 /\ cursor <= MaxHeight /\ MaxHeight \in Nat
      /\ top \in Int /\ top <= high /\ top <= cursor /\ (top = high \/ top = cursor)
    BY DEF WriterInv, WriterTypeOK, Smaller, Heights, None
<1>2. stored = low .. top
    <2>1. \A h \in low .. high : IsStored(rows, h) <=> h <= cursor
        BY <1>1 DEF IsStored, WriterInv, RowsToCursor, NoBlock, Block, None, Heights
    <2> QED
        BY <1>1, <2>1
<1>3. Cardinality(stored) = IF low > top THEN 0 ELSE top - low + 1
    <2> HIDE DEF top, stored
    <2>1. low \in Int /\ top \in Int
        BY <1>1
    <2>2. Cardinality(low .. top) = IF low > top THEN 0 ELSE top - low + 1
        BY <2>1, FS_Interval
    <2> QED
        BY <1>2, <2>2
<1>4. n \in Nat /\ n <= limit /\ n = Smaller(Cardinality(stored), limit)
    BY <1>1, <1>3 DEF RunLength, Smaller
<1>5. ASSUME NEW h \in stored PROVE place(h) = h - low + 1
    <2>1. {g \in stored : g <= h} = low .. h
        BY <1>1, <1>2
    <2>2. h \in Int /\ low <= h
        BY <1>1, <1>2
    <2>3. Cardinality(low .. h) = h - low + 1
        BY <2>2, FS_Interval
    <2> QED
        BY <2>1, <2>3
<1>6. ASSUME NEW i \in 1 .. n PROVE (CHOOSE h \in stored : place(h) = i) = low + i - 1
    <2>1. low + i - 1 \in stored
        BY <1>1, <1>2, <1>3, <1>4 DEF Smaller
    <2>2. place(low + i - 1) = i
        BY <1>5, <2>1
    <2>3. \A h \in stored : place(h) = i => h = low + i - 1
        <3> SUFFICES ASSUME NEW h \in stored, place(h) = i PROVE h = low + i - 1
            OBVIOUS
        <3>1. h \in Int /\ place(h) = h - low + 1
            BY <1>1, <1>2, <1>5
        <3> QED
            BY <3>1
    <2> HIDE DEF place
    <2> QED
        BY <2>1, <2>2, <2>3
<1>7. RowsBetween(low, high, limit) = [i \in 1 .. n |-> rows[low + i - 1]]
    <2>1. RowsBetween(low, high, limit) =
            [i \in 1 .. n |-> rows[CHOOSE h \in stored : place(h) = i]]
        BY <1>4 DEF RowsBetween
    <2> QED
        BY <1>6, <2>1
<1>8. ASSUME NEW i \in 1 .. n
      PROVE  /\ low + i - 1 \in Heights /\ low + i - 1 <= high /\ low + i - 1 <= cursor
             /\ rows[low + i - 1] \in Block
             /\ rows[low + i - 1].height = low + i - 1
    <2>1. low + i - 1 \in Heights /\ low + i - 1 <= high /\ low + i - 1 <= cursor
        BY <1>1, <1>3, <1>4 DEF Heights, Smaller
    <2> QED
        BY <2>1 DEF WriterInv, RowsToCursor
<1> HIDE DEF n, top, stored, place
<1>9. RowsBetween(low, high, limit) \in [1 .. n -> Block]
    BY <1>7, <1>8
<1>10. RowsBetween(low, high, limit) \in Seq(Block) /\ Len(RowsBetween(low, high, limit)) = n
    BY <1>4, <1>9
<1> QED
    BY <1>4, <1>7, <1>8, <1>10 DEF n
=============================================================================
