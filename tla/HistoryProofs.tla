--------------------------- MODULE HistoryProofs ---------------------------
(***************************************************************************)
(* Theorems about state as of a height: the rows are those of the blocks   *)
(* stored, and an answer as of a height that stays indexed is of it alone, *)
(* however blocks come and go between the reads it takes.                  *)
(***************************************************************************)
EXTENDS StateHistory, WriterProofs, FiniteSetTheorems

USE BlocksAssumption, StateAssumption

-----------------------------------------------------------------------------
(***************************************************************************)
(* State at a height.                                                      *)
(***************************************************************************)
\* A set of heights with an element has a greatest one.
LEMMA Greatest ==
    ASSUME NEW S \in SUBSET Heights, S # {}
    PROVE  \E x \in S : \A y \in S : y <= x
<1> DEFINE T == {MaxHeight - x : x \in S}
<1>0. \A x \in S : x \in Int /\ MaxHeight \in Int /\ MaxHeight - x \in Nat
    BY DEF Heights
<1>1. T \in SUBSET Nat /\ T # {}
    <2>1. \A t \in T : t \in Nat
        BY <1>0
    <2>2. PICK s \in S : TRUE
        OBVIOUS
    <2>3. MaxHeight - s \in T
        BY <2>2
    <2> QED
        BY <2>1, <2>3
<1>2. PICK t \in T : \A u \in T : t <= u
    BY <1>1, Least
<1>3. PICK x \in S : t = MaxHeight - x
    BY <1>2
<1>4. ASSUME NEW y \in S PROVE y <= x
    <2>1. MaxHeight - x <= MaxHeight - y
        BY <1>2, <1>3
    <2> QED
        BY <1>0, <2>1
<1> QED
    BY <1>4

\* The blocks at or below h that changed a cell.
Changed(blocks, c, h) == {g \in Heights : g <= h /\ c \in DOMAIN blocks[g].change}

\* State at a height is what the last of these blocks made of the cell.
LEMMA StateIsLastChange ==
    ASSUME NEW blocks, NEW c, NEW h
    PROVE  IF Changed(blocks, c, h) = {} THEN StateAt(blocks, c, h) = NoVersion
           ELSE \E g \in Changed(blocks, c, h) :
                    /\ \A f \in Changed(blocks, c, h) : f <= g
                    /\ StateAt(blocks, c, h) = [height |-> g, value |-> blocks[g].change[c]]
<1> DEFINE S == Changed(blocks, c, h)
           last == CHOOSE g \in S : \A f \in S : f <= g
<1>1. StateAt(blocks, c, h) = IF S = {} THEN NoVersion
                              ELSE [height |-> last, value |-> blocks[last].change[c]]
    BY DEF StateAt, Changed
<1>2. S \in SUBSET Heights
    BY DEF Changed
<1> HIDE DEF S
<1>3. S # {} => last \in S /\ \A f \in S : f <= last
    BY <1>2, Greatest
<1> QED
    BY <1>1, <1>3 DEF S

\* It depends on nothing above that height.
LEMMA StateKeeps ==
    ASSUME NEW a, NEW b, NEW c, NEW h, \A g \in Heights : g <= h => a[g] = b[g]
    PROVE  StateAt(a, c, h) = StateAt(b, c, h)
<1>1. Changed(a, c, h) = Changed(b, c, h)
    BY DEF Changed
<1>2. CASE Changed(a, c, h) = {}
    BY <1>1, <1>2, StateIsLastChange
<1>3. CASE Changed(a, c, h) # {}
    <2>1. PICK f \in Changed(a, c, h) :
            /\ \A g \in Changed(a, c, h) : g <= f
            /\ StateAt(a, c, h) = [height |-> f, value |-> a[f].change[c]]
        BY <1>3, StateIsLastChange
    <2>2. PICK e \in Changed(b, c, h) :
            /\ \A g \in Changed(b, c, h) : g <= e
            /\ StateAt(b, c, h) = [height |-> e, value |-> b[e].change[c]]
        BY <1>1, <1>3, StateIsLastChange
    <2>3. e = f /\ a[f] = b[f]
        BY <1>1, <2>1, <2>2 DEF Changed, Heights
    <2> QED
        BY <2>1, <2>2, <2>3
<1> QED
    BY <1>2, <1>3

\* Nor do the holdings.
LEMMA HoldingsKeep ==
    ASSUME NEW a, NEW b, NEW h, \A g \in Heights : g <= h => a[g] = b[g],
           NEW table, NEW who
    PROVE  Holdings(a, table, who, h) = Holdings(b, table, who, h)
<1>1. \A x \in who : StateAt(a, <<table, x>>, h) = StateAt(b, <<table, x>>, h)
    BY StateKeeps
<1> QED
    BY <1>1 DEF Holdings

\* A query finds the state at its height in the rows of the blocks stored.
LEMMA AsOfIsState ==
    ASSUME NEW blocks, NEW c, NEW h, NEW stored,
           stored = {[height |-> g, value |-> blocks[g].change[c]] :
                        g \in {g \in Heights : c \in DOMAIN blocks[g].change}}
    PROVE  AsOf(stored, h) = StateAt(blocks, c, h)
<1> DEFINE S == Changed(blocks, c, h)
           row(g) == [height |-> g, value |-> blocks[g].change[c]]
           below == {v \in stored : v.height <= h}
<1>1. \A v : v \in below <=> \E g \in S : v = row(g)
    BY DEF Changed
<1>2. AsOf(stored, h) = IF below = {} THEN NoVersion
                        ELSE CHOOSE v \in below : \A w \in below : w.height <= v.height
    BY DEF AsOf
<1>3. CASE S = {}
    BY <1>1, <1>2, <1>3, StateIsLastChange
<1>4. CASE S # {}
    <2>1. PICK last \in S : /\ \A f \in S : f <= last
                            /\ StateAt(blocks, c, h) = row(last)
        BY <1>4, StateIsLastChange
    <2>2. row(last) \in below /\ \A w \in below : w.height <= row(last).height
        BY <1>1, <2>1
    <2>3. ASSUME NEW v \in below, \A w \in below : w.height <= v.height
          PROVE  v = row(last)
        <3>1. PICK g \in S : v = row(g)
            BY <1>1
        <3>2. last <= g /\ g <= last
            BY <2>1, <2>2, <2>3, <3>1
        <3>3. g = last
            BY <3>2 DEF Changed, Heights
        <3> QED
            BY <3>1, <3>3
    <2> HIDE DEF below, row
    <2>4. AsOf(stored, h) = row(last)
        BY <1>2, <2>2, <2>3
    <2> QED
        BY <2>1, <2>4
<1> QED
    BY <1>3, <1>4

-----------------------------------------------------------------------------
(***************************************************************************)
(* A page.                                                                 *)
(***************************************************************************)
\* Holdings are finite, as the addresses are.
LEMMA HoldingsFinite ==
    ASSUME NEW blocks, NEW table, NEW h
    PROVE  IsFiniteSet(Holdings(blocks, table, Addresses, h))
<1> DEFINE S == {a \in Addresses : Shows(table, StateAt(blocks, <<table, a>>, h))}
           f == [a \in S |-> <<<<table, a>>, StateAt(blocks, <<table, a>>, h)>>]
           T == Holdings(blocks, table, Addresses, h)
<1>1. IsFiniteSet(S)
    BY FS_Subset
<1>2. T = {f[a] : a \in S}
    BY DEF Holdings
<1> HIDE DEF S, T
<1>3. f \in Surjection(S, T)
    BY <1>2 DEF Surjection
<1> HIDE DEF f
<1>4. IsFiniteSet(T)
    BY <1>1, <1>3, FS_Surjection
<1> QED
    BY <1>4 DEF T

\* The first PageLimit of a finite set, in the order of the addresses, are all
\* of it up to the last of them; and if they are fewer, all of it.
LEMMA PageIsPrefix ==
    ASSUME NEW B, IsFiniteSet(B), \A e \in B : e[1][2] \in Nat,
           NEW page,
           page = {e \in B : Cardinality({f \in B : f[1][2] < e[1][2]}) < PageLimit}
    PROVE  /\ \A e \in page, f \in B : f[1][2] <= e[1][2] => f \in page
           /\ Cardinality(page) < PageLimit => page = B
           /\ page = {} => B = {}
<1> DEFINE before(e) == {f \in B : f[1][2] < e[1][2]}
<1>1. page \subseteq B /\ \A e \in B : e \in page <=> Cardinality(before(e)) < PageLimit
    OBVIOUS
<1>2. /\ \A e \in B : IsFiniteSet(before(e)) /\ Cardinality(before(e)) \in Nat
      /\ IsFiniteSet(page) /\ Cardinality(page) \in Nat
    <2>1. \A S \in SUBSET B : IsFiniteSet(S)
        BY FS_Subset
    <2>2. \A e \in B : before(e) \in SUBSET B
        OBVIOUS
    <2> HIDE DEF before
    <2>3. \A S \in SUBSET B : Cardinality(S) \in Nat
        BY <2>1, FS_CardinalityType
    <2> QED
        BY <1>1, <2>1, <2>2, <2>3
<1>3. ASSUME NEW e \in page, NEW f \in B, f[1][2] <= e[1][2]
      PROVE  f \in page
    <2>1. e \in B /\ before(f) \subseteq before(e)
        BY <1>1, <1>3
    <2> HIDE DEF before
    <2>2. Cardinality(before(f)) <= Cardinality(before(e))
        BY <1>2, <2>1, FS_Subset
    <2> QED
        BY <1>1, <1>2, <2>1, <2>2
<1>4. ASSUME Cardinality(page) < PageLimit, page # B
      PROVE  FALSE
    <2> DEFINE T == {e[1][2] : e \in B \ page}
    <2>0. PICK f \in B \ page : TRUE
        BY <1>1, <1>4
    <2>1. T \in SUBSET Nat /\ T # {}
        <3>1. \A t \in T : t \in Nat
            OBVIOUS
        <3>2. f[1][2] \in T
            OBVIOUS
        <3> QED
            BY <3>1, <3>2
    <2>2. PICK t \in T : \A u \in T : t <= u
        BY <2>1, Least
    <2>3. PICK e \in B \ page : e[1][2] = t
        BY <2>2
    <2>4. ASSUME NEW g \in B, g[1][2] < e[1][2], g \notin page
          PROVE  FALSE
        <3>1. g[1][2] \in T
            BY <2>4
        <3>2. t <= g[1][2] /\ t \in Nat /\ g[1][2] \in Nat
            BY <2>1, <2>2, <3>1
        <3> QED
            BY <2>3, <2>4, <3>2
    <2>5. before(e) \subseteq page
        BY <2>4
    <2> HIDE DEF before
    <2>6. Cardinality(before(e)) <= Cardinality(page)
        BY <1>2, <2>5, FS_Subset
    <2> QED
        BY <1>1, <1>2, <1>4, <2>3, <2>6
<1>5. page = {} => B = {}
    <2>1. Cardinality({}) = 0 /\ 0 < PageLimit
        BY FS_EmptySet
    <2> HIDE DEF before
    <2>2. page = {} => Cardinality(page) < PageLimit
        BY <2>1
    <2>3. page = {} => page = B
        BY <1>4, <2>2
    <2> QED
        BY <2>3
<1> QED
    BY <1>3, <1>4, <1>5

-----------------------------------------------------------------------------
(***************************************************************************)
(* The inductive invariant, in two halves: what is stored, and what the    *)
(* request being answered has read of it.                                  *)
(***************************************************************************)
StoreTypeOK ==
    /\ WriterTypeOK
    /\ versions \in [Cells -> SUBSET Version]
    /\ disputed \subseteq {h \in Heights : IsStored(rows, h)}
    /\ applied \in [Heights -> [change : Effects \cup {<<>>}, disputes : SUBSET Heights]]

RequestTypeOK ==
    /\ kind \in {"account", "holders", "export"}
    /\ step \in {"idle", "account", "assets", "stakes", "page", "cursor", "export", "done"}
    /\ subject \in Addresses \cup {0} /\ at \in 0 .. Latest
    /\ after \in Addresses \cup {0}
    /\ got \subseteq Cells \X Version
    /\ steady \in BOOLEAN

\* The rows of a cell are what the blocks stored made of it.
RowsAreChanges ==
    \A c \in Cells :
        versions[c] = {[height |-> g, value |-> applied[g].change[c]] :
                            g \in {g \in Heights : c \in DOMAIN applied[g].change}}

\* No block above the cursor has had its effects.
NothingAbove == \A g \in Heights : g > cursor => applied[g] = NotApplied

\* A block disputes blocks below its own.
DisputesBelow == \A g \in Heights, d \in Heights : d \in applied[g].disputes => d < g

StoreInv ==
    /\ StoreTypeOK /\ RowsToCursor
    /\ RowsAreChanges /\ NothingAbove /\ DisputesBelow /\ DisputesStand

\* Each read belongs to one kind of request.
KindOfStep ==
    /\ step \in {"account", "assets", "stakes"} => kind = "account" /\ subject \in Addresses
    /\ step = "page" => kind = "holders"
    /\ step \in {"cursor", "export"} => kind = "export"

\* The holdings as of the height asked for.
Held(table, who) == Holdings(applied, table, who, at)

\* What has been read so far is a part of the answer, the part before the read
\* that is next.
AnswerSoFar ==
    /\ step \in {"account", "cursor", "export"} => got = {}
    /\ steady =>
        /\ at <= cursor
        /\ step = "assets" => got = Held("account", {subject}) /\ got # {}
        /\ step = "stakes" =>
            /\ Held("account", {subject}) # {}
            /\ got = Held("account", {subject}) \cup Held("asset", {subject})
        /\ step = "page" => got = {e \in Held("asset", Addresses) : e[1][2] <= after}
        /\ step = "done" => got = Answer

RequestInv == RequestTypeOK /\ KindOfStep /\ AnswerSoFar

HistoryInv == StoreInv /\ RequestInv

-----------------------------------------------------------------------------
(***************************************************************************)
(* The index task keeps the first half ...                                 *)
(***************************************************************************)
\* A stored height is one up to the cursor.
LEMMA StoredToCursor ==
    ASSUME RowsToCursor
    PROVE  \A h \in Heights : IsStored(rows, h) <=> h <= cursor
BY DEF RowsToCursor, IsStored, NoBlock, Block, Heights, None

\* A batch puts its rows and flags, and leaves what is below as it was.
LEMMA CommitKeepsStore ==
    ASSUME StoreInv, Commit
    PROVE  /\ StoreInv' /\ CI!Grow
           /\ cursor' >= cursor /\ cursor \in Int
           /\ \A h \in Heights : h <= cursor => applied'[h] = applied[h]
<1>1. PICK n \in 1 .. Smaller(MaxBatch, MaxHeight - cursor) :
      \E change \in [cursor + 1 .. cursor + n -> Effects],
         disputing \in SUBSET (Larger(1, cursor + 1) .. cursor + n) :
        /\ Store(BlocksAbove(n))
        /\ versions' = [c \in Cells |->
              versions[c] \cup UNION {Added(c, h, change[h]) : h \in DOMAIN change}]
        /\ disputed' = Flagged({h - 1 : h \in disputing}, cursor + n)
        /\ applied' = [h \in Heights |->
              IF h \in DOMAIN change
              THEN [change |-> change[h], disputes |-> {h - 1} \cap {g - 1 : g \in disputing}]
              ELSE applied[h]]
        /\ UNCHANGED <<branch, requestVars>>
    BY DEF Commit
<1>2. PICK change \in [cursor + 1 .. cursor + n -> Effects],
           disputing \in SUBSET (Larger(1, cursor + 1) .. cursor + n) :
        /\ Store(BlocksAbove(n))
        /\ versions' = [c \in Cells |->
              versions[c] \cup UNION {Added(c, h, change[h]) : h \in DOMAIN change}]
        /\ disputed' = Flagged({h - 1 : h \in disputing}, cursor + n)
        /\ applied' = [h \in Heights |->
              IF h \in DOMAIN change
              THEN [change |-> change[h], disputes |-> {h - 1} \cap {g - 1 : g \in disputing}]
              ELSE applied[h]]
        /\ UNCHANGED <<branch, requestVars>>
    BY <1>1
<1> DEFINE D == cursor + 1 .. cursor + n
<1>3. WriterInv /\ branch' \in Hashes
    BY <1>2 DEF StoreInv, StoreTypeOK, WriterInv, WriterTypeOK
<1>4. WriterInv' /\ CI!Grow /\ cursor' = cursor + n
    BY <1>2, <1>3, StoreGrows
<1>5. /\ n \in Nat \ {0} /\ cursor + n \in Heights /\ cursor \in Int /\ cursor >= None
      /\ D \subseteq Heights /\ DOMAIN change = D
    BY <1>3, BatchAbove DEF WriterInv, WriterTypeOK, Heights, None
<1>6. \A h \in disputing : h \in D /\ h >= 1 /\ h - 1 \in Heights
    BY <1>5 DEF Larger, Heights
<1>7. \A h \in Heights :
        /\ h \in D => /\ applied'[h].change = change[h]
                      /\ applied'[h].disputes = {h - 1} \cap {g - 1 : g \in disputing}
        /\ h \notin D => applied'[h] = applied[h]
    BY <1>2, <1>5
<1>8. applied' \in [Heights -> [change : Effects \cup {<<>>}, disputes : SUBSET Heights]]
    <2>1. \A h \in D : {h - 1} \cap {g - 1 : g \in disputing} \in SUBSET Heights
        BY <1>6
    <2>2. \A h \in D : change[h] \in Effects
        BY <1>5
    <2> QED
        BY <1>2, <1>5, <2>1, <2>2 DEF StoreInv, StoreTypeOK
<1>9. ASSUME NEW c \in Cells
      PROVE  /\ versions'[c] = versions[c] \cup UNION {Added(c, h, change[h]) : h \in D}
             /\ \A h \in D : Added(c, h, change[h])
                    = IF c \in DOMAIN change[h]
                      THEN {[height |-> h, value |-> change[h][c]]} ELSE {}
    <2>1. ASSUME NEW v \in versions[c], NEW h \in D
          PROVE  v.height # h
        <3>1. PICK g \in Heights : c \in DOMAIN applied[g].change /\ v.height = g
            BY DEF StoreInv, RowsAreChanges
        <3>2. g > cursor => DOMAIN applied[g].change = {}
            BY DEF StoreInv, NothingAbove, NotApplied
        <3> QED
            BY <1>5, <3>1, <3>2 DEF Heights
    <2> QED
        BY <1>2, <1>5, <2>1 DEF Added
<1>10. RowsAreChanges'
    <2> SUFFICES ASSUME NEW c \in Cells
                 PROVE  versions'[c] = {[height |-> g, value |-> applied'[g].change[c]] :
                            g \in {g \in Heights : c \in DOMAIN applied'[g].change}}
        BY DEF RowsAreChanges
    <2>1. \A h \in D : h \in Heights /\ DOMAIN applied[h].change = {}
        BY <1>5 DEF StoreInv, NothingAbove, NotApplied, Heights
    <2>2. \A v : v \in versions'[c] <=>
            \/ v \in versions[c]
            \/ \E g \in D : c \in DOMAIN change[g] /\ v = [height |-> g, value |-> change[g][c]]
        BY <1>9
    <2>3. \A v : v \in versions[c] <=>
            \E g \in Heights : /\ c \in DOMAIN applied[g].change
                              /\ v = [height |-> g, value |-> applied[g].change[c]]
        BY DEF StoreInv, RowsAreChanges
    <2> HIDE DEF D
    <2>4. \A v : v \in versions'[c] <=>
            \E g \in Heights : /\ c \in DOMAIN applied'[g].change
                              /\ v = [height |-> g, value |-> applied'[g].change[c]]
        BY <1>7, <2>1, <2>2, <2>3
    <2> QED
        BY <2>4
<1>11. versions' \in [Cells -> SUBSET Version]
    <2>1. ASSUME NEW c \in Cells, NEW h \in D, c \in DOMAIN change[h]
          PROVE  [height |-> h, value |-> change[h][c]] \in Version
        <3>1. change[h] \in Effects
            BY <1>5
        <3>2. PICK S \in SUBSET Cells : change[h] \in [S -> Values]
            BY <3>1
        <3> QED
            BY <1>5, <2>1, <3>2 DEF Version
    <2>2. \A c \in Cells : versions[c] \in SUBSET Version
        BY DEF StoreInv, StoreTypeOK
    <2>3. \A c \in Cells : versions'[c] \in SUBSET Version
        BY <1>9, <2>1, <2>2
    <2>4. versions' = [c \in Cells |-> versions'[c]]
        BY <1>2
    <2> QED
        BY <2>3, <2>4
<1>12. NothingAbove'
    BY <1>4, <1>5, <1>7 DEF StoreInv, NothingAbove, Heights
<1>13. DisputesBelow'
    BY <1>5, <1>7 DEF StoreInv, DisputesBelow, Heights
<1>14. \A d : d \in disputed' <=> d \in disputed \/ \E h \in disputing : d = h - 1
    BY <1>2, <1>5, <1>6 DEF Flagged, Heights
<1>15. disputed' \subseteq {h \in Heights : IsStored(rows', h)}
    <2>1. \A h \in Heights : IsStored(rows', h) <=> h <= cursor'
        BY <1>4, StoredToCursor DEF WriterInv, RowsToCursor, IsStored, NoBlock, Block, Heights, None
    <2>2. \A d \in disputed : d \in Heights /\ d <= cursor
        BY StoredToCursor DEF StoreInv, StoreTypeOK
    <2>3. \A d \in disputed' : d \in Heights /\ d <= cursor'
        BY <1>4, <1>5, <1>6, <1>14, <2>2 DEF Heights
    <2> QED
        BY <2>1, <2>3
<1>16. DisputesStand'
    <2>1. ASSUME NEW h \in 0 .. cursor' , NEW d \in applied'[h].disputes
          PROVE  d \in disputed'
        <3>1. CASE h \in D
            BY <1>5, <1>7, <1>14, <3>1
        <3>2. CASE h \notin D
            BY <1>4, <1>5, <1>7, <1>14, <2>1, <3>2 DEF StoreInv, DisputesStand, Heights
        <3> QED
            BY <3>1, <3>2
    <2> QED
        BY <2>1 DEF DisputesStand
<1>17. StoreInv'
    BY <1>4, <1>8, <1>10, <1>11, <1>12, <1>13, <1>15, <1>16
       DEF StoreInv, StoreTypeOK, WriterInv
<1> QED
    BY <1>4, <1>5, <1>7, <1>17

\* A rollback takes back the block at the cursor and nothing else.
LEMMA RollbackKeepsStore ==
    ASSUME StoreInv, Rollback
    PROVE  /\ StoreInv' /\ CI!Retract
           /\ cursor' = cursor - 1 /\ cursor \in Int
           /\ \A h \in Heights : h < cursor => applied'[h] = applied[h]
<1>1. /\ Unstore /\ branch' \in Hashes
      /\ versions' = VersionsUpTo(cursor - 1)
      /\ disputed' = FlagsUpTo(cursor - 1)
      /\ applied' = [applied EXCEPT ![cursor] = NotApplied]
    BY DEF Rollback, StoreInv, StoreTypeOK, WriterTypeOK, Hashes
<1>2. WriterInv
    BY DEF StoreInv, StoreTypeOK, WriterInv
<1>3. WriterInv' /\ CI!Retract /\ cursor' = cursor - 1
    BY <1>1, <1>2, UnstoreRetracts
<1>4. cursor \in Heights /\ cursor \in Int /\ cursor > 0
    BY <1>1, <1>2 DEF Unstore, WriterInv, WriterTypeOK, Heights, None
<1>5. /\ applied'[cursor] = NotApplied
      /\ \A h \in Heights : h # cursor => applied'[h] = applied[h]
    BY <1>1, <1>4 DEF StoreInv, StoreTypeOK
<1>6. applied' \in [Heights -> [change : Effects \cup {<<>>}, disputes : SUBSET Heights]]
    <2>1. NotApplied \in [change : Effects \cup {<<>>}, disputes : SUBSET Heights]
        BY DEF NotApplied
    <2> QED
        BY <1>1, <1>4, <2>1 DEF StoreInv, StoreTypeOK
<1>7. \A c \in Cells : versions'[c] = {v \in versions[c] : v.height <= cursor - 1}
    BY <1>1 DEF VersionsUpTo
<1>8. versions' \in [Cells -> SUBSET Version]
    BY <1>1, <1>7 DEF StoreInv, StoreTypeOK, VersionsUpTo
<1>9. NothingAbove'
    BY <1>3, <1>4, <1>5 DEF StoreInv, NothingAbove, Heights
<1>10. RowsAreChanges'
    <2> SUFFICES ASSUME NEW c \in Cells
                 PROVE  versions'[c] = {[height |-> g, value |-> applied'[g].change[c]] :
                            g \in {g \in Heights : c \in DOMAIN applied'[g].change}}
        BY DEF RowsAreChanges
    <2>1. \A v : v \in versions[c] <=>
            \E g \in Heights : /\ c \in DOMAIN applied[g].change
                              /\ v = [height |-> g, value |-> applied[g].change[c]]
        BY DEF StoreInv, RowsAreChanges
    <2>2. \A g \in Heights : g > cursor - 1 => DOMAIN applied'[g].change = {}
        BY <1>3, <1>9 DEF NothingAbove, NotApplied
    <2>3. \A g \in Heights : g <= cursor - 1 => applied'[g] = applied[g]
        BY <1>4, <1>5 DEF Heights
    <2>4. \A v : v \in versions'[c] <=>
            \E g \in Heights : /\ c \in DOMAIN applied'[g].change
                              /\ v = [height |-> g, value |-> applied'[g].change[c]]
        BY <1>4, <1>7, <2>1, <2>2, <2>3 DEF Heights
    <2> QED
        BY <2>4
<1>11. DisputesBelow'
    BY <1>4, <1>5 DEF StoreInv, DisputesBelow, NotApplied
<1>12. disputed' \subseteq {h \in Heights : IsStored(rows', h)}
    <2>1. \A h \in Heights : IsStored(rows', h) <=> h <= cursor'
        BY <1>3 DEF WriterInv, RowsToCursor, IsStored, NoBlock, Block, Heights, None
    <2> QED
        BY <1>1, <1>3, <2>1 DEF FlagsUpTo, StoreInv, StoreTypeOK
<1>13. DisputesStand'
    <2>1. ASSUME NEW h \in 0 .. cursor - 1, NEW d \in applied'[h].disputes
          PROVE  d \in disputed'
        <3>1. h \in Heights /\ h \in 0 .. cursor /\ h < cursor /\ applied'[h] = applied[h]
            BY <1>4, <1>5 DEF Heights
        <3>2. d \in Heights /\ d < h /\ d \in disputed
            BY <2>1, <3>1 DEF StoreInv, StoreTypeOK, DisputesBelow, DisputesStand
        <3> QED
            BY <1>1, <1>4, <3>1, <3>2 DEF FlagsUpTo, Heights
    <2> QED
        BY <1>3, <2>1 DEF DisputesStand
<1>14. StoreInv'
    BY <1>3, <1>6, <1>8, <1>9, <1>10, <1>11, <1>12, <1>13
       DEF StoreInv, StoreTypeOK, WriterInv
<1> QED
    BY <1>3, <1>4, <1>5, <1>14 DEF Heights

-----------------------------------------------------------------------------
(***************************************************************************)
(* ... and, as it leaves alone what is below, the second.                  *)
(***************************************************************************)
\* What a query as of h returns is what was held at h.
LEMMA RowsAreHoldings ==
    ASSUME RowsAreChanges, NEW table \in Tables, NEW who \in SUBSET Addresses, NEW h
    PROVE  Rows(table, who, h) = Holdings(applied, table, who, h)
<1>1. \A a \in who :
        AsOf(versions[<<table, a>>], h) = StateAt(applied, <<table, a>>, h)
    BY AsOfIsState DEF RowsAreChanges, Cells
<1> QED
    BY <1>1 DEF Rows, Holdings

\* It is rows, each of a cell.
LEMMA HoldingsTyped ==
    ASSUME StoreTypeOK, NEW table \in Tables, NEW who \in SUBSET Addresses, NEW h
    PROVE  /\ Holdings(applied, table, who, h) \subseteq Cells \X Version
           /\ \A e \in Holdings(applied, table, who, h) : e[1][2] \in who
<1>1. ASSUME NEW a \in who, Shows(table, StateAt(applied, <<table, a>>, h))
      PROVE  <<<<table, a>>, StateAt(applied, <<table, a>>, h)>> \in Cells \X Version
    <2> DEFINE c == <<table, a>>
    <2>1. c \in Cells
        BY DEF Cells
    <2>2. StateAt(applied, c, h) # NoVersion
        BY <1>1 DEF Shows
    <2>3. PICK g \in Changed(applied, c, h) :
            StateAt(applied, c, h) = [height |-> g, value |-> applied[g].change[c]]
        BY <2>2, StateIsLastChange
    <2>4. g \in Heights /\ c \in DOMAIN applied[g].change
        BY DEF Changed
    <2>5. applied[g].change \in Effects \cup {<<>>} /\ DOMAIN <<>> = {}
        BY <2>4 DEF StoreTypeOK
    <2>6. PICK S \in SUBSET Cells : applied[g].change \in [S -> Values]
        BY <2>4, <2>5
    <2>7. applied[g].change[c] \in Values
        BY <2>4, <2>6
    <2> QED
        BY <2>1, <2>3, <2>4, <2>7 DEF Version
<1>2. ASSUME NEW e \in Holdings(applied, table, who, h)
      PROVE  e \in Cells \X Version /\ e[1][2] \in who
    <2>1. PICK a \in who : /\ Shows(table, StateAt(applied, <<table, a>>, h))
                           /\ e = <<<<table, a>>, StateAt(applied, <<table, a>>, h)>>
        BY DEF Holdings
    <2> QED
        BY <1>1, <2>1
<1> QED
    BY <1>2

\* A step of the index task leaves what a steady request has read as it was.
LEMMA TaskKeepsRequest ==
    ASSUME RequestInv,
           UNCHANGED <<kind, step, subject, at, after, got>>, steady' \in BOOLEAN,
           steady' => /\ steady /\ at <= cursor'
                      /\ \A g \in Heights : g <= at => applied'[g] = applied[g]
    PROVE  RequestInv'
<1>1. RequestTypeOK' /\ KindOfStep'
    BY DEF RequestInv, RequestTypeOK, KindOfStep
<1>2. ASSUME steady', NEW table, NEW who
      PROVE  Holdings(applied', table, who, at) = Holdings(applied, table, who, at)
    BY <1>2, HoldingsKeep
<1>3. steady' => /\ Answer' = Answer
                 /\ \A table, who : Held(table, who)' = Held(table, who)
    BY <1>2 DEF Answer, AccountAt, Held
<1>4. step \in {"account", "cursor", "export"} => got = {}
    BY DEF RequestInv, AnswerSoFar
<1>5. steady' => /\ at <= cursor'
                 /\ step = "assets" => got = Held("account", {subject}) /\ got # {}
                 /\ step = "stakes" =>
                     /\ Held("account", {subject}) # {}
                     /\ got = Held("account", {subject}) \cup Held("asset", {subject})
                 /\ step = "page" => got = {e \in Held("asset", Addresses) : e[1][2] <= after}
                 /\ step = "done" => got = Answer
    BY DEF RequestInv, AnswerSoFar
<1>6. AnswerSoFar'
    BY <1>3, <1>4, <1>5 DEF AnswerSoFar, Held
<1> QED
    BY <1>1, <1>6 DEF RequestInv

\* A read changes nothing that is stored.
LEMMA ReadKeepsStore ==
    ASSUME StoreInv, UNCHANGED <<writerVars, stateVars>>
    PROVE  StoreInv' /\ UNCHANGED <<rows, cursor>>
BY DEF StoreInv, writerVars, stateVars, StoreTypeOK, WriterTypeOK, RowsToCursor,
       RowsAreChanges, NothingAbove, DisputesBelow, DisputesStand

\* A request begins with nothing read.
LEMMA AskKeepsRequest ==
    ASSUME StoreInv, RequestInv, Ask
    PROVE  RequestInv'
<1>1. /\ at' \in Heights \cup {Latest} /\ after' = 0 /\ got' = {}
      /\ steady' = (at' <= cursor)
      /\ UNCHANGED <<writerVars, stateVars>>
    BY DEF Ask
<1>2. \/ kind' = "account" /\ step' = "account" /\ subject' \in Addresses
      \/ kind' = "holders" /\ step' = "page" /\ subject' = 0
      \/ kind' = "export" /\ subject' = 0 /\ step' \in {"cursor", "export"}
    BY DEF Ask
<1>3. at' \in 0 .. Latest /\ steady' \in BOOLEAN
    BY <1>1 DEF Latest, Heights
<1>4. RequestTypeOK' /\ KindOfStep'
    BY <1>1, <1>2, <1>3 DEF RequestTypeOK, KindOfStep
<1>5. step' = "page" => got' = {e \in Held("asset", Addresses)' : e[1][2] <= after'}
    <2>1. \A e \in Held("asset", Addresses)' : e[1][2] \in Addresses
        <3>1. StoreTypeOK'
            BY <1>1, ReadKeepsStore DEF StoreInv
        <3>2. Held("asset", Addresses)' = Holdings(applied', "asset", Addresses, at')
            BY DEF Held
        <3>3. Holdings(applied, "asset", Addresses, at') = Holdings(applied', "asset", Addresses, at')
            BY <1>1 DEF stateVars
        <3>4. \A e \in Holdings(applied, "asset", Addresses, at') : e[1][2] \in Addresses
            BY HoldingsTyped DEF StoreInv, Tables
        <3> QED
            BY <3>2, <3>3, <3>4
    <2>2. \A a \in Addresses : ~(a <= 0)
        OBVIOUS
    <2> QED
        BY <1>1, <2>1, <2>2
<1>6. steady' => at' <= cursor'
    BY <1>1 DEF writerVars
<1>7. AnswerSoFar'
    BY <1>1, <1>2, <1>5, <1>6 DEF AnswerSoFar
<1> QED
    BY <1>4, <1>7 DEF RequestInv

\* Each query of an account adds its part.
LEMMA AccountReads ==
    ASSUME StoreInv, RequestInv, ReadAccount \/ ReadAssets \/ ReadStakes
    PROVE  RequestInv' /\ UNCHANGED <<writerVars, stateVars>>
<1> DEFINE found(table) == Rows(table, {subject}, at)
<1>1. /\ UNCHANGED <<writerVars, stateVars, kind, subject, at, steady, after>>
      /\ \/ /\ step = "account" /\ got' = got \cup found("account")
            /\ step' = IF found("account") = {} THEN "done" ELSE "assets"
         \/ step = "assets" /\ got' = got \cup found("asset") /\ step' = "stakes"
         \/ step = "stakes" /\ got' = got \cup found("stake") /\ step' = "done"
    BY DEF ReadAccount, ReadAssets, ReadStakes, Reads
<1>2. kind = "account" /\ {subject} \in SUBSET Addresses
    BY <1>1 DEF RequestInv, KindOfStep
<1>3. ASSUME NEW table \in Tables
      PROVE  found(table) = Held(table, {subject}) /\ found(table) \subseteq Cells \X Version
    BY <1>2, RowsAreHoldings, HoldingsTyped DEF StoreInv, Held
<1>4. \A table \in Tables : Held(table, {subject})' = Held(table, {subject})
    BY <1>1 DEF Held, stateVars
<1>5. UNCHANGED <<cursor, applied>> /\ "account" \in Tables /\ "asset" \in Tables /\ "stake" \in Tables
    BY <1>1 DEF writerVars, stateVars, Tables
<1>6. Answer' = IF Held("account", {subject}) = {} THEN {}
                ELSE Held("account", {subject}) \cup Held("asset", {subject})
                        \cup Held("stake", {subject})
    BY <1>1, <1>2, <1>5 DEF Answer, AccountAt, Held
<1> HIDE DEF found
<1>7. RequestTypeOK' /\ KindOfStep'
    BY <1>1, <1>2, <1>3, <1>5 DEF RequestInv, RequestTypeOK, KindOfStep
<1>8. AnswerSoFar'
    <2>1. CASE step = "account"
        BY <1>1, <1>3, <1>4, <1>5, <1>6, <2>1 DEF RequestInv, AnswerSoFar
    <2>2. CASE step = "assets"
        BY <1>1, <1>3, <1>4, <1>5, <2>2 DEF RequestInv, AnswerSoFar
    <2>3. CASE step = "stakes"
        BY <1>1, <1>3, <1>4, <1>5, <1>6, <2>3 DEF RequestInv, AnswerSoFar
    <2> QED
        BY <1>1, <2>1, <2>2, <2>3
<1> QED
    BY <1>1, <1>7, <1>8 DEF RequestInv

\* A page takes the list on from where it was, and a short one ends it.
LEMMA PageReads ==
    ASSUME StoreInv, RequestInv, ReadPage
    PROVE  RequestInv' /\ UNCHANGED <<writerVars, stateVars>>
<1> DEFINE L == Rows("asset", Addresses, at)
           B == {e \in L : Beyond(e[1][2])}
           page == {e \in B : Cardinality({f \in B : f[1][2] < e[1][2]}) < PageLimit}
<1>1. /\ UNCHANGED <<writerVars, stateVars, kind, subject, at, steady>>
      /\ step = "page" /\ got' = got \cup page
      /\ step' = IF Cardinality(page) < PageLimit THEN "done" ELSE "page"
      /\ IF page = {} THEN UNCHANGED after
         ELSE after' \in {e[1][2] : e \in page} /\ \A e \in page : e[1][2] <= after'
    BY DEF ReadPage, Reads
<1>2. kind = "holders"
    BY <1>1 DEF RequestInv, KindOfStep
<1>3. /\ L = Held("asset", Addresses) /\ L \subseteq Cells \X Version
      /\ \A e \in L : e[1][2] \in Addresses /\ e[1][2] \in Nat
    <2>1. "asset" \in Tables /\ StoreTypeOK /\ RowsAreChanges
        BY DEF StoreInv, Tables
    <2>2. L = Held("asset", Addresses)
        BY <2>1, RowsAreHoldings DEF Held
    <2>3. /\ Held("asset", Addresses) \subseteq Cells \X Version
          /\ \A e \in Held("asset", Addresses) : e[1][2] \in Addresses
        BY <2>1, HoldingsTyped DEF Held
    <2>4. \A a \in Addresses : a \in Nat
        OBVIOUS
    <2> HIDE DEF L
    <2> QED
        BY <2>2, <2>3, <2>4
<1>4. IsFiniteSet(L)
    BY <1>3, HoldingsFinite DEF Held
<1>5. /\ Held("asset", Addresses)' = Held("asset", Addresses) /\ UNCHANGED <<cursor, applied>>
      /\ Answer' = Held("asset", Addresses)
    BY <1>1, <1>2 DEF Held, Answer, stateVars, writerVars
<1> HIDE DEF L
<1>6. IsFiniteSet(B) /\ B \subseteq L /\ page \subseteq B /\ \A e \in B : e[1][2] \in Nat
    BY <1>3, <1>4, FS_Subset
<1>7. /\ \A e \in page, f \in B : f[1][2] <= e[1][2] => f \in page
      /\ Cardinality(page) < PageLimit => page = B
      /\ page = {} => B = {}
    <2>1. page = {e \in B : Cardinality({f \in B : f[1][2] < e[1][2]}) < PageLimit}
        OBVIOUS
    <2> HIDE DEF page, B
    <2> QED
        BY <1>6, <2>1, PageIsPrefix
<1>8. \A e \in L : e \in B <=> ~(e[1][2] <= after)
    BY <1>3 DEF Beyond, RequestInv, RequestTypeOK
<1> HIDE DEF page, B
<1>9. after' \in Addresses \cup {0} /\ after \in Nat /\ after' \in Nat
    BY <1>1, <1>3, <1>6 DEF RequestInv, RequestTypeOK
<1>10. \A e \in L : e \in page \/ e[1][2] <= after <=> e[1][2] <= after'
    <2>1. CASE page = {}
        BY <1>1, <1>6, <2>1
    <2>2. CASE page # {}
        <3>1. PICK last \in page : after' = last[1][2]
            BY <1>1, <2>2
        <3>2. last \in L /\ last \in B /\ after <= after'
            BY <1>3, <1>6, <1>8, <1>9, <3>1
        <3>3. ASSUME NEW e \in L PROVE e \in page \/ e[1][2] <= after <=> e[1][2] <= after'
            <4>1. e[1][2] \in Nat
                BY <1>3
            <4>2. e \in page => e[1][2] <= after'
                BY <1>1, <2>2
            <4>3. e \in B /\ e[1][2] <= after' => e \in page
                BY <1>7, <3>1
            <4> QED
                BY <1>8, <1>9, <3>2, <4>1, <4>2, <4>3
        <3> QED
            BY <3>3
    <2> QED
        BY <2>1, <2>2
<1>11. RequestTypeOK' /\ KindOfStep'
    BY <1>1, <1>2, <1>3, <1>6, <1>9 DEF RequestInv, RequestTypeOK, KindOfStep
<1>12. steady => got = {e \in L : e[1][2] <= after}
    BY <1>1, <1>3 DEF RequestInv, AnswerSoFar
<1>13. steady => got' = {e \in L : e[1][2] <= after'}
    BY <1>1, <1>6, <1>10, <1>12
<1>14. steady /\ Cardinality(page) < PageLimit => got' = L
    BY <1>1, <1>6, <1>7, <1>8, <1>12
<1>15. AnswerSoFar'
    BY <1>1, <1>3, <1>5, <1>13, <1>14 DEF RequestInv, AnswerSoFar
<1> QED
    BY <1>1, <1>11, <1>15 DEF RequestInv

\* An export reads once, at its height or at the cursor's.
LEMMA ExportReads ==
    ASSUME StoreInv, RequestInv, ReadCursor \/ ReadExport
    PROVE  RequestInv' /\ UNCHANGED <<writerVars, stateVars>>
<1>1. CASE ReadCursor
    <2>1. /\ step = "cursor" /\ step' = "export"
          /\ at' = IF cursor = None THEN Latest ELSE cursor
          /\ steady' = (cursor # None)
          /\ UNCHANGED <<writerVars, stateVars, kind, subject, after, got>>
        BY <1>1 DEF ReadCursor
    <2>2. cursor \in Heights \cup {None} /\ UNCHANGED cursor
        BY <2>1 DEF StoreInv, StoreTypeOK, WriterTypeOK, writerVars
    <2>3. at' \in 0 .. Latest /\ (steady' => at' <= cursor') /\ steady' \in BOOLEAN
        <3>1. steady' \in BOOLEAN /\ (steady' => cursor # None)
            BY <2>1
        <3>2. at' \in 0 .. Latest
            BY <2>1, <2>2 DEF Latest, Heights
        <3>3. cursor # None => at' <= cursor'
            BY <2>1, <2>2 DEF Heights
        <3> QED
            BY <3>1, <3>2, <3>3
    <2>4. RequestTypeOK' /\ KindOfStep'
        BY <2>1, <2>3 DEF RequestInv, RequestTypeOK, KindOfStep
    <2>5. AnswerSoFar'
        BY <2>1, <2>3 DEF RequestInv, AnswerSoFar
    <2> QED
        BY <2>1, <2>4, <2>5 DEF RequestInv
<1>2. CASE ReadExport
    <2> DEFINE L == Rows("asset", Addresses, at)
    <2>1. /\ step = "export" /\ step' = "done" /\ got' = got \cup L
          /\ UNCHANGED <<writerVars, stateVars, kind, subject, at, steady, after>>
        BY <1>2 DEF ReadExport, Reads
    <2>2. kind = "export" /\ got = {}
        BY <2>1 DEF RequestInv, KindOfStep, AnswerSoFar
    <2>3. L = Holdings(applied, "asset", Addresses, at) /\ L \subseteq Cells \X Version
        BY RowsAreHoldings, HoldingsTyped DEF StoreInv, Tables
    <2> HIDE DEF L
    <2>4. Answer' = L /\ UNCHANGED cursor
        BY <2>1, <2>2, <2>3 DEF Answer, stateVars, writerVars
    <2>5. RequestTypeOK' /\ KindOfStep'
        BY <2>1, <2>2, <2>3 DEF RequestInv, RequestTypeOK, KindOfStep
    <2>6. AnswerSoFar'
        BY <2>1, <2>2, <2>4 DEF RequestInv, AnswerSoFar
    <2> QED
        BY <2>1, <2>5, <2>6 DEF RequestInv
<1> QED
    BY <1>1, <1>2

-----------------------------------------------------------------------------
(***************************************************************************)
(* The theorems.                                                           *)
(***************************************************************************)
\* Nothing is stored, and nothing asked for.
LEMMA HistoryStarts == Init => HistoryInv /\ CI!Init
<1> SUFFICES ASSUME Init PROVE HistoryInv /\ CI!Init
    OBVIOUS
<1>1. WriterInv /\ CI!Init
    BY WriterStarts DEF Init
<1>2. \A h \in Heights : applied[h] = NotApplied /\ DOMAIN applied[h].change = {}
    BY DEF Init, NotApplied
<1>3. applied \in [Heights -> [change : Effects \cup {<<>>}, disputes : SUBSET Heights]]
    BY DEF Init, NotApplied
<1>4. StoreInv
    BY <1>1, <1>2, <1>3 DEF Init, WriterInit, WriterInv, StoreInv, StoreTypeOK, RowsAreChanges, NothingAbove,
       DisputesBelow, DisputesStand, NotApplied, None
<1>5. RequestInv
    <2>1. Latest \in 0 .. Latest
        BY DEF Latest
    <2>2. RequestTypeOK
        BY <2>1 DEF Init, RequestTypeOK
    <2>3. KindOfStep /\ AnswerSoFar
        BY DEF Init, KindOfStep, AnswerSoFar
    <2> QED
        BY <2>2, <2>3 DEF RequestInv
<1> QED
    BY <1>1, <1>4, <1>5 DEF HistoryInv

\* Every step keeps the invariant, and is a step of ChainIndex on the store.
LEMMA HistoryStep == HistoryInv /\ [Next]_vars => HistoryInv' /\ [CI!Next]_CI!ciVars
<1> SUFFICES ASSUME HistoryInv, [Next]_vars PROVE HistoryInv' /\ [CI!Next]_CI!ciVars
    OBVIOUS
<1>0. StoreInv /\ RequestInv
    BY DEF HistoryInv
<1>1. CASE Commit
    <2>1. /\ StoreInv' /\ CI!Grow /\ cursor' >= cursor /\ cursor \in Int /\ cursor' \in Int
          /\ \A h \in Heights : h <= cursor => applied'[h] = applied[h]
        BY <1>0, <1>1, CommitKeepsStore DEF StoreInv, StoreTypeOK, WriterTypeOK, Heights, None
    <2>2. UNCHANGED requestVars
        BY <1>1 DEF Commit
    <2>3. steady => at <= cursor /\ at \in Int
        BY <1>0 DEF RequestInv, AnswerSoFar, RequestTypeOK
    <2>4. RequestInv'
        BY <1>0, <2>1, <2>2, <2>3, TaskKeepsRequest DEF requestVars, RequestInv, RequestTypeOK, Heights
    <2> QED
        BY <2>1, <2>4 DEF HistoryInv, CI!Next
<1>2. CASE Rollback
    <2>1. /\ StoreInv' /\ CI!Retract /\ cursor' = cursor - 1 /\ cursor \in Int
          /\ \A h \in Heights : h < cursor => applied'[h] = applied[h]
        BY <1>0, <1>2, RollbackKeepsStore
    <2>2. /\ UNCHANGED <<kind, step, subject, at, after, got>>
          /\ steady' = (steady /\ at < cursor)
        BY <1>2 DEF Rollback
    <2>3. at \in Int /\ steady \in BOOLEAN
        BY <1>0 DEF RequestInv, RequestTypeOK
    <2>4. steady' \in BOOLEAN /\ (steady' => steady /\ at < cursor)
        BY <2>2, <2>3
    <2>5. steady' => at <= cursor' /\ \A g \in Heights : g <= at => g < cursor
        BY <2>1, <2>3, <2>4 DEF Heights
    <2>6. RequestInv'
        BY <1>0, <2>1, <2>2, <2>4, <2>5, TaskKeepsRequest
    <2> QED
        BY <2>1, <2>6 DEF HistoryInv, CI!Next
<1>3. CASE Ask
    <2>1. UNCHANGED <<writerVars, stateVars>>
        BY <1>3 DEF Ask
    <2> QED
        BY <1>0, <1>3, <2>1, AskKeepsRequest, ReadKeepsStore DEF HistoryInv, CI!ciVars
<1>4. CASE Read
    <2>1. RequestInv' /\ UNCHANGED <<writerVars, stateVars>>
        BY <1>0, <1>4, AccountReads, PageReads, ExportReads DEF Read
    <2> QED
        BY <1>0, <2>1, ReadKeepsStore DEF HistoryInv, CI!ciVars
<1>5. CASE UNCHANGED vars
    <2>1. /\ UNCHANGED <<writerVars, stateVars>>
          /\ UNCHANGED <<kind, step, subject, at, after, got, steady>>
        BY <1>5 DEF vars, requestVars
    <2>2. steady => at <= cursor /\ steady \in BOOLEAN
        BY <1>0 DEF RequestInv, AnswerSoFar, RequestTypeOK
    <2>3. RequestInv'
        BY <1>0, <2>1, <2>2, TaskKeepsRequest
           DEF RequestInv, RequestTypeOK, stateVars, writerVars
    <2> QED
        BY <1>0, <2>1, <2>3, ReadKeepsStore DEF HistoryInv, CI!ciVars
<1> QED
    BY <1>1, <1>2, <1>3, <1>4, <1>5 DEF Next

\* Every value of the store and of a request is one the code can hold.
THEOREM HistoryTypeCorrect == Spec => []TypeOK
<1>1. HistoryInv => TypeOK
    BY DEF HistoryInv, StoreInv, StoreTypeOK, RequestInv, RequestTypeOK, TypeOK
<1> QED
    BY <1>1, HistoryStarts, HistoryStep, PTL DEF Spec

\* The writer under the readers does no more than ChainIndex, which the pipeline
\* implements: the rows are one linked chain that grows and shrinks at the top.
LEMMA HistoryKeepsChain == Spec => CI!Spec
BY HistoryStarts, HistoryStep, PTL DEF Spec, CI!Spec

\* A flag put on a row by a block stands as long as the block does.
THEOREM DisputesAlwaysStand == Spec => []DisputesStand
<1>1. HistoryInv => DisputesStand
    BY DEF HistoryInv, StoreInv
<1> QED
    BY <1>1, HistoryStarts, HistoryStep, PTL DEF Spec

\* An answer as of a height that stays indexed is the state at that height,
\* whole and of no other, whatever the index task does between its reads.
THEOREM AnswersHold == Spec => []SteadyAnswers
<1>1. HistoryInv => SteadyAnswers
    BY DEF HistoryInv, RequestInv, AnswerSoFar, SteadyAnswers
<1> QED
    BY <1>1, HistoryStarts, HistoryStep, PTL DEF Spec

-----------------------------------------------------------------------------
(***************************************************************************)
(* The ledger: state block by block and state by the last change agree.    *)
(***************************************************************************)
\* What a block makes of a cell, given what the block below it left.
LEMMA StateByBlock ==
    ASSUME NEW blocks, NEW c, NEW h \in Heights
    PROVE  StateAt(blocks, c, h) =
             IF c \in DOMAIN blocks[h].change
             THEN [height |-> h, value |-> blocks[h].change[c]]
             ELSE IF h = 0 THEN NoVersion ELSE StateAt(blocks, c, h - 1)
<1>1. CASE c \in DOMAIN blocks[h].change
    <2>1. h \in Changed(blocks, c, h)
        BY <1>1 DEF Changed, Heights
    <2>2. PICK g \in Changed(blocks, c, h) :
            /\ \A f \in Changed(blocks, c, h) : f <= g
            /\ StateAt(blocks, c, h) = [height |-> g, value |-> blocks[g].change[c]]
        BY <2>1, StateIsLastChange
    <2>3. g = h
        BY <2>1, <2>2 DEF Changed, Heights
    <2> QED
        BY <1>1, <2>2, <2>3
<1>2. CASE c \notin DOMAIN blocks[h].change /\ h = 0
    <2>1. Changed(blocks, c, h) = {}
        BY <1>2 DEF Changed, Heights
    <2> QED
        BY <1>2, <2>1, StateIsLastChange
<1>3. CASE c \notin DOMAIN blocks[h].change /\ h # 0
    <2>1. Changed(blocks, c, h) = Changed(blocks, c, h - 1)
        BY <1>3 DEF Changed, Heights
    <2>2. StateAt(blocks, c, h) = StateAt(blocks, c, h - 1)
        BY <2>1 DEF StateAt, Changed
    <2> QED
        BY <1>3, <2>2
<1> QED
    BY <1>1, <1>2, <1>3

\* There is a function that the recursion defines, and the ledger is one.
LEMMA LedgerStep ==
    /\ DOMAIN Ledger = Heights
    /\ \A h \in Heights, c \in Cells :
        Ledger[h][c] =
            IF c \in DOMAIN applied[h].change
            THEN [height |-> h, value |-> applied[h].change[c]]
            ELSE IF h = 0 THEN NoVersion ELSE Ledger[h - 1][c]
<1> DEFINE Step(f, h) ==
                [c \in Cells |->
                    IF c \in DOMAIN applied[h].change
                    THEN [height |-> h, value |-> applied[h].change[c]]
                    ELSE IF h = 0 THEN NoVersion ELSE f[h - 1][c]]
           byState == [h \in Heights |-> [c \in Cells |-> StateAt(applied, c, h)]]
<1>1. byState = [h \in Heights |-> Step(byState, h)]
    <2>1. ASSUME NEW h \in Heights
          PROVE  [c \in Cells |-> StateAt(applied, c, h)] = Step(byState, h)
        <3>1. ASSUME NEW c \in Cells, h # 0
              PROVE  byState[h - 1][c] = StateAt(applied, c, h - 1)
            BY <3>1 DEF Heights
        <3> QED
            BY <3>1, StateByBlock
    <2> QED
        BY <2>1
<1>2. Ledger = CHOOSE f : f = [h \in Heights |-> Step(f, h)]
    BY DEF Ledger
<1> HIDE DEF byState, Step
<1>3. Ledger = [h \in Heights |-> Step(Ledger, h)]
    BY <1>1, <1>2
<1>4. DOMAIN Ledger = Heights /\ \A h \in Heights : Ledger[h] = Step(Ledger, h)
    BY <1>3
<1> QED
    BY <1>4 DEF Step

\* The height is the least at which they could differ, and there they do not.
LEMMA LedgerIsState == \A h \in Heights, c \in Cells : Ledger[h][c] = StateAt(applied, c, h)
<1> SUFFICES ASSUME NEW c \in Cells PROVE \A h \in Heights : Ledger[h][c] = StateAt(applied, c, h)
    OBVIOUS
<1> DEFINE differ == {h \in Heights : Ledger[h][c] # StateAt(applied, c, h)}
<1>1. SUFFICES ASSUME differ # {} PROVE FALSE
    OBVIOUS
<1>2. PICK h \in differ : \A g \in differ : h <= g
    <2>1. differ \in SUBSET Nat
        BY DEF Heights
    <2> QED
        BY <1>1, <2>1, Least
<1>3. h # 0 => Ledger[h - 1][c] = StateAt(applied, c, h - 1)
    BY <1>2 DEF Heights
<1>4. h \in Heights /\ Ledger[h][c] # StateAt(applied, c, h)
    BY <1>2
<1>5. Ledger[h][c] = IF c \in DOMAIN applied[h].change
                     THEN [height |-> h, value |-> applied[h].change[c]]
                     ELSE IF h = 0 THEN NoVersion ELSE Ledger[h - 1][c]
    BY <1>4, LedgerStep
<1>6. StateAt(applied, c, h) =
            IF c \in DOMAIN applied[h].change
            THEN [height |-> h, value |-> applied[h].change[c]]
            ELSE IF h = 0 THEN NoVersion ELSE StateAt(applied, c, h - 1)
    BY <1>4, StateByBlock
<1> QED
    BY <1>3, <1>4, <1>5, <1>6

\* Whatever was committed and rolled back, a query as of a stored height finds
\* in the rows what applying the stored blocks one by one gives.
THEOREM RowsAlwaysLedger == Spec => []RowsAreLedger
<1>1. HistoryInv => RowsAreLedger
    <2> SUFFICES ASSUME HistoryInv, NEW h \in 0 .. cursor, NEW c \in Cells
                 PROVE  AsOf(versions[c], h) = Ledger[h][c]
        BY DEF RowsAreLedger
    <2>1. h \in Heights
        BY DEF HistoryInv, StoreInv, StoreTypeOK, WriterTypeOK, Heights, None
    <2>2. AsOf(versions[c], h) = StateAt(applied, c, h)
        BY AsOfIsState DEF HistoryInv, StoreInv, RowsAreChanges
    <2> QED
        BY <2>1, <2>2, LedgerIsState
<1> QED
    BY <1>1, HistoryStarts, HistoryStep, PTL DEF Spec
=============================================================================
