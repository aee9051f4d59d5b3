---------------------------- MODULE StateHistory ----------------------------
(***************************************************************************)
(* storage/src/lib.rs and rest-service/src/lib.rs: state as of a height.   *)
(* A block's effects put a row at its height for each thing they change,   *)
(* and nothing where nothing changed; what a thing was at a height is its  *)
(* newest row at or below it.  A rollback only removes rows.  An answer    *)
(* takes several reads, and blocks come and go between them.               *)
(*                                                                         *)
(* Three tables stand for the eleven of this kind: `account`, whose rows   *)
(* count at any value, and `asset` and `stake`, where a balance of zero or *)
(* a NULL allocation says that there is none any more.                     *)
(***************************************************************************)
EXTENDS Writer

CONSTANTS Addresses,   \* 1 .. n: accounts, in the order of their addresses
          Effects,     \* what a block may change: functions from cells to values
          PageLimit    \* clamp_limit of a holders request, at most MAX_PAGE_SIZE

Tables == {"account", "asset", "stake"}
Cells  == Tables \X Addresses
Values == 0 .. 2

ASSUME StateAssumption ==
    /\ Addresses \subseteq Nat \ {0} /\ IsFiniteSet(Addresses)
    /\ Effects \subseteq UNION {[S -> Values] : S \in SUBSET Cells}
    /\ PageLimit \in Nat \ {0}

\* at = i64::MAX, the tip.
Latest == MaxHeight + 1

VARIABLES
    versions,       \* the rows of the state tables, by cell
    disputed,       \* the heights whose block row is flagged
    applied,        \* history: the effects and disputes of the stored blocks
    kind, step,     \* the request being answered, and the read that is next
    subject, at,    \* the account asked for, and the height
    after, got,     \* the last holder of the pages so far, and what was read
    steady          \* history: `at` is stored, and was all along

stateVars   == <<versions, disputed, applied>>
requestVars == <<kind, step, subject, at, after, got, steady>>
vars        == <<writerVars, stateVars, requestVars>>

Version    == [height : Heights, value : Values]
NoVersion  == [height |-> None, value |-> 0]
NotApplied == [change |-> <<>>, disputes |-> {}]

TypeOK ==
    /\ WriterTypeOK
    /\ versions \in [Cells -> SUBSET Version]
    /\ disputed \subseteq {h \in Heights : IsStored(rows, h)}
    /\ applied \in [Heights -> [change : Effects \cup {<<>>}, disputes : SUBSET Heights]]
    /\ kind \in {"account", "holders", "export"}
    /\ step \in {"idle", "account", "assets", "stakes", "page", "cursor", "export", "done"}
    /\ subject \in Addresses \cup {0} /\ at \in 0 .. Latest
    /\ after \in Addresses \cup {0}
    /\ got \subseteq Cells \X Version
    /\ steady \in BOOLEAN

Init ==
    /\ WriterInit
    /\ versions = [c \in Cells |-> {}] /\ disputed = {}
    /\ applied = [h \in Heights |-> NotApplied]
    /\ kind = "account" /\ step = "idle" /\ at = Latest
    /\ subject = 0 /\ after = 0 /\ got = {} /\ steady = FALSE

-----------------------------------------------------------------------------
(***************************************************************************)
(* The index task.                                                         *)
(***************************************************************************)
\* The row, if any, that effects add for a cell: ON CONFLICT DO NOTHING.
Added(c, h, change) ==
    IF c \in DOMAIN change /\ \A v \in versions[c] : v.height # h
    THEN {[height |-> h, value |-> change[c]]} ELSE {}

\* Mutant: the flags are set before the blocks are there.
FlaggedBefore(disputes, top) == disputed \cup {d \in disputes : d <= cursor}

\* The flags are set on block rows already there, the batch's own among them.
Flagged(disputes, top) == disputed \cup {d \in disputes : d <= top}

\* insert_blocks with the effects of each block, in one transaction.  A block
\* disputes the one below it or none.
Commit ==
    \E n \in 1 .. Smaller(MaxBatch, MaxHeight - cursor) :
      \E change \in [cursor + 1 .. cursor + n -> Effects],
         disputing \in SUBSET (Larger(1, cursor + 1) .. cursor + n) :
        /\ Store(BlocksAbove(n))
        /\ versions' = [c \in Cells |->
              versions[c] \cup UNION {Added(c, h, change[h]) : h \in DOMAIN change}]
        /\ disputed' = Flagged({h - 1 : h \in disputing}, cursor + n)
        /\ applied' = [h \in Heights |->
              IF h \in DOMAIN change
              THEN [change |-> change[h], disputes |-> {h - 1} \cap {g - 1 : g \in disputing}]
              ELSE applied[h]]
        /\ UNCHANGED <<branch, requestVars>>

\* Mutant: the rollback forgets a table.
VersionsUpToButStakes(r) ==
    [c \in Cells |-> IF c[1] = "stake" THEN versions[c]
                     ELSE {v \in versions[c] : v.height <= r}]

\* rollback_to r: every row above r goes.  A flag goes only with its block row.
VersionsUpTo(r) == [c \in Cells |-> {v \in versions[c] : v.height <= r}]

\* Mutant: the flags of removed blocks stay.
FlagsKept(r) == disputed

FlagsUpTo(r) == {d \in disputed : d <= r}

\* The block at the cursor is on a branch the node has left, or leaves now.
Rollback ==
    /\ Unstore
    /\ \/ rows[cursor].hash # branch /\ UNCHANGED branch
       \/ branch < MaxReorgs /\ branch' = branch + 1
    /\ versions' = VersionsUpTo(cursor - 1)
    /\ disputed' = FlagsUpTo(cursor - 1)
    /\ applied' = [applied EXCEPT ![cursor] = NotApplied]
    /\ steady' = (steady /\ at < cursor)
    /\ UNCHANGED <<kind, step, subject, at, after, got>>

-----------------------------------------------------------------------------
(***************************************************************************)
(* Reads.                                                                  *)
(***************************************************************************)
\* Of the rows of a cell, the newest with height <= h.
AsOf(stored, h) ==
    LET below == {v \in stored : v.height <= h}
    IN  IF below = {} THEN NoVersion
        ELSE CHOOSE v \in below : \A w \in below : w.height <= v.height

\* Whether a query returns such a row.
Shows(table, v) == v # NoVersion /\ (table = "account" \/ v.value > 0)

\* The rows of a table that a query as of h returns.
Rows(table, who, h) ==
    {<<<<table, a>>, AsOf(versions[<<table, a>>], h)>> :
        a \in {a \in who : Shows(table, AsOf(versions[<<table, a>>], h))}}

\* A client asks for an account, for the holders of the asset, page by page, or
\* for an export of them all, at a height or at the tip.
Ask ==
    /\ step \in {"idle", "done"}
    /\ at' \in Heights \cup {Latest}
    /\ \/ kind' = "account" /\ step' = "account" /\ subject' \in Addresses
       \/ kind' = "holders" /\ step' = "page" /\ subject' = 0
       \/ /\ kind' = "export" /\ subject' = 0
          /\ step' = IF at' = Latest THEN "cursor" ELSE "export"
    /\ after' = 0 /\ got' = {} /\ steady' = (at' <= cursor)
    /\ UNCHANGED <<writerVars, stateVars>>

Reads(s, found, next) ==
    /\ step = s
    /\ got' = got \cup found
    /\ step' = next
    /\ UNCHANGED <<writerVars, stateVars, kind, subject, at, steady>>

\* get_account_state: three queries, and the first decides whether there is an
\* answer at all.
ReadAccount ==
    LET found == Rows("account", {subject}, at)
    IN  Reads("account", found, IF found = {} THEN "done" ELSE "assets") /\ UNCHANGED after

ReadAssets == Reads("assets", Rows("asset", {subject}, at), "stakes") /\ UNCHANGED after

\* Mutant: one of the queries is not capped.
ReadStakesUncapped == Reads("stakes", Rows("stake", {subject}, Latest), "done") /\ UNCHANGED after

ReadStakes == Reads("stakes", Rows("stake", {subject}, at), "done") /\ UNCHANGED after

\* Mutant: a page begins with the last holder of the one before.
BeyondOrAt(a) == a >= after

Beyond(a) == a > after

\* get_asset_holders: the first holders beyond `after`.  The client asks for
\* pages until one is short.
ReadPage ==
    LET beyond == {e \in Rows("asset", Addresses, at) : Beyond(e[1][2])}
        page   == {e \in beyond : Cardinality({f \in beyond : f[1][2] < e[1][2]}) < PageLimit}
    IN  /\ Reads("page", page, IF Cardinality(page) < PageLimit THEN "done" ELSE "page")
        /\ IF page = {}
           THEN UNCHANGED after
           ELSE /\ after' \in {e[1][2] : e \in page}
                /\ \A e \in page : e[1][2] <= after'

\* get_asset_audit_holders: an export without a height is of the cursor's, if
\* there is one, and names it.
ReadCursor ==
    /\ step = "cursor" /\ step' = "export"
    /\ at' = IF cursor = None THEN Latest ELSE cursor
    /\ steady' = (cursor # None)
    /\ UNCHANGED <<writerVars, stateVars, kind, subject, after, got>>

ReadExport == Reads("export", Rows("asset", Addresses, at), "done") /\ UNCHANGED after

Read == ReadAccount \/ ReadAssets \/ ReadStakes \/ ReadPage \/ ReadCursor \/ ReadExport

Next == Commit \/ Rollback \/ Ask \/ Read

\* A client that has asked reads on.
Spec == Init /\ [][Next]_vars /\ WF_vars(Read)

-----------------------------------------------------------------------------
\* State at a height, block by block: the reference the rows are checked against.
Ledger[h \in Heights] ==
    [c \in Cells |->
        IF c \in DOMAIN applied[h].change
        THEN [height |-> h, value |-> applied[h].change[c]]
        ELSE IF h = 0 THEN NoVersion ELSE Ledger[h - 1][c]]

\* Whatever was committed and rolled back, the rows at or below a height are
\* those of the blocks now stored: a query as of it finds what applying them one
\* by one gives.
RowsAreLedger ==
    \A h \in 0 .. cursor, c \in Cells : AsOf(versions[c], h) = Ledger[h][c]

\* The same by the last of the blocks at or below h that changed the cell.
StateAt(blocks, c, h) ==
    LET changed == {g \in Heights : g <= h /\ c \in DOMAIN blocks[g].change}
        last    == CHOOSE g \in changed : \A f \in changed : f <= g
    IN  IF changed = {} THEN NoVersion
        ELSE [height |-> last, value |-> blocks[last].change[c]]

\* What an answer as of h should hold.
Holdings(blocks, table, who, h) ==
    {<<<<table, a>>, StateAt(blocks, <<table, a>>, h)>> :
        a \in {a \in who : Shows(table, StateAt(blocks, <<table, a>>, h))}}

AccountAt(blocks, a, h) ==
    IF Holdings(blocks, "account", {a}, h) = {} THEN {}
    ELSE Holdings(blocks, "account", {a}, h) \cup Holdings(blocks, "asset", {a}, h)
            \cup Holdings(blocks, "stake", {a}, h)

Answer ==
    IF kind = "account" THEN AccountAt(applied, subject, at)
                        ELSE Holdings(applied, "asset", Addresses, at)

\* An answer as of a height that stays indexed while it is put together is the
\* state at that height, whole and of no other: over the three queries of an
\* account, the pages of a list, and for the height an export names.
SteadyAnswers == step = "done" /\ steady => got = Answer

\* A dispute recorded by a block that is stored is on the row it disputes.
DisputesStand == \A h \in 0 .. cursor : applied[h].disputes \subseteq disputed

\* A client that pages gets to the end, though the list changes under it.
PagesComeToAnEnd == step = "page" ~> step = "done"
=============================================================================
