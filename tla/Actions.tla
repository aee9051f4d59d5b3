------------------------------- MODULE Actions -------------------------------
(***************************************************************************)
(* storage/src/lib.rs: the actions of the indexed blocks and the tables    *)
(* derived from them.  A batch writes them with its blocks and a rollback  *)
(* deletes them by height.  The table of the addresses a payload names is  *)
(* also written by reindex_action_addresses, which a process does at its   *)
(* start if it is asked to: page by page, outside any transaction, while   *)
(* the index task is running already.                                      *)
(*                                                                         *)
(* An action is known by its signature, or by its position if it has none. *)
(* Text order of these identities is some order, here that of pairs.       *)
(***************************************************************************)
EXTENDS Writer, Extraction

CONSTANTS Sigs,           \* signatures
          Tokens,         \* asset references
          Bodies,         \* what a block may hold: its actions, and those dropped
          ReindexPage,    \* PAGE of the reindex, 5000
          MaxRestarts     \* bound: how often the process is started again

Unsigned == 0
NoToken  == 0

Action == [sig : Sigs \cup {Unsigned}, sender : Addresses, kind : Kinds,
           payload : Payloads, token : Tokens \cup {NoToken}]

NoBody == [acts |-> <<>>, drops |-> {}]

ASSUME ActionsAssumption ==
    /\ Sigs \subseteq Nat \ {0} /\ Tokens \subseteq Nat \ {0}
    /\ \A b \in Bodies :
        /\ b.acts \in Seq(Action) /\ b.drops \subseteq Sigs /\ IsFiniteSet(b.drops)
        /\ \A i, j \in DOMAIN b.acts :
            b.acts[i].sig = b.acts[j].sig /\ b.acts[i].sig # Unsigned => b.acts[i] = b.acts[j]
    /\ ReindexPage \in Nat \ {0} /\ MaxRestarts \in Nat

VARIABLES
    bodies,       \* history: what the stored blocks hold
    actions,      \* the actions table
    senders,      \* account_actions
    addressed,    \* action_addresses
    events,       \* token_events
    assets,       \* asset_actions
    dropped,      \* dropped_actions
    schema,       \* the rules of this process
    reindex,      \* the reindex: "off", "read" or "insert"
    mark, held,   \* the position it has read up to, and the rows it will insert
    covered,      \* history: a reindex has ended under these rules, or none was due
    raced,        \* history: a rollback took blocks the reindex held rows of
    restarts

tableVars   == <<bodies, actions, senders, addressed, events, assets, dropped>>
reindexVars == <<schema, reindex, mark, held, covered, raced, restarts>>
indexVars   == <<writerVars, tableVars, reindexVars>>

Ids       == Nat \X Nat
Positions == Int \X Int
ActionRow == [id : Ids, height : Heights, index : Nat, act : Action]
SenderRow == [id : Ids, height : Heights, address : Addresses]
NamedRow  == [id : Ids, height : Heights, address : Addresses, role : Roles]
EventRow  == [id : Ids, height : Heights, token : Tokens]
AssetRow  == [id : Ids, height : Heights, index : Nat, token : Tokens]
DropRow   == [id : Ids, height : Heights]
Start     == <<-1, -1>>

IndexTypeOK ==
    /\ WriterTypeOK
    /\ bodies \in [Heights -> Bodies \cup {NoBody}]
    /\ actions \subseteq ActionRow /\ senders \subseteq SenderRow
    /\ addressed \subseteq NamedRow /\ events \subseteq EventRow
    /\ assets \subseteq AssetRow /\ dropped \subseteq DropRow
    /\ schema \subseteq Rules
    /\ reindex \in {"off", "read", "insert"} /\ (reindex = "insert" <=> held # {})
    /\ mark \in Positions /\ held \subseteq NamedRow
    /\ covered \in BOOLEAN /\ raced \in BOOLEAN
    /\ restarts \in 0 .. MaxRestarts

\* A process with some rules and nothing indexed.
IndexInit ==
    /\ WriterInit
    /\ bodies = [h \in Heights |-> NoBody]
    /\ actions = {} /\ senders = {} /\ addressed = {}
    /\ events = {} /\ assets = {} /\ dropped = {}
    /\ schema \in SUBSET Rules
    /\ reindex = "off" /\ mark = Start /\ held = {}
    /\ covered = TRUE /\ raced = FALSE /\ restarts = 0

-----------------------------------------------------------------------------
(***************************************************************************)
(* The index task.                                                         *)
(***************************************************************************)
\* Mutant: one identity for all that have no signature.
IdentitySentinel(act, h, i) == <<0, act.sig>>

Identity(act, h, i) == IF act.sig = Unsigned THEN <<h + 1, i>> ELSE <<0, act.sig>>

\* The rows of a block's actions: of one that it holds twice, the first.
BlockActions(h, b) ==
    LET id(i)  == Identity(b.acts[i], h, i)
        places == {i \in DOMAIN b.acts : \A j \in 1 .. i - 1 : id(j) # id(i)}
    IN  {[id |-> id(i), height |-> h, index |-> i, act |-> b.acts[i]] : i \in places}

\* ON CONFLICT DO NOTHING: those that are not there already.
ActionRows(h, b) == {a \in BlockActions(h, b) : \A m \in actions : m.id # a.id}

\* The sender's row has the height in its key.
SenderRows(h, b) ==
    {[id |-> Identity(b.acts[i], h, i), height |-> h, address |-> b.acts[i].sender] :
        i \in DOMAIN b.acts}

\* Rows for the addresses an action names: one for each address and role.
NamedRows(rules, id, h, act) ==
    {[id |-> id, height |-> h, address |-> n[1], role |-> n[2]] :
        n \in Resolve(rules, act.kind, act.payload)}

\* What of some rows is not there: the key leaves the height out.
Missing(found) ==
    {n \in found : \A m \in addressed :
        <<m.id, m.address, m.role>> # <<n.id, n.address, n.role>>}

AddressRows(h, b) ==
    Missing(UNION {NamedRows(schema, Identity(b.acts[i], h, i), h, b.acts[i]) :
                      i \in DOMAIN b.acts})

\* Token events are read back from the actions of the height, and a trigger on
\* `actions` writes the rows by asset.
EventRows(new) ==
    {[id |-> a.id, height |-> a.height, token |-> a.act.token] :
        a \in {a \in new : a.act.token # NoToken}}

AssetRows(new) ==
    {[id |-> a.id, height |-> a.height, index |-> a.index, token |-> a.act.token] :
        a \in {a \in new : a.act.token # NoToken}}

DropRows(h, b) == {[id |-> <<0, s>>, height |-> h] : s \in b.drops}

\* External: a branch holds a signature once, or twice in one malformed block.
Signed(b) == {b.acts[i].sig : i \in DOMAIN b.acts} \ {Unsigned}

Fresh(bs) ==
    \A g \in DOMAIN bs :
        /\ \A h \in DOMAIN bs \ {g} : Signed(bs[g]) \cap Signed(bs[h]) = {}
        /\ \A h \in 0 .. cursor : Signed(bs[g]) \cap Signed(bodies[h]) = {}

\* insert_blocks, one transaction.  Genesis holds no actions.
Commit ==
    \E n \in 1 .. Smaller(MaxBatch, MaxHeight - cursor) :
      \E bs \in [cursor + 1 .. cursor + n -> Bodies] :
        LET new == UNION {ActionRows(h, bs[h]) : h \in DOMAIN bs}
        IN  /\ Fresh(bs)
            /\ 0 \in DOMAIN bs => bs[0] = NoBody
            /\ Store(BlocksAbove(n))
            /\ bodies' = [h \in Heights |-> IF h \in DOMAIN bs THEN bs[h] ELSE bodies[h]]
            /\ actions' = actions \cup new
            /\ senders' = senders \cup UNION {SenderRows(h, bs[h]) : h \in DOMAIN bs}
            /\ addressed' = addressed \cup UNION {AddressRows(h, bs[h]) : h \in DOMAIN bs}
            /\ events' = events \cup EventRows(new)
            /\ assets' = assets \cup AssetRows(new)
            /\ dropped' = dropped \cup UNION {DropRows(h, bs[h]) : h \in DOMAIN bs}
            /\ UNCHANGED <<branch, reindexVars>>

\* Mutant: a table is forgotten.
UpToKeeps(table, r) == table

UpTo(table, r) == {x \in table : x.height <= r}

\* rollback_to: each table by its height, and assets with their actions.  The
\* block at the cursor is on a branch the node has left, or leaves now.
Rollback ==
    LET r == cursor - 1
    IN  /\ Unstore
        /\ \/ rows[cursor].hash # branch /\ UNCHANGED branch
           \/ branch < MaxReorgs /\ branch' = branch + 1
        /\ bodies' = [bodies EXCEPT ![cursor] = NoBody]
        /\ actions' = UpTo(actions, r)
        /\ senders' = UpTo(senders, r)
        /\ addressed' = UpTo(addressed, r)
        /\ events' = UpTo(events, r)
        /\ assets' = {x \in assets : \E a \in actions' : a.id = x.id}
        /\ dropped' = UpTo(dropped, r)
        /\ raced' = (raced \/ \E n \in held : n.height > r)
        /\ UNCHANGED <<schema, reindex, mark, held, covered, restarts>>

-----------------------------------------------------------------------------
(***************************************************************************)
(* The process, and the reindex.                                           *)
(***************************************************************************)
\* A process starts, with rules added or as they were, and is told to reindex or
\* is not.
Restart ==
    /\ restarts < MaxRestarts
    /\ restarts' = restarts + 1
    /\ schema' \in {s \in SUBSET Rules : schema \subseteq s}
    /\ reindex' \in {"off", "read"}
    /\ mark' = Start /\ held' = {}
    /\ covered' = (covered /\ schema' = schema)
    /\ UNCHANGED <<writerVars, tableVars, raced>>

Position(a) == <<a.height, a.index>>

After(p, q) == p[1] > q[1] \/ (p[1] = q[1] /\ p[2] > q[2])

\* Mutants: the cursor is a height, or includes the last position.
UnreadByHeight == {a \in actions : a.height > mark[1]}
UnreadOrAt == {a \in actions : Position(a) = mark \/ After(Position(a), mark)}

\* The actions it has not read, and the first page of them.
Unread == {a \in actions : After(Position(a), mark)}

NextPage ==
    {a \in Unread :
        Cardinality({b \in Unread : After(Position(a), Position(b))}) < ReindexPage}

\* Mutant: an insert is made even with nothing to insert.
InsertsAlways == TRUE

\* With nothing to insert the next page is read.
Inserts == held' # {}

\* A page is read and resolved.
ReindexReads ==
    /\ reindex = "read" /\ Unread # {}
    /\ mark' \in {Position(a) : a \in NextPage}
    /\ \A a \in NextPage : ~After(Position(a), mark')
    /\ held' = UNION {NamedRows(schema, a.id, a.height, a.act) : a \in NextPage}
    /\ reindex' = IF Inserts THEN "insert" ELSE "read"
    /\ UNCHANGED <<writerVars, tableVars, schema, covered, raced, restarts>>

ReindexInserts ==
    /\ reindex = "insert"
    /\ addressed' = addressed \cup Missing(held)
    /\ held' = {} /\ reindex' = "read"
    /\ UNCHANGED <<writerVars, bodies, actions, senders, events, assets, dropped,
                   schema, mark, covered, raced, restarts>>

\* No page is left: the process goes on to serve requests.
ReindexEnds ==
    /\ reindex = "read" /\ Unread = {}
    /\ reindex' = "off" /\ covered' = TRUE
    /\ UNCHANGED <<writerVars, tableVars, schema, mark, held, raced, restarts>>

Reindex == ReindexReads \/ ReindexInserts \/ ReindexEnds

IndexNext == Commit \/ Rollback \/ Restart \/ Reindex
=============================================================================
