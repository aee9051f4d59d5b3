----------------------------- MODULE ActionReads -----------------------------
(***************************************************************************)
(* The lists of blocks and actions that rest-service serves from the       *)
(* tables of Actions, and a client that reads them while blocks come and   *)
(* go.  A list is walked newest first, a page at a time, each page asked   *)
(* for by the position of the last entry of the one before; a page that is *)
(* not full is the last one.  A range of blocks is read by three queries,  *)
(* one after another.  Requests are served when the reindex has ended.     *)
(***************************************************************************)
EXTENDS Actions

CONSTANTS PageLimit,    \* entries of a page
          Requests,     \* what the client may ask for
          MaxEntries    \* bound: a longer walk is given up

ASSUME ReadsAssumption ==
    /\ PageLimit \in Nat \ {0} /\ MaxEntries \in Nat
    /\ \A q \in Requests :
        /\ q.list \in {"account", "actions", "asset", "events", "dropped",
                       "summaries", "blocks"}
        /\ q.list = "blocks" => q.subject \in Heights /\ q.upto \in Heights
        /\ q.list \in {"asset", "events"} => q.subject \in Tokens

VARIABLES
    step,     \* where the read stands: "idle", "walk", "rows", "acts", "drops", "done"
    ask,      \* what was asked for
    last,     \* the position the next page is asked from
    got,      \* the entries of the walk
    parts,    \* the results of the three queries
    stood     \* history: the height up to which the chain has stood since

readVars == <<step, ask, last, got, parts, stood>>
vars     == <<indexVars, readVars>>

\* An entry's position is its height and, within that, a pair to order by.
Entry(h, tie, id) == [height |-> h, tie |-> tie, id |-> id]
Entries == [height : Heights, tie : Positions, id : Ids]
NoLast  == Entry(MaxHeight + 1, <<0, 0>>, <<0, 0>>)
NoParts == [rows |-> <<>>, acts |-> {}, drops |-> {}]

Newer(e, f) == e.height > f.height \/ (e.height = f.height /\ After(e.tie, f.tie))

\* Entries in order, newest first.
NewestFirst(S) ==
    LET place(e) == Cardinality({f \in S : ~Newer(e, f)})
    IN  [i \in 1 .. Cardinality(S) |-> CHOOSE e \in S : place(e) = i]

TypeOK ==
    /\ IndexTypeOK
    /\ step \in {"idle", "walk", "rows", "acts", "drops", "done"}
    /\ step # "idle" => ask \in Requests
    /\ last \in Entries \cup {NoLast}
    /\ got \in Seq(Entries)
    /\ parts \in [rows : Seq(Block), acts : SUBSET ActionRow, drops : SUBSET DropRow]
    /\ stood \in Heights \cup {None}

Init ==
    /\ IndexInit
    /\ step = "idle" /\ ask \in Requests /\ last = NoLast /\ got = <<>>
    /\ parts = NoParts /\ stood = None

-----------------------------------------------------------------------------
(***************************************************************************)
(* The pages.                                                              *)
(***************************************************************************)
\* Mutant: the cursor is a height.
OlderByHeight(S) == {e \in S : e.height < last.height}

Older(S) == {e \in S : Newer(last, e)}

Newest(S) == {e \in S : Cardinality({f \in S : Newer(f, e)}) < PageLimit}

ActionEntry(a) == Entry(a.height, <<a.index, 0>>, a.id)

\* One role's branch of an account's history, in the order of its own table.
\* "from" is the sender's, and "payload_from" the extracted role of that name.
Branch(address, role) ==
    LET named == {n \in addressed : n.role = IF role = "payload_from" THEN "from" ELSE role}
        index == IF role = "from" THEN senders ELSE named
        pairs == {p \in index \X actions : p[1].address = address /\ p[1].id = p[2].id}
        at(p) == Entry(p[1].height, <<p[2].index, 0>>, p[2].id)
        page  == Newest(Older({at(p) : p \in pairs}))
    IN  {ActionEntry(p[2]) : p \in {p \in pairs : at(p) \in page}}

AccountPage == Newest(UNION {Branch(ask.subject, role) : role \in ask.roles})

ActionsPage == Newest(Older({ActionEntry(a) : a \in actions}))

AssetPage ==
    Newest(Older({Entry(x.height, <<x.index, 0>>, x.id) : x \in {x \in assets :
        x.token = ask.subject /\ \E a \in actions : a.id = x.id}}))

\* In one block events go by the hash, the least first.
EventEntry(e) == Entry(e.height, <<-e.id[1], -e.id[2]>>, e.id)

EventsPage == Newest(Older({EventEntry(e) : e \in {e \in events : e.token = ask.subject}}))

DropEntry(d) == Entry(d.height, d.id, d.id)

DroppedPage == Newest(Older({DropEntry(d) : d \in dropped}))

SummaryEntry(r) == Entry(r.height, <<0, 0>>, <<0, r.hash>>)

SummariesPage ==
    Newest(Older({SummaryEntry(rows[h]) : h \in {h \in Heights : IsStored(rows, h)}}))

Page ==
    CASE ask.list = "account"   -> AccountPage
      [] ask.list = "actions"   -> ActionsPage
      [] ask.list = "asset"     -> AssetPage
      [] ask.list = "events"    -> EventsPage
      [] ask.list = "dropped"   -> DroppedPage
      [] ask.list = "summaries" -> SummariesPage

\* Mutant: only who sends is looked for.
FirstSent(address) ==
    {n.height : n \in {n \in senders : /\ n.address = address
        /\ \A m \in senders : m.address = address => n.height <= m.height}}

\* get_account_first_seen: the lesser of the minimums of two tables, where a
\* block of that height is stored.
FirstSeen(address) ==
    LET named == {n \in senders \cup addressed : n.address = address}
        first == {n.height : n \in {n \in named : \A m \in named : n.height <= m.height}}
    IN  {h \in first : IsStored(rows, h)}

-----------------------------------------------------------------------------
(***************************************************************************)
(* The requests.                                                           *)
(***************************************************************************)
Ask ==
    /\ step \in {"idle", "done"} \/ Len(got) >= MaxEntries
    /\ reindex = "off"
    /\ ask' \in Requests
    /\ step' = IF ask'.list = "blocks" THEN "rows" ELSE "walk"
    /\ last' = NoLast /\ got' = <<>> /\ parts' = NoParts /\ stood' = cursor
    /\ UNCHANGED indexVars

ReadPage ==
    /\ step = "walk" /\ Len(got) < MaxEntries
    /\ got' = got \o NewestFirst(Page)
    /\ last' = IF Page = {} THEN last ELSE got'[Len(got')]
    /\ step' = IF Cardinality(Page) < PageLimit THEN "done" ELSE "walk"
    /\ UNCHANGED <<indexVars, ask, parts, stood>>

\* get_blocks_in_range, and get_block_by_height where both ends are one: the
\* rows, then the actions of the heights these span, then what was dropped.
ReadRows ==
    /\ step = "rows"
    /\ parts' = [parts EXCEPT !.rows = RowsBetween(ask.subject, ask.upto, PageLimit)]
    /\ step' = IF parts'.rows = <<>> THEN "done" ELSE "acts"
    /\ UNCHANGED <<indexVars, ask, last, got, stood>>

\* Mutant: the last block is left out.
SpannedBelow(table) ==
    {x \in table : /\ x.height >= parts.rows[1].height
                   /\ x.height < parts.rows[Len(parts.rows)].height}

Spanned(table) ==
    {x \in table : /\ x.height >= parts.rows[1].height
                   /\ x.height <= parts.rows[Len(parts.rows)].height}

ReadActs ==
    /\ step = "acts"
    /\ parts' = [parts EXCEPT !.acts = Spanned(actions)]
    /\ step' = "drops"
    /\ UNCHANGED <<indexVars, ask, last, got, stood>>

ReadDrops ==
    /\ step = "drops"
    /\ parts' = [parts EXCEPT !.drops = Spanned(dropped)]
    /\ step' = "done"
    /\ UNCHANGED <<indexVars, ask, last, got, stood>>

Read == ReadPage \/ ReadRows \/ ReadActs \/ ReadDrops

\* The chain may change under a read; a restart ends it.
Index ==
    \/ /\ Commit \/ Reindex
       /\ UNCHANGED readVars
    \/ /\ Rollback
       /\ stood' = Smaller(stood, cursor - 1)
       /\ UNCHANGED <<step, ask, last, got, parts>>
    \/ /\ Restart
       /\ step' = "idle" /\ last' = NoLast /\ got' = <<>> /\ parts' = NoParts
       /\ stood' = None
       /\ UNCHANGED ask

Next == Index \/ Ask \/ Read

Spec     == Init /\ [][Next]_vars
FairSpec == Spec /\ WF_vars(Reindex /\ UNCHANGED readVars)

-----------------------------------------------------------------------------
(***************************************************************************)
(* What the tables hold, and what is read from them.                       *)
(***************************************************************************)
Stored == UNION {BlockActions(h, bodies[h]) : h \in 0 .. cursor}

Named(a) == NamedRows(schema, a.id, a.height, a.act)

\* Nothing names an address but an action of the chain under the rules; and
\* all the rules imply is there, if a reindex has ended since they were added.
\* Save for rows of a reindex that a rollback overtook.
AddressesFollow ==
    ~raced =>
        /\ addressed \subseteq UNION {Named(a) : a \in Stored}
        /\ covered => addressed = UNION {Named(a) : a \in Stored}

\* What get_account_actions says of its cursor: no action of an address is
\* repeated across pages.
NoneRepeated == \A i, j \in DOMAIN got : got[i] = got[j] => i = j

\* The rows of a block in the other tables, each with its table's name.
BlockRows(h, b) ==
    LET acts == BlockActions(h, b)
    IN       {"actions"} \X acts            \cup {"senders"} \X SenderRows(h, b)
        \cup {"events"}  \X EventRows(acts) \cup {"assets"}  \X AssetRows(acts)
        \cup {"dropped"} \X DropRows(h, b)

\* Those tables are a view of the chain: a batch and a rollback keep them so,
\* and nothing else touches them.
ViewOfChain ==
    INSTANCE LedgerView WITH
        RowsOf <- BlockRows,
        chain  <- [n \in 1 .. cursor + 1 |-> bodies[n - 1]],
        view   <-      {"actions"} \X actions \cup {"senders"} \X senders
                  \cup {"events"}  \X events  \cup {"assets"}  \X assets
                  \cup {"dropped"} \X dropped

TablesAreView == ViewOfChain!Spec

\* What a list should hold, from the blocks up to a height.
Wanted(q, top) ==
    LET below == {a \in Stored : a.height <= top}
    IN  CASE q.list = "account" ->
               {ActionEntry(a) : a \in {a \in below :
                   \E role \in q.roles :
                       IF role = "from" THEN a.act.sender = q.subject
                       ELSE <<q.subject, IF role = "payload_from" THEN "from" ELSE role>>
                                \in Resolve(schema, a.act.kind, a.act.payload)}}
          [] q.list = "actions" -> {ActionEntry(a) : a \in below}
          [] q.list = "asset" -> {ActionEntry(a) : a \in {a \in below : a.act.token = q.subject}}
          [] q.list = "events" -> {EventEntry(a) : a \in {a \in below : a.act.token = q.subject}}
          [] q.list = "dropped" ->
               UNION {{Entry(h, <<0, s>>, <<0, s>>) : s \in bodies[h].drops} : h \in 0 .. top}
          [] q.list = "summaries" -> {SummaryEntry(rows[h]) : h \in 0 .. top}

\* A walk that has ended holds each entry it should once and in order, for the
\* part of the chain that stood while it was made, whatever went on above that.
WalkExact ==
    (step = "done" /\ ask.list # "blocks" /\ (ask.list = "account" => covered /\ ~raced)) =>
        /\ {e \in ToSet(got) : e.height <= stood} = Wanted(ask, stood)
        /\ \A i, j \in DOMAIN got : i < j => Newer(got[i], got[j])

\* Of the blocks that stood, the three queries bring back those asked for, as many
\* as one page has, whole and as they are.
BlocksWhole ==
    (step = "done" /\ ask.list = "blocks") =>
        LET read == {i \in DOMAIN parts.rows : parts.rows[i].height <= stood}
            due  == RowsBetween(ask.subject, Smaller(ask.upto, stood), PageLimit)
        IN  /\ read = DOMAIN due
            /\ \A i \in read :
                LET h == due[i].height
                IN  /\ parts.rows[i] = due[i]
                    /\ {a \in parts.acts : a.height = h} = BlockActions(h, bodies[h])
                    /\ {d \in parts.drops : d.height = h} = DropRows(h, bodies[h])

\* An account is first seen where an action of the chain first names it.
FirstSeenHolds ==
    (covered /\ ~raced) =>
        \A address \in Addresses :
            LET named == {a \in Stored : \/ a.act.sender = address
                                         \/ \E n \in Named(a) : n.address = address}
            IN  FirstSeen(address) =
                  {a.height : a \in {a \in named : \A b \in named : a.height <= b.height}}

\* A reindex ends, and requests are served, whatever the chain does meanwhile.
ReindexComesToAnEnd == reindex # "off" ~> reindex = "off"
=============================================================================
