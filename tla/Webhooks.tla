------------------------------ MODULE Webhooks ------------------------------
(***************************************************************************)
(* rest-service/src/webhooks.rs and the webhook operations of              *)
(* storage/src/lib.rs: a table of hooks, each with the height up to which  *)
(* its receiver has been sent everything, and the dispatcher, which copies *)
(* the table, reads the tip, and posts block after block to one hook after *)
(* another, one page per hook and round.  Forks, registrations and         *)
(* removals change the table under its copies.                             *)
(*                                                                         *)
(* A block is one delivery: its events are posted in order, and one that   *)
(* fails leaves the whole block owed.  Which events a hook asks for, and   *)
(* the signature, are left out.                                            *)
(***************************************************************************)
EXTENDS Writer

CONSTANTS Urls,           \* the receivers
          Answering,      \* those that answer now and then
          PageSize,       \* BLOCK_PAGE, 500
          MaxFailing,     \* MAX_FAILING, three days: how long a hook may fail
          MaxRegistered,  \* bound: registrations
          MaxClock,       \* bound: how far time is followed
          MaxCrashes,     \* bound: how often the process ends
          MaxEvents       \* bound: of these and the node's forks, all in all

ASSUME WebhooksAssumption ==
    /\ IsFiniteSet(Urls) /\ Urls # {} /\ Answering \subseteq Urls
    /\ PageSize \in Nat \ {0} /\ MaxFailing \in Nat \ {0}
    /\ MaxRegistered \in Nat /\ MaxClock \in Nat /\ MaxCrashes \in Nat
    /\ MaxEvents \in Nat

VARIABLES
    common,         \* the highest stored height that is on the node's chain
    finalized,      \* the node's finalized height; None if it reports none
    rewinding,      \* the index task has decided on a rollback
    known,          \* NetworkView::finalized_height of this process
    hooks,          \* the webhooks table, by url
    registered,     \* ids given out so far
    form,           \* a registration between its read of the tip and its write
    phase,          \* the dispatcher: "wait", "tip", "drain", "post" or "mark"
    queue, more,    \* its copies: of this round, and those owed another page
    upTo, page,     \* the tip of this wake, the rest of the page in hand
    resting,        \* ids in backoff
    clock, crashes,
    received,       \* history: the blocks a url got since it was registered
    owedFrom,       \* history: the first height it is owed
    lastGood,       \* history: when a hook was registered or last delivered
    overtaken,      \* history: urls whose cursor moved under the dispatcher's copy
    blind,          \* history: a wake did not know the finality the node reports
    overrun         \* history: blocks whose height was published as final when
                    \*   their rollback was decided on

chainVars    == <<common, finalized, rewinding, overrun>>
tableVars    == <<hooks, registered, form, received, owedFrom, lastGood, overtaken>>
dispatchVars == <<phase, queue, more, upTo, page, resting, blind>>
envVars      == <<known, clock, crashes>>
vars         == <<writerVars, chainVars, tableVars, dispatchVars, envVars>>

HookRow == [id : 1 .. MaxRegistered, cursor : Heights \cup {None},
            enabled : BOOLEAN, since : 0 .. MaxClock \cup {None}]
NoHook  == [id |-> 0, cursor |-> None, enabled |-> FALSE, since |-> None]
Copy    == [url : Urls, id : 1 .. MaxRegistered, cursor : Heights \cup {None}]
NoForm  == {}

TypeOK ==
    /\ WriterTypeOK
    /\ common \in Heights \cup {None} /\ common <= cursor
    /\ finalized \in Heights \cup {None} /\ known \in Heights \cup {None}
    /\ rewinding \in BOOLEAN
    /\ hooks \in [Urls -> HookRow \cup {NoHook}]
    /\ registered \in 0 .. MaxRegistered
    /\ form \subseteq [url : Urls, cursor : Heights \cup {None}]
    /\ phase \in {"wait", "tip", "drain", "post", "mark"}
    /\ queue \in Seq(Copy) /\ more \in Seq(Copy)
    /\ Len(queue) + Len(more) <= Cardinality(Urls)
    /\ upTo \in Heights \cup {None}
    /\ page \in Seq(Block) /\ Len(page) <= PageSize
    /\ resting \subseteq 1 .. MaxRegistered
    /\ clock \in 0 .. MaxClock /\ crashes \in 0 .. MaxCrashes
    /\ received \in [Urls -> SUBSET Block]
    /\ owedFrom \in [Urls -> 0 .. MaxHeight + 1]
    /\ lastGood \in [Urls -> 0 .. MaxClock]
    /\ overtaken \subseteq Urls /\ blind \in BOOLEAN /\ overrun \subseteq Block

\* The node has certified its genesis, or it never reports finality.
Init ==
    /\ WriterInit /\ common = None
    /\ finalized \in {None, 0} /\ known = None /\ rewinding = FALSE
    /\ hooks = [u \in Urls |-> NoHook] /\ registered = 0 /\ form = NoForm
    /\ phase = "wait" /\ queue = <<>> /\ more = <<>> /\ upTo = None
    /\ page = <<>> /\ resting = {}
    /\ clock = 0 /\ crashes = 0
    /\ received = [u \in Urls |-> {}] /\ owedFrom = [u \in Urls |-> 0]
    /\ lastGood = [u \in Urls |-> 0] /\ overtaken = {} /\ blind = FALSE
    /\ overrun = {}

-----------------------------------------------------------------------------
(***************************************************************************)
(* The node, the reader and the index task.                                *)
(***************************************************************************)
\* The bounds are met together: a registration counts for two.
Affords(n) == 2 * (registered + Cardinality(form)) + clock + crashes + branch + n <= MaxEvents

\* A block certified by the node is never left for another branch.
NodeReorganises ==
    /\ branch < MaxReorgs /\ Affords(1)
    /\ \E d \in 0 .. common - 1 : d >= finalized /\ common' = d
    /\ branch' = branch + 1
    /\ UNCHANGED <<rows, cursor, finalized, rewinding, overrun, tableVars, dispatchVars,
                   envVars>>

NodeFinalises ==
    /\ finalized # None /\ finalized < MaxHeight
    /\ finalized' = finalized + 1
    /\ UNCHANGED <<writerVars, common, rewinding, overrun, tableVars, dispatchVars, envVars>>

\* The reader publishes what /status reports.
Poll ==
    /\ known # finalized
    /\ known' = finalized
    /\ overrun' = IF rewinding /\ cursor <= finalized THEN overrun \cup {rows[cursor]}
                                                     ELSE overrun
    /\ UNCHANGED <<writerVars, common, finalized, rewinding, tableVars, dispatchVars, clock,
                   crashes>>

\* No block is received before the first /status is published.
Receiving == finalized # None => known # None

Commit ==
    /\ Receiving /\ common = cursor /\ ~rewinding
    /\ \E n \in 1 .. Smaller(MaxBatch, MaxHeight - cursor) : Store(BlocksAbove(n))
    /\ common' = cursor'
    /\ UNCHANGED <<branch, finalized, rewinding, overrun, tableVars, dispatchVars, envVars>>

\* Mutant: finality does not limit a rollback.
SparesAnything == TRUE

\* classify: one below the tip is not below what the process knows to be final.
SparesFinal == known = None \/ cursor - 1 >= known

\* The tip is an orphan, which is found when a block on another comes.  What was
\* accepted before that block is flushed first, which is a Commit before this.
DetectFork ==
    /\ Receiving /\ common < cursor /\ ~rewinding
    /\ SparesFinal
    /\ rewinding' = TRUE
    /\ UNCHANGED <<writerVars, common, finalized, overrun, tableVars, dispatchVars, envVars>>

\* rollback_to rewinds the hooks that are ahead, in the same transaction.
HooksRewound(r) ==
    hooks' = [u \in Urls |->
                [hooks[u] EXCEPT !.cursor = IF hooks[u] = NoHook THEN @ ELSE Smaller(@, r)]]

\* The hooks the dispatcher holds a copy of with a cursor above r.
Ahead(r) ==
    LET copies == ToSet(queue) \cup ToSet(more)
    IN  {u \in Urls : hooks[u] # NoHook /\ \E c \in copies : c.id = hooks[u].id /\ c.cursor > r}

\* The transaction, some awaits later: finality is not looked at again.
Rollback ==
    /\ rewinding /\ rewinding' = FALSE
    /\ Unstore
    /\ HooksRewound(cursor')
    /\ owedFrom' = [u \in Urls |-> Smaller(owedFrom[u], cursor' + 1)]
    /\ overtaken' = overtaken \cup Ahead(cursor')
    /\ UNCHANGED <<branch, common, finalized, overrun, registered, form, received, lastGood,
                   dispatchVars, envVars>>

-----------------------------------------------------------------------------
(***************************************************************************)
(* Registrations and removals.                                             *)
(***************************************************************************)
\* `register` reads the tip and settles the cursor: the tip itself, or one below
\* a from_height that is not past the next block ...
RegisterReads ==
    /\ form = NoForm /\ registered < MaxRegistered /\ Affords(2)
    /\ \E u \in Urls, c \in None .. cursor : form' = {[url |-> u, cursor |-> c]}
    /\ UNCHANGED <<writerVars, chainVars, hooks, registered, received, owedFrom,
                   lastGood, overtaken, dispatchVars, envVars>>

\* ... and upsert_webhook writes it.  A url that is registered keeps its id.
RegisterWrites ==
    \E f \in form :
        LET u  == f.url
            id == IF hooks[u] = NoHook THEN registered + 1 ELSE hooks[u].id
        IN  /\ hooks' = [hooks EXCEPT ![u] = [id |-> id, cursor |-> f.cursor,
                                              enabled |-> TRUE, since |-> None]]
            /\ registered' = registered + 1
            /\ form' = NoForm
            /\ received' = [received EXCEPT ![u] = {}]
            /\ owedFrom' = [owedFrom EXCEPT ![u] = f.cursor + 1]
            /\ lastGood' = [lastGood EXCEPT ![u] = clock]
            /\ overtaken' = IF u \in Ahead(None - 1) THEN overtaken \cup {u} ELSE overtaken \ {u}
            /\ UNCHANGED <<writerVars, chainVars, dispatchVars, envVars>>

Unregister ==
    /\ \E u \in Urls :
        /\ hooks[u] # NoHook
        /\ hooks' = [hooks EXCEPT ![u] = NoHook]
        /\ received' = [received EXCEPT ![u] = {}]
        /\ owedFrom' = [owedFrom EXCEPT ![u] = 0]
        /\ lastGood' = [lastGood EXCEPT ![u] = 0]
        /\ overtaken' = overtaken \ {u}
    /\ UNCHANGED <<writerVars, chainVars, registered, form, dispatchVars, envVars>>

-----------------------------------------------------------------------------
(***************************************************************************)
(* The dispatcher.                                                         *)
(***************************************************************************)
Enabled == {u \in Urls : hooks[u].enabled}

InOrder(copies) ==
    {q \in SetToSeqs(copies) : \A i, j \in DOMAIN q : i < j => q[i].id < q[j].id}

\* A block, new finality or the idle timer: list_webhooks, in order of id.
Wake ==
    /\ phase = "wait" /\ Enabled # {}
    /\ queue' \in InOrder({[url |-> u, id |-> hooks[u].id, cursor |-> hooks[u].cursor] :
                               u \in Enabled})
    /\ phase' = "tip"
    /\ UNCHANGED <<writerVars, chainVars, tableVars, envVars, more, upTo, page,
                   resting, blind>>

\* Mutant: hooks are delivered up to the indexed tip.
DeliverableIndexed(indexed, final) == indexed

\* deliverable_tip: the indexed tip, capped at the finalized height.
Deliverable(indexed, final) == IF final = None THEN indexed ELSE Smaller(indexed, final)

\* get_cursor, then the finalized height: the hooks that are behind and not
\* backing off are served.
ReadTip ==
    /\ phase = "tip"
    /\ LET tip == Deliverable(cursor, known)
       IN  /\ queue' \in InOrder({c \in ToSet(queue) : c.cursor < tip /\ c.id \notin resting})
           /\ phase' = IF queue' = <<>> THEN "wait" ELSE "drain"
           /\ upTo' = IF queue' = <<>> THEN None ELSE tip
    /\ blind' = (blind \/ (cursor # None /\ ~Receiving))
    /\ UNCHANGED <<writerVars, chainVars, tableVars, envVars, more, page, resting>>

ReadTipFails ==
    /\ phase = "tip"
    /\ phase' = "wait" /\ queue' = <<>>
    /\ UNCHANGED <<writerVars, chainVars, tableVars, envVars, more, upTo, page,
                   resting, blind>>

\* Mutant: a hook that is owed more stays in this round too.
DoneTwice(copy, owed) ==
    /\ queue' = (IF owed THEN queue ELSE Tail(queue)) /\ page' = <<>> /\ phase' = "drain"
    /\ more' = IF owed THEN Append(more, copy) ELSE more
    /\ resting' = resting \ {copy.id}

\* The hook in hand is done for this round; its backoff is over.
Done(copy, owed) ==
    /\ queue' = Tail(queue) /\ page' = <<>> /\ phase' = "drain"
    /\ more' = IF owed THEN Append(more, copy) ELSE more
    /\ resting' = resting \ {copy.id}

\* One page of what the hook is owed.  Without rows there is nothing to do.
ReadPage ==
    /\ phase = "drain" /\ queue # <<>>
    /\ LET found == RowsBetween(Head(queue).cursor + 1, upTo, PageSize)
       IN  \/ /\ found = <<>>
              /\ Done(Head(queue), FALSE)
           \/ /\ found # <<>>
              /\ page' = found /\ phase' = "post"
              /\ UNCHANGED <<queue, more, resting>>
    /\ UNCHANGED <<writerVars, chainVars, tableVars, envVars, upTo, blind>>

\* The receiver gets the block and its answer is a 2xx.  If the answer is lost
\* the next step is Fail.
Post ==
    /\ phase = "post"
    /\ received' = [received EXCEPT ![Head(queue).url] = @ \cup {Head(page)}]
    /\ phase' = "mark"
    /\ UNCHANGED <<writerVars, chainVars, hooks, registered, form, owedFrom, lastGood,
                   overtaken, envVars, queue, more, upTo, page, resting, blind>>

\* Mutants of the update of the cursor: by height alone, and without the reset
\* of the failing clock.
StillOwedByHeight(hook, b) == IsStored(rows, b.height)

\* webhook_delivered finds the block it delivered, and waits for a rollback.
StillOwed(hook, b) == rows[b.height] = b

SetCursorOnly(hook, b) == [hook EXCEPT !.cursor = b.height]

SetDelivered(hook, b) == [hook EXCEPT !.cursor = b.height, !.since = None]

HookOf(copy) == {u \in Urls : hooks[u] # NoHook /\ hooks[u].id = copy.id}

\* The update by id, and the next block, page or hook.
MarkDelivered ==
    /\ phase = "mark"
    /\ LET b      == Head(page)
           hit    == {u \in HookOf(Head(queue)) : StillOwed(hooks[u], b)}
           served == [Head(queue) EXCEPT !.cursor = b.height]
       IN  /\ hooks' = [u \in Urls |->
                          IF u \in hit THEN SetDelivered(hooks[u], b) ELSE hooks[u]]
           /\ lastGood' = [u \in Urls |-> IF u \in hit THEN clock ELSE lastGood[u]]
           /\ \/ hit = {} /\ Done(Head(queue), FALSE)
              \/ hit # {} /\ Len(page) = 1 /\ Done(served, b.height < upTo)
              \/ /\ hit # {} /\ Len(page) > 1
                 /\ queue' = <<served>> \o Tail(queue)
                 /\ page' = Tail(page) /\ phase' = "post"
                 /\ UNCHANGED <<more, resting>>
    /\ UNCHANGED <<writerVars, chainVars, registered, form, received, owedFrom, overtaken,
                   envVars, upTo, blind>>

\* webhook_failed: the clock starts if it does not run; too long disables.
Failed(hook) ==
    LET since == IF hook.since = None THEN clock ELSE hook.since
    IN  [hook EXCEPT !.since = since, !.enabled = since > clock - MaxFailing]

\* Mutant: a hook that fails is tried again at once.
TriedAgain(id) == UNCHANGED <<resting, queue>>

\* The hook in hand is put by; the others are served.
PutBy(id) == resting' = resting \cup {id} /\ queue' = Tail(queue)

\* A read, a post or an update fails: the hook backs off until another wake.
\* That it failed may not be recorded either.
Fail ==
    /\ queue # <<>> /\ phase \in {"drain", "post", "mark"}
    /\ hooks' \in {hooks, [u \in Urls |-> IF u \in HookOf(Head(queue))
                                          THEN Failed(hooks[u]) ELSE hooks[u]]}
    /\ PutBy(Head(queue).id) /\ page' = <<>> /\ phase' = "drain"
    /\ UNCHANGED <<writerVars, chainVars, registered, form, received, owedFrom, lastGood,
                   overtaken, envVars, more, upTo, blind>>

\* Another round for the hooks that are owed more, or the next wake.
NextRound ==
    /\ phase = "drain" /\ queue = <<>>
    /\ queue' = more /\ more' = <<>>
    /\ phase' = IF more = <<>> THEN "wait" ELSE "drain"
    /\ upTo' = IF more = <<>> THEN None ELSE upTo
    /\ UNCHANGED <<writerVars, chainVars, tableVars, envVars, page, resting, blind>>

\* Mutant: a backoff never ends.
RestForever(ids) == UNCHANGED resting

BackoffEnds(ids) == resting' = resting \ ids

Rested ==
    /\ \E id \in resting : BackoffEnds({id})
    /\ UNCHANGED <<writerVars, chainVars, tableVars, envVars, phase, queue, more, upTo,
                   page, blind>>

Tick ==
    /\ clock < MaxClock /\ Affords(1)
    /\ clock' = clock + 1
    /\ UNCHANGED <<writerVars, chainVars, tableVars, dispatchVars, known, crashes>>

\* The process ends: the store is all that is left.
Crash ==
    /\ crashes < MaxCrashes /\ Affords(1)
    /\ crashes' = crashes + 1
    /\ known' = None /\ form' = NoForm /\ rewinding' = FALSE
    /\ phase' = "wait" /\ queue' = <<>> /\ more' = <<>> /\ upTo' = None
    /\ page' = <<>> /\ resting' = {}
    /\ UNCHANGED <<writerVars, common, finalized, overrun, hooks, registered, received,
                   owedFrom, lastGood, overtaken, blind, clock>>

DispatcherStep ==
    \/ Wake \/ ReadTip \/ ReadTipFails \/ ReadPage \/ Post \/ MarkDelivered
    \/ Fail \/ NextRound \/ Rested

Next ==
    \/ NodeReorganises \/ NodeFinalises \/ Poll \/ Commit \/ DetectFork \/ Rollback
    \/ RegisterReads \/ RegisterWrites \/ Unregister
    \/ DispatcherStep
    \/ Tick \/ Crash

Spec == Init /\ [][Next]_vars

-----------------------------------------------------------------------------
(***************************************************************************)
(* Safety.                                                                 *)
(***************************************************************************)

\* The stored blocks below a hook's cursor, from where it began, were received.
GotEverything(u) ==
    \A h \in owedFrom[u] .. hooks[u].cursor :
        IsStored(rows, h) => rows[h] \in received[u]

\* Through failures, forks, restarts and removals, a cursor never passes a block
\* its receiver was not sent, unless a registration or a rollback moved it under
\* a copy that the dispatcher goes on with.
AtLeastOnce == \A u \in Urls \ overtaken : hooks[u] # NoHook => GotEverything(u)

\* On a chain that reports finality, nothing a hook received is un-indexed, as
\* long as no delivery was begun without knowing the finalized height, and unless
\* finality passed the block between its detection as an orphan and its rollback.
FinalStands ==
    finalized # None /\ ~blind =>
        \A u \in Urls : \A b \in received[u] \ overrun : rows[b.height] = b

\* A hook is given up on only if it got nothing for as long as it may fail.
DisabledAfterWindow ==
    \A u \in Urls :
        hooks[u] # NoHook /\ ~hooks[u].enabled => clock - lastGood[u] >= MaxFailing

(***************************************************************************)
(* Liveness.  The dispatcher runs, a backoff ends, and what the dispatcher *)
(* awaits comes to an end: its posts have a timeout.  A read of the tip    *)
(* succeeds now and then; and a receiver that answers now and then gets a  *)
(* delivery through if it is tried again and again, that is one whose read *)
(* and update succeed too.  Of the other receivers nothing is assumed.     *)
(***************************************************************************)
ServesNow(u) == queue # <<>> /\ Head(queue).url = u

Fairness ==
    /\ WF_vars(Wake) /\ SF_vars(ReadTip) /\ WF_vars(NextRound)
    /\ WF_vars(ReadPage \/ Post \/ MarkDelivered \/ Fail)
    /\ \A id \in 1 .. MaxRegistered : WF_vars(id \in resting /\ Rested /\ id \notin resting')
    /\ \A u \in Answering :
        \/ <>[][~(ServesNow(u) /\ Fail)]_vars
        \/ []<><<ServesNow(u) /\ MarkDelivered>>_vars

FairSpec == Spec /\ Fairness

\* Every hook whose receiver answers now and then, and that is not given up on, is
\* delivered all there is, again and again, whatever the other receivers do.
HooksServed ==
    \A u \in Answering :
        []<>(hooks[u].enabled => hooks[u].cursor >= Deliverable(cursor, known))

(***************************************************************************)
(* What comments say without these conditions.                             *)
(***************************************************************************)

\* "Webhooks that already delivered orphaned heights must re-deliver the
\* replacement blocks": a hook that is rewound goes on from where it was put.
RewoundHooksRedeliver == \A u \in Urls : hooks[u] # NoHook => GotEverything(u)

\* "On a chain whose node reports finality, delivery stops at the finalized height,
\* so nothing a hook receives can be orphaned by a fork": also when finality comes
\* while a rollback is under way, as long as every delivery knew how far it reaches.
NothingReceivedIsOrphaned ==
    finalized # None /\ ~blind => \A u \in Urls : \A b \in received[u] : rows[b.height] = b
=============================================================================
