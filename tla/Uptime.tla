------------------------------- MODULE Uptime -------------------------------
(***************************************************************************)
(* rest-service/src/lib.rs, get_validator_uptime: who owed the blocks of a *)
(* range, and who made them.  The rows are the index's; whose turn it was  *)
(* follows from the validator set of the height, which is fetched from the *)
(* node, up to MAX_UPTIME_CONCURRENCY heights at a time, or taken from a   *)
(* cache.  The node may have left the branch of a row, and the branch of   *)
(* what is in the cache.                                                   *)
(*                                                                         *)
(* One request at a time, over one chain's entries of the cache.           *)
(***************************************************************************)
EXTENDS Writer

CONSTANTS Consensus,     \* of each block: its validators, sorted, and its round
          MaxRange,      \* MAX_UPTIME_RANGE, 5 000
          Concurrency,   \* MAX_UPTIME_CONCURRENCY, 16
          Ttl,           \* UPTIME_CACHE_TTL, five minutes, in ticks of the clock
          FetchTimeout,  \* NODE_RPC_TIMEOUT, five seconds
          MaxEntries,    \* UPTIME_CACHE_MAX_ENTRIES, 20 000
          MaxNow         \* bound: ticks of the clock

ASSUME UptimeAssumption ==
    /\ DOMAIN Consensus = Heights \X Hashes
    /\ \A b \in DOMAIN Consensus :
          Consensus[b].validators \in Seq(STRING) /\ Consensus[b].round \in Nat
    /\ MaxRange \in Nat \ {0} /\ Concurrency \in Nat \ {0}
    /\ Ttl \in Nat \ {0} /\ FetchTimeout \in Nat /\ MaxEntries \in Nat /\ MaxNow \in Nat

VARIABLES
    forkedAt,       \* the first height that is the node's present branch's
    now,            \* Instant::now()
    cache,          \* UptimeCache::entries of this chain
    phase,          \* "idle", "rows", "sets", "done" or "failed"
    range,          \* the heights asked for
    listed,         \* the rows read
    flight,         \* heights being fetched
    asked,          \* of these, when the request to the node began
    answer,         \*   and what the node answered, while it is under way
    sets,           \* by height, the set used, as the hash of the block it is of
    failed,         \* heights whose fetch failed
    fetchedAt,      \* history: when a height was last fetched
    since, forked   \* history: when the request began, when the node last forked

nodeVars    == <<branch, forkedAt, forked>>
fetchVars   == <<flight, asked, answer>>
requestVars == <<phase, range, listed, fetchVars, sets, failed, since>>
vars        == <<rows, cursor, nodeVars, now, cache, requestVars, fetchedAt>>

Entry   == [hash : Hashes, fetched : 0 .. MaxNow]
NoEntry == [hash |-> None, fetched |-> None]

TypeOK ==
    /\ WriterTypeOK
    /\ forkedAt \in Heights /\ now \in 0 .. MaxNow
    /\ cache \in [Heights -> Entry \cup {NoEntry}]
    /\ phase \in {"idle", "rows", "sets", "done", "failed"}
    /\ range \subseteq Heights /\ Cardinality(range) <= MaxRange
    /\ listed \subseteq Block /\ \A b \in listed : b.height \in range
    /\ flight \subseteq range /\ Cardinality(flight) <= Concurrency
    /\ asked \in [Heights -> 0 .. MaxNow \cup {None}]
    /\ answer \in [Heights -> Hashes \cup {None}]
    /\ sets \in [Heights -> Hashes \cup {None}] /\ failed \subseteq range
    /\ fetchedAt \in [Heights -> 0 .. MaxNow \cup {None}]
    /\ since \in 0 .. MaxNow /\ forked \in 0 .. MaxNow

Init ==
    /\ WriterInit /\ forkedAt = 0 /\ now = 0
    /\ cache = [h \in Heights |-> NoEntry]
    /\ phase = "idle" /\ range = {} /\ listed = {} /\ flight = {}
    /\ asked = [h \in Heights |-> None] /\ answer = [h \in Heights |-> None]
    /\ sets = [h \in Heights |-> None] /\ failed = {}
    /\ fetchedAt = [h \in Heights |-> None] /\ since = 0 /\ forked = 0

-----------------------------------------------------------------------------
(***************************************************************************)
(* The node, the index task and the clock.                                 *)
(***************************************************************************)
\* The hash of the node's block at a height that is stored.
OnNode(h) == IF h < forkedAt THEN rows[h].hash ELSE branch

Behind == cursor >= forkedAt /\ rows[cursor].hash # branch

Commit ==
    /\ ~Behind
    /\ \E n \in 1 .. Smaller(MaxBatch, MaxHeight - cursor) : Store(BlocksAbove(n))
    /\ UNCHANGED <<nodeVars, now, cache, requestVars, fetchedAt>>

\* Genesis is the same on every branch.
Fork ==
    /\ branch < MaxReorgs /\ ~Behind
    /\ \E h \in 1 .. cursor : forkedAt' = h
    /\ branch' = branch + 1 /\ forked' = now
    /\ UNCHANGED <<rows, cursor, now, cache, requestVars, fetchedAt>>

Rollback ==
    /\ Behind /\ Unstore
    /\ UNCHANGED <<nodeVars, now, cache, requestVars, fetchedAt>>

Tick ==
    /\ now < MaxNow /\ now' = now + 1
    /\ UNCHANGED <<rows, cursor, nodeVars, cache, requestVars, fetchedAt>>

-----------------------------------------------------------------------------
(***************************************************************************)
(* The cache.                                                              *)
(***************************************************************************)
\* Mutant: entries never expire.
KeptForever(e) == e # NoEntry

\* e.fetched.elapsed() < self.ttl
Fresh(e) == e # NoEntry /\ now - e.fetched < Ttl

\* Mutant: the sweep empties the cache.
SweptAll ==
    IF Cardinality({h \in Heights : cache[h] # NoEntry}) > MaxEntries
    THEN [h \in Heights |-> NoEntry] ELSE cache

\* Once the cache has grown an insert drops what has expired.
Swept ==
    IF Cardinality({h \in Heights : cache[h] # NoEntry}) > MaxEntries
    THEN [h \in Heights |-> IF Fresh(cache[h]) THEN cache[h] ELSE NoEntry]
    ELSE cache

-----------------------------------------------------------------------------
(***************************************************************************)
(* A request.                                                              *)
(***************************************************************************)
Ask ==
    /\ phase \in {"idle", "done", "failed"}
    /\ \E from, to \in Heights :
        /\ from <= to /\ to - from + 1 <= MaxRange
        /\ range' = from .. to
    /\ phase' = "rows" /\ since' = now
    /\ listed' = {} /\ sets' = [h \in Heights |-> None] /\ failed' = {}
    /\ UNCHANGED <<rows, cursor, nodeVars, now, cache, fetchVars, fetchedAt>>

\* list_proposed_heights: genesis has no proposer.
Listed == {rows[h] : h \in {h \in range : h > 0 /\ IsStored(rows, h)}}

\* Nothing listed is an empty report.
ReadRows ==
    /\ phase = "rows"
    /\ listed' = Listed
    /\ phase' = IF Listed = {} THEN "done" ELSE "sets"
    /\ UNCHANGED <<rows, cursor, nodeVars, now, cache, range, fetchVars, sets, failed,
                   since, fetchedAt>>

\* The stream begins with the lowest height.
Unstarted == {b.height : b \in listed} \ ({h \in Heights : sets[h] # None} \cup flight \cup failed)

\* Mutant: nothing limits the heights in flight.
MayStartAny == TRUE

MayStart == Cardinality(flight) < Concurrency

\* A height's turn: its set is in the cache, or the node is asked.
Start(h) ==
    /\ phase = "sets" /\ MayStart
    /\ h \in Unstarted /\ \A g \in Unstarted : h <= g
    /\ IF Fresh(cache[h])
       THEN sets' = [sets EXCEPT ![h] = cache[h].hash] /\ UNCHANGED <<flight, asked>>
       ELSE /\ flight' = flight \cup {h} /\ asked' = [asked EXCEPT ![h] = now]
            /\ UNCHANGED sets
    /\ UNCHANGED <<rows, cursor, nodeVars, now, cache, phase, range, listed, answer, failed,
                   since, fetchedAt>>

\* The node looks up the set on the branch it is on, and its answer is under way.
NodeAnswers(h) ==
    /\ h \in flight /\ answer[h] = None
    /\ answer' = [answer EXCEPT ![h] = OnNode(h)]
    /\ UNCHANGED <<rows, cursor, nodeVars, now, cache, phase, range, listed, flight, asked,
                   sets, failed, since, fetchedAt>>

\* The fetch is over, and nothing of it is left.
Over(h) ==
    /\ h \in flight /\ flight' = flight \ {h}
    /\ asked' = [asked EXCEPT ![h] = None] /\ answer' = [answer EXCEPT ![h] = None]

\* Mutant: what was fetched is kept only if the request goes well so far.
CachedIfWell(h, hash) ==
    IF failed = {} THEN [Swept EXCEPT ![h] = [hash |-> hash, fetched |-> now]] ELSE cache

Cached(h, hash) == [Swept EXCEPT ![h] = [hash |-> hash, fetched |-> now]]

\* The answer is in, unless it took too long: it is dated by when it came in.
Answered(h) ==
    /\ Over(h) /\ answer[h] # None /\ now - asked[h] <= FetchTimeout
    /\ sets' = [sets EXCEPT ![h] = answer[h]]
    /\ cache' = Cached(h, answer[h])
    /\ fetchedAt' = [fetchedAt EXCEPT ![h] = now]
    /\ UNCHANGED <<rows, cursor, nodeVars, now, phase, range, listed, failed, since>>

FetchFails(h) ==
    /\ Over(h)
    /\ failed' = failed \cup {h}
    /\ UNCHANGED <<rows, cursor, nodeVars, now, cache, phase, range, listed, sets, since,
                   fetchedAt>>

\* Every height is tried before the first error is the answer.
Finish ==
    /\ phase = "sets" /\ Unstarted = {} /\ flight = {}
    /\ phase' = IF failed = {} THEN "done" ELSE "failed"
    /\ UNCHANGED <<rows, cursor, nodeVars, now, cache, range, listed, fetchVars, sets, failed,
                   since, fetchedAt>>

Next ==
    \/ Commit \/ Fork \/ Rollback \/ Tick
    \/ Ask \/ ReadRows \/ Finish
    \/ \E h \in Heights : Start(h) \/ NodeAnswers(h) \/ Answered(h) \/ FetchFails(h)

Spec == Init /\ [][Next]_vars

-----------------------------------------------------------------------------
(***************************************************************************)
(* The report.                                                             *)
(***************************************************************************)
Validators(h, hash) == Consensus[<<h, hash>>].validators

\* eligible_designee, of a set that is not empty.
Designee(set, height, round) == set[((height + round) % Len(set)) + 1]

\* The round of a row, and who proposed it: whoever's turn it was.
Round(b)    == Consensus[<<b.height, b.hash>>].round
Proposer(b) == Designee(Validators(b.height, b.hash), b.height, Round(b))

\* Mutant: a turn that was stood in for is not owed.
CountedAtRoundZero ==
    {b \in listed : Validators(b.height, sets[b.height]) # <<>> /\ Round(b) = 0}

\* A height whose set is empty is passed over, its backup proposal with it.
Counted == {b \in listed : Validators(b.height, sets[b.height]) # <<>>}

Primary(b) == Designee(Validators(b.height, sets[b.height]), b.height, 0)

\* compute_uptime
Owed(v)          == {b \in Counted : Primary(b) = v}
Filled(v)        == {b \in Owed(v) : Round(b) = 0 /\ Proposer(b) = v}
Backups(v)       == {b \in Counted : Round(b) # 0 /\ Proposer(b) = v}
Addresses        == {Primary(b) : b \in Counted} \cup {Proposer(b) : b \in Counted}
Report ==
    [v \in {a \in Addresses : Owed(a) # {} \/ Backups(a) # {}} |->
        [owed   |-> Cardinality(Owed(v)),
         missed |-> Cardinality(Owed(v)) - Cardinality(Filled(v)),
         backup |-> Cardinality(Backups(v))]]

-----------------------------------------------------------------------------
\* The node kept its branch from the request's start, and for as long before it as
\* an answer may take and then stay cached; and the rows are of that branch.
Steady ==
    /\ branch = 0 \/ forked + FetchTimeout + Ttl <= since
    /\ \A b \in listed : b.hash = OnNode(b.height)

\* A report on a branch the node has settled on blames nobody wrongly: a height
\* is a turn of whoever the chain says, and each turn missed is one that another
\* stood in for.
ReportIsFair ==
    phase = "done" /\ Steady =>
        /\ \A b \in listed :
              LET set == Validators(b.height, b.hash)
              IN  set # <<>> => b \in Owed(Designee(set, b.height, 0))
        /\ SumFunction([v \in DOMAIN Report |-> Report[v].missed])
             = SumFunction([v \in DOMAIN Report |-> Report[v].backup])

\* The node is asked for a height at most once while an answer lives, be it that
\* the request it was for failed, and only for heights that are listed.
NodeSpared ==
    [][\A h \in flight' \ flight :
          /\ h \in {b.height : b \in listed}
          /\ fetchedAt[h] = None \/ now - fetchedAt[h] >= Ttl]_vars
=============================================================================
