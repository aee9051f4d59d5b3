---------------------------- MODULE RequestGuard ----------------------------
(***************************************************************************)
(* retracer-core/src/auth.rs: the guard before every route, `rest_guard`,  *)
(* and its RateLimiter, a count of requests per address and fixed window   *)
(* that is swept of expired entries when it has grown.                     *)
(***************************************************************************)
EXTENDS Integers, FiniteSets

CONSTANTS Address,       \* addresses, of peers and in X-Forwarded-For
          Trusted,       \* the addresses the list of trusted proxies contains
          Limit,         \* max_per_window: 60 times the configured rate
          Window,        \* RATE_LIMIT_WINDOW, 60 seconds, in ticks of the clock
          SweepAbove,    \* RATE_LIMIT_SWEEP_THRESHOLD, 10 000 entries
          MaxPerTick,    \* bound: requests charged to an address in a tick
          MaxNow,        \* bound: ticks of the clock
          NoAddress      \* no header, or one that names no address

ASSUME GuardAssumption ==
    /\ Trusted \subseteq Address /\ NoAddress \notin Address
    /\ Limit \in Nat \ {0} /\ Window \in Nat \ {0}
    /\ SweepAbove \in Nat /\ MaxPerTick \in Nat /\ MaxNow \in Nat

VARIABLES now,      \* Instant::now()
          hits,     \* RateLimiter::hits
          answer,   \* what the last request got
          log       \* history: the requests charged in the last window

vars == <<now, hits, answer, log>>

NoEntry == [seen |-> 0, count |-> 0]
Entry   == [seen : 0 .. MaxNow, count : Nat \ {0}]

\* A charged request: the nth of its moment and address.
Charged == [at : 0 .. MaxNow, peer : Address, ip : Address,
            nth : 1 .. MaxPerTick, passed : BOOLEAN]

TypeOK ==
    /\ now \in 0 .. MaxNow
    /\ hits \in [Address -> Entry \cup {NoEntry}]
    /\ answer \in {"none", "served", "unauthorized", "limited"}
    /\ log \subseteq Charged
    /\ \A a \in Address : hits[a].seen <= now
    /\ \A r \in log : now - Window <= r.at /\ r.at <= now

Init ==
    /\ now = 0
    /\ hits = [a \in Address |-> NoEntry]
    /\ answer = "none"
    /\ log = {}

Known     == {a \in Address : hits[a] # NoEntry}
IsOver(e) == e = NoEntry \/ now - e.seen > Window

\* Mutant: the sweep empties the map.
SweepAll ==
    IF Cardinality(Known) > SweepAbove THEN [a \in Address |-> NoEntry] ELSE hits

\* The sweep drops what has expired, once the map has grown.
Sweep ==
    IF Cardinality(Known) > SweepAbove
    THEN [a \in Address |-> IF IsOver(hits[a]) THEN NoEntry ELSE hits[a]]
    ELSE hits

\* Mutant: a new window keeps the count of the old one.
CountOn(e) == [seen |-> IF IsOver(e) THEN now ELSE e.seen, count |-> e.count + 1]

\* Mutant: an entry holds the end of its window.
CountToEnd(e) ==
    IF IsOver(e) THEN [seen |-> now + Window, count |-> 1] ELSE [e EXCEPT !.count = @ + 1]

\* The entry after one more request: one that is over begins a window.
Count(e) ==
    IF IsOver(e) THEN [seen |-> now, count |-> 1] ELSE [e EXCEPT !.count = @ + 1]

\* Mutant: the header is believed whoever sends it.
BelieveHeader(peer, forwarded) == IF forwarded # NoAddress THEN forwarded ELSE peer

\* The address a request is charged to.
client_ip(peer, forwarded) ==
    IF peer \in Trusted /\ forwarded # NoAddress THEN forwarded ELSE peer

\* RateLimiter::allow, under its lock, and what the guard answers.
Charge(peer, ip) ==
    LET today == {r.nth : r \in {r \in log : r.at = now /\ r.ip = ip}}
    IN  \E n \in (1 .. MaxPerTick) \ today :
          /\ 1 .. n - 1 \subseteq today
          /\ hits' = [Sweep EXCEPT ![ip] = Count(Sweep[ip])]
          /\ answer' = IF hits'[ip].count <= Limit THEN "served" ELSE "limited"
          /\ log' = log \cup {[at |-> now, peer |-> peer, ip |-> ip, nth |-> n,
                               passed |-> answer' = "served"]}
          /\ UNCHANGED now

\* A request from a peer, with or without a forwarded address and a valid token.
\* Neither probe needs a token, and only `/health` is not counted.
Request(peer, forwarded, path, bearer) ==
    \/ /\ path = "/health"
       /\ answer' = "served" /\ UNCHANGED <<now, hits, log>>
    \/ /\ path = "other" /\ ~bearer
       /\ answer' = "unauthorized" /\ UNCHANGED <<now, hits, log>>
    \/ /\ path = "/ready" \/ (path = "other" /\ bearer)
       /\ Charge(peer, client_ip(peer, forwarded))

Tick ==
    /\ now < MaxNow
    /\ now' = now + 1
    /\ log' = {r \in log : now' - r.at <= Window}
    /\ answer' = "none"
    /\ UNCHANGED hits

Next ==
    \/ \E peer \in Address, forwarded \in Address \cup {NoAddress},
          path \in {"/health", "/ready", "other"}, bearer \in BOOLEAN :
              Request(peer, forwarded, path, bearer)
    \/ Tick

Spec == Init /\ [][Next]_vars

-----------------------------------------------------------------------------
PassedOf(a)  == {r \in log : r.peer = a /\ r.passed}
ChargedTo(a) == {r \in log : r.ip = a}

\* In any span of a window's length a peer that is no proxy gets at most two
\* windows' worth through, whatever it forwards, whoever else is counted, and
\* whenever the map is swept.
TwoWindowsAtMost == \A a \in Address \ Trusted : Cardinality(PassedOf(a)) <= 2 * Limit

\* Nobody is refused whose address was charged no more than the limit in the
\* last window: what was counted before it does not linger, and nobody pays for
\* another address.
RefusedForCause ==
    [][answer' = "limited" =>
          \E a \in Address :
             /\ ChargedTo(a)' # ChargedTo(a)
             /\ Cardinality(ChargedTo(a)') > Limit]_vars
=============================================================================
