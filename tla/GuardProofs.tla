---------------------------- MODULE GuardProofs ----------------------------
(***************************************************************************)
(* Theorems about the rate limiter: its types, how much a peer can get     *)
(* through in a window's time, and that a refusal has its cause.           *)
(***************************************************************************)
EXTENDS RequestGuard, FiniteSetTheorems, TLAPS

USE GuardAssumption

\* What the count of an entry is about: the requests since its window began.
ChargedSince(a)  == {r \in ChargedTo(a) : r.at >= hits[a].seen}
PassedSince(a)   == {r \in PassedOf(a) : r.at >= hits[a].seen}
PassedBefore(a)  == {r \in PassedOf(a) : r.at < hits[a].seen}

\* A window that is over has no requests of this moment: the next one begins a
\* window that starts later than all before it.
IdleOver == \A a \in Address : IsOver(hits[a]) => \A r \in ChargedTo(a) : r.at < now

\* The count is no more than what was charged since the window began.
CountBacked ==
    \A a \in Address : ~IsOver(hits[a]) => hits[a].count <= Cardinality(ChargedSince(a))

\* Of a peer that is no proxy, the window lets through no more than it counts and
\* no more than the limit, and so did the one before, the only other in the log.
Shares ==
    \A a \in Address \ Trusted :
        IF IsOver(hits[a])
        THEN Cardinality(PassedOf(a)) <= Limit
        ELSE /\ Cardinality(PassedSince(a)) <= hits[a].count
             /\ Cardinality(PassedSince(a)) <= Limit
             /\ Cardinality(PassedBefore(a)) <= Limit

GuardInv ==
    /\ TypeOK
    /\ IsFiniteSet(log)
    /\ \A r \in log : r.peer \notin Trusted => r.ip = r.peer
    /\ IdleOver /\ CountBacked /\ Shares

-----------------------------------------------------------------------------
\* A part of a finite set is finite and no larger.
LEMMA PartOf ==
    ASSUME NEW S, IsFiniteSet(S), NEW T, T \subseteq S
    PROVE  /\ IsFiniteSet(T)
           /\ Cardinality(T) \in Nat /\ Cardinality(S) \in Nat
           /\ Cardinality(T) <= Cardinality(S)
BY FS_Subset, FS_CardinalityType

\* One more element adds at most one, and one if it was not there.
LEMMA OneMore ==
    ASSUME NEW S, IsFiniteSet(S), NEW x, NEW T, T \subseteq S \cup {x}
    PROVE  /\ IsFiniteSet(T) /\ Cardinality(T) \in Nat
           /\ Cardinality(T) <= Cardinality(S) + 1
           /\ (x \notin S /\ T = S \cup {x}) => Cardinality(T) = Cardinality(S) + 1
<1>1. /\ IsFiniteSet(S \cup {x})
      /\ Cardinality(S \cup {x}) = IF x \in S THEN Cardinality(S) ELSE Cardinality(S) + 1
    BY FS_AddElement
<1>2. Cardinality(S) \in Nat
    BY FS_CardinalityType
<1>3. /\ IsFiniteSet(T) /\ Cardinality(T) \in Nat
      /\ Cardinality(T) <= Cardinality(S \cup {x})
    BY <1>1, PartOf
<1> QED
    BY <1>1, <1>2, <1>3

\* The sweep changes no entry whose window is not over.
LEMMA SweepSpares ==
    ASSUME TypeOK, NEW a \in Address
    PROVE  /\ Sweep \in [Address -> Entry \cup {NoEntry}]
           /\ IsOver(Sweep[a]) <=> IsOver(hits[a])
           /\ ~IsOver(hits[a]) => Sweep[a] = hits[a]
           /\ Sweep[a].seen <= now
BY DEF TypeOK, Sweep, IsOver, NoEntry, Entry

\* The sets the invariant counts are finite.
LEMMA PartsFinite ==
    ASSUME IsFiniteSet(log), NEW a
    PROVE  /\ IsFiniteSet(ChargedTo(a)) /\ IsFiniteSet(ChargedSince(a))
           /\ IsFiniteSet(PassedOf(a)) /\ IsFiniteSet(PassedSince(a))
           /\ IsFiniteSet(PassedBefore(a))
<1>1. /\ ChargedTo(a) \subseteq log /\ ChargedSince(a) \subseteq log
      /\ PassedOf(a) \subseteq log /\ PassedSince(a) \subseteq log
      /\ PassedBefore(a) \subseteq log
    BY DEF ChargedTo, ChargedSince, PassedOf, PassedSince, PassedBefore
<1> QED
    BY <1>1, PartOf

\* And so they are after a step.
LEMMA NextPartsFinite ==
    ASSUME IsFiniteSet(log'), NEW a
    PROVE  /\ IsFiniteSet(ChargedTo(a)') /\ IsFiniteSet(ChargedSince(a)')
           /\ IsFiniteSet(PassedOf(a)') /\ IsFiniteSet(PassedSince(a)')
           /\ IsFiniteSet(PassedBefore(a)')
<1>1. /\ ChargedTo(a)' \subseteq log' /\ ChargedSince(a)' \subseteq log'
      /\ PassedOf(a)' \subseteq log' /\ PassedSince(a)' \subseteq log'
      /\ PassedBefore(a)' \subseteq log'
    BY DEF ChargedTo, ChargedSince, PassedOf, PassedSince, PassedBefore
<1> QED
    BY <1>1, PartOf

-----------------------------------------------------------------------------
\* Nothing was charged at the start.
LEMMA GuardStart == Init => GuardInv
<1> SUFFICES ASSUME Init PROVE GuardInv
    OBVIOUS
<1>1. \A a \in Address : IsOver(hits[a]) /\ PassedOf(a) = {} /\ ChargedTo(a) = {}
    BY DEF Init, IsOver, PassedOf, ChargedTo
<1>2. TypeOK
    BY DEF Init, TypeOK, NoEntry
<1>3. Cardinality({}) = 0 /\ IsFiniteSet({})
    BY FS_EmptySet
<1> QED
    BY <1>1, <1>2, <1>3 DEF Init, GuardInv, IdleOver, CountBacked, Shares

\* Time passes: what drops out of the log is older than any window that is not
\* over; a window that is over by now leaves only its own requests behind.
LEMMA GuardTick == GuardInv /\ Tick => GuardInv'
<1> SUFFICES ASSUME GuardInv, Tick PROVE GuardInv'
    OBVIOUS
<1>1. TypeOK /\ IsFiniteSet(log)
    BY DEF GuardInv
<1>2. /\ now \in Int /\ now' = now + 1 /\ hits' = hits
      /\ log' = {r \in log : now' - r.at <= Window}
      /\ log' \subseteq log
    BY <1>1 DEF Tick, TypeOK
<1>3. \A r \in log : r.at \in Int /\ r.at <= now
    BY <1>1 DEF TypeOK, Charged
<1>4. \A a \in Address : hits[a].seen \in Int /\ hits[a].seen <= now
    BY <1>1 DEF TypeOK, Entry, NoEntry
<1>5. TypeOK'
    BY <1>1, <1>2, <1>3, <1>4 DEF TypeOK, Tick
<1>6. IsFiniteSet(log')
    BY <1>1, <1>2, PartOf
<1>7. \A r \in log' : r.peer \notin Trusted => r.ip = r.peer
    BY <1>2 DEF GuardInv
<1>8. IdleOver'
    BY <1>2, <1>3 DEF IdleOver, ChargedTo
<1>9. \A a \in Address : IsOver(hits[a]) => IsOver(hits[a])'
    BY <1>2, <1>4 DEF IsOver
<1>10. ASSUME NEW a \in Address, ~IsOver(hits[a])'
       PROVE  /\ ~IsOver(hits[a]) /\ ChargedSince(a)' = ChargedSince(a)
              /\ PassedSince(a)' = PassedSince(a)
    <2>1. now' - hits[a].seen <= Window /\ ~IsOver(hits[a])
        BY <1>10, <1>2, <1>9, <1>4 DEF IsOver
    <2>2. \A r \in log : r.at >= hits[a].seen => r \in log'
        BY <2>1, <1>2, <1>3, <1>4
    <2> QED
        BY <2>1, <2>2, <1>2
        DEF ChargedSince, PassedSince, ChargedTo, PassedOf
<1>11. CountBacked'
    BY <1>10, <1>2 DEF GuardInv, CountBacked
<1>12. ASSUME NEW a \in Address \ Trusted, IsOver(hits[a])'
       PROVE  Cardinality(PassedOf(a)') <= Limit
    <2>1. CASE IsOver(hits[a])
        <3>1. PassedOf(a)' \subseteq PassedOf(a)
            BY <1>2 DEF PassedOf
        <3> QED
            BY <2>1, <3>1, <1>1, <1>6, PartsFinite, PartOf DEF GuardInv, Shares
    <2>2. CASE ~IsOver(hits[a])
        <3>1. now' - hits[a].seen > Window
            BY <2>2, <1>12, <1>2, <1>4 DEF IsOver
        <3>2. PassedOf(a)' \subseteq PassedSince(a)
            BY <3>1, <1>2, <1>3, <1>4 DEF PassedOf, PassedSince
        <3>3. Cardinality(PassedSince(a)) <= Limit
            BY <2>2 DEF GuardInv, Shares
        <3> QED
            BY <3>2, <3>3, <1>1, PartsFinite, PartOf
    <2> QED
        BY <2>1, <2>2
<1>13. ASSUME NEW a \in Address \ Trusted, ~IsOver(hits[a])'
       PROVE  /\ Cardinality(PassedSince(a)') <= hits'[a].count
              /\ Cardinality(PassedSince(a)') <= Limit
              /\ Cardinality(PassedBefore(a)') <= Limit
    <2>1. /\ Cardinality(PassedSince(a)) <= hits[a].count
          /\ Cardinality(PassedSince(a)) <= Limit
          /\ Cardinality(PassedBefore(a)) <= Limit
        BY <1>10, <1>13 DEF GuardInv, Shares
    <2>2. PassedBefore(a)' \subseteq PassedBefore(a)
        BY <1>2 DEF PassedBefore, PassedOf
    <2>3. Cardinality(PassedBefore(a)') <= Cardinality(PassedBefore(a))
          /\ Cardinality(PassedBefore(a)') \in Nat /\ Cardinality(PassedBefore(a)) \in Nat
        BY <2>2, <1>1, PartsFinite, PartOf
    <2> QED
        BY <2>1, <2>3, <1>10, <1>13, <1>2
<1>14. Shares'
    BY <1>12, <1>13 DEF Shares
<1> QED
    BY <1>5, <1>6, <1>7, <1>8, <1>11, <1>14 DEF GuardInv

\* A request is charged: its entry counts it, in a new window if the old one is
\* over, and everything about other addresses stays.
LEMMA GuardCharge ==
    ASSUME GuardInv, NEW peer \in Address, NEW ip \in Address,
           peer \notin Trusted => ip = peer, Charge(peer, ip)
    PROVE  /\ GuardInv'
           /\ answer' = "limited" =>
                /\ ChargedTo(ip)' # ChargedTo(ip)
                /\ Cardinality(ChargedTo(ip)') > Limit
<1>1. TypeOK /\ IsFiniteSet(log)
    BY DEF GuardInv
<1> DEFINE today == {r.nth : r \in {r \in log : r.at = now /\ r.ip = ip}}
<1>2. PICK n \in (1 .. MaxPerTick) \ today :
          /\ hits' = [Sweep EXCEPT ![ip] = Count(Sweep[ip])]
          /\ answer' = IF hits'[ip].count <= Limit THEN "served" ELSE "limited"
          /\ log' = log \cup {[at |-> now, peer |-> peer, ip |-> ip, nth |-> n,
                               passed |-> answer' = "served"]}
          /\ now' = now
    BY DEF Charge
<1> DEFINE new == [at |-> now, peer |-> peer, ip |-> ip, nth |-> n,
                   passed |-> answer' = "served"]
<1>3. /\ new \notin log /\ new \in Charged
      /\ new.at = now /\ new.peer = peer /\ new.ip = ip
      /\ new.passed <=> answer' = "served"
    <2>1. now \in 0 .. MaxNow
        BY <1>1 DEF TypeOK
    <2>2. new \in Charged
        BY <1>2, <2>1 DEF Charged
    <2>3. new \notin log
        <3> SUFFICES ASSUME new \in log PROVE new.nth \in today
            BY <1>2
        <3> QED
            OBVIOUS
    <2> QED
        BY <2>2, <2>3
<1> HIDE DEF new
<1>4. log' = log \cup {new}
    BY <1>2 DEF new
<1>5. now \in Int /\ (\A r \in log : r.at \in Int /\ r.at <= now)
    BY <1>1 DEF TypeOK, Charged
<1>6. \A a \in Address :
          /\ hits[a].seen \in Int /\ hits[a].seen <= now
          /\ ~IsOver(hits[a]) => hits[a].count \in Nat \ {0}
    BY <1>1 DEF TypeOK, Entry, NoEntry, IsOver
<1>7. \A a \in Address : a # ip =>
          /\ hits'[a].seen <= now
          /\ IsOver(hits[a])' <=> IsOver(hits[a])
          /\ ~IsOver(hits[a]) => hits'[a] = hits[a]
    BY <1>1, <1>2, SweepSpares DEF IsOver
<1>8. /\ hits'[ip].seen \in Int /\ hits'[ip].seen <= now /\ hits'[ip] \in Entry
      /\ ~IsOver(hits[ip])'
      /\ IsOver(hits[ip]) => hits'[ip] = [seen |-> now, count |-> 1]
      /\ ~IsOver(hits[ip]) =>
            hits'[ip].seen = hits[ip].seen /\ hits'[ip].count = hits[ip].count + 1
    <2>1. Sweep \in [Address -> Entry \cup {NoEntry}] /\ now \in 0 .. MaxNow
        BY <1>1, SweepSpares DEF TypeOK
    <2>2. hits'[ip] = Count(Sweep[ip])
        BY <1>2, <2>1
    <2>3. CASE IsOver(hits[ip])
        <3>1. hits'[ip] = [seen |-> now, count |-> 1]
            BY <2>2, <2>3, <1>1, SweepSpares DEF Count
        <3>2. hits'[ip] \in Entry /\ hits'[ip] # NoEntry
            BY <3>1, <2>1 DEF Entry, NoEntry
        <3> QED
            BY <2>3, <3>1, <3>2, <1>2, <1>5 DEF IsOver
    <2>4. CASE ~IsOver(hits[ip])
        <3>1. hits[ip] \in Entry /\ now - hits[ip].seen <= Window
            BY <2>4, <1>1, <1>5, <1>6 DEF TypeOK, IsOver
        <3>2. hits'[ip] = [hits[ip] EXCEPT !.count = @ + 1]
            BY <2>2, <2>4, <1>1, SweepSpares DEF Count
        <3>3. /\ hits'[ip] \in Entry /\ hits'[ip] # NoEntry
              /\ hits'[ip].seen = hits[ip].seen /\ hits'[ip].count = hits[ip].count + 1
            BY <3>1, <3>2 DEF Entry, NoEntry
        <3> QED
            BY <2>4, <3>1, <3>3, <1>2, <1>6 DEF IsOver
    <2> QED
        BY <2>3, <2>4
<1>9. TypeOK'
    <2>1. hits' \in [Address -> Entry \cup {NoEntry}]
        BY <1>1, <1>2, <1>8, SweepSpares
    <2>2. answer' \in {"none", "served", "unauthorized", "limited"}
        BY <1>2
    <2>3. \A r \in log' : now - Window <= r.at /\ r.at <= now
        BY <1>1, <1>3, <1>4, <1>5 DEF TypeOK
    <2>4. \A a \in Address : hits'[a].seen <= now
        BY <1>7, <1>8
    <2> QED
        BY <2>1, <2>2, <2>3, <2>4, <1>1, <1>2, <1>3, <1>4 DEF TypeOK
<1>10. IsFiniteSet(log')
    BY <1>1, <1>4, OneMore
<1>11. \A r \in log' : r.peer \notin Trusted => r.ip = r.peer
    BY <1>3, <1>4 DEF GuardInv
<1>12. \A a \in Address : a # ip => ChargedTo(a)' = ChargedTo(a)
    BY <1>3, <1>4 DEF ChargedTo
<1>13. ChargedTo(ip)' = ChargedTo(ip) \cup {new} /\ new \notin ChargedTo(ip)
    BY <1>3, <1>4 DEF ChargedTo
<1>14. IdleOver'
    BY <1>2, <1>7, <1>8, <1>12 DEF IdleOver, GuardInv
<1>15. CountBacked'
    <2>1. ASSUME NEW a \in Address, a # ip, ~IsOver(hits[a])'
          PROVE  hits'[a].count <= Cardinality(ChargedSince(a)')
        BY <2>1, <1>7, <1>12 DEF GuardInv, CountBacked, ChargedSince
    <2>2. hits'[ip].count <= Cardinality(ChargedSince(ip)')
        <3>1. CASE IsOver(hits[ip])
            <4>1. {new} \subseteq ChargedSince(ip)'
                BY <3>1, <1>3, <1>5, <1>8, <1>13 DEF ChargedSince
            <4>2. IsFiniteSet(ChargedSince(ip)')
                BY <1>10, NextPartsFinite
            <4>3. Cardinality({new}) = 1
                BY FS_Singleton
            <4> QED
                BY <3>1, <4>1, <4>2, <4>3, <1>8, PartOf
        <3>2. CASE ~IsOver(hits[ip])
            <4>1. /\ ChargedSince(ip)' = ChargedSince(ip) \cup {new}
                  /\ new \notin ChargedSince(ip)
                BY <3>2, <1>3, <1>6, <1>8, <1>13 DEF ChargedSince
            <4>2. Cardinality(ChargedSince(ip)') = Cardinality(ChargedSince(ip)) + 1
                BY <4>1, <1>1, PartsFinite, OneMore
            <4>3. Cardinality(ChargedSince(ip)) \in Nat
                BY <1>1, PartsFinite, FS_CardinalityType
            <4>4. hits[ip].count <= Cardinality(ChargedSince(ip))
                BY <3>2 DEF GuardInv, CountBacked
            <4> QED
                BY <3>2, <4>2, <4>3, <4>4, <1>6, <1>8
        <3> QED
            BY <3>1, <3>2
    <2> QED
        BY <2>1, <2>2 DEF CountBacked
<1>16. ASSUME NEW a \in Address \ Trusted, a # ip
       PROVE  PassedOf(a)' = PassedOf(a)
    BY <1>16, <1>3, <1>4 DEF PassedOf
<1>17. ASSUME NEW a \in Address \ Trusted, a # ip
       PROVE  IF IsOver(hits[a])'
              THEN Cardinality(PassedOf(a)') <= Limit
              ELSE /\ Cardinality(PassedSince(a)') <= hits'[a].count
                   /\ Cardinality(PassedSince(a)') <= Limit
                   /\ Cardinality(PassedBefore(a)') <= Limit
    BY <1>16, <1>17, <1>7 DEF GuardInv, Shares, PassedSince, PassedBefore
<1>18. ASSUME ip \notin Trusted
       PROVE  /\ Cardinality(PassedSince(ip)') <= hits'[ip].count
              /\ Cardinality(PassedSince(ip)') <= Limit
              /\ Cardinality(PassedBefore(ip)') <= Limit
    <2>1. /\ PassedOf(ip)' \subseteq PassedOf(ip) \cup {new}
          /\ \A r \in PassedOf(ip) : r.at \in Int /\ r.at <= now
        BY <1>4, <1>5 DEF PassedOf
    <2>2. new \in PassedOf(ip)' => hits'[ip].count <= Limit
        BY <1>2, <1>3 DEF PassedOf
    <2>3. CASE IsOver(hits[ip])
        <3>1. \A r \in PassedOf(ip) : r.at < now
            BY <2>3, <1>18 DEF GuardInv, IdleOver, PassedOf, ChargedTo
        <3>2. PassedSince(ip)' \subseteq {} \cup {new}
            BY <2>1, <2>3, <3>1, <1>5, <1>8 DEF PassedSince
        <3>3. Cardinality(PassedSince(ip)') \in Nat /\ Cardinality(PassedSince(ip)') <= 1
            BY <3>2, FS_EmptySet, OneMore
        <3>4. PassedBefore(ip)' \subseteq PassedOf(ip)
            BY <2>1, <2>3, <1>3, <1>5, <1>8 DEF PassedBefore
        <3>5. Cardinality(PassedOf(ip)) <= Limit
            BY <2>3, <1>18 DEF GuardInv, Shares
        <3>6. Cardinality(PassedBefore(ip)') <= Cardinality(PassedOf(ip))
              /\ Cardinality(PassedBefore(ip)') \in Nat /\ Cardinality(PassedOf(ip)) \in Nat
            BY <3>4, <1>1, PartsFinite, PartOf
        <3> QED
            BY <2>3, <3>3, <3>5, <3>6, <1>8
    <2>4. CASE ~IsOver(hits[ip])
        <3>1. /\ Cardinality(PassedSince(ip)) <= hits[ip].count
              /\ Cardinality(PassedSince(ip)) <= Limit
              /\ Cardinality(PassedBefore(ip)) <= Limit
            BY <2>4, <1>18 DEF GuardInv, Shares
        <3>2. /\ Cardinality(PassedSince(ip)) \in Nat /\ IsFiniteSet(PassedSince(ip))
              /\ Cardinality(PassedBefore(ip)) \in Nat /\ IsFiniteSet(PassedBefore(ip))
            BY <1>1, PartsFinite, FS_CardinalityType
        <3>3. PassedBefore(ip)' \subseteq PassedBefore(ip)
            BY <2>1, <2>4, <1>3, <1>5, <1>6, <1>8 DEF PassedBefore
        <3>4. Cardinality(PassedBefore(ip)') \in Nat
              /\ Cardinality(PassedBefore(ip)') <= Cardinality(PassedBefore(ip))
            BY <3>2, <3>3, PartOf
        <3>5. CASE new \in PassedOf(ip)'
            <4>1. PassedSince(ip)' \subseteq PassedSince(ip) \cup {new}
                BY <2>1, <2>4, <1>8 DEF PassedSince
            <4>2. Cardinality(PassedSince(ip)') \in Nat
                  /\ Cardinality(PassedSince(ip)') <= Cardinality(PassedSince(ip)) + 1
                BY <3>2, <4>1, OneMore
            <4> QED
                BY <2>2, <2>4, <3>1, <3>2, <3>4, <3>5, <4>2, <1>6, <1>8
        <3>6. CASE new \notin PassedOf(ip)'
            <4>1. PassedSince(ip)' \subseteq PassedSince(ip)
                BY <2>1, <2>4, <3>6, <1>8 DEF PassedSince
            <4>2. Cardinality(PassedSince(ip)') \in Nat
                  /\ Cardinality(PassedSince(ip)') <= Cardinality(PassedSince(ip))
                BY <3>2, <4>1, PartOf
            <4> QED
                BY <2>4, <3>1, <3>2, <3>4, <4>2, <1>6, <1>8
        <3> QED
            BY <3>5, <3>6
    <2> QED
        BY <2>3, <2>4
<1>19. Shares'
    BY <1>17, <1>18, <1>8 DEF Shares
<1>20. GuardInv'
    BY <1>9, <1>10, <1>11, <1>14, <1>15, <1>19 DEF GuardInv
<1>21. ASSUME answer' = "limited"
       PROVE  Cardinality(ChargedTo(ip)') > Limit
    <2>1. hits'[ip].count > Limit /\ hits'[ip].count \in Nat
        BY <1>21, <1>2, <1>8 DEF Entry
    <2>2. hits'[ip].count <= Cardinality(ChargedSince(ip)')
        BY <1>15, <1>8 DEF CountBacked
    <2>3. ChargedSince(ip)' \subseteq ChargedTo(ip)'
        BY DEF ChargedSince
    <2>4. /\ Cardinality(ChargedSince(ip)') <= Cardinality(ChargedTo(ip)')
          /\ Cardinality(ChargedSince(ip)') \in Nat /\ Cardinality(ChargedTo(ip)') \in Nat
        BY <2>3, <1>10, NextPartsFinite, PartOf
    <2> QED
        BY <2>1, <2>2, <2>4
<1> QED
    BY <1>13, <1>20, <1>21

\* A request that is not charged changes nothing the invariant is about.
LEMMA GuardQuiet ==
    ASSUME GuardInv, UNCHANGED <<now, hits, log>>,
           answer' \in {"none", "served", "unauthorized", "limited"}
    PROVE  GuardInv'
BY DEF GuardInv, TypeOK, IdleOver, CountBacked, Shares, IsOver, ChargedTo,
       ChargedSince, PassedOf, PassedSince, PassedBefore

\* Every step keeps the invariant, and refuses for cause only.
LEMMA GuardStep ==
    GuardInv /\ [Next]_vars =>
        /\ GuardInv'
        /\ answer' = "limited" /\ vars' # vars =>
              \E a \in Address : /\ ChargedTo(a)' # ChargedTo(a)
                                 /\ Cardinality(ChargedTo(a)') > Limit
<1> SUFFICES ASSUME GuardInv, [Next]_vars
             PROVE  /\ GuardInv'
                    /\ answer' = "limited" /\ vars' # vars =>
                          \E a \in Address : /\ ChargedTo(a)' # ChargedTo(a)
                                             /\ Cardinality(ChargedTo(a)') > Limit
    OBVIOUS
<1>1. CASE UNCHANGED vars
    BY <1>1, GuardQuiet DEF vars, GuardInv, TypeOK
<1>2. CASE Tick
    BY <1>2, GuardTick DEF Tick
<1>3. ASSUME NEW peer \in Address, NEW forwarded \in Address \cup {NoAddress},
             NEW path \in {"/health", "/ready", "other"}, NEW bearer \in BOOLEAN,
             Request(peer, forwarded, path, bearer)
      PROVE  /\ GuardInv'
             /\ answer' = "limited" =>
                  \E a \in Address : /\ ChargedTo(a)' # ChargedTo(a)
                                     /\ Cardinality(ChargedTo(a)') > Limit
    <2>1. CASE /\ answer' \in {"served", "unauthorized"}
               /\ UNCHANGED <<now, hits, log>>
        BY <2>1, GuardQuiet
    <2>2. CASE Charge(peer, client_ip(peer, forwarded))
        <3>1. /\ client_ip(peer, forwarded) \in Address
              /\ peer \notin Trusted => client_ip(peer, forwarded) = peer
            BY DEF client_ip
        <3> QED
            BY <2>2, <3>1, GuardCharge
    <2> QED
        BY <1>3, <2>1, <2>2 DEF Request
<1> QED
    BY <1>1, <1>2, <1>3 DEF Next

-----------------------------------------------------------------------------
\* Every state is as GuardInv says.
LEMMA Guarded == Spec => []GuardInv
<1>1. GuardInv /\ [Next]_vars => GuardInv'
    BY GuardStep
<1> QED
    BY <1>1, GuardStart, PTL DEF Spec

\* The limiter's state stays in its types: no entry is from the future, and the
\* log is that of the last window.
THEOREM GuardTypeCorrect == Spec => []TypeOK
<1>1. GuardInv => TypeOK
    BY DEF GuardInv
<1> QED
    BY <1>1, Guarded, PTL

\* Whatever is swept and forwarded, no peer other than a proxy gets more than two
\* windows' worth of requests through in the time of one.
THEOREM LimitHolds == Spec => []TwoWindowsAtMost
<1>1. GuardInv => TwoWindowsAtMost
    <2> SUFFICES ASSUME GuardInv, NEW a \in Address \ Trusted
                 PROVE  Cardinality(PassedOf(a)) <= 2 * Limit
        BY DEF TwoWindowsAtMost
    <2>1. /\ IsFiniteSet(PassedOf(a)) /\ IsFiniteSet(PassedSince(a))
          /\ IsFiniteSet(PassedBefore(a))
        BY PartsFinite DEF GuardInv
    <2>2. /\ Cardinality(PassedOf(a)) \in Nat /\ Cardinality(PassedSince(a)) \in Nat
          /\ Cardinality(PassedBefore(a)) \in Nat
        BY <2>1, FS_CardinalityType
    <2>3. CASE IsOver(hits[a])
        BY <2>2, <2>3 DEF GuardInv, Shares
    <2>4. CASE ~IsOver(hits[a])
        <3>1. /\ PassedOf(a) = PassedSince(a) \cup PassedBefore(a)
              /\ PassedSince(a) \cap PassedBefore(a) = {}
            BY DEF PassedSince, PassedBefore, PassedOf, GuardInv, TypeOK, Charged, Entry, NoEntry
        <3>2. Cardinality(PassedOf(a)) = Cardinality(PassedSince(a)) + Cardinality(PassedBefore(a))
            BY <2>1, <2>2, <3>1, FS_Union, FS_EmptySet
        <3> QED
            BY <2>2, <2>4, <3>2 DEF GuardInv, Shares
    <2> QED
        BY <2>3, <2>4
<1> QED
    BY <1>1, Guarded, PTL

\* A request is refused only when its own address was charged more than the limit
\* within the last window.
THEOREM RefusesForCause == Spec => RefusedForCause
<1>1. GuardInv /\ [Next]_vars =>
        [answer' = "limited" =>
           \E a \in Address : /\ ChargedTo(a)' # ChargedTo(a)
                              /\ Cardinality(ChargedTo(a)') > Limit]_vars
    BY GuardStep
<1> QED
    BY <1>1, Guarded, PTL DEF Spec, RefusedForCause
=============================================================================
