---------------------------- MODULE UptimeProofs ----------------------------
(***************************************************************************)
(* Theorems about Uptime: its types, that the node is not asked again for  *)
(* what lives in the cache, and that a report on a settled branch is fair. *)
(***************************************************************************)
EXTENDS Uptime, WriterProofs

USE BlocksAssumption, WriterAssumption, UptimeAssumption

-----------------------------------------------------------------------------
(***************************************************************************)
(* Counting.                                                               *)
(***************************************************************************)
\* The sum of the sizes of the parts of a set, by their keys, is its size.
LEMMA SumIsCount ==
    ASSUME NEW B, IsFiniteSet(B), NEW key,
           NEW D, IsFiniteSet(D), \A b \in B : key[b] \in D,
           NEW counts, DOMAIN counts = D,
           \A v \in D : counts[v] = Cardinality({b \in B : key[b] = v})
    PROVE  SumFunction(counts) = Cardinality(B)
<1> DEFINE pick(s) == CHOOSE x \in s : TRUE
           Step(it, s) == IF s = {} THEN 0 ELSE counts[pick(s)] + it[s \ {pick(s)}]
           sized == [s \in SUBSET D |-> Cardinality({b \in B : key[b] \in s})]
           iter  == CHOOSE it : it = [s \in SUBSET D |-> Step(it, s)]
<1>1. SumFunction(counts) = iter[D]
    BY DEF SumFunction, SumFunctionOnSet, FoldFunctionOnSet, MapThenFoldSet
<1>2. ASSUME NEW s \in SUBSET D
      PROVE  sized[s] = Step(sized, s)
    <2>1. CASE s = {}
        <3>1. {b \in B : key[b] \in s} = {}
            BY <2>1
        <3> QED
            BY <2>1, <3>1, FS_EmptySet
    <2>2. CASE s # {}
        <3> DEFINE x    == pick(s)
                   one  == {b \in B : key[b] = x}
                   rest == {b \in B : key[b] \in s \ {x}}
                   all  == {b \in B : key[b] \in s}
        <3>1. x \in s /\ s \ {x} \in SUBSET D
            BY <2>2
        <3> HIDE DEF x
        <3>2. all = one \cup rest /\ one \cap rest = {}
            BY <3>1
        <3>3. IsFiniteSet(one) /\ IsFiniteSet(rest)
            BY FS_Subset
        <3>4. Cardinality(all) = Cardinality(one) + Cardinality(rest)
            <4> HIDE DEF all, one, rest
            <4>1. Cardinality(one \cup rest)
                    = Cardinality(one) + Cardinality(rest) - Cardinality(one \cap rest)
                BY <3>3, FS_Union
            <4>2. Cardinality(one) \in Nat /\ Cardinality(rest) \in Nat
                BY <3>3, FS_CardinalityType
            <4>3. Cardinality(one \cap rest) = 0
                BY <3>2, FS_EmptySet
            <4> QED
                BY <3>2, <4>1, <4>2, <4>3
        <3>5. counts[x] = Cardinality(one) /\ sized[s \ {x}] = Cardinality(rest)
            BY <3>1
        <3>6. Step(sized, s) = counts[x] + sized[s \ {x}]
            BY <2>2 DEF x
        <3>7. sized[s] = Cardinality(all)
            OBVIOUS
        <3> HIDE DEF all, one, rest, sized
        <3> QED
            BY <3>4, <3>5, <3>6, <3>7
    <2> QED
        BY <2>1, <2>2
<1>3. sized = [s \in SUBSET D |-> Step(sized, s)]
    <2>1. DOMAIN sized = SUBSET D /\ sized = [s \in SUBSET D |-> sized[s]]
        OBVIOUS
    <2> HIDE DEF sized
    <2> QED
        BY <1>2, <2>1
<1>4. iter = [s \in SUBSET D |-> Step(iter, s)]
    <2> HIDE DEF sized, Step
    <2> QED
        BY <1>3
<1>5. ASSUME NEW s \in SUBSET D
      PROVE  IsFiniteSet(s) /\ Cardinality(s) \in Nat
    BY FS_Subset, FS_CardinalityType
<1> DEFINE differ == {s \in SUBSET D : iter[s] # sized[s]}
<1>6. differ = {}
    <2> DEFINE sizes == {Cardinality(s) : s \in differ}
    <2>1. SUFFICES ASSUME differ # {} PROVE FALSE
        OBVIOUS
    <2> HIDE DEF iter, sized, Step
    <2>2. PICK n \in sizes : \A m \in sizes : n <= m
        <3>1. sizes \in SUBSET Nat /\ sizes # {}
            BY <1>5, <2>1
        <3> HIDE DEF sizes
        <3> QED
            BY <3>1, Least
    <2>3. PICK s \in differ : n = Cardinality(s)
        BY <2>2
    <2>4. s \in SUBSET D /\ iter[s] # sized[s] /\ iter[s] = Step(iter, s) /\ sized[s] = Step(sized, s)
        BY <1>2, <1>4, <2>3
    <2>5. CASE s = {}
        BY <2>4, <2>5 DEF Step
    <2>6. CASE s # {}
        <3> DEFINE x == pick(s)
        <3>1. x \in s /\ s \ {x} \in SUBSET D
            BY <2>4, <2>6
        <3>2. Step(iter, s) = counts[x] + iter[s \ {x}] /\ Step(sized, s) = counts[x] + sized[s \ {x}]
            BY <2>6 DEF Step
        <3> HIDE DEF x
        <3>3. Cardinality(s \ {x}) = Cardinality(s) - 1 /\ Cardinality(s) \in Nat
            BY <1>5, <2>4, <3>1, FS_RemoveElement
        <3>4. s \ {x} \notin differ
            <4>1. SUFFICES ASSUME s \ {x} \in differ PROVE FALSE
                OBVIOUS
            <4>2. Cardinality(s \ {x}) \in sizes
                BY <4>1
            <4>3. n <= Cardinality(s \ {x}) /\ n = Cardinality(s)
                BY <2>2, <2>3, <4>2
            <4> HIDE DEF sizes, differ
            <4> QED
                BY <3>3, <4>3
        <3> QED
            BY <2>4, <3>1, <3>2, <3>4
    <2> QED
        BY <2>5, <2>6
<1>7. iter[D] = sized[D]
    <2> HIDE DEF iter, sized
    <2> QED
        BY <1>6
<1>8. sized[D] = Cardinality(B)
    <2>1. {b \in B : key[b] \in D} = B
        OBVIOUS
    <2> QED
        BY <2>1
<1> QED
    BY <1>1, <1>7, <1>8

-----------------------------------------------------------------------------
(***************************************************************************)
(* Types.                                                                  *)
(***************************************************************************)
\* A height the node's present branch does not reach down to is stored, and only
\* while heights are looked up is one being fetched.
TypeInv ==
    /\ TypeOK /\ RowsToCursor
    /\ forkedAt <= cursor + 1
    /\ phase # "sets" => flight = {}

\* What the invariant says of the store and of sets of heights.
LEMMA UptimeKnown ==
    ASSUME TypeInv
    PROVE  /\ WriterInv /\ MaxHeight \in Nat
           /\ cursor \in Int /\ cursor >= -1 /\ cursor <= MaxHeight
           /\ branch \in Hashes /\ forkedAt \in Heights /\ forkedAt <= cursor + 1
           /\ \A h \in Heights : OnNode(h) \in Hashes
           /\ \A S \in SUBSET Heights : IsFiniteSet(S) /\ Cardinality(S) \in Nat
<1>1. WriterInv
    BY DEF TypeInv, TypeOK, WriterInv
<1>2. /\ MaxHeight \in Nat /\ cursor \in Int /\ cursor >= -1 /\ cursor <= MaxHeight
      /\ branch \in Hashes
      /\ \A h \in Heights : h <= cursor => rows[h] \in Block
    BY <1>1, WriterKnown
<1>3. forkedAt \in Heights /\ forkedAt <= cursor + 1
    BY DEF TypeInv, TypeOK
<1>4. \A h \in Heights : OnNode(h) \in Hashes
    BY <1>2, <1>3 DEF OnNode, Block, Heights
<1>5. IsFiniteSet(Heights)
    BY <1>2, FS_Interval DEF Heights
<1> QED
    BY <1>1, <1>2, <1>3, <1>4, <1>5, FS_Subset, FS_CardinalityType

\* What the index task does leaves the node's blocks as they are.
LEMMA TaskKeepsNode ==
    ASSUME TypeInv, Commit \/ Rollback
    PROVE  /\ WriterInv' /\ UNCHANGED <<branch, forkedAt, forked>>
           /\ forkedAt <= cursor' + 1
           /\ \A h \in Heights : OnNode(h)' = OnNode(h)
<1>1. /\ WriterInv /\ cursor \in Int /\ branch \in Hashes
      /\ forkedAt \in Int /\ forkedAt <= cursor + 1
    BY UptimeKnown DEF Heights
<1>2. CASE Commit
    <2>1. PICK n \in 1 .. Smaller(MaxBatch, MaxHeight - cursor) : Store(BlocksAbove(n))
        BY <1>2 DEF Commit
    <2>2. UNCHANGED <<branch, forkedAt, forked>>
        BY <1>2 DEF Commit, nodeVars
    <2>3. /\ WriterInv' /\ cursor' = cursor + n
          /\ \A h \in Heights : h <= cursor => rows'[h] = rows[h]
        <3>1. /\ WriterInv' /\ cursor' = cursor + n
              /\ \A h \in Heights :
                    rows'[h] = IF cursor < h /\ h <= cursor + n THEN BlocksAbove(n)[h - cursor]
                                                               ELSE rows[h]
            <4>1. branch' \in Hashes
                BY <1>1, <2>2
            <4> QED
                BY <1>1, <2>1, <4>1, StoreGrows
        <3>2. \A h \in Heights : h <= cursor => ~(cursor < h)
            BY <1>1 DEF Heights
        <3> QED
            BY <3>1, <3>2
    <2> QED
        BY <1>1, <2>1, <2>2, <2>3 DEF OnNode, Heights
<1>3. CASE Rollback
    <2>1. UNCHANGED <<branch, forkedAt, forked>> /\ Unstore /\ cursor >= forkedAt
        BY <1>3 DEF Rollback, Behind, nodeVars
    <2>2. /\ WriterInv' /\ cursor' = cursor - 1
          /\ \A h \in Heights : h < cursor => rows'[h] = rows[h]
        BY <1>1, <2>1, UnstoreRetracts
    <2> QED
        BY <1>1, <2>1, <2>2 DEF OnNode, Heights
<1> QED
    BY <1>2, <1>3

LEMMA TypesStart == Init => TypeInv
<1> SUFFICES ASSUME Init PROVE TypeInv
    OBVIOUS
<1>1. WriterInv
    BY WriterStarts DEF Init
<1>2. Cardinality({}) = 0 /\ MaxHeight \in Nat
    BY FS_EmptySet
<1>3. forkedAt \in Heights /\ forkedAt <= cursor + 1
    BY <1>2 DEF Init, WriterInit, Heights, None
<1> QED
    BY <1>1, <1>2, <1>3 DEF Init, TypeInv, TypeOK, WriterInv

LEMMA TypesKept == TypeInv /\ [Next]_vars => TypeInv'
<1> SUFFICES ASSUME TypeInv, [Next]_vars PROVE TypeInv'
    OBVIOUS
<1>1. TypeOK /\ RowsToCursor /\ forkedAt <= cursor + 1 /\ (phase # "sets" => flight = {})
    BY DEF TypeInv
<1>2. /\ WriterInv /\ MaxHeight \in Nat
      /\ cursor \in Int /\ cursor >= -1 /\ cursor <= MaxHeight /\ branch \in Hashes
      /\ \A h \in Heights : OnNode(h) \in Hashes
      /\ \A S \in SUBSET Heights : IsFiniteSet(S) /\ Cardinality(S) \in Nat
    BY UptimeKnown
<1>3. CASE Commit \/ Rollback
    <2>1. WriterInv' /\ UNCHANGED <<branch, forkedAt, forked>> /\ forkedAt <= cursor' + 1
        BY <1>3, TaskKeepsNode
    <2>2. UNCHANGED <<now, cache, requestVars, fetchedAt>>
        BY <1>3 DEF Commit, Rollback
    <2> QED
        BY <1>1, <2>1, <2>2 DEF TypeInv, TypeOK, WriterInv, requestVars, fetchVars
<1>4. CASE Fork
    <2>1. PICK h \in 1 .. cursor : forkedAt' = h
        BY <1>4 DEF Fork
    <2>2. /\ branch' = branch + 1 /\ branch < MaxReorgs /\ forked' = now
          /\ UNCHANGED <<rows, cursor, now, cache, requestVars, fetchedAt>>
        BY <1>4 DEF Fork
    <2>3. branch' \in Hashes /\ forkedAt' \in Heights /\ forkedAt' <= cursor + 1
        BY <1>2, <2>1, <2>2 DEF Hashes, Heights
    <2> QED
        BY <1>1, <2>2, <2>3 DEF TypeInv, TypeOK, WriterTypeOK, RowsToCursor, requestVars, fetchVars
<1>5. CASE Tick
    BY <1>1, <1>5 DEF Tick, TypeInv, TypeOK, WriterTypeOK, RowsToCursor, requestVars, fetchVars, nodeVars
<1>6. CASE Ask
    <2>1. PICK from, to \in Heights :
            from <= to /\ to - from + 1 <= MaxRange /\ range' = from .. to
        BY <1>6 DEF Ask
    <2>2. range' \subseteq Heights /\ Cardinality(range') <= MaxRange
        <3>1. from \in Int /\ to \in Int /\ 0 <= from /\ to <= MaxHeight
            BY <1>2 DEF Heights
        <3>2. Cardinality(from .. to) = to - from + 1
            BY <2>1, <3>1, FS_Interval
        <3> QED
            BY <2>1, <3>1, <3>2 DEF Heights
    <2>3. /\ phase \in {"idle", "done", "failed"} /\ phase' = "rows" /\ since' = now
          /\ listed' = {} /\ sets' = [h \in Heights |-> None] /\ failed' = {}
          /\ UNCHANGED <<rows, cursor, branch, forkedAt, forked, now, cache, flight,
                         asked, answer, fetchedAt>>
        BY <1>6 DEF Ask, nodeVars, fetchVars
    <2>4. flight' = {} /\ Cardinality(flight') <= Concurrency
        <3>1. Cardinality({}) <= Concurrency
            BY FS_EmptySet
        <3>2. flight' = {}
            BY <1>1, <2>3
        <3> QED
            BY <3>1, <3>2
    <2> QED
        BY <1>1, <2>2, <2>3, <2>4 DEF TypeInv, TypeOK, WriterTypeOK, RowsToCursor
<1>7. CASE ReadRows
    <2>1. \A b \in Listed : b \in Block /\ b.height \in range
        BY <1>1 DEF Listed, RowsToCursor, IsStored, NoBlock, TypeOK
    <2>2. /\ listed' = Listed /\ phase' \in {"done", "sets"} /\ phase = "rows"
          /\ UNCHANGED <<rows, cursor, branch, forkedAt, forked, now, cache, range, flight,
                         asked, answer, sets, failed, since, fetchedAt>>
        BY <1>7 DEF ReadRows, nodeVars, fetchVars
    <2> QED
        BY <1>1, <2>1, <2>2 DEF TypeInv, TypeOK, WriterTypeOK, RowsToCursor
<1>8. CASE Finish
    <2>1. /\ phase' \in {"done", "failed"} /\ flight = {}
          /\ UNCHANGED <<rows, cursor, branch, forkedAt, forked, now, cache, range, listed,
                         flight, asked, answer, sets, failed, since, fetchedAt>>
        BY <1>8 DEF Finish, nodeVars, fetchVars
    <2> QED
        BY <1>1, <2>1 DEF TypeInv, TypeOK, WriterTypeOK, RowsToCursor
<1>9. ASSUME NEW h \in Heights, Start(h)
      PROVE  TypeInv'
    <2>1. /\ phase = "sets"
          /\ UNCHANGED <<rows, cursor, branch, forkedAt, forked, now, cache, phase, range, listed,
                         failed, since, fetchedAt>>
        BY <1>9 DEF Start, nodeVars
    <2>2. sets' \in [Heights -> Hashes \cup {None}]
        <3>1. Fresh(cache[h]) => cache[h].hash \in Hashes
            BY <1>1 DEF Fresh, TypeOK, Entry
        <3>2. sets' \in {sets, [sets EXCEPT ![h] = cache[h].hash]} /\ (sets' # sets => Fresh(cache[h]))
            BY <1>9 DEF Start
        <3>3. sets \in [Heights -> Hashes \cup {None}]
            BY <1>1 DEF TypeOK
        <3> QED
            BY <3>1, <3>2, <3>3
    <2>4. asked' \in [Heights -> 0 .. MaxNow \cup {None}] /\ answer' = answer
        <3>1. asked' \in {asked, [asked EXCEPT ![h] = now]} /\ answer' = answer
            BY <1>9 DEF Start
        <3> QED
            BY <1>1, <3>1 DEF TypeOK
    <2>3. flight' \subseteq range /\ Cardinality(flight') <= Concurrency
        <3>1. flight' \in {flight, flight \cup {h}}
            BY <1>9 DEF Start
        <3>2. h \in range /\ Cardinality(flight) < Concurrency
            BY <1>1, <1>9 DEF Start, MayStart, Unstarted, TypeOK
        <3>3. flight \subseteq range /\ flight \subseteq Heights
            BY <1>1 DEF TypeOK
        <3>4. /\ IsFiniteSet(flight) /\ Cardinality(flight) \in Nat
              /\ Cardinality(flight \cup {h}) <= Cardinality(flight) + 1
            BY <1>2, <3>3, FS_AddElement
        <3>5. /\ Cardinality(flight) <= Concurrency
              /\ Cardinality(flight \cup {h}) <= Concurrency
            <4>1. Cardinality(flight \cup {h}) \in Nat
                BY <1>2, <3>3
            <4> QED
                BY <3>2, <3>4, <4>1
        <3>6. CASE flight' = flight
            BY <3>3, <3>5, <3>6
        <3>7. CASE flight' = flight \cup {h}
            BY <3>2, <3>3, <3>5, <3>7
        <3> QED
            BY <3>1, <3>6, <3>7
    <2> QED
        BY <1>1, <2>1, <2>2, <2>3, <2>4 DEF TypeInv, TypeOK, WriterTypeOK, RowsToCursor
<1>12. ASSUME NEW h \in Heights, NodeAnswers(h)
       PROVE  TypeInv'
    <2>1. answer' = [answer EXCEPT ![h] = OnNode(h)]
          /\ UNCHANGED <<rows, cursor, branch, forkedAt, forked, now, cache, phase, range, listed,
                         flight, asked, sets, failed, since, fetchedAt>>
        BY <1>12 DEF NodeAnswers, nodeVars
    <2>2. answer' \in [Heights -> Hashes \cup {None}]
        BY <1>1, <1>2, <2>1 DEF TypeOK
    <2> QED
        BY <1>1, <2>1, <2>2 DEF TypeInv, TypeOK, WriterTypeOK, RowsToCursor
<1>10. ASSUME NEW h \in Heights, Answered(h) \/ FetchFails(h)
       PROVE  TypeInv'
    <2>1. /\ h \in flight /\ flight' = flight \ {h}
          /\ UNCHANGED <<rows, cursor, branch, forkedAt, forked, now, phase, range, listed, since>>
        BY <1>10 DEF Answered, FetchFails, Over, nodeVars
    <2>2. flight' \subseteq range /\ Cardinality(flight') <= Concurrency
        <3>1. flight \subseteq range /\ flight \subseteq Heights /\ Cardinality(flight) <= Concurrency
            BY <1>1 DEF TypeOK
        <3>2. IsFiniteSet(flight) /\ Cardinality(flight) \in Nat /\ Cardinality(flight') \in Nat
            BY <1>2, <2>1, <3>1
        <3>3. Cardinality(flight') <= Cardinality(flight)
            BY <2>1, <3>2, FS_Subset
        <3> QED
            BY <2>1, <3>1, <3>2, <3>3
    <2>3. failed' \subseteq range
        BY <1>1, <1>10 DEF Answered, FetchFails, Over, TypeOK
    <2>5. /\ asked' \in [Heights -> 0 .. MaxNow \cup {None}]
          /\ answer' \in [Heights -> Hashes \cup {None}]
        BY <1>1, <1>10 DEF Answered, FetchFails, Over, TypeOK
    <2>4. /\ sets' \in [Heights -> Hashes \cup {None}]
          /\ cache' \in [Heights -> Entry \cup {NoEntry}]
          /\ fetchedAt' \in [Heights -> 0 .. MaxNow \cup {None}]
        <3>1. CASE FetchFails(h)
            BY <1>1, <3>1 DEF FetchFails, TypeOK
        <3>2. CASE Answered(h)
            <4>1. /\ sets' = [sets EXCEPT ![h] = answer[h]] /\ answer[h] # None
                  /\ cache' = [Swept EXCEPT ![h] = [hash |-> answer[h], fetched |-> now]]
                  /\ fetchedAt' = [fetchedAt EXCEPT ![h] = now]
                BY <3>2 DEF Answered, Cached
            <4>2. Swept \in [Heights -> Entry \cup {NoEntry}]
                BY <1>1 DEF Swept, TypeOK
            <4>3. [hash |-> answer[h], fetched |-> now] \in Entry /\ answer[h] \in Hashes
                BY <1>1, <4>1 DEF Entry, TypeOK
            <4> QED
                BY <1>1, <4>1, <4>2, <4>3 DEF TypeOK
        <3> QED
            BY <1>10, <3>1, <3>2
    <2> QED
        BY <1>1, <2>1, <2>2, <2>3, <2>4, <2>5 DEF TypeInv, TypeOK, WriterTypeOK, RowsToCursor
<1>11. CASE UNCHANGED vars
    BY <1>1, <1>11 DEF vars, nodeVars, requestVars, fetchVars, TypeInv, TypeOK, WriterTypeOK, RowsToCursor
<1> QED
    BY <1>3, <1>4, <1>5, <1>6, <1>7, <1>8, <1>9, <1>10, <1>11, <1>12 DEF Next

LEMMA TypesAlways == Spec => []TypeInv
BY TypesStart, TypesKept, PTL DEF Spec

\* Every variable of a request, the cache and the node keeps its type, and no
\* more heights are fetched at a time than may be.
THEOREM UptimeTypeCorrect == Spec => []TypeOK
<1>1. TypeInv => TypeOK
    BY DEF TypeInv
<1> QED
    BY <1>1, TypesAlways, PTL

-----------------------------------------------------------------------------
(***************************************************************************)
(* The node is spared: what was fetched less than a lifetime ago is still  *)
(* in the cache, since the sweep drops only what has expired.              *)
(***************************************************************************)
CacheLives ==
    \A h \in Heights :
        fetchedAt[h] # None /\ now - fetchedAt[h] < Ttl =>
            cache[h] # NoEntry /\ cache[h].fetched = fetchedAt[h]

LEMMA CacheKept == TypeInv /\ CacheLives /\ [Next]_vars => CacheLives'
<1> SUFFICES ASSUME TypeInv, CacheLives, [Next]_vars PROVE CacheLives'
    OBVIOUS
<1>1. /\ now \in Int /\ Ttl \in Nat \ {0}
      /\ cache \in [Heights -> Entry \cup {NoEntry}]
      /\ fetchedAt \in [Heights -> 0 .. MaxNow \cup {None}]
    BY DEF TypeInv, TypeOK
<1>2. CASE UNCHANGED <<now, cache, fetchedAt>>
    BY <1>2 DEF CacheLives, Fresh
<1>3. CASE Tick
    <2>1. now' = now + 1 /\ UNCHANGED <<cache, fetchedAt>>
        BY <1>3 DEF Tick
    <2>2. \A h \in Heights : fetchedAt[h] # None => fetchedAt[h] \in Int
        BY <1>1 DEF None
    <2> QED
        BY <1>1, <2>1, <2>2 DEF CacheLives
<1>4. ASSUME NEW g \in Heights, Answered(g)
      PROVE  CacheLives'
    <2>1. /\ cache' = [Swept EXCEPT ![g] = [hash |-> answer[g], fetched |-> now]]
          /\ fetchedAt' = [fetchedAt EXCEPT ![g] = now] /\ now' = now
        BY <1>4 DEF Answered, Cached
    <2>2. DOMAIN Swept = Heights /\ DOMAIN fetchedAt = Heights
        BY <1>1 DEF Swept
    <2>3. ASSUME NEW h \in Heights, fetchedAt'[h] # None, now' - fetchedAt'[h] < Ttl
          PROVE  cache'[h] # NoEntry /\ cache'[h].fetched = fetchedAt'[h]
        <3>1. CASE h = g
            <4>1. cache'[h] = [hash |-> answer[g], fetched |-> now] /\ fetchedAt'[h] = now
                BY <2>1, <2>2, <3>1
            <4>2. now # None
                BY DEF TypeInv, TypeOK, None
            <4> QED
                BY <4>1, <4>2 DEF NoEntry
        <3>2. CASE h # g
            <4>1. cache'[h] = Swept[h] /\ fetchedAt'[h] = fetchedAt[h]
                BY <2>1, <2>2, <3>2
            <4>2. cache[h] # NoEntry /\ cache[h].fetched = fetchedAt[h] /\ Fresh(cache[h])
                BY <2>1, <2>3, <4>1 DEF CacheLives, Fresh
            <4>3. Swept[h] = cache[h]
                BY <4>2 DEF Swept
            <4> QED
                BY <4>1, <4>2, <4>3
        <3> QED
            BY <3>1, <3>2
    <2> QED
        BY <2>3 DEF CacheLives
<1> QED
    BY <1>2, <1>3, <1>4
    DEF Next, Commit, Rollback, Fork, Ask, ReadRows, Finish, Start, NodeAnswers, FetchFails, vars

LEMMA SpareAlways == Spec => [](TypeInv /\ CacheLives)
<1>1. Init => CacheLives
    BY DEF Init, CacheLives
<1> QED
    BY <1>1, TypesStart, TypesKept, CacheKept, PTL DEF Spec

\* Whatever requests fail and however the cache is swept, the node is not asked
\* for a height while its last answer lives.
THEOREM NodeAlwaysSpared == Spec => NodeSpared
<1> DEFINE Spared == \A h \in flight' \ flight :
                        /\ h \in {b.height : b \in listed}
                        /\ fetchedAt[h] = None \/ now - fetchedAt[h] >= Ttl
<1>1. TypeInv /\ CacheLives /\ [Next]_vars => [Spared]_vars
    <2> SUFFICES ASSUME TypeInv, CacheLives, [Next]_vars, NEW h \in flight', h \notin flight
                 PROVE  /\ h \in {b.height : b \in listed}
                        /\ fetchedAt[h] = None \/ now - fetchedAt[h] >= Ttl
        OBVIOUS
    <2>1. PICK g \in Heights : Start(g)
        BY DEF Next, Commit, Rollback, Fork, Tick, Ask, ReadRows, Finish, NodeAnswers, Answered,
               FetchFails, Over, vars, requestVars, fetchVars
    <2>2. h = g /\ ~Fresh(cache[h]) /\ h \in Unstarted
        BY <2>1 DEF Start
    <2>3. fetchedAt[h] # None => now - fetchedAt[h] \in Int /\ Ttl \in Int
        BY <2>2 DEF TypeInv, TypeOK, None
    <2>4. fetchedAt[h] # None => ~(now - fetchedAt[h] < Ttl)
        BY <2>2 DEF CacheLives, Fresh
    <2> QED
        BY <2>2, <2>3, <2>4 DEF Unstarted
<1> QED
    BY <1>1, SpareAlways, PTL DEF Spec, NodeSpared

-----------------------------------------------------------------------------
(***************************************************************************)
(* Reports.  An answer is of the branch the node was on at some time since *)
(* it was asked for, and an entry of the cache of one since FetchTimeout   *)
(* before its date: when the node settled FetchTimeout and a cache         *)
(* lifetime before the request, everything the request may use is of the   *)
(* node's branch.                                                          *)
(***************************************************************************)
Clocks ==
    /\ forked <= now /\ since <= now
    /\ \A h \in Heights : cache[h] # NoEntry => cache[h].fetched <= now
    /\ \A h \in flight : since <= asked[h] /\ asked[h] <= now

AnswersTrue ==
    \A h \in Heights : answer[h] # None =>
        h \in flight /\ (branch = 0 \/ forked < asked[h] => answer[h] = OnNode(h))

CacheTrue ==
    \A h \in Heights :
        cache[h] # NoEntry /\ (branch = 0 \/ forked + FetchTimeout < cache[h].fetched) =>
            cache[h].hash = OnNode(h)

Settled == branch = 0 \/ forked + FetchTimeout + Ttl <= since

SetsTrue == Settled => \A h \in Heights : sets[h] # None => sets[h] = OnNode(h)

\* A report is put together when every set is there.
AllLookedUp == phase = "done" => \A b \in listed : sets[b.height] # None

FairInv == Clocks /\ AnswersTrue /\ CacheTrue /\ SetsTrue /\ AllLookedUp /\ IsFiniteSet(listed)

\* The numbers of a state.
LEMMA ClocksKnown ==
    ASSUME TypeInv
    PROVE  /\ now \in Int /\ forked \in Int /\ since \in Int /\ Ttl \in Int /\ Ttl > 0
           /\ FetchTimeout \in Int /\ FetchTimeout >= 0
           /\ branch \in Int /\ branch >= 0
           /\ cache \in [Heights -> Entry \cup {NoEntry}]
           /\ \A h \in Heights : cache[h] # NoEntry => cache[h].fetched \in Int
           /\ sets \in [Heights -> Hashes \cup {None}]
           /\ flight \subseteq Heights
           /\ asked \in [Heights -> 0 .. MaxNow \cup {None}] /\ \A h \in Heights : asked[h] \in Int
           /\ answer \in [Heights -> Hashes \cup {None}]
BY DEF TypeInv, TypeOK, WriterTypeOK, Hashes, Entry, None

\* What is fresh in the cache during a request is as true as the request needs.
LEMMA FreshIsTrue ==
    ASSUME TypeInv, Clocks, CacheTrue, Settled, NEW h \in Heights, Fresh(cache[h])
    PROVE  cache[h].hash = OnNode(h)
<1>1. cache[h] # NoEntry /\ now - cache[h].fetched < Ttl
    BY DEF Fresh
<1>2. branch = 0 \/ forked + FetchTimeout < cache[h].fetched
    BY <1>1, ClocksKnown DEF Settled, Clocks
<1> QED
    BY <1>1, <1>2 DEF CacheTrue

\* So is an answer that comes in.
LEMMA AnswerIsTrue ==
    ASSUME TypeInv, Clocks, AnswersTrue, NEW h \in Heights, Answered(h),
           branch = 0 \/ forked < asked[h]
    PROVE  answer[h] = OnNode(h)
BY DEF Answered, AnswersTrue

\* Steps of a request leave the node and the clocks alone.
LEMMA RequestKeepsTrue ==
    ASSUME TypeInv, Clocks, UNCHANGED <<rows, branch, forkedAt, forked, now>>
    PROVE  \A h \in Heights : OnNode(h)' = OnNode(h)
BY DEF OnNode

\* What the end of a fetch leaves of the others.
LEMMA OverKnown ==
    ASSUME TypeInv, NEW g \in Heights, Over(g)
    PROVE  /\ g \in flight /\ flight' = flight \ {g} /\ answer'[g] = None
           /\ \A h \in Heights \ {g} : asked'[h] = asked[h] /\ answer'[h] = answer[h]
BY ClocksKnown DEF Over

LEMMA ClocksKept == TypeInv /\ Clocks /\ [Next]_vars => Clocks'
<1> SUFFICES ASSUME TypeInv, Clocks, [Next]_vars PROVE Clocks'
    OBVIOUS
<1>1. CASE UNCHANGED <<now, cache, forked, since, flight, asked>>
    BY <1>1 DEF Clocks
<1>2. CASE Fork
    <2>1. forked' = now /\ UNCHANGED <<now, cache, since, flight, asked>>
        BY <1>2 DEF Fork, requestVars, fetchVars
    <2> QED
        BY <2>1, ClocksKnown DEF Clocks
<1>3. CASE Tick
    <2>1. now' = now + 1 /\ UNCHANGED <<cache, forked, since, flight, asked>>
        BY <1>3 DEF Tick, nodeVars, requestVars, fetchVars
    <2> QED
        BY <2>1, ClocksKnown DEF Clocks
<1>4. CASE Ask
    <2>1. since' = now /\ UNCHANGED <<now, cache, forked, flight, asked>> /\ flight = {}
        BY <1>4 DEF Ask, nodeVars, fetchVars, TypeInv
    <2> QED
        BY <2>1, ClocksKnown DEF Clocks
<1>5. ASSUME NEW g \in Heights, Answered(g) \/ FetchFails(g)
      PROVE  Clocks'
    <2>1. UNCHANGED <<now, forked, since>> /\ Over(g)
        BY <1>5 DEF Answered, FetchFails, nodeVars
    <2>2. \A h \in Heights : cache'[h] # NoEntry => cache'[h].fetched <= now
        <3>1. CASE FetchFails(g)
            BY <3>1 DEF FetchFails, Clocks
        <3>2. CASE Answered(g)
            <4>1. cache' = [Swept EXCEPT ![g] = [hash |-> answer[g], fetched |-> now]]
                BY <3>2 DEF Answered, Cached
            <4>2. DOMAIN Swept = Heights /\ \A h \in Heights : Swept[h] \in {cache[h], NoEntry}
                BY ClocksKnown DEF Swept
            <4>3. \A h \in Heights : cache'[h] \in {cache[h], NoEntry} \/ cache'[h].fetched = now
                BY <4>1, <4>2
            <4> QED
                BY <4>3, ClocksKnown DEF Clocks
        <3> QED
            BY <1>5, <3>1, <3>2
    <2>3. \A h \in flight' : h \in flight /\ asked'[h] = asked[h]
        BY <2>1, OverKnown, ClocksKnown
    <2> QED
        BY <2>1, <2>2, <2>3 DEF Clocks
<1>6. ASSUME NEW g \in Heights, Start(g)
      PROVE  Clocks'
    <2>1. UNCHANGED <<now, cache, forked, since>>
        BY <1>6 DEF Start, nodeVars
    <2>2. \/ UNCHANGED <<flight, asked>>
          \/ flight' = flight \cup {g} /\ asked' = [asked EXCEPT ![g] = now]
        BY <1>6 DEF Start
    <2>3. \A h \in flight' : (h \in flight /\ asked'[h] = asked[h]) \/ asked'[h] = now
        BY <2>2, ClocksKnown
    <2> QED
        BY <2>1, <2>3, ClocksKnown DEF Clocks
<1> QED
    BY <1>1, <1>2, <1>3, <1>4, <1>5, <1>6
    DEF Next, Commit, Rollback, ReadRows, Finish, NodeAnswers, vars, nodeVars, requestVars, fetchVars

LEMMA AnswersTrueKept == TypeInv /\ Clocks /\ AnswersTrue /\ [Next]_vars => AnswersTrue'
<1> SUFFICES ASSUME TypeInv, Clocks, AnswersTrue, [Next]_vars PROVE AnswersTrue'
    OBVIOUS
<1>1. CASE Commit \/ Rollback
    <2>1. UNCHANGED <<branch, forked>> /\ \A h \in Heights : OnNode(h)' = OnNode(h)
        BY <1>1, TaskKeepsNode
    <2>2. UNCHANGED <<flight, asked, answer>>
        BY <1>1 DEF Commit, Rollback, requestVars, fetchVars
    <2> QED
        BY <2>1, <2>2 DEF AnswersTrue
<1>2. CASE Fork
    <2>1. branch' = branch + 1 /\ forked' = now /\ UNCHANGED <<flight, asked, answer>>
        BY <1>2 DEF Fork, requestVars, fetchVars
    <2>2. \A h \in flight : ~(forked' < asked[h])
        BY <2>1, ClocksKnown DEF Clocks
    <2> QED
        BY <2>1, <2>2, ClocksKnown DEF AnswersTrue
<1>3. ASSUME NEW g \in Heights, Start(g)
      PROVE  AnswersTrue'
    <2>1. UNCHANGED <<rows, branch, forkedAt, forked, now, answer>> /\ g \notin flight
        BY <1>3 DEF Start, Unstarted, nodeVars
    <2>2. \A h \in Heights \ {g} : (h \in flight => h \in flight') /\ asked'[h] = asked[h]
        BY <1>3, ClocksKnown DEF Start
    <2>3. answer[g] = None /\ \A h \in Heights : OnNode(h)' = OnNode(h)
        BY <2>1, RequestKeepsTrue DEF AnswersTrue
    <2> QED
        BY <2>1, <2>2, <2>3 DEF AnswersTrue
<1>4. ASSUME NEW g \in Heights, NodeAnswers(g)
      PROVE  AnswersTrue'
    <2>1. /\ answer' = [answer EXCEPT ![g] = OnNode(g)] /\ g \in flight
          /\ UNCHANGED <<rows, branch, forkedAt, forked, now, flight, asked>>
        BY <1>4 DEF NodeAnswers, nodeVars
    <2>2. \A h \in Heights : OnNode(h)' = OnNode(h)
        BY <2>1, RequestKeepsTrue
    <2> QED
        BY <2>1, <2>2, ClocksKnown DEF AnswersTrue
<1>5. ASSUME NEW g \in Heights, Answered(g) \/ FetchFails(g)
      PROVE  AnswersTrue'
    <2>1. UNCHANGED <<rows, branch, forkedAt, forked, now>> /\ Over(g)
        BY <1>5 DEF Answered, FetchFails, nodeVars
    <2>2. \A h \in Heights : OnNode(h)' = OnNode(h)
        BY <2>1, RequestKeepsTrue
    <2> QED
        BY <2>1, <2>2, OverKnown DEF AnswersTrue
<1>6. CASE UNCHANGED <<rows, nodeVars, fetchVars>>
    BY <1>6 DEF AnswersTrue, OnNode, nodeVars, fetchVars
<1> QED
    BY <1>1, <1>2, <1>3, <1>4, <1>5, <1>6
    DEF Next, Tick, Ask, ReadRows, Finish, vars, requestVars

LEMMA CacheTrueKept == TypeInv /\ Clocks /\ AnswersTrue /\ CacheTrue /\ [Next]_vars => CacheTrue'
<1> SUFFICES ASSUME TypeInv, Clocks, AnswersTrue, CacheTrue, [Next]_vars PROVE CacheTrue'
    OBVIOUS
<1>1. CASE Commit \/ Rollback
    <2>1. UNCHANGED <<branch, forked>> /\ \A h \in Heights : OnNode(h)' = OnNode(h)
        BY <1>1, TaskKeepsNode
    <2>2. UNCHANGED cache
        BY <1>1 DEF Commit, Rollback
    <2> QED
        BY <2>1, <2>2 DEF CacheTrue
<1>2. CASE Fork
    <2>1. branch' = branch + 1 /\ forked' = now /\ cache' = cache
        BY <1>2 DEF Fork
    <2> QED
        BY <2>1, ClocksKnown DEF CacheTrue, Clocks
<1>3. ASSUME NEW g \in Heights, Answered(g)
      PROVE  CacheTrue'
    <2>1. /\ cache' = [Swept EXCEPT ![g] = [hash |-> answer[g], fetched |-> now]]
          /\ UNCHANGED <<rows, branch, forkedAt, forked, now>>
          /\ now - asked[g] <= FetchTimeout
        BY <1>3 DEF Answered, Cached, nodeVars
    <2>2. DOMAIN Swept = Heights /\ \A h \in Heights : Swept[h] \in {cache[h], NoEntry}
        BY ClocksKnown DEF Swept
    <2>3. \A h \in Heights : OnNode(h)' = OnNode(h)
        BY <2>1, RequestKeepsTrue
    <2>4. ASSUME NEW h \in Heights, cache'[h] # NoEntry,
                 branch = 0 \/ forked + FetchTimeout < cache'[h].fetched
          PROVE  cache'[h].hash = OnNode(h)
        <3>1. CASE h = g
            <4>1. cache'[h].hash = answer[g] /\ cache'[h].fetched = now
                BY <2>1, <2>2, <3>1
            <4>2. branch = 0 \/ forked < asked[g]
                BY <2>1, <2>4, <4>1, ClocksKnown
            <4> QED
                BY <1>3, <3>1, <4>1, <4>2, AnswerIsTrue
        <3>2. CASE h # g
            <4>1. cache'[h] = cache[h]
                BY <2>1, <2>2, <2>4, <3>2
            <4> QED
                BY <2>4, <4>1 DEF CacheTrue
        <3> QED
            BY <3>1, <3>2
    <2> QED
        BY <2>1, <2>3, <2>4 DEF CacheTrue
<1>4. CASE UNCHANGED <<rows, nodeVars, cache>>
    BY <1>4 DEF CacheTrue, OnNode, nodeVars
<1> QED
    BY <1>1, <1>2, <1>3, <1>4
    DEF Next, Tick, Ask, ReadRows, Finish, Start, NodeAnswers, FetchFails, vars

LEMMA SetsTrueKept ==
    TypeInv /\ Clocks /\ AnswersTrue /\ CacheTrue /\ SetsTrue /\ [Next]_vars => SetsTrue'
<1> SUFFICES ASSUME TypeInv, Clocks, AnswersTrue, CacheTrue, SetsTrue, [Next]_vars PROVE SetsTrue'
    OBVIOUS
<1>1. CASE Commit \/ Rollback
    <2>1. UNCHANGED <<branch, forked>> /\ \A h \in Heights : OnNode(h)' = OnNode(h)
        BY <1>1, TaskKeepsNode
    <2>2. UNCHANGED <<sets, since>>
        BY <1>1 DEF Commit, Rollback, requestVars
    <2> QED
        BY <2>1, <2>2 DEF SetsTrue, Settled
<1>2. CASE Fork
    <2>1. branch' = branch + 1 /\ forked' = now /\ since' = since
        BY <1>2 DEF Fork, requestVars
    <2>2. ~Settled'
        BY <2>1, ClocksKnown DEF Settled, Clocks
    <2> QED
        BY <2>2 DEF SetsTrue
<1>3. CASE Ask
    BY <1>3 DEF Ask, SetsTrue
<1>4. ASSUME NEW g \in Heights, Start(g) \/ Answered(g)
      PROVE  SetsTrue'
    <2>1. UNCHANGED <<rows, branch, forkedAt, forked, now, since>>
        BY <1>4 DEF Start, Answered, nodeVars
    <2>2. (Settled' <=> Settled) /\ \A h \in Heights : OnNode(h)' = OnNode(h)
        BY <2>1, RequestKeepsTrue DEF Settled
    <2>3. ASSUME Settled
          PROVE  sets' = sets \/ sets' = [sets EXCEPT ![g] = OnNode(g)]
        <3>1. CASE Start(g)
            BY <2>3, <3>1, FreshIsTrue DEF Start
        <3>2. CASE Answered(g)
            <4>1. sets' = [sets EXCEPT ![g] = answer[g]] /\ g \in flight
                BY <3>2 DEF Answered, Over
            <4>2. branch = 0 \/ forked < asked[g]
                BY <2>3, <4>1, ClocksKnown DEF Settled, Clocks
            <4> QED
                BY <3>2, <4>1, <4>2, AnswerIsTrue
        <3> QED
            BY <1>4, <3>1, <3>2
    <2> QED
        BY <2>2, <2>3, ClocksKnown DEF SetsTrue
<1>5. CASE UNCHANGED <<rows, nodeVars, sets, since>>
    BY <1>5 DEF SetsTrue, Settled, OnNode, nodeVars
<1> QED
    BY <1>1, <1>2, <1>3, <1>4, <1>5
    DEF Next, Tick, ReadRows, Finish, NodeAnswers, FetchFails, vars, requestVars

LEMMA FairKept == TypeInv /\ FairInv /\ [Next]_vars => FairInv'
<1> SUFFICES ASSUME TypeInv, FairInv, [Next]_vars PROVE FairInv'
    OBVIOUS
<1>1. Clocks' /\ AnswersTrue' /\ CacheTrue' /\ SetsTrue'
    BY ClocksKept, AnswersTrueKept, CacheTrueKept, SetsTrueKept DEF FairInv
<1>2. CASE UNCHANGED <<phase, listed, sets>>
    BY <1>1, <1>2 DEF FairInv, AllLookedUp
<1>3. CASE Ask
    <2>1. phase' = "rows" /\ listed' = {}
        BY <1>3 DEF Ask
    <2> QED
        BY <1>1, <2>1, FS_EmptySet DEF FairInv, AllLookedUp
<1>4. CASE ReadRows
    <2>1. IsFiniteSet(Listed)
        <3> DEFINE S == {h \in range : h > 0 /\ IsStored(rows, h)}
                   f == [h \in S |-> rows[h]]
        <3>1. S \in SUBSET Heights
            BY DEF TypeInv, TypeOK
        <3>2. IsFiniteSet(S)
            BY <3>1, UptimeKnown
        <3>3. Listed = {f[h] : h \in S}
            BY DEF Listed
        <3>4. DOMAIN f = S
            OBVIOUS
        <3> HIDE DEF f, S
        <3> QED
            BY <3>2, <3>3, <3>4, ImageFinite
    <2>2. listed' = Listed /\ (phase' = "done" => Listed = {})
        BY <1>4 DEF ReadRows
    <2> QED
        BY <1>1, <2>1, <2>2 DEF FairInv, AllLookedUp
<1>5. CASE Finish
    <2>1. Unstarted = {} /\ flight = {} /\ UNCHANGED <<listed, sets>>
        BY <1>5 DEF Finish
    <2>2. phase' = "done" => failed = {}
        BY <1>5 DEF Finish
    <2>3. phase' = "done" => \A b \in listed : sets[b.height] # None
        BY <2>1, <2>2 DEF Unstarted
    <2> QED
        BY <1>1, <2>1, <2>3 DEF FairInv, AllLookedUp
<1>6. ASSUME NEW g \in Heights, Start(g) \/ Answered(g)
      PROVE  FairInv'
    <2>1. UNCHANGED <<phase, listed>> /\ phase # "done"
        BY <1>6 DEF Start, Answered, Over, TypeInv
    <2> QED
        BY <1>1, <2>1 DEF FairInv, AllLookedUp
<1> QED
    BY <1>2, <1>3, <1>4, <1>5, <1>6
    DEF Next, Commit, Rollback, Fork, Tick, NodeAnswers, FetchFails, vars, requestVars

LEMMA FairAlways == Spec => [](TypeInv /\ FairInv)
<1>1. Init => FairInv
    BY FS_EmptySet, BlocksAssumption
    DEF Init, WriterInit, FairInv, Clocks, AnswersTrue, CacheTrue, SetsTrue, AllLookedUp, NoEntry
<1> QED
    BY <1>1, TypesStart, TypesKept, FairKept, PTL DEF Spec

\* On a settled branch a turn is whose the chain says, and whoever has missed one
\* had somebody stand in.
LEMMA FairWhenDone ==
    ASSUME TypeInv, FairInv, phase = "done", Steady
    PROVE  /\ \A b \in listed : sets[b.height] = b.hash
           /\ IsFiniteSet(Counted)
           /\ \A b \in Counted : Round(b) = 0 => Proposer(b) = Primary(b)
<1>1. ASSUME NEW b \in listed
      PROVE  sets[b.height] = b.hash
    <2>1. b.height \in Heights /\ b.hash = OnNode(b.height)
        BY DEF TypeInv, TypeOK, Steady
    <2>2. Settled
        BY DEF Steady, Settled
    <2> QED
        BY <2>1, <2>2 DEF FairInv, AllLookedUp, SetsTrue
<1>2. IsFiniteSet(Counted)
    BY FS_Subset DEF Counted, FairInv
<1>3. \A b \in Counted : Round(b) = 0 => Proposer(b) = Primary(b)
    BY <1>1 DEF Counted, Proposer, Primary
<1> QED
    BY <1>1, <1>2, <1>3

\* Each turn missed is one that another stood in for: as many of the one as of the
\* other are counted, each under its own validator.
LEMMA MissedAreFilled ==
    ASSUME TypeInv, FairInv, phase = "done", Steady
    PROVE  SumFunction([v \in DOMAIN Report |-> Report[v].missed])
             = SumFunction([v \in DOMAIN Report |-> Report[v].backup])
<1> DEFINE D  == {a \in Addresses : Owed(a) # {} \/ Backups(a) # {}}
           B  == {b \in Counted : Round(b) # 0}
           turn == [b \in Counted |-> Primary(b)]
           made == [b \in Counted |-> Proposer(b)]
<1>1. IsFiniteSet(Counted) /\ IsFiniteSet(B)
    BY FairWhenDone, FS_Subset
<1>2. IsFiniteSet(D)
    <2>1. DOMAIN turn = Counted /\ DOMAIN made = Counted
        OBVIOUS
    <2>2. Addresses = {turn[b] : b \in Counted} \cup {made[b] : b \in Counted}
        BY DEF Addresses
    <2> HIDE DEF turn, made
    <2>3. IsFiniteSet({turn[b] : b \in Counted}) /\ IsFiniteSet({made[b] : b \in Counted})
        BY <1>1, <2>1, ImageFinite
    <2>4. IsFiniteSet(Addresses)
        BY <2>2, <2>3, FS_Union
    <2> QED
        BY <2>4, FS_Subset
<1>3. \A b \in B : turn[b] \in D /\ made[b] \in D
    BY DEF Addresses, Owed, Backups
<1>4. ASSUME NEW v \in D
      PROVE  Report[v].missed = Cardinality({b \in B : turn[b] = v})
    <2> DEFINE missed == {b \in B : turn[b] = v}
    <2>1. Owed(v) = Filled(v) \cup missed /\ Filled(v) \cap missed = {}
        BY FairWhenDone DEF Owed, Filled
    <2>2. IsFiniteSet(Filled(v)) /\ IsFiniteSet(missed)
        BY <1>1, FS_Subset DEF Filled, Owed
    <2>3. Report[v].missed = Cardinality(Owed(v)) - Cardinality(Filled(v))
        BY DEF Report
    <2> HIDE DEF missed
    <2>4. Cardinality(Filled(v) \cup missed)
            = Cardinality(Filled(v)) + Cardinality(missed) - Cardinality(Filled(v) \cap missed)
        BY <2>2, FS_Union
    <2>5. Cardinality(Filled(v) \cap missed) = 0
        BY <2>1, FS_EmptySet
    <2>6. Cardinality(Filled(v)) \in Nat /\ Cardinality(missed) \in Nat
        BY <2>2, FS_CardinalityType
    <2>7. Report[v].missed = Cardinality(missed)
        BY <2>1, <2>3, <2>4, <2>5, <2>6
    <2> QED
        BY <2>7 DEF missed
<1>5. ASSUME NEW v \in D
      PROVE  Report[v].backup = Cardinality({b \in B : made[b] = v})
    <2>1. Backups(v) = {b \in B : made[b] = v}
        BY DEF Backups
    <2>2. Report[v].backup = Cardinality(Backups(v))
        BY DEF Report
    <2> QED
        BY <2>1, <2>2
<1>6. DOMAIN Report = D
    BY DEF Report
<1> DEFINE misses  == [v \in DOMAIN Report |-> Report[v].missed]
           backups == [v \in DOMAIN Report |-> Report[v].backup]
<1>7. /\ DOMAIN misses = D /\ \A v \in D : misses[v] = Cardinality({b \in B : turn[b] = v})
      /\ DOMAIN backups = D /\ \A v \in D : backups[v] = Cardinality({b \in B : made[b] = v})
    BY <1>4, <1>5, <1>6
<1> HIDE DEF D, B, turn, made, misses, backups
<1>8. SumFunction(misses) = Cardinality(B)
    BY <1>1, <1>2, <1>3, <1>7, SumIsCount
<1>9. SumFunction(backups) = Cardinality(B)
    BY <1>1, <1>2, <1>3, <1>7, SumIsCount
<1> QED
    BY <1>8, <1>9 DEF misses, backups

\* A report on a branch the node has settled on, for as long as an answer may take
\* and then stay cached, counts every turn where the chain has it, and blames for
\* no more than others stood in for, however late the node's answers come in.
THEOREM ReportAlwaysFair == Spec => []ReportIsFair
<1>1. TypeInv /\ FairInv => ReportIsFair
    <2> SUFFICES ASSUME TypeInv, FairInv, phase = "done", Steady
                 PROVE  /\ \A b \in listed :
                              LET set == Validators(b.height, b.hash)
                              IN  set # <<>> => b \in Owed(Designee(set, b.height, 0))
                        /\ SumFunction([v \in DOMAIN Report |-> Report[v].missed])
                             = SumFunction([v \in DOMAIN Report |-> Report[v].backup])
        BY DEF ReportIsFair
    <2>1. \A b \in listed : sets[b.height] = b.hash
        BY FairWhenDone
    <2>2. \A b \in listed :
            Validators(b.height, b.hash) # <<>> =>
                b \in Owed(Designee(Validators(b.height, b.hash), b.height, 0))
        BY <2>1 DEF Owed, Counted, Primary
    <2> QED
        BY <2>2, MissedAreFilled
<1> QED
    BY <1>1, FairAlways, PTL
=============================================================================
