----------------------------- MODULE HookProofs -----------------------------
(***************************************************************************)
(* Theorems about Webhooks: its types, that no block is passed over, that  *)
(* nothing delivered under finality is taken back, and when a hook is      *)
(* given up on.                                                            *)
(***************************************************************************)
EXTENDS Webhooks, WriterProofs

USE BlocksAssumption, WriterAssumption, WebhooksAssumption

\* What the dispatcher holds of the table.
Copies == ToSet(queue) \cup ToSet(more)

\* No id twice among the copies.
IdsOnce ==
    /\ \A i, j \in DOMAIN queue : queue[i].id = queue[j].id => i = j
    /\ \A i, j \in DOMAIN more : more[i].id = more[j].id => i = j
    /\ \A i \in DOMAIN queue, j \in DOMAIN more : queue[i].id # more[j].id

\* An id is one url's, and was given out.
IdsGiven ==
    /\ \A u \in Urls : hooks[u].id <= registered
    /\ \A u, v \in Urls : hooks[u] # NoHook /\ hooks[u].id = hooks[v].id => u = v
    /\ form # NoForm => registered < MaxRegistered

\* What the dispatcher has in hand in each of its phases.
InHand ==
    /\ phase = "wait" => queue = <<>>
    /\ phase \in {"wait", "tip"} => more = <<>>
    /\ IF phase \in {"post", "mark"} THEN queue # <<>> /\ page # <<>> ELSE page = <<>>

\* A rollback that was decided on finds the orphan it was decided for.
RewindReady == rewinding => common < cursor

TypeInv == TypeOK /\ RowsToCursor /\ RewindReady /\ IdsOnce /\ IdsGiven /\ InHand

\* A copy of a hook that is registered still is of its url, of a hook that is
\* enabled, and with the hook's cursor unless that was moved since.
CopyOK(c) ==
    /\ c.id <= registered
    /\ \A u \in Urls : hooks[u].id = c.id =>
        c.url = u /\ hooks[u].enabled /\ (u \notin overtaken => hooks[u].cursor = c.cursor)

CopiesOK == \A c \in Copies : CopyOK(c)

\* The page in hand is the run of heights above the cursor of the copy in hand.
PageFollows == \A i \in DOMAIN page : page[i].height = Head(queue).cursor + i

\* What is about to be recorded as delivered was.
Posted ==
    phase = "mark" => \A u \in Urls : hooks[u].id = Head(queue).id /\ u \notin overtaken =>
        Head(page) \in received[u]

\* A hook is not above the store, unless it was put there and got nothing since.
Delivered(u) ==
    /\ GotEverything(u)
    /\ owedFrom[u] <= hooks[u].cursor => hooks[u].cursor <= cursor

DeliveryInv ==
    /\ CopiesOK /\ PageFollows /\ Posted
    /\ \A u \in Urls \ overtaken : hooks[u] # NoHook => Delivered(u)

\* The failing clock starts after the last delivery, and disables a hook only
\* when it has run for as long as it may.
ClockOK(u) ==
    /\ lastGood[u] <= clock
    /\ hooks[u].since # None => lastGood[u] <= hooks[u].since /\ hooks[u].since <= clock
    /\ hooks[u] # NoHook /\ ~hooks[u].enabled =>
        hooks[u].since # None /\ hooks[u].since <= clock - MaxFailing

ClocksOK == \A u \in Urls : ClockOK(u)

\* A block that stays: no rollback reaches it while the process knows how far the
\* node is final, unless finality passed its block while it was under way.
Stays(b) ==
    /\ rows[b.height] = b /\ b.height <= finalized
    /\ known # None => b.height <= known

PageStays ==
    \A i \in DOMAIN page :
        page[i].height <= upTo /\ (rows[page[i].height] = page[i] \/ page[i] \in overrun)

\* A rollback was decided on knowing the finality, and spares all that is known to
\* be final by now, unless finality passed its block in the meantime.
RewindSpares ==
    rewinding => known # None /\ (cursor > known \/ rows[cursor] \in overrun)

FinalInv ==
    /\ known <= finalized
    /\ finalized # None => RewindSpares
    /\ finalized # None /\ ~blind =>
        /\ upTo <= known /\ PageStays
        /\ \A u \in Urls : \A b \in received[u] \ overrun : Stays(b)

HookInv == TypeInv /\ DeliveryInv /\ ClocksOK /\ FinalInv

-----------------------------------------------------------------------------
(***************************************************************************)
(* Sequences of copies, and what is known of the state.                    *)
(***************************************************************************)
LEMMA CopySeqs ==
    /\ <<>> \in Seq(Copy) /\ Len(<<>>) = 0 /\ DOMAIN <<>> = {}
    /\ \A s \in Seq(Copy) :
        /\ Len(s) \in Nat /\ DOMAIN s = 1 .. Len(s) /\ (s = <<>> <=> Len(s) = 0)
        /\ \A i \in 1 .. Len(s) : s[i] \in Copy
BY EmptyKnown, LenProperties

LEMMA CopyTail ==
    \A s \in Seq(Copy) : s # <<>> =>
        /\ Len(s) \in Nat \ {0} /\ Head(s) = s[1] /\ Head(s) \in Copy
        /\ Tail(s) \in Seq(Copy) /\ Len(Tail(s)) = Len(s) - 1
        /\ DOMAIN s = 1 .. Len(s) /\ DOMAIN Tail(s) = 1 .. Len(s) - 1
        /\ \A i \in 1 .. Len(s) - 1 : Tail(s)[i] = s[i + 1]
BY HeadAndTail

LEMMA CopyAppended ==
    \A s \in Seq(Copy), b \in Copy :
        /\ Append(s, b) \in Seq(Copy)
        /\ Len(s) \in Nat /\ Len(Append(s, b)) = Len(s) + 1
        /\ DOMAIN s = 1 .. Len(s) /\ DOMAIN Append(s, b) = 1 .. Len(s) + 1
        /\ \A i \in 1 .. Len(s) : Append(s, b)[i] = s[i]
        /\ Append(s, b)[Len(s) + 1] = b
BY Appended

\* Another head in place of the first.
LEMMA CopyReplaced ==
    ASSUME NEW s \in Seq(Copy), s # <<>>, NEW c \in Copy
    PROVE  LET t == <<c>> \o Tail(s)
           IN  /\ t \in Seq(Copy) /\ Len(t) = Len(s) /\ DOMAIN t = 1 .. Len(s)
               /\ Len(s) \in Nat \ {0} /\ t # <<>> /\ Head(t) = c /\ t[1] = c
               /\ \A i \in 2 .. Len(s) : t[i] = s[i]
<1> DEFINE t == <<c>> \o Tail(s)
<1>1. /\ Len(s) \in Nat \ {0} /\ Tail(s) \in Seq(Copy) /\ Len(Tail(s)) = Len(s) - 1
      /\ \A i \in 1 .. Len(s) - 1 : Tail(s)[i] = s[i + 1]
    BY CopyTail
<1>2. <<c>> \in Seq(Copy) /\ Len(<<c>>) = 1 /\ <<c>>[1] = c
    OBVIOUS
<1>3. /\ t \in Seq(Copy) /\ Len(t) = 1 + (Len(s) - 1)
      /\ \A i \in 1 .. 1 + (Len(s) - 1) :
            t[i] = IF i <= 1 THEN <<c>>[i] ELSE Tail(s)[i - 1]
    <2>1. /\ <<c>> \o Tail(s) \in Seq(Copy)
          /\ Len(<<c>> \o Tail(s)) = Len(<<c>>) + Len(Tail(s))
          /\ \A i \in 1 .. Len(<<c>>) + Len(Tail(s)) :
                (<<c>> \o Tail(s))[i] =
                    IF i <= Len(<<c>>) THEN <<c>>[i] ELSE Tail(s)[i - Len(<<c>>)]
        BY <1>1, <1>2, ConcatProperties
    <2> QED
        BY <1>1, <1>2, <2>1
<1> HIDE DEF t
<1>4. Len(t) = Len(s) /\ DOMAIN t = 1 .. Len(s) /\ t # <<>> /\ t[1] = c
    BY <1>1, <1>2, <1>3, CopySeqs
<1>5. Head(t) = c
    BY <1>3, <1>4, CopyTail
<1>6. ASSUME NEW i \in 2 .. Len(s) PROVE t[i] = s[i]
    <2>1. t[i] = Tail(s)[i - 1] /\ i - 1 \in 1 .. Len(s) - 1
        BY <1>1, <1>3
    <2> QED
        BY <1>1, <2>1
<1> QED
    BY <1>1, <1>3, <1>4, <1>5, <1>6 DEF t

\* The parts of the types.
StoreOK ==
    /\ WriterTypeOK /\ RowsToCursor
    /\ common \in Heights \cup {None} /\ common <= cursor
    /\ finalized \in Heights \cup {None} /\ known \in Heights \cup {None}
    /\ rewinding \in BOOLEAN /\ overrun \subseteq Block /\ RewindReady

TableOK ==
    /\ hooks \in [Urls -> HookRow \cup {NoHook}]
    /\ registered \in 0 .. MaxRegistered
    /\ form \subseteq [url : Urls, cursor : Heights \cup {None}]
    /\ clock \in 0 .. MaxClock /\ crashes \in 0 .. MaxCrashes
    /\ received \in [Urls -> SUBSET Block]
    /\ owedFrom \in [Urls -> 0 .. MaxHeight + 1]
    /\ lastGood \in [Urls -> 0 .. MaxClock]
    /\ overtaken \subseteq Urls
    /\ IdsGiven

QueuesOK ==
    /\ queue \in Seq(Copy) /\ more \in Seq(Copy)
    /\ Len(queue) + Len(more) <= Cardinality(Urls)
    /\ IdsOnce

HandOK ==
    /\ phase \in {"wait", "tip", "drain", "post", "mark"}
    /\ upTo \in Heights \cup {None}
    /\ page \in Seq(Block) /\ Len(page) <= PageSize
    /\ resting \subseteq 1 .. MaxRegistered
    /\ blind \in BOOLEAN
    /\ InHand

LEMMA TypeParts == TypeInv <=> StoreOK /\ TableOK /\ QueuesOK /\ HandOK
BY DEF TypeInv, TypeOK, StoreOK, TableOK, QueuesOK, HandOK

LEMMA HookWriter == TypeInv => WriterInv
BY DEF TypeInv, TypeOK, WriterInv

LEMMA StoreKnown ==
    ASSUME TypeInv
    PROVE  /\ MaxHeight \in Nat /\ None = -1
           /\ cursor \in Int /\ cursor >= -1 /\ cursor <= MaxHeight
           /\ common \in Int /\ common >= -1 /\ common <= cursor
           /\ finalized \in Int /\ finalized >= -1 /\ finalized <= MaxHeight
           /\ known \in Int /\ known >= -1 /\ known <= MaxHeight
           /\ upTo \in Int /\ upTo >= -1 /\ upTo <= MaxHeight
<1>1. WriterInv /\ StoreOK /\ HandOK
    BY HookWriter, TypeParts
<1> QED
    BY <1>1, WriterKnown DEF StoreOK, HandOK, Heights, None

\* A row of the table, and what stands for none.
LEMMA HookKnown ==
    ASSUME TypeInv, NEW u \in Urls
    PROVE  /\ hooks[u] \in HookRow \cup {NoHook}
           /\ hooks[u] = NoHook <=> hooks[u].id = 0
           /\ hooks[u] # NoHook => hooks[u].id \in 1 .. MaxRegistered
           /\ hooks[u].id \in Nat
           /\ hooks[u].cursor \in Heights \cup {None}
           /\ hooks[u].cursor \in Int /\ hooks[u].cursor >= -1 /\ hooks[u].cursor <= MaxHeight
           /\ hooks[u].enabled \in BOOLEAN /\ (hooks[u].enabled => hooks[u] # NoHook)
           /\ hooks[u].since \in 0 .. MaxClock \cup {None} /\ hooks[u].since \in Int
<1>1. hooks[u] \in HookRow \cup {NoHook} /\ MaxHeight \in Nat
    BY StoreKnown DEF TypeInv, TypeOK
<1>2. CASE hooks[u] = NoHook
    BY <1>1, <1>2 DEF NoHook, None
<1>3. CASE hooks[u] \in HookRow
    BY <1>1, <1>3 DEF HookRow, NoHook, Heights, None
<1> QED
    BY <1>1, <1>2, <1>3

LEMMA QueueKnown ==
    ASSUME TypeInv
    PROVE  /\ queue \in Seq(Copy) /\ Len(queue) \in Nat /\ DOMAIN queue = 1 .. Len(queue)
           /\ more \in Seq(Copy) /\ Len(more) \in Nat /\ DOMAIN more = 1 .. Len(more)
           /\ \A c \in Copies :
                /\ c \in Copy /\ c.url \in Urls /\ c.id \in 1 .. MaxRegistered
                /\ c.cursor \in Int /\ c.cursor >= -1 /\ c.cursor <= MaxHeight
           /\ queue # <<>> =>
                Head(queue) = queue[1] /\ Head(queue) \in Copies /\ 1 \in DOMAIN queue
           /\ page \in Seq(Block) /\ Len(page) \in Nat /\ DOMAIN page = 1 .. Len(page)
           /\ page # <<>> => Head(page) = page[1] /\ Head(page) \in Block /\ 1 \in DOMAIN page
<1>1. queue \in Seq(Copy) /\ more \in Seq(Copy) /\ page \in Seq(Block) /\ MaxHeight \in Nat
    BY StoreKnown DEF TypeInv, TypeOK
<1>2. /\ Len(queue) \in Nat /\ DOMAIN queue = 1 .. Len(queue)
      /\ Len(more) \in Nat /\ DOMAIN more = 1 .. Len(more)
      /\ Len(page) \in Nat /\ DOMAIN page = 1 .. Len(page)
    BY <1>1, CopySeqs, BlockSeqs
<1>3. ASSUME NEW c \in Copies
      PROVE  /\ c \in Copy /\ c.url \in Urls /\ c.id \in 1 .. MaxRegistered
             /\ c.cursor \in Int /\ c.cursor >= -1 /\ c.cursor <= MaxHeight
    <2>1. c \in Copy
        BY <1>1, <1>2, CopySeqs DEF Copies, ToSet
    <2> QED
        BY <1>1, <2>1 DEF Copy, Heights, None
<1>4. queue # <<>> => Head(queue) = queue[1] /\ Head(queue) \in Copies /\ 1 \in DOMAIN queue
    BY <1>1, <1>2, CopyTail DEF Copies, ToSet
<1>5. page # <<>> => Head(page) = page[1] /\ Head(page) \in Block /\ 1 \in DOMAIN page
    BY <1>1, BlockTail
<1> QED
    BY <1>1, <1>2, <1>3, <1>4, <1>5

-----------------------------------------------------------------------------
(***************************************************************************)
(* The queues.                                                             *)
(***************************************************************************)
\* Copies of different ids in order of id are a queue.
LEMMA QueueInOrder ==
    ASSUME NEW S \in SUBSET Copy, NEW q \in InOrder(S), Cardinality(S) \in Nat
    PROVE  /\ q \in Seq(Copy) /\ Len(q) = Cardinality(S) /\ ToSet(q) \subseteq S
           /\ \A i, j \in DOMAIN q : q[i].id = q[j].id => i = j
<1> DEFINE n == Cardinality(S)
<1>1. n \in Nat /\ q \in [1 .. n -> S] /\ \A i, j \in DOMAIN q : i < j => q[i].id < q[j].id
    BY DEF InOrder, SetToSeqs
<1> HIDE DEF n
<1>2. q \in Seq(Copy) /\ Len(q) = n
    BY <1>1
<1>3. \A i \in DOMAIN q : q[i] \in Copy /\ q[i].id \in Int
    BY <1>1 DEF Copy
<1>4. ASSUME NEW i \in DOMAIN q, NEW j \in DOMAIN q, q[i].id = q[j].id PROVE i = j
    BY <1>1, <1>3, <1>4
<1> QED
    BY <1>1, <1>2, <1>4 DEF ToSet, n

\* The copies after a step: some of those before, and one that stands for the
\* hook that was in hand.
Moved(c) == \A d \in Copies' : (d \in Copies /\ d.id # Head(queue).id) \/ d = c

LEMMA QueueDone ==
    ASSUME TypeInv, queue # <<>>, NEW c \in Copy, c.id = Head(queue).id,
           NEW owed \in BOOLEAN,
           queue' = Tail(queue), more' = IF owed THEN Append(more, c) ELSE more
    PROVE  /\ QueuesOK' /\ Moved(c)
           /\ ~owed => \A d \in Copies' : d \in Copies /\ d.id # Head(queue).id
<1>1. /\ queue \in Seq(Copy) /\ more \in Seq(Copy) /\ Len(more) \in Nat
      /\ DOMAIN more = 1 .. Len(more)
      /\ Len(queue) + Len(more) <= Cardinality(Urls) /\ Cardinality(Urls) \in Nat
    BY QueueKnown, FS_CardinalityType DEF TypeInv, TypeOK
<1>2. /\ Len(queue) \in Nat \ {0} /\ Head(queue) = queue[1]
      /\ queue' \in Seq(Copy) /\ Len(queue') = Len(queue) - 1
      /\ DOMAIN queue = 1 .. Len(queue) /\ DOMAIN queue' = 1 .. Len(queue) - 1
      /\ \A i \in 1 .. Len(queue) - 1 : queue'[i] = queue[i + 1]
    BY <1>1, CopyTail
<1>3. \A i \in DOMAIN queue' : i + 1 \in DOMAIN queue /\ queue'[i] = queue[i + 1] /\ i + 1 # 1
    BY <1>2
<1>4. /\ more' \in Seq(Copy) /\ Len(more') <= Len(more) + 1 /\ Len(more') \in Nat
      /\ \A i \in DOMAIN more' :
            \/ i \in DOMAIN more /\ more'[i] = more[i]
            \/ owed /\ i = Len(more) + 1 /\ more'[i] = c
    <2>1. CASE owed
        <3>1. more' = Append(more, c)
            BY <2>1
        <3>2. /\ more' \in Seq(Copy) /\ Len(more') = Len(more) + 1
              /\ DOMAIN more' = 1 .. Len(more) + 1
              /\ \A i \in 1 .. Len(more) : more'[i] = more[i]
              /\ more'[Len(more) + 1] = c
            BY <1>1, <3>1, CopyAppended
        <3> QED
            BY <1>1, <2>1, <3>2
    <2>2. CASE ~owed
        BY <1>1, <2>2
    <2> QED
        BY <2>1, <2>2
<1>5. /\ \A i, j \in DOMAIN queue : queue[i].id = queue[j].id => i = j
      /\ \A i, j \in DOMAIN more : more[i].id = more[j].id => i = j
      /\ \A i \in DOMAIN queue, j \in DOMAIN more : queue[i].id # more[j].id
      /\ 1 \in DOMAIN queue
    BY <1>2 DEF TypeInv, IdsOnce
<1>6. \A i \in DOMAIN queue' : queue'[i].id # c.id
    BY <1>2, <1>3, <1>5
<1>7. \A i \in DOMAIN more : more[i].id # c.id
    BY <1>2, <1>5
<1>8. IdsOnce'
    <2>1. \A i, j \in DOMAIN queue' : queue'[i].id = queue'[j].id => i = j
        <3> SUFFICES ASSUME NEW i \in DOMAIN queue', NEW j \in DOMAIN queue',
                            queue'[i].id = queue'[j].id
                     PROVE  i = j
            OBVIOUS
        <3>1. i + 1 = j + 1 /\ i \in Nat /\ j \in Nat
            BY <1>2, <1>3, <1>5
        <3> QED
            BY <3>1
    <2>2. \A i, j \in DOMAIN more' : more'[i].id = more'[j].id => i = j
        BY <1>4, <1>5, <1>7
    <2>3. \A i \in DOMAIN queue', j \in DOMAIN more' : queue'[i].id # more'[j].id
        BY <1>3, <1>4, <1>5, <1>6
    <2> QED
        BY <2>1, <2>2, <2>3 DEF IdsOnce
<1>9. Len(queue') + Len(more') <= Cardinality(Urls)
    BY <1>1, <1>2, <1>4
<1>10. ASSUME NEW d \in Copies'
       PROVE  (d \in Copies /\ d.id # Head(queue).id) \/ (owed /\ d = c)
    <2>1. CASE d \in ToSet(queue')
        <3>1. PICK i \in DOMAIN queue' : d = queue'[i]
            BY <2>1 DEF ToSet
        <3> QED
            BY <1>3, <1>6, <3>1 DEF Copies, ToSet
    <2>2. CASE d \in ToSet(more')
        <3>1. PICK i \in DOMAIN more' : d = more'[i]
            BY <2>2 DEF ToSet
        <3> QED
            BY <1>4, <1>7, <3>1 DEF Copies, ToSet
    <2> QED
        BY <1>10, <2>1, <2>2 DEF Copies
<1>11. QueuesOK'
    BY <1>2, <1>4, <1>8, <1>9 DEF QueuesOK
<1> QED
    BY <1>10, <1>11 DEF Moved

LEMMA QueueServed ==
    ASSUME TypeInv, queue # <<>>, NEW c \in Copy, c.id = Head(queue).id,
           queue' = <<c>> \o Tail(queue), more' = more
    PROVE  QueuesOK' /\ Moved(c) /\ Head(queue') = c /\ queue' # <<>>
<1>1. /\ queue \in Seq(Copy) /\ more \in Seq(Copy)
      /\ Len(queue) + Len(more) <= Cardinality(Urls)
      /\ DOMAIN queue = 1 .. Len(queue) /\ Head(queue) = queue[1] /\ 1 \in DOMAIN queue
    BY QueueKnown DEF TypeInv, TypeOK
<1>2. /\ queue' \in Seq(Copy) /\ Len(queue') = Len(queue) /\ DOMAIN queue' = 1 .. Len(queue)
      /\ Len(queue) \in Nat \ {0} /\ queue' # <<>> /\ Head(queue') = c /\ queue'[1] = c
      /\ \A i \in 2 .. Len(queue) : queue'[i] = queue[i]
    BY <1>1, CopyReplaced
<1>3. /\ DOMAIN queue' = DOMAIN queue /\ queue'[1] = c
      /\ \A i \in DOMAIN queue : i # 1 => queue'[i] = queue[i]
    BY <1>1, <1>2
<1>4. /\ \A i, j \in DOMAIN queue : queue[i].id = queue[j].id => i = j
      /\ \A i, j \in DOMAIN more : more[i].id = more[j].id => i = j
      /\ \A i \in DOMAIN queue, j \in DOMAIN more : queue[i].id # more[j].id
    BY DEF TypeInv, IdsOnce
<1>5. \A i \in DOMAIN queue' : queue'[i].id = queue[i].id
    BY <1>1, <1>3
<1>6. IdsOnce'
    <2>0. DOMAIN queue' = DOMAIN queue
        BY <1>3
    <2>1. \A i, j \in DOMAIN queue' : queue'[i].id = queue'[j].id => i = j
        BY <1>4, <1>5, <2>0
    <2>2. \A i \in DOMAIN queue', j \in DOMAIN more' : queue'[i].id # more'[j].id
        BY <1>4, <1>5, <2>0
    <2> QED
        BY <1>4, <2>1, <2>2 DEF IdsOnce
<1>7. ASSUME NEW d \in Copies' PROVE (d \in Copies /\ d.id # Head(queue).id) \/ d = c
    <2>1. CASE d \in ToSet(queue')
        <3>1. PICK i \in DOMAIN queue' : d = queue'[i]
            BY <2>1 DEF ToSet
        <3> QED
            BY <1>1, <1>3, <1>4, <3>1 DEF Copies, ToSet
    <2>2. CASE d \in ToSet(more')
        BY <1>1, <1>4, <2>2 DEF Copies, ToSet
    <2> QED
        BY <1>7, <2>1, <2>2 DEF Copies
<1> QED
    BY <1>1, <1>2, <1>6, <1>7 DEF QueuesOK, Moved

\* A wake takes a copy of every enabled hook, in order.
LEMMA QueueFresh ==
    ASSUME TypeInv, Wake
    PROVE  /\ QueuesOK'
           /\ \A d \in Copies' : \E u \in Urls :
                d.url = u /\ d.id = hooks[u].id /\ d.cursor = hooks[u].cursor /\ hooks[u].enabled
<1> DEFINE copy(u) == [url |-> u, id |-> hooks[u].id, cursor |-> hooks[u].cursor]
           S       == {copy(u) : u \in Enabled}
<1>1. queue' \in InOrder(S) /\ more' = more /\ more = <<>>
    BY DEF Wake, TypeInv, InHand
<1>2. S \in SUBSET Copy
    <2> SUFFICES ASSUME NEW u \in Enabled PROVE copy(u) \in Copy
        OBVIOUS
    <2>1. u \in Urls /\ hooks[u].enabled
        BY DEF Enabled
    <2> QED
        BY <2>1, HookKnown DEF Copy
<1>3. /\ IsFiniteSet(Enabled) /\ Cardinality(Enabled) <= Cardinality(Urls)
      /\ Cardinality(Urls) \in Nat /\ Cardinality(Enabled) \in Nat
    <2>1. Enabled \in SUBSET Urls
        BY DEF Enabled
    <2> QED
        BY <2>1, FS_Subset, FS_CardinalityType
<1>4. IsFiniteSet(S) /\ Cardinality(S) <= Cardinality(Enabled)
    <2> DEFINE f == [u \in Enabled |-> copy(u)]
    <2>1. f \in Surjection(Enabled, S)
        BY DEF Surjection
    <2> HIDE DEF f, S
    <2> QED
        BY <1>3, <2>1, FS_Surjection
<1>5. Cardinality(S) \in Nat
    BY <1>4, FS_CardinalityType
<1> HIDE DEF S
<1>6. /\ queue' \in Seq(Copy) /\ Len(queue') = Cardinality(S) /\ ToSet(queue') \subseteq S
      /\ \A i, j \in DOMAIN queue' : queue'[i].id = queue'[j].id => i = j
    BY <1>1, <1>2, <1>5, QueueInOrder
<1>7. more' = <<>> /\ more' \in Seq(Copy) /\ Len(more') = 0 /\ DOMAIN more' = {}
    BY <1>1, CopySeqs
<1>8. QueuesOK'
    <2>1. Len(queue') + Len(more') <= Cardinality(Urls)
        BY <1>3, <1>4, <1>5, <1>6, <1>7
    <2> QED
        BY <1>6, <1>7, <2>1 DEF QueuesOK, IdsOnce
<1>9. Copies' \subseteq S
    BY <1>6, <1>7 DEF Copies, ToSet
<1> QED
    BY <1>8, <1>9 DEF S, Enabled

\* Of those it keeps the ones that are behind.
LEMMA QueueRead ==
    ASSUME TypeInv, ReadTip
    PROVE  /\ QueuesOK' /\ Copies' \subseteq Copies
           /\ \A d \in ToSet(queue') : d.cursor < Deliverable(cursor, known)
<1> DEFINE S == {c \in ToSet(queue) : c.cursor < Deliverable(cursor, known) /\ c.id \notin resting}
<1>1. queue' \in InOrder(S) /\ more' = more /\ more = <<>>
    BY DEF ReadTip, TypeInv, InHand
<1>2. /\ S \in SUBSET Copy /\ S \in SUBSET ToSet(queue)
      /\ Len(queue) \in Nat /\ DOMAIN queue = 1 .. Len(queue) /\ Len(more) \in Nat
      /\ Len(queue) + Len(more) <= Cardinality(Urls) /\ Cardinality(Urls) \in Nat
    <2>1. S \in SUBSET ToSet(queue) /\ ToSet(queue) \in SUBSET Copy
        BY QueueKnown DEF Copies
    <2> HIDE DEF S
    <2> QED
        BY <2>1, QueueKnown, FS_CardinalityType DEF TypeInv, TypeOK
<1>3. IsFiniteSet(ToSet(queue)) /\ Cardinality(ToSet(queue)) <= Len(queue)
    <2>1. queue \in Surjection(1 .. Len(queue), ToSet(queue))
        <3>1. queue \in [1 .. Len(queue) -> ToSet(queue)]
            BY <1>2, QueueKnown DEF ToSet
        <3> QED
            BY <1>2, <3>1 DEF Surjection, ToSet
    <2>2. IsFiniteSet(1 .. Len(queue)) /\ Cardinality(1 .. Len(queue)) = Len(queue)
        <3>1. \A n \in Nat : Cardinality(1 .. n) = n /\ IsFiniteSet(1 .. n)
            BY FS_Interval
        <3> QED
            BY <1>2, <3>1
    <2> QED
        BY <2>1, <2>2, FS_Surjection
<1> HIDE DEF S
<1>4. IsFiniteSet(S) /\ Cardinality(S) <= Cardinality(ToSet(queue))
    BY <1>2, <1>3, FS_Subset
<1>5. Cardinality(S) \in Nat /\ Cardinality(ToSet(queue)) \in Nat
    BY <1>3, <1>4, FS_CardinalityType
<1>6. /\ queue' \in Seq(Copy) /\ Len(queue') = Cardinality(S) /\ ToSet(queue') \subseteq S
      /\ \A i, j \in DOMAIN queue' : queue'[i].id = queue'[j].id => i = j
    BY <1>1, <1>2, <1>5, QueueInOrder
<1>7. more' = <<>> /\ more' \in Seq(Copy) /\ Len(more') = 0 /\ DOMAIN more' = {}
    BY <1>1, CopySeqs
<1>8. QueuesOK'
    <2>1. Len(queue') + Len(more') <= Cardinality(Urls)
        BY <1>2, <1>3, <1>4, <1>5, <1>6, <1>7
    <2> QED
        BY <1>6, <1>7, <2>1 DEF QueuesOK, IdsOnce
<1>9. Copies' \subseteq S
    BY <1>6, <1>7 DEF Copies, ToSet
<1> QED
    BY <1>2, <1>6, <1>8, <1>9 DEF S, Copies

\* The next round, and nothing.
LEMMA QueueTurned ==
    ASSUME TypeInv, queue' \in {more, <<>>}, more' = <<>>
    PROVE  QueuesOK' /\ Copies' \subseteq Copies
<1>1. /\ queue \in Seq(Copy) /\ more \in Seq(Copy) /\ Len(queue) \in Nat /\ Len(more) \in Nat
      /\ Len(queue) + Len(more) <= Cardinality(Urls) /\ Cardinality(Urls) \in Nat
    BY QueueKnown, FS_CardinalityType DEF TypeInv, TypeOK
<1>2. more' \in Seq(Copy) /\ Len(more') = 0 /\ DOMAIN more' = {}
    BY CopySeqs
<1>3. /\ queue' \in Seq(Copy) /\ Len(queue') <= Cardinality(Urls) /\ Len(queue') \in Nat
      /\ queue' = more \/ DOMAIN queue' = {}
    <2>1. CASE queue' = more
        BY <1>1, <2>1
    <2>2. CASE queue' = <<>>
        BY <1>1, <2>2, CopySeqs
    <2> QED
        BY <2>1, <2>2
<1>4. IdsOnce'
    BY <1>2, <1>3 DEF TypeInv, IdsOnce
<1>5. Copies' \subseteq Copies
    BY <1>2, <1>3 DEF Copies, ToSet
<1> QED
    BY <1>1, <1>2, <1>3, <1>4, <1>5 DEF QueuesOK

\* Every step keeps the queues what they are.
LEMMA QueuesSame ==
    ASSUME TypeInv, UNCHANGED <<queue, more>>
    PROVE  QueuesOK' /\ Copies' = Copies
BY TypeParts DEF QueuesOK, IdsOnce, Copies, ToSet

-----------------------------------------------------------------------------
(***************************************************************************)
(* What a delivery and a failure do.                                       *)
(***************************************************************************)
\* The row that records the delivery of the block in hand.
Hit(u) ==
    /\ hooks[u] # NoHook /\ hooks[u].id = Head(queue).id
    /\ rows[Head(page).height] = Head(page)

Served == [Head(queue) EXCEPT !.cursor = Head(page).height]

LEMMA MarkKnown ==
    ASSUME TypeInv, MarkDelivered
    PROVE  /\ phase = "mark" /\ queue # <<>> /\ page # <<>>
           /\ Head(page) \in Block /\ Served \in Copy /\ Served.id = Head(queue).id
           /\ Served.url = Head(queue).url /\ Served.cursor = Head(page).height
           /\ \A u \in Urls :
                /\ hooks'[u].id = hooks[u].id /\ hooks'[u].enabled = hooks[u].enabled
                /\ hooks'[u] = NoHook <=> hooks[u] = NoHook
                /\ IF Hit(u)
                   THEN /\ hooks'[u].cursor = Head(page).height /\ hooks'[u].since = None
                        /\ lastGood'[u] = clock
                   ELSE hooks'[u] = hooks[u] /\ lastGood'[u] = lastGood[u]
           /\ hooks' \in [Urls -> HookRow \cup {NoHook}] /\ lastGood' \in [Urls -> 0 .. MaxClock]
           /\ QueuesOK' /\ HandOK' /\ Moved(Served)
           /\ (\E u \in Urls : Hit(u)) \/ \A d \in Copies' : d \in Copies /\ d.id # Head(queue).id
           /\ page' = <<>> \/ (page' = Tail(page) /\ Head(queue') = Served)
           /\ phase' # "mark"
<1>1. /\ phase = "mark" /\ queue # <<>> /\ page # <<>> /\ Head(page) \in Block
      /\ Head(queue) \in Copy /\ HandOK /\ TableOK /\ page \in Seq(Block) /\ QueuesOK
    BY QueueKnown, TypeParts DEF MarkDelivered, TypeInv, InHand
<1>2. /\ Served \in Copy /\ Served.id = Head(queue).id /\ Served.url = Head(queue).url
      /\ Served.cursor = Head(page).height /\ Head(page).height \in Heights
    BY <1>1 DEF Served, Copy, Block
<1> DEFINE hit == {u \in HookOf(Head(queue)) : StillOwed(hooks[u], Head(page))}
<1>3. \A u \in Urls : u \in hit <=> Hit(u)
    BY DEF HookOf, StillOwed, Hit
<1>4. /\ hooks' = [u \in Urls |-> IF u \in hit THEN SetDelivered(hooks[u], Head(page))
                                               ELSE hooks[u]]
      /\ lastGood' = [u \in Urls |-> IF u \in hit THEN clock ELSE lastGood[u]]
      /\ \/ hit = {} /\ Done(Head(queue), FALSE)
         \/ hit # {} /\ Len(page) = 1 /\ Done(Served, Head(page).height < upTo)
         \/ /\ hit # {} /\ Len(page) > 1
            /\ queue' = <<Served>> \o Tail(queue)
            /\ page' = Tail(page) /\ phase' = "post"
            /\ UNCHANGED <<more, resting>>
      /\ UNCHANGED <<upTo, blind>>
    BY DEF MarkDelivered, Served
<1>5. ASSUME NEW u \in Urls
      PROVE  /\ hooks'[u].id = hooks[u].id /\ hooks'[u].enabled = hooks[u].enabled
             /\ hooks'[u] = NoHook <=> hooks[u] = NoHook
             /\ hooks'[u] \in HookRow \cup {NoHook} /\ lastGood'[u] \in 0 .. MaxClock
             /\ IF Hit(u)
                THEN /\ hooks'[u].cursor = Head(page).height /\ hooks'[u].since = None
                     /\ lastGood'[u] = clock
                ELSE hooks'[u] = hooks[u] /\ lastGood'[u] = lastGood[u]
    <2>1. CASE Hit(u)
        <3>1. hooks'[u] = [hooks[u] EXCEPT !.cursor = Head(page).height, !.since = None]
            BY <1>3, <1>4, <2>1 DEF SetDelivered
        <3>2. hooks[u] \in HookRow
            BY <2>1, HookKnown DEF Hit
        <3>3. /\ hooks'[u] \in HookRow /\ hooks'[u].id = hooks[u].id
              /\ hooks'[u].enabled = hooks[u].enabled
              /\ hooks'[u].cursor = Head(page).height /\ hooks'[u].since = None
            BY <1>2, <3>1, <3>2 DEF HookRow
        <3>4. hooks'[u] # NoHook /\ hooks[u] # NoHook
            BY <3>2, <3>3 DEF HookRow, NoHook
        <3>5. lastGood'[u] = clock /\ clock \in 0 .. MaxClock
            BY <1>1, <1>3, <1>4, <2>1 DEF TableOK
        <3> QED
            BY <2>1, <3>3, <3>4, <3>5
    <2>2. CASE ~Hit(u)
        BY <1>1, <1>3, <1>4, <2>2 DEF TableOK
    <2> QED
        BY <2>1, <2>2
<1>6. hooks' \in [Urls -> HookRow \cup {NoHook}] /\ lastGood' \in [Urls -> 0 .. MaxClock]
    <2>1. DOMAIN hooks' = Urls /\ hooks' = [u \in Urls |-> hooks'[u]]
        BY <1>4
    <2>2. DOMAIN lastGood' = Urls /\ lastGood' = [u \in Urls |-> lastGood'[u]]
        BY <1>4
    <2> QED
        BY <1>5, <2>1, <2>2
<1> HIDE DEF hit
<1>7. ASSUME NEW c \in Copy, c.id = Head(queue).id, NEW owed \in BOOLEAN, Done(c, owed)
      PROVE  /\ QueuesOK' /\ Moved(c) /\ HandOK' /\ page' = <<>> /\ phase' # "mark"
             /\ ~owed => \A d \in Copies' : d \in Copies /\ d.id # Head(queue).id
    <2>1. /\ queue' = Tail(queue) /\ more' = (IF owed THEN Append(more, c) ELSE more)
          /\ page' = <<>> /\ phase' = "drain" /\ resting' = resting \ {c.id}
        BY <1>7 DEF Done
    <2>2. /\ QueuesOK' /\ Moved(c)
          /\ ~owed => \A d \in Copies' : d \in Copies /\ d.id # Head(queue).id
        BY <1>1, <1>7, <2>1, QueueDone
    <2>3. page' \in Seq(Block) /\ Len(page') <= PageSize
        BY <2>1, BlockSeqs
    <2> QED
        BY <1>1, <1>4, <2>1, <2>2, <2>3 DEF HandOK, InHand
<1> DEFINE Dispatched ==
            /\ QueuesOK' /\ HandOK' /\ Moved(Served)
            /\ (\E u \in Urls : Hit(u)) \/ \A d \in Copies' : d \in Copies /\ d.id # Head(queue).id
            /\ page' = <<>> \/ (page' = Tail(page) /\ Head(queue') = Served)
            /\ phase' # "mark"
<1>8. ASSUME hit = {}, Done(Head(queue), FALSE) PROVE Dispatched
    <2>1. QueuesOK' /\ HandOK' /\ page' = <<>> /\ phase' # "mark"
          /\ \A d \in Copies' : d \in Copies /\ d.id # Head(queue).id
        <3>1. \A d \in Copies' : d \in Copies /\ d.id # Head(queue).id
            BY <1>1, <1>7, <1>8
        <3>2. QueuesOK' /\ HandOK' /\ page' = <<>> /\ phase' # "mark"
            BY <1>1, <1>7, <1>8
        <3> QED
            BY <3>1, <3>2
    <2> QED
        BY <2>1 DEF Moved
<1>9. ASSUME hit # {}, Done(Served, Head(page).height < upTo) PROVE Dispatched
    <2>1. (Head(page).height < upTo) \in BOOLEAN
        OBVIOUS
    <2>2. QueuesOK' /\ Moved(Served) /\ HandOK' /\ page' = <<>> /\ phase' # "mark"
        BY <1>2, <1>7, <1>9, <2>1
    <2>3. \E u \in Urls : Hit(u)
        BY <1>3, <1>9 DEF hit, HookOf
    <2> QED
        BY <2>2, <2>3
<1>10. ASSUME hit # {}, Len(page) > 1, queue' = <<Served>> \o Tail(queue),
              page' = Tail(page), phase' = "post", UNCHANGED <<more, resting>>
       PROVE  Dispatched
    <2>1. QueuesOK' /\ Moved(Served) /\ Head(queue') = Served /\ queue' # <<>>
        BY <1>1, <1>2, <1>10, QueueServed
    <2>2. page' \in Seq(Block) /\ Len(page') <= PageSize /\ page' # <<>>
        <3>1. page' \in Seq(Block) /\ Len(page') = Len(page) - 1 /\ Len(page) \in Nat
            BY <1>1, <1>10, BlockTail
        <3>2. page' # <<>>
            <4>1. Len(page') # 0
                BY <1>10, <3>1
            <4> QED
                BY <3>1, <4>1, BlockSeqs
        <3> QED
            BY <1>1, <3>1, <3>2 DEF HandOK
    <2>3. HandOK'
        BY <1>1, <1>4, <1>10, <2>1, <2>2 DEF HandOK, InHand
    <2>4. \E u \in Urls : Hit(u)
        BY <1>3, <1>10 DEF hit, HookOf
    <2> QED
        BY <1>10, <2>1, <2>3, <2>4
<1>11. Dispatched
    BY <1>4, <1>8, <1>9, <1>10
<1> QED
    BY <1>1, <1>2, <1>5, <1>6, <1>11

LEMMA FailKnown ==
    ASSUME TypeInv, Fail
    PROVE  /\ queue # <<>>
           /\ \A u \in Urls :
                /\ hooks'[u].id = hooks[u].id /\ hooks'[u].cursor = hooks[u].cursor
                /\ hooks'[u] = NoHook <=> hooks[u] = NoHook
                /\ \/ hooks'[u] = hooks[u]
                   \/ /\ hooks[u] # NoHook /\ hooks[u].id = Head(queue).id
                      /\ hooks'[u].since = IF hooks[u].since = None THEN clock
                                                                    ELSE hooks[u].since
                      /\ hooks'[u].enabled = (hooks'[u].since > clock - MaxFailing)
           /\ hooks' \in [Urls -> HookRow \cup {NoHook}]
           /\ QueuesOK' /\ HandOK' /\ page' = <<>> /\ phase' = "drain"
           /\ \A d \in Copies' : d \in Copies /\ d.id # Head(queue).id
<1>1. /\ queue # <<>> /\ queue' = Tail(queue) /\ more' = more /\ page' = <<>> /\ phase' = "drain"
      /\ resting' = resting \cup {Head(queue).id} /\ UNCHANGED <<upTo, blind>>
      /\ Head(queue) \in Copy /\ Head(queue).id \in 1 .. MaxRegistered
      /\ HandOK /\ TableOK
    BY QueueKnown, TypeParts DEF Fail, PutBy
<1>2. QueuesOK' /\ \A d \in Copies' : d \in Copies /\ d.id # Head(queue).id
    <2>1. more' = IF FALSE THEN Append(more, Head(queue)) ELSE more
        BY <1>1
    <2>2. /\ QueuesOK'
          /\ ~FALSE => \A d \in Copies' : d \in Copies /\ d.id # Head(queue).id
        BY <1>1, <2>1, QueueDone
    <2> QED
        BY <2>2
<1>3. HandOK'
    <2>1. page' \in Seq(Block) /\ Len(page') <= PageSize
        BY <1>1, BlockSeqs
    <2> QED
        BY <1>1, <2>1 DEF HandOK, InHand
<1>4. ASSUME NEW u \in Urls
      PROVE  /\ hooks'[u] \in HookRow \cup {NoHook}
             /\ hooks'[u].id = hooks[u].id /\ hooks'[u].cursor = hooks[u].cursor
             /\ hooks'[u] = NoHook <=> hooks[u] = NoHook
             /\ \/ hooks'[u] = hooks[u]
                \/ /\ hooks[u] # NoHook /\ hooks[u].id = Head(queue).id
                   /\ hooks'[u].since = IF hooks[u].since = None THEN clock
                                                                 ELSE hooks[u].since
                   /\ hooks'[u].enabled = (hooks'[u].since > clock - MaxFailing)
    <2>1. CASE hooks'[u] = hooks[u]
        BY <2>1, HookKnown
    <2>2. CASE hooks'[u] # hooks[u]
        <3>1. /\ hooks[u] # NoHook /\ hooks[u].id = Head(queue).id
              /\ hooks'[u] = Failed(hooks[u])
            BY <2>2 DEF Fail, HookOf
        <3> DEFINE since == IF hooks[u].since = None THEN clock ELSE hooks[u].since
                   enabled == since > clock - MaxFailing
        <3>2. hooks[u] \in HookRow /\ hooks'[u] = [hooks[u] EXCEPT !.since = since, !.enabled = enabled]
            BY <3>1, HookKnown DEF Failed
        <3>3. since \in 0 .. MaxClock \cup {None} /\ enabled \in BOOLEAN
            BY <1>1, HookKnown DEF TableOK
        <3> HIDE DEF since, enabled
        <3>4. /\ hooks'[u] \in HookRow /\ hooks'[u].id = hooks[u].id
              /\ hooks'[u].cursor = hooks[u].cursor
              /\ hooks'[u].since = since /\ hooks'[u].enabled = enabled
            BY <3>2, <3>3 DEF HookRow
        <3>5. hooks'[u] # NoHook
            BY <3>4 DEF HookRow, NoHook
        <3> QED
            BY <3>1, <3>4, <3>5 DEF since, enabled
    <2> QED
        BY <2>1, <2>2
<1>5. hooks' \in [Urls -> HookRow \cup {NoHook}]
    <2>1. DOMAIN hooks' = Urls /\ hooks' = [u \in Urls |-> hooks'[u]]
        BY <1>1 DEF Fail, TableOK
    <2> QED
        BY <1>4, <2>1
<1> QED
    BY <1>1, <1>2, <1>3, <1>4, <1>5

-----------------------------------------------------------------------------
(***************************************************************************)
(* What the index task and the registrations do to the table.              *)
(***************************************************************************)
LEMMA RollbackKnown ==
    ASSUME TypeInv, Rollback
    PROVE  /\ StoreOK' /\ cursor' = cursor - 1 /\ cursor > 0
           /\ rewinding /\ ~rewinding' /\ UNCHANGED <<finalized, known, overrun>>
           /\ \A h \in Heights : h <= cursor' => rows'[h] = rows[h]
           /\ \A u \in Urls :
                /\ hooks'[u].id = hooks[u].id /\ hooks'[u].enabled = hooks[u].enabled
                /\ hooks'[u].since = hooks[u].since
                /\ hooks'[u] = NoHook <=> hooks[u] = NoHook
                /\ hooks[u] # NoHook => hooks'[u].cursor = Smaller(hooks[u].cursor, cursor')
                /\ owedFrom'[u] = Smaller(owedFrom[u], cursor' + 1)
           /\ hooks' \in [Urls -> HookRow \cup {NoHook}]
           /\ owedFrom' \in [Urls -> 0 .. MaxHeight + 1]
<1>1. /\ WriterInv /\ Unstore /\ branch' \in Hashes /\ common < cursor
      /\ UNCHANGED <<common, finalized, overrun, known>> /\ StoreOK /\ TableOK
      /\ rewinding /\ rewinding' = FALSE
    BY HookWriter, WriterKnown, TypeParts DEF Rollback, StoreOK, RewindReady, envVars
<1>2. /\ WriterInv' /\ cursor' = cursor - 1 /\ cursor > 0
      /\ \A h \in Heights : h < cursor => rows'[h] = rows[h]
    BY <1>1, UnstoreRetracts
<1>3. cursor \in Int /\ common \in Int /\ cursor <= MaxHeight /\ cursor' \in Heights /\ MaxHeight \in Nat
    BY <1>2, StoreKnown DEF Heights
<1>4. StoreOK'
    <2>1. common' <= cursor' /\ RewindReady'
        BY <1>1, <1>2, <1>3 DEF RewindReady
    <2>2. WriterTypeOK' /\ RowsToCursor'
        BY <1>2 DEF WriterInv
    <2> QED
        BY <1>1, <2>1, <2>2 DEF StoreOK
<1>5. /\ hooks' = [u \in Urls |->
                    [hooks[u] EXCEPT !.cursor = IF hooks[u] = NoHook THEN hooks[u].cursor
                                                ELSE Smaller(hooks[u].cursor, cursor')]]
      /\ owedFrom' = [u \in Urls |-> Smaller(owedFrom[u], cursor' + 1)]
    BY DEF Rollback, HooksRewound
<1>6. ASSUME NEW u \in Urls
      PROVE  /\ hooks'[u].id = hooks[u].id /\ hooks'[u].enabled = hooks[u].enabled
             /\ hooks'[u].since = hooks[u].since
             /\ hooks'[u] = NoHook <=> hooks[u] = NoHook
             /\ hooks[u] # NoHook => hooks'[u].cursor = Smaller(hooks[u].cursor, cursor')
             /\ hooks'[u] \in HookRow \cup {NoHook}
             /\ owedFrom'[u] \in 0 .. MaxHeight + 1
    <2>1. owedFrom'[u] \in 0 .. MaxHeight + 1
        BY <1>1, <1>3, <1>5 DEF TableOK, Smaller, Heights
    <2>2. CASE hooks[u] = NoHook
        <3>1. hooks'[u] = [NoHook EXCEPT !.cursor = NoHook.cursor]
            BY <1>5, <2>2
        <3>2. hooks'[u] = NoHook
            BY <3>1 DEF NoHook
        <3> QED
            BY <2>1, <2>2, <3>2
    <2>3. CASE hooks[u] # NoHook
        <3>1. hooks[u] \in HookRow /\ hooks[u].cursor \in Int
              /\ hooks[u].cursor \in Heights \cup {None}
            BY <2>3, HookKnown
        <3>2. hooks'[u] = [hooks[u] EXCEPT !.cursor = Smaller(hooks[u].cursor, cursor')]
            BY <1>5, <2>3
        <3>3. Smaller(hooks[u].cursor, cursor') \in Heights \cup {None}
            BY <1>3, <3>1 DEF Smaller
        <3>4. /\ hooks'[u] \in HookRow /\ hooks'[u].id = hooks[u].id
              /\ hooks'[u].enabled = hooks[u].enabled /\ hooks'[u].since = hooks[u].since
              /\ hooks'[u].cursor = Smaller(hooks[u].cursor, cursor')
            BY <3>1, <3>2, <3>3 DEF HookRow
        <3>5. hooks'[u] # NoHook
            BY <3>4 DEF HookRow, NoHook
        <3> QED
            BY <2>1, <2>3, <3>4, <3>5
    <2> QED
        BY <2>2, <2>3
<1>7. hooks' \in [Urls -> HookRow \cup {NoHook}] /\ owedFrom' \in [Urls -> 0 .. MaxHeight + 1]
    <2>1. /\ DOMAIN hooks' = Urls /\ hooks' = [u \in Urls |-> hooks'[u]]
          /\ DOMAIN owedFrom' = Urls /\ owedFrom' = [u \in Urls |-> owedFrom'[u]]
        BY <1>5
    <2> QED
        BY <1>6, <2>1
<1>8. \A h \in Heights : h <= cursor' => rows'[h] = rows[h]
    BY <1>2, <1>3 DEF Heights
<1> QED
    BY <1>1, <1>2, <1>4, <1>5, <1>6, <1>7, <1>8

LEMMA CommitKnown ==
    ASSUME TypeInv, Commit
    PROVE  /\ StoreOK' /\ cursor' > cursor
           /\ ~rewinding' /\ UNCHANGED <<finalized, known, overrun>>
           /\ \A h \in Heights : h <= cursor => rows'[h] = rows[h]
<1>1. PICK n \in 1 .. Smaller(MaxBatch, MaxHeight - cursor) : Store(BlocksAbove(n))
    BY DEF Commit
<1>2. WriterInv /\ branch' \in Hashes /\ StoreOK
      /\ ~rewinding /\ UNCHANGED <<finalized, rewinding, overrun, known>>
    BY HookWriter, WriterKnown, TypeParts DEF Commit, envVars
<1>3. /\ WriterInv' /\ cursor' = cursor + n
      /\ \A h \in Heights :
            rows'[h] = IF cursor < h /\ h <= cursor + n THEN BlocksAbove(n)[h - cursor]
                                                       ELSE rows[h]
    BY <1>1, <1>2, StoreGrows
<1>4. n \in Nat \ {0} /\ cursor + n \in Heights /\ cursor \in Int
    BY <1>1, <1>2, BatchAbove, WriterKnown
<1>5. StoreOK'
    <2>1. common' = cursor' /\ cursor' \in Heights /\ cursor' <= cursor'
        BY <1>3, <1>4 DEF Commit, Heights
    <2> QED
        BY <1>2, <1>3, <2>1 DEF StoreOK, WriterInv, RewindReady
<1> QED
    BY <1>2, <1>3, <1>4, <1>5 DEF Heights

\* The row a registration writes: of the id its url has, or of a new one.
LEMMA RegisterKnown ==
    ASSUME TypeInv, RegisterWrites
    PROVE  \E u \in Urls :
           /\ hooks'[u] \in HookRow /\ hooks'[u] # NoHook
           /\ hooks'[u].id = IF hooks[u] = NoHook THEN registered + 1 ELSE hooks[u].id
           /\ hooks'[u].enabled = TRUE /\ hooks'[u].since = None
           /\ \A v \in Urls \ {u} : /\ hooks'[v] = hooks[v] /\ received'[v] = received[v]
                                    /\ owedFrom'[v] = owedFrom[v] /\ lastGood'[v] = lastGood[v]
           /\ owedFrom'[u] = hooks'[u].cursor + 1 /\ lastGood'[u] = clock
           /\ received'[u] = {}
           /\ registered' = registered + 1 /\ form' = NoForm
           /\ overtaken' = IF u \in Ahead(None - 1) THEN overtaken \cup {u} ELSE overtaken \ {u}
           /\ TableOK'
           /\ UNCHANGED <<writerVars, chainVars, dispatchVars, envVars>>
<1>1. PICK f \in form :
        LET u  == f.url
            id == IF hooks[u] = NoHook THEN registered + 1 ELSE hooks[u].id
        IN  /\ hooks' = [hooks EXCEPT ![u] = [id |-> id, cursor |-> f.cursor,
                                              enabled |-> TRUE, since |-> None]]
            /\ registered' = registered + 1
            /\ form' = NoForm
            /\ received' = [received EXCEPT ![u] = {}]
            /\ owedFrom' = [owedFrom EXCEPT ![u] = f.cursor + 1]
            /\ lastGood' = [lastGood EXCEPT ![u] = clock]
            /\ overtaken' = IF u \in Ahead(None - 1) THEN overtaken \cup {u} ELSE overtaken \ {u}
            /\ UNCHANGED <<writerVars, chainVars, dispatchVars, envVars>>
    BY DEF RegisterWrites
<1>2. TableOK /\ IdsGiven /\ form # NoForm /\ MaxRegistered \in Nat /\ MaxHeight \in Nat
    BY TypeParts DEF TableOK, NoForm
<1> DEFINE u   == f.url
           id  == IF hooks[u] = NoHook THEN registered + 1 ELSE hooks[u].id
           row == [id |-> id, cursor |-> f.cursor, enabled |-> TRUE, since |-> None]
<1>3. u \in Urls /\ f.cursor \in Heights \cup {None} /\ f.cursor + 1 \in 0 .. MaxHeight + 1
    BY <1>2 DEF TableOK, Heights, None
<1>4. registered + 1 \in 1 .. MaxRegistered /\ registered \in Nat
    BY <1>2 DEF TableOK, IdsGiven
<1>5. id \in 1 .. MaxRegistered /\ id <= registered + 1
      /\ \A v \in Urls \ {u} : hooks[v].id # id
    <2>1. CASE hooks[u] = NoHook
        <3>1. \A v \in Urls : hooks[v].id <= registered /\ hooks[v].id \in Nat
            BY <1>2, HookKnown DEF IdsGiven
        <3> QED
            BY <1>4, <2>1, <3>1
    <2>2. CASE hooks[u] # NoHook
        <3>1. id = hooks[u].id /\ hooks[u].id \in 1 .. MaxRegistered /\ hooks[u].id <= registered
            BY <1>2, <1>3, <2>2, HookKnown DEF IdsGiven
        <3>2. \A v \in Urls \ {u} : hooks[v].id # id
            BY <1>2, <1>3, <2>2, <3>1 DEF IdsGiven
        <3> QED
            BY <1>4, <3>1, <3>2
    <2> QED
        BY <2>1, <2>2
<1> HIDE DEF id
<1>6. /\ row \in HookRow /\ row.id = id /\ row.cursor = f.cursor /\ row.enabled = TRUE
      /\ row.since = None /\ row # NoHook
    BY <1>3, <1>5 DEF HookRow, NoHook
<1> HIDE DEF row
<1>7. /\ hooks' = [hooks EXCEPT ![u] = row] /\ registered' = registered + 1 /\ form' = NoForm
      /\ received' = [received EXCEPT ![u] = {}]
      /\ owedFrom' = [owedFrom EXCEPT ![u] = f.cursor + 1]
      /\ lastGood' = [lastGood EXCEPT ![u] = clock]
      /\ overtaken' = IF u \in Ahead(None - 1) THEN overtaken \cup {u} ELSE overtaken \ {u}
      /\ UNCHANGED <<writerVars, chainVars, dispatchVars, envVars>>
    BY <1>1 DEF row, id
<1> HIDE DEF u
<1>8. /\ hooks'[u] = row /\ received'[u] = {} /\ owedFrom'[u] = f.cursor + 1 /\ lastGood'[u] = clock
      /\ \A v \in Urls \ {u} : /\ hooks'[v] = hooks[v] /\ received'[v] = received[v]
                               /\ owedFrom'[v] = owedFrom[v] /\ lastGood'[v] = lastGood[v]
    BY <1>2, <1>3, <1>7 DEF TableOK
<1>9. /\ hooks' \in [Urls -> HookRow \cup {NoHook}] /\ received' \in [Urls -> SUBSET Block]
      /\ owedFrom' \in [Urls -> 0 .. MaxHeight + 1] /\ lastGood' \in [Urls -> 0 .. MaxClock]
    BY <1>2, <1>3, <1>6, <1>7 DEF TableOK
<1>10. IdsGiven'
    <2>1. \A v \in Urls : hooks'[v].id <= registered'
        <3> SUFFICES ASSUME NEW v \in Urls PROVE hooks'[v].id <= registered + 1
            BY <1>7
        <3>1. CASE v = u
            BY <1>5, <1>6, <1>8, <3>1
        <3>2. CASE v # u
            <4>1. hooks[v].id <= registered /\ hooks[v].id \in Nat
                BY <1>2, HookKnown DEF IdsGiven
            <4> QED
                BY <1>4, <1>8, <3>2, <4>1
        <3> QED
            BY <3>1, <3>2
    <2>2. ASSUME NEW v \in Urls, NEW w \in Urls, hooks'[v] # NoHook, hooks'[v].id = hooks'[w].id
          PROVE  v = w
        <3>1. CASE v = u \/ w = u
            BY <1>3, <1>5, <1>6, <1>8, <2>2, <3>1
        <3>2. CASE v # u /\ w # u
            BY <1>2, <1>8, <2>2, <3>2 DEF IdsGiven
        <3> QED
            BY <3>1, <3>2
    <2> QED
        BY <1>7, <2>1, <2>2 DEF IdsGiven
<1>11. TableOK'
    BY <1>2, <1>3, <1>4, <1>7, <1>9, <1>10 DEF TableOK, NoForm, envVars
<1>12. hooks'[u].id = IF hooks[u] = NoHook THEN registered + 1 ELSE hooks[u].id
    BY <1>6, <1>8 DEF id
<1>13. /\ hooks'[u] \in HookRow /\ hooks'[u] # NoHook /\ hooks'[u].enabled = TRUE
       /\ hooks'[u].since = None /\ owedFrom'[u] = hooks'[u].cursor + 1
    BY <1>6, <1>8
<1> USE <1>3
<1> WITNESS u \in Urls
<1> QED
    BY <1>7, <1>8, <1>11, <1>12, <1>13

LEMMA UnregisterKnown ==
    ASSUME TypeInv, Unregister
    PROVE  \E u \in Urls :
           /\ hooks'[u] = NoHook /\ received'[u] = {} /\ owedFrom'[u] = 0 /\ lastGood'[u] = 0
           /\ \A v \in Urls \ {u} : /\ hooks'[v] = hooks[v] /\ received'[v] = received[v]
                                    /\ owedFrom'[v] = owedFrom[v] /\ lastGood'[v] = lastGood[v]
           /\ overtaken' = overtaken \ {u}
           /\ TableOK'
           /\ UNCHANGED <<writerVars, chainVars, registered, form, dispatchVars, envVars>>
<1>1. PICK u \in Urls :
        /\ hooks' = [hooks EXCEPT ![u] = NoHook]
        /\ received' = [received EXCEPT ![u] = {}]
        /\ owedFrom' = [owedFrom EXCEPT ![u] = 0]
        /\ lastGood' = [lastGood EXCEPT ![u] = 0]
        /\ overtaken' = overtaken \ {u}
    BY DEF Unregister
<1>2. TableOK /\ IdsGiven /\ UNCHANGED <<writerVars, chainVars, registered, form, dispatchVars, envVars>>
    BY TypeParts DEF TableOK, Unregister
<1>3. /\ hooks'[u] = NoHook /\ received'[u] = {} /\ owedFrom'[u] = 0 /\ lastGood'[u] = 0
      /\ \A v \in Urls \ {u} : /\ hooks'[v] = hooks[v] /\ received'[v] = received[v]
                               /\ owedFrom'[v] = owedFrom[v] /\ lastGood'[v] = lastGood[v]
    BY <1>1, <1>2 DEF TableOK
<1>4. /\ hooks' \in [Urls -> HookRow \cup {NoHook}] /\ received' \in [Urls -> SUBSET Block]
      /\ owedFrom' \in [Urls -> 0 .. MaxHeight + 1] /\ lastGood' \in [Urls -> 0 .. MaxClock]
    BY <1>1, <1>2, StoreKnown DEF TableOK
<1>5. IdsGiven'
    <2>1. NoHook.id = 0 /\ registered \in Nat
        BY <1>2 DEF NoHook, TableOK
    <2>2. \A v \in Urls : hooks'[v].id <= registered'
        BY <1>2, <1>3, <2>1 DEF IdsGiven
    <2>3. ASSUME NEW v \in Urls, NEW w \in Urls, hooks'[v] # NoHook, hooks'[v].id = hooks'[w].id
          PROVE  v = w
        <3>1. v # u /\ hooks'[v] = hooks[v] /\ hooks[v].id # 0
            BY <1>3, <2>3, HookKnown
        <3>2. w # u
            BY <1>3, <2>1, <2>3, <3>1
        <3> QED
            BY <1>2, <1>3, <2>3, <3>1, <3>2 DEF IdsGiven
    <2> QED
        BY <1>2, <2>2, <2>3 DEF IdsGiven
<1>6. TableOK'
    BY <1>1, <1>2, <1>4, <1>5 DEF TableOK, envVars
<1> QED
    BY <1>1, <1>2, <1>3, <1>6

-----------------------------------------------------------------------------
(***************************************************************************)
(* Types.                                                                  *)
(***************************************************************************)
\* A page is the run of rows above the cursor of the copy in hand.
LEMMA ReadPageKnown ==
    ASSUME TypeInv, ReadPage
    PROVE  /\ QueuesOK' /\ HandOK' /\ Copies' \subseteq Copies
           /\ phase = "drain" /\ phase' # "mark"
           /\ \/ page' = <<>>
              \/ /\ UNCHANGED <<queue, more>>
                 /\ \A i \in DOMAIN page' :
                        /\ page'[i].height = Head(queue).cursor + i
                        /\ page'[i].height <= upTo /\ rows[page'[i].height] = page'[i]
<1> DEFINE low   == Head(queue).cursor + 1
           found == RowsBetween(low, upTo, PageSize)
           n     == RunLength(low, upTo, PageSize)
<1>1. /\ phase = "drain" /\ queue # <<>> /\ WriterInv /\ HandOK
      /\ Head(queue) \in Copy /\ Head(queue).cursor \in Int /\ low \in Nat
      /\ upTo \in Int /\ upTo <= MaxHeight /\ Head(queue) \in Copies
      /\ UNCHANGED <<upTo, blind>>
    BY HookWriter, StoreKnown, QueueKnown, TypeParts DEF ReadPage
<1>2. PageSize \in Nat \ {0}
    OBVIOUS
<1> HIDE DEF low
<1>3. /\ n \in Nat /\ n <= PageSize /\ found \in Seq(Block) /\ Len(found) = n
      /\ \A i \in 1 .. n :
            /\ low + i - 1 \in Heights /\ low + i - 1 <= upTo
            /\ found[i] = rows[low + i - 1] /\ rows[low + i - 1].height = low + i - 1
    <2>1. /\ WriterInv /\ low \in Nat /\ upTo \in Int /\ upTo <= MaxHeight
          /\ PageSize \in Nat \ {0}
        BY <1>1, <1>2
    <2>2. n \in Nat /\ n <= PageSize /\ found \in Seq(Block) /\ Len(found) = n
        BY <2>1, RowsBetweenIs
    <2>3. \A i \in 1 .. n :
            /\ low + i - 1 \in Heights /\ low + i - 1 <= upTo
            /\ found[i] = rows[low + i - 1] /\ rows[low + i - 1].height = low + i - 1
        BY <2>1, RowsBetweenIs
    <2> QED
        BY <2>2, <2>3
<1>4. \/ found = <<>> /\ Done(Head(queue), FALSE)
      \/ found # <<>> /\ page' = found /\ phase' = "post" /\ UNCHANGED <<queue, more, resting>>
    BY DEF ReadPage, low
<1> HIDE DEF n, found
<1>5. CASE found = <<>> /\ Done(Head(queue), FALSE)
    <2>1. /\ queue' = Tail(queue) /\ more' = (IF FALSE THEN Append(more, Head(queue)) ELSE more)
          /\ page' = <<>> /\ phase' = "drain" /\ resting' = resting \ {Head(queue).id}
        BY <1>5 DEF Done
    <2>2. /\ QueuesOK'
          /\ ~FALSE => \A d \in Copies' : d \in Copies /\ d.id # Head(queue).id
        BY <1>1, <2>1, QueueDone
    <2>3. page' \in Seq(Block) /\ Len(page') <= PageSize
        BY <2>1, BlockSeqs
    <2>4. HandOK'
        BY <1>1, <2>1, <2>3 DEF HandOK, InHand
    <2> QED
        BY <1>1, <2>1, <2>2, <2>4
<1>6. CASE found # <<>> /\ page' = found /\ phase' = "post" /\ UNCHANGED <<queue, more, resting>>
    <2>1. page' \in Seq(Block) /\ Len(page') <= PageSize /\ page' # <<>> /\ DOMAIN page' = 1 .. n
        BY <1>3, <1>6, BlockSeqs
    <2>2. HandOK'
        BY <1>1, <1>6, <2>1 DEF HandOK, InHand
    <2>3. QueuesOK' /\ Copies' = Copies
        BY <1>6, QueuesSame
    <2>4. ASSUME NEW i \in DOMAIN page'
          PROVE  /\ page'[i].height = Head(queue).cursor + i
                 /\ page'[i].height <= upTo /\ rows[page'[i].height] = page'[i]
        <3>1. low + i - 1 = Head(queue).cursor + i
            BY <1>1, <1>3, <2>1 DEF low
        <3> QED
            BY <1>3, <1>6, <2>1, <3>1
    <2> QED
        BY <1>1, <1>6, <2>2, <2>3, <2>4
<1> QED
    BY <1>4, <1>5, <1>6

LEMMA TypesStart == Init => TypeInv
<1> SUFFICES ASSUME Init PROVE TypeInv
    OBVIOUS
<1>1. WriterInv
    BY WriterStarts DEF Init
<1>2. StoreOK
    <2>1. common = None /\ cursor = None /\ known = None /\ None <= None
        BY DEF Init, WriterInit, None
    <2>2. finalized \in Heights \cup {None}
        BY DEF Init, Heights
    <2>3. RewindReady /\ rewinding \in BOOLEAN /\ overrun \subseteq Block
        BY DEF Init, RewindReady
    <2> QED
        BY <1>1, <2>1, <2>2, <2>3 DEF StoreOK, WriterInv
<1>3. TableOK
    <2>1. NoHook.id = 0
        BY DEF NoHook
    <2>2. \A u \in Urls : hooks[u] = NoHook
        BY DEF Init
    <2>3. IdsGiven
        BY <2>1, <2>2 DEF Init, IdsGiven
    <2> QED
        BY <2>3 DEF Init, TableOK, NoForm, Heights
<1>4. QueuesOK
    <2>1. queue = <<>> /\ more = <<>> /\ Cardinality(Urls) \in Nat
        BY FS_CardinalityType DEF Init
    <2> QED
        BY <2>1, CopySeqs DEF QueuesOK, IdsOnce
<1>5. HandOK
    <2>1. page \in Seq(Block) /\ Len(page) <= PageSize
        BY BlockSeqs DEF Init
    <2> QED
        BY <2>1 DEF Init, HandOK, InHand
<1> QED
    BY <1>2, <1>3, <1>4, <1>5, TypeParts

LEMMA StoreSame ==
    ASSUME TypeInv, UNCHANGED <<writerVars, chainVars, known>>
    PROVE  StoreOK'
BY TypeParts DEF StoreOK, WriterTypeOK, RowsToCursor, RewindReady, writerVars, chainVars

LEMMA TableSame ==
    ASSUME TypeInv, UNCHANGED <<tableVars, clock, crashes>>
    PROVE  TableOK'
BY TypeParts DEF TableOK, IdsGiven, tableVars

LEMMA DispatchSame ==
    ASSUME TypeInv, UNCHANGED dispatchVars
    PROVE  QueuesOK' /\ HandOK' /\ Copies' = Copies
BY TypeParts, QueuesSame DEF HandOK, InHand, dispatchVars

\* The block a rollback was decided on is in the store.
LEMMA RewoundKnown ==
    ASSUME TypeInv, rewinding
    PROVE  cursor \in Heights /\ rows[cursor] \in Block
<1>1. cursor \in Heights
    BY StoreKnown DEF TypeInv, RewindReady, Heights
<1>2. WriterInv
    BY HookWriter
<1> QED
    BY <1>1, <1>2, StoreKnown DEF WriterInv, RowsToCursor

LEMMA StoreTypesKept == TypeInv /\ [Next]_vars => StoreOK'
<1> SUFFICES ASSUME TypeInv, [Next]_vars PROVE StoreOK'
    OBVIOUS
<1>1. StoreOK /\ WriterInv
    BY TypeParts, HookWriter
<1>2. CASE NodeReorganises
    <2>1. PICK d \in 0 .. common - 1 : common' = d
        BY <1>2 DEF NodeReorganises
    <2>2. branch' \in Hashes
        BY <1>1, <1>2, WriterKnown DEF NodeReorganises, Hashes
    <2>3. common' \in Heights /\ common' < cursor
        BY <2>1, StoreKnown DEF Heights
    <2>4. UNCHANGED <<rows, cursor, finalized, known, rewinding, overrun>>
        BY <1>2 DEF NodeReorganises, envVars
    <2>5. common' <= cursor
        BY <2>3, StoreKnown DEF Heights
    <2> QED
        BY <1>1, <2>2, <2>3, <2>4, <2>5 DEF StoreOK, WriterTypeOK, RowsToCursor, RewindReady
<1>3. CASE NodeFinalises
    <2>1. finalized' \in Heights /\ UNCHANGED <<writerVars, common, known, rewinding, overrun>>
        BY <1>3, StoreKnown DEF NodeFinalises, envVars, Heights
    <2> QED
        BY <1>1, <2>1 DEF StoreOK, WriterTypeOK, RowsToCursor, RewindReady, writerVars
<1>4. CASE Poll
    <2>1. known' = finalized /\ UNCHANGED <<writerVars, common, finalized, rewinding>>
        BY <1>4 DEF Poll
    <2>2. overrun' \subseteq Block
        BY <1>1, <1>4, RewoundKnown DEF Poll, StoreOK
    <2> QED
        BY <1>1, <2>1, <2>2 DEF StoreOK, WriterTypeOK, RowsToCursor, RewindReady, writerVars
<1>5. CASE Commit
    BY <1>5, CommitKnown
<1>6. CASE Rollback
    BY <1>6, RollbackKnown
<1>7. CASE Crash
    BY <1>1, <1>7 DEF Crash, StoreOK, WriterTypeOK, RowsToCursor, RewindReady, writerVars
<1>11. CASE DetectFork
    BY <1>1, <1>11 DEF DetectFork, StoreOK, WriterTypeOK, RowsToCursor, RewindReady, writerVars,
                       envVars
<1>8. ASSUME UNCHANGED <<writerVars, chainVars, known>> PROVE StoreOK'
    BY <1>8, StoreSame
<1>9. CASE RegisterReads \/ RegisterWrites \/ Unregister \/ Tick \/ UNCHANGED vars
    BY <1>8, <1>9 DEF RegisterReads, RegisterWrites, Unregister, Tick, vars, envVars
<1>10. CASE DispatcherStep
    <2>1. CASE Wake \/ ReadTip \/ ReadTipFails \/ ReadPage
        BY <1>8, <2>1 DEF Wake, ReadTip, ReadTipFails, ReadPage, envVars
    <2>2. CASE Post \/ MarkDelivered \/ Fail \/ NextRound \/ Rested
        BY <1>8, <2>2 DEF Post, MarkDelivered, Fail, NextRound, Rested, envVars
    <2> QED
        BY <1>10, <2>1, <2>2 DEF DispatcherStep
<1> QED
    BY <1>2, <1>3, <1>4, <1>5, <1>6, <1>7, <1>9, <1>10, <1>11 DEF Next

LEMMA TableTypesKept == TypeInv /\ [Next]_vars => TableOK'
<1> SUFFICES ASSUME TypeInv, [Next]_vars PROVE TableOK'
    OBVIOUS
<1>1. TableOK
    BY TypeParts
<1>2. CASE Rollback
    <2>1. UNCHANGED <<registered, form, received, lastGood, clock, crashes>>
        BY <1>2 DEF Rollback, envVars
    <2>2. overtaken' \subseteq Urls
        BY <1>1, <1>2 DEF Rollback, Ahead, TableOK
    <2>3. /\ hooks' \in [Urls -> HookRow \cup {NoHook}] /\ owedFrom' \in [Urls -> 0 .. MaxHeight + 1]
          /\ \A u \in Urls : hooks'[u].id = hooks[u].id /\ (hooks'[u] = NoHook <=> hooks[u] = NoHook)
        BY <1>2, RollbackKnown
    <2>4. IdsGiven'
        BY <1>1, <2>1, <2>3 DEF TableOK, IdsGiven
    <2> QED
        BY <1>1, <2>1, <2>2, <2>3, <2>4 DEF TableOK
<1>3. CASE RegisterReads
    <2>1. PICK u \in Urls, c \in None .. cursor : form' = {[url |-> u, cursor |-> c]}
        BY <1>3 DEF RegisterReads
    <2>2. c \in Heights \cup {None}
        BY StoreKnown DEF Heights
    <2>3. form' \subseteq [url : Urls, cursor : Heights \cup {None}]
        BY <2>1, <2>2
    <2>4. registered < MaxRegistered
        BY <1>3 DEF RegisterReads
    <2>5. UNCHANGED <<hooks, registered, received, owedFrom, lastGood, overtaken, clock, crashes>>
        BY <1>3 DEF RegisterReads, envVars
    <2> QED
        BY <1>1, <2>3, <2>4, <2>5 DEF TableOK, IdsGiven
<1>4. CASE RegisterWrites
    BY <1>4, RegisterKnown
<1>5. CASE Unregister
    BY <1>5, UnregisterKnown
<1>6. CASE Post
    <2>1. Head(page) \in Block
        BY <1>6, QueueKnown DEF Post, TypeInv, InHand
    <2>2. /\ UNCHANGED <<hooks, registered, form, owedFrom, lastGood, overtaken, clock, crashes>>
          /\ received' \in [Urls -> SUBSET Block]
        BY <1>1, <1>6, <2>1 DEF Post, envVars, TableOK
    <2> QED
        BY <1>1, <2>2 DEF TableOK, IdsGiven
<1>7. CASE MarkDelivered
    <2>1. UNCHANGED <<registered, form, received, owedFrom, overtaken, clock, crashes>>
        BY <1>7 DEF MarkDelivered, envVars
    <2>2. /\ hooks' \in [Urls -> HookRow \cup {NoHook}] /\ lastGood' \in [Urls -> 0 .. MaxClock]
          /\ \A u \in Urls : hooks'[u].id = hooks[u].id /\ (hooks'[u] = NoHook <=> hooks[u] = NoHook)
        BY <1>7, MarkKnown
    <2> QED
        BY <1>1, <2>1, <2>2 DEF TableOK, IdsGiven
<1>8. CASE Fail
    <2>1. UNCHANGED <<registered, form, received, owedFrom, lastGood, overtaken, clock, crashes>>
        BY <1>8 DEF Fail, envVars
    <2>2. /\ hooks' \in [Urls -> HookRow \cup {NoHook}]
          /\ \A u \in Urls : hooks'[u].id = hooks[u].id /\ (hooks'[u] = NoHook <=> hooks[u] = NoHook)
        BY <1>8, FailKnown
    <2> QED
        BY <1>1, <2>1, <2>2 DEF TableOK, IdsGiven
<1>9. CASE Tick
    <2>1. UNCHANGED tableVars /\ crashes' = crashes /\ clock' \in 0 .. MaxClock
        BY <1>1, <1>9 DEF Tick, TableOK
    <2> QED
        BY <1>1, <2>1 DEF TableOK, IdsGiven, tableVars
<1>10. CASE Crash
    <2>1. /\ UNCHANGED <<hooks, registered, received, owedFrom, lastGood, overtaken, clock>>
          /\ form' = NoForm /\ crashes' \in 0 .. MaxCrashes
        BY <1>1, <1>10 DEF Crash, TableOK
    <2> QED
        BY <1>1, <2>1 DEF TableOK, IdsGiven, NoForm
<1>11. CASE NodeReorganises \/ NodeFinalises \/ Poll \/ DetectFork \/ Commit \/ UNCHANGED vars
    <2>1. UNCHANGED <<tableVars, clock, crashes>>
        BY <1>11 DEF NodeReorganises, NodeFinalises, Poll, DetectFork, Commit, vars, envVars
    <2> QED
        BY <2>1, TableSame
<1>12. CASE Wake \/ ReadTip \/ ReadTipFails \/ ReadPage \/ NextRound \/ Rested
    <2>1. UNCHANGED <<tableVars, clock, crashes>>
        BY <1>12 DEF Wake, ReadTip, ReadTipFails, ReadPage, NextRound, Rested, envVars
    <2> QED
        BY <2>1, TableSame
<1> QED
    BY <1>2, <1>3, <1>4, <1>5, <1>6, <1>7, <1>8, <1>9, <1>10, <1>11, <1>12
    DEF Next, DispatcherStep

LEMMA DispatchTypesKept == TypeInv /\ [Next]_vars => QueuesOK' /\ HandOK'
<1> SUFFICES ASSUME TypeInv, [Next]_vars PROVE QueuesOK' /\ HandOK'
    OBVIOUS
<1>1. HandOK /\ InHand
    BY TypeParts DEF HandOK
<1>2. CASE UNCHANGED dispatchVars
    BY <1>2, DispatchSame
<1>3. CASE NodeReorganises \/ NodeFinalises \/ Poll \/ DetectFork \/ Commit \/ Rollback \/ UNCHANGED vars
    BY <1>2, <1>3 DEF NodeReorganises, NodeFinalises, Poll, DetectFork, Commit, Rollback, vars
<1>4. CASE RegisterReads \/ RegisterWrites \/ Unregister \/ Tick
    BY <1>2, <1>4 DEF RegisterReads, RegisterWrites, Unregister, Tick
<1>5. CASE Wake
    <2>1. phase = "wait" /\ phase' = "tip" /\ UNCHANGED <<more, upTo, page, resting, blind>>
        BY <1>5 DEF Wake
    <2> QED
        BY <1>1, <1>5, <2>1, QueueFresh DEF HandOK, InHand
<1>6. CASE ReadTip
    <2>1. /\ phase = "tip" /\ phase' = (IF queue' = <<>> THEN "wait" ELSE "drain")
          /\ upTo' = (IF queue' = <<>> THEN None ELSE Deliverable(cursor, known))
          /\ blind' = (blind \/ (cursor # None /\ ~Receiving))
          /\ UNCHANGED <<more, page, resting>>
        BY <1>6 DEF ReadTip
    <2>2. Deliverable(cursor, known) \in Heights \cup {None}
        BY StoreKnown DEF Deliverable, Smaller, Heights
    <2>3. blind' \in BOOLEAN
        BY <1>1, <2>1 DEF HandOK
    <2> QED
        BY <1>1, <1>6, <2>1, <2>2, <2>3, QueueRead DEF HandOK, InHand
<1>7. CASE ReadTipFails
    <2>1. /\ phase = "tip" /\ phase' = "wait" /\ queue' = <<>> /\ more' = <<>>
          /\ UNCHANGED <<upTo, page, resting, blind>>
        BY <1>1, <1>7 DEF ReadTipFails, InHand
    <2> QED
        BY <1>1, <2>1, QueueTurned DEF HandOK, InHand
<1>8. CASE ReadPage
    BY <1>8, ReadPageKnown
<1>9. CASE Post
    <2>1. /\ phase = "post" /\ phase' = "mark"
          /\ UNCHANGED <<queue, more, upTo, page, resting, blind>>
        BY <1>9 DEF Post
    <2> QED
        BY <1>1, <2>1, QueuesSame DEF HandOK, InHand
<1>10. CASE MarkDelivered
    BY <1>10, MarkKnown
<1>11. CASE Fail
    BY <1>11, FailKnown
<1>12. CASE NextRound
    <2>1. /\ phase = "drain" /\ queue' = more /\ more' = <<>>
          /\ phase' = (IF more = <<>> THEN "wait" ELSE "drain")
          /\ upTo' \in {None, upTo} /\ UNCHANGED <<page, resting, blind>>
        BY <1>12 DEF NextRound
    <2> QED
        BY <1>1, <2>1, QueueTurned DEF HandOK, InHand
<1>13. CASE Rested
    <2>1. resting' \subseteq resting /\ UNCHANGED <<phase, queue, more, upTo, page, blind>>
        BY <1>13 DEF Rested, BackoffEnds
    <2> QED
        BY <1>1, <2>1, QueuesSame DEF HandOK, InHand
<1>14. CASE Crash
    <2>1. /\ phase' = "wait" /\ queue' = <<>> /\ more' = <<>> /\ upTo' = None
          /\ page' = <<>> /\ resting' = {} /\ blind' = blind
        BY <1>14 DEF Crash
    <2>2. page' \in Seq(Block) /\ Len(page') <= PageSize
        BY <2>1, BlockSeqs
    <2> QED
        BY <1>1, <2>1, <2>2, QueueTurned DEF HandOK, InHand
<1> QED
    BY <1>3, <1>4, <1>5, <1>6, <1>7, <1>8, <1>9, <1>10, <1>11, <1>12, <1>13, <1>14
    DEF Next, DispatcherStep

LEMMA TypesKept == TypeInv /\ [Next]_vars => TypeInv'
<1> SUFFICES ASSUME TypeInv, [Next]_vars PROVE TypeInv'
    OBVIOUS
<1>1. StoreOK' /\ TableOK' /\ QueuesOK' /\ HandOK'
    BY StoreTypesKept, TableTypesKept, DispatchTypesKept
<1> QED
    BY <1>1 DEF TypeInv, TypeOK, StoreOK, TableOK, QueuesOK, HandOK

LEMMA TypesAlways == Spec => []TypeInv
BY TypesStart, TypesKept, PTL DEF Spec

\* The types of Webhooks, and that no hook is in the dispatcher's hands twice.
THEOREM HookTypeCorrect == Spec => []TypeOK
<1>1. TypeInv => TypeOK
    BY DEF TypeInv
<1> QED
    BY <1>1, TypesAlways, PTL

-----------------------------------------------------------------------------
(***************************************************************************)
(* The copies, and what is about to be recorded.                           *)
(***************************************************************************)
\* The steps that leave the table, what was received and what was moved alone.
Quiet == UNCHANGED <<hooks, registered, overtaken>>

LEMMA QuietSteps ==
    ASSUME TypeInv, [Next]_vars, ~Rollback, ~RegisterWrites, ~Unregister, ~MarkDelivered, ~Fail
    PROVE  Quiet /\ UNCHANGED <<owedFrom, lastGood>> /\ (Copies' \subseteq Copies \/ Wake)
<1>1. CASE Wake
    BY <1>1 DEF Wake, tableVars, Quiet
<1>2. CASE ReadTip
    BY <1>2, QueueRead DEF ReadTip, tableVars, Quiet
<1>3. CASE ReadPage
    BY <1>3, ReadPageKnown DEF ReadPage, tableVars, Quiet
<1>4. CASE ReadTipFails
    <2>1. queue' = <<>> /\ more' = <<>>
        BY <1>4 DEF ReadTipFails, TypeInv, InHand
    <2> QED
        BY <1>4, <2>1, QueueTurned DEF ReadTipFails, tableVars, Quiet
<1>5. CASE NextRound \/ Crash
    <2>1. queue' \in {more, <<>>} /\ more' = <<>>
        BY <1>5 DEF NextRound, Crash
    <2> QED
        BY <1>5, <2>1, QueueTurned DEF NextRound, Crash, tableVars, Quiet
<1>6. CASE Post \/ Rested \/ RegisterReads
    <2>1. UNCHANGED <<queue, more>>
        BY <1>6 DEF Post, Rested, RegisterReads, dispatchVars
    <2> QED
        BY <1>6, <2>1, QueuesSame DEF Post, Rested, RegisterReads, tableVars, Quiet
<1>7. CASE NodeReorganises \/ NodeFinalises \/ Poll \/ DetectFork \/ Commit \/ Tick \/ UNCHANGED vars
    <2>1. UNCHANGED <<tableVars, dispatchVars>>
        BY <1>7 DEF NodeReorganises, NodeFinalises, Poll, DetectFork, Commit, Tick, vars
    <2> QED
        BY <2>1, DispatchSame DEF tableVars, Quiet
<1> QED
    BY <1>1, <1>2, <1>3, <1>4, <1>5, <1>6, <1>7 DEF Next, DispatcherStep

LEMMA CopiesKept ==
    ASSUME TypeInv, CopiesOK, [Next]_vars
    PROVE  CopiesOK'
<1>1. \A c \in Copies : c.id \in 1 .. MaxRegistered /\ c.cursor \in Int /\ c.cursor >= -1
    BY QueueKnown
<1>2. IdsGiven /\ registered \in Nat
    BY TypeParts DEF TableOK
<1>3. CASE Quiet /\ Copies' \subseteq Copies
    BY <1>3 DEF CopiesOK, CopyOK, Quiet
<1>4. CASE Wake
    <2> SUFFICES ASSUME NEW d \in Copies' PROVE CopyOK(d)'
        BY DEF CopiesOK
    <2>1. PICK u \in Urls :
            d.url = u /\ d.id = hooks[u].id /\ d.cursor = hooks[u].cursor /\ hooks[u].enabled
        BY <1>4, QueueFresh
    <2>2. d.id <= registered /\ \A v \in Urls : hooks[v].id = d.id => v = u
        BY <1>2, <2>1, HookKnown DEF IdsGiven
    <2>3. UNCHANGED <<hooks, registered, overtaken>>
        BY <1>4 DEF Wake, tableVars
    <2> QED
        BY <2>1, <2>2, <2>3 DEF CopyOK
<1>5. CASE Rollback
    <2>1. UNCHANGED dispatchVars /\ registered' = registered
          /\ overtaken' = overtaken \cup Ahead(cursor')
        BY <1>5 DEF Rollback
    <2>2. Copies' = Copies
        BY <2>1, DispatchSame
    <2>3. ASSUME NEW c \in Copies, NEW u \in Urls, hooks'[u].id = c.id
          PROVE  /\ c.url = u /\ hooks'[u].enabled
                 /\ u \notin overtaken' => hooks'[u].cursor = c.cursor
        <3>1. /\ hooks[u].id = c.id /\ hooks[u] # NoHook /\ hooks'[u].enabled = hooks[u].enabled
              /\ hooks'[u].cursor = Smaller(hooks[u].cursor, cursor')
            BY <1>1, <1>5, <2>3, RollbackKnown, HookKnown
        <3>2. /\ c.url = u /\ hooks[u].enabled
              /\ u \notin overtaken => hooks[u].cursor = c.cursor
            BY <3>1 DEF CopiesOK, CopyOK
        <3>3. ASSUME u \notin overtaken' PROVE hooks'[u].cursor = c.cursor
            <4>1. ~(c.cursor > cursor')
                BY <2>1, <3>1, <3>3 DEF Ahead, Copies
            <4>2. cursor' \in Int
                BY <1>5, RollbackKnown, StoreKnown
            <4> QED
                BY <1>1, <2>1, <3>1, <3>2, <3>3, <4>1, <4>2 DEF Smaller
        <3> QED
            BY <3>1, <3>2, <3>3
    <2> QED
        BY <2>1, <2>2, <2>3 DEF CopiesOK, CopyOK
<1>6. CASE RegisterWrites
    <2>0. RegisterWrites
        BY <1>6
    <2>1. PICK u \in Urls :
            /\ hooks'[u] \in HookRow /\ hooks'[u] # NoHook
            /\ hooks'[u].id = IF hooks[u] = NoHook THEN registered + 1 ELSE hooks[u].id
            /\ hooks'[u].enabled = TRUE /\ hooks'[u].since = None
            /\ \A v \in Urls \ {u} : /\ hooks'[v] = hooks[v] /\ received'[v] = received[v]
                                     /\ owedFrom'[v] = owedFrom[v] /\ lastGood'[v] = lastGood[v]
            /\ owedFrom'[u] = hooks'[u].cursor + 1 /\ lastGood'[u] = clock
            /\ received'[u] = {}
            /\ registered' = registered + 1 /\ form' = NoForm
            /\ overtaken' = IF u \in Ahead(None - 1) THEN overtaken \cup {u} ELSE overtaken \ {u}
            /\ TableOK'
            /\ UNCHANGED <<writerVars, chainVars, dispatchVars, envVars>>
        BY <2>0, RegisterKnown, Zenon
    <2>2. Copies' = Copies
        BY <2>1, DispatchSame
    <2>3. \A c \in Copies : c.id <= registered'
        BY <1>1, <1>2, <2>1 DEF CopiesOK, CopyOK
    <2>4. ASSUME NEW c \in Copies, NEW v \in Urls, hooks'[v].id = c.id
          PROVE  /\ c.url = v /\ hooks'[v].enabled
                 /\ v \notin overtaken' => hooks'[v].cursor = c.cursor
        <3>1. CASE v # u
            BY <2>1, <2>4, <3>1 DEF CopiesOK, CopyOK
        <3>2. CASE v = u
            <4>1. c.id <= registered
                BY DEF CopiesOK, CopyOK
            <4>2. hooks[u] # NoHook /\ hooks[u].id = c.id
                BY <1>1, <1>2, <2>1, <2>4, <3>2, <4>1
            <4>3. u \in Ahead(None - 1)
                BY <1>1, <4>2 DEF Ahead, Copies, None
            <4> QED
                BY <2>1, <3>2, <4>2, <4>3 DEF CopiesOK, CopyOK
        <3> QED
            BY <3>1, <3>2
    <2> QED
        BY <2>2, <2>3, <2>4 DEF CopiesOK, CopyOK
<1>7. CASE Unregister
    <2>1. PICK u \in Urls :
            /\ hooks'[u] = NoHook /\ \A v \in Urls \ {u} : hooks'[v] = hooks[v]
            /\ overtaken' = overtaken \ {u} /\ UNCHANGED <<registered, dispatchVars>>
        BY <1>7, UnregisterKnown
    <2>2. Copies' = Copies
        BY <2>1, DispatchSame
    <2>3. \A c \in Copies : hooks'[u].id # c.id
        BY <1>1, <2>1 DEF NoHook
    <2> QED
        BY <2>1, <2>2, <2>3 DEF CopiesOK, CopyOK
<1>8. CASE MarkDelivered
    <2>1. Head(queue) \in Copies /\ UNCHANGED <<registered, overtaken>>
        BY <1>8, MarkKnown, QueueKnown DEF MarkDelivered
    <2>2. ASSUME NEW d \in Copies' PROVE CopyOK(d)'
        <3>1. CASE d \in Copies /\ d.id # Head(queue).id
            <4>1. \A u \in Urls : hooks'[u].id = d.id => hooks[u].id = d.id /\ hooks'[u] = hooks[u]
                BY <1>8, <3>1, MarkKnown DEF Hit
            <4> QED
                BY <2>1, <3>1, <4>1 DEF CopiesOK, CopyOK
        <3>2. CASE d = Served /\ \E u \in Urls : Hit(u)
            <4>1. /\ d.id = Head(queue).id /\ d.url = Head(queue).url
                  /\ d.cursor = Head(page).height
                BY <1>8, <3>2, MarkKnown
            <4>2. ASSUME NEW u \in Urls, hooks'[u].id = d.id
                  PROVE  d.url = u /\ hooks'[u].enabled /\ hooks'[u].cursor = d.cursor
                <5>1. /\ hooks[u].id = Head(queue).id /\ hooks'[u].enabled = hooks[u].enabled
                    BY <1>8, <4>1, <4>2, MarkKnown
                <5>2. Hit(u)
                    BY <1>1, <2>1, <3>2, <5>1, HookKnown DEF Hit
                <5>3. Head(queue).url = u /\ hooks[u].enabled
                    BY <2>1, <5>1 DEF CopiesOK, CopyOK
                <5> QED
                    BY <1>8, <4>1, <5>1, <5>2, <5>3, MarkKnown
            <4>3. d.id <= registered'
                BY <2>1, <4>1 DEF CopiesOK, CopyOK
            <4> QED
                BY <4>2, <4>3 DEF CopyOK
        <3>3. Moved(Served)
            BY <1>8, MarkKnown
        <3>4. (\E u \in Urls : Hit(u)) \/ (d \in Copies /\ d.id # Head(queue).id)
            BY <1>8, MarkKnown
        <3> QED
            BY <3>1, <3>2, <3>3, <3>4 DEF Moved
    <2> QED
        BY <2>2 DEF CopiesOK
<1>9. CASE Fail
    <2>1. UNCHANGED <<registered, overtaken>>
        BY <1>9 DEF Fail
    <2>2. ASSUME NEW d \in Copies' PROVE CopyOK(d)'
        <3>1. d \in Copies /\ d.id # Head(queue).id
            BY <1>9, FailKnown
        <3>2. \A u \in Urls : hooks'[u].id = d.id => hooks[u].id = d.id /\ hooks'[u] = hooks[u]
            BY <1>9, <3>1, FailKnown
        <3> QED
            BY <2>1, <3>1, <3>2 DEF CopiesOK, CopyOK
    <2> QED
        BY <2>2 DEF CopiesOK
<1> QED
    BY <1>3, <1>4, <1>5, <1>6, <1>7, <1>8, <1>9, QuietSteps

\* Only a read of a page and the record of a delivery put something in hand.
LEMMA InHandSteps ==
    ASSUME TypeInv, TypeInv', [Next]_vars, ~ReadPage, ~MarkDelivered
    PROVE  page' = <<>> \/ UNCHANGED <<queue, page>>
<1>1. CASE phase' \notin {"post", "mark"}
    BY <1>1 DEF TypeInv, InHand
<1>2. CASE UNCHANGED dispatchVars
    BY <1>2 DEF dispatchVars
<1>3. CASE NodeReorganises \/ NodeFinalises \/ Poll \/ DetectFork \/ Commit \/ Rollback \/ UNCHANGED vars
    BY <1>2, <1>3 DEF NodeReorganises, NodeFinalises, Poll, DetectFork, Commit, Rollback, vars
<1>4. CASE RegisterReads \/ RegisterWrites \/ Unregister \/ Tick
    BY <1>2, <1>4 DEF RegisterReads, RegisterWrites, Unregister, Tick
<1>5. CASE Wake \/ ReadTip \/ ReadTipFails \/ Fail \/ NextRound \/ Crash
    BY <1>1, <1>5 DEF Wake, ReadTip, ReadTipFails, Fail, NextRound, Crash
<1>6. CASE Post \/ Rested
    BY <1>6 DEF Post, Rested
<1> QED
    BY <1>3, <1>4, <1>5, <1>6 DEF Next, DispatcherStep

LEMMA PageKept ==
    ASSUME TypeInv, TypeInv', PageFollows, [Next]_vars
    PROVE  PageFollows'
<1>1. CASE page' = <<>>
    BY <1>1, BlockSeqs DEF PageFollows
<1>2. CASE UNCHANGED <<queue, page>>
    BY <1>2 DEF PageFollows
<1>3. CASE ReadPage
    BY <1>1, <1>3, ReadPageKnown DEF PageFollows
<1>4. CASE MarkDelivered
    <2> SUFFICES ASSUME page' = Tail(page), Head(queue') = Served PROVE PageFollows'
        BY <1>1, <1>4, MarkKnown
    <2>1. /\ page \in Seq(Block) /\ page # <<>> /\ Len(page) \in Nat /\ Head(page) = page[1]
          /\ 1 \in DOMAIN page /\ Head(queue).cursor \in Int
          /\ Served.cursor = Head(page).height
        BY <1>4, MarkKnown, QueueKnown
    <2>2. /\ DOMAIN page = 1 .. Len(page) /\ DOMAIN page' = 1 .. Len(page) - 1
          /\ \A i \in 1 .. Len(page) - 1 : page'[i] = page[i + 1]
        BY <2>1, BlockTail
    <2>3. ASSUME NEW i \in DOMAIN page' PROVE page'[i].height = Head(queue').cursor + i
        <3>1. i + 1 \in DOMAIN page /\ page'[i] = page[i + 1] /\ i \in Int
            BY <2>1, <2>2
        <3>2. page'[i].height = Head(queue).cursor + (i + 1)
            BY <3>1 DEF PageFollows
        <3>3. Head(queue').cursor = Head(queue).cursor + 1
            BY <2>1 DEF PageFollows
        <3>4. Head(queue).cursor + (i + 1) = (Head(queue).cursor + 1) + i
            <4>1. \A m, n \in Int : m + (n + 1) = (m + 1) + n
                OBVIOUS
            <4> QED
                BY <2>1, <3>1, <4>1, Zenon
        <3> QED
            BY <3>2, <3>3, <3>4
    <2> QED
        BY <2>3 DEF PageFollows
<1> QED
    BY <1>1, <1>2, <1>3, <1>4, InHandSteps

LEMMA PostedKept ==
    ASSUME TypeInv, TypeInv', CopiesOK, Posted, [Next]_vars
    PROVE  Posted'
<1> SUFFICES ASSUME phase' = "mark", NEW u \in Urls,
                    hooks'[u].id = Head(queue').id, u \notin overtaken'
             PROVE  Head(page') \in received'[u]
    BY DEF Posted
<1>1. page' # <<>> /\ ~ReadPage /\ ~MarkDelivered /\ ~Fail
    BY ReadPageKnown, MarkKnown, FailKnown DEF TypeInv, InHand
<1>2. UNCHANGED <<queue, page>>
    BY <1>1, InHandSteps
<1>3. phase \in {"post", "mark"}
    BY <1>1, <1>2 DEF TypeInv, InHand
<1>4. /\ queue # <<>> /\ Head(queue) \in Copies /\ Head(queue).id \in 1 .. MaxRegistered
      /\ Head(queue).cursor \in Int /\ Head(queue).cursor >= -1
      /\ Head(queue).id <= registered /\ registered \in Nat
    BY <1>3, QueueKnown, TypeParts DEF TypeInv, InHand, CopiesOK, CopyOK, TableOK
<1>5. CASE Post
    <2>1. received' = [received EXCEPT ![Head(queue).url] = @ \cup {Head(page)}]
          /\ hooks' = hooks
        BY <1>5 DEF Post
    <2>2. Head(queue).url = u
        BY <1>2, <1>4, <2>1 DEF CopiesOK, CopyOK
    <2> QED
        BY <1>2, <2>1, <2>2, TypeParts DEF TableOK
<1>6. phase = "mark" \/ Post
    <2>1. CASE UNCHANGED dispatchVars
        BY <2>1 DEF dispatchVars
    <2>2. CASE NodeReorganises \/ NodeFinalises \/ Poll \/ DetectFork \/ Commit \/ Rollback \/ UNCHANGED vars
        BY <2>1, <2>2 DEF NodeReorganises, NodeFinalises, Poll, DetectFork, Commit, Rollback, vars
    <2>3. CASE RegisterReads \/ RegisterWrites \/ Unregister \/ Tick
        BY <2>1, <2>3 DEF RegisterReads, RegisterWrites, Unregister, Tick
    <2>4. CASE Wake \/ ReadTip \/ ReadTipFails \/ NextRound \/ Crash
        BY <2>4 DEF Wake, ReadTip, ReadTipFails, NextRound, Crash
    <2>5. CASE Rested
        BY <2>5 DEF Rested
    <2> QED
        BY <1>1, <2>2, <2>3, <2>4, <2>5 DEF Next, DispatcherStep
<1>7. ASSUME phase = "mark", hooks[u].id = Head(queue).id, u \notin overtaken
      PROVE  Head(page) \in received[u]
    BY <1>7 DEF Posted
<1>8. CASE phase = "mark" /\ RegisterWrites
    <2>1. PICK v \in Urls :
            /\ hooks'[v].id = IF hooks[v] = NoHook THEN registered + 1 ELSE hooks[v].id
            /\ \A w \in Urls \ {v} : hooks'[w] = hooks[w] /\ received'[w] = received[w]
            /\ overtaken' = IF v \in Ahead(None - 1) THEN overtaken \cup {v} ELSE overtaken \ {v}
        BY <1>8, RegisterKnown
    <2>2. u # v
        <3> SUFFICES ASSUME u = v PROVE FALSE
            OBVIOUS
        <3>1. hooks[v] # NoHook /\ hooks[v].id = Head(queue).id
            BY <1>2, <1>4, <2>1
        <3>2. v \in Ahead(None - 1)
            BY <1>4, <3>1 DEF Ahead, Copies, None
        <3> QED
            BY <2>1, <3>2
    <2> QED
        BY <1>2, <1>7, <1>8, <2>1, <2>2
<1>9. CASE phase = "mark" /\ Unregister
    <2>1. PICK v \in Urls :
            /\ hooks'[v] = NoHook
            /\ \A w \in Urls \ {v} : hooks'[w] = hooks[w] /\ received'[w] = received[w]
            /\ overtaken' = overtaken \ {v}
        BY <1>9, UnregisterKnown
    <2>2. u # v
        BY <1>2, <1>4, <2>1 DEF NoHook
    <2> QED
        BY <1>2, <1>7, <1>9, <2>1, <2>2
<1>10. CASE phase = "mark" /\ Rollback
    <2>1. hooks'[u].id = hooks[u].id /\ received' = received /\ u \notin overtaken
        BY <1>10, RollbackKnown DEF Rollback
    <2> QED
        BY <1>2, <1>7, <1>10, <2>1
<1>11. CASE phase = "mark" /\ ~Post /\ ~RegisterWrites /\ ~Unregister /\ ~Rollback
    <2>1. Quiet
        BY <1>1, <1>11, QuietSteps
    <2>2. received' = received
        <3>1. CASE UNCHANGED tableVars \/ Wake \/ ReadTip \/ ReadTipFails
            BY <3>1 DEF Wake, ReadTip, ReadTipFails, tableVars
        <3>2. CASE NodeReorganises \/ NodeFinalises \/ Poll \/ DetectFork \/ Commit \/ UNCHANGED vars
            BY <3>2 DEF NodeReorganises, NodeFinalises, Poll, DetectFork, Commit, vars, tableVars
        <3>3. CASE RegisterReads \/ Tick \/ NextRound \/ Rested \/ Crash
            BY <3>3 DEF RegisterReads, Tick, NextRound, Rested, Crash, tableVars
        <3> QED
            BY <1>1, <1>11, <3>1, <3>2, <3>3 DEF Next, DispatcherStep
    <2> QED
        BY <1>2, <1>7, <1>11, <2>1, <2>2 DEF Quiet
<1> QED
    BY <1>5, <1>6, <1>8, <1>9, <1>10, <1>11

-----------------------------------------------------------------------------
(***************************************************************************)
(* Nothing is passed over.                                                 *)
(***************************************************************************)
\* What a hook got stays enough when rows change above its cursor only.
LEMMA DeliveredStays ==
    ASSUME TypeInv, NEW u \in Urls, Delivered(u),
           hooks'[u].cursor = hooks[u].cursor, owedFrom'[u] = owedFrom[u],
           received[u] \subseteq received'[u], cursor \in Int, cursor' \in Int, cursor' >= cursor,
           \A h \in Heights : h <= cursor => rows'[h] = rows[h]
    PROVE  Delivered(u)'
<1>1. /\ hooks[u].cursor \in Int /\ hooks[u].cursor <= MaxHeight /\ owedFrom[u] \in Nat
      /\ MaxHeight \in Nat
    BY HookKnown, StoreKnown, TypeParts DEF TableOK
<1>2. ASSUME NEW h \in owedFrom[u] .. hooks[u].cursor, IsStored(rows', h)
      PROVE  rows'[h] \in received'[u]
    <2>1. h \in Heights /\ h <= cursor
        BY <1>1 DEF Delivered, Heights
    <2>2. rows'[h] = rows[h] /\ IsStored(rows, h)
        BY <1>2, <2>1 DEF IsStored
    <2> QED
        BY <2>2 DEF Delivered, GotEverything
<1>3. owedFrom'[u] <= hooks'[u].cursor => hooks'[u].cursor <= cursor'
    BY <1>1 DEF Delivered
<1> QED
    BY <1>2, <1>3 DEF Delivered, GotEverything

LEMMA DeliveredKept ==
    ASSUME TypeInv, TypeInv', CopiesOK, PageFollows, Posted, [Next]_vars,
           \A u \in Urls \ overtaken : hooks[u] # NoHook => Delivered(u),
           NEW u \in Urls \ overtaken', hooks'[u] # NoHook
    PROVE  Delivered(u)'
<1>1. cursor \in Int /\ MaxHeight \in Nat
    BY StoreKnown
<1>2. CASE Commit
    <2>1. UNCHANGED <<hooks, overtaken, owedFrom, received>>
        BY <1>2 DEF Commit, tableVars
    <2>2. cursor' > cursor /\ \A h \in Heights : h <= cursor => rows'[h] = rows[h]
        BY <1>2, CommitKnown
    <2>3. cursor' \in Int
        BY TypeParts, <1>2, CommitKnown DEF StoreOK, WriterTypeOK, Heights, None
    <2>4. Delivered(u)
        BY <2>1
    <2> QED
        BY <1>1, <2>1, <2>2, <2>3, <2>4, DeliveredStays
<1>3. CASE Rollback
    <2>1. /\ cursor' = cursor - 1 /\ cursor > 0
          /\ \A h \in Heights : h <= cursor' => rows'[h] = rows[h]
          /\ hooks[u] # NoHook /\ hooks'[u].cursor = Smaller(hooks[u].cursor, cursor')
          /\ owedFrom'[u] = Smaller(owedFrom[u], cursor' + 1)
        BY <1>3, RollbackKnown
    <2>2. received' = received /\ u \notin overtaken
        BY <1>3 DEF Rollback
    <2>3. Delivered(u)
        BY <2>1, <2>2
    <2>4. hooks[u].cursor \in Int /\ hooks[u].cursor <= MaxHeight /\ owedFrom[u] \in Nat
        BY HookKnown, TypeParts DEF TableOK
    <2>5. hooks'[u].cursor <= cursor'
        BY <1>1, <2>1, <2>4 DEF Smaller
    <2>6. ASSUME NEW h \in owedFrom'[u] .. hooks'[u].cursor, IsStored(rows', h)
          PROVE  rows'[h] \in received'[u]
        <3>1. h \in Heights /\ h <= cursor' /\ h \in owedFrom[u] .. hooks[u].cursor
            BY <1>1, <2>1, <2>4 DEF Smaller, Heights
        <3>2. rows'[h] = rows[h] /\ IsStored(rows, h)
            BY <2>1, <2>6, <3>1 DEF IsStored
        <3> QED
            BY <2>2, <2>3, <3>1, <3>2 DEF Delivered, GotEverything
    <2> QED
        BY <2>5, <2>6 DEF Delivered, GotEverything
<1>4. ASSUME UNCHANGED <<rows, cursor>>, hooks'[u].cursor = hooks[u].cursor,
             owedFrom'[u] = owedFrom[u], received[u] \subseteq received'[u],
             hooks[u] # NoHook, u \notin overtaken
      PROVE  Delivered(u)'
    <2>1. Delivered(u)
        BY <1>4
    <2> QED
        BY <1>1, <1>4, <2>1, DeliveredStays
<1>5. CASE RegisterWrites
    <2>1. PICK v \in Urls :
            /\ owedFrom'[v] = hooks'[v].cursor + 1
            /\ \A w \in Urls \ {v} : /\ hooks'[w] = hooks[w] /\ received'[w] = received[w]
                                     /\ owedFrom'[w] = owedFrom[w]
            /\ overtaken' = IF v \in Ahead(None - 1) THEN overtaken \cup {v} ELSE overtaken \ {v}
            /\ hooks'[v] \in HookRow /\ UNCHANGED writerVars
        BY <1>5, RegisterKnown
    <2>2. CASE u = v
        <3>1. hooks'[u].cursor \in Int
            BY <1>1, <2>1, <2>2 DEF HookRow, Heights, None
        <3> QED
            BY <2>1, <2>2, <3>1 DEF Delivered, GotEverything
    <2>3. CASE u # v
        BY <1>4, <2>1, <2>3 DEF writerVars
    <2> QED
        BY <2>2, <2>3
<1>6. CASE Unregister
    <2>1. PICK v \in Urls :
            /\ hooks'[v] = NoHook
            /\ \A w \in Urls \ {v} : /\ hooks'[w] = hooks[w] /\ received'[w] = received[w]
                                     /\ owedFrom'[w] = owedFrom[w]
            /\ overtaken' = overtaken \ {v} /\ UNCHANGED writerVars
        BY <1>6, UnregisterKnown
    <2>2. u # v
        BY <2>1
    <2> QED
        BY <1>4, <2>1, <2>2 DEF writerVars
<1>7. CASE MarkDelivered
    <2>1. UNCHANGED <<rows, cursor, owedFrom, received, overtaken>>
        BY <1>7 DEF MarkDelivered, writerVars
    <2>2. CASE ~Hit(u)
        BY <1>4, <1>7, <2>1, <2>2, MarkKnown
    <2>3. CASE Hit(u)
        <3> DEFINE b == Head(page)
        <3>1. /\ phase = "mark" /\ queue # <<>> /\ page # <<>> /\ b \in Block
              /\ hooks'[u].cursor = b.height /\ rows[b.height] = b
              /\ hooks[u] # NoHook /\ hooks[u].id = Head(queue).id
            BY <1>7, <2>3, MarkKnown DEF Hit
        <3>2. Head(queue) \in Copies /\ Head(page) = page[1] /\ 1 \in DOMAIN page
            BY <3>1, QueueKnown
        <3> HIDE DEF b
        <3>3. hooks[u].cursor = Head(queue).cursor /\ b.height = Head(queue).cursor + 1
            BY <2>1, <3>1, <3>2 DEF CopiesOK, CopyOK, PageFollows, b
        <3>4. b \in received[u]
            BY <2>1, <3>1 DEF Posted, b
        <3>5. b.height \in Heights /\ b.height <= cursor /\ b.height \in Int
            <4>1. b.height \in Heights /\ b.height \in Int /\ b # NoBlock
                BY <3>1 DEF Block, NoBlock, Heights, None
            <4>2. WriterInv
                BY HookWriter
            <4>3. b.height <= cursor
                BY <3>1, <4>1, <4>2 DEF WriterInv, RowsToCursor
            <4> QED
                BY <4>1, <4>3
        <3>6. Delivered(u) /\ hooks[u].cursor \in Int /\ owedFrom[u] \in Nat
            BY <2>1, <3>1, HookKnown, TypeParts DEF TableOK
        <3>7. ASSUME NEW h \in owedFrom'[u] .. hooks'[u].cursor, IsStored(rows', h)
              PROVE  rows'[h] \in received'[u]
            <4>1. CASE h = b.height
                BY <2>1, <3>1, <3>4, <4>1
            <4>2. CASE h # b.height
                <5>1. h \in owedFrom[u] .. hooks[u].cursor
                    BY <2>1, <3>1, <3>3, <3>5, <3>6, <4>2
                <5> QED
                    BY <2>1, <3>6, <3>7, <5>1 DEF Delivered, GotEverything
            <4> QED
                BY <4>1, <4>2
        <3>8. hooks'[u].cursor <= cursor'
            BY <2>1, <3>1, <3>5
        <3> QED
            BY <3>7, <3>8 DEF Delivered, GotEverything
    <2> QED
        BY <2>2, <2>3
<1>8. CASE Fail
    <2>1. UNCHANGED <<rows, cursor, owedFrom, received, overtaken>>
        BY <1>8 DEF Fail, writerVars
    <2> QED
        BY <1>4, <1>8, <2>1, FailKnown
<1>9. CASE Post
    <2>1. /\ UNCHANGED <<rows, cursor, hooks, owedFrom, overtaken>>
          /\ received' = [received EXCEPT ![Head(queue).url] = @ \cup {Head(page)}]
        BY <1>9 DEF Post, writerVars
    <2>2. received[u] \subseteq received'[u]
        BY <2>1, TypeParts DEF TableOK
    <2> QED
        BY <1>4, <2>1, <2>2
<1>10. CASE Wake \/ ReadTip \/ ReadTipFails \/ ReadPage \/ NextRound \/ Rested
    <2>1. UNCHANGED <<rows, cursor, hooks, owedFrom, received, overtaken>>
        BY <1>10 DEF Wake, ReadTip, ReadTipFails, ReadPage, NextRound, Rested, tableVars, writerVars
    <2> QED
        BY <1>4, <2>1
<1>11. CASE NodeReorganises \/ NodeFinalises \/ Poll \/ DetectFork \/ RegisterReads \/ Tick \/ Crash \/ UNCHANGED vars
    <2>1. UNCHANGED <<rows, cursor, hooks, owedFrom, received, overtaken>>
        BY <1>11 DEF NodeReorganises, NodeFinalises, Poll, DetectFork, RegisterReads, Tick, Crash, vars,
                     tableVars, writerVars
    <2> QED
        BY <1>4, <2>1
<1> QED
    BY <1>2, <1>3, <1>5, <1>6, <1>7, <1>8, <1>9, <1>10, <1>11 DEF Next, DispatcherStep

LEMMA DeliveryStarts == Init => DeliveryInv
<1> SUFFICES ASSUME Init PROVE DeliveryInv
    OBVIOUS
<1>1. /\ queue = <<>> /\ more = <<>> /\ page = <<>> /\ phase = "wait"
      /\ \A u \in Urls : hooks[u] = NoHook
    BY DEF Init
<1>2. Copies = {} /\ DOMAIN page = {}
    BY <1>1, CopySeqs DEF Copies, ToSet
<1> QED
    BY <1>1, <1>2 DEF DeliveryInv, CopiesOK, PageFollows, Posted

LEMMA DeliveryKept == TypeInv /\ TypeInv' /\ DeliveryInv /\ [Next]_vars => DeliveryInv'
<1> SUFFICES ASSUME TypeInv, TypeInv', DeliveryInv, [Next]_vars PROVE DeliveryInv'
    OBVIOUS
<1>1. CopiesOK /\ PageFollows /\ Posted
      /\ \A u \in Urls \ overtaken : hooks[u] # NoHook => Delivered(u)
    BY DEF DeliveryInv
<1>2. CopiesOK' /\ PageFollows' /\ Posted'
    BY <1>1, CopiesKept, PageKept, PostedKept
<1>3. \A u \in Urls \ overtaken' : hooks'[u] # NoHook => Delivered(u)'
    BY <1>1, DeliveredKept
<1> QED
    BY <1>2, <1>3 DEF DeliveryInv

LEMMA DeliveryAlways == Spec => [](TypeInv /\ DeliveryInv)
BY TypesStart, TypesKept, DeliveryStarts, DeliveryKept, PTL DEF Spec

\* Through failures, forks, restarts, registrations and removals at any moment, a
\* hook whose cursor was not moved under a copy of it was sent every stored block
\* up to its cursor.
THEOREM DeliveredAtLeastOnce == Spec => []AtLeastOnce
<1>1. DeliveryInv => AtLeastOnce
    BY DEF DeliveryInv, AtLeastOnce, Delivered
<1> QED
    BY <1>1, DeliveryAlways, PTL

-----------------------------------------------------------------------------
(***************************************************************************)
(* When a hook is given up on.                                             *)
(***************************************************************************)
LEMMA ClocksKept == TypeInv /\ DeliveryInv /\ ClocksOK /\ [Next]_vars => ClocksOK'
<1> SUFFICES ASSUME TypeInv, DeliveryInv, ClocksOK, [Next]_vars, NEW u \in Urls
             PROVE  ClockOK(u)'
    BY DEF ClocksOK
<1>1. /\ clock \in Nat /\ lastGood[u] \in Nat /\ MaxFailing \in Nat /\ MaxClock \in Nat
      /\ hooks[u].since \in Int /\ hooks[u].since >= -1 /\ ClockOK(u)
    BY HookKnown, TypeParts DEF TableOK, None, ClocksOK
<1>2. ASSUME hooks'[u].since = hooks[u].since, hooks'[u].enabled = hooks[u].enabled,
             hooks'[u] = NoHook <=> hooks[u] = NoHook, lastGood'[u] = lastGood[u],
             clock' \in {clock, clock + 1}
      PROVE  ClockOK(u)'
    BY <1>1, <1>2 DEF ClockOK
<1>3. CASE Rollback
    <2>1. UNCHANGED <<lastGood, clock>>
        BY <1>3 DEF Rollback, envVars
    <2> QED
        BY <1>2, <1>3, <2>1, RollbackKnown
<1>4. CASE RegisterWrites
    <2>1. PICK v \in Urls :
            /\ hooks'[v].enabled = TRUE /\ hooks'[v].since = None /\ lastGood'[v] = clock
            /\ \A w \in Urls \ {v} : hooks'[w] = hooks[w] /\ lastGood'[w] = lastGood[w]
            /\ UNCHANGED envVars
        BY <1>4, RegisterKnown
    <2> QED
        BY <1>1, <1>2, <2>1 DEF ClockOK, envVars
<1>5. CASE Unregister
    <2>1. PICK v \in Urls :
            /\ hooks'[v] = NoHook /\ lastGood'[v] = 0
            /\ \A w \in Urls \ {v} : hooks'[w] = hooks[w] /\ lastGood'[w] = lastGood[w]
            /\ UNCHANGED envVars
        BY <1>5, UnregisterKnown
    <2>2. NoHook.since = None
        BY DEF NoHook
    <2> QED
        BY <1>1, <1>2, <2>1, <2>2 DEF ClockOK, envVars
<1>6. CASE MarkDelivered
    <2>1. clock' = clock /\ Head(queue) \in Copies
        BY <1>6, MarkKnown, QueueKnown DEF MarkDelivered, envVars
    <2>2. CASE Hit(u)
        <3>1. hooks'[u].since = None /\ lastGood'[u] = clock /\ hooks'[u].enabled = hooks[u].enabled
            BY <1>6, <2>2, MarkKnown
        <3>2. hooks[u].enabled
            BY <2>1, <2>2 DEF DeliveryInv, CopiesOK, CopyOK, Hit
        <3> QED
            BY <1>1, <2>1, <3>1, <3>2 DEF ClockOK
    <2>3. CASE ~Hit(u)
        BY <1>2, <1>6, <2>1, <2>3, MarkKnown
    <2> QED
        BY <2>2, <2>3
<1>7. CASE Fail
    <2>1. UNCHANGED <<clock, lastGood>>
        BY <1>7 DEF Fail, envVars
    <2>2. CASE hooks'[u] = hooks[u]
        BY <1>2, <2>1, <2>2
    <2>3. CASE hooks'[u] # hooks[u]
        <3>1. /\ hooks'[u].since = IF hooks[u].since = None THEN clock ELSE hooks[u].since
              /\ hooks'[u].enabled = (hooks'[u].since > clock - MaxFailing)
            BY <1>7, <2>3, FailKnown
        <3>2. /\ hooks'[u].since \in Int /\ hooks'[u].since # None
              /\ lastGood[u] <= hooks'[u].since /\ hooks'[u].since <= clock
            BY <1>1, <3>1 DEF ClockOK, None
        <3>3. ~hooks'[u].enabled => hooks'[u].since <= clock - MaxFailing
            <4>1. ~hooks'[u].enabled => ~(hooks'[u].since > clock - MaxFailing)
                BY <3>1
            <4>2. ~(hooks'[u].since > clock - MaxFailing) => hooks'[u].since <= clock - MaxFailing
                BY <1>1, <3>2
            <4> QED
                BY <4>1, <4>2
        <3> QED
            BY <1>1, <2>1, <3>2, <3>3 DEF ClockOK
    <2> QED
        BY <2>2, <2>3
<1>8. CASE ~Rollback /\ ~RegisterWrites /\ ~Unregister /\ ~MarkDelivered /\ ~Fail
    <2>1. UNCHANGED <<hooks, lastGood>>
        BY <1>8, QuietSteps DEF Quiet
    <2>2. clock' \in {clock, clock + 1}
        <3>1. CASE UNCHANGED vars \/ UNCHANGED envVars \/ Tick
            BY <3>1 DEF vars, envVars, Tick
        <3>2. CASE NodeReorganises \/ NodeFinalises \/ Poll \/ DetectFork \/ Commit \/ RegisterReads \/ Crash
            BY <3>2 DEF NodeReorganises, NodeFinalises, Poll, DetectFork, Commit, RegisterReads, Crash, envVars
        <3>3. CASE Wake \/ ReadTip \/ ReadTipFails \/ ReadPage \/ Post \/ NextRound \/ Rested
            BY <3>3 DEF Wake, ReadTip, ReadTipFails, ReadPage, Post, NextRound, Rested, envVars
        <3> QED
            BY <1>8, <3>1, <3>2, <3>3 DEF Next, DispatcherStep
    <2> QED
        BY <1>2, <2>1, <2>2
<1> QED
    BY <1>3, <1>4, <1>5, <1>6, <1>7, <1>8

\* A hook is disabled only after it got nothing for MaxFailing, for any receiver
\* that fails and recovers, through forks and registrations.
THEOREM DisabledOnlyAfterWindow == Spec => []DisabledAfterWindow
<1>1. Init => ClocksOK
    <2>1. NoHook.since = None
        BY DEF NoHook
    <2> QED
        BY <2>1 DEF Init, ClocksOK, ClockOK
<1>2. TypeInv /\ ClocksOK => DisabledAfterWindow
    <2> SUFFICES ASSUME TypeInv, ClocksOK, NEW u \in Urls, hooks[u] # NoHook, ~hooks[u].enabled
                 PROVE  clock - lastGood[u] >= MaxFailing
        BY DEF DisabledAfterWindow
    <2>1. /\ clock \in Nat /\ lastGood[u] \in Nat /\ MaxFailing \in Nat /\ hooks[u].since \in Int
        BY HookKnown, TypeParts DEF TableOK
    <2>2. lastGood[u] <= hooks[u].since /\ hooks[u].since <= clock - MaxFailing
        BY DEF ClocksOK, ClockOK
    <2> QED
        BY <2>1, <2>2
<1> QED
    BY <1>1, <1>2, ClocksKept, DeliveryAlways, PTL DEF Spec

-----------------------------------------------------------------------------
(***************************************************************************)
(* What is delivered under finality stands.                                *)
(***************************************************************************)
\* What the process knows of the node's finality comes from the node.
LEMMA FinalityMoves ==
    ASSUME TypeInv, [Next]_vars
    PROVE  /\ finalized' = finalized \/ (finalized # None /\ finalized' = finalized + 1)
           /\ known' \in {known, finalized, None}
           /\ known' = None => known = None \/ finalized = None \/ Crash
           /\ blind => blind'
           /\ overrun \subseteq overrun'
<1>1. CASE NodeReorganises \/ DetectFork \/ Commit \/ Rollback \/ UNCHANGED vars
    BY <1>1 DEF NodeReorganises, DetectFork, Commit, Rollback, vars, chainVars, envVars, dispatchVars
<1>2. CASE NodeFinalises \/ Poll \/ Tick \/ Crash
    BY <1>2 DEF NodeFinalises, Poll, Tick, Crash, chainVars, envVars, dispatchVars
<1>3. CASE UNCHANGED <<chainVars, envVars>> /\ (blind => blind')
    BY <1>3 DEF chainVars, envVars
<1>4. CASE RegisterReads
    BY <1>3, <1>4 DEF RegisterReads, dispatchVars, envVars
<1>5. CASE RegisterWrites \/ Unregister
    <2>1. UNCHANGED <<chainVars, dispatchVars, envVars>>
        BY <1>5, RegisterKnown, UnregisterKnown
    <2> QED
        BY <1>3, <2>1 DEF dispatchVars
<1>6. CASE DispatcherStep
    <2>1. UNCHANGED <<chainVars, envVars>>
        BY <1>6 DEF DispatcherStep, Wake, ReadTip, ReadTipFails, ReadPage, Post, MarkDelivered,
                    Fail, NextRound, Rested
    <2>2. blind => blind'
        BY <1>6 DEF DispatcherStep, Wake, ReadTip, ReadTipFails, ReadPage, Post, MarkDelivered,
                    Fail, NextRound, Rested
    <2> QED
        BY <1>3, <2>1, <2>2
<1> QED
    BY <1>1, <1>2, <1>4, <1>5, <1>6 DEF Next

\* The dispatcher knows where to deliver up to from its read of the tip.
LEMMA UpToMoves ==
    ASSUME [Next]_vars, ~ReadTip, ~Crash, ~NextRound
    PROVE  upTo' = upTo
<1>1. CASE UNCHANGED dispatchVars
    BY <1>1 DEF dispatchVars
<1>2. CASE NodeReorganises \/ NodeFinalises \/ Poll \/ DetectFork \/ Commit \/ Rollback \/ UNCHANGED vars
    BY <1>1, <1>2 DEF NodeReorganises, NodeFinalises, Poll, DetectFork, Commit, Rollback, vars
<1>3. CASE RegisterReads \/ RegisterWrites \/ Unregister \/ Tick
    BY <1>1, <1>3 DEF RegisterReads, RegisterWrites, Unregister, Tick
<1>4. CASE Wake \/ ReadTipFails \/ ReadPage \/ Post \/ MarkDelivered \/ Fail \/ Rested
    BY <1>4 DEF Wake, ReadTipFails, ReadPage, Post, MarkDelivered, Fail, Rested
<1> QED
    BY <1>2, <1>3, <1>4 DEF Next, DispatcherStep

\* The rows move when the index task moves them.
LEMMA RowsMove ==
    ASSUME [Next]_vars, ~Commit, ~Rollback
    PROVE  rows' = rows
<1>1. CASE NodeReorganises \/ NodeFinalises \/ Poll \/ DetectFork \/ Tick \/ Crash \/ UNCHANGED vars
    BY <1>1 DEF NodeReorganises, NodeFinalises, Poll, DetectFork, Tick, Crash, vars, writerVars
<1>2. CASE RegisterReads \/ RegisterWrites \/ Unregister
    BY <1>2 DEF RegisterReads, RegisterWrites, Unregister, writerVars
<1>3. CASE DispatcherStep
    BY <1>3 DEF DispatcherStep, Wake, ReadTip, ReadTipFails, ReadPage, Post, MarkDelivered,
                Fail, NextRound, Rested, writerVars
<1> QED
    BY <1>1, <1>2, <1>3 DEF Next

\* What stays does so through every step, unless finality passed it when its
\* rollback was decided on: any other rollback stops above it.
LEMMA StaysKept ==
    ASSUME TypeInv, [Next]_vars, known <= finalized, finalized # None, RewindSpares,
           NEW b \in Block, Stays(b)
    PROVE  b \in overrun \/ Stays(b)'
<1>1. /\ b.height \in Heights /\ b.height \in Nat /\ MaxHeight \in Nat /\ cursor \in Int
      /\ finalized \in Int /\ known \in Int /\ None = -1 /\ known >= -1 /\ finalized >= -1
    BY StoreKnown DEF Block, Heights
<1>2. b.height <= finalized' /\ (known' # None => b.height <= known')
    BY <1>1, FinalityMoves DEF Stays
<1>3. b.height <= cursor
    <2> SUFFICES ASSUME ~(b.height <= cursor) PROVE FALSE
        OBVIOUS
    <2>1. rows[b.height] = NoBlock
        BY <1>1 DEF TypeInv, RowsToCursor
    <2> QED
        BY <1>1, <2>1 DEF Stays, NoBlock, Block, Heights
<1>4. b \in overrun \/ rows'[b.height] = rows[b.height]
    <2>1. CASE Rollback
        <3>1. /\ cursor' = cursor - 1 /\ rewinding
              /\ \A h \in Heights : h <= cursor' => rows'[h] = rows[h]
            BY <2>1, RollbackKnown
        <3>2. b.height <= known /\ (cursor > known \/ rows[cursor] \in overrun)
            BY <3>1 DEF Stays, RewindSpares
        <3>3. CASE b.height = cursor
            BY <1>1, <3>2, <3>3 DEF Stays
        <3>4. CASE b.height # cursor
            BY <1>1, <1>3, <3>1, <3>4
        <3> QED
            BY <3>3, <3>4
    <2>2. CASE Commit
        BY <1>1, <1>3, <2>2, CommitKnown
    <2> QED
        BY <2>1, <2>2, RowsMove
<1> QED
    BY <1>2, <1>4 DEF Stays

\* A rollback is decided on with what is known, and finality that passes its block
\* later is marked.
LEMMA SparesKept ==
    ASSUME TypeInv, FinalInv, [Next]_vars, finalized' # None
    PROVE  RewindSpares'
<1>1. /\ None = -1 /\ finalized \in Int /\ known \in Int /\ cursor \in Int /\ cursor >= -1
      /\ known >= -1 /\ finalized >= -1
    BY StoreKnown
<1>2. finalized # None /\ RewindSpares
    BY FinalityMoves DEF FinalInv
<1>3. CASE UNCHANGED <<rows, cursor, rewinding, overrun, known>>
    BY <1>2, <1>3 DEF RewindSpares
<1>4. CASE NodeReorganises \/ NodeFinalises \/ RegisterReads \/ Tick \/ UNCHANGED vars
    BY <1>3, <1>4 DEF NodeReorganises, NodeFinalises, RegisterReads, Tick, vars, envVars,
                      writerVars, chainVars
<1>5. CASE Poll
    <2>1. known' = finalized /\ UNCHANGED <<rows, cursor, rewinding>>
          /\ overrun' = IF rewinding /\ cursor <= finalized THEN overrun \cup {rows[cursor]}
                                                           ELSE overrun
        BY <1>5 DEF Poll, writerVars
    <2>2. CASE cursor <= finalized
        BY <1>2, <2>1, <2>2 DEF RewindSpares
    <2>3. CASE ~(cursor <= finalized)
        BY <1>1, <1>2, <2>1, <2>3 DEF RewindSpares
    <2> QED
        BY <2>2, <2>3
<1>6. CASE DetectFork
    <2>1. known # None /\ cursor - 1 >= known /\ UNCHANGED <<cursor, known>>
        BY <1>2, <1>6 DEF DetectFork, Receiving, SparesFinal, writerVars, envVars
    <2> QED
        BY <1>1, <2>1 DEF RewindSpares
<1>7. CASE Commit
    BY <1>7, CommitKnown DEF RewindSpares
<1>8. CASE Rollback
    BY <1>8, RollbackKnown DEF RewindSpares
<1>9. CASE Crash
    BY <1>9 DEF Crash, RewindSpares
<1>10. CASE RegisterWrites \/ Unregister
    <2>1. UNCHANGED <<writerVars, chainVars, known>>
        BY <1>10, RegisterKnown, UnregisterKnown DEF envVars
    <2> QED
        BY <1>3, <2>1 DEF writerVars, chainVars
<1>11. CASE DispatcherStep
    <2>1. UNCHANGED <<writerVars, chainVars, known>>
        BY <1>11 DEF DispatcherStep, Wake, ReadTip, ReadTipFails, ReadPage, Post, MarkDelivered,
                     Fail, NextRound, Rested, envVars
    <2> QED
        BY <1>3, <2>1 DEF writerVars, chainVars
<1> QED
    BY <1>4, <1>5, <1>6, <1>7, <1>8, <1>9, <1>10, <1>11 DEF Next

LEMMA FinalKept == TypeInv /\ TypeInv' /\ FinalInv /\ [Next]_vars => FinalInv'
<1> SUFFICES ASSUME TypeInv, TypeInv', FinalInv, [Next]_vars PROVE FinalInv'
    OBVIOUS
<1>1. /\ None = -1 /\ finalized \in Int /\ known \in Int /\ upTo \in Int /\ cursor \in Int
      /\ known <= finalized /\ known >= -1 /\ finalized >= -1 /\ upTo >= -1 /\ cursor >= -1
    BY StoreKnown DEF FinalInv
<1>2. known' <= finalized' /\ overrun \subseteq overrun'
    BY <1>1, FinalityMoves
<1>9. finalized' # None => RewindSpares'
    BY SparesKept
<1> SUFFICES ASSUME finalized' # None, ~blind'
             PROVE  /\ upTo' <= known' /\ PageStays'
                    /\ \A u \in Urls : \A b \in received'[u] \ overrun' : Stays(b)'
    BY <1>2, <1>9 DEF FinalInv
<1>3. finalized # None /\ ~blind
    BY <1>1, FinalityMoves
<1>4. /\ upTo <= known /\ PageStays /\ RewindSpares
      /\ \A u \in Urls : \A b \in received[u] \ overrun : Stays(b)
    BY <1>3 DEF FinalInv
\* The block in hand stays, so the receiver may have it.
<1>5. /\ DOMAIN page = 1 .. Len(page) /\ page \in Seq(Block)
      /\ \A i \in DOMAIN page : page[i] \in Block /\ page[i].height \in Int
                                 /\ (page[i] \in overrun \/ Stays(page[i]))
    <2>1. DOMAIN page = 1 .. Len(page) /\ page \in Seq(Block)
        BY QueueKnown
    <2>2. ASSUME NEW i \in DOMAIN page
          PROVE  page[i] \in Block /\ page[i].height \in Int /\ (page[i] \in overrun \/ Stays(page[i]))
        <3>1. page[i] \in Block /\ page[i].height \in Int
            <4>1. page[i] \in Block
                BY <2>1
            <4>2. \A b \in Block : b.height \in Int
                BY StoreKnown DEF Block, Heights
            <4> QED
                BY <4>1, <4>2
        <3>2. page[i].height <= upTo /\ (rows[page[i].height] = page[i] \/ page[i] \in overrun)
            BY <1>4 DEF PageStays
        <3> QED
            BY <1>1, <1>4, <3>1, <3>2 DEF Stays
    <2> QED
        BY <2>1, <2>2
<1>6. ASSUME NEW u \in Urls, NEW b \in received'[u] \ overrun' PROVE Stays(b)'
    <2>1. received \in [Urls -> SUBSET Block]
        BY DEF TypeInv, TypeOK
    <2>2. b \in received[u] \/ (page # <<>> /\ b = Head(page))
        <3>1. CASE Post
            <4>1. page # <<>>
                BY <3>1 DEF Post, TypeInv, InHand
            <4> QED
                BY <2>1, <3>1, <4>1 DEF Post
        <3>2. CASE RegisterWrites
            BY <3>2, RegisterKnown
        <3>3. CASE Unregister
            BY <3>3, UnregisterKnown
        <3>4. CASE NodeReorganises \/ NodeFinalises \/ Poll \/ DetectFork \/ Commit \/ Rollback \/ UNCHANGED vars
            BY <3>4 DEF NodeReorganises, NodeFinalises, Poll, DetectFork, Commit, Rollback, vars, tableVars
        <3>5. CASE RegisterReads \/ Tick \/ Crash \/ Wake \/ ReadTip \/ ReadTipFails \/ ReadPage
            BY <3>5 DEF RegisterReads, Tick, Crash, Wake, ReadTip, ReadTipFails, ReadPage, tableVars
        <3>6. CASE MarkDelivered \/ Fail \/ NextRound \/ Rested
            BY <3>6 DEF MarkDelivered, Fail, NextRound, Rested, tableVars
        <3> QED
            BY <3>1, <3>2, <3>3, <3>4, <3>5, <3>6 DEF Next, DispatcherStep
    <2>3. b \notin overrun
        BY <1>2
    <2>4. b \in Block /\ Stays(b)
        BY <1>4, <1>5, <2>1, <2>2, <2>3, QueueKnown
    <2> QED
        BY <1>1, <1>3, <1>4, <2>3, <2>4, StaysKept
<1>7. upTo' <= known'
    <2>1. CASE ReadTip
        <3>1. /\ queue' \in InOrder({c \in ToSet(queue) : c.cursor < Deliverable(cursor, known)
                                                          /\ c.id \notin resting})
              /\ upTo' = IF queue' = <<>> THEN None ELSE Deliverable(cursor, known)
              /\ known' = known /\ finalized' = finalized
              /\ blind' = (blind \/ (cursor # None /\ ~Receiving))
            BY <2>1 DEF ReadTip, envVars, chainVars
        <3>2. CASE known # None
            <4>1. Deliverable(cursor, known) <= known
                BY <1>1, <3>2 DEF Deliverable, Smaller
            <4> QED
                BY <1>1, <3>1, <4>1
        <3>3. CASE known = None
            <4>1. cursor = None
                BY <1>3, <3>1, <3>3 DEF Receiving
            <4>2. Deliverable(cursor, known) = -1
                BY <1>1, <3>3, <4>1 DEF Deliverable
            <4>3. ToSet(queue') = {}
                <5> SUFFICES ASSUME NEW d \in ToSet(queue') PROVE FALSE
                    OBVIOUS
                <5>1. d.cursor < -1 /\ d \in Copies
                    BY <2>1, <4>2, QueueRead DEF Copies
                <5>2. d.cursor \in Int /\ d.cursor >= -1
                    BY <5>1, QueueKnown
                <5> QED
                    BY <5>1, <5>2
            <4>4. queue' = <<>>
                <5>1. queue' \in Seq(Copy)
                    BY DEF TypeInv, TypeOK
                <5> HIDE DEF Copy
                <5>2. DOMAIN queue' = 1 .. Len(queue') /\ Len(queue') \in Nat
                      /\ (queue' = <<>> <=> Len(queue') = 0)
                    BY <5>1, EmptyKnown, LenProperties
                <5>3. DOMAIN queue' = {}
                    BY <4>3 DEF ToSet
                <5> QED
                    BY <5>2, <5>3
            <4> QED
                BY <1>1, <3>1, <3>3, <4>4
        <3> QED
            BY <3>2, <3>3
    <2>2. CASE Crash
        BY <1>1, <2>2 DEF Crash
    <2>3. CASE NextRound
        BY <1>1, <1>4, <2>3 DEF NextRound, envVars
    <2>4. CASE ~ReadTip /\ ~Crash /\ ~NextRound
        <3>1. upTo' = upTo
            BY <2>4, UpToMoves
        <3> QED
            BY <1>1, <1>3, <1>4, <2>4, <3>1, FinalityMoves
    <2> QED
        BY <2>1, <2>2, <2>3, <2>4
<1>8. PageStays'
    <2>1. CASE page' = <<>>
        BY <2>1, BlockSeqs DEF PageStays
    <2>2. CASE ReadPage
        <3>1. UNCHANGED <<rows, upTo>>
            BY <2>2 DEF ReadPage, writerVars
        <3> QED
            BY <2>1, <2>2, <3>1, ReadPageKnown DEF PageStays
    <2>3. ASSUME upTo' = upTo, \A i \in DOMAIN page' : \E j \in DOMAIN page : page'[i] = page[j]
          PROVE  PageStays'
        <3> SUFFICES ASSUME NEW i \in DOMAIN page'
                     PROVE  /\ page'[i].height <= upTo'
                            /\ rows'[page'[i].height] = page'[i] \/ page'[i] \in overrun'
            BY DEF PageStays
        <3>1. PICK j \in DOMAIN page : page'[i] = page[j]
            BY <2>3
        <3>2. page[j].height <= upTo'
            BY <1>4, <2>3 DEF PageStays
        <3>3. rows'[page[j].height] = page[j] \/ page[j] \in overrun'
            <4>1. PICK b : b = page[j]
                OBVIOUS
            <4>2. b \in Block /\ (b \in overrun \/ Stays(b))
                BY <1>5, <4>1
            <4>3. b \in overrun \/ Stays(b)'
                BY <1>1, <1>3, <1>4, <4>2, StaysKept
            <4> QED
                BY <1>2, <4>1, <4>3 DEF Stays
        <3> QED
            BY <3>1, <3>2, <3>3
    <2>4. CASE MarkDelivered /\ page' = Tail(page)
        <3>1. page # <<>> /\ upTo' = upTo
            BY <2>4, MarkKnown DEF MarkDelivered
        <3>2. /\ Len(page) \in Nat /\ DOMAIN page = 1 .. Len(page)
              /\ DOMAIN page' = 1 .. Len(page) - 1
              /\ \A i \in 1 .. Len(page) - 1 : page'[i] = page[i + 1]
            BY <1>5, <2>4, <3>1, BlockTail
        <3>3. ASSUME NEW i \in DOMAIN page' PROVE \E j \in DOMAIN page : page'[i] = page[j]
            BY <3>2
        <3> QED
            BY <2>3, <3>1, <3>3
    <2>5. CASE page' = page /\ page' # <<>>
        <3>1. upTo' = upTo
            <4>1. phase' \in {"post", "mark"} /\ phase \in {"post", "mark"}
                BY <2>5 DEF TypeInv, InHand
            <4>2. ~ReadTip /\ ~Crash /\ ~NextRound
                BY <4>1 DEF ReadTip, Crash, NextRound
            <4> QED
                BY <4>2, UpToMoves
        <3> QED
            BY <2>3, <2>5, <3>1
    <2> QED
        BY <2>1, <2>2, <2>4, <2>5, InHandSteps, MarkKnown
<1> QED
    BY <1>6, <1>7, <1>8

\* Nothing a hook received under finality is un-indexed, for any node, any forks,
\* crashes and failures and any order of the reader, the index task and the
\* dispatcher, as long as no delivery was begun without knowing the finalized
\* height, and unless finality passed the block between the decision on its
\* rollback and the rollback.
THEOREM FinalAlwaysStands == Spec => []FinalStands
<1>1. Init => FinalInv
    <2>1. DOMAIN <<>> = {} /\ None = -1
        BY CopySeqs DEF None
    <2> QED
        BY <2>1 DEF Init, FinalInv, PageStays, RewindSpares
<1>2. FinalInv => FinalStands
    BY DEF FinalInv, FinalStands, Stays
<1> QED
    BY <1>1, <1>2, FinalKept, TypesAlways, PTL DEF Spec
=============================================================================
