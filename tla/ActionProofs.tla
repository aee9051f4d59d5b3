---------------------------- MODULE ActionProofs ----------------------------
(***************************************************************************)
(* Theorems about the tables derived from actions and the lists read from  *)
(* them: the tables are a view of the stored blocks, address rows are what *)
(* the rules make of them unless a rollback overtook a reindex, first-seen *)
(* follows, and a client that walks a list or reads a range of blocks gets *)
(* all of what stood meanwhile.                                            *)
(***************************************************************************)
EXTENDS ActionReads, WriterProofs, FiniteSetTheorems, FunctionTheorems

USE BlocksAssumption, WriterAssumption

-----------------------------------------------------------------------------
(***************************************************************************)
(* The actions of one block.                                               *)
(***************************************************************************)
Contents == Bodies \cup {NoBody}

LEMMA ContentsKnown ==
    ASSUME NEW b \in Contents
    PROVE  /\ b.acts \in Seq(Action) /\ DOMAIN b.acts \subseteq Nat \ {0}
           /\ b.drops \subseteq Sigs
           /\ \A i, j \in DOMAIN b.acts :
                b.acts[i].sig = b.acts[j].sig /\ b.acts[i].sig # Unsigned => b.acts[i] = b.acts[j]
<1>1. CASE b \in Bodies
    BY <1>1, ActionsAssumption
<1>2. CASE b = NoBody
    BY <1>2 DEF NoBody
<1> QED
    BY <1>1, <1>2 DEF Contents

LEMMA SigKnown == \A a \in Action : a.sig = Unsigned \/ a.sig \in Nat \ {0}
<1>1. Sigs \subseteq Nat \ {0}
    BY ActionsAssumption
<1> QED
    BY <1>1 DEF Action

LEMMA IdentityKnown ==
    ASSUME NEW a \in Action, NEW h \in Heights, NEW i \in Nat
    PROVE  Identity(a, h, i) \in Ids
<1>1. a.sig \in Nat /\ h + 1 \in Nat
    BY SigKnown DEF Unsigned, Heights
<1> QED
    BY <1>1 DEF Identity, Ids

LEMMA BlockActionsKnown ==
    ASSUME NEW h \in Heights, NEW b \in Contents, NEW a \in BlockActions(h, b)
    PROVE  /\ a \in ActionRow /\ a.height = h
           /\ a.index \in DOMAIN b.acts /\ a.act = b.acts[a.index]
           /\ a.id = Identity(a.act, h, a.index)
           /\ \A j \in 1 .. a.index - 1 : Identity(b.acts[j], h, j) # a.id
<1>1. PICK i \in DOMAIN b.acts :
        /\ \A j \in 1 .. i - 1 : Identity(b.acts[j], h, j) # Identity(b.acts[i], h, i)
        /\ a = [id |-> Identity(b.acts[i], h, i), height |-> h, index |-> i, act |-> b.acts[i]]
    BY DEF BlockActions
<1>2. b.acts[i] \in Action /\ i \in Nat
    BY <1>1, ContentsKnown
<1>3. Identity(b.acts[i], h, i) \in Ids
    BY <1>2, IdentityKnown
<1> QED
    BY <1>1, <1>2, <1>3 DEF ActionRow

\* Within a block an identity is of one row,
LEMMA ApartInBlock ==
    ASSUME NEW h \in Heights, NEW b \in Contents,
           NEW a \in BlockActions(h, b), NEW c \in BlockActions(h, b), a.id = c.id
    PROVE  a = c
<1>1. a.index = c.index
    <2>1. /\ a.index \in DOMAIN b.acts /\ c.index \in DOMAIN b.acts
          /\ a.id = Identity(b.acts[a.index], h, a.index)
          /\ c.id = Identity(b.acts[c.index], h, c.index)
          /\ \A j \in 1 .. a.index - 1 : Identity(b.acts[j], h, j) # a.id
          /\ \A j \in 1 .. c.index - 1 : Identity(b.acts[j], h, j) # c.id
        BY BlockActionsKnown
    <2>2. a.index \in Nat \ {0} /\ c.index \in Nat \ {0}
        BY <2>1, ContentsKnown
    <2>3. ASSUME a.index < c.index PROVE FALSE
        <3>1. a.index \in 1 .. c.index - 1
            BY <2>2, <2>3
        <3> QED
            BY <2>1, <3>1
    <2>4. ASSUME c.index < a.index PROVE FALSE
        <3>1. c.index \in 1 .. a.index - 1
            BY <2>2, <2>4
        <3> QED
            BY <2>1, <3>1
    <2> QED
        BY <2>2, <2>3, <2>4
<1>2. a.height = h /\ c.height = h /\ a.act = c.act
    BY <1>1, BlockActionsKnown
<1>3. a \in ActionRow /\ c \in ActionRow
    BY BlockActionsKnown
<1> QED
    BY <1>1, <1>2, <1>3 DEF ActionRow

\* and so it is across blocks that share no signature.
LEMMA ApartAcross ==
    ASSUME NEW g \in Heights, NEW h \in Heights, g # h,
           NEW b \in Contents, NEW d \in Contents, Signed(b) \cap Signed(d) = {},
           NEW a \in BlockActions(g, b), NEW c \in BlockActions(h, d)
    PROVE  a.id # c.id
<1>1. /\ a.index \in DOMAIN b.acts /\ a.act = b.acts[a.index]
      /\ a.id = Identity(a.act, g, a.index)
    BY BlockActionsKnown
<1>2. /\ c.index \in DOMAIN d.acts /\ c.act = d.acts[c.index]
      /\ c.id = Identity(c.act, h, c.index)
    BY BlockActionsKnown
<1>3. /\ a.act.sig # Unsigned => a.act.sig \in Signed(b)
      /\ c.act.sig # Unsigned => c.act.sig \in Signed(d)
    BY <1>1, <1>2 DEF Signed
<1>4. a.act.sig # Unsigned /\ c.act.sig # Unsigned => a.act.sig # c.act.sig
    BY <1>3
<1>5. g \in Int /\ h \in Int /\ g >= 0 /\ h >= 0
    BY DEF Heights
<1> QED
    BY <1>1, <1>2, <1>4, <1>5 DEF Identity, Unsigned

\* Every action of a block has a row, or one it repeats has.
LEMMA FirstHasRow ==
    ASSUME NEW h \in Heights, NEW b \in Contents, NEW i \in DOMAIN b.acts
    PROVE  \E a \in BlockActions(h, b) : a.id = Identity(b.acts[i], h, i) /\ a.act = b.acts[i]
<1> DEFINE id(j) == Identity(b.acts[j], h, j)
           T == {j \in DOMAIN b.acts : id(j) = id(i)}
<1>1. T \in SUBSET Nat /\ T # {}
    BY ContentsKnown
<1>2. PICK j \in T : \A k \in T : j <= k
    BY <1>1, Least
<1>3. j \in DOMAIN b.acts /\ id(j) = id(i) /\ j \in Nat /\ i \in Nat
    BY <1>2, ContentsKnown
<1>4. \A k \in 1 .. j - 1 : k \in DOMAIN b.acts
    BY <1>3, ContentsKnown
<1>5. \A k \in 1 .. j - 1 : id(k) # id(j)
    BY <1>2, <1>3, <1>4
<1>6. b.acts[j] = b.acts[i]
    <2>0. b.acts[i] \in Action /\ b.acts[j] \in Action
        BY <1>3, ContentsKnown
    <2>1. b.acts[i].sig = Unsigned \/ b.acts[i].sig \in Nat \ {0}
        BY <2>0, SigKnown
    <2>2. b.acts[j].sig = Unsigned \/ b.acts[j].sig \in Nat \ {0}
        BY <2>0, SigKnown
    <2>3. h + 1 # 0
        BY DEF Heights
    <2>4. CASE b.acts[i].sig = Unsigned
        BY <1>3, <2>2, <2>3, <2>4 DEF Identity
    <2>5. CASE b.acts[i].sig # Unsigned
        <3>1. b.acts[j].sig = b.acts[i].sig
            BY <1>3, <2>3, <2>5 DEF Identity
        <3> QED
            BY <1>3, <2>5, <3>1, ContentsKnown
    <2> QED
        BY <2>4, <2>5
<1>7. [id |-> id(j), height |-> h, index |-> j, act |-> b.acts[j]] \in BlockActions(h, b)
    BY <1>3, <1>5 DEF BlockActions
<1> QED
    BY <1>3, <1>6, <1>7

-----------------------------------------------------------------------------
(***************************************************************************)
(* The tables and the stored blocks.                                       *)
(***************************************************************************)
\* Each table holds the rows of the stored blocks, and these share no signature.
TablesInv ==
    /\ WriterInv
    /\ bodies \in [Heights -> Contents]
    /\ actions = Stored
    /\ senders = UNION {SenderRows(h, bodies[h]) : h \in 0 .. cursor}
    /\ events = EventRows(Stored) /\ assets = AssetRows(Stored)
    /\ dropped = UNION {DropRows(h, bodies[h]) : h \in 0 .. cursor}
    /\ \A g, h \in 0 .. cursor : g # h => Signed(bodies[g]) \cap Signed(bodies[h]) = {}

LEMMA CursorKnown ==
    ASSUME WriterInv
    PROVE  cursor \in Int /\ cursor >= -1 /\ \A h \in 0 .. cursor : h \in Heights
BY DEF WriterInv, WriterTypeOK, Heights, None

LEMMA StoredKnown ==
    ASSUME TablesInv, NEW a \in Stored
    PROVE  /\ a \in ActionRow /\ a.height \in 0 .. cursor
           /\ bodies[a.height] \in Contents /\ a \in BlockActions(a.height, bodies[a.height])
<1>1. PICK h \in 0 .. cursor : a \in BlockActions(h, bodies[h])
    BY DEF Stored
<1>2. h \in Heights /\ bodies[h] \in Contents
    BY CursorKnown DEF TablesInv
<1> QED
    BY <1>1, <1>2, BlockActionsKnown

\* An identity is of one stored action.
LEMMA StoredApart ==
    ASSUME TablesInv, NEW a \in Stored, NEW c \in Stored, a.id = c.id
    PROVE  a = c
<1>1. /\ a.height \in 0 .. cursor /\ bodies[a.height] \in Contents /\ a.height \in Heights
      /\ a \in BlockActions(a.height, bodies[a.height])
    BY StoredKnown, CursorKnown DEF TablesInv
<1>2. /\ c.height \in 0 .. cursor /\ bodies[c.height] \in Contents /\ c.height \in Heights
      /\ c \in BlockActions(c.height, bodies[c.height])
    BY StoredKnown, CursorKnown DEF TablesInv
<1>3. CASE a.height = c.height
    BY <1>1, <1>2, <1>3, ApartInBlock
<1>4. CASE a.height # c.height
    <2>1. Signed(bodies[a.height]) \cap Signed(bodies[c.height]) = {}
        BY <1>1, <1>2, <1>4 DEF TablesInv
    <2> QED
        BY <1>1, <1>2, <1>4, <2>1, ApartAcross
<1> QED
    BY <1>3, <1>4

\* What a batch is: blocks above the cursor, sharing no signature with others.
Batch(n, bs) ==
    /\ n \in Nat \ {0} /\ cursor + n \in Heights /\ cursor' = cursor + n
    /\ bs \in [cursor + 1 .. cursor + n -> Bodies]
    /\ Fresh(bs)
    /\ bodies' = [h \in Heights |-> IF h \in DOMAIN bs THEN bs[h] ELSE bodies[h]]

LEMMA BatchStands ==
    ASSUME TablesInv, NEW n, NEW bs, Batch(n, bs)
    PROVE  /\ bodies' \in [Heights -> Contents]
           /\ DOMAIN bs = cursor + 1 .. cursor + n
           /\ 0 .. cursor' = (0 .. cursor) \cup DOMAIN bs
           /\ \A h \in DOMAIN bs : /\ h \in Heights /\ h \notin 0 .. cursor
                                   /\ bs[h] \in Contents /\ bodies'[h] = bs[h]
           /\ \A h \in 0 .. cursor : h \in Heights /\ bodies'[h] = bodies[h]
           /\ \A g, h \in 0 .. cursor' :
                g # h => Signed(bodies'[g]) \cap Signed(bodies'[h]) = {}
<1>1. cursor \in Int /\ cursor >= -1 /\ n \in Nat /\ cursor + n \in Heights
    BY CursorKnown DEF TablesInv, Batch
<1>2. DOMAIN bs = cursor + 1 .. cursor + n
    BY DEF Batch
<1>3. 0 .. cursor' = (0 .. cursor) \cup DOMAIN bs
    BY <1>1, <1>2 DEF Batch
<1>4. \A h \in 0 .. cursor : h \in Heights /\ h \notin DOMAIN bs
    BY <1>1, <1>2, CursorKnown DEF TablesInv
<1>5. \A h \in DOMAIN bs : h \in Heights /\ h \notin 0 .. cursor /\ bs[h] \in Bodies
    BY <1>1, <1>2 DEF Batch, Heights
<1>6. \A h \in 0 .. cursor : bodies'[h] = bodies[h]
    BY <1>4 DEF Batch
<1>7. \A h \in DOMAIN bs : bodies'[h] = bs[h]
    BY <1>5 DEF Batch
<1>8. \A g, h \in 0 .. cursor' :
         g # h => Signed(bodies'[g]) \cap Signed(bodies'[h]) = {}
    <2> SUFFICES ASSUME NEW g \in 0 .. cursor', NEW h \in 0 .. cursor', g # h
                 PROVE  Signed(bodies'[g]) \cap Signed(bodies'[h]) = {}
        OBVIOUS
    <2>1. CASE g \in DOMAIN bs /\ h \in DOMAIN bs
        BY <1>7, <2>1 DEF Batch, Fresh
    <2>2. CASE g \in DOMAIN bs /\ h \in 0 .. cursor
        BY <1>6, <1>7, <2>2 DEF Batch, Fresh
    <2>3. CASE g \in 0 .. cursor /\ h \in DOMAIN bs
        BY <1>6, <1>7, <2>3 DEF Batch, Fresh
    <2>4. CASE g \in 0 .. cursor /\ h \in 0 .. cursor
        BY <1>6, <2>4 DEF TablesInv
    <2> QED
        BY <1>3, <2>1, <2>2, <2>3, <2>4
<1>9. bodies' \in [Heights -> Contents]
    BY <1>5 DEF Batch, TablesInv, Contents
<1> QED
    BY <1>2, <1>3, <1>4, <1>5, <1>6, <1>7, <1>8, <1>9 DEF Contents

\* None of a batch's actions is there yet: its rows are all inserted.
LEMMA BatchIsNew ==
    ASSUME TablesInv, NEW n, NEW bs, Batch(n, bs), NEW h \in DOMAIN bs,
           NEW a \in BlockActions(h, bs[h]), NEW c \in Stored
    PROVE  a.id # c.id
<1>1. /\ h \in Heights /\ h \notin 0 .. cursor /\ bs[h] \in Contents
    BY BatchStands
<1>2. /\ c.height \in 0 .. cursor /\ c.height \in Heights /\ bodies[c.height] \in Contents
      /\ c \in BlockActions(c.height, bodies[c.height])
    BY StoredKnown, CursorKnown DEF TablesInv
<1>3. Signed(bs[h]) \cap Signed(bodies[c.height]) = {}
    BY <1>2 DEF Batch, Fresh
<1> QED
    BY <1>1, <1>2, <1>3, ApartAcross

LEMMA BatchRows ==
    ASSUME TablesInv, NEW n, NEW bs, Batch(n, bs)
    PROVE  /\ \A h \in DOMAIN bs : ActionRows(h, bs[h]) = BlockActions(h, bs[h])
           /\ Stored' = Stored \cup UNION {BlockActions(h, bs[h]) : h \in DOMAIN bs}
           /\ UNION {SenderRows(h, bodies'[h]) : h \in 0 .. cursor'}
                = (UNION {SenderRows(h, bodies[h]) : h \in 0 .. cursor})
                    \cup UNION {SenderRows(h, bs[h]) : h \in DOMAIN bs}
           /\ UNION {DropRows(h, bodies'[h]) : h \in 0 .. cursor'}
                = (UNION {DropRows(h, bodies[h]) : h \in 0 .. cursor})
                    \cup UNION {DropRows(h, bs[h]) : h \in DOMAIN bs}
<1>0. /\ 0 .. cursor' = (0 .. cursor) \cup DOMAIN bs
      /\ \A h \in DOMAIN bs : bodies'[h] = bs[h]
      /\ \A h \in 0 .. cursor : bodies'[h] = bodies[h]
    BY BatchStands
<1>1. ASSUME NEW h \in DOMAIN bs PROVE ActionRows(h, bs[h]) = BlockActions(h, bs[h])
    <2>1. \A a \in BlockActions(h, bs[h]) : \A m \in actions : m.id # a.id
        BY BatchIsNew DEF TablesInv
    <2> QED
        BY <2>1 DEF ActionRows
<1>2. Stored' = Stored \cup UNION {BlockActions(h, bs[h]) : h \in DOMAIN bs}
    BY BatchStands DEF Stored
<1>3. UNION {SenderRows(h, bodies'[h]) : h \in 0 .. cursor'}
        = (UNION {SenderRows(h, bodies[h]) : h \in 0 .. cursor})
            \cup UNION {SenderRows(h, bs[h]) : h \in DOMAIN bs}
    <2>1. ASSUME NEW x, NEW h \in 0 .. cursor', x \in SenderRows(h, bodies'[h])
          PROVE  \/ \E g \in 0 .. cursor : x \in SenderRows(g, bodies[g])
                 \/ \E g \in DOMAIN bs : x \in SenderRows(g, bs[g])
        BY <1>0, <2>1
    <2>2. ASSUME NEW x, NEW h \in 0 .. cursor, x \in SenderRows(h, bodies[h])
          PROVE  \E g \in 0 .. cursor' : x \in SenderRows(g, bodies'[g])
        BY <1>0, <2>2
    <2>3. ASSUME NEW x, NEW h \in DOMAIN bs, x \in SenderRows(h, bs[h])
          PROVE  \E g \in 0 .. cursor' : x \in SenderRows(g, bodies'[g])
        BY <1>0, <2>3
    <2> QED
        BY <2>1, <2>2, <2>3
<1>4. UNION {DropRows(h, bodies'[h]) : h \in 0 .. cursor'}
        = (UNION {DropRows(h, bodies[h]) : h \in 0 .. cursor})
            \cup UNION {DropRows(h, bs[h]) : h \in DOMAIN bs}
    <2>1. ASSUME NEW x, NEW h \in 0 .. cursor', x \in DropRows(h, bodies'[h])
          PROVE  \/ \E g \in 0 .. cursor : x \in DropRows(g, bodies[g])
                 \/ \E g \in DOMAIN bs : x \in DropRows(g, bs[g])
        BY <1>0, <2>1
    <2>2. ASSUME NEW x, NEW h \in 0 .. cursor, x \in DropRows(h, bodies[h])
          PROVE  \E g \in 0 .. cursor' : x \in DropRows(g, bodies'[g])
        BY <1>0, <2>2
    <2>3. ASSUME NEW x, NEW h \in DOMAIN bs, x \in DropRows(h, bs[h])
          PROVE  \E g \in 0 .. cursor' : x \in DropRows(g, bodies'[g])
        BY <1>0, <2>3
    <2> QED
        BY <2>1, <2>2, <2>3
<1> QED
    BY <1>1, <1>2, <1>3, <1>4

LEMMA CommitIsBatch ==
    ASSUME TablesInv, Commit
    PROVE  \E n, bs :
             /\ Batch(n, bs) /\ WriterInv'
             /\ actions' = actions \cup UNION {ActionRows(h, bs[h]) : h \in DOMAIN bs}
             /\ senders' = senders \cup UNION {SenderRows(h, bs[h]) : h \in DOMAIN bs}
             /\ addressed' = addressed \cup UNION {AddressRows(h, bs[h]) : h \in DOMAIN bs}
             /\ events' = events \cup EventRows(UNION {ActionRows(h, bs[h]) : h \in DOMAIN bs})
             /\ assets' = assets \cup AssetRows(UNION {ActionRows(h, bs[h]) : h \in DOMAIN bs})
             /\ dropped' = dropped \cup UNION {DropRows(h, bs[h]) : h \in DOMAIN bs}
             /\ UNCHANGED reindexVars
<1>0. PICK n \in 1 .. Smaller(MaxBatch, MaxHeight - cursor) :
        \E bs \in [cursor + 1 .. cursor + n -> Bodies] :
            /\ Fresh(bs)
            /\ Store(BlocksAbove(n))
            /\ bodies' = [h \in Heights |-> IF h \in DOMAIN bs THEN bs[h] ELSE bodies[h]]
            /\ actions' = actions \cup UNION {ActionRows(h, bs[h]) : h \in DOMAIN bs}
            /\ senders' = senders \cup UNION {SenderRows(h, bs[h]) : h \in DOMAIN bs}
            /\ addressed' = addressed \cup UNION {AddressRows(h, bs[h]) : h \in DOMAIN bs}
            /\ events' = events \cup EventRows(UNION {ActionRows(h, bs[h]) : h \in DOMAIN bs})
            /\ assets' = assets \cup AssetRows(UNION {ActionRows(h, bs[h]) : h \in DOMAIN bs})
            /\ dropped' = dropped \cup UNION {DropRows(h, bs[h]) : h \in DOMAIN bs}
            /\ UNCHANGED <<branch, reindexVars>>
    BY DEF Commit
<1>1. PICK bs \in [cursor + 1 .. cursor + n -> Bodies] :
        /\ Fresh(bs)
        /\ Store(BlocksAbove(n))
        /\ bodies' = [h \in Heights |-> IF h \in DOMAIN bs THEN bs[h] ELSE bodies[h]]
        /\ actions' = actions \cup UNION {ActionRows(h, bs[h]) : h \in DOMAIN bs}
        /\ senders' = senders \cup UNION {SenderRows(h, bs[h]) : h \in DOMAIN bs}
        /\ addressed' = addressed \cup UNION {AddressRows(h, bs[h]) : h \in DOMAIN bs}
        /\ events' = events \cup EventRows(UNION {ActionRows(h, bs[h]) : h \in DOMAIN bs})
        /\ assets' = assets \cup AssetRows(UNION {ActionRows(h, bs[h]) : h \in DOMAIN bs})
        /\ dropped' = dropped \cup UNION {DropRows(h, bs[h]) : h \in DOMAIN bs}
        /\ UNCHANGED <<branch, reindexVars>>
    BY <1>0
<1>2. WriterInv /\ branch' \in Hashes
    BY <1>1 DEF TablesInv, WriterInv, WriterTypeOK
<1>3. WriterInv' /\ cursor' = cursor + n
    BY <1>1, <1>2, StoreGrows
<1>4. n \in Nat \ {0} /\ cursor + n \in Heights
    BY <1>2, BatchAbove
<1>5. Batch(n, bs)
    BY <1>1, <1>3, <1>4 DEF Batch
<1> QED
    BY <1>1, <1>3, <1>5

LEMMA CommitKeepsTables == TablesInv /\ Commit => TablesInv'
<1> SUFFICES ASSUME TablesInv, Commit PROVE TablesInv'
    OBVIOUS
<1>1. PICK n, bs :
        /\ Batch(n, bs) /\ WriterInv'
        /\ actions' = actions \cup UNION {ActionRows(h, bs[h]) : h \in DOMAIN bs}
        /\ senders' = senders \cup UNION {SenderRows(h, bs[h]) : h \in DOMAIN bs}
        /\ events' = events \cup EventRows(UNION {ActionRows(h, bs[h]) : h \in DOMAIN bs})
        /\ assets' = assets \cup AssetRows(UNION {ActionRows(h, bs[h]) : h \in DOMAIN bs})
        /\ dropped' = dropped \cup UNION {DropRows(h, bs[h]) : h \in DOMAIN bs}
    BY CommitIsBatch
<1> DEFINE new == UNION {BlockActions(h, bs[h]) : h \in DOMAIN bs}
<1>2. UNION {ActionRows(h, bs[h]) : h \in DOMAIN bs} = new /\ Stored' = Stored \cup new
    BY <1>1, BatchRows
<1>3. actions' = Stored'
    BY <1>1, <1>2 DEF TablesInv
<1>4. events' = EventRows(Stored')
    <2>1. events' = EventRows(Stored) \cup EventRows(new)
        BY <1>1, <1>2 DEF TablesInv
    <2> QED
        BY <1>2, <2>1 DEF EventRows
<1>5. assets' = AssetRows(Stored')
    <2>1. assets' = AssetRows(Stored) \cup AssetRows(new)
        BY <1>1, <1>2 DEF TablesInv
    <2> QED
        BY <1>2, <2>1 DEF AssetRows
<1>6. senders' = UNION {SenderRows(h, bodies'[h]) : h \in 0 .. cursor'}
    <2>1. senders = UNION {SenderRows(h, bodies[h]) : h \in 0 .. cursor}
        BY DEF TablesInv
    <2> QED
        BY <1>1, <2>1, BatchRows
<1>7. dropped' = UNION {DropRows(h, bodies'[h]) : h \in 0 .. cursor'}
    <2>1. dropped = UNION {DropRows(h, bodies[h]) : h \in 0 .. cursor}
        BY DEF TablesInv
    <2> QED
        BY <1>1, <2>1, BatchRows
<1>8. /\ bodies' \in [Heights -> Contents]
      /\ \A g, h \in 0 .. cursor' : g # h => Signed(bodies'[g]) \cap Signed(bodies'[h]) = {}
    BY <1>1, BatchStands
<1> QED
    BY <1>1, <1>3, <1>4, <1>5, <1>6, <1>7, <1>8 DEF TablesInv

LEMMA RollbackStands ==
    ASSUME TablesInv, Rollback
    PROVE  /\ WriterInv' /\ cursor \in Heights /\ cursor' = cursor - 1
           /\ bodies' \in [Heights -> Contents]
           /\ \A h \in 0 .. cursor' : /\ h \in 0 .. cursor /\ h <= cursor - 1
                                      /\ bodies'[h] = bodies[h]
           /\ \A h \in 0 .. cursor : h <= cursor - 1 => h \in 0 .. cursor'
<1>1. Unstore /\ branch' \in Hashes
    BY DEF Rollback, TablesInv, WriterInv, WriterTypeOK, Hashes
<1>2. WriterInv' /\ cursor' = cursor - 1
    BY <1>1, UnstoreRetracts DEF TablesInv
<1>3. cursor \in Heights /\ cursor > 0
    BY <1>1 DEF Unstore, TablesInv, WriterInv, WriterTypeOK, None
<1>4. bodies' = [bodies EXCEPT ![cursor] = NoBody]
    BY DEF Rollback
<1>5. bodies' \in [Heights -> Contents]
    BY <1>3, <1>4 DEF TablesInv, Contents
<1>6. /\ \A h \in 0 .. cursor' : h \in 0 .. cursor /\ h <= cursor - 1 /\ h # cursor
      /\ \A h \in 0 .. cursor : h <= cursor - 1 => h \in 0 .. cursor'
    BY <1>2, <1>3 DEF Heights
<1>7. \A h \in 0 .. cursor' : bodies'[h] = bodies[h]
    BY <1>4, <1>6, CursorKnown DEF TablesInv
<1> QED
    BY <1>2, <1>3, <1>5, <1>6, <1>7

LEMMA RollbackRetracts ==
    ASSUME TablesInv, Rollback
    PROVE  Stored' = UpTo(Stored, cursor - 1)
<1>1. ASSUME NEW a \in Stored' PROVE a \in Stored /\ a.height <= cursor - 1
    <2>1. PICK h \in 0 .. cursor' : a \in BlockActions(h, bodies'[h])
        BY DEF Stored
    <2>2. h \in 0 .. cursor /\ h <= cursor - 1 /\ a \in BlockActions(h, bodies[h])
        BY <2>1, RollbackStands
    <2>3. h \in Heights /\ bodies[h] \in Contents
        BY <2>2, CursorKnown DEF TablesInv
    <2>4. a.height = h
        BY <2>2, <2>3, BlockActionsKnown
    <2> QED
        BY <2>2, <2>4 DEF Stored
<1>2. ASSUME NEW a \in Stored, a.height <= cursor - 1 PROVE a \in Stored'
    <2>1. a.height \in 0 .. cursor /\ a \in BlockActions(a.height, bodies[a.height])
        BY StoredKnown
    <2>2. a.height \in 0 .. cursor' /\ bodies'[a.height] = bodies[a.height]
        BY <1>2, <2>1, RollbackStands
    <2> QED
        BY <2>1, <2>2 DEF Stored
<1> QED
    BY <1>1, <1>2 DEF UpTo

LEMMA RollbackKeepsTables == TablesInv /\ Rollback => TablesInv'
<1> SUFFICES ASSUME TablesInv, Rollback PROVE TablesInv'
    OBVIOUS
<1> DEFINE r == cursor - 1
<1>1. actions' = Stored'
    BY RollbackRetracts DEF Rollback, TablesInv
<1>2. senders' = UNION {SenderRows(h, bodies'[h]) : h \in 0 .. cursor'}
    <2>1. senders' = UpTo(UNION {SenderRows(h, bodies[h]) : h \in 0 .. cursor}, r)
        BY DEF Rollback, TablesInv
    <2>2. \A h \in 0 .. cursor : \A x \in SenderRows(h, bodies[h]) : x.height = h
        BY DEF SenderRows
    <2>3. ASSUME NEW x \in senders'
          PROVE  \E h \in 0 .. cursor' : x \in SenderRows(h, bodies'[h])
        BY <2>1, <2>2, RollbackStands DEF UpTo
    <2>4. ASSUME NEW h \in 0 .. cursor', NEW x \in SenderRows(h, bodies'[h])
          PROVE  x \in senders'
        BY <2>1, <2>2, RollbackStands DEF UpTo
    <2> QED
        BY <2>3, <2>4
<1>3. dropped' = UNION {DropRows(h, bodies'[h]) : h \in 0 .. cursor'}
    <2>1. dropped' = UpTo(UNION {DropRows(h, bodies[h]) : h \in 0 .. cursor}, r)
        BY DEF Rollback, TablesInv
    <2>2. \A h \in 0 .. cursor : \A x \in DropRows(h, bodies[h]) : x.height = h
        BY DEF DropRows
    <2>3. ASSUME NEW x \in dropped'
          PROVE  \E h \in 0 .. cursor' : x \in DropRows(h, bodies'[h])
        BY <2>1, <2>2, RollbackStands DEF UpTo
    <2>4. ASSUME NEW h \in 0 .. cursor', NEW x \in DropRows(h, bodies'[h])
          PROVE  x \in dropped'
        BY <2>1, <2>2, RollbackStands DEF UpTo
    <2> QED
        BY <2>3, <2>4
<1>4. events' = EventRows(Stored')
    <2>1. events' = UpTo(EventRows(Stored), r)
        BY DEF Rollback, TablesInv
    <2> QED
        BY <2>1, RollbackRetracts DEF EventRows, UpTo
<1>5. assets' = AssetRows(Stored')
    <2>1. assets' = {x \in AssetRows(Stored) : \E a \in Stored' : a.id = x.id}
        BY <1>1 DEF Rollback, TablesInv
    <2>2. \A a \in Stored' : a \in Stored
        BY RollbackRetracts DEF UpTo
    <2>3. ASSUME NEW x \in assets' PROVE x \in AssetRows(Stored')
        <3>1. PICK a \in Stored : /\ a.act.token # NoToken
                                  /\ x = [id |-> a.id, height |-> a.height,
                                          index |-> a.index, token |-> a.act.token]
            BY <2>1 DEF AssetRows
        <3>2. PICK c \in Stored' : c.id = x.id
            BY <2>1
        <3>3. c = a
            BY <2>2, <3>1, <3>2, StoredApart
        <3> QED
            BY <3>1, <3>2, <3>3 DEF AssetRows
    <2>4. ASSUME NEW x \in AssetRows(Stored') PROVE x \in assets'
        <3>1. PICK a \in Stored' : /\ a.act.token # NoToken
                                   /\ x = [id |-> a.id, height |-> a.height,
                                           index |-> a.index, token |-> a.act.token]
            BY DEF AssetRows
        <3>2. x \in AssetRows(Stored) /\ a.id = x.id
            BY <2>2, <3>1 DEF AssetRows
        <3> QED
            BY <2>1, <3>2
    <2> QED
        BY <2>3, <2>4
<1>6. /\ WriterInv' /\ bodies' \in [Heights -> Contents]
      /\ \A g, h \in 0 .. cursor' : g # h => Signed(bodies'[g]) \cap Signed(bodies'[h]) = {}
    BY RollbackStands DEF TablesInv
<1> QED
    BY <1>1, <1>2, <1>3, <1>4, <1>5, <1>6 DEF TablesInv

\* Nothing else touches what the invariant speaks of.
LEMMA OthersKeepTables ==
    ASSUME TablesInv, UNCHANGED <<writerVars, bodies, actions, senders, events, assets, dropped>>
    PROVE  TablesInv' /\ Stored' = Stored
<1>1. Stored' = Stored
    BY DEF Stored, writerVars
<1>2. WriterInv'
    BY DEF TablesInv, WriterInv, WriterTypeOK, RowsToCursor, writerVars
<1> QED
    BY <1>1, <1>2 DEF TablesInv, writerVars

LEMMA TablesStart == Init => TablesInv
<1> SUFFICES ASSUME Init PROVE TablesInv
    OBVIOUS
<1>1. WriterInv /\ 0 .. cursor = {}
    BY WriterStarts DEF Init, IndexInit, WriterInit, None
<1>2. Stored = {}
    BY <1>1 DEF Stored
<1> QED
    BY <1>1, <1>2 DEF Init, IndexInit, TablesInv, EventRows, AssetRows, Contents

\* A step of the whole is one of the index, of the reindex or of the process, or
\* leaves the index alone.
LEMMA TablesKept == TablesInv /\ [Next]_vars => TablesInv'
<1> SUFFICES ASSUME TablesInv, [Next]_vars PROVE TablesInv'
    OBVIOUS
<1>1. CASE Commit
    BY <1>1, CommitKeepsTables
<1>2. CASE Rollback
    BY <1>2, RollbackKeepsTables
<1>3. CASE Restart
    BY <1>3, OthersKeepTables DEF Restart, tableVars
<1>4. CASE Reindex
    BY <1>4, OthersKeepTables
       DEF Reindex, ReindexReads, ReindexInserts, ReindexEnds, tableVars
<1>5. CASE Ask \/ Read
    BY <1>5, OthersKeepTables
       DEF Ask, Read, ReadPage, ReadRows, ReadActs, ReadDrops, indexVars, tableVars
<1>6. CASE UNCHANGED vars
    BY <1>6, OthersKeepTables DEF vars, indexVars, tableVars
<1> QED
    BY <1>1, <1>2, <1>3, <1>4, <1>5, <1>6 DEF Next, Index

LEMMA TablesAlways == Spec => []TablesInv
<1> QED
    BY TablesStart, TablesKept, PTL DEF Spec

-----------------------------------------------------------------------------
(***************************************************************************)
(* The tables implement LedgerView.                                        *)
(***************************************************************************)
ChainOf == [n \in 1 .. cursor + 1 |-> bodies[n - 1]]
ViewOf  ==      {"actions"} \X actions \cup {"senders"} \X senders
           \cup {"events"}  \X events  \cup {"assets"}  \X assets
           \cup {"dropped"} \X dropped

LEMMA BlockRowsOfHeight ==
    ASSUME NEW h \in Heights, NEW b \in Contents, NEW x \in BlockRows(h, b)
    PROVE  x[2].height = h
<1>1. \A a \in BlockActions(h, b) : a.height = h
    BY BlockActionsKnown
<1>2. CASE x \in {"actions"} \X BlockActions(h, b)
    BY <1>1, <1>2
<1>3. CASE x \in {"senders"} \X SenderRows(h, b)
    BY <1>3 DEF SenderRows
<1>4. CASE x \in {"events"} \X EventRows(BlockActions(h, b))
    BY <1>1, <1>4 DEF EventRows
<1>5. CASE x \in {"assets"} \X AssetRows(BlockActions(h, b))
    BY <1>1, <1>5 DEF AssetRows
<1>6. CASE x \in {"dropped"} \X DropRows(h, b)
    BY <1>6 DEF DropRows
<1> QED
    BY <1>2, <1>3, <1>4, <1>5, <1>6 DEF BlockRows

\* The view is the rows of the blocks, block by block.
LEMMA ViewIsRows ==
    ASSUME TablesInv
    PROVE  ViewOf = UNION {BlockRows(h, bodies[h]) : h \in 0 .. cursor}
<1> DEFINE On(h) == BlockActions(h, bodies[h])
<1>1. actions = UNION {On(h) : h \in 0 .. cursor}
    BY DEF TablesInv, Stored
<1>2. events = UNION {EventRows(On(h)) : h \in 0 .. cursor}
    BY <1>1 DEF TablesInv, EventRows
<1>3. assets = UNION {AssetRows(On(h)) : h \in 0 .. cursor}
    BY <1>1 DEF TablesInv, AssetRows
<1>4. /\ senders = UNION {SenderRows(h, bodies[h]) : h \in 0 .. cursor}
      /\ dropped = UNION {DropRows(h, bodies[h]) : h \in 0 .. cursor}
    BY DEF TablesInv
<1>5. ASSUME NEW x \in ViewOf PROVE \E h \in 0 .. cursor : x \in BlockRows(h, bodies[h])
    <2>1. CASE x \in {"actions"} \X actions
        BY <1>1, <2>1 DEF BlockRows
    <2>2. CASE x \in {"senders"} \X senders
        BY <1>4, <2>2 DEF BlockRows
    <2>3. CASE x \in {"events"} \X events
        BY <1>2, <2>3 DEF BlockRows
    <2>4. CASE x \in {"assets"} \X assets
        BY <1>3, <2>4 DEF BlockRows
    <2>5. CASE x \in {"dropped"} \X dropped
        BY <1>4, <2>5 DEF BlockRows
    <2> QED
        BY <2>1, <2>2, <2>3, <2>4, <2>5 DEF ViewOf
<1>6. ASSUME NEW h \in 0 .. cursor, NEW x \in BlockRows(h, bodies[h]) PROVE x \in ViewOf
    <2>1. CASE x \in {"actions"} \X On(h)
        BY <1>1, <2>1 DEF ViewOf
    <2>2. CASE x \in {"senders"} \X SenderRows(h, bodies[h])
        BY <1>4, <2>2 DEF ViewOf
    <2>3. CASE x \in {"events"} \X EventRows(On(h))
        BY <1>2, <2>3 DEF ViewOf
    <2>4. CASE x \in {"assets"} \X AssetRows(On(h))
        BY <1>3, <2>4 DEF ViewOf
    <2>5. CASE x \in {"dropped"} \X DropRows(h, bodies[h])
        BY <1>4, <2>5 DEF ViewOf
    <2> QED
        BY <2>1, <2>2, <2>3, <2>4, <2>5 DEF BlockRows
<1> QED
    BY <1>5, <1>6

\* The part of a chain's rows that LedgerView adds or takes.
LEMMA RowsFromIs ==
    ASSUME NEW k \in Int, k >= -1, NEW B, NEW n \in 0 .. k + 1,
           NEW c, c = [i \in 1 .. k + 1 |-> B[i - 1]], NEW x
    PROVE  x \in ViewOfChain!RowsFrom(c, n) <=> \E h \in n .. k : x \in BlockRows(h, B[h])
<1>1. Len(c) = k + 1 /\ \A i \in n + 1 .. k + 1 : c[i] = B[i - 1]
    OBVIOUS
<1>2. x \in ViewOfChain!RowsFrom(c, n)
        <=> \E i \in n + 1 .. k + 1 : x \in BlockRows(i - 1, c[i])
    BY <1>1 DEF ViewOfChain!RowsFrom
<1>3. ASSUME NEW i \in n + 1 .. k + 1, x \in BlockRows(i - 1, c[i])
      PROVE  \E h \in n .. k : x \in BlockRows(h, B[h])
    <2>1. i - 1 \in n .. k
        OBVIOUS
    <2> QED
        BY <1>1, <1>3, <2>1
<1>4. ASSUME NEW h \in n .. k, x \in BlockRows(h, B[h])
      PROVE  \E i \in n + 1 .. k + 1 : x \in BlockRows(i - 1, c[i])
    <2>1. h + 1 \in n + 1 .. k + 1 /\ (h + 1) - 1 = h
        OBVIOUS
    <2>2. c[h + 1] = B[h]
        BY <1>1, <2>1
    <2> QED
        BY <1>4, <2>1, <2>2
<1> QED
    BY <1>2, <1>3, <1>4

\* A chain is a strict prefix of one that is longer and agrees with it.
LEMMA PrefixIs ==
    ASSUME NEW S, NEW c \in Seq(S), NEW d \in Seq(S), Len(c) < Len(d),
           \A i \in 1 .. Len(c) : c[i] = d[i]
    PROVE  ViewOfChain!IsStrictPrefix(c, d)
<1>1. ViewOfChain!IsPrefix(c, d)
    BY DEF ViewOfChain!IsPrefix
<1>2. c # d
    OBVIOUS
<1> QED
    BY <1>1, <1>2 DEF ViewOfChain!IsStrictPrefix

LEMMA ChainIs ==
    ASSUME TablesInv
    PROVE  ChainOf \in Seq(Contents) /\ Len(ChainOf) = cursor + 1
<1>1. cursor \in Int /\ cursor >= -1
    BY CursorKnown DEF TablesInv
<1>2. \A i \in 1 .. cursor + 1 : bodies[i - 1] \in Contents
    BY <1>1, CursorKnown DEF TablesInv
<1> QED
    BY <1>1, <1>2 DEF ChainOf

\* A batch extends the chain, and the view by its rows.
LEMMA CommitExtends ==
    ASSUME TablesInv, TablesInv', ChainOf' \in Seq(Contents), Len(ChainOf') = cursor' + 1,
           ViewOf' = UNION {BlockRows(h, bodies'[h]) : h \in 0 .. cursor'},
           NEW n, NEW bs, Batch(n, bs)
    PROVE  /\ ViewOfChain!IsStrictPrefix(ChainOf, ChainOf')
           /\ ViewOf' = ViewOf \cup ViewOfChain!RowsFrom(ChainOf', Len(ChainOf))
<1>1. /\ cursor \in Int /\ cursor >= -1 /\ n \in Nat \ {0} /\ cursor' = cursor + n
      /\ ChainOf \in Seq(Contents) /\ Len(ChainOf) = cursor + 1
    BY CursorKnown, ChainIs DEF TablesInv, Batch
<1>2. /\ 0 .. cursor' = (0 .. cursor) \cup (cursor + 1 .. cursor')
      /\ \A h \in 0 .. cursor : bodies'[h] = bodies[h]
    BY <1>1, BatchStands DEF Batch
<1>3. \A i \in 1 .. Len(ChainOf) : ChainOf[i] = ChainOf'[i]
    <2> TAKE i \in 1 .. Len(ChainOf)
    <2>1. ChainOf[i] = bodies[i - 1] /\ ChainOf'[i] = bodies'[i - 1] /\ i - 1 \in 0 .. cursor
        BY <1>1 DEF ChainOf
    <2> QED
        BY <1>2, <2>1
<1>4. ViewOfChain!IsStrictPrefix(ChainOf, ChainOf')
    BY <1>1, <1>3, PrefixIs
<1>5. \A x : x \in ViewOfChain!RowsFrom(ChainOf', Len(ChainOf))
               <=> \E h \in cursor + 1 .. cursor' : x \in BlockRows(h, bodies'[h])
    <2>1. cursor' \in Int /\ cursor' >= -1 /\ Len(ChainOf) \in 0 .. cursor' + 1
        BY <1>1
    <2>2. ChainOf' = [i \in 1 .. cursor' + 1 |-> bodies'[i - 1]]
        BY DEF ChainOf
    <2>3. \A x : x \in ViewOfChain!RowsFrom(ChainOf', Len(ChainOf))
                   <=> \E h \in Len(ChainOf) .. cursor' : x \in BlockRows(h, bodies'[h])
        BY <2>1, <2>2, RowsFromIs
    <2> QED
        BY <1>1, <2>3
<1>6. ViewOf = UNION {BlockRows(h, bodies[h]) : h \in 0 .. cursor}
    BY ViewIsRows
<1>7. ASSUME NEW x
      PROVE  x \in ViewOf' <=> x \in ViewOf \/ x \in ViewOfChain!RowsFrom(ChainOf', Len(ChainOf))
    BY <1>2, <1>5, <1>6
<1>8. ViewOf' = ViewOf \cup ViewOfChain!RowsFrom(ChainOf', Len(ChainOf))
    <2>1. ViewOf' \subseteq ViewOf \cup ViewOfChain!RowsFrom(ChainOf', Len(ChainOf))
        BY <1>7
    <2>2. ViewOf \cup ViewOfChain!RowsFrom(ChainOf', Len(ChainOf)) \subseteq ViewOf'
        BY <1>7
    <2> QED
        BY <2>1, <2>2
<1> QED
    BY <1>4, <1>8

\* A rollback takes from the chain, and from the view the rows it took.
LEMMA RollbackRetractsView ==
    ASSUME TablesInv, TablesInv', ChainOf' \in Seq(Contents), Len(ChainOf') = cursor' + 1,
           ViewOf' = UNION {BlockRows(h, bodies'[h]) : h \in 0 .. cursor'},
           Rollback
    PROVE  /\ ViewOfChain!IsStrictPrefix(ChainOf', ChainOf)
           /\ ViewOf' = ViewOf \ ViewOfChain!RowsFrom(ChainOf, Len(ChainOf'))
<1>1. /\ cursor \in Int /\ cursor >= 0 /\ cursor' = cursor - 1
      /\ ChainOf \in Seq(Contents) /\ Len(ChainOf) = cursor + 1
    <2>1. cursor \in Heights /\ cursor' = cursor - 1
        BY RollbackStands
    <2> QED
        BY <2>1, ChainIs DEF Heights
<1>2. \A h \in 0 .. cursor' : h \in 0 .. cursor /\ bodies'[h] = bodies[h]
    BY RollbackStands
<1>3. \A i \in 1 .. Len(ChainOf') : ChainOf'[i] = ChainOf[i]
    <2> TAKE i \in 1 .. Len(ChainOf')
    <2>1. ChainOf[i] = bodies[i - 1] /\ ChainOf'[i] = bodies'[i - 1] /\ i - 1 \in 0 .. cursor'
        BY <1>1 DEF ChainOf
    <2> QED
        BY <1>2, <2>1
<1>4. ViewOfChain!IsStrictPrefix(ChainOf', ChainOf)
    BY <1>1, <1>3, PrefixIs
<1>5. ViewOf = UNION {BlockRows(h, bodies[h]) : h \in 0 .. cursor}
    BY ViewIsRows
<1>6. \A x : x \in ViewOfChain!RowsFrom(ChainOf, Len(ChainOf'))
               <=> \E h \in cursor' + 1 .. cursor : x \in BlockRows(h, bodies[h])
    <2>1. Len(ChainOf') \in 0 .. cursor + 1 /\ Len(ChainOf') = cursor' + 1 /\ cursor >= -1
        BY <1>1
    <2>2. ChainOf = [i \in 1 .. cursor + 1 |-> bodies[i - 1]]
        BY DEF ChainOf
    <2>3. cursor \in Int /\ cursor >= -1 /\ Len(ChainOf') \in 0 .. cursor + 1
        BY <1>1, <2>1
    <2>4. \A x : x \in ViewOfChain!RowsFrom(ChainOf, Len(ChainOf'))
                   <=> \E h \in Len(ChainOf') .. cursor : x \in BlockRows(h, bodies[h])
        BY <2>2, <2>3, RowsFromIs
    <2> QED
        BY <2>1, <2>4
<1>7. \A h \in 0 .. cursor : \A x \in BlockRows(h, bodies[h]) : x[2].height = h
    BY BlockRowsOfHeight, CursorKnown DEF TablesInv
<1>8. ASSUME NEW x \in ViewOf'
      PROVE  x \in ViewOf /\ x \notin ViewOfChain!RowsFrom(ChainOf, Len(ChainOf'))
    <2>1. PICK h \in 0 .. cursor' : x \in BlockRows(h, bodies[h])
        BY <1>2, <1>8
    <2>2. h \in 0 .. cursor /\ x[2].height = h /\ \A g \in cursor' + 1 .. cursor : g # h /\ g \in 0 .. cursor
        BY <1>1, <1>2, <1>7, <2>1
    <2>3. \A g \in cursor' + 1 .. cursor : x \notin BlockRows(g, bodies[g])
        BY <1>7, <2>2
    <2> QED
        BY <1>5, <1>6, <2>1, <2>2, <2>3
<1>9. ASSUME NEW x \in ViewOf, x \notin ViewOfChain!RowsFrom(ChainOf, Len(ChainOf'))
      PROVE  x \in ViewOf'
    <2>1. PICK h \in 0 .. cursor : x \in BlockRows(h, bodies[h])
        BY <1>5
    <2>2. h \notin cursor' + 1 .. cursor
        BY <1>6, <1>9, <2>1
    <2>3. h \in 0 .. cursor'
        BY <1>1, <2>2
    <2> QED
        BY <1>2, <2>1, <2>3
<1>10. ViewOf' = ViewOf \ ViewOfChain!RowsFrom(ChainOf, Len(ChainOf'))
    <2>1. ViewOf' \subseteq ViewOf \ ViewOfChain!RowsFrom(ChainOf, Len(ChainOf'))
        BY <1>8
    <2>2. ViewOf \ ViewOfChain!RowsFrom(ChainOf, Len(ChainOf')) \subseteq ViewOf'
        BY <1>9
    <2> QED
        BY <2>1, <2>2
<1> QED
    BY <1>4, <1>10

\* The step simulation: a step of the whole extends, retracts or leaves the view.
LEMMA StepIsView ==
    TablesInv /\ TablesInv' /\ [Next]_vars =>
        \/ ViewOfChain!Extend
        \/ ViewOfChain!Retract
        \/ UNCHANGED <<ChainOf, ViewOf>>
<1> SUFFICES ASSUME TablesInv, TablesInv', [Next]_vars
             PROVE  \/ ViewOfChain!Extend
                    \/ ViewOfChain!Retract
                    \/ UNCHANGED <<ChainOf, ViewOf>>
    OBVIOUS
<1>1. (ChainOf \in Seq(Contents) /\ Len(ChainOf) = cursor + 1)'
    BY ChainIs, PTL
<1>2. (ViewOf = UNION {BlockRows(h, bodies[h]) : h \in 0 .. cursor})'
    BY ViewIsRows, PTL
<1>3. ASSUME Commit PROVE ViewOfChain!Extend
    <2>1. PICK n, bs : Batch(n, bs)
        BY <1>3, CommitIsBatch
    <2>2. /\ ViewOfChain!IsStrictPrefix(ChainOf, ChainOf')
          /\ ViewOf' = ViewOf \cup ViewOfChain!RowsFrom(ChainOf', Len(ChainOf))
        BY <1>1, <1>2, <2>1, CommitExtends
    <2> QED
        BY <2>2 DEF ViewOfChain!Extend, ChainOf, ViewOf
<1>4. ASSUME Rollback PROVE ViewOfChain!Retract
    <2>1. /\ ViewOfChain!IsStrictPrefix(ChainOf', ChainOf)
          /\ ViewOf' = ViewOf \ ViewOfChain!RowsFrom(ChainOf, Len(ChainOf'))
        BY <1>1, <1>2, <1>4, RollbackRetractsView
    <2> QED
        BY <2>1 DEF ViewOfChain!Retract, ChainOf, ViewOf
<1>5. ASSUME UNCHANGED <<writerVars, bodies, actions, senders, events, assets, dropped>>
      PROVE  UNCHANGED <<ChainOf, ViewOf>>
    BY <1>5 DEF ChainOf, ViewOf, writerVars
<1>6. CASE Restart
    BY <1>5, <1>6 DEF Restart, tableVars
<1>7. CASE Reindex
    BY <1>5, <1>7 DEF Reindex, ReindexReads, ReindexInserts, ReindexEnds, tableVars
<1>8. CASE Ask \/ Read
    BY <1>5, <1>8
       DEF Ask, Read, ReadPage, ReadRows, ReadActs, ReadDrops, indexVars, tableVars
<1>9. CASE UNCHANGED vars
    BY <1>5, <1>9 DEF vars, indexVars, tableVars
<1> QED
    BY <1>3, <1>4, <1>6, <1>7, <1>8, <1>9 DEF Next, Index

\* The tables of actions, senders, token events, assets and drops are a view of the
\* stored blocks: insert_blocks adds exactly the rows of its blocks, rollback_to
\* takes exactly the rows of those it deletes, and nothing else changes a row.
THEOREM TablesAlwaysView == Spec => TablesAreView
<1>1. Init => ViewOfChain!Init
    <2> SUFFICES ASSUME Init PROVE ViewOfChain!Init
        OBVIOUS
    <2>1. cursor = -1
        BY DEF Init, IndexInit, WriterInit, None
    <2>2. ChainOf = <<>>
        BY <2>1 DEF ChainOf
    <2>3. ViewOf = {}
        BY DEF ViewOf, Init, IndexInit
    <2> QED
        BY <2>2, <2>3 DEF ViewOfChain!Init, ChainOf, ViewOf
<1>2. TablesInv /\ TablesInv' /\ [Next]_vars =>
        [ViewOfChain!Extend \/ ViewOfChain!Retract]_<<ChainOf, ViewOf>>
    BY StepIsView
<1>3. TablesAreView <=>
        ViewOfChain!Init /\ [][ViewOfChain!Extend \/ ViewOfChain!Retract]_<<ChainOf, ViewOf>>
    BY DEF TablesAreView, ViewOfChain!Spec, ChainOf, ViewOf
<1> QED
    BY <1>1, <1>2, <1>3, TablesAlways, PTL DEF Spec

-----------------------------------------------------------------------------
(***************************************************************************)
(* The addresses, and the reindex.                                         *)
(***************************************************************************)
AllNamed == UNION {Named(a) : a \in Stored}

\* While no rollback has overtaken the reindex, address rows are rows of stored
\* actions, and what the reindex has read is there or is held.
AddressesInv ==
    /\ TablesInv
    /\ reindex # "insert" => held = {}
    /\ ~raced =>
        /\ addressed \subseteq AllNamed /\ held \subseteq AllNamed
        /\ covered => AllNamed \subseteq addressed
        /\ reindex # "off" =>
            \A a \in Stored : After(Position(a), mark) \/ Named(a) \subseteq addressed \cup held

\* A row names its action.
LEMMA NamedKnown ==
    ASSUME NEW rules, NEW id, NEW h, NEW act, NEW n \in NamedRows(rules, id, h, act)
    PROVE  n.id = id /\ n.height = h
BY DEF NamedRows

\* Of the rows of stored actions, one key is one row.
LEMMA NamedApart ==
    ASSUME TablesInv, NEW n \in AllNamed, NEW m \in AllNamed,
           <<m.id, m.address, m.role>> = <<n.id, n.address, n.role>>
    PROVE  m = n
<1>1. PICK a \in Stored : n \in Named(a)
    BY DEF AllNamed
<1>2. PICK c \in Stored : m \in Named(c)
    BY DEF AllNamed
<1>3. n.id = a.id /\ m.id = c.id
    BY <1>1, <1>2, NamedKnown DEF Named
<1>4. a = c
    BY <1>3, StoredApart
<1>5. /\ \E x : n = [id |-> a.id, height |-> a.height, address |-> x[1], role |-> x[2]]
      /\ \E x : m = [id |-> a.id, height |-> a.height, address |-> x[1], role |-> x[2]]
    BY <1>1, <1>2, <1>4 DEF Named, NamedRows
<1> QED
    BY <1>5

\* More rules name more addresses.
LEMMA MoreRules ==
    ASSUME NEW s, NEW t, s \subseteq t, NEW id, NEW h, NEW act
    PROVE  NamedRows(s, id, h, act) \subseteq NamedRows(t, id, h, act)
<1>1. Resolve(s, act.kind, act.payload) \subseteq Resolve(t, act.kind, act.payload)
    BY DEF Resolve, TierA
<1> QED
    BY <1>1 DEF NamedRows

LEMMA FirstPlacesFinite ==
    ASSUME NEW n \in Nat
    PROVE  IsFiniteSet(1 .. n)
<1>1. 1 \in Int /\ n \in Int
    OBVIOUS
<1> QED
    BY <1>1, FS_Interval

\* The stored actions are finitely many.
LEMMA StoredFinite == TablesInv => IsFiniteSet(Stored)
<1> SUFFICES ASSUME TablesInv PROVE IsFiniteSet(Stored)
    OBVIOUS
<1>1. ASSUME NEW h \in 0 .. cursor PROVE IsFiniteSet(BlockActions(h, bodies[h]))
    <2> DEFINE b == bodies[h]
               T == BlockActions(h, b)
               places == {i \in DOMAIN b.acts : \E a \in T : a.index = i}
               at == [i \in places |-> CHOOSE a \in T : a.index = i]
    <2>1. h \in Heights /\ b \in Contents
        BY CursorKnown DEF TablesInv
    <2>2. b.acts \in Seq(Action)
        BY <2>1, ContentsKnown
    <2>3. IsFiniteSet(DOMAIN b.acts)
        <3>1. DOMAIN b.acts = 1 .. Len(b.acts) /\ Len(b.acts) \in Nat
            BY <2>2
        <3>2. IsFiniteSet(1 .. Len(b.acts))
            BY <3>1, FirstPlacesFinite
        <3> QED
            BY <3>1, <3>2
    <2>4. IsFiniteSet(places)
        BY <2>3, FS_Subset
    <2>5. \A a \in T : a.index \in DOMAIN b.acts
        BY <2>1, BlockActionsKnown
    <2>6. \A a, c \in T : a.index = c.index => a = c
        <3> SUFFICES ASSUME NEW a \in T, NEW c \in T, a.index = c.index PROVE a = c
            OBVIOUS
        <3>1. /\ a.act = b.acts[a.index] /\ a.id = Identity(a.act, h, a.index)
              /\ c.act = b.acts[c.index] /\ c.id = Identity(c.act, h, c.index)
            BY <2>1, BlockActionsKnown
        <3> QED
            BY <2>1, <3>1, ApartInBlock
    <2>7. at \in [places -> T]
        OBVIOUS
    <2>8. \A a \in T : \E i \in places : at[i] = a
        <3> TAKE a \in T
        <3>1. a.index \in places
            BY <2>5
        <3>2. at[a.index] = a
            BY <2>6, <3>1
        <3> QED
            BY <3>1, <3>2
    <2>9. at \in Surjection(places, T)
        BY <2>7, <2>8, Fun_IsSurj
    <2> QED
        BY <2>4, <2>9, FS_Surjection
<1> DEFINE blocks == {BlockActions(h, bodies[h]) : h \in 0 .. cursor}
           block == [h \in 0 .. cursor |-> BlockActions(h, bodies[h])]
<1>2. IsFiniteSet(0 .. cursor)
    <2>1. 0 \in Int /\ cursor \in Int
        BY CursorKnown DEF TablesInv
    <2> QED
        BY <2>1, FS_Interval
<1>3. block \in Surjection(0 .. cursor, blocks)
    <2>1. block \in [0 .. cursor -> blocks] /\ \A t \in blocks : \E h \in 0 .. cursor : block[h] = t
        OBVIOUS
    <2> QED
        BY <2>1, Fun_IsSurj
<1>4. IsFiniteSet(blocks)
    BY <1>2, <1>3, FS_Surjection
<1>5. \A t \in blocks : IsFiniteSet(t)
    BY <1>1
<1> HIDE DEF blocks
<1>6. IsFiniteSet(UNION blocks)
    BY <1>4, <1>5, FS_UNION
<1> QED
    BY <1>6 DEF blocks, Stored

\* A page is the first of what is unread, so what precedes its last is in it.
LEMMA PageIsFirst ==
    ASSUME TablesInv, NEW c \in NextPage, NEW a \in Unread, ~After(Position(a), Position(c))
    PROVE  a \in NextPage
<1> DEFINE Below(x) == {b \in Unread : After(Position(x), Position(b))}
<1>1. IsFiniteSet(Below(c))
    <2>1. Unread \subseteq Stored
        BY DEF Unread, TablesInv
    <2> QED
        BY <2>1, StoredFinite, FS_Subset
<1>2. Below(a) \subseteq Below(c)
    <2>1. \A b \in Unread : b.height \in Int /\ b.index \in Int
        <3>1. \A b \in Unread : b \in ActionRow
            BY StoredKnown DEF Unread, TablesInv
        <3>2. \A b \in ActionRow : b.height \in Int /\ b.index \in Int
            BY DEF ActionRow, Heights
        <3> QED
            BY <3>1, <3>2
    <2>2. c \in Unread
        BY DEF NextPage
    <2> SUFFICES ASSUME NEW b \in Unread, After(Position(a), Position(b))
                 PROVE  After(Position(c), Position(b))
        OBVIOUS
    <2> QED
        BY <2>1, <2>2 DEF After, Position
<1>3. Cardinality(Below(a)) <= Cardinality(Below(c))
    BY <1>1, <1>2, FS_Subset
<1>4. Cardinality(Below(a)) \in Nat /\ Cardinality(Below(c)) \in Nat
    BY <1>1, <1>2, FS_Subset, FS_CardinalityType
<1>5. Cardinality(Below(c)) < ReindexPage
    BY DEF NextPage
<1>6. Cardinality(Below(a)) < ReindexPage
    BY <1>3, <1>4, <1>5, ActionsAssumption
<1> QED
    BY <1>6 DEF NextPage

LEMMA ReadsKeepAddresses == AddressesInv /\ ReindexReads => AddressesInv'
<1> SUFFICES ASSUME AddressesInv, ReindexReads PROVE AddressesInv'
    OBVIOUS
<1>1. TablesInv' /\ Stored' = Stored
    BY OthersKeepTables DEF AddressesInv, ReindexReads, tableVars
<1>2. AllNamed' = AllNamed /\ \A a \in Stored : Named(a)' = Named(a)
    BY <1>1 DEF AllNamed, Named, ReindexReads
<1>3. reindex' # "insert" => held' = {}
    BY DEF ReindexReads, Inserts
<1>4. held' = UNION {Named(a) : a \in NextPage} /\ NextPage \subseteq Stored
    BY DEF ReindexReads, Named, NextPage, Unread, AddressesInv, TablesInv
<1>5. ASSUME ~raced, NEW a \in Stored, ~After(Position(a), mark')
      PROVE  Named(a) \subseteq addressed \cup held'
    <2>1. CASE ~After(Position(a), mark)
        BY <1>5, <2>1 DEF AddressesInv, ReindexReads
    <2>2. CASE After(Position(a), mark)
        <3>1. a \in Unread
            BY <2>2 DEF Unread, AddressesInv, TablesInv
        <3>2. PICK c \in NextPage : mark' = Position(c)
            BY DEF ReindexReads
        <3>3. a \in NextPage
            BY <1>5, <3>1, <3>2, PageIsFirst DEF AddressesInv
        <3> QED
            BY <1>4, <3>3
    <2> QED
        BY <2>1, <2>2
<1>6. held' \subseteq AllNamed
    BY <1>4 DEF AllNamed
<1> QED
    BY <1>1, <1>2, <1>3, <1>5, <1>6 DEF AddressesInv, ReindexReads, tableVars

LEMMA InsertsKeepAddresses == AddressesInv /\ ReindexInserts => AddressesInv'
<1> SUFFICES ASSUME AddressesInv, ReindexInserts PROVE AddressesInv'
    OBVIOUS
<1>1. TablesInv' /\ Stored' = Stored
    BY OthersKeepTables DEF AddressesInv, ReindexInserts
<1>2. AllNamed' = AllNamed /\ \A a \in Stored : Named(a)' = Named(a)
    BY <1>1 DEF AllNamed, Named, ReindexInserts
<1>3. ASSUME ~raced PROVE held \subseteq addressed'
    <2> SUFFICES ASSUME NEW n \in held PROVE n \in addressed'
        OBVIOUS
    <2>1. addressed' = addressed \cup Missing(held)
        BY DEF ReindexInserts
    <2>2. n \in AllNamed /\ addressed \subseteq AllNamed
        BY <1>3 DEF AddressesInv
    <2>3. CASE n \in Missing(held)
        BY <2>1, <2>3
    <2>4. CASE n \notin Missing(held)
        <3>1. PICK m \in addressed : <<m.id, m.address, m.role>> = <<n.id, n.address, n.role>>
            BY <2>4 DEF Missing
        <3>2. m = n
            BY <2>2, <3>1, NamedApart DEF AddressesInv
        <3> QED
            BY <2>1, <3>2
    <2> QED
        BY <2>3, <2>4
<1>4. ~raced => addressed' \subseteq AllNamed
    BY DEF ReindexInserts, Missing, AddressesInv
<1>5. ASSUME ~raced, NEW a \in Stored, ~After(Position(a), mark)
      PROVE  Named(a) \subseteq addressed'
    <2>1. Named(a) \subseteq addressed \cup held
        BY <1>5 DEF AddressesInv, ReindexInserts
    <2> QED
        BY <1>3, <1>5, <2>1 DEF ReindexInserts
<1>6. addressed \subseteq addressed' /\ held' = {} /\ UNCHANGED <<mark, covered, raced>>
    BY DEF ReindexInserts
<1> QED
    BY <1>1, <1>2, <1>4, <1>5, <1>6 DEF AddressesInv

LEMMA EndsKeepsAddresses == AddressesInv /\ ReindexEnds => AddressesInv'
<1> SUFFICES ASSUME AddressesInv, ReindexEnds PROVE AddressesInv'
    OBVIOUS
<1>1. TablesInv' /\ Stored' = Stored
    BY OthersKeepTables DEF AddressesInv, ReindexEnds, tableVars
<1>2. AllNamed' = AllNamed /\ \A a \in Stored : Named(a)' = Named(a)
    BY <1>1 DEF AllNamed, Named, ReindexEnds
<1>3. ASSUME ~raced, NEW a \in Stored PROVE Named(a) \subseteq addressed
    <2>1. ~After(Position(a), mark)
        BY DEF ReindexEnds, Unread, AddressesInv, TablesInv
    <2> QED
        BY <1>3, <2>1 DEF AddressesInv, ReindexEnds
<1>4. ~raced => AllNamed \subseteq addressed
    BY <1>3 DEF AllNamed
<1> QED
    BY <1>1, <1>2, <1>4 DEF AddressesInv, ReindexEnds, tableVars

\* Rules are only added, and the reindex begins below everything.
LEMMA RestartKeepsAddresses == AddressesInv /\ Restart => AddressesInv'
<1> SUFFICES ASSUME AddressesInv, Restart PROVE AddressesInv'
    OBVIOUS
<1>1. TablesInv' /\ Stored' = Stored
    BY OthersKeepTables DEF AddressesInv, Restart, tableVars
<1>2. schema \subseteq schema'
    BY DEF Restart
<1>3. \A a \in Stored : Named(a) \subseteq Named(a)'
    BY <1>2, MoreRules DEF Named
<1>4. AllNamed \subseteq AllNamed'
    BY <1>1, <1>3 DEF AllNamed
<1>5. ASSUME covered' PROVE AllNamed' = AllNamed
    <2>1. schema' = schema
        BY <1>5 DEF Restart
    <2>2. \A a \in Stored : Named(a)' = Named(a)
        BY <2>1 DEF Named
    <2> QED
        BY <1>1, <2>2 DEF AllNamed
<1>6. ASSUME NEW a \in Stored PROVE After(Position(a), mark')
    <2>1. a.height \in Nat
        BY StoredKnown DEF AddressesInv, ActionRow, Heights
    <2>2. mark' = <<-1, -1>>
        BY DEF Restart, Start
    <2> QED
        BY <2>1, <2>2 DEF After, Position
<1>7. /\ addressed' = addressed /\ held' = {} /\ raced' = raced
      /\ covered' => covered
    BY DEF Restart, tableVars
<1>8. reindex' # "insert"
    BY DEF Restart
<1> QED
    BY <1>1, <1>4, <1>5, <1>6, <1>7, <1>8 DEF AddressesInv

\* What a rollback takes it takes from the rows and from the actions alike.
LEMMA RollbackKeepsAddresses == AddressesInv /\ Rollback => AddressesInv'
<1> SUFFICES ASSUME AddressesInv, Rollback PROVE AddressesInv'
    OBVIOUS
<1> DEFINE r == cursor - 1
<1>1. TablesInv' /\ Stored' = UpTo(Stored, r)
    BY RollbackKeepsTables, RollbackRetracts DEF AddressesInv
<1>2. \A a \in Stored : Named(a)' = Named(a) /\ \A n \in Named(a) : n.height = a.height
    BY NamedKnown DEF Named, Rollback
<1>3. AllNamed' = UpTo(AllNamed, r)
    <2>1. ASSUME NEW n \in AllNamed' PROVE n \in AllNamed /\ n.height <= r
        <3>1. PICK a \in Stored' : n \in Named(a)'
            BY DEF AllNamed
        <3>2. a \in Stored /\ a.height <= r
            BY <1>1, <3>1 DEF UpTo
        <3> QED
            BY <1>2, <3>1, <3>2 DEF AllNamed
    <2>2. ASSUME NEW n \in AllNamed, n.height <= r PROVE n \in AllNamed'
        <3>1. PICK a \in Stored : n \in Named(a)
            BY DEF AllNamed
        <3>2. a \in Stored'
            BY <1>1, <1>2, <2>2, <3>1 DEF UpTo
        <3> QED
            BY <1>2, <3>1, <3>2 DEF AllNamed
    <2> QED
        BY <2>1, <2>2 DEF UpTo
<1>4. /\ addressed' = UpTo(addressed, r)
      /\ UNCHANGED <<reindex, mark, held, covered>>
      /\ ~raced' => ~raced /\ \A n \in held : ~(n.height > r)
    BY DEF Rollback
<1>5. ASSUME ~raced' PROVE held \subseteq AllNamed'
    <2>1. \A n \in held : n \in AllNamed /\ ~(n.height > r)
        BY <1>4, <1>5 DEF AddressesInv
    <2>2. r \in Int /\ \A n \in AllNamed : n.height \in Int
        BY <1>2, StoredKnown, RollbackStands DEF AddressesInv, AllNamed, ActionRow, Heights
    <2> QED
        BY <1>3, <2>1, <2>2 DEF UpTo
<1>6. ASSUME ~raced' PROVE addressed' \subseteq AllNamed'
    BY <1>3, <1>4, <1>6 DEF AddressesInv, UpTo
<1>7. ASSUME ~raced', covered PROVE AllNamed' \subseteq addressed'
    BY <1>3, <1>4, <1>7 DEF AddressesInv, UpTo
<1>8. ASSUME ~raced', reindex # "off", NEW a \in Stored', ~After(Position(a), mark)
      PROVE  Named(a)' \subseteq addressed' \cup held
    <2>1. a \in Stored /\ a.height <= r
        BY <1>1 DEF UpTo
    <2>2. Named(a) \subseteq addressed \cup held
        BY <1>4, <1>8, <2>1 DEF AddressesInv
    <2> QED
        BY <1>2, <1>4, <2>1, <2>2 DEF UpTo
<1> QED
    BY <1>1, <1>4, <1>5, <1>6, <1>7, <1>8 DEF AddressesInv

\* A batch inserts the rows of its actions, all of them and no others.
LEMMA CommitKeepsAddresses == AddressesInv /\ Commit => AddressesInv'
<1> SUFFICES ASSUME AddressesInv, Commit PROVE AddressesInv'
    OBVIOUS
<1>0. TablesInv /\ TablesInv'
    BY CommitKeepsTables DEF AddressesInv
<1>1. PICK n, bs :
        /\ Batch(n, bs)
        /\ addressed' = addressed \cup UNION {AddressRows(h, bs[h]) : h \in DOMAIN bs}
        /\ UNCHANGED reindexVars
    BY <1>0, CommitIsBatch
<1>2. Stored' = Stored \cup UNION {BlockActions(h, bs[h]) : h \in DOMAIN bs}
    BY <1>0, <1>1, BatchRows
<1>3. /\ UNCHANGED <<reindex, mark, held, covered, raced>>
      /\ \A a : Named(a)' = Named(a)
    BY <1>1 DEF reindexVars, Named
<1>4. \A h \in DOMAIN bs : h \in Heights /\ bs[h] \in Contents
    BY <1>0, <1>1, BatchStands
<1>5. AllNamed \subseteq AllNamed'
    BY <1>2, <1>3 DEF AllNamed
<1>6. ASSUME NEW h \in DOMAIN bs PROVE AddressRows(h, bs[h]) \subseteq AllNamed'
    <2> SUFFICES ASSUME NEW x \in AddressRows(h, bs[h]) PROVE x \in AllNamed'
        OBVIOUS
    <2>1. PICK i \in DOMAIN bs[h].acts :
            x \in NamedRows(schema, Identity(bs[h].acts[i], h, i), h, bs[h].acts[i])
        BY DEF AddressRows, Missing
    <2>2. PICK a \in BlockActions(h, bs[h]) :
            a.id = Identity(bs[h].acts[i], h, i) /\ a.act = bs[h].acts[i]
        BY <1>4, FirstHasRow
    <2>3. a.height = h
        BY <1>4, BlockActionsKnown
    <2>4. x \in Named(a) /\ a \in Stored'
        BY <1>2, <2>1, <2>2, <2>3 DEF Named
    <2> QED
        BY <1>3, <2>4 DEF AllNamed
<1>7. ASSUME ~raced, NEW h \in DOMAIN bs, NEW a \in BlockActions(h, bs[h])
      PROVE  Named(a) \subseteq addressed'
    <2> SUFFICES ASSUME NEW x \in Named(a) PROVE x \in addressed'
        OBVIOUS
    <2>1. /\ a.height = h /\ a.index \in DOMAIN bs[h].acts /\ a.act = bs[h].acts[a.index]
          /\ a.id = Identity(a.act, h, a.index)
        BY <1>4, BlockActionsKnown
    <2>2. x \in UNION {NamedRows(schema, Identity(bs[h].acts[i], h, i), h, bs[h].acts[i]) :
                          i \in DOMAIN bs[h].acts}
        BY <2>1 DEF Named
    <2>3. ASSUME NEW m \in addressed PROVE m.id # x.id
        <3>1. PICK c \in Stored : m \in Named(c)
            BY <1>7 DEF AddressesInv, AllNamed
        <3>2. m.id = c.id /\ x.id = a.id
            BY <3>1, NamedKnown DEF Named
        <3> QED
            BY <1>0, <1>1, <3>2, BatchIsNew
    <2>4. x \in AddressRows(h, bs[h])
        BY <2>2, <2>3 DEF AddressRows, Missing
    <2> QED
        BY <1>1, <2>4
<1>8. ASSUME ~raced PROVE addressed' \subseteq AllNamed' /\ held \subseteq AllNamed'
    BY <1>1, <1>5, <1>6, <1>8 DEF AddressesInv
<1>9. ASSUME ~raced, covered PROVE AllNamed' \subseteq addressed'
    <2> SUFFICES ASSUME NEW x \in AllNamed' PROVE x \in addressed'
        OBVIOUS
    <2>1. PICK a \in Stored' : x \in Named(a)
        BY <1>3 DEF AllNamed
    <2>2. CASE a \in Stored
        BY <1>1, <1>9, <2>1, <2>2 DEF AddressesInv, AllNamed
    <2>3. CASE \E h \in DOMAIN bs : a \in BlockActions(h, bs[h])
        BY <1>7, <1>9, <2>1, <2>3
    <2> QED
        BY <1>2, <2>2, <2>3
<1>10. ASSUME ~raced, reindex # "off", NEW a \in Stored', ~After(Position(a), mark)
       PROVE  Named(a) \subseteq addressed' \cup held
    <2>1. CASE a \in Stored
        BY <1>1, <1>10, <2>1 DEF AddressesInv
    <2>2. CASE \E h \in DOMAIN bs : a \in BlockActions(h, bs[h])
        BY <1>7, <1>10, <2>2
    <2> QED
        BY <1>2, <2>1, <2>2
<1>11. reindex # "insert" => held = {}
    BY DEF AddressesInv
<1> QED
    BY <1>0, <1>3, <1>8, <1>9, <1>10, <1>11 DEF AddressesInv

LEMMA AddressesKept == AddressesInv /\ [Next]_vars => AddressesInv'
<1> SUFFICES ASSUME AddressesInv, [Next]_vars PROVE AddressesInv'
    OBVIOUS
<1>1. CASE Commit
    BY <1>1, CommitKeepsAddresses
<1>2. CASE Rollback
    BY <1>2, RollbackKeepsAddresses
<1>3. CASE Restart
    BY <1>3, RestartKeepsAddresses
<1>4. CASE Reindex
    BY <1>4, ReadsKeepAddresses, InsertsKeepAddresses, EndsKeepsAddresses DEF Reindex
<1>5. ASSUME UNCHANGED indexVars PROVE AddressesInv'
    <2>1. TablesInv' /\ Stored' = Stored
        BY <1>5, OthersKeepTables DEF AddressesInv, indexVars, tableVars
    <2>2. /\ UNCHANGED <<addressed, reindex, mark, held, covered, raced>>
          /\ \A a : Named(a)' = Named(a)
        BY <1>5 DEF indexVars, tableVars, reindexVars, Named
    <2>3. AllNamed' = AllNamed
        BY <2>1, <2>2 DEF AllNamed
    <2> QED
        BY <2>1, <2>2, <2>3 DEF AddressesInv
<1>6. CASE Ask \/ Read
    BY <1>5, <1>6 DEF Ask, Read, ReadPage, ReadRows, ReadActs, ReadDrops
<1>7. CASE UNCHANGED vars
    BY <1>5, <1>7 DEF vars
<1> QED
    BY <1>1, <1>2, <1>3, <1>4, <1>6, <1>7 DEF Next, Index

LEMMA AddressesAlways == Spec => []AddressesInv
<1>1. Init => AddressesInv
    <2> SUFFICES ASSUME Init PROVE AddressesInv
        OBVIOUS
    <2>1. TablesInv
        BY TablesStart
    <2>2. AllNamed = {}
        <3>1. actions = Stored /\ actions = {}
            BY <2>1 DEF TablesInv, Init, IndexInit
        <3> QED
            BY <3>1 DEF AllNamed
    <2> QED
        BY <2>1, <2>2 DEF AddressesInv, Init, IndexInit
<1> QED
    BY <1>1, AddressesKept, PTL DEF Spec

\* Unless a rollback took blocks whose rows a reindex held (raced), action_addresses
\* is what the rules make of the actions of the chain: nothing stale, and once a
\* reindex has ended, or no rule was added, nothing missing.
THEOREM AddressesAlwaysFollow == Spec => []AddressesFollow
<1>1. AddressesInv => AddressesFollow
    BY DEF AddressesInv, AddressesFollow, AllNamed
<1> QED
    BY <1>1, AddressesAlways, PTL

\* Who is in the tables is who sends or is named by a stored action, at its height.
LEMMA SendersAndNamed ==
    ASSUME AddressesInv, covered, ~raced, NEW address
    PROVE  LET named  == {n \in senders \cup addressed : n.address = address}
               naming == {a \in Stored : \/ a.act.sender = address
                                         \/ \E n \in Named(a) : n.address = address}
           IN  /\ \A n \in named : \E a \in naming : a.height = n.height
               /\ \A a \in naming : \E n \in named : n.height = a.height
<1> DEFINE named  == {n \in senders \cup addressed : n.address = address}
           naming == {a \in Stored : \/ a.act.sender = address
                                     \/ \E n \in Named(a) : n.address = address}
<1>1. /\ addressed = AllNamed /\ TablesInv
      /\ senders = UNION {SenderRows(h, bodies[h]) : h \in 0 .. cursor}
    BY DEF AddressesInv, TablesInv
<1>2. \A a \in Stored : \A n \in Named(a) : n.height = a.height
    BY NamedKnown DEF Named
<1>3. \A h \in 0 .. cursor : h \in Heights /\ bodies[h] \in Contents
    BY <1>1, CursorKnown DEF TablesInv
<1>4. ASSUME NEW n \in named PROVE \E a \in naming : a.height = n.height
    <2>1. CASE n \in senders
        <3>1. PICK h \in 0 .. cursor : n \in SenderRows(h, bodies[h])
            BY <1>1, <2>1
        <3>2. PICK i \in DOMAIN bodies[h].acts :
                n = [id |-> Identity(bodies[h].acts[i], h, i), height |-> h,
                     address |-> bodies[h].acts[i].sender]
            BY <3>1 DEF SenderRows
        <3>3. PICK a \in BlockActions(h, bodies[h]) : a.act = bodies[h].acts[i]
            BY <1>3, <3>1, FirstHasRow
        <3>4. a \in Stored /\ a.height = h
            BY <1>3, <3>1, <3>3, BlockActionsKnown DEF Stored
        <3> QED
            BY <3>2, <3>3, <3>4
    <2>2. CASE n \in addressed
        <3>1. PICK a \in Stored : n \in Named(a)
            BY <1>1, <2>2 DEF AllNamed
        <3> QED
            BY <1>2, <3>1
    <2> QED
        BY <2>1, <2>2
<1>5. ASSUME NEW a \in naming PROVE \E n \in named : n.height = a.height
    <2>1. CASE a.act.sender = address
        <3>1. /\ a.height \in 0 .. cursor
              /\ a \in BlockActions(a.height, bodies[a.height])
            BY <1>1, StoredKnown
        <3>2. a.index \in DOMAIN bodies[a.height].acts /\ a.act = bodies[a.height].acts[a.index]
            BY <1>3, <3>1, BlockActionsKnown
        <3> DEFINE n == [id |-> Identity(a.act, a.height, a.index), height |-> a.height,
                         address |-> a.act.sender]
        <3>3. n \in SenderRows(a.height, bodies[a.height])
            BY <3>2 DEF SenderRows
        <3>4. n \in senders
            BY <1>1, <3>1, <3>3
        <3> QED
            BY <2>1, <3>4
    <2>2. CASE \E n \in Named(a) : n.address = address
        <3>1. PICK n \in Named(a) : n.address = address
            BY <2>2
        <3>2. n \in addressed /\ n.height = a.height
            BY <1>1, <1>2, <3>1 DEF AllNamed
        <3> QED
            BY <3>1, <3>2
    <2> QED
        BY <2>1, <2>2
<1> QED
    BY <1>4, <1>5

\* Under the same condition an account's first-seen block is the least that holds an
\* action it sends or is named by, and is stored: get_account_first_seen takes the
\* minimum of two tables and never one of a block that a rollback has deleted.
THEOREM FirstSeenAlways == Spec => []FirstSeenHolds
<1>1. AddressesInv => FirstSeenHolds
    <2> SUFFICES ASSUME AddressesInv, covered, ~raced, NEW address \in Addresses
                 PROVE  LET naming == {a \in Stored : \/ a.act.sender = address
                                           \/ \E n \in Named(a) : n.address = address}
                        IN  FirstSeen(address) =
                              {a.height : a \in {a \in naming :
                                                    \A b \in naming : a.height <= b.height}}
        BY DEF FirstSeenHolds
    <2> DEFINE named  == {n \in senders \cup addressed : n.address = address}
               naming == {a \in Stored : \/ a.act.sender = address
                                         \/ \E n \in Named(a) : n.address = address}
               first  == {n.height : n \in {n \in named :
                                               \A m \in named : n.height <= m.height}}
               wanted == {a.height : a \in {a \in naming :
                                               \A b \in naming : a.height <= b.height}}
    <2>1. /\ \A n \in named : \E a \in naming : a.height = n.height
          /\ \A a \in naming : \E n \in named : n.height = a.height
        BY SendersAndNamed
    <2>2. \A a \in naming : IsStored(rows, a.height)
        <3> SUFFICES ASSUME NEW a \in Stored PROVE IsStored(rows, a.height)
            OBVIOUS
        <3>1. WriterInv /\ TablesInv
            BY DEF AddressesInv, TablesInv
        <3>2. a.height \in Heights /\ a.height <= cursor
            BY <3>1, StoredKnown, CursorKnown
        <3>3. rows[a.height] \in Block
            BY <3>1, <3>2 DEF WriterInv, RowsToCursor
        <3> QED
            BY <3>3 DEF IsStored, NoBlock, Block, None, Heights
    <2>3. first = wanted
        <3>1. ASSUME NEW h \in first PROVE h \in wanted
            <4>1. PICK n \in named : h = n.height /\ \A m \in named : n.height <= m.height
                OBVIOUS
            <4>2. PICK a \in naming : a.height = n.height
                BY <2>1
            <4>3. \A b \in naming : a.height <= b.height
                BY <2>1, <4>1, <4>2
            <4> QED
                BY <4>1, <4>2, <4>3
        <3>2. ASSUME NEW h \in wanted PROVE h \in first
            <4>1. PICK a \in naming : h = a.height /\ \A b \in naming : a.height <= b.height
                OBVIOUS
            <4>2. PICK n \in named : n.height = a.height
                BY <2>1
            <4>3. \A m \in named : n.height <= m.height
                BY <2>1, <4>1, <4>2
            <4> QED
                BY <4>1, <4>2, <4>3
        <3> QED
            BY <3>1, <3>2
    <2>4. \A h \in wanted : IsStored(rows, h)
        BY <2>2
    <2>5. FirstSeen(address) = {h \in first : IsStored(rows, h)}
        BY DEF FirstSeen
    <2> QED
        BY <2>3, <2>4, <2>5
<1> QED
    BY <1>1, AddressesAlways, PTL

USE ReadsAssumption

-----------------------------------------------------------------------------
(***************************************************************************)
(* Entries in order.  Of the entries of a list no two are at one place, so *)
(* that any two are one newer than the other.                              *)
(***************************************************************************)
Listed(S) ==
    /\ S \subseteq Entries /\ IsFiniteSet(S)
    /\ \A e, f \in S : e.height = f.height /\ e.tie = f.tie => e = f

LEMMA NewerOrders ==
    /\ \A e \in Entries : ~Newer(e, e)
    /\ \A e, f, g \in Entries : Newer(e, f) /\ Newer(f, g) => Newer(e, g)
    /\ \A e, f \in Entries : Newer(e, f) => ~Newer(f, e)
    /\ \A e, f \in Entries : Newer(e, f) \/ Newer(f, e) \/ (e.height = f.height /\ e.tie = f.tie)
<1>1. \A e \in Entries : e.height \in Int /\ e.tie[1] \in Int /\ e.tie[2] \in Int
    BY DEF Entries, Positions, Heights
<1>2. \A e, f \in Entries : e.tie[1] = f.tie[1] /\ e.tie[2] = f.tie[2] => e.tie = f.tie
    BY DEF Entries, Positions
<1> QED
    BY <1>1, <1>2 DEF Newer, After

LEMMA PartListed ==
    ASSUME NEW S, Listed(S), NEW T \in SUBSET S
    PROVE  Listed(T) /\ Cardinality(T) \in Nat /\ Cardinality(T) <= Cardinality(S)
<1>1. IsFiniteSet(T) /\ Cardinality(T) <= Cardinality(S)
    BY FS_Subset DEF Listed
<1>2. Cardinality(T) \in Nat
    BY <1>1, FS_CardinalityType
<1> QED
    BY <1>1, <1>2 DEF Listed

\* The sequence of a list's entries has each once, the newer before the older.
LEMMA OrderIs ==
    ASSUME NEW S, Listed(S)
    PROVE  LET s == NewestFirst(S)
           IN  /\ s \in Seq(Entries) /\ Len(s) = Cardinality(S) /\ Cardinality(S) \in Nat
               /\ DOMAIN s = 1 .. Cardinality(S)
               /\ \A i \in DOMAIN s : s[i] \in S
               /\ \A e \in S : \E i \in DOMAIN s : s[i] = e
               /\ \A i, j \in DOMAIN s : i < j => Newer(s[i], s[j])
<1> DEFINE n == Cardinality(S)
           Upto(e) == {f \in S : ~Newer(e, f)}
           place == [e \in S |-> Cardinality(Upto(e))]
           s == NewestFirst(S)
<1>1. n \in Nat /\ IsFiniteSet(S) /\ S \subseteq Entries
    BY FS_CardinalityType DEF Listed
<1>2. ASSUME NEW e \in S PROVE IsFiniteSet(Upto(e)) /\ e \in Upto(e) /\ place[e] \in 1 .. n
    <2>1. e \in Upto(e)
        BY <1>1, NewerOrders
    <2>2. IsFiniteSet(Upto(e)) /\ Cardinality(Upto(e)) <= n /\ Cardinality(Upto(e)) \in Nat
        BY <1>1, PartListed DEF Listed
    <2>3. Cardinality(Upto(e)) # 0
        BY <2>1, <2>2, FS_EmptySet
    <2> QED
        BY <1>1, <2>1, <2>2, <2>3
<1>3. ASSUME NEW e \in S, NEW f \in S, Newer(e, f) PROVE place[e] < place[f]
    <2>1. Upto(e) \subseteq Upto(f)
        BY <1>1, <1>3, NewerOrders
    <2>2. f \in Upto(f) /\ f \notin Upto(e)
        BY <1>2, <1>3
    <2>3. IsFiniteSet(Upto(f)) /\ IsFiniteSet(Upto(e))
        BY <1>2
    <2>4. Cardinality(Upto(e)) <= Cardinality(Upto(f)) /\ Cardinality(Upto(e)) # Cardinality(Upto(f))
        <3> HIDE DEF Upto
        <3> QED
            BY <2>1, <2>2, <2>3, FS_Subset
    <2>5. place[e] \in Int /\ place[f] \in Int
        BY <1>2
    <2> QED
        BY <2>4, <2>5
<1>4. \A e, f \in S : place[e] = place[f] => e = f
    <2> SUFFICES ASSUME NEW e \in S, NEW f \in S, place[e] = place[f], e # f PROVE FALSE
        OBVIOUS
    <2>1. Newer(e, f) \/ Newer(f, e)
        BY <1>1, NewerOrders DEF Listed
    <2>2. place[e] \in Int /\ place[f] \in Int
        BY <1>2
    <2> QED
        BY <1>3, <2>1, <2>2
<1>5. IsFiniteSet(1 .. n) /\ Cardinality(1 .. n) = n
    <2>1. Cardinality(1 .. n) = IF 1 > n THEN 0 ELSE n - 1 + 1
        BY <1>1, FS_Interval
    <2> QED
        BY <1>1, <2>1, FS_Interval
<1>6. place \in Injection(S, 1 .. n)
    <2>1. place \in [S -> 1 .. n]
        BY <1>2
    <2> HIDE DEF place
    <2> QED
        BY <1>4, <2>1 DEF Injection, IsInjective
<1>7. place \in Surjection(S, 1 .. n)
    <2> HIDE DEF place
    <2> QED
        BY <1>5, <1>6, FS_Injection
<1>8. \A i \in 1 .. n : \E e \in S : place[e] = i
    <2> HIDE DEF place
    <2> QED
        BY <1>7 DEF Surjection
<1>9. s = [i \in 1 .. n |-> CHOOSE e \in S : Cardinality(Upto(e)) = i]
    BY DEF NewestFirst
<1>10. \A i \in 1 .. n : s[i] \in S /\ place[s[i]] = i
    <2> TAKE i \in 1 .. n
    <2>1. \E e \in S : Cardinality(Upto(e)) = i
        BY <1>8
    <2>2. s[i] = CHOOSE e \in S : Cardinality(Upto(e)) = i
        <3> HIDE DEF s, Upto
        <3> QED
            BY <1>9
    <2>3. s[i] \in S /\ Cardinality(Upto(s[i])) = i
        <3> HIDE DEF s, Upto
        <3> QED
            BY <2>1, <2>2
    <2> QED
        <3> HIDE DEF s, Upto
        <3> QED
            BY <2>3
<1>11. s \in Seq(Entries) /\ Len(s) = n /\ DOMAIN s = 1 .. n
    <2>1. s \in [1 .. n -> Entries]
        BY <1>1, <1>9, <1>10
    <2> HIDE DEF s
    <2> QED
        BY <1>1, <2>1
<1>12. \A e \in S : \E i \in DOMAIN s : s[i] = e
    <2> TAKE e \in S
    <2>1. place[e] \in 1 .. n
        BY <1>2
    <2>2. s[place[e]] = e
        <3> HIDE DEF place, s
        <3> QED
            BY <1>4, <1>10, <2>1
    <2> QED
        BY <1>11, <2>1, <2>2
<1>13. \A i, j \in 1 .. n : i < j => Newer(s[i], s[j])
    <2> SUFFICES ASSUME NEW i \in 1 .. n, NEW j \in 1 .. n, i < j PROVE Newer(s[i], s[j])
        OBVIOUS
    <2>1. s[i] \in S /\ s[j] \in S /\ place[s[i]] = i /\ place[s[j]] = j
        BY <1>10
    <2>2. Newer(s[i], s[j]) \/ Newer(s[j], s[i])
        <3> HIDE DEF s, place
        <3>1. s[i] # s[j]
            BY <2>1
        <3> QED
            BY <1>1, <2>1, <3>1, NewerOrders DEF Listed
    <2>3. ~Newer(s[j], s[i])
        <3> HIDE DEF s, place
        <3> QED
            BY <1>3, <2>1
    <2> QED
        BY <2>2, <2>3
<1> QED
    BY <1>1, <1>10, <1>11, <1>12, <1>13

\* A page holds the first of a list, and the whole list if it is not full.
PageOf(P, S) ==
    /\ P \subseteq S
    /\ \A e \in P, f \in S : Newer(f, e) => f \in P
    /\ Cardinality(P) < PageLimit => P = S

LEMMA NewestIsPage ==
    ASSUME NEW S, Listed(S)
    PROVE  PageOf(Newest(S), S)
<1> DEFINE Above(e) == {f \in S : Newer(f, e)}
           P == Newest(S)
<1>1. S \subseteq Entries /\ P \subseteq S
    BY DEF Newest, Listed
<1>2. \A e \in S : IsFiniteSet(Above(e)) /\ Cardinality(Above(e)) \in Nat
    BY PartListed DEF Listed
<1>3. \A e \in S : e \in P <=> Cardinality(Above(e)) < PageLimit
    BY DEF Newest
<1>4. ASSUME NEW e \in P, NEW f \in S, Newer(f, e) PROVE f \in P
    <2>1. Above(f) \subseteq Above(e)
        BY <1>1, <1>4, NewerOrders
    <2>2. Cardinality(Above(f)) <= Cardinality(Above(e))
        <3>1. IsFiniteSet(Above(e))
            BY <1>1, <1>2
        <3> HIDE DEF Above
        <3> QED
            BY <2>1, <3>1, FS_Subset
    <2>3. /\ Cardinality(Above(e)) < PageLimit /\ Cardinality(Above(e)) \in Nat
          /\ Cardinality(Above(f)) \in Nat /\ PageLimit \in Nat
        BY <1>1, <1>2, <1>3
    <2> HIDE DEF Above, P
    <2>4. Cardinality(Above(f)) < PageLimit
        BY <2>2, <2>3
    <2> QED
        BY <1>3, <2>4
<1>5. ASSUME P # S PROVE ~(Cardinality(P) < PageLimit)
    <2> DEFINE counts == {Cardinality(Above(e)) : e \in S \ P}
    <2>1. counts \in SUBSET Nat /\ counts # {}
        BY <1>1, <1>2, <1>5
    <2>2. PICK k \in counts : \A j \in counts : k <= j
        BY <2>1, Least
    <2>3. PICK e \in S \ P : Cardinality(Above(e)) = k
        OBVIOUS
    <2>4. ASSUME NEW f \in Above(e) PROVE f \in P
        <3>1. f \in S /\ Newer(f, e) /\ e \in S
            OBVIOUS
        <3>2. Above(f) \subseteq Above(e) /\ f \notin Above(f)
            BY <1>1, <3>1, NewerOrders
        <3>3. Cardinality(Above(f)) < Cardinality(Above(e))
            <4>1. IsFiniteSet(Above(e)) /\ Cardinality(Above(e)) \in Nat /\ Cardinality(Above(f)) \in Nat
                BY <1>2, <3>1
            <4>2. Above(f) # Above(e)
                BY <3>2, <2>4
            <4> HIDE DEF Above
            <4>3. Cardinality(Above(f)) <= Cardinality(Above(e)) /\ Cardinality(Above(f)) # Cardinality(Above(e))
                BY <3>2, <4>1, <4>2, FS_Subset
            <4> QED
                BY <4>1, <4>3
        <3> SUFFICES ASSUME f \notin P PROVE FALSE
            OBVIOUS
        <3>4. Cardinality(Above(f)) \in counts /\ Cardinality(Above(f)) \in Nat /\ k \in Nat
            BY <1>2, <2>1, <2>2, <3>1
        <3> HIDE DEF counts, Above, P
        <3> QED
            BY <2>2, <2>3, <3>3, <3>4
    <2>5. Cardinality(Above(e)) <= Cardinality(P) /\ Cardinality(P) \in Nat
        <3>1. IsFiniteSet(P) /\ Above(e) \subseteq P
            BY <1>1, <2>4, FS_Subset DEF Listed
        <3> HIDE DEF Above, P
        <3> QED
            BY <3>1, FS_Subset, FS_CardinalityType
    <2>6. ~(Cardinality(Above(e)) < PageLimit) /\ Cardinality(Above(e)) \in Nat /\ PageLimit \in Nat
        BY <1>2, <1>3
    <2> HIDE DEF Above, P
    <2> QED
        BY <2>5, <2>6
<1> QED
    BY <1>1, <1>4, <1>5 DEF PageOf

\* So does one that is merged from a page of each of some lists.
LEMMA MergedIsPage ==
    ASSUME NEW R, NEW full, NEW page, \A r \in R : PageOf(page[r], full[r]),
           NEW A, Listed(A), \A e : e \in A <=> \E r \in R : e \in full[r],
           NEW U, \A e : e \in U <=> \E r \in R : e \in page[r]
    PROVE  PageOf(Newest(U), A)
<1> DEFINE P == Newest(U)
<1>0. \A g, f \in A : g.height = f.height /\ g.tie = f.tie => g = f
    BY DEF Listed
<1>1. \A r \in R : page[r] \subseteq U /\ page[r] \subseteq full[r] /\ full[r] \subseteq A
    BY DEF PageOf
<1>2. U \subseteq A /\ A \subseteq Entries
    BY <1>1 DEF Listed
<1>3. Listed(U)
    BY <1>2, PartListed
<1>4. PageOf(P, U)
    BY <1>3, NewestIsPage
<1>5. \A r \in R : Cardinality(page[r]) \in Nat /\ Cardinality(page[r]) <= Cardinality(U)
    BY <1>1, <1>3, PartListed
<1>6. ASSUME NEW e \in P, NEW f \in A, Newer(f, e) PROVE f \in P
    <2>0. e \in U
        BY <1>4 DEF PageOf
    <2>1. PICK r \in R : f \in full[r]
        OBVIOUS
    <2>2. CASE f \in page[r]
        <3>1. f \in U
            BY <1>1, <2>2
        <3> QED
            BY <1>4, <1>6, <3>1 DEF PageOf
    <2>3. CASE f \notin page[r]
        <3>1. ~(Cardinality(page[r]) < PageLimit)
            BY <2>1, <2>3 DEF PageOf
        <3>2. ASSUME NEW g \in page[r] PROVE g \in U /\ Newer(g, e)
            <4>1. g \in full[r] /\ g \in U /\ g \in Entries /\ f \in Entries /\ e \in Entries /\ g # f
                BY <1>1, <1>2, <2>0, <2>3
            <4>2. ~Newer(f, g)
                BY <2>1, <2>3, <4>1 DEF PageOf
            <4>3. Newer(g, f)
                <5>1. g \in A /\ f \in A
                    BY <1>2, <4>1
                <5>2. ~(g.height = f.height /\ g.tie = f.tie)
                    BY <1>0, <4>1, <5>1
                <5> QED
                    BY <4>1, <4>2, <5>2, NewerOrders
            <4> QED
                BY <1>6, <4>1, <4>3, NewerOrders
        <3> DEFINE Above == {g \in U : Newer(g, e)}
        <3>3. Cardinality(page[r]) <= Cardinality(Above) /\ Cardinality(Above) \in Nat
            <4>1. IsFiniteSet(Above)
                BY <1>3, FS_Subset DEF Listed
            <4>2. page[r] \subseteq Above
                BY <3>2
            <4> HIDE DEF Above
            <4> QED
                BY <4>1, <4>2, FS_Subset, FS_CardinalityType
        <3>4. Cardinality(Above) < PageLimit
            BY DEF Newest
        <3>5. Cardinality(page[r]) \in Nat /\ PageLimit \in Nat
            BY <1>5
        <3> HIDE DEF Above
        <3> QED
            BY <3>1, <3>3, <3>4, <3>5
    <2> QED
        BY <2>2, <2>3
<1>7. ASSUME Cardinality(P) < PageLimit PROVE P = A
    <2>1. P = U
        BY <1>4, <1>7 DEF PageOf
    <2>2. Cardinality(U) \in Nat /\ Cardinality(U) < PageLimit /\ PageLimit \in Nat
        <3>1. Cardinality(U) \in Nat
            BY <1>3, PartListed
        <3> HIDE DEF P
        <3> QED
            BY <1>7, <2>1, <3>1
    <2>3. \A r \in R : Cardinality(page[r]) < PageLimit
        <3> QED
            BY <1>5, <2>2
    <2>4. \A r \in R : page[r] = full[r]
        BY <2>3 DEF PageOf
    <2> QED
        BY <2>1, <2>4
<1>8. P \subseteq A
    BY <1>2, <1>4 DEF PageOf
<1> QED
    BY <1>6, <1>7, <1>8 DEF PageOf

-----------------------------------------------------------------------------
(***************************************************************************)
(* What the lists hold.                                                    *)
(***************************************************************************)
LEMMA ActionsListed ==
    ASSUME TablesInv, NEW S \in SUBSET Stored
    PROVE  Listed({ActionEntry(a) : a \in S})
<1> DEFINE T == {ActionEntry(a) : a \in S}
           f == [a \in S |-> ActionEntry(a)]
<1>1. \A a \in S : /\ a \in ActionRow /\ a.height \in Heights /\ a.index \in Nat /\ a.id \in Ids
                   /\ a.height \in 0 .. cursor /\ a \in BlockActions(a.height, bodies[a.height])
                   /\ bodies[a.height] \in Contents
    BY StoredKnown DEF ActionRow
<1>2. T \subseteq Entries
    BY <1>1 DEF ActionEntry, Entry, Entries, Positions
<1>3. IsFiniteSet(T)
    <2>1. IsFiniteSet(S)
        BY StoredFinite, FS_Subset
    <2>2. IsFiniteSet({f[a] : a \in S})
        BY <2>1, ImageFinite
    <2> QED
        BY <2>2
<1>4. ASSUME NEW a \in S, NEW c \in S, a.height = c.height, a.index = c.index PROVE a.id = c.id
    <2>1. /\ a.act = bodies[a.height].acts[a.index] /\ a.id = Identity(a.act, a.height, a.index)
          /\ c.act = bodies[c.height].acts[c.index] /\ c.id = Identity(c.act, c.height, c.index)
        BY <1>1, BlockActionsKnown
    <2> QED
        BY <1>4, <2>1
<1>5. \A e, g \in T : e.height = g.height /\ e.tie = g.tie => e = g
    <2> SUFFICES ASSUME NEW a \in S, NEW c \in S, ActionEntry(a).height = ActionEntry(c).height,
                        ActionEntry(a).tie = ActionEntry(c).tie
                 PROVE  ActionEntry(a) = ActionEntry(c)
        OBVIOUS
    <2>1. a.height = c.height /\ a.index = c.index
        BY DEF ActionEntry, Entry
    <2>2. a.id = c.id
        BY <1>4, <2>1
    <2> QED
        BY <2>1, <2>2 DEF ActionEntry, Entry
<1> QED
    BY <1>2, <1>3, <1>5 DEF Listed

LEMMA EventsListed ==
    ASSUME TablesInv, NEW S \in SUBSET Stored
    PROVE  Listed({EventEntry(a) : a \in S})
<1> DEFINE T == {EventEntry(a) : a \in S}
           f == [a \in S |-> EventEntry(a)]
<1>1. \A a \in S : a.height \in Heights /\ a.id \in Ids
    BY StoredKnown DEF ActionRow
<1>2. T \subseteq Entries
    <2>1. \A i \in Ids : <<-i[1], -i[2]>> \in Int \X Int
        BY DEF Ids
    <2> QED
        BY <1>1, <2>1 DEF EventEntry, Entry, Entries, Positions
<1>3. IsFiniteSet(T)
    <2>1. IsFiniteSet(S)
        BY StoredFinite, FS_Subset
    <2>2. IsFiniteSet({f[a] : a \in S})
        BY <2>1, ImageFinite
    <2> QED
        BY <2>2
<1>4. \A e, g \in T : e.height = g.height /\ e.tie = g.tie => e = g
    <2> SUFFICES ASSUME NEW a \in S, NEW c \in S, EventEntry(a).height = EventEntry(c).height,
                        EventEntry(a).tie = EventEntry(c).tie
                 PROVE  EventEntry(a) = EventEntry(c)
        OBVIOUS
    <2>1. a.height = c.height /\ -a.id[1] = -c.id[1] /\ -a.id[2] = -c.id[2]
        BY DEF EventEntry, Entry
    <2>2. a.id[1] = c.id[1] /\ a.id[2] = c.id[2]
        <3>1. a.id[1] \in Int /\ a.id[2] \in Int /\ c.id[1] \in Int /\ c.id[2] \in Int
            BY <1>1 DEF Ids
        <3> QED
            BY <2>1, <3>1
    <2>3. a.id = c.id
        BY <1>1, <2>2 DEF Ids
    <2> QED
        BY <2>1, <2>3 DEF EventEntry, Entry
<1> QED
    BY <1>2, <1>3, <1>4 DEF Listed

LEMMA DropsListed ==
    ASSUME TablesInv
    PROVE  Listed({DropEntry(d) : d \in dropped})
<1> DEFINE T == {DropEntry(d) : d \in dropped}
           f == [d \in dropped |-> DropEntry(d)]
           of(h) == DropRows(h, bodies[h])
           blocks == {of(h) : h \in 0 .. cursor}
<1>1. \A h \in 0 .. cursor : h \in Heights /\ bodies[h] \in Contents
    BY CursorKnown DEF TablesInv
<1>2. dropped = UNION blocks
    BY DEF TablesInv
<1>3. \A h \in 0 .. cursor : bodies[h].drops \subseteq Nat /\ IsFiniteSet(bodies[h].drops)
    <2>1. \A b \in Bodies : b.drops \subseteq Sigs /\ IsFiniteSet(b.drops)
        BY ActionsAssumption
    <2>2. NoBody.drops \subseteq Sigs /\ IsFiniteSet(NoBody.drops)
        BY FS_EmptySet DEF NoBody
    <2>3. Sigs \subseteq Nat \ {0}
        BY ActionsAssumption
    <2> QED
        BY <1>1, <2>1, <2>2, <2>3 DEF Contents
<1>4. \A d \in dropped : d.height \in Heights /\ d.id \in Nat \X Nat
    BY <1>1, <1>2, <1>3 DEF DropRows
<1>5. T \subseteq Entries
    BY <1>4 DEF DropEntry, Entry, Entries, Positions, Ids
<1>6. IsFiniteSet(dropped)
    <2>1. ASSUME NEW h \in 0 .. cursor PROVE IsFiniteSet(of(h))
        <3> DEFINE row == [s \in bodies[h].drops |-> [id |-> <<0, s>>, height |-> h]]
        <3>1. IsFiniteSet({row[s] : s \in bodies[h].drops})
            <4>1. IsFiniteSet(bodies[h].drops) /\ DOMAIN row = bodies[h].drops
                BY <1>3
            <4> HIDE DEF row
            <4> QED
                BY <4>1, ImageFinite
        <3> QED
            BY <3>1 DEF DropRows
    <2>2. IsFiniteSet(blocks)
        <3> DEFINE block == [h \in 0 .. cursor |-> of(h)]
        <3>1. IsFiniteSet(0 .. cursor)
            <4>1. 0 \in Int /\ cursor \in Int
                BY CursorKnown DEF TablesInv
            <4> QED
                BY <4>1, FS_Interval
        <3>2. IsFiniteSet({block[h] : h \in 0 .. cursor})
            BY <3>1, ImageFinite
        <3> QED
            BY <3>2
    <2>3. \A t \in blocks : IsFiniteSet(t)
        BY <2>1
    <2> HIDE DEF blocks
    <2> QED
        BY <1>2, <2>2, <2>3, FS_UNION
<1>7. IsFiniteSet(T)
    <2>1. IsFiniteSet({f[d] : d \in dropped})
        BY <1>6, ImageFinite
    <2> QED
        BY <2>1
<1>8. \A e, g \in T : e.height = g.height /\ e.tie = g.tie => e = g
    BY DEF DropEntry, Entry
<1> QED
    BY <1>5, <1>7, <1>8 DEF Listed

LEMMA SummariesListed ==
    ASSUME WriterInv
    PROVE  Listed({SummaryEntry(rows[h]) : h \in 0 .. cursor})
<1> DEFINE T == {SummaryEntry(rows[h]) : h \in 0 .. cursor}
           f == [h \in 0 .. cursor |-> SummaryEntry(rows[h])]
<1>1. \A h \in 0 .. cursor : rows[h].height = h /\ h \in Heights /\ rows[h].hash \in Nat
    BY CursorKnown, WriterKnown DEF Block, Hashes
<1>2. T \subseteq Entries
    BY <1>1 DEF SummaryEntry, Entry, Entries, Positions, Ids
<1>3. IsFiniteSet(T)
    <2>1. IsFiniteSet(0 .. cursor)
        <3>1. 0 \in Int /\ cursor \in Int
            BY CursorKnown
        <3> QED
            BY <3>1, FS_Interval
    <2>2. IsFiniteSet({f[h] : h \in 0 .. cursor})
        BY <2>1, ImageFinite
    <2> QED
        BY <2>2
<1>4. \A e, g \in T : e.height = g.height /\ e.tie = g.tie => e = g
    BY <1>1 DEF SummaryEntry, Entry
<1> QED
    BY <1>2, <1>3, <1>4 DEF Listed

-----------------------------------------------------------------------------
(***************************************************************************)
(* A page of each list is a page of what is older than the last entry.     *)
(***************************************************************************)
\* Of an account's history what counts for one role.
Role(role) == IF role = "payload_from" THEN "from" ELSE role

Concerns(a, address, role) ==
    IF role = "from" THEN a.act.sender = address
    ELSE <<address, Role(role)>> \in Resolve(schema, a.act.kind, a.act.payload)

\* The condition under which a walk is exact.
Reliable(q) == q.list = "account" => covered /\ ~raced

\* A row of an account's index is one of its action, which it concerns, and of each
\* such action there is one.
LEMMA SenderJoins ==
    ASSUME TablesInv
    PROVE  /\ \A n \in senders, a \in Stored : n.id = a.id => n.height = a.height /\ n.address = a.act.sender
           /\ \A a \in Stored : \E n \in senders : n.id = a.id /\ n.address = a.act.sender
<1>1. \A h \in 0 .. cursor : h \in Heights /\ bodies[h] \in Contents
    BY CursorKnown DEF TablesInv
<1>2. senders = UNION {SenderRows(h, bodies[h]) : h \in 0 .. cursor}
    BY DEF TablesInv
<1>3. ASSUME NEW n \in senders, NEW a \in Stored, n.id = a.id
      PROVE  n.height = a.height /\ n.address = a.act.sender
    <2>1. PICK h \in 0 .. cursor : n \in SenderRows(h, bodies[h])
        BY <1>2
    <2>2. PICK i \in DOMAIN bodies[h].acts :
            n = [id |-> Identity(bodies[h].acts[i], h, i), height |-> h,
                 address |-> bodies[h].acts[i].sender]
        BY <2>1 DEF SenderRows
    <2>3. PICK c \in BlockActions(h, bodies[h]) : c.id = n.id /\ c.act = bodies[h].acts[i]
        BY <1>1, <2>1, <2>2, FirstHasRow
    <2>4. c \in Stored /\ c.height = h
        BY <1>1, <2>1, <2>3, BlockActionsKnown DEF Stored
    <2>5. c = a
        BY <1>3, <2>3, <2>4, StoredApart
    <2> QED
        BY <2>2, <2>3, <2>4, <2>5
<1>4. ASSUME NEW a \in Stored PROVE \E n \in senders : n.id = a.id /\ n.address = a.act.sender
    <2>1. /\ a.height \in 0 .. cursor
          /\ a \in BlockActions(a.height, bodies[a.height])
        BY StoredKnown
    <2>2. /\ a.index \in DOMAIN bodies[a.height].acts /\ a.act = bodies[a.height].acts[a.index]
          /\ a.id = Identity(a.act, a.height, a.index)
        BY <1>1, <2>1, BlockActionsKnown
    <2> DEFINE n == [id |-> Identity(a.act, a.height, a.index), height |-> a.height,
                     address |-> a.act.sender]
    <2>3. n \in SenderRows(a.height, bodies[a.height])
        BY <2>2 DEF SenderRows
    <2>4. n \in senders
        BY <1>2, <2>1, <2>3
    <2> QED
        BY <2>2, <2>4
<1> QED
    BY <1>3, <1>4

LEMMA NamedJoins ==
    ASSUME AddressesInv, covered, ~raced
    PROVE  /\ \A n \in addressed, a \in Stored : n.id = a.id =>
                n.height = a.height
                /\ <<n.address, n.role>> \in Resolve(schema, a.act.kind, a.act.payload)
           /\ \A a \in Stored : \A address, role :
                <<address, role>> \in Resolve(schema, a.act.kind, a.act.payload) =>
                    \E n \in addressed : n.id = a.id /\ n.address = address /\ n.role = role
<1>1. TablesInv /\ addressed = UNION {Named(a) : a \in Stored}
    BY DEF AddressesInv, AllNamed
<1>2. ASSUME NEW n \in addressed, NEW a \in Stored, n.id = a.id
      PROVE  /\ n.height = a.height
             /\ <<n.address, n.role>> \in Resolve(schema, a.act.kind, a.act.payload)
    <2>1. PICK c \in Stored : n \in Named(c)
        BY <1>1
    <2>2. n.id = c.id /\ n.height = c.height
        BY <2>1, NamedKnown DEF Named
    <2>3. c = a
        BY <1>1, <1>2, <2>2, StoredApart
    <2>4. PICK x \in Resolve(schema, a.act.kind, a.act.payload) :
            n = [id |-> a.id, height |-> a.height, address |-> x[1], role |-> x[2]]
        BY <2>1, <2>3 DEF Named, NamedRows
    <2>5. \E u, v : x = <<u, v>>
        <3>1. CASE a.act.kind \in DOMAIN TierB
            <4>1. a.act \in Action
                BY <1>1, StoredKnown DEF ActionRow
            <4>2. a.act.payload \in Payloads
                BY <4>1 DEF Action
            <4>3. TierB[a.act.kind] \in [Payloads -> SUBSET (Addresses \X Roles)]
                BY <3>1, ExtractionAssumption
            <4>4. x \in TierB[a.act.kind][a.act.payload]
                BY <2>4, <3>1 DEF Resolve
            <4>5. x \in Addresses \X Roles
                BY <4>2, <4>3, <4>4
            <4> QED
                BY <4>5
        <3>2. CASE a.act.kind \notin DOMAIN TierB
            BY <2>4, <3>2 DEF Resolve, TierA
        <3> QED
            BY <3>1, <3>2
    <2>6. x = <<n.address, n.role>>
        BY <2>4, <2>5
    <2> QED
        BY <2>2, <2>3, <2>4, <2>6
<1>3. ASSUME NEW a \in Stored, NEW address, NEW role,
             <<address, role>> \in Resolve(schema, a.act.kind, a.act.payload)
      PROVE  \E n \in addressed : n.id = a.id /\ n.address = address /\ n.role = role
    <2> DEFINE n == [id |-> a.id, height |-> a.height, address |-> address, role |-> role]
    <2>1. n \in Named(a)
        BY <1>3 DEF Named, NamedRows
    <2>2. n \in addressed
        BY <1>1, <2>1
    <2> QED
        BY <2>2
<1> QED
    BY <1>2, <1>3

\* A branch is a page of the entries of its role.
LEMMA BranchIs ==
    ASSUME AddressesInv, covered, ~raced, NEW address, NEW role
    PROVE  Branch(address, role)
             = Newest(Older({ActionEntry(a) : a \in {a \in Stored : Concerns(a, address, role)}}))
<1> DEFINE named == {n \in addressed : n.role = Role(role)}
           index == IF role = "from" THEN senders ELSE named
           pairs == {p \in index \X actions : p[1].address = address /\ p[1].id = p[2].id}
           at(p) == Entry(p[1].height, <<p[2].index, 0>>, p[2].id)
           list  == {ActionEntry(a) : a \in {a \in Stored : Concerns(a, address, role)}}
           page  == Newest(Older(list))
<1>1. TablesInv /\ actions = Stored
    BY DEF AddressesInv, TablesInv
<1>2. ASSUME NEW p \in pairs
      PROVE  p[2] \in Stored /\ Concerns(p[2], address, role) /\ at(p) = ActionEntry(p[2])
    <2>1. p[1] \in index /\ p[2] \in Stored /\ p[1].address = address /\ p[1].id = p[2].id
        BY <1>1
    <2>2. p[1].height = p[2].height /\ Concerns(p[2], address, role)
        <3>1. CASE role = "from"
            <4>1. p[1] \in senders
                BY <2>1, <3>1
            <4> QED
                BY <1>1, <2>1, <3>1, <4>1, SenderJoins DEF Concerns
        <3>2. CASE role # "from"
            <4>1. p[1] \in addressed /\ p[1].role = Role(role)
                BY <2>1, <3>2
            <4> QED
                BY <2>1, <3>2, <4>1, NamedJoins DEF Concerns
        <3> QED
            BY <3>1, <3>2
    <2> QED
        BY <2>1, <2>2 DEF ActionEntry
<1>3. ASSUME NEW a \in Stored, Concerns(a, address, role)
      PROVE  \E p \in pairs : p[2] = a
    <2>1. PICK n \in index : n.id = a.id /\ n.address = address
        <3>1. CASE role = "from"
            <4>1. \E n \in senders : n.id = a.id /\ n.address = address
                BY <1>1, <1>3, <3>1, SenderJoins DEF Concerns
            <4> QED
                BY <3>1, <4>1
        <3>2. CASE role # "from"
            <4>1. <<address, Role(role)>> \in Resolve(schema, a.act.kind, a.act.payload)
                BY <1>3, <3>2 DEF Concerns
            <4>2. \E n \in addressed : n.id = a.id /\ n.address = address /\ n.role = Role(role)
                BY <4>1, NamedJoins
            <4> QED
                BY <3>2, <4>2
        <3> QED
            BY <3>1, <3>2
    <2>2. <<n, a>> \in pairs
        BY <1>1, <2>1
    <2> QED
        BY <2>2
<1>4. {at(p) : p \in pairs} = list
    <2>1. ASSUME NEW p \in pairs PROVE at(p) \in list
        BY <1>2
    <2>2. ASSUME NEW a \in Stored, Concerns(a, address, role) PROVE ActionEntry(a) \in {at(p) : p \in pairs}
        <3>1. PICK p \in pairs : p[2] = a
            BY <1>3, <2>2
        <3>2. at(p) = ActionEntry(a)
            BY <1>2, <3>1
        <3> HIDE DEF pairs, at
        <3> QED
            BY <3>2
    <2>3. \A e \in list : e \in {at(p) : p \in pairs}
        <3> HIDE DEF pairs, at
        <3> QED
            BY <2>2
    <2>4. \A e \in {at(p) : p \in pairs} : e \in list
        <3> HIDE DEF pairs, at, list
        <3> QED
            BY <2>1
    <2> HIDE DEF pairs, at, list
    <2> QED
        BY <2>3, <2>4
<1>5. Branch(address, role) = {ActionEntry(p[2]) : p \in {p \in pairs : at(p) \in page}}
    <2>1. page = Newest(Older({at(p) : p \in pairs}))
        BY <1>4
    <2> QED
        BY <2>1 DEF Branch, Role
<1>6. page \subseteq list
    BY DEF Newest, Older
<1> DEFINE chosen == {p \in pairs : at(p) \in page}
<1>7. {ActionEntry(p[2]) : p \in chosen} = page
    <2>1. ASSUME NEW p \in chosen PROVE ActionEntry(p[2]) \in page
        <3>1. p \in pairs /\ at(p) \in page
            OBVIOUS
        <3>2. at(p) = ActionEntry(p[2])
            <4> HIDE DEF chosen, page
            <4> QED
                BY <1>2, <3>1
        <3> HIDE DEF pairs, at, page
        <3> QED
            BY <3>1, <3>2
    <2>2. ASSUME NEW e \in page PROVE \E p \in chosen : ActionEntry(p[2]) = e
        <3>1. PICK p \in pairs : e = at(p)
            <4> HIDE DEF pairs, at, page
            <4> QED
                BY <1>4, <1>6
        <3>2. at(p) = ActionEntry(p[2])
            BY <1>2
        <3>3. p \in chosen
            <4> HIDE DEF pairs, at, page
            <4> QED
                BY <3>1
        <3> HIDE DEF chosen, pairs, at, page
        <3> QED
            BY <3>1, <3>2, <3>3
    <2> HIDE DEF chosen, page
    <2> QED
        BY <2>1, <2>2
<1> QED
    BY <1>5, <1>7

\* The last entry of a walk cuts a list in two.
LEMMA OlderListed ==
    ASSUME NEW S, Listed(S)
    PROVE  Listed(Older(S)) /\ Older(S) \subseteq S
<1>1. Older(S) \in SUBSET S
    BY DEF Older
<1> QED
    BY <1>1, PartListed

LEMMA AccountPageIs ==
    ASSUME AddressesInv, covered, ~raced
    PROVE  LET all == {ActionEntry(a) : a \in {a \in Stored :
                          \E role \in ask.roles : Concerns(a, ask.subject, role)}}
           IN  Listed(all) /\ PageOf(AccountPage, Older(all))
<1> DEFINE all == {ActionEntry(a) : a \in {a \in Stored :
                      \E role \in ask.roles : Concerns(a, ask.subject, role)}}
           list(role) == {ActionEntry(a) : a \in {a \in Stored : Concerns(a, ask.subject, role)}}
           full == [role \in ask.roles |-> Older(list(role))]
           page == [role \in ask.roles |-> Branch(ask.subject, role)]
<1>1. TablesInv
    BY DEF AddressesInv
<1>2. Listed(all) /\ \A role \in ask.roles : Listed(list(role))
    BY <1>1, ActionsListed
<1>3. Older(all) = UNION {full[role] : role \in ask.roles}
    <2>1. ASSUME NEW e \in Older(all) PROVE \E role \in ask.roles : e \in full[role]
        <3>1. PICK a \in Stored : /\ e = ActionEntry(a) /\ Newer(last, e)
                                  /\ \E role \in ask.roles : Concerns(a, ask.subject, role)
            BY DEF Older
        <3>2. PICK role \in ask.roles : Concerns(a, ask.subject, role)
            BY <3>1
        <3>3. e \in Older(list(role))
            BY <3>1, <3>2 DEF Older
        <3> QED
            BY <3>2, <3>3
    <2>2. ASSUME NEW role \in ask.roles, NEW e \in full[role] PROVE e \in Older(all)
        <3>1. PICK a \in Stored : /\ e = ActionEntry(a) /\ Newer(last, e)
                                  /\ Concerns(a, ask.subject, role)
            BY DEF Older
        <3> QED
            BY <3>1 DEF Older
    <2> HIDE DEF all, full
    <2> QED
        BY <2>1, <2>2
<1>4. ASSUME NEW role \in ask.roles PROVE PageOf(page[role], full[role])
    <2>1. page[role] = Newest(full[role])
        BY BranchIs
    <2>2. Listed(full[role])
        <3>1. Listed(list(role))
            BY <1>2
        <3> HIDE DEF list
        <3> QED
            BY <3>1, OlderListed
    <2> HIDE DEF page, full
    <2> QED
        BY <2>1, <2>2, NewestIsPage
<1>5. Listed(Older(all))
    <2> HIDE DEF all
    <2> QED
        BY <1>2, OlderListed
<1>6. AccountPage = Newest(UNION {page[role] : role \in ask.roles})
    BY DEF AccountPage
<1>7. PageOf(AccountPage, Older(all))
    <2> HIDE DEF all, full, page
    <2> DEFINE pages == UNION {page[role] : role \in ask.roles}
    <2>1. \A e : e \in Older(all) <=> \E role \in ask.roles : e \in full[role]
        BY <1>3
    <2>2. \A e : e \in pages <=> \E role \in ask.roles : e \in page[role]
        OBVIOUS
    <2> HIDE DEF pages
    <2>3. PageOf(Newest(pages), Older(all))
        BY <1>4, <1>5, <2>1, <2>2, MergedIsPage
    <2> QED
        BY <1>6, <2>3 DEF pages
<1> QED
    BY <1>2, <1>7

\* The page of any other list is cut from the table at once.
LEMMA CutIsPage ==
    ASSUME NEW S, Listed(S)
    PROVE  PageOf(Newest(Older(S)), Older(S))
BY OlderListed, NewestIsPage

\* What a list holds now is what the tables list.
LEMMA WantedNow ==
    ASSUME TablesInv, ask \in Requests
    PROVE  /\ ask.list = "account" =>
                Wanted(ask, cursor) = {ActionEntry(a) : a \in {a \in Stored :
                    \E role \in ask.roles : Concerns(a, ask.subject, role)}}
           /\ ask.list = "actions" => Wanted(ask, cursor) = {ActionEntry(a) : a \in actions}
           /\ ask.list = "asset" =>
                Wanted(ask, cursor) = {Entry(x.height, <<x.index, 0>>, x.id) : x \in {x \in assets :
                    x.token = ask.subject /\ \E a \in actions : a.id = x.id}}
           /\ ask.list = "events" =>
                Wanted(ask, cursor) = {EventEntry(e) : e \in {e \in events : e.token = ask.subject}}
           /\ ask.list = "dropped" => Wanted(ask, cursor) = {DropEntry(d) : d \in dropped}
           /\ ask.list = "summaries" =>
                Wanted(ask, cursor)
                  = {SummaryEntry(rows[h]) : h \in {h \in Heights : IsStored(rows, h)}}
<1> DEFINE below == {a \in Stored : a.height <= cursor}
<1>1. below = Stored /\ actions = Stored
    <2>1. \A a \in Stored : a.height \in 0 .. cursor
        BY StoredKnown
    <2>2. \A h \in 0 .. cursor : h <= cursor
        BY CursorKnown DEF TablesInv
    <2> QED
        BY <2>1, <2>2 DEF TablesInv
<1> HIDE DEF below
<1>2. CASE ask.list = "account"
    BY <1>1, <1>2 DEF Wanted, Concerns, Role, below
<1>3. CASE ask.list = "actions"
    BY <1>1, <1>3 DEF Wanted, below
<1>4. CASE ask.list = "asset"
    <2> DEFINE T == {x \in assets : x.token = ask.subject /\ \E a \in actions : a.id = x.id}
               at(x) == Entry(x.height, <<x.index, 0>>, x.id)
    <2>1. Wanted(ask, cursor) = {ActionEntry(a) : a \in {a \in Stored : a.act.token = ask.subject}}
        BY <1>1, <1>4 DEF Wanted, below
    <2>2. assets = AssetRows(Stored)
        BY DEF TablesInv
    <2>3. ASSUME NEW x \in T PROVE \E a \in Stored : a.act.token = ask.subject /\ at(x) = ActionEntry(a)
        <3>1. PICK a \in Stored : x = [id |-> a.id, height |-> a.height, index |-> a.index,
                                       token |-> a.act.token]
            BY <2>2 DEF AssetRows
        <3> QED
            BY <3>1 DEF ActionEntry
    <2>4. ASSUME NEW a \in Stored, a.act.token = ask.subject
          PROVE  \E x \in T : at(x) = ActionEntry(a)
        <3> DEFINE x == [id |-> a.id, height |-> a.height, index |-> a.index, token |-> a.act.token]
        <3>1. a.act.token # NoToken
            <4>1. ask.subject \in Tokens
                BY <1>4
            <4>2. Tokens \subseteq Nat \ {0}
                BY ActionsAssumption
            <4> QED
                BY <2>4, <4>1, <4>2 DEF NoToken
        <3>2. x \in AssetRows(Stored)
            BY <3>1 DEF AssetRows
        <3>3. x \in T
            BY <1>1, <2>2, <2>4, <3>2
        <3> QED
            BY <3>3 DEF ActionEntry
    <2> HIDE DEF T
    <2>5. {at(x) : x \in T} = {ActionEntry(a) : a \in {a \in Stored : a.act.token = ask.subject}}
        BY <2>3, <2>4
    <2> QED
        BY <1>4, <2>1, <2>5 DEF T
<1>5. CASE ask.list = "events"
    <2> DEFINE T == {e \in events : e.token = ask.subject}
    <2>1. Wanted(ask, cursor) = {EventEntry(a) : a \in {a \in Stored : a.act.token = ask.subject}}
        BY <1>1, <1>5 DEF Wanted, below
    <2>2. events = EventRows(Stored)
        BY DEF TablesInv
    <2>3. ASSUME NEW e \in T
          PROVE  \E a \in Stored : a.act.token = ask.subject /\ EventEntry(e) = EventEntry(a)
        <3>1. PICK a \in Stored : e = [id |-> a.id, height |-> a.height, token |-> a.act.token]
            BY <2>2 DEF EventRows
        <3> QED
            BY <3>1 DEF EventEntry
    <2>4. ASSUME NEW a \in Stored, a.act.token = ask.subject
          PROVE  \E e \in T : EventEntry(e) = EventEntry(a)
        <3> DEFINE e == [id |-> a.id, height |-> a.height, token |-> a.act.token]
        <3>1. a.act.token # NoToken
            <4>1. ask.subject \in Tokens
                BY <1>5
            <4>2. Tokens \subseteq Nat \ {0}
                BY ActionsAssumption
            <4> QED
                BY <2>4, <4>1, <4>2 DEF NoToken
        <3>2. e \in T
            BY <2>2, <2>4, <3>1 DEF EventRows
        <3> QED
            BY <3>2 DEF EventEntry
    <2> HIDE DEF T
    <2>5. {EventEntry(e) : e \in T} = {EventEntry(a) : a \in {a \in Stored : a.act.token = ask.subject}}
        BY <2>3, <2>4
    <2> QED
        BY <1>5, <2>1, <2>5 DEF T
<1>6. CASE ask.list = "dropped"
    <2>1. Wanted(ask, cursor)
            = UNION {{Entry(h, <<0, s>>, <<0, s>>) : s \in bodies[h].drops} : h \in 0 .. cursor}
        BY <1>6 DEF Wanted
    <2>2. dropped = UNION {DropRows(h, bodies[h]) : h \in 0 .. cursor}
        BY DEF TablesInv
    <2>3. ASSUME NEW e \in Wanted(ask, cursor) PROVE \E d \in dropped : DropEntry(d) = e
        <3>1. PICK h \in 0 .. cursor : \E s \in bodies[h].drops : e = Entry(h, <<0, s>>, <<0, s>>)
            BY <2>1
        <3>2. PICK s \in bodies[h].drops : e = Entry(h, <<0, s>>, <<0, s>>)
            BY <3>1
        <3>3. [id |-> <<0, s>>, height |-> h] \in dropped
            BY <2>2 DEF DropRows
        <3> QED
            BY <3>2, <3>3 DEF DropEntry
    <2>4. ASSUME NEW d \in dropped PROVE DropEntry(d) \in Wanted(ask, cursor)
        <3>1. PICK h \in 0 .. cursor : \E s \in bodies[h].drops : d = [id |-> <<0, s>>, height |-> h]
            BY <2>2 DEF DropRows
        <3>2. PICK s \in bodies[h].drops : d = [id |-> <<0, s>>, height |-> h]
            BY <3>1
        <3> QED
            BY <2>1, <3>2 DEF DropEntry
    <2> QED
        BY <1>6, <2>3, <2>4
<1>7. CASE ask.list = "summaries"
    <2>1. {h \in Heights : IsStored(rows, h)} = 0 .. cursor
        <3>1. WriterInv
            BY DEF TablesInv
        <3>2. \A h \in Heights : IsStored(rows, h) <=> h <= cursor
            BY <3>1 DEF WriterInv, RowsToCursor, IsStored, NoBlock, Block, None, Heights
        <3>3. \A h \in Heights : h <= cursor <=> h \in 0 .. cursor
            BY <3>1, CursorKnown DEF Heights
        <3>4. \A h \in 0 .. cursor : h \in Heights
            BY <3>1, CursorKnown
        <3> QED
            BY <3>2, <3>3, <3>4
    <2>2. Wanted(ask, cursor) = {SummaryEntry(rows[h]) : h \in 0 .. cursor}
        BY <1>7 DEF Wanted
    <2> QED
        BY <1>7, <2>1, <2>2
<1> QED
    BY <1>2, <1>3, <1>4, <1>5, <1>6, <1>7

\* The lists there are besides the blocks.
LEMMA ListsKnown ==
    ASSUME ask \in Requests, ask.list # "blocks"
    PROVE  ask.list \in {"account", "actions", "asset", "events", "dropped", "summaries"}
BY ReadsAssumption

LEMMA WantedListed ==
    ASSUME TablesInv, ask \in Requests, ask.list # "blocks"
    PROVE  Listed(Wanted(ask, cursor))
<1>1. CASE ask.list = "account"
    <2> DEFINE S == {a \in Stored : \E role \in ask.roles : Concerns(a, ask.subject, role)}
    <2>1. Listed({ActionEntry(a) : a \in S})
        BY ActionsListed
    <2> QED
        BY <1>1, <2>1, WantedNow
<1>2. CASE ask.list = "actions"
    <2>1. actions = Stored
        BY DEF TablesInv
    <2> QED
        BY <1>2, <2>1, ActionsListed, WantedNow
<1>3. CASE ask.list = "asset"
    <2> DEFINE S == {a \in {a \in Stored : a.height <= cursor} : a.act.token = ask.subject}
    <2>1. Listed({ActionEntry(a) : a \in S})
        BY ActionsListed
    <2> QED
        BY <1>3, <2>1 DEF Wanted
<1>4. CASE ask.list = "events"
    <2> DEFINE S == {a \in {a \in Stored : a.height <= cursor} : a.act.token = ask.subject}
    <2>1. Listed({EventEntry(a) : a \in S})
        BY EventsListed
    <2> QED
        BY <1>4, <2>1 DEF Wanted
<1>5. CASE ask.list = "dropped"
    BY <1>5, DropsListed, WantedNow
<1>6. CASE ask.list = "summaries"
    <2>1. Listed({SummaryEntry(rows[h]) : h \in 0 .. cursor})
        BY SummariesListed DEF TablesInv
    <2> QED
        BY <1>6, <2>1 DEF Wanted
<1> QED
    BY <1>1, <1>2, <1>3, <1>4, <1>5, <1>6, ListsKnown

\* Each list's query takes a page of what the list holds after the last entry.
LEMMA PageIs ==
    ASSUME AddressesInv, ask \in Requests, ask.list # "blocks", Reliable(ask)
    PROVE  PageOf(Page, Older(Wanted(ask, cursor)))
<1> DEFINE W == Wanted(ask, cursor)
<1>1. TablesInv
    BY DEF AddressesInv
<1>2. Listed(W)
    BY <1>1, WantedListed
<1>3. CASE ask.list = "account"
    <2>1. Page = AccountPage
        BY <1>3 DEF Page
    <2>2. W = {ActionEntry(a) : a \in {a \in Stored :
                 \E role \in ask.roles : Concerns(a, ask.subject, role)}}
        BY <1>1, <1>3, WantedNow
    <2>3. covered /\ ~raced
        BY <1>3 DEF Reliable
    <2> HIDE DEF W
    <2>4. PageOf(AccountPage, Older(W))
        BY <2>2, <2>3, AccountPageIs
    <2> QED
        BY <2>1, <2>4 DEF W
<1>4. ASSUME Page = Newest(Older(W)) PROVE PageOf(Page, Older(W))
    <2> HIDE DEF W
    <2> QED
        BY <1>2, <1>4, CutIsPage
<1>5. CASE ask.list = "actions"
    BY <1>1, <1>4, <1>5, WantedNow DEF Page, ActionsPage
<1>6. CASE ask.list = "asset"
    BY <1>1, <1>4, <1>6, WantedNow DEF Page, AssetPage
<1>7. CASE ask.list = "events"
    BY <1>1, <1>4, <1>7, WantedNow DEF Page, EventsPage
<1>8. CASE ask.list = "dropped"
    BY <1>1, <1>4, <1>8, WantedNow DEF Page, DroppedPage
<1>9. CASE ask.list = "summaries"
    BY <1>1, <1>4, <1>9, WantedNow DEF Page, SummariesPage
<1> QED
    BY <1>3, <1>5, <1>6, <1>7, <1>8, <1>9, ListsKnown

\* Whatever is missing from the index of an account, its page is of actions.
LEMMA PageListed ==
    ASSUME AddressesInv, ask \in Requests, ask.list # "blocks"
    PROVE  Listed(Page)
<1>1. TablesInv
    BY DEF AddressesInv
<1>2. CASE ask.list = "account"
    <2> DEFINE W == {ActionEntry(a) : a \in actions}
    <2>1. Page = AccountPage
        BY <1>2 DEF Page
    <2>2. Listed(W)
        <3>1. actions = Stored
            BY <1>1 DEF TablesInv
        <3> QED
            BY <1>1, <3>1, ActionsListed
    <2>3. \A role : Branch(ask.subject, role) \subseteq W
        BY DEF Branch
    <2>4. AccountPage \subseteq W
        BY <2>3 DEF AccountPage, Newest
    <2> HIDE DEF W
    <2> QED
        BY <2>1, <2>2, <2>4, PartListed
<1>3. CASE ask.list # "account"
    <2>1. PageOf(Page, Older(Wanted(ask, cursor)))
        BY <1>3, PageIs DEF Reliable
    <2>2. Listed(Wanted(ask, cursor))
        BY <1>1, WantedListed
    <2> DEFINE W == Wanted(ask, cursor)
    <2> HIDE DEF W
    <2>3. Listed(W) /\ PageOf(Page, Older(W))
        BY <2>1, <2>2 DEF W
    <2>4. Page \subseteq W
        BY <2>3 DEF PageOf, Older
    <2> QED
        BY <2>3, <2>4, PartListed
<1> QED
    BY <1>2, <1>3

\* The part of a list up to a height is of the blocks up to there.
LEMMA WantedPart ==
    ASSUME TablesInv, ask \in Requests, ask.list # "blocks",
           NEW top \in Int, NEW high \in Int, top <= high, high <= cursor
    PROVE  \A e : e \in Wanted(ask, top) <=> e \in Wanted(ask, high) /\ e.height <= top
<1>1. \A a \in Stored : a.height \in Int
    BY StoredKnown DEF ActionRow, Heights
<1>2. /\ \A h \in 0 .. top : h \in 0 .. high
      /\ \A h \in 0 .. high : h <= top => h \in 0 .. top
      /\ \A h \in 0 .. top : h <= top
    OBVIOUS
<1> DEFINE below(t) == {a \in Stored : a.height <= t}
<1>3. below(top) = {a \in below(high) : a.height <= top}
    BY <1>1
<1>4. CASE ask.list = "account"
    <2> DEFINE Goes(a) == \E role \in ask.roles :
                   IF role = "from" THEN a.act.sender = ask.subject
                   ELSE <<ask.subject, IF role = "payload_from" THEN "from" ELSE role>>
                            \in Resolve(schema, a.act.kind, a.act.payload)
    <2>1. /\ Wanted(ask, top) = {ActionEntry(a) : a \in {a \in below(top) : Goes(a)}}
          /\ Wanted(ask, high) = {ActionEntry(a) : a \in {a \in below(high) : Goes(a)}}
        BY <1>4 DEF Wanted
    <2> HIDE DEF Goes, below
    <2> QED
        BY <1>3, <2>1 DEF ActionEntry, Entry
<1>5. CASE ask.list = "actions"
    <2>1. /\ Wanted(ask, top) = {ActionEntry(a) : a \in below(top)}
          /\ Wanted(ask, high) = {ActionEntry(a) : a \in below(high)}
        BY <1>5 DEF Wanted
    <2> HIDE DEF below
    <2> QED
        BY <1>3, <2>1 DEF ActionEntry, Entry
<1>6. CASE ask.list = "asset"
    <2>1. /\ Wanted(ask, top) = {ActionEntry(a) : a \in {a \in below(top) : a.act.token = ask.subject}}
          /\ Wanted(ask, high) = {ActionEntry(a) : a \in {a \in below(high) : a.act.token = ask.subject}}
        BY <1>6 DEF Wanted
    <2> HIDE DEF below
    <2> QED
        BY <1>3, <2>1 DEF ActionEntry, Entry
<1>7. CASE ask.list = "events"
    <2>1. /\ Wanted(ask, top) = {EventEntry(a) : a \in {a \in below(top) : a.act.token = ask.subject}}
          /\ Wanted(ask, high) = {EventEntry(a) : a \in {a \in below(high) : a.act.token = ask.subject}}
        BY <1>7 DEF Wanted
    <2> HIDE DEF below
    <2> QED
        BY <1>3, <2>1 DEF EventEntry, Entry
<1>8. CASE ask.list = "dropped"
    <2> DEFINE of(h) == {Entry(h, <<0, s>>, <<0, s>>) : s \in bodies[h].drops}
    <2>1. /\ Wanted(ask, top) = UNION {of(h) : h \in 0 .. top}
          /\ Wanted(ask, high) = UNION {of(h) : h \in 0 .. high}
        BY <1>8 DEF Wanted
    <2>2. \A h : \A e \in of(h) : e.height = h
        BY DEF Entry
    <2> HIDE DEF of
    <2> QED
        BY <1>2, <2>1, <2>2
<1>9. CASE ask.list = "summaries"
    <2>1. /\ Wanted(ask, top) = {SummaryEntry(rows[h]) : h \in 0 .. top}
          /\ Wanted(ask, high) = {SummaryEntry(rows[h]) : h \in 0 .. high}
        BY <1>9 DEF Wanted
    <2>2. \A h \in 0 .. high : SummaryEntry(rows[h]).height = h
        <3>1. \A h \in 0 .. high : h \in Heights /\ h <= cursor
            BY CursorKnown DEF TablesInv, Heights
        <3> QED
            BY <3>1, WriterKnown DEF TablesInv, SummaryEntry, Entry
    <2> QED
        BY <1>2, <2>1, <2>2
<1> QED
    BY <1>4, <1>5, <1>6, <1>7, <1>8, <1>9, ListsKnown

-----------------------------------------------------------------------------
(***************************************************************************)
(* Types.                                                                  *)
(***************************************************************************)
\* The part of the types that the tables' invariant does not give.
LooseTypeOK ==
    /\ addressed \subseteq NamedRow /\ held \subseteq NamedRow
    /\ schema \subseteq Rules
    /\ reindex \in {"off", "read", "insert"} /\ (reindex = "insert" <=> held # {})
    /\ mark \in Positions
    /\ covered \in BOOLEAN /\ raced \in BOOLEAN
    /\ restarts \in 0 .. MaxRestarts

ReadTypeOK ==
    /\ step \in {"idle", "walk", "rows", "acts", "drops", "done"}
    /\ ask \in Requests
    /\ last \in Entries \cup {NoLast}
    /\ got \in Seq(Entries)
    /\ parts \in [rows : Seq(Block), acts : SUBSET ActionRow, drops : SUBSET DropRow]
    /\ stood \in Heights \cup {None}

\* A client is served when no reindex is under way, and reads blocks in three steps
\* and any other list page by page.
ReadsInOrder ==
    /\ step # "idle" => reindex = "off"
    /\ stood <= cursor
    /\ step = "walk" => ask.list # "blocks"
    /\ step \in {"rows", "acts", "drops"} => ask.list = "blocks"
    /\ step \in {"acts", "drops"} => parts.rows # <<>>

ReadInv == LooseTypeOK /\ ReadTypeOK /\ ReadsInOrder

LEMMA TablesTyped ==
    ASSUME TablesInv
    PROVE  /\ actions \subseteq ActionRow /\ senders \subseteq SenderRow
           /\ events \subseteq EventRow /\ assets \subseteq AssetRow /\ dropped \subseteq DropRow
<1>1. \A h \in 0 .. cursor : h \in Heights /\ bodies[h] \in Contents
    BY CursorKnown DEF TablesInv
<1>2. Stored \subseteq ActionRow /\ actions = Stored
    BY StoredKnown DEF TablesInv
<1>3. \A a \in Stored : a.id \in Ids /\ a.height \in Heights /\ a.index \in Nat /\ a.act \in Action
    BY <1>2 DEF ActionRow
<1>4. senders \subseteq SenderRow
    <2> SUFFICES ASSUME NEW n \in senders PROVE n \in SenderRow
        OBVIOUS
    <2>1. PICK h \in 0 .. cursor : n \in SenderRows(h, bodies[h])
        BY DEF TablesInv
    <2>2. PICK i \in DOMAIN bodies[h].acts :
            n = [id |-> Identity(bodies[h].acts[i], h, i), height |-> h,
                 address |-> bodies[h].acts[i].sender]
        BY <2>1 DEF SenderRows
    <2>3. bodies[h].acts[i] \in Action /\ i \in Nat /\ h \in Heights
        BY <1>1, ContentsKnown
    <2>4. Identity(bodies[h].acts[i], h, i) \in Ids /\ bodies[h].acts[i].sender \in Addresses
        BY <2>3, IdentityKnown DEF Action
    <2> QED
        BY <2>2, <2>3, <2>4 DEF SenderRow
<1>5. events \subseteq EventRow /\ assets \subseteq AssetRow
    <2>1. \A a \in Stored : a.act.token # NoToken => a.act.token \in Tokens
        BY <1>3 DEF Action
    <2> QED
        BY <1>3, <2>1 DEF TablesInv, EventRows, AssetRows, EventRow, AssetRow
<1>6. dropped \subseteq DropRow
    <2> SUFFICES ASSUME NEW d \in dropped PROVE d \in DropRow
        OBVIOUS
    <2>1. PICK h \in 0 .. cursor : d \in DropRows(h, bodies[h])
        BY DEF TablesInv
    <2>2. PICK s \in bodies[h].drops : d = [id |-> <<0, s>>, height |-> h]
        BY <2>1 DEF DropRows
    <2>3. s \in Nat /\ h \in Heights
        <3>1. Sigs \subseteq Nat \ {0}
            BY ActionsAssumption
        <3> QED
            BY <1>1, <3>1, ContentsKnown
    <2> QED
        BY <2>2, <2>3 DEF DropRow, Ids
<1> QED
    BY <1>2, <1>4, <1>5, <1>6

LEMMA TypesKnown == TablesInv /\ ReadInv => TypeOK
<1> SUFFICES ASSUME TablesInv, ReadInv PROVE TypeOK
    OBVIOUS
<1>1. IndexTypeOK
    BY TablesTyped DEF TablesInv, WriterInv, Contents, ReadInv, LooseTypeOK, IndexTypeOK
<1> QED
    BY <1>1 DEF ReadInv, ReadTypeOK, TypeOK

\* The rows an action's payload gives are rows of the table, under any rules.
LEMMA NamedTyped ==
    ASSUME NEW s \in SUBSET Rules, NEW id \in Ids, NEW h \in Heights, NEW act \in Action
    PROVE  NamedRows(s, id, h, act) \subseteq NamedRow
<1>1. act.kind \in Kinds /\ act.payload \in Payloads
    BY DEF Action
<1>2. Resolve(s, act.kind, act.payload) \subseteq Addresses \X Roles
    <2>1. CASE act.kind \in DOMAIN TierB
        <3>1. TierB[act.kind] \in [Payloads -> SUBSET (Addresses \X Roles)]
            BY <2>1, ExtractionAssumption
        <3> QED
            BY <1>1, <2>1, <3>1 DEF Resolve
    <2>2. CASE act.kind \notin DOMAIN TierB
        <3>1. \A r \in s : r.role \in Roles
            BY ExtractionAssumption
        <3>2. \A p \in DOMAIN act.payload : act.payload[p] \in Addresses
            <4>1. PICK P \in SUBSET Paths : act.payload \in [P -> Addresses]
                BY <1>1 DEF Payloads
            <4> QED
                BY <4>1
        <3> QED
            BY <2>2, <3>1, <3>2 DEF Resolve, TierA
    <2> QED
        BY <2>1, <2>2
<1> QED
    BY <1>2 DEF NamedRows, NamedRow

LEMMA LooseKept == TablesInv /\ LooseTypeOK /\ [Next]_vars => LooseTypeOK'
<1> SUFFICES ASSUME TablesInv, LooseTypeOK, [Next]_vars PROVE LooseTypeOK'
    OBVIOUS
<1> USE DEF LooseTypeOK
<1>1. CASE Commit
    <2>1. PICK n, bs :
            /\ Batch(n, bs)
            /\ addressed' = addressed \cup UNION {AddressRows(h, bs[h]) : h \in DOMAIN bs}
            /\ UNCHANGED reindexVars
        BY <1>1, CommitIsBatch
    <2>3. ASSUME NEW h \in DOMAIN bs PROVE AddressRows(h, bs[h]) \subseteq NamedRow
        <3>1. h \in Heights /\ bs[h] \in Contents
            BY <2>1, BatchStands
        <3>2. \A i \in DOMAIN bs[h].acts :
                NamedRows(schema, Identity(bs[h].acts[i], h, i), h, bs[h].acts[i]) \subseteq NamedRow
            <4> TAKE i \in DOMAIN bs[h].acts
            <4>1. bs[h].acts[i] \in Action /\ i \in Nat
                BY <3>1, ContentsKnown
            <4>2. Identity(bs[h].acts[i], h, i) \in Ids
                BY <3>1, <4>1, IdentityKnown
            <4> QED
                BY <3>1, <4>1, <4>2, NamedTyped
        <3> QED
            BY <3>2 DEF AddressRows, Missing
    <2>4. addressed' \subseteq NamedRow
        BY <2>1, <2>3
    <2> QED
        BY <2>1, <2>4 DEF reindexVars
<1>2. CASE Rollback
    BY <1>2 DEF Rollback, UpTo
<1>3. CASE Restart
    <2>0. restarts' \in 0 .. MaxRestarts
        <3>1. MaxRestarts \in Nat
            BY ActionsAssumption
        <3> QED
            BY <1>3, <3>1 DEF Restart
    <2>1. schema' \subseteq Rules
        BY <1>3 DEF Restart
    <2>2. reindex' \in {"off", "read"} /\ held' = {} /\ mark' \in Positions
        BY <1>3 DEF Restart, Start, Positions
    <2>3. covered' \in BOOLEAN /\ raced' = raced /\ addressed' = addressed
        BY <1>3 DEF Restart, tableVars
    <2> QED
        BY <2>0, <2>1, <2>2, <2>3
<1>4. CASE ReindexReads
    <2>1. \A a \in NextPage : a \in ActionRow
        BY TablesTyped DEF NextPage, Unread
    <2>2. \A a \in NextPage : NamedRows(schema, a.id, a.height, a.act) \subseteq NamedRow
        <3> TAKE a \in NextPage
        <3>1. a.id \in Ids /\ a.height \in Heights /\ a.act \in Action
            BY <2>1 DEF ActionRow
        <3> QED
            BY <3>1, NamedTyped
    <2>3. held' \subseteq NamedRow
        BY <1>4, <2>2 DEF ReindexReads
    <2>4. mark' \in Positions
        <3>1. PICK a \in NextPage : mark' = Position(a)
            BY <1>4 DEF ReindexReads
        <3>2. a.height \in Int /\ a.index \in Int
            BY <2>1 DEF ActionRow, Heights
        <3> QED
            BY <3>1, <3>2 DEF Position, Positions
    <2> QED
        BY <1>4, <2>3, <2>4 DEF ReindexReads, Inserts, tableVars
<1>5. CASE ReindexInserts
    <2>1. addressed' \subseteq NamedRow
        BY <1>5 DEF ReindexInserts, Missing
    <2> QED
        BY <1>5, <2>1 DEF ReindexInserts
<1>6. CASE ReindexEnds
    BY <1>6 DEF ReindexEnds, tableVars
<1>7. CASE UNCHANGED indexVars
    BY <1>7 DEF indexVars, tableVars, reindexVars
<1>8. CASE Ask \/ Read \/ UNCHANGED vars
    BY <1>7, <1>8 DEF Ask, Read, ReadPage, ReadRows, ReadActs, ReadDrops, vars
<1> QED
    BY <1>1, <1>2, <1>3, <1>4, <1>5, <1>6, <1>8 DEF Next, Index, Reindex

-----------------------------------------------------------------------------
(***************************************************************************)
(* What stands while the index task goes on.                               *)
(***************************************************************************)
LEMMA StepStands ==
    ASSUME TablesInv, Commit \/ Rollback, NEW t \in Int, t <= cursor, t <= cursor'
    PROVE  /\ \A h \in 0 .. t : rows'[h] = rows[h] /\ bodies'[h] = bodies[h]
           /\ {a \in Stored' : a.height <= t} = {a \in Stored : a.height <= t}
<1>1. WriterInv /\ cursor \in Int /\ \A h \in 0 .. t : h \in 0 .. cursor /\ h \in Heights /\ h <= cursor
    BY CursorKnown DEF TablesInv
<1>2. \A a \in Stored : a.height \in Int
    BY StoredKnown DEF ActionRow, Heights
<1>3. CASE Commit
    <2>1. PICK n, bs : Batch(n, bs)
        BY <1>3, CommitIsBatch
    <2>2. \A h \in 0 .. t : bodies'[h] = bodies[h]
        BY <1>1, <2>1, BatchStands
    <2>3. Stored' = Stored \cup UNION {BlockActions(h, bs[h]) : h \in DOMAIN bs}
        BY <2>1, BatchRows
    <2>4. \A h \in DOMAIN bs : \A a \in BlockActions(h, bs[h]) : ~(a.height <= t)
        <3> TAKE h \in DOMAIN bs
        <3>1. h \in Heights /\ bs[h] \in Contents /\ h \notin 0 .. cursor
            BY <2>1, BatchStands
        <3>2. h \in Int /\ h >= 0 /\ ~(h <= cursor)
            BY <1>1, <3>1 DEF Heights
        <3>3. \A a \in BlockActions(h, bs[h]) : a.height = h
            BY <3>1, BlockActionsKnown
        <3> QED
            BY <1>1, <3>2, <3>3
    <2>5. \A h \in 0 .. t : rows'[h] = rows[h]
        <3>1. PICK k \in 1 .. Smaller(MaxBatch, MaxHeight - cursor) :
                Store(BlocksAbove(k)) /\ branch' = branch
            BY <1>3 DEF Commit
        <3>2. branch' \in Hashes
            BY <1>1, <3>1 DEF WriterInv, WriterTypeOK
        <3>3. \A h \in Heights : rows'[h] = IF cursor < h /\ h <= cursor + k
                                           THEN BlocksAbove(k)[h - cursor] ELSE rows[h]
            BY <1>1, <3>1, <3>2, StoreGrows
        <3> QED
            BY <1>1, <3>3
    <2> QED
        BY <2>2, <2>3, <2>4, <2>5
<1>4. CASE Rollback
    <2>0. branch \in Hashes /\ MaxReorgs \in Nat
        BY <1>1, BlocksAssumption DEF WriterInv, WriterTypeOK
    <2>1. Unstore /\ branch' \in Hashes
        BY <1>4, <2>0 DEF Rollback, Hashes
    <2>2. cursor' = cursor - 1 /\ \A h \in Heights : h < cursor => rows'[h] = rows[h]
        BY <1>1, <2>1, UnstoreRetracts
    <2>3. \A h \in 0 .. t : h \in 0 .. cursor' /\ h \in Heights /\ h < cursor
        BY <1>1, <2>2
    <2>4. \A h \in 0 .. t : rows'[h] = rows[h] /\ bodies'[h] = bodies[h]
        BY <1>4, <2>2, <2>3, RollbackStands
    <2>5. Stored' = UpTo(Stored, cursor - 1)
        BY <1>4, RollbackRetracts
    <2>6. \A a \in Stored : a.height <= t => a.height <= cursor - 1
        BY <1>1, <1>2, <2>2
    <2> QED
        BY <2>4, <2>5, <2>6 DEF UpTo
<1> QED
    BY <1>3, <1>4

\* The part of a list that stands is what it was.
LEMMA WantedStays ==
    ASSUME TablesInv, Commit \/ Rollback, ask \in Requests, ask.list # "blocks", ask' = ask,
           schema' = schema, stood \in Int, stood' \in Int,
           stood' <= stood, stood <= cursor, stood' <= cursor'
    PROVE  Wanted(ask, stood)' = {e \in Wanted(ask, stood) : e.height <= stood'}
<1> DEFINE t == stood'
<1>1. t \in Int /\ t <= cursor /\ t <= cursor' /\ t <= stood
    BY CursorKnown DEF TablesInv
<1>2. /\ \A h \in 0 .. t : rows'[h] = rows[h] /\ bodies'[h] = bodies[h]
      /\ {a \in Stored' : a.height <= t} = {a \in Stored : a.height <= t}
    <2> HIDE DEF t
    <2> QED
        BY <1>1, StepStands
<1>3. Wanted(ask, t) = {e \in Wanted(ask, stood) : e.height <= t}
    <2> HIDE DEF t
    <2> QED
        BY <1>1, WantedPart
<1>4. Wanted(ask, stood)' = Wanted(ask, t)
    <2>1. CASE ask.list = "account"
        BY <1>2, <2>1 DEF Wanted
    <2>2. CASE ask.list = "actions"
        BY <1>2, <2>2 DEF Wanted
    <2>3. CASE ask.list \in {"asset", "events"}
        BY <1>2, <2>3 DEF Wanted
    <2>4. CASE ask.list = "dropped"
        <3> DEFINE of(h)  == {Entry(h, <<0, s>>, <<0, s>>) : s \in bodies[h].drops}
                   new(h) == {Entry(h, <<0, s>>, <<0, s>>) : s \in bodies'[h].drops}
        <3>1. \A h \in 0 .. t : new(h) = of(h)
            BY <1>2
        <3>2. Wanted(ask, t) = UNION {of(h) : h \in 0 .. t}
            BY <2>4 DEF Wanted
        <3>3. Wanted(ask, stood)' = UNION {new(h) : h \in 0 .. t}
            BY <2>4 DEF Wanted
        <3> HIDE DEF of, new, t
        <3> QED
            BY <3>1, <3>2, <3>3
    <2>5. CASE ask.list = "summaries"
        BY <1>2, <2>5 DEF Wanted
    <2> QED
        BY <2>1, <2>2, <2>3, <2>4, <2>5, ListsKnown
<1> QED
    BY <1>3, <1>4

-----------------------------------------------------------------------------
(***************************************************************************)
(* The client.                                                             *)
(***************************************************************************)
LEMMA JoinIs ==
    ASSUME NEW S, NEW s \in Seq(S), NEW t \in Seq(S)
    PROVE  /\ s \o t \in Seq(S) /\ Len(s \o t) = Len(s) + Len(t)
           /\ DOMAIN (s \o t) = 1 .. Len(s) + Len(t)
           /\ \A i \in 1 .. Len(s) + Len(t) : (s \o t)[i] = IF i <= Len(s) THEN s[i] ELSE t[i - Len(s)]
OBVIOUS

\* What a page adds to a walk.
LEMMA PageAdds ==
    ASSUME AddressesInv, ReadTypeOK, ask.list # "blocks", ReadPage
    PROVE  LET s == NewestFirst(Page)
           IN  /\ s \in Seq(Entries) /\ DOMAIN s = 1 .. Len(s) /\ Len(s) = Cardinality(Page)
               /\ Len(s) \in Nat /\ (Page = {} <=> Len(s) = 0)
               /\ \A i \in DOMAIN s : s[i] \in Page
               /\ \A e \in Page : e \in Entries /\ \E i \in DOMAIN s : s[i] = e
               /\ \A i, j \in DOMAIN s : i < j => Newer(s[i], s[j])
               /\ got' \in Seq(Entries) /\ Len(got) \in Nat /\ Len(got') = Len(got) + Len(s)
               /\ DOMAIN got = 1 .. Len(got) /\ DOMAIN got' = 1 .. Len(got) + Len(s)
               /\ \A i \in 1 .. Len(got) : got'[i] = got[i] /\ got[i] \in Entries
               /\ \A i \in 1 .. Len(s) : got'[Len(got) + i] = s[i]
               /\ last' = IF Page = {} THEN last ELSE s[Len(s)]
<1> DEFINE s == NewestFirst(Page)
<1>1. Listed(Page)
    BY PageListed DEF ReadTypeOK
<1>2. /\ s \in Seq(Entries) /\ DOMAIN s = 1 .. Len(s) /\ Len(s) = Cardinality(Page)
      /\ Len(s) \in Nat
      /\ \A i \in DOMAIN s : s[i] \in Page
      /\ \A e \in Page : \E i \in DOMAIN s : s[i] = e
      /\ \A i, j \in DOMAIN s : i < j => Newer(s[i], s[j])
    BY <1>1, OrderIs
<1>3. Page = {} <=> Len(s) = 0
    <2>1. IsFiniteSet(Page)
        BY <1>1 DEF Listed
    <2> HIDE DEF s
    <2> QED
        BY <1>2, <2>1, FS_EmptySet
<1>4. got' = got \o s /\ got \in Seq(Entries)
    BY DEF ReadPage, ReadTypeOK
<1>5. \A e \in Page : e \in Entries
    BY <1>1 DEF Listed
<1> HIDE DEF s
<1>6. /\ got' \in Seq(Entries) /\ Len(got) \in Nat /\ Len(got') = Len(got) + Len(s)
      /\ DOMAIN got = 1 .. Len(got) /\ DOMAIN got' = 1 .. Len(got) + Len(s)
      /\ \A i \in 1 .. Len(got) : got'[i] = got[i] /\ got[i] \in Entries
      /\ \A i \in 1 .. Len(s) : got'[Len(got) + i] = s[i]
    <2>1. Len(got) \in Nat /\ DOMAIN got = 1 .. Len(got) /\ \A i \in 1 .. Len(got) : got[i] \in Entries
        BY <1>4
    <2> DEFINE n == Len(got)
               k == Len(s)
    <2>2. n \in Nat /\ k \in Nat
        BY <1>2, <2>1
    <2>3. /\ got' \in Seq(Entries) /\ Len(got') = n + k /\ DOMAIN got' = 1 .. n + k
          /\ \A i \in 1 .. n + k : got'[i] = IF i <= n THEN got[i] ELSE s[i - n]
        <3> DEFINE t == got \o s
        <3>1. /\ t \in Seq(Entries) /\ Len(t) = Len(got) + Len(s) /\ DOMAIN t = 1 .. Len(got) + Len(s)
              /\ \A i \in 1 .. Len(got) + Len(s) : t[i] = IF i <= Len(got) THEN got[i] ELSE s[i - Len(got)]
            <4> HIDE DEF n, k
            <4>1. got \in Seq(Entries) /\ s \in Seq(Entries)
                BY <1>2, <1>4
            <4> QED
                BY <4>1, JoinIs
        <3>2. got' = t
            BY <1>4
        <3> HIDE DEF t
        <3> QED
            BY <3>1, <3>2
    <2> HIDE DEF n, k
    <2>6. \A i \in 1 .. n : got'[i] = got[i]
        BY <2>2, <2>3
    <2>7. \A i \in 1 .. k : n + i \in 1 .. n + k /\ ~(n + i <= n) /\ (n + i) - n = i
        BY <2>2
    <2>8. \A i \in 1 .. k : got'[n + i] = s[i]
        BY <2>3, <2>7
    <2> QED
        BY <2>1, <2>3, <2>6, <2>8 DEF n, k
<1>7. last' = IF Page = {} THEN last ELSE s[Len(s)]
    <2>1. last' = IF Page = {} THEN last ELSE got'[Len(got')]
        BY DEF ReadPage
    <2>2. CASE Page # {}
        <3>1. Len(s) \in 1 .. Len(s)
            BY <1>2, <1>3, <2>2
        <3> QED
            BY <1>6, <2>1, <3>1
    <2> QED
        BY <2>1, <2>2
<1> QED
    BY <1>2, <1>3, <1>5, <1>6, <1>7 DEF s

LEMMA ReadTypesKept ==
    AddressesInv /\ ReadInv /\ [Next]_vars => ReadTypeOK' /\ ReadsInOrder'
<1> SUFFICES ASSUME AddressesInv, ReadInv, [Next]_vars PROVE ReadTypeOK' /\ ReadsInOrder'
    OBVIOUS
<1> USE DEF ReadInv, ReadTypeOK, ReadsInOrder
<1>1. TablesInv /\ WriterInv /\ cursor \in Int /\ cursor >= -1 /\ cursor \in Heights \cup {None}
    BY CursorKnown DEF AddressesInv, TablesInv, WriterInv, WriterTypeOK
<1>2. stood \in Int /\ stood >= -1
    BY DEF Heights, None
<1>3. CASE Commit /\ UNCHANGED readVars
    <2>1. UNCHANGED <<step, ask, last, got, parts, stood>> /\ UNCHANGED reindex
        BY <1>3 DEF readVars, Commit, reindexVars
    <2>2. stood <= cursor'
        <3>1. PICK n, bs : Batch(n, bs)
            BY <1>1, <1>3, CommitIsBatch
        <3>2. n \in Nat /\ cursor' = cursor + n
            BY <3>1 DEF Batch
        <3> QED
            BY <1>1, <1>2, <3>2
    <2> QED
        BY <2>1, <2>2
<1>4. CASE Reindex /\ UNCHANGED readVars
    <2>1. UNCHANGED <<step, ask, last, got, parts, stood, cursor>>
        BY <1>4 DEF readVars, Reindex, ReindexReads, ReindexInserts, ReindexEnds, writerVars
    <2>2. step = "idle"
        BY <1>4 DEF Reindex, ReindexReads, ReindexInserts, ReindexEnds
    <2> QED
        BY <2>1, <2>2
<1>5. CASE Rollback /\ stood' = Smaller(stood, cursor - 1) /\ UNCHANGED <<step, ask, last, got, parts>>
    <2>1. reindex' = reindex /\ cursor' = cursor - 1 /\ cursor > 0
        <3>1. cursor > 0
            BY <1>5 DEF Rollback, Unstore
        <3> QED
            BY <1>1, <1>5, <3>1, RollbackStands DEF Rollback
    <2>2. stood' = IF stood < cursor - 1 THEN stood ELSE cursor - 1
        BY <1>1, <1>2, <1>5 DEF Smaller
    <2>3. cursor - 1 \in Heights
        <3>1. cursor \in Heights
            BY <1>1, <2>1 DEF None
        <3> QED
            BY <2>1, <3>1, BlocksAssumption DEF Heights
    <2>4. stood' \in Heights \cup {None} /\ stood' <= cursor'
        BY <1>1, <1>2, <2>1, <2>2, <2>3
    <2> QED
        BY <1>5, <2>1, <2>4
<1>6. CASE /\ Restart /\ step' = "idle" /\ last' = NoLast /\ got' = <<>> /\ parts' = NoParts
           /\ stood' = None /\ UNCHANGED ask
    <2>1. cursor' = cursor
        BY <1>6 DEF Restart, writerVars
    <2>2. parts' \in [rows : Seq(Block), acts : SUBSET ActionRow, drops : SUBSET DropRow]
        BY <1>6, BlockSeqs DEF NoParts
    <2>3. got' \in Seq(Entries)
        BY <1>6, EmptyKnown
    <2>4. stood' <= cursor'
        BY <1>1, <1>6, <2>1 DEF None
    <2> QED
        BY <1>6, <2>2, <2>3, <2>4
<1>7. CASE Ask
    <2>1. cursor' = cursor /\ reindex' = "off"
        BY <1>7 DEF Ask, indexVars, writerVars, reindexVars
    <2>2. parts' \in [rows : Seq(Block), acts : SUBSET ActionRow, drops : SUBSET DropRow]
        BY <1>7, BlockSeqs DEF Ask, NoParts
    <2>3. got' \in Seq(Entries)
        BY <1>7, EmptyKnown DEF Ask
    <2>4. /\ step' \in {"rows", "walk"} /\ ask' \in Requests /\ last' = NoLast /\ stood' = cursor
          /\ step' = "walk" => ask'.list # "blocks"
          /\ step' = "rows" => ask'.list = "blocks"
        BY <1>7 DEF Ask
    <2> QED
        BY <1>1, <2>1, <2>2, <2>3, <2>4
<1>8. CASE ReadPage
    <2>1. ask.list # "blocks"
        BY <1>8 DEF ReadPage
    <2>2. got' \in Seq(Entries) /\ last' \in Entries \cup {NoLast}
        <3> DEFINE s == NewestFirst(Page)
        <3>1. /\ got' \in Seq(Entries) /\ s \in Seq(Entries) /\ Len(s) \in Nat /\ DOMAIN s = 1 .. Len(s)
              /\ last' = IF Page = {} THEN last ELSE s[Len(s)]
              /\ Page = {} <=> Len(s) = 0
            BY <1>8, <2>1, PageAdds
        <3> HIDE DEF s
        <3>2. CASE Page = {}
            BY <3>1, <3>2
        <3>3. CASE Page # {}
            <4>1. Len(s) \in 1 .. Len(s)
                BY <3>1, <3>3
            <4>2. s[Len(s)] \in Entries
                BY <3>1, <4>1
            <4> QED
                BY <3>1, <3>3, <4>2
        <3> QED
            BY <3>2, <3>3
    <2>3. /\ step = "walk" /\ step' \in {"done", "walk"}
          /\ UNCHANGED <<cursor, reindex, ask, parts, stood>>
        BY <1>8 DEF ReadPage, indexVars, writerVars, reindexVars
    <2> QED
        BY <2>1, <2>2, <2>3
<1>9. CASE ReadRows
    <2>1. /\ step = "rows" /\ step' \in {"done", "acts"}
          /\ UNCHANGED <<cursor, reindex, ask, last, got, stood>>
        BY <1>9 DEF ReadRows, indexVars, writerVars, reindexVars
    <2>2. /\ parts' = [parts EXCEPT !.rows = RowsBetween(ask.subject, ask.upto, PageLimit)]
          /\ step' = IF parts'.rows = <<>> THEN "done" ELSE "acts"
        BY <1>9 DEF ReadRows
    <2>3. RowsBetween(ask.subject, ask.upto, PageLimit) \in Seq(Block)
        <3>1. /\ ask.subject \in Nat /\ ask.upto \in Int /\ ask.upto <= MaxHeight
              /\ PageLimit \in Nat \ {0}
            BY <2>1, ReadsAssumption DEF Heights
        <3> QED
            BY <1>1, <3>1, RowsBetweenIs
    <2> QED
        BY <2>1, <2>2, <2>3
<1>10. CASE ReadActs
    <2>1. /\ step = "acts" /\ step' = "drops" /\ parts' = [parts EXCEPT !.acts = Spanned(actions)]
          /\ UNCHANGED <<cursor, reindex, ask, last, got, stood>>
        BY <1>10 DEF ReadActs, indexVars, writerVars, reindexVars
    <2>2. Spanned(actions) \subseteq ActionRow
        BY <1>1, TablesTyped DEF Spanned
    <2> QED
        BY <2>1, <2>2
<1>11. CASE ReadDrops
    <2>1. /\ step = "drops" /\ step' = "done" /\ parts' = [parts EXCEPT !.drops = Spanned(dropped)]
          /\ UNCHANGED <<cursor, reindex, ask, last, got, stood>>
        BY <1>11 DEF ReadDrops, indexVars, writerVars, reindexVars
    <2>2. Spanned(dropped) \subseteq DropRow
        BY <1>1, TablesTyped DEF Spanned
    <2> QED
        BY <2>1, <2>2
<1>12. CASE UNCHANGED vars
    BY <1>12 DEF vars, indexVars, readVars, writerVars, reindexVars
<1> QED
    BY <1>3, <1>4, <1>5, <1>6, <1>7, <1>8, <1>9, <1>10, <1>11, <1>12 DEF Next, Index, Read

LEMMA ReadStarts == Init => ReadInv
<1> SUFFICES ASSUME Init PROVE ReadInv
    OBVIOUS
<1>1. LooseTypeOK
    <2>1. MaxRestarts \in Nat
        BY ActionsAssumption
    <2>2. mark \in Positions /\ restarts \in 0 .. MaxRestarts
        BY <2>1 DEF Init, IndexInit, Start, Positions
    <2>3. /\ addressed = {} /\ held = {} /\ schema \subseteq Rules /\ reindex = "off"
          /\ covered = TRUE /\ raced = FALSE
        BY DEF Init, IndexInit
    <2> QED
        BY <2>2, <2>3 DEF LooseTypeOK
<1>2. ReadTypeOK
    <2>1. parts \in [rows : Seq(Block), acts : SUBSET ActionRow, drops : SUBSET DropRow]
        BY BlockSeqs DEF Init, NoParts
    <2>2. got \in Seq(Entries)
        BY EmptyKnown DEF Init
    <2> QED
        BY <2>1, <2>2 DEF Init, ReadTypeOK
<1>3. ReadsInOrder
    BY DEF Init, IndexInit, WriterInit, ReadsInOrder, None
<1> QED
    BY <1>1, <1>2, <1>3 DEF ReadInv

LEMMA ReadAlways == Spec => []ReadInv
<1>1. AddressesInv /\ ReadInv /\ [Next]_vars => ReadInv'
    BY LooseKept, ReadTypesKept DEF AddressesInv, ReadInv
<1> QED
    BY <1>1, ReadStarts, AddressesAlways, PTL DEF Spec

\* Every variable has its type: the rows of the tables are the kind of rows each table
\* takes, the reindex holds rows just when it is to insert them, and what a client has
\* read are entries and rows (ActionReads, for storage's tables and its paged queries).
THEOREM ReadTypeCorrect == Spec => []TypeOK
<1>1. AddressesInv /\ ReadInv => TypeOK
    BY TypesKnown DEF AddressesInv
<1> QED
    BY <1>1, ReadAlways, AddressesAlways, PTL

-----------------------------------------------------------------------------
(***************************************************************************)
(* A walk.                                                                 *)
(***************************************************************************)
LEMMA LastOrders ==
    /\ \A e \in Entries : Newer(NoLast, e) /\ ~Newer(e, NoLast)
    /\ \A l \in Entries \cup {NoLast}, e, f \in Entries : Newer(l, e) /\ Newer(e, f) => Newer(l, f)
    /\ \A l \in Entries \cup {NoLast}, e \in Entries : Newer(l, e) => ~Newer(e, l)
<1>1. \A e \in Entries : e.height \in Int /\ e.height < MaxHeight + 1 /\ MaxHeight + 1 \in Int
    BY BlocksAssumption DEF Entries, Heights
<1>2. NoLast.height = MaxHeight + 1
    BY DEF NoLast, Entry
<1>3. \A e \in Entries : Newer(NoLast, e) /\ ~Newer(e, NoLast)
    <2> TAKE e \in Entries
    <2>1. e.height < NoLast.height /\ e.height \in Int /\ NoLast.height \in Int
        BY <1>1, <1>2
    <2>2. NoLast.height > e.height
        BY <2>1
    <2>3. ~(e.height > NoLast.height) /\ e.height # NoLast.height
        BY <2>1
    <2> QED
        BY <2>2, <2>3 DEF Newer
<1> QED
    BY <1>3, NewerOrders

\* The walk holds, of the blocks that stood, all that is at or above its last entry.
WalkInv ==
    (step \in {"walk", "done"} /\ ask.list # "blocks" /\ Reliable(ask)) =>
        /\ \A i, j \in DOMAIN got : i < j => Newer(got[i], got[j])
        /\ last = IF got = <<>> THEN NoLast ELSE got[Len(got)]
        /\ \A e \in Entries :
            (e.height <= stood /\ \E i \in DOMAIN got : got[i] = e)
                <=> (e \in Wanted(ask, stood) /\ ~Newer(last, e))
        /\ step = "done" => \A e \in Wanted(ask, stood) : ~Newer(last, e)

LEMMA PageKeepsWalk ==
    ASSUME AddressesInv, ReadInv, WalkInv, ReadPage
    PROVE  WalkInv'
<1> SUFFICES ASSUME Reliable(ask)' PROVE
        /\ \A i, j \in DOMAIN got' : i < j => Newer(got'[i], got'[j])
        /\ last' = IF got' = <<>> THEN NoLast ELSE got'[Len(got')]
        /\ \A e \in Entries :
            (e.height <= stood' /\ \E i \in DOMAIN got' : got'[i] = e)
                <=> (e \in Wanted(ask, stood)' /\ ~Newer(last', e))
        /\ step' = "done" => \A e \in Wanted(ask, stood)' : ~Newer(last', e)
    BY DEF WalkInv, Newer
<1> DEFINE W == Wanted(ask, cursor)
           S == Wanted(ask, stood)
           s == NewestFirst(Page)
           P == Page
<1>1. /\ step = "walk" /\ UNCHANGED <<indexVars, ask, parts, stood>>
      /\ step' = IF Cardinality(P) < PageLimit THEN "done" ELSE "walk"
      /\ ask \in Requests /\ ask.list # "blocks" /\ TablesInv /\ last \in Entries \cup {NoLast}
    BY DEF ReadPage, ReadInv, ReadsInOrder, ReadTypeOK, AddressesInv
<1>2. Reliable(ask)
    BY <1>1 DEF Reliable, indexVars, reindexVars
<1>3. Wanted(ask, stood)' = S
    BY <1>1 DEF Wanted, Stored, indexVars, tableVars, writerVars, reindexVars
<1>4. /\ \A i, j \in DOMAIN got : i < j => Newer(got[i], got[j])
      /\ last = IF got = <<>> THEN NoLast ELSE got[Len(got)]
      /\ \A e \in Entries :
            (e.height <= stood /\ \E i \in DOMAIN got : got[i] = e)
                <=> (e \in S /\ ~Newer(last, e))
    BY <1>1, <1>2 DEF WalkInv
<1>5. PageOf(P, Older(W)) /\ Listed(W)
    BY <1>1, <1>2, PageIs, WantedListed
<1>6. \A e : e \in S <=> e \in W /\ e.height <= stood
    <2>1. stood \in Int /\ cursor \in Int /\ stood <= cursor
        BY <1>1, CursorKnown DEF TablesInv, ReadInv, ReadTypeOK, ReadsInOrder, Heights, None
    <2> QED
        BY <1>1, <2>1, WantedPart
<1>7. /\ s \in Seq(Entries) /\ DOMAIN s = 1 .. Len(s) /\ Len(s) = Cardinality(P)
      /\ Len(s) \in Nat /\ (P = {} <=> Len(s) = 0)
      /\ \A i \in DOMAIN s : s[i] \in P
      /\ \A e \in P : e \in Entries /\ \E i \in DOMAIN s : s[i] = e
      /\ \A i, j \in DOMAIN s : i < j => Newer(s[i], s[j])
      /\ got' \in Seq(Entries) /\ Len(got) \in Nat /\ Len(got') = Len(got) + Len(s)
      /\ DOMAIN got = 1 .. Len(got) /\ DOMAIN got' = 1 .. Len(got) + Len(s)
      /\ \A i \in 1 .. Len(got) : got'[i] = got[i] /\ got[i] \in Entries
      /\ \A i \in 1 .. Len(s) : got'[Len(got) + i] = s[i]
      /\ last' = IF P = {} THEN last ELSE s[Len(s)]
    BY <1>1, PageAdds DEF ReadInv
<1> DEFINE n == Len(got)
           k == Len(s)
<1> HIDE DEF W, S, s, P
<1>8. \A e \in W : e \in Entries
    BY <1>5 DEF Listed
<1>9. \A e \in P : e \in W /\ e \in Entries /\ Newer(last, e)
    BY <1>5, <1>8 DEF PageOf, Older
<1>10. \A e \in W, f \in P : Newer(last, e) /\ ~Newer(f, e) => e \in P
    <2> SUFFICES ASSUME NEW e \in W, NEW f \in P, Newer(last, e), ~Newer(f, e) PROVE e \in P
        OBVIOUS
    <2>1. e \in Older(W) /\ f \in Older(W) /\ e \in Entries /\ f \in Entries /\ f \in W
        BY <1>8, <1>9 DEF Older
    <2>2. Newer(e, f) \/ e = f
        BY <1>5, <2>1, NewerOrders DEF Listed
    <2> QED
        BY <1>5, <2>1, <2>2 DEF PageOf
<1>11. n \in Nat /\ k \in Nat /\ n = Len(got) /\ k = Len(s) /\ DOMAIN s = 1 .. k /\ DOMAIN got = 1 .. n
    BY <1>7
<1> HIDE DEF n, k
<1>12. P # {} => k \in 1 .. k /\ last' = s[k] /\ last' \in P
    BY <1>7, <1>11
<1>13. P = {} => last' = last /\ k = 0
    BY <1>7, <1>11
\* An entry of the page is at or above the new last one, and so is one above the old.
<1>14. \A e \in P : ~Newer(last', e)
    <2> TAKE e \in P
    <2>1. PICK i \in 1 .. k : s[i] = e
        BY <1>7, <1>11
    <2>2. i = k \/ i < k
        BY <1>11
    <2>3. last' = s[k] /\ k \in 1 .. k /\ s[k] \in Entries /\ e \in Entries
        BY <1>9, <1>12
    <2>4. e = s[k] \/ Newer(e, s[k])
        BY <1>7, <1>11, <2>1, <2>2, <2>3
    <2> QED
        BY <2>3, <2>4, NewerOrders
<1>15. \A e \in Entries : ~Newer(last, e) => ~Newer(last', e)
    BY <1>1, <1>9, <1>12, <1>13, LastOrders
<1>16. \A i \in 1 .. n + k : \/ i \in 1 .. n /\ got'[i] = got[i]
                             \/ i - n \in 1 .. k /\ got'[i] = s[i - n] /\ ~(i <= n)
    <2> TAKE i \in 1 .. n + k
    <2>1. CASE i <= n
        <3>1. i \in 1 .. n
            BY <1>11, <2>1
        <3> QED
            BY <1>7, <1>11, <3>1
    <2>2. CASE ~(i <= n)
        <3>1. i - n \in 1 .. k /\ n + (i - n) = i
            BY <1>11, <2>2
        <3> QED
            BY <1>7, <1>11, <2>2, <3>1
    <2> QED
        BY <2>1, <2>2
<1>17. DOMAIN got' = 1 .. n + k
    BY <1>7, <1>11
\* What was got is at or above the old last entry.
<1>18. \A i \in 1 .. n : got[i] \in Entries /\ ~Newer(last, got[i]) /\ (got[i] = last \/ Newer(got[i], last))
    <2> TAKE i \in 1 .. n
    <2>1. got # <<>> /\ last = got[n] /\ n \in 1 .. n
        <3>1. n # 0 /\ n \in 1 .. n
            BY <1>11
        <3>2. got # <<>>
            BY <1>11, <3>1
        <3> QED
            BY <1>4, <1>11, <3>1, <3>2
    <2>2. i = n \/ i < n
        BY <1>11
    <2>3. got[i] \in Entries /\ got[n] \in Entries
        BY <1>7, <1>11, <2>1
    <2>4. got[i] = got[n] \/ Newer(got[i], got[n])
        BY <1>4, <1>11, <2>1, <2>2
    <2> QED
        BY <2>1, <2>3, <2>4, NewerOrders
<1>19. \A i, j \in DOMAIN got' : i < j => Newer(got'[i], got'[j])
    <2> SUFFICES ASSUME NEW i \in 1 .. n + k, NEW j \in 1 .. n + k, i < j PROVE Newer(got'[i], got'[j])
        BY <1>17
    <2>1. CASE j \in 1 .. n
        <3>1. i \in 1 .. n
            BY <1>11, <2>1
        <3> QED
            BY <1>4, <1>7, <1>11, <2>1, <3>1
    <2>2. CASE i \in 1 .. n /\ j - n \in 1 .. k /\ got'[j] = s[j - n]
        <3>1. s[j - n] \in P
            BY <1>7, <1>11, <2>2
        <3>2. s[j - n] \in Entries /\ Newer(last, s[j - n])
            BY <1>9, <3>1
        <3>3. got[i] \in Entries /\ (got[i] = last \/ Newer(got[i], last)) /\ got'[i] = got[i]
            BY <1>7, <1>11, <1>18, <2>2
        <3>4. last # NoLast => last \in Entries
            BY <1>1
        <3>5. got[i] = last \/ last \in Entries
            BY <3>3, <3>4, LastOrders
        <3>6. Newer(got[i], s[j - n])
            BY <3>2, <3>3, <3>5, NewerOrders
        <3> QED
            BY <2>2, <3>3, <3>6
    <2>3. CASE i - n \in 1 .. k /\ got'[i] = s[i - n] /\ j - n \in 1 .. k /\ got'[j] = s[j - n]
        <3>1. i - n < j - n
            BY <1>11
        <3> QED
            BY <1>7, <1>11, <2>3, <3>1
    <2>4. CASE i - n \in 1 .. k /\ j \in 1 .. n /\ ~(i <= n)
        BY <1>11, <2>4
    <2> QED
        BY <1>16, <2>1, <2>2, <2>3
<1>20. last' = IF got' = <<>> THEN NoLast ELSE got'[Len(got')]
    <2>1. CASE P = {}
        <3>1. k = 0 /\ last' = last /\ Len(got') = n
            BY <1>7, <1>11, <1>13, <2>1
        <3>2. n = 0 <=> got = <<>>
            BY <1>11 DEF ReadInv, ReadTypeOK
        <3>3. n = 0 <=> got' = <<>>
            BY <1>7, <3>1
        <3>4. n # 0 => got'[n] = got[n]
            BY <1>7, <1>11
        <3> QED
            BY <1>4, <1>11, <3>1, <3>2, <3>3, <3>4
    <2>2. CASE P # {}
        <3>1. k \in 1 .. k /\ last' = s[k] /\ got'[n + k] = s[k] /\ Len(got') = n + k
            BY <1>7, <1>11, <1>12, <2>2
        <3>2. got' # <<>>
            BY <1>7, <1>11, <3>1
        <3> QED
            BY <3>1, <3>2
    <2> QED
        BY <2>1, <2>2
<1>21. ASSUME NEW e \in Entries
       PROVE  (e.height <= stood' /\ \E i \in DOMAIN got' : got'[i] = e) <=> (e \in S /\ ~Newer(last', e))
    <2>0. stood' = stood
        BY <1>1
    <2>1. ASSUME e.height <= stood, NEW i \in 1 .. n + k, got'[i] = e PROVE e \in S /\ ~Newer(last', e)
        <3>1. CASE i \in 1 .. n /\ got'[i] = got[i]
            <4>1. e \in S /\ ~Newer(last, e)
                BY <1>4, <1>11, <2>1, <3>1
            <4> QED
                BY <1>15, <4>1
        <3>2. CASE i - n \in 1 .. k /\ got'[i] = s[i - n]
            <4>1. e \in P
                BY <1>7, <1>11, <2>1, <3>2
            <4> QED
                BY <1>6, <1>9, <1>14, <2>1, <4>1
        <3> QED
            BY <1>16, <3>1, <3>2
    <2>2. ASSUME e \in S, ~Newer(last', e) PROVE e.height <= stood /\ \E i \in 1 .. n + k : got'[i] = e
        <3>0. e \in W /\ e.height <= stood
            BY <1>6, <2>2
        <3>1. CASE ~Newer(last, e)
            <4>1. PICK i \in 1 .. n : got[i] = e
                BY <1>4, <1>11, <2>2, <3>1
            <4>2. i \in 1 .. n + k /\ got'[i] = e
                BY <1>7, <1>11, <4>1
            <4> QED
                BY <3>0, <4>2
        <3>2. CASE Newer(last, e)
            <4>1. P # {} /\ last' \in P
                BY <1>12, <1>13, <2>2, <3>2
            <4>2. e \in P
                BY <1>10, <2>2, <3>0, <3>2, <4>1
            <4>3. PICK j \in 1 .. k : s[j] = e
                BY <1>7, <1>11, <4>2
            <4>4. n + j \in 1 .. n + k /\ got'[n + j] = e
                BY <1>7, <1>11, <4>3
            <4> QED
                BY <3>0, <4>4
        <3> QED
            BY <3>1, <3>2
    <2> QED
        BY <1>17, <2>0, <2>1, <2>2
<1>22. ASSUME step' = "done", NEW e \in S PROVE ~Newer(last', e)
    <2>1. e \in W /\ e \in Entries
        BY <1>6, <1>8
    <2>2. P = Older(W)
        BY <1>1, <1>5, <1>22 DEF PageOf
    <2>3. CASE Newer(last, e)
        BY <1>14, <2>1, <2>2, <2>3 DEF Older
    <2>4. CASE ~Newer(last, e)
        BY <1>15, <2>1, <2>4
    <2> QED
        BY <2>3, <2>4
<1> QED
    BY <1>3, <1>19, <1>20, <1>21, <1>22

LEMMA StoodKnown ==
    ASSUME AddressesInv, ReadInv
    PROVE  /\ TablesInv /\ ask \in Requests /\ cursor \in Int
           /\ stood \in Int /\ stood >= -1 /\ stood <= cursor
<1>1. TablesInv /\ cursor \in Int
    BY CursorKnown DEF AddressesInv, TablesInv
<1>2. stood \in Heights \cup {None} /\ stood <= cursor /\ ask \in Requests
    BY DEF ReadInv, ReadTypeOK, ReadsInOrder
<1> QED
    BY <1>1, <1>2 DEF Heights, None

LEMMA WalkKept == AddressesInv /\ ReadInv /\ WalkInv /\ [Next]_vars => WalkInv'
<1> SUFFICES ASSUME AddressesInv, ReadInv, WalkInv, [Next]_vars PROVE WalkInv'
    OBVIOUS
<1>1. /\ TablesInv /\ ask \in Requests /\ stood \in Int /\ stood <= cursor /\ cursor \in Int
      /\ step # "idle" => reindex = "off"
      /\ step = "walk" => ask.list # "blocks"
      /\ step \in {"rows", "acts", "drops"} => ask.list = "blocks"
    BY StoodKnown DEF ReadInv, ReadsInOrder
\* The chain may grow or lose blocks: of what stands, nothing changes.
<1>2. ASSUME Commit \/ Rollback, UNCHANGED <<step, ask, last, got, schema, covered>>, raced => raced',
             stood' \in Int, stood' <= stood, stood' <= cursor'
      PROVE  WalkInv'
    <2> SUFFICES ASSUME step' \in {"walk", "done"}, ask'.list # "blocks", Reliable(ask)'
                 PROVE  /\ \A i, j \in DOMAIN got' : i < j => Newer(got'[i], got'[j])
                        /\ last' = IF got' = <<>> THEN NoLast ELSE got'[Len(got')]
                        /\ \A e \in Entries :
                            (e.height <= stood' /\ \E i \in DOMAIN got' : got'[i] = e)
                                <=> (e \in Wanted(ask, stood)' /\ ~Newer(last', e))
                        /\ step' = "done" => \A e \in Wanted(ask, stood)' : ~Newer(last', e)
        BY DEF WalkInv, Newer
    <2>1. Reliable(ask)
        BY <1>2 DEF Reliable
    <2>2. Wanted(ask, stood)' = {e \in Wanted(ask, stood) : e.height <= stood'}
        BY <1>1, <1>2, WantedStays
    <2>3. \A e \in Entries : e.height \in Int /\ (e.height <= stood' => e.height <= stood)
        BY <1>1, <1>2 DEF Entries, Heights
    <2>4. /\ \A i, j \in DOMAIN got : i < j => Newer(got[i], got[j])
          /\ last = IF got = <<>> THEN NoLast ELSE got[Len(got)]
          /\ \A e \in Entries :
                (e.height <= stood /\ \E i \in DOMAIN got : got[i] = e)
                    <=> (e \in Wanted(ask, stood) /\ ~Newer(last, e))
          /\ step = "done" => \A e \in Wanted(ask, stood) : ~Newer(last, e)
        BY <1>2, <2>1 DEF WalkInv
    <2>5. UNCHANGED <<got, last, step>>
        BY <1>2
    <2> QED
        BY <2>2, <2>3, <2>4, <2>5
<1>3. CASE Commit /\ UNCHANGED readVars
    <2>1. UNCHANGED <<step, ask, last, got, stood, schema, covered, raced>>
        BY <1>3 DEF readVars, Commit, reindexVars
    <2>2. PICK n, bs : Batch(n, bs)
        BY <1>1, <1>3, CommitIsBatch DEF TablesInv
    <2>3. n \in Nat /\ cursor' = cursor + n
        BY <2>2 DEF Batch
    <2>4. stood' \in Int /\ stood' <= stood /\ stood' <= cursor'
        BY <1>1, <2>1, <2>3
    <2> QED
        BY <1>2, <1>3, <2>1, <2>4
<1>4. CASE Rollback /\ stood' = Smaller(stood, cursor - 1) /\ UNCHANGED <<step, ask, last, got, parts>>
    <2>1. cursor' = cursor - 1
        BY <1>1, <1>4, RollbackStands DEF TablesInv
    <2>2. UNCHANGED <<schema, covered>> /\ (raced => raced')
        BY <1>4 DEF Rollback
    <2>3. stood' \in Int /\ stood' <= stood /\ stood' <= cursor'
        BY <1>1, <1>4, <2>1 DEF Smaller
    <2> QED
        BY <1>2, <1>4, <2>2, <2>3
<1>5. CASE Reindex /\ UNCHANGED readVars
    BY <1>1, <1>5 DEF Reindex, ReindexReads, ReindexInserts, ReindexEnds, readVars, WalkInv
<1>6. CASE step' = "idle"
    BY <1>6 DEF WalkInv
<1>7. CASE Ask
    <2>1. ask'.list # "blocks" => step' = "walk"
        BY <1>7 DEF Ask
    <2>2. got' = <<>> /\ last' = NoLast
        BY <1>7 DEF Ask
    <2>3. DOMAIN got' = {}
        BY <2>2
    <2>4. \A e \in Entries : Newer(last', e)
        BY <2>2, LastOrders
    <2> QED
        BY <2>1, <2>2, <2>3, <2>4 DEF WalkInv, Newer
<1>8. CASE ReadPage
    BY <1>8, PageKeepsWalk
<1>9. CASE ReadRows \/ ReadActs \/ ReadDrops
    <2>1. ask'.list = "blocks"
        BY <1>1, <1>9 DEF ReadRows, ReadActs, ReadDrops
    <2> QED
        BY <2>1 DEF WalkInv
<1>10. CASE UNCHANGED vars
    <2>1. UNCHANGED <<indexVars, step, ask, last, got, stood>>
        BY <1>10 DEF vars, readVars
    <2>2. Wanted(ask, stood)' = Wanted(ask, stood) /\ Reliable(ask)' = Reliable(ask)
        BY <2>1 DEF Wanted, Stored, Reliable, indexVars, tableVars, writerVars, reindexVars
    <2> QED
        BY <2>1, <2>2 DEF WalkInv, Newer
<1> QED
    BY <1>3, <1>4, <1>5, <1>6, <1>7, <1>8, <1>9, <1>10 DEF Next, Index, Read

LEMMA WalkAlways == Spec => []WalkInv
<1>1. Init => WalkInv
    BY DEF Init, WalkInv
<1> QED
    BY <1>1, WalkKept, ReadAlways, AddressesAlways, PTL DEF Spec

\* A walk that has ended holds each entry of the list once, newest first, for the part
\* of the chain that stood while it was made, whatever the index task did meanwhile
\* above that (get_account_actions, get_actions and the other lists with a cursor).
THEOREM WalksExact == Spec => []WalkExact
<1>1. AddressesInv /\ ReadInv /\ WalkInv => WalkExact
    <2> SUFFICES ASSUME AddressesInv, ReadInv, WalkInv, step = "done", ask.list # "blocks",
                        ask.list = "account" => covered /\ ~raced
                 PROVE  /\ {e \in ToSet(got) : e.height <= stood} = Wanted(ask, stood)
                        /\ \A i, j \in DOMAIN got : i < j => Newer(got[i], got[j])
        BY DEF WalkExact
    <2>1. /\ \A i, j \in DOMAIN got : i < j => Newer(got[i], got[j])
          /\ \A e \in Entries :
                (e.height <= stood /\ \E i \in DOMAIN got : got[i] = e)
                    <=> (e \in Wanted(ask, stood) /\ ~Newer(last, e))
          /\ \A e \in Wanted(ask, stood) : ~Newer(last, e)
        BY DEF WalkInv, Reliable
    <2>2. \A e \in Wanted(ask, stood) : e \in Entries
        <3>1. /\ TablesInv /\ ask \in Requests /\ stood \in Int /\ stood <= cursor /\ cursor \in Int
            BY StoodKnown
        <3>2. \A e \in Wanted(ask, stood) : e \in Wanted(ask, cursor)
            BY <3>1, WantedPart
        <3> QED
            BY <3>1, <3>2, WantedListed DEF Listed
    <2>3. \A i \in DOMAIN got : got[i] \in Entries
        BY DEF ReadInv, ReadTypeOK
    <2> QED
        BY <2>1, <2>2, <2>3 DEF ToSet
<1> QED
    BY <1>1, WalkAlways, ReadAlways, AddressesAlways, PTL

-----------------------------------------------------------------------------
(***************************************************************************)
(* A read of blocks.                                                       *)
(***************************************************************************)
\* The rows of a read run from the lowest height asked for; the actions and the
\* dropped ones of those that stood are as they are stored.
RowsRead ==
    /\ Len(parts.rows) <= PageLimit
    /\ \A i \in DOMAIN parts.rows :
        LET h == ask.subject + i - 1
        IN  /\ parts.rows[i].height = h /\ h <= ask.upto
            /\ h <= stood => parts.rows[i] = rows[h]
    /\ \A i \in 1 .. PageLimit :
        ask.subject + i - 1 <= ask.upto /\ ask.subject + i - 1 <= stood => i \in DOMAIN parts.rows

ActsRead ==
    \A i \in DOMAIN parts.rows :
        LET h == ask.subject + i - 1
        IN  h <= stood => \A a : a \in parts.acts /\ a.height = h <=> a \in BlockActions(h, bodies[h])

DropsRead ==
    \A i \in DOMAIN parts.rows :
        LET h == ask.subject + i - 1
        IN  h <= stood => \A d : d \in parts.drops /\ d.height = h <=> d \in DropRows(h, bodies[h])

BlocksInv ==
    ask.list = "blocks" =>
        /\ step \in {"acts", "drops", "done"} => RowsRead
        /\ step \in {"drops", "done"} => ActsRead
        /\ step = "done" => DropsRead

LEMMA RowsOfTable ==
    ASSUME TablesInv, NEW h \in 0 .. cursor
    PROVE  /\ \A a : a \in actions /\ a.height = h <=> a \in BlockActions(h, bodies[h])
           /\ \A d : d \in dropped /\ d.height = h <=> d \in DropRows(h, bodies[h])
<1>1. \A g \in 0 .. cursor : g \in Heights /\ bodies[g] \in Contents
    BY CursorKnown DEF TablesInv
<1>2. \A g \in 0 .. cursor : \A a \in BlockActions(g, bodies[g]) : a.height = g
    BY <1>1, BlockActionsKnown
<1>3. \A a : a \in actions <=> \E g \in 0 .. cursor : a \in BlockActions(g, bodies[g])
    BY DEF TablesInv, Stored
<1>4. \A g : \A d \in DropRows(g, bodies[g]) : d.height = g
    BY DEF DropRows
<1>5. \A d : d \in dropped <=> \E g \in 0 .. cursor : d \in DropRows(g, bodies[g])
    BY DEF TablesInv
<1>6. \A a : a \in actions /\ a.height = h <=> a \in BlockActions(h, bodies[h])
    BY <1>2, <1>3
<1>7. \A d : d \in dropped /\ d.height = h <=> d \in DropRows(h, bodies[h])
    BY <1>4, <1>5
<1> QED
    BY <1>6, <1>7

LEMMA ActsReadNext ==
    ASSUME \A i \in DOMAIN parts'.rows :
              LET h == ask'.subject + i - 1
              IN  h <= stood' =>
                    \A a : a \in parts'.acts /\ a.height = h <=> a \in BlockActions(h, bodies'[h])
    PROVE  ActsRead'
BY DEF ActsRead, BlockActions, Identity

\* The heights of a read are those its rows span.
LEMMA SpannedIs ==
    ASSUME AddressesInv, ReadInv, RowsRead, ask.list = "blocks", NEW i \in DOMAIN parts.rows,
           NEW table
    PROVE  /\ ask.subject + i - 1 \in Nat
           /\ \A x : x.height = ask.subject + i - 1 => (x \in Spanned(table) <=> x \in table)
<1> DEFINE n == Len(parts.rows)
           low == ask.subject
<1>1. low \in Nat /\ parts.rows \in Seq(Block)
    BY StoodKnown, ReadsAssumption DEF ReadInv, ReadTypeOK, Heights
<1>2. n \in Nat /\ DOMAIN parts.rows = 1 .. n
    BY <1>1
<1>3. parts.rows[1].height = low /\ parts.rows[n].height = low + n - 1
    <2>1. 1 \in DOMAIN parts.rows /\ n \in DOMAIN parts.rows
        BY <1>2
    <2>2. parts.rows[1].height = low + 1 - 1 /\ parts.rows[n].height = low + n - 1
        BY <2>1 DEF RowsRead
    <2>3. low + 1 - 1 = low
        BY <1>1
    <2> QED
        BY <2>2, <2>3
<1>4. i \in 1 .. n /\ low + i - 1 \in Nat /\ low + i - 1 >= low /\ low + i - 1 <= low + n - 1
    <2> HIDE DEF low, n
    <2> QED
        BY <1>1, <1>2
<1> QED
    BY <1>3, <1>4 DEF Spanned

LEMMA RowsKeepBlocks ==
    ASSUME AddressesInv, ReadInv, ReadRows, ask.list = "blocks"
    PROVE  BlocksInv'
<1> DEFINE low == ask.subject
           high == ask.upto
           due == RowsBetween(low, high, PageLimit)
           n == RunLength(low, high, PageLimit)
<1>1. /\ low \in Nat /\ high \in Int /\ high <= MaxHeight /\ WriterInv
      /\ stood \in Int /\ stood <= cursor /\ cursor \in Int /\ PageLimit \in Nat \ {0}
    BY StoodKnown, ReadsAssumption DEF TablesInv, Heights
<1>2. /\ parts' = [parts EXCEPT !.rows = due] /\ UNCHANGED <<rows, ask, stood>>
      /\ step' = IF parts'.rows = <<>> THEN "done" ELSE "acts"
    BY DEF ReadRows, indexVars, writerVars
<1>3. parts'.rows = due
    BY <1>2 DEF ReadInv, ReadTypeOK
<1>4. /\ n \in Nat /\ n <= PageLimit /\ due \in Seq(Block) /\ Len(due) = n
      /\ \A i \in 1 .. n : /\ low + i - 1 <= high /\ due[i] = rows[low + i - 1]
                           /\ rows[low + i - 1].height = low + i - 1
    <2>1. WriterInv /\ low \in Nat /\ high \in Int /\ high <= MaxHeight /\ PageLimit \in Nat \ {0}
        BY <1>1
    <2> HIDE DEF low, high
    <2>2. n \in Nat /\ n <= PageLimit /\ due \in Seq(Block) /\ Len(due) = n
        BY <2>1, RowsBetweenIs
    <2>3. \A i \in 1 .. n : /\ low + i - 1 <= high /\ due[i] = rows[low + i - 1]
                             /\ rows[low + i - 1].height = low + i - 1
        BY <2>1, RowsBetweenIs
    <2> QED
        BY <2>2, <2>3
<1>5. DOMAIN due = 1 .. n
    <2> HIDE DEF n, due
    <2> QED
        BY <1>4
<1>6. ASSUME NEW i \in 1 .. PageLimit, low + i - 1 <= high, low + i - 1 <= stood PROVE i \in 1 .. n
    <2>1. i \in Nat /\ i >= 1 /\ i <= PageLimit
        BY <1>1
    <2>2. n = IF low <= Smaller(high, cursor) THEN Smaller(Smaller(high, cursor) - low + 1, PageLimit) ELSE 0
        BY DEF RunLength
    <2> HIDE DEF low, high, n
    <2>3. low + i - 1 <= Smaller(high, cursor) /\ Smaller(high, cursor) \in Int
        BY <1>1, <1>6, <2>1 DEF Smaller
    <2>4. low <= Smaller(high, cursor) /\ i <= Smaller(high, cursor) - low + 1
        BY <1>1, <2>1, <2>3
    <2>5. n = Smaller(Smaller(high, cursor) - low + 1, PageLimit)
        BY <2>2, <2>4
    <2>6. i <= n
        BY <2>1, <2>4, <2>5 DEF Smaller
    <2> QED
        BY <1>4, <2>1, <2>6
<1>7. RowsRead'
    <2> SUFFICES /\ Len(parts'.rows) <= PageLimit
                 /\ \A i \in DOMAIN parts'.rows :
                     /\ parts'.rows[i].height = ask'.subject + i - 1 /\ ask'.subject + i - 1 <= ask'.upto
                     /\ ask'.subject + i - 1 <= stood' => parts'.rows[i] = rows'[ask'.subject + i - 1]
                 /\ \A i \in 1 .. PageLimit :
                     ask'.subject + i - 1 <= ask'.upto /\ ask'.subject + i - 1 <= stood'
                         => i \in DOMAIN parts'.rows
        BY DEF RowsRead
    <2>1. ask'.subject = low /\ ask'.upto = high /\ stood' = stood /\ rows' = rows
        BY <1>2
    <2> HIDE DEF low, high, n, due
    <2> QED
        BY <1>3, <1>4, <1>5, <1>6, <2>1
<1>8. step' # "acts" => DOMAIN parts'.rows = {}
    BY <1>2
<1>9. step' \in {"done", "acts"}
    BY <1>2
<1> QED
    BY <1>7, <1>8, <1>9 DEF BlocksInv, ActsRead, DropsRead

LEMMA BlocksKept == AddressesInv /\ ReadInv /\ BlocksInv /\ [Next]_vars => BlocksInv'
<1> SUFFICES ASSUME AddressesInv, ReadInv, BlocksInv, [Next]_vars PROVE BlocksInv'
    OBVIOUS
<1>1. /\ TablesInv /\ ask \in Requests /\ stood \in Int /\ stood <= cursor /\ cursor \in Int
      /\ step # "idle" => reindex = "off"
      /\ step = "walk" => ask.list # "blocks"
      /\ step \in {"rows", "acts", "drops"} => ask.list = "blocks"
    BY StoodKnown DEF ReadInv, ReadsInOrder
<1>2. ask.list = "blocks" => ask.subject \in Nat
    BY <1>1, ReadsAssumption DEF Heights
<1>3. ASSUME Commit \/ Rollback, UNCHANGED <<step, ask, parts>>,
             stood' \in Int, stood' <= stood, stood' <= cursor'
      PROVE  BlocksInv'
    <2>1. CASE ask.list = "blocks"
        <3>1. \A h \in 0 .. stood' : rows'[h] = rows[h] /\ bodies'[h] = bodies[h]
            <4>1. stood' <= cursor
                BY <1>1, <1>3
            <4> QED
                BY <1>1, <1>3, <4>1, StepStands
        <3>2. \A i \in DOMAIN parts.rows : i \in Nat \ {0}
            BY DEF ReadInv, ReadTypeOK
        <3>3. \A i \in DOMAIN parts.rows : ask.subject + i - 1 <= stood' =>
                /\ ask.subject + i - 1 <= stood
                /\ rows'[ask.subject + i - 1] = rows[ask.subject + i - 1]
                /\ bodies'[ask.subject + i - 1] = bodies[ask.subject + i - 1]
            <4> TAKE i \in DOMAIN parts.rows
            <4> HAVE ask.subject + i - 1 <= stood'
            <4>1. ask.subject + i - 1 \in 0 .. stood' /\ ask.subject + i - 1 <= stood
                BY <1>1, <1>2, <1>3, <2>1, <3>2
            <4> QED
                BY <3>1, <4>1
        <3>4. \A i \in 1 .. PageLimit : ask.subject + i - 1 <= stood' => ask.subject + i - 1 <= stood
            BY <1>1, <1>2, <1>3, <2>1, ReadsAssumption
        <3>5. RowsRead => RowsRead'
            BY <1>3, <3>3, <3>4 DEF RowsRead
        <3>6. ActsRead => ActsRead'
            BY <1>3, <3>3, ActsReadNext DEF ActsRead
        <3>7. DropsRead => DropsRead'
            BY <1>3, <3>3 DEF DropsRead, DropRows
        <3> QED
            BY <1>3, <2>1, <3>5, <3>6, <3>7 DEF BlocksInv
    <2>2. CASE ask.list # "blocks"
        BY <1>3, <2>2 DEF BlocksInv
    <2> QED
        BY <2>1, <2>2
<1>4. CASE Commit /\ UNCHANGED readVars
    <2>1. UNCHANGED <<step, ask, parts, stood>>
        BY <1>4 DEF readVars
    <2>2. PICK n, bs : Batch(n, bs)
        BY <1>1, <1>4, CommitIsBatch DEF TablesInv
    <2>3. n \in Nat /\ cursor' = cursor + n
        BY <2>2 DEF Batch
    <2>4. stood' \in Int /\ stood' <= stood /\ stood' <= cursor'
        BY <1>1, <2>1, <2>3
    <2> QED
        BY <1>3, <1>4, <2>1, <2>4
<1>5. CASE Rollback /\ stood' = Smaller(stood, cursor - 1) /\ UNCHANGED <<step, ask, last, got, parts>>
    <2>1. cursor' = cursor - 1
        BY <1>1, <1>5, RollbackStands DEF TablesInv
    <2>2. stood' \in Int /\ stood' <= stood /\ stood' <= cursor'
        BY <1>1, <1>5, <2>1 DEF Smaller
    <2> QED
        BY <1>3, <1>5, <2>2
<1>6. CASE Reindex /\ UNCHANGED readVars
    BY <1>1, <1>6 DEF Reindex, ReindexReads, ReindexInserts, ReindexEnds, readVars, BlocksInv
<1>7. CASE step' = "idle"
    BY <1>7 DEF BlocksInv
<1>8. CASE Ask
    BY <1>8 DEF Ask, BlocksInv
<1>9. CASE ReadPage
    BY <1>1, <1>9 DEF ReadPage, BlocksInv
<1>10. CASE ReadRows
    <2>1. ask.list = "blocks"
        BY <1>1, <1>10 DEF ReadRows
    <2> QED
        BY <1>10, <2>1, RowsKeepBlocks
<1>11. CASE ReadActs
    <2>1. /\ step = "acts" /\ step' = "drops" /\ parts' = [parts EXCEPT !.acts = Spanned(actions)]
          /\ UNCHANGED <<rows, bodies, ask, stood>> /\ ask.list = "blocks"
        BY <1>1, <1>11 DEF ReadActs, indexVars, writerVars, tableVars
    <2>2. RowsRead
        BY <2>1 DEF BlocksInv
    <2>3. parts'.rows = parts.rows /\ parts'.acts = Spanned(actions)
        BY <2>1 DEF ReadInv, ReadTypeOK
    <2>4. RowsRead'
        BY <2>1, <2>2, <2>3 DEF RowsRead
    <2>5. ASSUME NEW i \in DOMAIN parts.rows, ask.subject + i - 1 <= stood
          PROVE  \A a : a \in Spanned(actions) /\ a.height = ask.subject + i - 1
                         <=> a \in BlockActions(ask.subject + i - 1, bodies[ask.subject + i - 1])
        <3>1. /\ ask.subject + i - 1 \in Nat
              /\ \A x : x.height = ask.subject + i - 1 => (x \in Spanned(actions) <=> x \in actions)
            BY <2>1, <2>2, SpannedIs
        <3>2. ask.subject + i - 1 \in 0 .. cursor
            BY <1>1, <2>5, <3>1
        <3> QED
            BY <1>1, <3>1, <3>2, RowsOfTable
    <2>6. ActsRead'
        BY <2>1, <2>3, <2>5, ActsReadNext
    <2> QED
        BY <2>1, <2>4, <2>6 DEF BlocksInv
<1>12. CASE ReadDrops
    <2>1. /\ step = "drops" /\ step' = "done" /\ parts' = [parts EXCEPT !.drops = Spanned(dropped)]
          /\ UNCHANGED <<rows, bodies, ask, stood>> /\ ask.list = "blocks"
        BY <1>1, <1>12 DEF ReadDrops, indexVars, writerVars, tableVars
    <2>2. RowsRead /\ ActsRead
        BY <2>1 DEF BlocksInv
    <2>3. parts'.rows = parts.rows /\ parts'.acts = parts.acts /\ parts'.drops = Spanned(dropped)
        BY <2>1 DEF ReadInv, ReadTypeOK
    <2>4. RowsRead'
        BY <2>1, <2>2, <2>3 DEF RowsRead
    <2>5. ActsRead'
        BY <2>1, <2>2, <2>3, ActsReadNext DEF ActsRead
    <2>6. ASSUME NEW i \in DOMAIN parts.rows, ask.subject + i - 1 <= stood
          PROVE  \A d : d \in Spanned(dropped) /\ d.height = ask.subject + i - 1
                         <=> d \in DropRows(ask.subject + i - 1, bodies[ask.subject + i - 1])
        <3>1. /\ ask.subject + i - 1 \in Nat
              /\ \A x : x.height = ask.subject + i - 1 => (x \in Spanned(dropped) <=> x \in dropped)
            BY <2>1, <2>2, SpannedIs
        <3>2. ask.subject + i - 1 \in 0 .. cursor
            BY <1>1, <2>6, <3>1
        <3> QED
            BY <1>1, <3>1, <3>2, RowsOfTable
    <2>7. DropsRead'
        BY <2>1, <2>3, <2>6 DEF DropsRead, DropRows
    <2> QED
        BY <2>1, <2>4, <2>5, <2>7 DEF BlocksInv
<1>13. CASE UNCHANGED vars
    <2>1. UNCHANGED <<rows, bodies, step, ask, parts, stood>>
        BY <1>13 DEF vars, readVars, indexVars, writerVars, tableVars
    <2>2. RowsRead => RowsRead'
        BY <2>1 DEF RowsRead
    <2>3. ActsRead => ActsRead'
        BY <2>1, ActsReadNext DEF ActsRead
    <2>4. DropsRead => DropsRead'
        BY <2>1 DEF DropsRead, DropRows
    <2> QED
        BY <2>1, <2>2, <2>3, <2>4 DEF BlocksInv
<1> QED
    BY <1>4, <1>5, <1>6, <1>7, <1>8, <1>9, <1>10, <1>11, <1>12, <1>13 DEF Next, Index, Read

LEMMA BlocksAlways == Spec => []BlocksInv
<1>1. Init => BlocksInv
    BY DEF Init, BlocksInv
<1> QED
    BY <1>1, BlocksKept, ReadAlways, AddressesAlways, PTL DEF Spec

\* Of the blocks that stood while they were read, the three queries of
\* get_blocks_in_range bring back those asked for, as many as one page has, with their
\* rows, their actions and what was dropped of them as stored, though blocks came and
\* went above between one query and the next.
THEOREM BlocksAlwaysWhole == Spec => []BlocksWhole
<1>1. AddressesInv /\ ReadInv /\ BlocksInv => BlocksWhole
    <2> SUFFICES ASSUME AddressesInv, ReadInv, BlocksInv, step = "done", ask.list = "blocks"
                 PROVE  LET read == {i \in DOMAIN parts.rows : parts.rows[i].height <= stood}
                            due  == RowsBetween(ask.subject, Smaller(ask.upto, stood), PageLimit)
                        IN  /\ read = DOMAIN due
                            /\ \A i \in read :
                                LET h == due[i].height
                                IN  /\ parts.rows[i] = due[i]
                                    /\ {a \in parts.acts : a.height = h} = BlockActions(h, bodies[h])
                                    /\ {d \in parts.drops : d.height = h} = DropRows(h, bodies[h])
        BY DEF BlocksWhole
    <2> DEFINE low == ask.subject
               high == Smaller(ask.upto, stood)
               due == RowsBetween(low, high, PageLimit)
               n == RunLength(low, high, PageLimit)
               read == {i \in DOMAIN parts.rows : parts.rows[i].height <= stood}
    <2>1. /\ low \in Nat /\ ask.upto \in Int /\ ask.upto <= MaxHeight /\ WriterInv /\ MaxHeight \in Nat
          /\ stood \in Int /\ stood <= cursor /\ cursor \in Int /\ PageLimit \in Nat \ {0}
        BY StoodKnown, ReadsAssumption, BlocksAssumption DEF TablesInv, Heights
    <2>2. high \in Int /\ high <= MaxHeight /\ high <= stood /\ high <= ask.upto
          /\ \A h \in Int : h <= stood /\ h <= ask.upto => h <= high
        BY <2>1 DEF Smaller
    <2>3. /\ n \in Nat /\ n <= PageLimit /\ due \in Seq(Block) /\ Len(due) = n
          /\ \A i \in 1 .. n : /\ low + i - 1 <= high /\ due[i] = rows[low + i - 1]
                               /\ rows[low + i - 1].height = low + i - 1
        <3>1. WriterInv /\ low \in Nat /\ high \in Int /\ high <= MaxHeight /\ PageLimit \in Nat \ {0}
            BY <2>1, <2>2
        <3> HIDE DEF low, high
        <3>2. n \in Nat /\ n <= PageLimit /\ due \in Seq(Block) /\ Len(due) = n
            BY <3>1, RowsBetweenIs
        <3>3. \A i \in 1 .. n : /\ low + i - 1 <= high /\ due[i] = rows[low + i - 1]
                                 /\ rows[low + i - 1].height = low + i - 1
            BY <3>1, RowsBetweenIs
        <3> QED
            BY <3>2, <3>3
    <2>4. RowsRead /\ ActsRead /\ DropsRead
        BY DEF BlocksInv
    <2>5. n = IF low <= high THEN Smaller(high - low + 1, PageLimit) ELSE 0
        <3>1. Smaller(high, cursor) = high
            <4> HIDE DEF high
            <4> QED
                BY <2>1, <2>2 DEF Smaller
        <3> HIDE DEF high, low
        <3> QED
            BY <3>1 DEF RunLength
    <2>6. parts.rows \in Seq(Block)
        BY DEF ReadInv, ReadTypeOK
    <2>7. DOMAIN parts.rows = 1 .. Len(parts.rows) /\ Len(parts.rows) \in Nat /\ Len(parts.rows) <= PageLimit
        BY <2>4, <2>6 DEF RowsRead
    <2>8. DOMAIN due = 1 .. n
        <3> HIDE DEF n, due
        <3> QED
            BY <2>3
    <2>9. \A i \in DOMAIN parts.rows :
            /\ parts.rows[i].height = low + i - 1 /\ low + i - 1 <= ask.upto
            /\ low + i - 1 <= stood => parts.rows[i] = rows[low + i - 1]
        BY <2>4 DEF RowsRead
    <2>10. \A i \in 1 .. PageLimit : low + i - 1 <= ask.upto /\ low + i - 1 <= stood => i \in DOMAIN parts.rows
        BY <2>4 DEF RowsRead
    <2>11. \A i \in DOMAIN parts.rows : low + i - 1 <= stood =>
            /\ \A a : a \in parts.acts /\ a.height = low + i - 1 <=> a \in BlockActions(low + i - 1, bodies[low + i - 1])
            /\ \A d : d \in parts.drops /\ d.height = low + i - 1 <=> d \in DropRows(low + i - 1, bodies[low + i - 1])
        BY <2>4 DEF ActsRead, DropsRead
    <2> HIDE DEF low, high, n
    <2>12. ASSUME NEW i \in read PROVE i \in 1 .. n
        <3>1. i \in DOMAIN parts.rows /\ i \in Nat /\ i >= 1 /\ i <= PageLimit
            BY <2>1, <2>7
        <3>2. low + i - 1 <= stood /\ low + i - 1 <= ask.upto
            BY <2>9, <3>1
        <3>3. low + i - 1 <= high
            BY <2>1, <2>2, <3>1, <3>2
        <3>4. low <= high /\ i <= high - low + 1
            BY <2>1, <2>2, <3>1, <3>3
        <3>5. n = Smaller(high - low + 1, PageLimit)
            BY <2>5, <3>4
        <3>6. i <= n
            BY <3>1, <3>4, <3>5 DEF Smaller
        <3> QED
            BY <2>3, <3>1, <3>6
    <2>13. ASSUME NEW i \in 1 .. n PROVE i \in read /\ low + i - 1 <= stood
        <3>1. i \in 1 .. PageLimit /\ i \in Nat /\ low + i - 1 \in Int
            BY <2>1, <2>3
        <3>2. low + i - 1 <= high
            BY <2>3
        <3>3. low + i - 1 <= stood /\ low + i - 1 <= ask.upto
            BY <2>1, <2>2, <3>1, <3>2
        <3>4. i \in DOMAIN parts.rows
            BY <2>10, <3>1, <3>3
        <3> QED
            BY <2>9, <3>3, <3>4
    <2>14. read = DOMAIN due
        BY <2>8, <2>12, <2>13
    <2>15. ASSUME NEW i \in read
           PROVE  LET h == due[i].height
                  IN  /\ parts.rows[i] = due[i]
                      /\ {a \in parts.acts : a.height = h} = BlockActions(h, bodies[h])
                      /\ {d \in parts.drops : d.height = h} = DropRows(h, bodies[h])
        <3>1. i \in 1 .. n /\ i \in DOMAIN parts.rows /\ low + i - 1 <= stood
            BY <2>12, <2>13
        <3> HIDE DEF due, read
        <3>2. due[i] = rows[low + i - 1] /\ due[i].height = low + i - 1
            BY <2>3, <3>1
        <3>3. parts.rows[i] = due[i]
            BY <2>9, <3>1, <3>2
        <3>4. /\ {a \in parts.acts : a.height = low + i - 1} = BlockActions(low + i - 1, bodies[low + i - 1])
              /\ {d \in parts.drops : d.height = low + i - 1} = DropRows(low + i - 1, bodies[low + i - 1])
            BY <2>11, <3>1
        <3> QED
            BY <3>2, <3>3, <3>4
    <2> QED
        BY <2>14, <2>15 DEF low, high
<1> QED
    BY <1>1, BlocksAlways, ReadAlways, AddressesAlways, PTL
=============================================================================
