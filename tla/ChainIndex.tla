----------------------------- MODULE ChainIndex -----------------------------
(***************************************************************************)
(* What the store promises the parts that read it: a chain of rows without *)
(* holes from genesis to the cursor, each naming the hash of the one below *)
(* as its parent.  It grows at the top, any number of heights at a time,   *)
(* or loses every height above some point; a row never changes in place.   *)
(***************************************************************************)
EXTENDS Blocks

VARIABLES rows, cursor

ciVars == <<rows, cursor>>

Empty == [h \in Heights |-> NoBlock]

Init == rows = Empty /\ cursor = None

\* The heights above the cursor get linked rows, up to a new cursor.
Grow ==
    \E top \in Heights :
        /\ top > cursor
        /\ cursor' = top
        /\ \A h \in Heights :
            /\ h <= cursor \/ h > top => rows'[h] = rows[h]
            /\ cursor < h /\ h <= top =>
                /\ rows'[h].height = h
                /\ h > 0 => rows'[h].parent = rows'[h - 1].hash

\* Every row above a height is removed, and the cursor is that height.
Retract ==
    \E r \in Heights \cup {None} :
        /\ r < cursor
        /\ cursor' = r
        /\ rows' = [h \in Heights |-> IF h > r THEN NoBlock ELSE rows[h]]

Next == Grow \/ Retract

Spec == Init /\ [][Next]_ciVars
=============================================================================
