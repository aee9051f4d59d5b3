---------------------------- MODULE BlockStream ----------------------------
(***************************************************************************)
(* rest-service/src/sse.rs `block_stream`: what one client of a blocks     *)
(* stream is sent.  The stream subscribes to the broadcast of committed    *)
(* blocks, reads the indexed tip, replays the store page by page up to     *)
(* that tip, the ceiling, and goes on with the broadcast above it.  A      *)
(* subscriber the broadcast overtakes is cut off, and so is every client   *)
(* when the process ends; it resumes after the last event it handled.      *)
(*                                                                         *)
(* Streams do not see each other, so one client is enough.  Events on      *)
(* their way when a connection ends may be lost.  The filters of the       *)
(* actions and dropped streams work on the blocks sent and are left out.   *)
(***************************************************************************)
EXTENDS Writer

CONSTANTS Capacity,         \* BLOCK_BROADCAST_CAPACITY, 256
          PageSize,         \* BLOCK_PAGE, 500
          MaxReadFailures,  \* bound: replay reads that fail
          MaxUnanswered     \* bound: commits that land and are taken for failed

ASSUME StreamAssumption ==
    /\ Capacity \in Nat \ {0} /\ PageSize \in Nat \ {0}
    /\ MaxReadFailures \in Nat /\ MaxUnanswered \in Nat

VARIABLES pending,        \* committed and not broadcast yet
          stream,         \* "closed", "opening", "replay" or "live"
          from,           \* from_height, None for a live tail
          ceiling,        \* the tip the replay covers
          next, page,     \* the replay: where to read on, what is left to send
          live,           \* what the broadcast holds for this receiver
          lagged,         \* the receiver was overtaken
          sent,           \* history: what this connection was sent
          resume,         \* the client: the height after its last event
          base,           \* history: the last height broadcast before it subscribed
          mishaps,        \* history: what befell this connection
          readFailures, unanswered

connVars   == <<stream, from, ceiling, next, page, live, lagged, sent, base>>
countVars  == <<readFailures, unanswered>>
vars       == <<writerVars, pending, connVars, resume, mishaps, countVars>>

TypeOK ==
    /\ WriterTypeOK
    /\ pending \in Seq(Block) /\ Len(pending) <= MaxBatch
    /\ stream \in {"closed", "opening", "replay", "live"}
    /\ from \in Heights \cup {None, MaxHeight + 1}
    /\ ceiling \in Heights \cup {None} /\ next \in 0 .. MaxHeight + 1
    /\ page \in Seq(Block) /\ Len(page) <= PageSize
    /\ live \in Seq(Block) /\ Len(live) <= Capacity
    /\ lagged \in BOOLEAN
    /\ sent \in Seq(Block)
    /\ resume \in 1 .. MaxHeight + 1 \cup {None}
    /\ base \in Heights \cup {None}
    /\ mishaps \subseteq {"rollback", "read", "unanswered"}
    /\ readFailures \in 0 .. MaxReadFailures
    /\ unanswered \in 0 .. MaxUnanswered

Closed ==
    /\ stream = "closed" /\ from = None /\ ceiling = None /\ next = 0
    /\ page = <<>> /\ live = <<>> /\ lagged = FALSE /\ sent = <<>> /\ base = None

Init ==
    /\ WriterInit /\ Closed
    /\ pending = <<>> /\ resume = None /\ mishaps = {}
    /\ readFailures = 0 /\ unanswered = 0

Befalls(what) == mishaps' = IF stream = "closed" THEN {} ELSE mishaps \cup {what}

-----------------------------------------------------------------------------
(***************************************************************************)
(* The index task: it commits, then broadcasts what it committed, and only *)
(* then goes on.                                                           *)
(***************************************************************************)
Commit ==
    /\ pending = <<>>
    /\ \E n \in 1 .. Smaller(MaxBatch, MaxHeight - cursor) :
        /\ Store(BlocksAbove(n))
        /\ pending' = BlocksAbove(n)
    /\ UNCHANGED <<branch, connVars, resume, mishaps, countVars>>

\* The commit lands and its answer is lost: it is never broadcast.
CommitUnanswered ==
    /\ pending = <<>> /\ unanswered < MaxUnanswered
    /\ \E n \in 1 .. Smaller(MaxBatch, MaxHeight - cursor) : Store(BlocksAbove(n))
    /\ unanswered' = unanswered + 1
    /\ Befalls("unanswered")
    /\ UNCHANGED <<branch, pending, connVars, resume, readFailures>>

\* Mutant: the stream subscribes when its replay has ended.
SubscribedOnceLive == stream = "live"

\* The stream subscribes before it reads the tip.
Subscribed == stream # "closed"

\* Mutant: the broadcast keeps everything for a slow receiver.
QueueForever(b) == live' = Append(live, b) /\ UNCHANGED lagged

\* A receiver that is a whole buffer behind is overtaken: it is told so before
\* it gets anything else.
Queue(b) ==
    IF lagged \/ Len(live) = Capacity
    THEN live' = <<>> /\ lagged' = TRUE
    ELSE live' = Append(live, b) /\ UNCHANGED lagged

Broadcast ==
    /\ pending # <<>>
    /\ pending' = Tail(pending)
    /\ IF Subscribed THEN Queue(Head(pending)) ELSE UNCHANGED <<live, lagged>>
    /\ UNCHANGED <<writerVars, stream, from, ceiling, next, page, sent, base,
                   resume, mishaps, countVars>>

\* A fork: the block at the cursor is un-indexed, another will take its height.
Rollback ==
    /\ pending = <<>> /\ branch < MaxReorgs
    /\ Unstore
    /\ branch' = branch + 1
    /\ base' = IF stream = "closed" THEN base ELSE Smaller(base, cursor')
    /\ Befalls("rollback")
    /\ UNCHANGED <<pending, stream, from, ceiling, next, page, live, lagged, sent,
                   resume, countVars>>

-----------------------------------------------------------------------------
(***************************************************************************)
(* The stream.                                                             *)
(***************************************************************************)
\* A client connects: for the live tail, or from some height; one that has
\* handled events resumes after the last of them.
Open ==
    /\ stream = "closed"
    /\ from' \in IF resume = None THEN Heights \cup {None} ELSE {resume}
    /\ stream' = IF from' = None THEN "live" ELSE "opening"
    /\ base' = cursor - Len(pending)
    /\ mishaps' = {}
    /\ UNCHANGED <<writerVars, pending, ceiling, next, page, live, lagged, sent,
                   resume, countVars>>

\* With nothing indexed the replay is empty and live starts at from_height.
ReadTip ==
    /\ stream = "opening"
    /\ ceiling' = IF cursor = None THEN from - 1 ELSE cursor
    /\ next' = from
    /\ stream' = "replay"
    /\ UNCHANGED <<writerVars, pending, from, page, live, lagged, sent, base,
                   resume, mishaps, countVars>>

Reading == stream = "replay" /\ page = <<>> /\ next <= ceiling

\* Mutant: a page without rows is read again.
ReadPageUntilFound ==
    /\ Reading
    /\ page' = RowsBetween(next, ceiling, PageSize)
    /\ next' = IF page' = <<>> THEN next ELSE page'[Len(page')].height + 1
    /\ UNCHANGED <<writerVars, pending, stream, from, ceiling, live, lagged, sent,
                   base, resume, mishaps, countVars>>

\* A page without rows ends the replay before its ceiling.
ReadPage ==
    /\ Reading
    /\ page' = RowsBetween(next, ceiling, PageSize)
    /\ IF page' = <<>>
       THEN stream' = "live" /\ UNCHANGED next
       ELSE next' = page'[Len(page')].height + 1 /\ UNCHANGED stream
    /\ UNCHANGED <<writerVars, pending, from, ceiling, live, lagged, sent, base,
                   resume, mishaps, countVars>>

\* The read fails.  That ends the replay, which `chain` takes for its end, so
\* the live part follows.
ReadPageFails ==
    /\ Reading /\ readFailures < MaxReadFailures
    /\ readFailures' = readFailures + 1
    /\ stream' = "live"
    /\ Befalls("read")
    /\ UNCHANGED <<writerVars, pending, from, ceiling, next, page, live, lagged,
                   sent, base, resume, unanswered>>

SendReplayed ==
    /\ stream = "replay" /\ page # <<>>
    /\ sent' = Append(sent, Head(page))
    /\ page' = Tail(page)
    /\ UNCHANGED <<writerVars, pending, stream, from, ceiling, next, live, lagged,
                   base, resume, mishaps, countVars>>

ReplayEnds ==
    /\ stream = "replay" /\ page = <<>> /\ next > ceiling
    /\ stream' = "live"
    /\ UNCHANGED <<writerVars, pending, from, ceiling, next, page, live, lagged,
                   sent, base, resume, mishaps, countVars>>

\* Mutant: what was replayed is not filtered out of the broadcast.
PassesEverything(b) == TRUE

\* Only what the replay did not cover.
Passes(b) == b.height > ceiling

SendLive ==
    /\ stream = "live" /\ live # <<>>
    /\ sent' = IF Passes(Head(live)) THEN Append(sent, Head(live)) ELSE sent
    /\ live' = Tail(live)
    /\ UNCHANGED <<writerVars, pending, stream, from, ceiling, next, page, lagged,
                   base, resume, mishaps, countVars>>

\* The connection ends when the client has handled the first k events.
Close(k) ==
    /\ stream' = "closed" /\ from' = None /\ ceiling' = None /\ next' = 0
    /\ page' = <<>> /\ live' = <<>> /\ lagged' = FALSE /\ sent' = <<>> /\ base' = None
    /\ resume' = IF k = 0 THEN resume ELSE sent[k].height + 1
    /\ mishaps' = {}

\* An overtaken receiver ends the stream.
CutOff ==
    /\ stream = "live" /\ lagged
    /\ \E k \in 0 .. Len(sent) : Close(k)
    /\ UNCHANGED <<writerVars, pending, countVars>>

\* The client goes away, or the tip cannot be read and it is told so.
Drop ==
    /\ stream # "closed"
    /\ \E k \in 0 .. Len(sent) : Close(k)
    /\ UNCHANGED <<writerVars, pending, countVars>>

\* The process ends.  What it committed and did not broadcast never will be.
Crash ==
    /\ stream # "closed" \/ pending # <<>>
    /\ \E k \in 0 .. Len(sent) : Close(k)
    /\ pending' = <<>>
    /\ UNCHANGED <<writerVars, countVars>>

Next ==
    \/ Commit \/ CommitUnanswered \/ Broadcast \/ Rollback
    \/ Open \/ ReadTip \/ ReadPage \/ ReadPageFails
    \/ SendReplayed \/ ReplayEnds \/ SendLive
    \/ CutOff \/ Drop \/ Crash

Spec == Init /\ [][Next]_vars

-----------------------------------------------------------------------------
(***************************************************************************)
(* Safety.                                                                 *)
(***************************************************************************)

\* The height of the first event of a connection that asked for one.
Start == Smaller(from, ceiling + 1)

\* Events in order: each height once, from the one the client asked for.
Consecutive ==
    /\ \A i \in 1 .. Len(sent) - 1 : sent[i + 1].height = sent[i].height + 1
    /\ from # None /\ sent # <<>> => sent[1].height = Start

\* However commits, broadcasts and reads interleave with the handoff from replay
\* to live, no height is skipped or sent twice, unless a rollback, a failed read
\* or a commit taken for failed befell the connection.
HandoffExact == mishaps = {} => Consecutive

\* The client has everything there is for now.
Drained == stream = "live" /\ live = <<>> /\ pending = <<>> /\ ~lagged

\* What the client holds for a height is the last event it got for it.
Held(h) ==
    LET at == {i \in DOMAIN sent : sent[i].height = h}
    IN  IF at = {} THEN NoBlock ELSE sent[CHOOSE i \in at : \A j \in at : j <= i]

\* What a connection owes its client: what is indexed above its ceiling after it
\* subscribed, through any forks; and what it asked for, if there was no fork.
Owed(h) ==
    \/ h > base /\ h > ceiling
    \/ from # None /\ h >= from /\ "rollback" \notin mishaps

\* A drained stream has sent the stored row of every height it owes: a block
\* that a fork replaced is sent again, and nothing is lost in the handoff.
NothingMissed ==
    Drained /\ mishaps \subseteq {"rollback"} =>
        \A h \in Heights : h <= cursor /\ Owed(h) => Held(h) = rows[h]

(***************************************************************************)
(* Liveness.  The process runs and the client reads what it is sent.       *)
(***************************************************************************)
Fairness ==
    /\ WF_vars(Broadcast) /\ WF_vars(ReadTip) /\ WF_vars(ReadPage)
    /\ WF_vars(SendReplayed) /\ WF_vars(ReplayEnds)

FairSpec == Spec /\ Fairness

\* A replay comes to its end and live events follow, even if a fork takes away
\* the rows it was to read.
ReplayComesToAnEnd == stream = "replay" ~> stream # "replay"
=============================================================================
