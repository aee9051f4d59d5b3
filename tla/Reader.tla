------------------------------- MODULE Reader -------------------------------
(***************************************************************************)
(* ingestion/src/rpc.rs `run`: the task that reads the node and feeds the  *)
(* index task over a bounded channel.  It looks at the rewinds the index   *)
(* task asks for only at the top of its loop.  When a rewind arrives, the  *)
(* page in its hand and the blocks in the channel are already under way,   *)
(* and so may be the requests for the status and for the next page.        *)
(*                                                                         *)
(* Left out: the version check, which ends the process once at start, and  *)
(* the effects read after each page, retried until it is answered, which   *)
(* adds data to a block and changes no control.                            *)
(***************************************************************************)
EXTENDS Node, Links

CONSTANT PageSize    \* PAGE_SIZE, 100

ASSUME ReaderAssumption == PageSize \in Nat \ {0}

VARIABLES rpc,          \* where the loop is: "top", "poll", "fetch" or "send"
          next,         \* the height to ask for next
          page,         \* what is left to send of the page it fetched
          network,      \* the NetworkView it published, a watch channel
          knownFinal    \* history: the highest finalized height published

readerVars == <<rpc, next, page, network, knownFinal>>

NoNetwork == [tip |-> None, finalized |-> None]

ReaderTypeOK ==
    /\ rpc \in {"top", "poll", "fetch", "send"}
    /\ next \in 0 .. MaxHeight + 1
    /\ page \in Seq(Block)
    /\ rpc = "send" <=> page # <<>>
    /\ network \in [tip : Heights \cup {None}, finalized : Heights \cup {None}]
    /\ knownFinal \in Heights \cup {None}

ReaderInit ==
    /\ rpc = "top" /\ next = 0 /\ page = <<>>
    /\ network = NoNetwork /\ knownFinal = None

\* A new process resumes after the last committed height.
ReaderRestart(committed) ==
    /\ rpc' = "top" /\ next' = committed + 1 /\ page' = <<>>
    /\ network' = NoNetwork
    /\ UNCHANGED knownFinal

\* The top of the loop: of the rewinds that wait the last one wins.
TakeRewinds ==
    /\ rpc = "top"
    /\ next' = IF rewindCh = <<>> THEN next ELSE rewindCh[Len(rewindCh)]
    /\ rewindCh' = <<>>
    /\ rpc' = "poll"
    /\ UNCHANGED <<page, network, blockCh, knownFinal>>

\* Mutant: finality is read once, when the process starts.
PollKeepsFinalized ==
    /\ rpc = "poll"
    /\ network' = [tip |-> NodeTip,
                   finalized |-> IF network = NoNetwork THEN finalized ELSE network.finalized]
    /\ knownFinal' = Larger(knownFinal, finalized)
    /\ rpc' = IF next > NodeTip THEN "top" ELSE "fetch"
    /\ UNCHANGED <<next, page, linkVars>>

\* GET /status is answered, and published before any block read after it is sent.
\* A caught-up reader starts over at the next poll or rewind.
PollStatus ==
    /\ rpc = "poll"
    /\ network' = [tip |-> NodeTip, finalized |-> finalized]
    /\ knownFinal' = Larger(knownFinal, finalized)
    /\ rpc' = IF next > NodeTip THEN "top" ELSE "fetch"
    /\ UNCHANGED <<next, page, linkVars>>

Wanted == BlocksBetween(next, Smaller(network.tip, next + PageSize - 1))

\* GET /blocks is answered.  An empty answer ends the task: see ReaderEnds.
FetchPage ==
    /\ rpc = "fetch"
    /\ Wanted # <<>>
    /\ page' = Wanted
    /\ rpc' = "send"
    /\ UNCHANGED <<next, network, linkVars, knownFinal>>

\* GET /status or GET /blocks fails: after a pause the loop starts over.
RequestFails ==
    /\ rpc \in {"poll", "fetch"}
    /\ rpc' = "top"
    /\ UNCHANGED <<next, page, network, linkVars, knownFinal>>

\* The node has nothing at `next` any more: the task returns an error.
ReaderEnds == rpc = "fetch" /\ Wanted = <<>>

\* Mutant: the channel is not bounded.
SendUnbounded ==
    /\ rpc = "send"
    /\ blockCh' = Append(blockCh, Head(page))
    /\ next' = Head(page).height + 1
    /\ page' = Tail(page)
    /\ rpc' = IF page' = <<>> THEN "top" ELSE "send"
    /\ UNCHANGED <<network, rewindCh, knownFinal>>

\* block_tx.send, which waits while the channel is full.
SendBlock ==
    /\ rpc = "send"
    /\ Len(blockCh) < BlockCapacity
    /\ blockCh' = Append(blockCh, Head(page))
    /\ next' = Head(page).height + 1
    /\ page' = Tail(page)
    /\ rpc' = IF page' = <<>> THEN "top" ELSE "send"
    /\ UNCHANGED <<network, rewindCh, knownFinal>>

ReaderNext == TakeRewinds \/ PollStatus \/ FetchPage \/ RequestFails \/ SendBlock
=============================================================================
