# Retracer in TLA+

Retracer follows the chains of one or more nodes, indexes their blocks into
Postgres and serves what it indexed over REST, server-sent events and webhooks.
This directory models the parts of it that keep state and run concurrently,
model-checks them with TLC on small instances, and proves theorems about the
core for every size with TLAPS. Every definition is translated from the Rust
source under `src/crates`; `PROJECT.json` names the lines of each.

## The system

| Part | Source | State it keeps | Operations | Talks to |
|---|---|---|---|---|
| Reader | `ingestion/src/rpc.rs` | next height, page in hand, published `NetworkView` | poll `/status`, fetch a page, send blocks, take a rewind | the node (HTTP), the index task (two bounded channels), everyone (watch channel) |
| Fork classification | `retracer-core/src/tip.rs` | none | `classify` | called by the index task |
| Index task | `retracer-core/src/lib.rs` `index_chain`, `flush_batch` | tip, where a rollback episode began, inbox, batch | receive, extend, skip, accept past a gap, roll back, refuse, commit | the store (write pool), the reader, the block broadcast |
| Runner | `retracer-core/src/lib.rs`, `retracerd` | the tasks of each chain | add a chain, run until one task ends | starts everything |
| Store | `storage/src/lib.rs` | blocks and tables keyed by their height, cursor, webhooks | insert a batch, roll back to a height, reads | transactions in Postgres |
| Streams | `rest-service/src/sse.rs` | per connection: receiver, ceiling, replay position | subscribe, replay, go live, cut off | the store, the block broadcast |
| Webhooks | `rest-service/src/webhooks.rs` | hooks table, backoff per process | register, remove, dispatch | the store, the block broadcast, receivers (HTTP) |
| Derived state | `storage/src/lib.rs` `insert_effects_in_tx` and reads | accounts, holders, validators, attestors by height | insert, read at a height | written with the blocks |
| Actions | `storage/src/lib.rs` `insert_block_in_tx`, `reindex_action_addresses`, `storage/src/schema.rs` | actions and the five tables derived from them, by height; the rules of the process | insert, roll back, reindex under other rules, newest-first reads | written with the blocks; the reindex writes beside the index task |
| REST reads | `rest-service/src/lib.rs` | caches of uptime, statistics and genesis | paged reads, reports | the store, the node |
| Access control | `retracer-core/src/auth.rs` | request counts per address | check token, count, find the client's address | before every route |

What is hard about it: the reader and the index task run ahead of each other,
so a rewind finds blocks of the abandoned branch already under way; forks are
peeled one block at a time; a commit may fail, or land unanswered; the process
may end anywhere and has nothing but the store to start from; what is final is
learnt late and forgotten by a restart; a stream is opened between a commit and
its broadcast; the dispatcher works from copies while forks and users change
the table; and a reindex writes rows of actions it read before the index task
removed them.

What makes each part correct:

- *Index task and store*: the rows are one chain, linked by hash, without holes
  up to the cursor; a rollback spares what is final and never adds up to more
  than the finality depth; nothing is announced that is not stored; the index
  catches up.
- *Streams*: the handoff from replay to live skips and repeats no height; a
  replaced block is sent again; a replay ends.
- *Webhooks*: at-least-once, in order; nothing is taken back that was delivered
  as final; a hook is given up on only after its window; every hook is served.
- *Derived state*: a read at a height answers what the chain said there, also
  after a rollback, and though it takes several queries.
- *Actions*: the tables derived from blocks are a view of the stored chain, no
  action is lost or kept too long, addresses are what the rules make of it, and a
  list walked page by page skips and repeats nothing that stood meanwhile.
- *Uptime*: a report on a settled branch blames nobody wrongly, and the node is
  not asked again for what it has just answered.
- *Access control*: no address gets more than twice the limit in the span of a
  window, and none is refused for less than the limit.

## Modules

| Module | Models |
|---|---|
| `Blocks` | heights, blocks, tips |
| `Tip` | `tip.rs`: one predicate for each `TipAction` |
| `BlockStore` | what `insert_blocks` and `rollback_to` do to the blocks table and the cursor |
| `Node` | the node, as the reader uses it: mint, reorganise, finalise (not in this repository) |
| `Links` | the two bounded channels |
| `Reader` | `ingestion::rpc::run` |
| `Indexer` | `index_chain`, `flush_batch`, `durable_tip` |
| `Pipeline` | node, reader and index task in one process that may end and start again; the properties |
| `ChainIndex` | abstract: what the store promises those who read it |
| `Writer` | the store and its writer as streams and webhooks see them, built from `BlockStore` |
| `BlockStream` | `sse.rs` `block_stream` and its client |
| `Webhooks` | `webhooks.rs` and the webhook operations of the store |
| `StateHistory` | the effects of blocks as rows by height, and the reads as of a height |
| `Extraction` | `schema.rs`: the addresses a payload names, by the operator's rules or an implementation |
| `Actions` | the tables derived from actions under batches and rollbacks, restarts with rules added, and the reindex |
| `LedgerView` | abstract: what tables derived from blocks promise |
| `ActionReads` | the newest-first lists and the range of blocks `rest-service` serves, and a client that walks them |
| `Uptime` | the uptime request, its fetches from the node, its cache, its report |
| `RequestGuard` | `auth.rs`: the guard of every route and the rate limiter |
| `PipelineProofs` | theorems about `Pipeline`, and that it implements `ChainIndex` |
| `GuardProofs` | theorems about `RequestGuard` |
| `WriterProofs` | lemmas about the two steps of `Writer`, for the proofs of those who use it |
| `HistoryProofs` | theorems about `StateHistory` |
| `ActionProofs` | theorems about `Actions` and `ActionReads`, and that they implement `LedgerView` |
| `StreamProofs` | theorems about `BlockStream` |
| `HookProofs` | theorems about `Webhooks` |
| `UptimeProofs` | theorems about `Uptime` |
| `MCPipeline`, `MCActions`, `MCBlockStream`, `MCWebhooks`, `MCStateHistory`, `MCUptime`, `MCRequestGuard` | the instances TLC checks |

**State and actions.** `Reader` has the loop's place in `rpc`: `TakeRewinds` is
the top of the loop, `PollStatus` the answer to `/status` and its publication,
`FetchPage` that to `/blocks`, `RequestFails` the failure of either, `SendBlock` one
send on the channel; a rewind asked for at any time after the first of these waits
for the next round. `ReaderEnds` is the `ensure!`
on an empty page, which ends the process. `Indexer` has its place in `index`:
`Receive` is `recv_many`, and each branch of the `match` on `classify` is an
action that includes what follows it in the loop body: `ExtendTip` and `TakeGap`
share `Accept` (the tip moves, the batch grows and is committed if it is full),
`DetectFork` commits the batch, `RollBack` is the transaction and the tip read
back, `SendRewind` the send. The three are apart because the task awaits between
them. `EndBatch` is the commit when the inbox is used up, the only one that sets
the tip back. A commit has three outcomes: landed, failed, and unanswered (landed
and taken for failed).

A hash is the number of the branch the node minted the block on, so a pair of
height and hash is a block. The node never comes back to a branch it left, and
never replaces its genesis block.

`BlockStream` follows one client, since streams do not see each other, over any
number of connections: `Open` subscribes, `ReadTip` sets the ceiling, `ReadPage`
and `SendReplayed` replay, `SendLive` filters and sends what the broadcast queued,
`CutOff` is the lagged receiver. When a connection ends the client has handled any
first part of what was sent, and resumes after it.

`Webhooks` has the dispatcher's place in `phase` and its copies of the table in
`queue` and `more`. `Wake` lists the hooks, `ReadTip` settles how far they are
delivered, `ReadPage`, `Post` and `MarkDelivered` deliver a block, `Fail` is any
error on the way, `NextRound` the round robin. `RegisterReads` and
`RegisterWrites` are the two awaits of `register`. The index task's fork is two
actions: `DetectFork` reads the finality the process knows and decides
(`retracer-core/src/lib.rs:883`), and `Rollback`, some awaits later (928), is the
transaction, which rewinds the hooks and does not look at finality again; `Poll`, the
dispatcher and a crash come in between. What is flushed before the rollback (911) is a
`Commit` before `DetectFork`. A block is one delivery: its events are posted in order
and the cursor moves after the last.

`StateHistory` keeps the rows of the state tables by cell, that is by table and
key: what a block does not change has no row at its height. `Commit` is the
transaction of a batch, effects and dispute flags included, `Rollback` that of
`rollback_to`. A request is in `step`: `ReadAccount`, `ReadAssets` and `ReadStakes`
are the three queries of `get_account_state`, `ReadPage` one page of holders,
`ReadCursor` and `ReadExport` an export. Three tables stand for eleven; they differ
in whether a value of nothing is a row to show. The history variable `applied`
keeps the effects of the stored blocks, from which `Ledger` computes the state
block by block, and `Answer` what a request should give.

`Actions` keeps the six tables as sets of rows. `Commit` is the transaction of a
batch: a block's actions get their identity, the rows that are new by their key
are written, and token events and the trigger's rows by asset follow from those.
`Rollback` is that of `rollback_to`. A process is started with some rules and
told to reindex or not (`Restart`); the reindex is `ReindexReads`, a page after
`mark` that leaves its rows in `held`, `ReindexInserts`, the statement that
writes them, and `ReindexEnds`. Requests are served from then on, as in `finish`.
In `ActionReads` a client asks for a list and walks it: `ReadPage` is one page
by the cursor `last`, an account's page being merged from a branch for each
role; `ReadRows`, `ReadActs` and `ReadDrops` are the queries of
`get_blocks_in_range`, and of one block where the ends are the same. A payload
is the function from the paths it has to what they resolve to. One field
`token` stands for the asset of an action and for that of its token event, and
of the rows by asset the height and place are kept. What is history: `bodies`,
the contents of the stored blocks; `covered`, that all rows the rules imply
have been written; `raced`, that a rollback took blocks the reindex held rows
of; `stood`, the height up to which the chain is what it was when the client asked.

`Uptime` has one request in `phase`: `ReadRows` is `list_proposed_heights`, `Start`
a height's turn in the `buffer_unordered` stream, with its look into the cache. If the
set is not there the node is asked: `NodeAnswers` is the node reading the set on the
branch it is on then, `Answered` the answer coming in, which puts it into the cache
under the time of that moment, `FetchFails` a failure or the timeout, in any order of
heights; the node may leave its branch between any two of these. An answer comes in at
most `FetchTimeout` after the request (`rest-service/src/lib.rs:229`); that the process
is late to look at one that is there is neglected. `Finish` is the
report or the first error. A validator set is known by the hash of the block it is
of. `Fork` is the node leaving its branch, which the index follows later.

`RequestGuard` is one action for each way through `rest_guard`, `Charge` being
`RateLimiter::allow` under its lock. The log of what was charged in the last
window is history.

## Runs

Bounds are CONSTANTS in each `.cfg`. Two blocks to a page, to a batch and in the
block channel and one rewind in the other are enough for full channels, full
batches, pages that end early and both tasks waiting; three or four heights let
a fork be peeled twice and be followed by more.

| Run | Checks | Bounds |
|---|---|---|
| `pipeline_reorg` | types, cursor, episode, links, tip, finality, `ChainIndex` | 4 heights, 2 reorganisations (finality not respected), depth 1, 1 restart |
| `pipeline_faults` | cursor, resume point, announcements, and `CatchesUp` under fairness | 4 heights, 1 reorganisation, 1 failing or unanswered commit, 1 restart |
| `block_stream` | handoff, completeness, end of the replay | 4 heights, 1 fork, buffer 2, one failing read, one unanswered commit, connections without bound |
| `webhooks` | types, at-least-once, window, finality, and under fairness the service of a hook whatever the other does | 3 heights, 2 hooks of which one may fail for ever; 2 registrations, or 1 and two of a reorganisation, a restart and a window's time |
| `state_history` | rows against the ledger, answers, disputes, paging | 3 heights, 1 fork of any depth, 2 accounts, 3 kinds of effects, pages of 1 |
| `actions` | tables against the chain (`LedgerView`), addresses against the rules, walks, ranges, first-seen, end of the reindex | 3 heights, 1 fork of any depth, 3 kinds of blocks of up to 3 actions, 2 rules, pages of 1, 1 restart |
| `uptime` | fairness of the report, node calls | 4 heights, 1 fork, 2 fetches at once that may take 1 tick, entries that live 1, 3 ticks in all, sweep above 1 entry |
| `request_guard` | limit, causes of refusal | 2 addresses, one a proxy, limit 2 per window of 1 tick, 4 ticks, sweep above 1 entry |

`TypeOK` includes the channels' bounds. `CursorCoversRows` says no row is above
the cursor. `LinkedBeforeGap`, `TipFollowsStore` and `KeepsChainIndex` hold up to
the first block that is accepted past a gap (`gapTaken`), which the code does
knowingly; the runs listed last show what follows it. `AnnouncedLanded` holds up to
the first block that is accepted at or below the cursor (`behind`), which takes a tip
that was lost with a commit and could not be read back. `RollbackSparesFinal` speaks of
what any process so far published as final, and holds although the node of that
run breaks its own finality. In `BlockStream`, `mishaps` records what befell a
connection, and the properties say which mishaps they tolerate. In `Webhooks`,
`overtaken` marks hooks whose cursor moved under a copy the dispatcher holds, and
`blind` that a wake did not know the finality the node reports, and `overrun` holds the
blocks whose height was published as final after their rollback was decided on and
before it: `FinalStands` is about all others, and `webhook_orphaned` shows what befalls
these. In `StateHistory`,
`steady` says that the height asked for is stored and stayed so. In `Uptime`,
`Steady` says that the node last forked a fetch timeout and a cache lifetime before the
request, and that the rows are of its branch. Both are needed: with the lifetime alone
TLC finds a report that blames the wrong validator, by an answer that the node gave
before the fork and the cache dates after it. `ReportIsFair` then compares the turns with the
chain's own, and the turns missed with the blocks others stood in for.

In `state_history` one block may leave everything as it is, give an account an
asset and a stake, or take them away and give the asset to another; a later block
may dispute the one below it. In `actions` a block holds a signed and an unsigned action with a token each; or
one of a claimed kind, an action twice and a dropped one; or nothing. The rule for
the claimed kind must not count. The kinds share signatures, so an action un-indexed
with its block comes back at another height or place, and a signature may be
dropped first and included later. Pages of one entry put every entry at a boundary,
and a walk of more than five is given up: no list is longer without a rollback.
`WalkExact` speaks of the part of a list at heights that stood; lists of an account
are left aside while rows may be missing or too many (`covered`, `raced`).

In `request_guard` a proxy and a client that names
any address, or none, share the window's end, the sweep and the limit; a third
address would be another that is neither.

**Deadlock** is checked, except for `Webhooks`: with no hook registered and
nothing left to come there is nothing to do.

**Where the code and its comments part.** Each run stops at a counterexample:

- `fork_hole`: blocks under way when a rewind is asked for are taken past the gap
  the rollback left; what was asked for again is then stale. The hole stays.
- `webhook_orphaned`: finality passes a block between the decision to un-index it and
  the rollback. The dispatcher, woken by the new finality, posts the block as final, and
  then it is taken back, against `rest-service/src/webhooks.rs:22-24`. It takes a node
  that certifies a block at the height of our tip which is another than ours.
- `webhook_replaced`: the dispatcher goes on from its copy of a cursor that a
  rollback rewound, and a replacement block is never delivered.
- `reindex_race`: a rollback between the two statements of a reindex leaves rows of
  an action that is gone. When the action is included again, the rows keep the old
  height, and the action is returned on every page of the account's history,
  against `storage/src/lib.rs:1664-1665`.

More was met while modelling and has no run of its own:

- After a failed commit nobody asks for its heights again, against
  `retracer-core/src/lib.rs:1051`, and a full batch that fails leaves the tip at
  heights never written (`lib.rs:1010`).
- When a commit goes unanswered after a gap and the tip read back has no row, the task
  goes on without a tip and takes the next block unchecked, even one at or below
  the cursor. If another block's row is at that height `ON CONFLICT DO NOTHING` keeps
  it, and the new block is announced though it did not land, against
  `retracer-core/src/lib.rs:1049-1050`. This was met in a proof attempt; it takes two
  reorganisations and a failure, and `AnnouncedLanded` excepts it by `behind`.
- An answer about validators is dated by when it comes in (`rest-service/src/lib.rs:116`),
  not by when it was asked for: a set of the branch the node has left may be reported
  from for up to five seconds more than the lifetime of the cache.
- When the node certifies another block at the height of our tip, the refusal of
  `tip.rs:106` protects the orphan, and the chain stalls.
- A failed replay read is followed by live events (`sse.rs:262`): the heights
  between are skipped. `NothingMissed` excepts it.
- A stream opened with `from_height` drops blocks re-indexed at or below its
  ceiling for the rest of the connection (`sse.rs:291`).
- A process that has not heard of finality yet delivers up to the indexed tip
  (`webhooks.rs:385`). A registration over a hook that is being delivered keeps
  its id, and the update under way overwrites the new cursor
  (`storage/src/lib.rs:2639`).
- A dispute flag outlives the block that recorded it (`storage/src/lib.rs:1279`),
  although `rollback_to` says there is nothing to restore; and an account read at
  the tip may be put together from two heights (`storage/src/lib.rs:1797`).
- An operator's role `other:from` is stored as `from` is (`schema.rs:42`), and both
  are asked for as `payload_from` (`storage/src/lib.rs:1699`).
- A client of the action stream that resumes after the height of its last event, as
  `sse.rs:6-10` says, misses the rest of that block if it was cut off within it. The
  model's events are blocks.
- A range of blocks read while a rollback replaces its end may show a block with
  the actions of another. `BlocksWhole` is about the blocks that stood.

## Fairness

`Pipeline`: the reader's steps and the index task's are weakly fair, since tokio
runs a task that can go on; a fetch is strongly fair, the node answers now and
then, about its status and about blocks. Nothing is assumed of the node's own
steps or of restarts. `BlockStream`: a
broadcast, the stream's own steps, and a client that reads. `Webhooks`: the
dispatcher runs and backoffs end, and what it awaits ends one way or the other, since
its posts have a timeout (`webhooks.rs:354`). The read of the tip succeeds now and then,
and a receiver in `Answering` gets a delivery through now and then, its read and its
update included, if it is tried again and again. Of other receivers nothing is assumed:
they may fail for ever. `StateHistory`: a query
that was begun is answered, and a client that pages goes on. `ActionReads`: the
reindex goes on, since the process awaits it at its start; nothing is assumed of
commits, rollbacks, restarts and the client. `Uptime` and
`RequestGuard` assume none and state safety only.

## What is proved

All theorems hold for every value of the constants, under the assumptions the
modules name (`BlocksAssumption` and so on: sizes are positive naturals, bounds
naturals). TLC evaluates the assumptions in every run.

| Theorem | States |
|---|---|
| `TypeCorrect` | `Spec => []TypeOK` |
| `CursorCovers` | `Spec => []CursorCoversRows` |
| `EpisodesBounded` | `Spec => []EpisodeBounded` |
| `FinalSpared` | `Spec => RollbackSparesFinal` |
| `AnnouncedStored` | `Spec => AnnouncedLanded` |
| `ResumeAlwaysFound` | `Spec => []ResumePointStored` |
| `ImplementsChainIndex` | with commits that land, `Spec => KeepsChainIndex` |
| `RowsLinked` | with commits that land, `Spec => []LinkedBeforeGap` |
| `TipAlwaysFollows` | with commits that land, `Spec => []TipFollowsStore` |
| `GuardTypeCorrect` | `Spec => []TypeOK` of `RequestGuard` |
| `LimitHolds` | `Spec => []TwoWindowsAtMost` |
| `RefusesForCause` | `Spec => RefusedForCause` |
| `HistoryTypeCorrect` | `Spec => []TypeOK` of `StateHistory` |
| `DisputesAlwaysStand` | `Spec => []DisputesStand` |
| `AnswersHold` | `Spec => []SteadyAnswers` |
| `RowsAlwaysLedger` | `Spec => []RowsAreLedger` |
| `TablesAlwaysView` | `Spec => TablesAreView`: `ActionReads` implements `LedgerView` |
| `AddressesAlwaysFollow` | `Spec => []AddressesFollow` |
| `FirstSeenAlways` | `Spec => []FirstSeenHolds` |
| `ReadTypeCorrect` | `Spec => []TypeOK` of `ActionReads` |
| `WalksExact` | `Spec => []WalkExact` |
| `BlocksAlwaysWhole` | `Spec => []BlocksWhole` |
| `StreamTypeCorrect` | `Spec => []TypeOK` of `BlockStream` |
| `HandoffAlwaysExact` | `Spec => []HandoffExact` |
| `NothingEverMissed` | `Spec => []NothingMissed` |
| `HookTypeCorrect` | `Spec => []TypeOK` of `Webhooks` |
| `DeliveredAtLeastOnce` | `Spec => []AtLeastOnce` |
| `DisabledOnlyAfterWindow` | `Spec => []DisabledAfterWindow` |
| `FinalAlwaysStands` | `Spec => []FinalStands` |
| `UptimeTypeCorrect` | `Spec => []TypeOK` of `Uptime` |
| `NodeAlwaysSpared` | `Spec => NodeSpared` |
| `ReportAlwaysFair` | `Spec => []ReportIsFair` |

- **Types.** `TypeOK` alone is not inductive: a rollback computes a height from the
  tip, so `TypeInv` adds `RollbackReady`, that there is a tip then, that the batch
  is empty, and that the height asked for exists.
- **Cursor.** `CoverInv` adds that a batch ends at the tip and ascends: the cursor
  is that of its last block. A rollback decided on one below the tip therefore
  covers what a failed or landed batch left.
- **Episodes.** `EpisodeInv` ties where the episode began to the tip and the cursor
  between the decision and the rollback, so that depth measured by `classify` is
  depth un-indexed.
- **Finality.** `FinalInv`: while blocks are under way the process has published
  everything any process before it knew, since it polls before it fetches.
- **Chain.** `ChainInv` follows a block from the node to its row: the rows are one
  chain to the cursor (`RowsChain`), the batch goes on where they end (`Follows`),
  the tip is where the batch ends (`TipEndsBatch`), and with no tip the next block
  is genesis (`StartsAtGenesis`), which is never rolled back because every block at
  height 1 names it (`RootInv`). `MaxFailures = 0` is assumed: after a failed commit
  the reader does not go back, and the tip read back may be lost too, which leaves
  a next block unchecked.
- **Announcements.** `LandInv`: a row is at its own height, and what is to be committed
  ascends from above the cursor (`Above`), so that no row is in its way. This is lost
  when the task accepts a block with no tip at or below the cursor, which `behind` records.
- **Resume point.** `FirstInv` is about the node's first branch only: whatever is held
  anywhere is of it (`Held(Plain)`), so nothing is ever classified as a fork, the
  cursor only moves to blocks that are written with it, and no rollback takes one.
- **Tip.** `TipFollowsStore` is a part of `ChainInv`: between batches nothing is left
  over (`Places`), and then the tip is the block at the cursor (`TipEndsBatch`).
- **Limits.** `GuardInv` ties the table to the log. `CountBacked`: an entry that is
  not over counts at most what the log holds for its address since it began, so a
  refusal has its cause in the last window. `Shares`: of an address that is no
  proxy, what passed in the last window passed in the window of its entry or in
  the one before it, and either let through no more than the limit. `IdleOver`: an
  address whose entry is over was charged nothing at this moment, so the window
  that begins next is later than everything logged; that is also why the sweep may
  drop such an entry.
- **State at a height.** `HistoryInv` has two halves. `StoreInv`: the rows of a cell
  are what the stored blocks made of it (`RowsAreChanges`), blocks above the cursor
  have had no effects (`NothingAbove`), and a block disputes only what is below it
  (`DisputesBelow`), so that a rollback that drops a flag drops the block that set it.
  `RequestInv`: what has been read is the part of the answer before the read that is
  next (`AnswerSoFar`), for pages the holders up to `after`. Of the index task a
  request needs only that it leaves the blocks at and below `at` alone
  (`TaskKeepsRequest`), since state at a height depends on nothing above it
  (`StateKeeps`, `HoldingsKeep`), and of a page that it is a prefix, the rest if it is
  short (`PageIsPrefix`). That the newest row is the last change is `AsOfIsState`.
- **View of the chain.** The refinement maps `chain` to the contents of the stored
  blocks and `view` to the five tables, each row with its table's name. `TablesInv`
  says what each table is of the stored blocks, and that no two of them share a
  signature: hence an identity is one action's (`StoredApart`), nothing of a batch is
  dropped as known (`BatchIsNew`), and what a rollback deletes by height, or through
  its action, is what the blocks it takes had brought. `CommitExtends` and
  `RollbackRetracts` are the two steps, everything else a stutter. That the node's
  replay protection keeps signatures apart (`Fresh`) is assumed; a repetition within
  a block is not excluded.
- **Addresses.** `AddressesInv` adds the reindex: of every stored action, its rows are
  there or held, or its place is after `mark`. A commit keeps this since it writes
  its rows itself under the same rules, and a rollback that takes none of the blocks
  held rows are of leaves them right; one that does sets `raced`. At the end nothing
  is after `mark` and nothing is held. First-seen follows from both invariants.
- **Lists.** A page of any list is the first of what the list holds after the cursor,
  and all of it if it is not full (`PageOf`): shown for a list cut from a table at once
  (`NewestIsPage`) and for one merged from a page of each role (`MergedIsPage`); the
  latter is why a role's own limit may be that of the page. No two entries of a list
  are at one place (`Listed`). `WalkInv` then says that of the blocks that stood a walk
  holds just what is at or above its last entry; what changed above them is not asked
  for again. It rests on `TablesInv` and, for accounts, on `AddressesInv`.
- **Ranges of blocks.** `BlocksInv`: the rows read are a run from the lowest height
  asked for, and of a height that stood since the first query what the later queries
  bring is still that block's.
- **Ledger.** `RowsAreLedger` needs what `AnswersHold` does not: that the ledger, computed
  block by block, is the last change of a cell (`LedgerIsState`). A recursive function is shown
  to exist by a witness that satisfies its equation, and to be that witness by the least
  height at which another would differ.
- **Streams.** `StreamInv` has two halves. While nothing went wrong, `Exact`: what was sent
  is a run of rows from the first one owed (`SentIsRun`), the page in hand goes on from it
  (`PageIsRun`), and the broadcast goes on from the last row announced without a gap to
  the replay (`LiveIsRun`). With rollbacks but nothing lost, `LiveCovers`: of every height
  announced since the subscription the row is the last that waits, or the last sent.
  `TypeInv` adds that what is to be announced are the rows at the top (`PendingIsTop`).
- **Webhooks.** `HookInv` ties the dispatcher's copies to the table: ids are given once and
  a copy is of the hook it was taken from, with its cursor unless that was moved since
  (`IdsOnce`, `IdsGiven`, `CopyOK`); the page follows that cursor (`PageFollows`) and is
  recorded only when it was posted (`Posted`). Hence `DeliveryInv`, a hook's cursor is not
  above what it got. `ClocksOK` orders the last delivery, the start of the failing and
  the present. `FinalInv`: what is posted under finality is at or below what the process knows to
  be final, and stays (`Stays`), since no rollback is decided on below that. Between the
  decision and the transaction `RewindSpares` holds: the block to be taken is above what
  is known to be final, or finality passed it meanwhile and it is in `overrun`.
- **Uptime.** `NodeSpared` follows from `CacheLives`: what was fetched less than a lifetime
  ago is in the cache. For reports `FairInv` adds that what the
  node answered to a request younger than the last fork is of the node's branch
  (`AnswersTrue`). An entry is dated a fetch timeout after its request at the latest, so
  entries that much younger than the fork are too (`CacheTrue`), hence every set a
  settled request uses (`SetsTrue`). Turns missed and turns stood in for are two sums over validators, and
  both count the blocks not made at round zero (`SumIsCount`).
- **Writer.** `StoreGrows` and `UnstoreRetracts` show the two steps of `Writer` to be
  steps of `ChainIndex`, from `WriterInv`, the rows one run up to the cursor; and
  `RowsBetweenIs` what a query of a range returns. `BlockStream`, `StateHistory`,
  `Webhooks`, `Actions` and `Uptime` take the same steps.

Only model-checked: liveness (`CatchesUp`, `ReplayComesToAnEnd`, `HooksServed`,
`PagesComeToAnEnd`, `ReindexComesToAnEnd`), which is out of the prover's reach;
of `HooksServed` with two hooks or, through a fork and a restart, with one. What
`Pipeline` promises of the chain in the store (`KeepsChainIndex`, `LinkedBeforeGap`,
`TipFollowsStore`) is proved with `MaxFailures = 0` only, as `pipeline_reorg` checks it.

## Not modelled

- Decoding, DDL, projection indexes, metrics and readiness, the version check: they
  keep no state that anything above depends on.
- Effects of another branch. They are fetched block by block after the page
  (`rpc.rs:233`), and the node may have moved by then. Such a block is of a branch the
  node has left: its successor does not link to it, so it is un-indexed with its
  effects. In the model the node never returns to a branch, and there the rows that
  stay are those of their block.
- Of the reads: filters by kind, projected field and sender, search, lookups by hash,
  daily rollups and statistics; validators and attestors, which take no height;
  compliance states and jurisdictions of holders.
- Rows of token creations, which a registration effect writes, and rules taken away
  between two starts, which leave rows behind until they are dropped by hand.
- Signatures and the choice of events of a hook; how address lists and tokens are parsed.
- A node that returns to a branch it left. Several chains: their pipelines share the
  pools and nothing else. Two uptime requests at a time: they meet in the cache only,
  entry by entry.

## Plan

1. Done: the pipeline, the guard, state by height, and the tables of actions with
   their proofs; streams, webhooks, uptime, and the lists served.
2. Effects of another branch, with a node that may return to one.
3. Filters of the lists, and token creations.
4. Several hooks' and streams' views of one store composed with `Pipeline` instead
   of `Writer`.
5. Theorems: what of `ChainInv` outlives a failed commit, with `MaxFailures` free.
