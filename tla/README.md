# Verification of the Polkadot monitoring service

TLA+ models of the exporters and the bot of this repository, checked with TLC on small
instances and, for the properties that matter most, proved with TLAPS for every
value of their constants.

## 1. The system and its parts

The service watches Polkadot-like chains and turns what it sees into Prometheus
metrics, alerts and Telegram messages. Its parts run as containers and meet only
through the RPC endpoints, the metrics that Prometheus scrapes, the rule files
and the database.

| Part | State | Operations | Hard because |
|---|---|---|---|
| Finality exporter (`exporters/common/finality_exporter.py`) | deques `q_votes_raw`, `q_rounds_processed`, `q_outaged`, `q_metrics`; per thread the last round state | poll `grandpa_roundState` (3 threads per endpoint), mark/unmark endpoints, tally, credit, publish | shared deques without locks, observations late and repeated, session changes between requests, a threshold that moves |
| Events exporter, RPC client and broker (`exporters/events/internal/client`) | one websocket, `requests` and `subscriptions` maps, `broker.err`, contexts | request, subscribe, read loop, cleanup, reconnect | write before store, answers out of order, cleanup against callers, lifetimes of contexts |
| Events exporter, head reader (`exporters/events/cmd/events-exporter/reader.go`) | `LastProcessedHeight`, `EventsProcessed`, `EventsRate`, session caches | poll heads, hand hashes over, count events and para votes, liveness ticker | three goroutines on an unbuffered channel, unsigned arithmetic, failures of one of them |
| Labels, decoder, dto, metrics (`exporters/events`) | identity table, Prometheus counters | decode, label, count | pure |
| Common exporter (`common_exporter.py`) | `q_state`, the points of each validator per session of the era; `q_metrics` | read, warm up, session points, publish | one request after the other from a chain that goes on; era and session boundaries; a restart within an era |
| Collator exporters (moonbeam, astar, acala) | period, last block, result, `q_metrics` | follow blocks, credit the author, publish | a pass that fails between counting and remembering; a result that is written while it is scraped |
| GitHub exporter, validators cache | last answer | poll | - |
| Bot: subscriptions, accounts (`callback_query_handlers`) | the form of a chat, its row in PostgreSQL | edit, save, delete | tasks of one chat between two messages, buttons of old menus, a check list that is shared |
| Bot: alert rules (`utils/alerts.py`) | one rule file per chat | add, delete | the file is rewritten as a whole |
| Bot: access control, start, menus, support, forms | the form | dispatch | "not found" and "query lost" look the same |
| Bot: database (`utils/db.py`) | one connection, one cursor | query, commit, connect again | a query is lost when the connection is |
| Bot: cache, web apps | - | look up | - |
| Compose, Prometheus, Alertmanager, Grafana | configuration | - | restart policy |

What makes the modelled parts correct:

* finality: a round is counted at most once and by as many threads as the
  threshold asks for; no validator has more votes than there were rounds; the
  shortest list of missing votes decides; who never votes gets no vote; what all
  threads have seen is counted;
* broker: a call gets the answer to a request of its own id on its own connection
  or none, nobody blocks the loop, every call with a deadline returns, a connection
  is done with before it is replaced;
* head reader: heights are taken one after the other, all of them and none twice,
  and a failure of one goroutine leads to a restart;
* common exporter: the points of a validator's sessions are its era points, those
  of a past session no longer change, and the paravalidators shown are those of
  the session shown;
* collators: no block counts more often than the code's races allow, what is
  published is whole, pages do not go back;
* bot: forms and rules fit their templates, accounts and rules leave at the wish
  of the chat only, and a lost connection costs a bounded number of queries.

## 2. The modules

| Module | Models | Depends on |
|---|---|---|
| `FinalityExporter` | finality exporter: chain, pollers, worker | |
| `MCFinality` | the authority sets of the small instances | `FinalityExporter` |
| `FinalityProofs` | theorems about it: types, credits, rounds | `FinalityExporter` |
| `FinalityTallyProofs` | theorems about its tally | `FinalityProofs` |
| `WSBroker` | RPC client, broker, their connections | |
| `WSBrokerProofs` | theorems about it | `WSBroker` |
| `HeadFollower` | abstract: what following a head means | |
| `HeadReader` | poller, consumer and ticker of the head reader | instance of `HeadFollower` |
| `HeadReaderProofs` | that `HeadReader` implements `HeadFollower` | `HeadReader` |
| `PointsLedger` | abstract: what session points promise | |
| `CommonExporter` | common exporter: chain, worker, scrape | instance of `PointsLedger` |
| `MCCommon`, `CommonProofs` | a small chain; theorems | `CommonExporter` |
| `Collators` | moonbeam, astar and acala exporters: chain, worker, scrape | |
| `MCCollators`, `CollatorsProofs` | a small parachain; theorems | `Collators` |
| `CollatorsCountProofs` | theorems about counts and pages | `CollatorsProofs` |
| `BotDatabase` | the bot's connection to PostgreSQL | |
| `Bot` | handlers of one chat, its form, row and rules | `BotDatabase` |
| `MCBot`, `BotProofs` | two templates; theorems | `Bot` |

Names are those of the source where TLA+ allows it. A definition `X_Y` is `X`
with the bug `Y`; no action uses it. It is there to be put in the place of `X`, so
that one can see the property that depends on `X` fail.

### FinalityExporter

One action per statement that reads or writes shared state, because the threads
of the process interleave between any two of them: `get_votes` is the program
counter `tpc[t]` (`PollOk` with the append of the finished round, `CheckOutaged`,
`RemoveOutaged`, and the except branch `ExceptCheck`, `AppendOutaged`,
`Reconnect`), `main` is `mpc` (`ScanBegin`/`ScanEnd` for the loop over
`q_outaged`, the three reads, `Construct`, one `SkipEntry`, or `TallyEntry` with
`CountVotes` and `CountRound`, per observation, and `ClearMetrics`,
`PublishMetrics`). An exception nothing catches takes a thread to `dead`, and one
of `main` takes the process to `down`; `Restart` starts it again.

`q_votes_raw` holds records with the round, the missing lists and, for the
properties only, the thread that observed it; a tally has, again for the properties
only, `of`, the positions of the observations it is made of. Missing lists are sets of
validators: the code uses their length and membership in them. `grandpa_keys`
maps a validator to itself or to `Null`, the `None` that `get_keys` leaves.
The chain is the environment: any validator votes at any moment, and every endpoint
is a node of its own, which a vote reaches at a moment of its own (`Vote(u, v, k)`), so
that the missing lists of two nodes need not be comparable. The next round starts at
any moment, with or without the next session, for all nodes at once; one that is late
is one that is asked early in the round. A session has far more
rounds than the deques remember, which is why the model's round numbers go on over
a session change. `docs/overview.md:64` asks for distinct nodes: `Urls` is a set.

The threads of the first endpoint and `main` share one `SUBSTRATE_INTERFACE`.
What this does to the websocket underneath is the library's affair; for the
exporter it is a request that fails.

### WSBroker

A call is `connect` (under the client's mutex, hence one action: `Reuse`, `Dial`
or `DialFail`), `write`, `store`, `wait`, `returned`. A broker is a connection
with its map, its two goroutines and the unbuffered channel `read` between them. The
one that reads the websocket offers an answer, an error or the closed channel
(`ReadAnswer`, `ReadFail`, `ReadEnd`) and stays in its send until that is taken; after
an error it goes on reading, so when the loop has ended at the first error it stays
in the send of the second for good. The other one is the loop:
`Dispatch`, `LoopEnd`, `Panic` on the closed channel, which takes the process with it,
`Cleanup` one entry at a time, in the way `sync.Map.Range` allows, and then `AssignErr`.
`over` holds the contexts that have ended: the first broker lives in the process's
context, one dialled after a failed dial in that of the call that dialled it
(`DialContext`). Only the contexts brokers live in are followed; any other may be over
at any time (`GivesUp`). Call 1 is `StateGetMetadata` of `NewHeadReader`, alone and
without a deadline. Frames are the number of the call they answer, or `Blank` for
cleanup's.

Ids are drawn at random, as in the code, with no look at those in use: two calls may
have the same one, and then one takes the place of the other in the map and may be
given its answer. `late`, for the properties only, holds the calls that stored their
channel when the answer was gone already or the loop at its end.

### HeadReader and HeadFollower

Each of the three goroutines of the errgroup is a program counter; the unbuffered
channel is the joint step `Send`. Heights are words of the smallest size in which
`0 - 1` wraps (`Inc`, `Dec`), because a header that is an empty frame has number
0. `hash` and `h` are the hash a height's request yielded, possibly the empty one;
`counted` is the block whose events were really counted: the newest one for an
empty hash (`BlockOf`), none for an empty storage answer.

`HeadFollower` has the history of the heights taken since the start, and whether
anything has failed: `Follow` takes the next height, `Fail` ends that, and only then
`Restart` begins anew. A height that is taken a second time is a step of its own in the
history, which the specification does not have. `FollowsHead` is this specification,
instantiated on `HeadReader`'s history `taken` and on `~cancelled`, the context of the
errgroup.

### CommonExporter and PointsLedger

One action per request of the worker (`ReadEra`, `ReadSession`, `ReadSlot`,
`ReadPoints`, `ReadSets`), because the chain goes on between any two of them, and
one each for `warmup_state`, the loop over `calculate_session_points`, and the two
halves of publishing. `q_state[v]` is a dictionary: a function from its sessions to
their points and, since a dictionary of Python keeps the order in which its keys
were entered, the keys that were there before (`after`). The newest is the key that
all the others are before (`IsNewest`), by which `construct_metrics` tells who is a
paravalidator now. `q_metrics` is the deque.
Fractions of a session are counted in slots, so that the guess of the warm-up is
in whole numbers; `Guess` rounds down as `int()` does. Everything uncaught, that
is, a failed request (`None.value`), the division by zero of the warm-up in the
first slot of a validator's first session, the median of an empty list, ends the
process (`Interrupted`); `Restart` is whoever starts the container again.

A session of the points is never dropped with the other eras' (`SessionIsInEra`), so
the `KeyError` that would follow cannot happen and is no step of the model.

The chain earns points at any moment. Points earned between the reads of session
and points belong to the session read; a pass across an era boundary shows the
old era once more. `NextSession` waits for a pass that lies within the session, or
for the process to be down: sessions last hours, passes seconds, and a session
that no pass sees would have no account at all.

`PointsLedger` is what a reader of the metrics is promised: as long as an account
belongs to the same era, nothing of it is dropped, earlier sessions stay, the newest
grows, at most one session is opened at a time and is later than all the others; and
no points are negative. `LedgerSpec` is its specification on the points of `q_state`.
`account_era` is an auxiliary variable and says which era an account was last
recomputed for.

### Collators

The three exporters are one loop with different counting, so they are one module;
`exporter` is chosen in the initial state. `main` is `pc`: `ReadPeriod`,
`ReadActive` in a new period, then for moonbeam `ReadHead`, `ReadAuthor`,
`ReadProgress`, for astar `ReadHead`, `ReadAuthored` per collator, for acala
`ReadPoints` per collator, and `Clear`, `Publish`. `Fail` gives a pass up at any
request; nothing is undone, and `period` and `block` are remembered by `Publish`
only. The authors of the chain's blocks are chosen as it goes on, at any pace.

`q_metrics` and `view` (what the handler of `/metrics` holds) are references: `Live`
is the result the worker goes on writing, and `ReadActive` turns them into values
when it starts a new result. The page takes its period first and its counts last
(`ScrapePeriod`, `ScrapeCounts`). The handler of astar does not test for metrics:
`ScrapeGet("idle")` may find none.

What the code does and the properties therefore allow: moonbeam asks for the head
twice, so a block may be credited twice and another never; a pass that fails after
a credit credits again; the only block of a period may be counted to the one
before; acala shows the next session's points under the old label for one pass;
astar gives no credit at first sight.

### Bot and BotDatabase

`Bot` is one chat. aiogram makes a task of every update; a task has the loop from
one message to Telegram to the next, and that is one action here: `Check` (access
control) and the handler up to its next `await` of Telegram. `loop` is the task
that has the loop within such a stretch, because a handler reads, updates and
commits in separate queries, each of which may meet a lost connection. `form`,
`support` and `manage` are where a task waits for Telegram before it goes on to
change something (`StoreForm`, `FindSupport`, `SubManage`); `AnswerFails` is the
message that is refused there. Any button of any menu may be pressed at any time,
for menus stay in the chat.

A form is a reference to a check list in `forms`: `get_data` copies the dictionary
at its top level only, so a task that keeps a form it has taken shares the check
list within. Handlers that change nothing once access is checked (`SubView`,
`SupportMenu`, `DeleteMessage`, `PromAlert`) are `Looks`, a query whose answer does
not matter. The menus that handlers show last are left out.

`BotDatabase` is `db.py`: `QueryFindsNothing` is a query that met a broken
connection, which is made anew while the query is not repeated, with the same
answer as for an account that is not there; `Connects` leaves no cursor when the
connection came on a retry only. So access control lets a blocked account in,
`acc_save` starts a portfolio anew, `/start` inserts a row that is there and rolls
back. `AccountsLeaveByDelete` names that exception. `sub_edit` may store a form that
has been cleared meanwhile (`subscriptions.py:171`), and the `sub_manage` that
follows `sub_save` clears one that was started meanwhile; neither is excluded, and
`FiltersFitTemplate` shows that the result still fits.

## 3. The runs

| Run | Constants | Shows |
|---|---|---|
| `finality_tally` | 2 endpoints of 1 thread, 2 rounds, 2 sessions, deques of 2, 3 authorities of whom `v2` leaves, `v3` offline | `TypeOK`, `VotesWithinRounds`, `OfflineNeverCredited`, `VotesKeptPerNode`, `ProcessedDistinct` |
| `finality_pollers` | 1 endpoint, 3 threads, 2 rounds, 1 session, a failed request | `CountedByDistinctThreads`, `ObservedIsCounted` |
| `finality_threshold` | 1 failed request | violates `UnmarkedIsPolled` |
| `finality_credit` | rotating authorities, none votes | violates `OnlySuccessfulVotes` |
| `broker` | 3 calls, 2 in flight, 2 connections, 2 ids | `TypeOK`, `AtMostOneFrame`, `AnswersAreOwn`, `WaiterIsTold`, `ReplacedIsFinished`, `CallsReturn` |
| `broker_blank` | 2 calls, 1 connection | violates `SuccessIsAnAnswer` |
| `head_reader` | 4 heights, 2 failures or empty frames | `TypeOK`, `FollowsHead`, `EveryHeightIsTaken` |
| `head_hang` | 3 heights, 1 failure | violates `FailureRestarts` |
| `head_blank` | 3 heights, 1 empty frame | violates `EventsOfItsBlock` |
| `session_points` | eras of 2 and 3 sessions of 2 slots, 2 validators, 3 points | `TypeOK`, `SessionIsInEra`, `PointsAddUp`, `ShowsParavalidators`, `MissesOnlyWhilePublishing`, `LedgerSpec`, `SessionIsShown` |
| `collators` | each of the 3 exporters, 3 periods of up to 2 blocks with the collators `b`, `a` and `b`, and `b`; 1 failed request | `TypeOK`, `NoOvercount`, `BlocksAreDistinct`, `PublishedIsWhole`, `PagesGrow`, `PeriodIsShown` |
| `bot` | 2 tasks, 2 templates, 2 accounts, 3 check lists | `TypeOK`, `FiltersFitTemplate`, `LostAtMostTwice`, `AccountsLeaveByDelete`, `RulesLeaveByDelete` |

**Bounds.** Two threads already observe a round at different moments, and with an
endpoint each and two validators that vote their lists need not be comparable; it
takes three of one endpoint, as in the code, for two of them to race to take it out
of `q_outaged` after the first has put it in. A round is observed when it is over, so of
two rounds one is tallied, also after it was counted, by an iteration that began
before or after the session ended, or after a restart; one session change after which
an authority is gone gives every mixture of old metrics, new keys and old
observations. Full deques and longer histories are beyond this run; the theorems
about the same properties have no such bound (`PushElements`, `PushOnce`). Two calls in
flight share a connection, and with two ids also an id; one of them can be overtaken by
the other, and the answer to one that gave up meets the next with its id; each of them
can meet a connection that is being cleaned up or replaced. Two connections are one that
lives in the process's context and one that replaces it, which after a failed dial ends
with the context of its call. Four heights let the head
jump by more than one between two ticks and wrap. Two eras have
every kind of boundary (a session within an era, an era, a paravalidator that
leaves and comes back, a last session that has none); two slots tell the start of a session from the rest; three
points can be spread over validators, sessions and eras, with a fraction to drop.
Periods of two blocks let a block, a period or both pass between any two requests,
three of them let the worker skip one, and each has other collators than its
neighbours, so that one can tell whose are published; one failure can hit a pass
before, between and after its credits.
Two tasks are enough for one to act while the other waits for Telegram or holds an
old form; the third check list is there for a new one while the form and a task
hold two others. Two templates, one with `accounts` and one without, make every
branch of `sub_edit` and every misfit possible. Tasks and accounts are symmetric. The
bounds `MaxRound`, `MaxSession`, `MaxPoints`, `MaxBlock`, `MaxFailures`, `MaxCalls`,
`MaxInFlight`, `MaxBrokers`, `MaxHeight` stand in the guards of the environment's actions or of those that begin something
new. `EventsRate`, `roundsProcessed` and the vote counters are bounded through
them.

Deadlock is checked for the finality, common and collator exporters and the bot,
which never stop. The two others do stop: when all calls have been made, and when
the poller is stuck (the finding `head_hang`); their configurations say so.

**Fairness.** `FinalityExporter` assumes that the worker thread goes on
(`WF_vars(Main)`: Python's scheduler runs every runnable thread, and requests of
the worker end, with an answer or by an exception). It assumes nothing of the
pollers, the endpoints or the chain. `WSBroker` assumes
weak fairness of the goroutines that can go on and of the deadline of a call,
nothing of the server or the network. `HeadReader` assumes that requests end,
which their contexts guarantee, and that a `select` with a ready case goes on; how
often the ticker ticks is left open. `CommonExporter` and `Collators` assume that the
worker thread goes on (`WF_vars(Main)`), nothing of the chain, of scrapes or of who
starts the container again. `Bot` states no fairness and no liveness: a user may
stop at any point.

**What the violated properties say.** Each is a disagreement between the code and
what its documentation or comments say; `PROJECT.json` quotes them.

1. `UnmarkedIsPolled`: `connect_websocket` does not exist on the wrapper class, so
   a poller thread ends at its first failure. As soon as a sibling unmarks the
   endpoint, the threshold counts the dead thread and no round is counted again.
2. `OnlySuccessfulVotes`: in its last session a validator has no queued key, and
   `None` is in no missing list, so it is credited with every vote.
3. `SuccessIsAnAnswer`: cleanup sends `broker.err` before it is assigned; calls on
   a lost connection return an empty frame and no error.
4. `FailureRestarts`: the poller's `hashes <- hash` has no alternative. If the
   consumer or the ticker fails while the poller has a hash in hand, the process
   neither works nor ends.
5. `EventsOfItsBlock`: an empty frame counts as a block without events or, as an
   empty hash, as the newest block; the height is not tried again.

Two more things the models show that no run is about. Of two missing lists of a round
the shorter is kept, not what they have in common, so a vote that only one of two nodes
has seen may be lost; `VotesKeptPerNode` says no more than what is kept. And the
goroutine that reads for a connection goes on after an error: each lost connection
leaves one behind, in a send that nobody receives; `ReplacedIsFinished` is about the
loop, the calls and the socket.

## 4. The proofs

| Theorem | Says |
|---|---|
| `FinalityProofs.TypeCorrect` | `Spec => []TypeOK` |
| `FinalityProofs.VotesFitRounds` | `Spec => []VotesWithinRounds` |
| `FinalityProofs.OncePerRound` | `Spec => []ProcessedDistinct` |
| `FinalityProofs.OfflineUncredited` | `Spec => []OfflineNeverCredited` |
| `FinalityTallyProofs.VotesAreKept` | `Spec => []VotesKeptPerNode` |
| `FinalityTallyProofs.ThreadsAreDistinct` | `Spec => []CountedByDistinctThreads` |
| `WSBrokerProofs.Typing` | `Spec => []TypeOK` |
| `WSBrokerProofs.OneFrame` | `Spec => []AtMostOneFrame` |
| `WSBrokerProofs.OwnAnswers` | `Spec => []AnswersAreOwn` |
| `WSBrokerProofs.WaitersAreTold` | `Spec => []WaiterIsTold` |
| `WSBrokerProofs.ReplacedAreFinished` | `Spec => []ReplacedIsFinished` |
| `HeadReaderProofs.Typing` | `Spec => []TypeOK` |
| `HeadReaderProofs.ReaderFollowsHead` | `Spec => FollowsHead`, a refinement |
| `CommonProofs.CommonTyping` | `Spec => []TypeOK` |
| `CommonProofs.EraBeforeSession` | `Spec => []SessionIsInEra` |
| `CommonProofs.SessionsMakeTheEra` | `Spec => []PointsAddUp` |
| `CommonProofs.ShownArePara` | `Spec => []ShowsParavalidators` |
| `CommonProofs.ScrapesMissBriefly` | `Spec => []MissesOnlyWhilePublishing` |
| `CommonProofs.KeepsTheLedger` | `Spec => LedgerSpec`, a refinement |
| `CollatorsProofs.Typing` | `Spec => []TypeOK` |
| `CollatorsProofs.BlocksCountOnce` | `Spec => []BlocksAreDistinct` |
| `CollatorsProofs.PublishingIsWhole` | `Spec => []PublishedIsWhole` |
| `CollatorsCountProofs.CreditsAreEarned` | `Spec => []NoOvercount` |
| `CollatorsCountProofs.PagesOnlyGrow` | `Spec => PagesGrow`, an action property |
| `BotProofs.Typing` | `Spec => []TypeOK` |
| `BotProofs.FewAreLost` | `Spec => []LostAtMostTwice` |
| `BotProofs.FormsFit` | `Spec => []FiltersFitTemplate` |
| `BotProofs.AccountsStay` | `Spec => AccountsLeaveByDelete`, an action property |
| `BotProofs.RulesStay` | `Spec => RulesLeaveByDelete`, an action property |

Each holds for every value of the constants that satisfies the module's
`ConstantsAssumption`, which TLC evaluates in the runs: finitely many endpoints and
validators, positive capacities and bounds, `Null` no validator, eras that do not go
back, and the like. Three of them are about data of the chain: a list of active
collators names nobody twice (the code counts in a dictionary with these keys, and
the pallets select from sets), the slashes of an era are a list, and an era begins
with a session.

*VotesFitRounds.* The invariant is almost inductive as it stands. It needs that
`CountRound` follows `CountVotes` and nothing comes between (that is `mpc`), and
that the position the worker counts lies within its data (`Working`).

*OncePerRound.* `ProcessedDistinct` alone does not survive `CountRound`. `Unseen`
adds that the round at hand is not among the processed ones from the test in
`TallyEntry` to the append, which holds because only the worker writes
`q_rounds_processed`; `PushElements` says what a full deque forgets.

*OfflineUncredited.* A credit is the end of a chain of copies: round state, the
thread's last answer, `q_votes_raw`, the worker's copy, the tally. `Evidence` says
that every observation on this way lists a resident offline validator as missing,
`Verdict` that the tally does and that a resident validator has its key. Choosing
the shorter of two lists that both name it keeps both.

*VotesAreKept.* A node only adds votes to a round, so its answers can be compared
(`Comparable`); answers of two nodes need not be, and the shorter of their lists may
name a validator that the other node saw vote. `Chained` says of all observations the
exporter holds, wherever they are (`Held`), that those of one node are comparable. It
rests on `UpToDate`: no observation of the open round misses less than its node does
now. `KeptOf` then says of the kept list that it is the one of an observation `i` that
none undercuts, and that no observation of `i`'s node misses fewer validators than it.
`TallyInv` says of a tally what the observations in its `of` amount to, and that a round
that is still open was never counted, so that none of its observations was skipped.
Between nodes votes can be lost (section 3).

*ThreadsAreDistinct.* A tally counts observations; that they are of distinct threads
is `DistinctInv`: a thread appends an observation only when its round is over, so
what is in `q_votes_raw` is of an earlier round than the thread's last answer
(`Earlier`), and no two entries agree in round and thread (`Once`), whatever a full
deque has forgotten (`PushOnce`). The worker's copy inherits it.

*OneFrame.* A channel gets a frame from `Dispatch`, which deletes its entry, or from
`Cleanup`, which does not and instead visits each entry once. `OneFrameInv`
relates a call's channel, its entry, its request on the wire or in the hand of the
reading goroutine, and what cleanup has visited: a frame was sent only if no other way
to send one is left. Nothing in it asks for ids to be distinct.

*OwnAnswers.* `OwnInv`: what lies on a channel or was returned is of a call with the
same id and connection; an entry's id is that of its call (`Registered`), and the id and
connection of a call that has sent its request stay (`SentStays`).

*WaitersAreTold.* For a call that stored in time and alone has its id. The entry goes
only with a frame for it (`Dispatch`), an answer is taken from the wire only to be
handed over next, the loop's end puts the entry on cleanup's list, which is visited
before `AssignErr`; and who shares an id with it now has always shared it
(`AloneBefore`).

*ReplacedAreFinished.* `ErrAtEnd`: `broker.err` is assigned when the loop has
ended, and a dial takes the place of a connection with an error only. It says nothing of
the goroutine that reads, which may stay.

*ReaderFollowsHead, Typing.* `InStep` relates the poller's `i` and
`LastProcessedHeight` to the height the consumer holds and to the last one `taken`, over
the wrap at an empty header; every step of the consumer appends the next height or
leaves the history as it is, and the history is emptied only after a failure.

*EraBeforeSession, SessionsMakeTheEra, ShownArePara, CommonTyping.* They follow from one
invariant, `BookInv`, which has four parts.
`PaceInv` relates the chain to the pass: unless the process is down the chain is at
most one session past the one the pass began in, the session read lies between
the two, and the era is that of the first (`EraOfSession`: the sessions of a pass are
of its era, but for the last if the chain came to it meanwhile).
`ReadInv` says what has been read by when; the era points of a validator are at most
what the chain has given it since (`EarningGrows`).
`AccountInv` is about one account: its sessions are of its era, were all sessions
in which the validator was a paravalidator, are entered in their order, and add up to
no more than the era points of that era. One exception is needed, and it is what
makes the property hard: an account may have the session the chain is in although
that is of a later era, when the chain went on between the request for the era and that
for the session (`OnItsEra`). A pass that ends with the chain still in its session
mends that, which is `PublishKeeps`, and only then the chain goes on (`NextSession`).
`PassInv` is about an account during a pass: before `calculate_session_points` it is
either of the era of the pass and within its sessions, or has none of them but,
possibly, the current one (`AccountIsReady`); afterwards it adds up.
That an era starts no later than any of its sessions is `StartIsFirst`.

*Sums.* `Total` sums an account over the sessions. What the proofs need of it
(`TotalSums`, `TotalIsNumber`, `TotalsDiffer` for accounts that differ in one session,
`TotalOfEqual`) is proved for accounts of any size by induction over the session
numbers. The library's induction theorems cannot be used, so `Induction` states the
principle for sets of numbers, where it follows from the least element (`MinLeast`,
by well-foundedness). `SharesFit` and `GuessFits` show that the rounded shares of the
warm-up are no more than the points that are shared; `RecountFits`, that a recount adds
to the current session of an account of the era, or leaves the current session alone
with all the points; that is why nothing is ever negative.

*KeepsTheLedger.* `Init` maps to the ledger's, and every step to a step of it or to one
that changes nothing (`AccountGrows`, by action): a recount in the era of the account
grows (`RecountGrows`), a warm-up finds no account, and the end of the process drops the
account and its era. That nothing is negative is `AccountInv` after the step.

*ScrapesMissBriefly.* Inductive as it stands: the metrics go only in `Construct`,
which leads to `publish`, or with the process, and then the scrape goes, too.

*BlocksCountOnce.* `CountInv`: the blocks of a result are bounded by the heads from
`since` up to `block` while a pass is on its way, and up to `last_block` once it
has counted; between the two, `block < last_block`, which is what makes the one
more block fit, and a pass that has counted can no longer fail.

*CreditsAreEarned.* For astar a credit is for a block of the pass, and `Looked` says
which collators the pass has already come to (`AstarInv`); it matters that no
collator is listed twice. For moonbeam the author is that of a later head than the
one the pass has seen: `Doubled(h)` splits the credits into those for heads up to
some `h` and those for blocks seen, so that each block is in each half once, and
what a failed pass leaves is paid by `failures`.

*PagesOnlyGrow.* `PageInv`: the page, the metrics a scrape holds, those that are published
and the result of the worker are in this order (`Sorted`), where a later one is of a
later period or has counts that are no smaller (`Le`, an order: `LeTransitive`). The
result a scrape holds may be the live one (`Deref`), so counting moves several of them
at once; `Remembered` and `Published` say which period each may be of, and `Points` that
acala never has more points than its session has now. `PagesGrow` exempts the counts
of acala once its session is over, and `Le` does so in the same place.

*PublishingIsWhole.* `WholeInv`. A result is `Listing` a period when it counts for
exactly that period's collators and its own period is no later: the period is read
before the collators, and the chain may go on between the two requests. `LiveInv`
says of the result being counted that it lists the period whose collators were read,
or that acala is gathering them (`Gathered`), or that a failure has left it half done
and its period is not remembered, so that it will be replaced (`Dropped`); in the last
two cases nothing published refers to it (`Hidden`). `OldInv` says that a result of the
past still held lists some period. `PeriodInv`, on which `Dropped` rests, needs periods
that do not go back (`PeriodsGoOn`, a lemma about integer division).

*FewAreLost.* `LostInv` bounds the losses by what is left to go wrong: one while
there is no cursor, none while the server is away or the connection is known to be
gone. It holds of the connection alone; `DatabaseOnly` shows that the bot does
nothing else with it.

*FormsFit, AccountsStay, RulesStay.* `ChatInv`. `Steady` says what a task may rely on
while it has the loop: the portfolio it read is still the one in the row (or it
was given none), the check list it saves is still there. With it each handler
is shown to keep every check list within its template's filters
(`CheckListFits`, `GivenFits`, `KeptForms`). A query that raises for want
of a cursor does not end `sub_edit`: its own `except` branch waits in `query.answer`
and then stores the form (`subscriptions.py:168-179`), so the form may meet whatever
was stored during that wait. `Changers` says that only `SaveRow`, `SaveRules` and a crash
touch row and rules.

Every invariant and every action property of the passing runs, and both refinements,
are stated by a theorem. Only model-checked are the liveness properties
`ObservedIsCounted`, `CallsReturn`, `EveryHeightIsTaken`, `SessionIsShown` and
`PeriodIsShown`: liveness under fairness and `ENABLED` are beyond the prover, as are
induction theorems with an operator as parameter and `RECURSIVE` operators; the modules
have no recursive definition but the recursive function in `Total`. The five
properties of the violating runs are false, so there is nothing to prove of them.

## 5. What is not modelled

* The connection libraries (websocket, substrate-interface) and the SCALE decoder:
  their outcomes are, as answers, failures and empty frames.
* The HTTP handlers of finality and events exporter: they read, and write nothing.
  The deque that may be empty between a test and a read is modelled where it is
  part of a property (`MissesOnlyWhilePublishing`).
* Subscription mode of the events exporter and its session caches: see the plan.
  Attribution of events to accounts, labels, decoder and metrics are pure.
* The GitHub exporter: a loop that keeps the last answer of each project; and the
  validators cache, which writes names that are never taken back.
* Of the common and collator exporters: what is derived from the points by sorting
  and statistics.
* Of the bot: texts, keyboards, the menus a handler ends with, paging, the cache of
  accounts (it answers as it likes), `ping`, and `delete_account`, which no code
  calls. A rule's text is its template and filters; the portfolio it was made with,
  which later edits of the portfolio do not change, is left out.
* Compose files, Prometheus, Alertmanager, Grafana: configuration. The bot has no
  restart policy; `Start` is whoever starts it.

## 6. Plan

1. (done) `FinalityExporter`, the only part with shared state between threads.
2. (done) `WSBroker`, on which everything in the events exporter rests.
3. (done) `HeadFollower`, `HeadReader`: polling mode and its refinement.
4. (done) `PointsLedger`, `CommonExporter`: session points and their refinement.
5. (done) `Collators`: block counting of the three parachain exporters.
6. (done) `BotDatabase`, `Bot`: the handlers of one chat over a connection that
   gets lost.
7. `HeadPipeline`: subscription mode. Read loop, subscription goroutines, follower
   and consumer on unbuffered channels; 3 announced heads. To show: the read loop
   waits for a consumer that waits for the read loop; parent hashes under forks.
8. (done) Theorems for all invariants, action properties and refinements of the
   passing runs.
9. Theorems for `HeadPipeline` once it is there, as far as they are about safety.

## 7. Running it

    tlasany FinalityExporter.tla
    tlc -config MCFinality_tally.cfg MCFinality
    tlc -config MCWSBroker.cfg WSBroker
    tlc -config MCHeadReader.cfg HeadReader
    tlc -config MCCommon.cfg MCCommon
    tlc -config MCCollators.cfg MCCollators
    tlc -config MCBot.cfg MCBot
    tlapm FinalityProofs.tla

`PROJECT.json` lists the runs with their modules and configurations, the source
lines every definition stands for, the hazards and the properties that cover them.
