# Paperscout: specifications and proofs

TLA+ specifications of [Paperscout](../src/README.md), a bot that watches the
WG21 paper index (`wg21.link/index.json`), probes `isocpp.org/files/papers` for
drafts nobody has announced, and tells a Slack channel and the users who watch
an author or a number. The modules model the program in `src/src/paperscout/`;
TLC checks them on small instances, and TLAPS proves every safety property that
the passing runs check, for every instance.

Paths below are relative to `src/`; `scout.py`, `monitor.py`, `sources.py`,
`storage.py` are in `src/paperscout/`.

## The system

One process. The main thread runs an asyncio loop with the scheduler, which
uses an index, a prober and one worker thread for watchlist queries. Bolt's
listener threads serve Slack commands, a daemon thread sends Slack messages, a
daemon thread serves `/health`. All lasting state is in PostgreSQL, reached
through a connection pool that every thread shares.

| Component | State | Operations | Talks to |
| --- | --- | --- | --- |
| Slack queue, `MessageQueue` (`scout.py`) | `queue.Queue` of bounded size, `_queue_lock`, `_last_send` per channel, high-water flag | `enqueue`, the sender `_run` / `_throttle` / `_send_with_retry` / `_dead_letter`, `depth`, `health_fields` | Slack (HTTP), the breaker |
| `CircuitBreaker` (`scout.py`) | `_state`, `_consecutive_failures`, `_opened_at`, own lock | `allow_send`, `record_success`, `record_failure` | called by producers and by the sender |
| `Scheduler` (`monitor.py`) | `_previous_papers`, `_seeded`, `_last_successful_poll`, `_last_ops_alert`, last cycle status, health snapshot | `seed`, `poll_once`, `run_forever` | index, prober, watchlists, notify callback, ops alert |
| `WG21Index` (`sources.py`) | `papers`, `_max_rev` | `refresh`, `known_p_numbers`, `effective_frontier` | `PaperCache`, HTTP |
| `ISOProber` (`sources.py`) | `_cycle`, `_stats` | `run_cycle`, `_build_probe_list`, `_probe_one` | index, `ProbeState`, watchlists, HTTP |
| `ProbeState`, `PaperCache` (`storage.py`) | rows of `discovered_urls`, `poll_state`, `paper_cache` | `mark_discovered`, `touch_poll`, `discovered_info`, cache reads and writes | PostgreSQL |
| `UserWatchlist` (`storage.py`) | rows of `user_watchlist` | `add`, `remove`, `list_entries`, `matches_for_users`, `get_all_watched_paper_nums` | Bolt threads, worker thread, prober |
| Notifications (`scout.py`) | none | `notify_channel`, `notify_users`, `_batch_lines` | `enqueue` |
| Slack commands (`scout.py`) | none | routing, watchlist, status, version, uptime, help | `UserWatchlist`, `say` |
| Connection pool (`db.py`) | idle and borrowed connections | `getconn`, `putconn`, and `_conn` (`storage.py`): one transaction | PostgreSQL, every thread |
| Health endpoint (`health.py`) | none; reads the scheduler's snapshot, the queue and the pool | `GET /health` | the above |
| Settings, records, wiring | see "Not modelled" | | |

What is hard about it, and what makes each part correct:

- **The queue** is used by threads that race one another and the sender, which
  takes messages without the lock. Slack may answer 429, fail, or raise after
  it did post. Correct: an accepted message is posted at most once and in
  order; if it is not posted, the log says so; limits and cooldowns are kept;
  the sender never gets stuck.
- **The scheduler** spans an HTTP download, hundreds of requests and one
  database transaction per hit; each can fail, and the process can die between
  any two. What was announced must be recorded before, or it is announced
  twice; what is recorded must be announced, or it never is.
- **The probe list** is rebuilt in every cycle from numbers that move between
  the index, the hot set and the cold pool, while users edit watchlists. Every
  number must keep its turn, and no request is made twice or for nothing.
- **A probe cycle** is hundreds of coroutines that share a semaphore, retry
  with it in hand and may raise anywhere.
- **The poll loop** compares wall-clock and monotonic ages strictly, decides
  when operators hear of an outage, and must keep its distance after overruns.
- **The health snapshot** is taken after polls that do not raise only. What it
  says of a poll must be of that poll, and agree with the stale-poll alert.
- **Watchlists** are edited by concurrent commands while a poll matches them, on
  connections that run out, die with the server, or raise in a commit that did
  go through. No path may keep a connection.
- **Delivery** joins two threads: what a poll has recorded waits in memory for the
  sender, and the process may stop. Every file on record must have a fate the
  channel or the log shows, or have died with the process.
- **Notifications** must be cut at Slack's limit without losing a line.

`PROJECT.json` lists the hazards line by line, with the properties that watch
each of them.

## Modules

| Module | Models | Actions and the code they stand for |
| --- | --- | --- |
| `LossyFifo` | the abstract outbox: accept, post in order, lose with a line in the log | |
| `MessageQueue` | `CircuitBreaker`, `MessageQueue` | a producer: `EnqueueRejected/Allowed`, `AcquireQueueLock`, `Put`, `PutFull`, `DropOldest`, `NothingToDrop`, `FinishEnqueue` (the lines of `enqueue` between two points where another thread can be seen); the sender: `TakeAndThrottle`, `DeadLetterOpen`, `PassGate`, `Call`, `ReturnOk`, `Return429`, `Exhausted429`, `Retry`, `ReturnError`; Slack: `SlackPosts`; the clock: `Tick` |
| `Scheduler` | `seed`, `poll_once`, `WG21Index.refresh`, `ISOProber.run_cycle`, the rows they share | `StartPoll/Seed`, the three ways out of `refresh` each followed by `Diff`, `Probe`, `MarkDiscovered` (a transaction for each hit), `CompleteCycle`, `FailCycle`, `Notify`; exceptions: `PollLost`, `CacheWriteLost` (after the commit of the cache), `CycleLost` (an exception without a text, which `CycleResult` rejects); `Restart`; the world: `Upload`, `Age`, `CacheExpires`. What a download brings is any set of papers (`Download`) |
| `Delivery` | `Scheduler` and the outbox of `LossyFifo` composed: `notify_channel`, the sender thread, the process they share | `NotifyChannel` (what is queued, and what the breaker refuses), `FailedPoll`, `Sender`, `StopAndStart` (the queue dies with the process) |
| `ProbeList` | `_build_probe_list` and what it reads | `ReadHotNumbers`, `BuildList` (the two reads of the watchlists), `EndCycle`, `FailCycle`, `Restart`; `Download` (of a number: a later revision, an earlier one, or none), `Quieten`, `Discover`, `Watch`, `Unwatch` |
| `ProbeCycle` | `_probe_one` under the semaphore, `gather`, `_stats` | one action for the code of a coroutine between two awaits |
| `PollLoop` | `run_forever`, the cycle status and the health snapshot | `StartPoll`, `EndCycle`, `EndPoll` (marking, publication, staleness check and sleep included), `Stop`, `Tick` |
| `ConnectionPool` | psycopg2's pool as `db.py` sets it up and `_conn` uses it | `GetConn`, `GetConnRaises`, `PutConn`, `ServerRestarts` |
| `Watchlist` | the watchlist commands, `matches_for_users`, `notify_users`, on a `ConnectionPool` | `Request`, `Borrow`, `BorrowRaises`, `CommandRaises`, `Add`, `Remove`, `ListEntries`, `Reply`; `EndProbing`, `BorrowForPoll`, `PollRaises`, `MatchUsers`, `NotifyUsers`; `Restarted` |
| `Notification` | `_batch_lines`, the enqueueing loop of `notify_channel` | `AddLine`, `EndLines`, `Enqueue`, `Finish` |
| `MCMessageQueue`, `MCScheduler`, `MCDelivery`, `MCWatchlist` | | constant functions and symmetry of the instances TLC checks |
| `MessageQueueProofs`, `SchedulerProofs`, `DeliveryProofs`, `ProbeListProofs`, `ProbeCycleProofs`, `PollLoopProofs`, `WatchlistProofs`, `NotificationProofs` | | the proofs |

How the modules fit together: `Scheduler` takes the probe list as a function
`ListFor` and assumes (`ListAssumption`) that it names no draft of a paper the
index has. `ProbeList` has the list itself; there the assumption is the theorem
`OnlyUnpublishedListed`. `ProbeCycle` refines the one step `Probe` of
`Scheduler`: what is known is skipped and some requests may go wrong.
`PollLoop` has `poll_once` as a time with a probe cycle in it and an outcome.
`MessageQueue` implements `LossyFifo`, and `Delivery` puts `Scheduler` on top of
`LossyFifo`, which keeps the composition small enough to check: between them
they connect a file going online to its line in the channel. A message of
`Delivery` is the set of its lines; `Notification` has how lines are cut into
messages, and a refused batch there is a line of `reported` in `Delivery`. What
users are told, rather than the channel, is in `Watchlist`.

Conventions. Variables keep the code's names where they have one (`_cycle` is
`cycle`, `q` is `q`); variables under the heading "Observations" are history the
properties talk about and no action reads, except to keep to a bound of the model.
A timestamp is modelled by its age, saturated where the code stops telling ages
apart. Papers, files and messages are model values. Operators introduced by a
comment `Mutant:` are plausible errors in the definition that follows them, kept
to show that the properties notice them; no specification uses them.

News. wg21.link is not a list that only grows: the code takes any JSON object of a
200 response for the index, an empty or a partial one too, and skips entries that
are no objects (`sources.py:92`, `126-144`). So a paper can leave the index and
come back, and `diff_snapshots` then finds it new again. `Scheduler` counts for
each paper how often a download lacked it though the cache had it (`drops`), and
`Now(p)`, the paper with its count, is the news that `p` is in the index. "Announced
once", "silent after a seed", "reported as a transition" are about news: within one
stay in the index, which is what the code can keep; a second announcement after a
download without the paper is what the code does, and is in the model.

## Runs

All are `tlc -config <cfg> <module>`.

| Run | Module / cfg | Shows |
| --- | --- | --- |
| `queue` | `MCMessageQueue` / `MessageQueue.cfg` | Two producers, four messages, two channels, room for one: the breaker's fields agree (`BreakerConsistent`), the cooldown is kept (`CooldownKept`), one `enqueue` evicts at most one message (`EvictionMakesRoom`), no message vanishes (`NoSilentLoss`), retries wait (`RetriesWaitRetryAfter`), posts to a channel are a second apart except after an ambiguous failure (`PostsSpaced`), and the queue implements `LossyFifo` |
| `queue_liveness` | `MCMessageQueue` / `MessageQueueLiveness.cfg` | Every accepted message is posted or its loss is logged |
| `queue_retry_after` | `MCMessageQueue` / `MessageQueueRetryAfter.cfg` | Violated: after a 429 on the last attempt the next message goes out without waiting for `Retry-After` |
| `scheduler` | `MCScheduler` / `Scheduler.cfg` | All faults at any point: `AlertedOnce`, `TransitionsComplete`, and what a seed took as known is not announced until a download lacks it (`SeededPapersSilent`); the snapshot, which moves on before papers are announced, has none that is not, unless the poll that found it raised (`NoPaperLost`) |
| `scheduler_lost_alert` | `MCScheduler` / `SchedulerLostAlert.cfg` | Violated: when a transaction fails after some hits were marked, their alerts are lost for good |
| `delivery` | `MCDelivery` / `Delivery.cfg` | All faults at any point, with the queue: `Accounted`, every file on record and every reported transition has exactly one of seven fates; no line is in the channel twice (`PostedOnce`), and none of a paper before the one of its draft (`DraftsFirst`) |
| `delivery_liveness` | `MCDelivery` / `DeliveryLiveness.cfg` | Only downloads, requests and messages fail, restarts only between polls: `NoAlertLost`, and every file that goes online meets its fate in the end (`EveryFileSettles`) |
| `probe_list` | `ProbeList` / `ProbeList.cfg` | `SweepComplete`, `NoUrlTwice`, `NothingPublishedProbed`, and stray numbers do not move the frontier (`FrontierSteady`), with failed cycles, restarts, numbers that leave the index and edits while the list is built |
| `poll_loop` | `PollLoop` / `PollLoop.cfg` | `PollsSpaced`, `StaleReported` (with the bound the loop does keep), `NoFalseAlert`, `SnapshotTruthful` |
| `probe_cycle` | `ProbeCycle` / `ProbeCycle.cfg` | `PermitsConserved`, `StatsAddUp`, `CycleEnds` |
| `watchlist` | `MCWatchlist` / `Watchlist.cfg` | `WatchersTold`, `DMsJustified`, `AnswersAddUp`, `ListsTruthful`, `ConnectionsComeBack` |
| `notification` | `Notification` / `Notification.cfg` | `MessagesFit`, `LinesOnce` |

`queue`, `scheduler`, `probe_list` and `probe_cycle` also check the `TypeOK` of their
module. The types of `PollLoop` and `Watchlist` say little that the other properties
do not need; they are proved (`TypeCorrect`) and no run checks them.

### Bounds, and why they are enough

- `queue`: with `MaxSize` 1 every `put` can find the queue full and every eviction
  empty it; four messages give one in hand, one queued, two arriving, and also two
  failures, a failed probe and a caller after it. `Threshold` 2 and `Cooldown` 2
  tell the first failure from the one that trips, and a cooldown under way from
  one that is over; `MaxRetries` 1 has a first, a last and an exhausted attempt;
  `Retry-After` is missing, 0 (raised to 1) or 2. Two producers are what the class
  admits; in the program as wired today all calls come from the event loop's
  thread. Ages saturate, so `Tick` needs no bound.
- `scheduler*`: one hot draft whose paper can be published, and one file in the
  second of two cold slices. That is one URL of each kind the code treats
  differently, and two hits in one cycle, so that a failure can fall between their
  transactions. `MaxDrops` bounds how often a download may lack a paper the cache
  has, which nothing does in reality: 2 in `scheduler`, so that a paper is news
  three times and what one stay leaves behind meets the next two; 1 in
  `scheduler_lost_alert`. With one paper a download brings all or nothing; that
  papers come and go one by one is covered by the theorems, which have any number
  of papers and any `MaxDrops`.
- `delivery`: both files hot in one slice, as slices matter to liveness only,
  `MaxDrops` 1 and `MaxRestarts` 1. The latter is a bound of the model: a second process
  meets a queue as empty as the first one did, and rows that are already there. A
  file that is not delivered by the first process has met its fate by then, and
  the second has its own. `delivery_liveness`: one file in the second of two
  cold slices, which the process has to come round to (no seed finds it; those that
  find files are in `scheduler` and `delivery`), and the same bounds.
- `probe_list`: numbers 1 to 4 with one watchable and one discoverable, gap
  threshold 1, a divisor of 3: clusters, outliers, an empty index, numbers above
  the frontier, a window cut off at 1, and slices of one and of two numbers all
  occur, and numbers that leave the index while their draft is on record.
  `MaxNum` and `MaxRev` bound the index, which the code does not.
- `poll_loop`: interval 3, cooldown 2, polls of 0 to 7 units, that is from
  instant to longer than two intervals. `MaxPoll` is a bound of the model: the
  code has none, and the bound `StaleReported` names depends on it. A poll that
  never ends is therefore not in the model; it is never reported.
- `probe_cycle`: `Discovered` and `Indexed` are constants, as only the coroutine
  that awaits the cycle replaces the index or marks hits. Five URLs (three to
  request, one discovered and in the index, one in the index only) for two
  permits, so that coroutines queue for one.
- `watchlist`: one user, two Bolt threads and the poll on two connections
  (`minconn` 1, so one is kept idle), so that the pool runs out; an author and a
  number, a draft that matches both and a paper that matches the number only.
  Users share no row, and `DMsJustified` names the user of each row. Bolt's
  threads are interchangeable (symmetry); no temporal property is checked with it.
- `notification`: `MaxText` 8 and lines of 1, 2, 3, 7, 8 and 9 characters, up to
  four lines: every sum below, at and above the limit.

### Fairness, and why the code justifies it

- `queue_liveness`: the operating system schedules threads, the Slack client has
  a timeout, so a call ends, and time passes. No fairness is assumed of callers,
  nor of Slack: nothing says that it ever posts.
- `delivery_liveness` (`FairDelivery`): `run_forever` polls until the process ends
  (weak fairness of a poll's steps); a file that is asked for again and again
  answers at last (strong fairness of `Probe` finding it), without which a server
  that always times out for one file hides it for ever; the queue settles what it
  accepted (weak fairness of posting or losing), which is what
  `EveryMessageSettles` shows of `MessageQueue`. It is checked with at most one
  restart: the slice counter lives in memory and starts at 0, so a process
  restarted more often than its cold slices go round does not reach the late ones.
- `probe_cycle`: the event loop runs what can run and requests have a timeout
  (weak fairness for each coroutine); `asyncio.Semaphore` is first come, first
  served (strong fairness for `Acquire`).

### What the violated runs say

- `queue_retry_after` (`scout.py:291`): on the last attempt the code dead-letters
  and returns before it looks at `Retry-After`. `README.md:20` and
  `docs/handoff.md:30` say that the queue respects it.
- `scheduler_lost_alert` (`sources.py:360`): hits are marked in one transaction
  each; if a later one or `touch_poll` raises, the cycle is `FAILED` and returns
  no hits, but those marked are never probed again. `README.md:366` says "A
  D-paper uploaded today → alert sent". `delivery_liveness` shows that without
  this fault, and without a crash in a poll, no alert is lost, and `delivery` that
  the failed cycle's line in the log is the only trace of it (`reported`).

Other places where the documentation says more than the code does, which the
modules follow the code in:

- `README.md:20`, "1 msg/sec per channel": `_last_send` is not set when a call
  raises, so after an ambiguous failure the next message may follow at once
  (the exception in `PostsSpaced`). Replies by `say` do not pass the queue.
- `docs/onboarding.md:213`, "no Slack notifications" from `seed()`: with prior
  state `poll_once` does notify the seed's recent hits, as the docstring of
  `seed()` says (`mode = "restart"` in `Scheduler`).
- `docs/handoff.md:24`, a P row the index gains, of which a D URL is on record, gets
  its D→P transition: `_previous_papers` moves on (`monitor.py:339`) before the cycle,
  the `discovered_info` reads and the watchlist match, so if one of them raises, the
  next diff starts from a snapshot that has the paper. It and its transition are
  `forgone`, in the terms of `Scheduler`: `NoPaperLost` shows that only a poll that
  raises does this.
- `README.md:350`, every number up to the frontier is probed, the cold pool once
  a day: `_cycle` advances before the list is built, so a failed cycle uses up
  its slice (`FailCycle` in `ProbeList` starts the count of `SweepComplete` anew):
  the skipped slice is probed within the next `cold_cycle_divisor` cycles, not in its
  turn.
- `README.md:143`, the bot should reply in-thread: `_reply_opts` does so only for
  a message that is in a thread already.
- `docs/architecture.md:28`, no thread reads `WG21Index.papers`: the health thread
  and Bolt's threads read `len(index.papers)`. It is one read of a reference that
  is replaced as a whole, so no module has it.
- `docs/probe-operations.md:39`, an alert after two intervals without a good
  poll: staleness is checked only after a poll has ended, so a hung poll is not
  reported while it hangs (`CheckPeriod` in `StaleReported`).

## Proofs

Checked by `tlapm <module>.tla`. They hold for every value of the constants that
satisfies the named assumptions: the ranges `config.py` validates, constant
functions of the right type, and for `ProbeCycle` a finite list. `config.py` does
not validate the settings of the probe list. `ProbeList` assumes that they are
numbers and `Divisor` is not 0, with which the code would raise in every cycle; a
depth or a window of 0 is allowed. What needs more than that says so in its
hypothesis: `SweepIsComplete` has `ProbesAll` (depths above 0 and a prefix to
probe, as in the defaults), without which some numbers have no URL at all.

Every safety property the passing runs check is the statement of a theorem, and
the theorems about `Scheduler` hold of `Delivery` as well.

**`MessageQueueProofs`.** `TypeCorrect`: types, with `Coherent` (whoever is busy
has a message; only a call is answered; a backoff leaves an attempt), without
which `Retry` could leave the range of `attempt`. `BreakerSafe` and
`CooldownRespected` follow from `BreakerInv`, which adds to `BreakerConsistent`
that while OPEN the code's opening time is the latest trip; that is what makes "a
cooldown since `_opened_at`" mean "a cooldown since the last trip", and what rules
out a success in flight closing the breaker is `NoPostWhileOpen`: producers can
move OPEN to HALF_OPEN but only the sender's own failures open it. `RetriesWait`
follows from `WaitInv`: in a backoff the sender still has to sleep at least what
Slack asked for, which is said by the header itself (`Asked`), not by what the
code makes of it, and a first attempt finds a second gone since `_last_send`.
`PostsAreSpaced` adds `PostInv`, why a post on a channel can be less than a second
old: `_last_send` knows of it, its message was given up, or the sender has yet to
hear of it.

As to what becomes of messages, `EvictionSuffices`: from `SizeInv`, that whoever
is between acquiring and releasing `_queue_lock` is its only owner, so the only
other thread that touches `q` is the sender, which makes it shorter.
`NothingVanishes`: from `LossInv`, that a message is in one place only: the queue
has no repetitions, the message in hand is not on it, what producers are about to
put was never accepted and differs between them. `QueueIsOutbox`: every step maps
to a step of `LossyFifo` or to none under `transit = <<hand>> \o q`, until Slack
has posted `hand`; taking a message is a stutter, dropping the oldest loses the
second element, a dead letter the first. The lemmas `AppendMembers`,
`TailMembers`, `Prefixed`, `LoseFirst`, `LoseSecond` say what the sequence
operators do there.

**`SchedulerProofs`.** `TypeCorrect`; `SeededSilent`, `AlertsSound` and
`TransitionsReported` for all faults, and for downloads that bring any set of
papers. `PapersInv` carries the argument about papers: news that was heard
(announced, or taken as known) of a paper's present stay in the index is of a
paper in the cache's row (the row that loses the paper ends its stay, and the news
that is next has a higher count), and a process that has a snapshot has all of the
heard there, so a diff against the snapshot finds nothing of it (`HeardStill` when
the row moves, `PapersRefresh` for the diff). `SeededSilent` is about every news a
seed took as known, also of papers a later download lacks: what is announced after
that is the next news. `AlertsInv` carries the one about files: hits in hand are
not recorded, announced files are, and no hit is a draft of a paper in the
snapshot, which is why no draft is recorded too late for its transition.
`NoPaperForgotten` holds under all faults: the snapshot dies with a process that
stops, so a paper between the diff and its announcement is in no snapshot; a
FAILED cycle leaves the poll to announce it; and what a poll that raises had found
is counted as `forgone` (`PapersKeptRefresh`, `PapersKeptRowLost`). `NothingLost`,
for files, needs `Calm` (also no stop within a poll), as a row outlives the
process.

**`DeliveryProofs`.** `DeliveryIsScheduler`: forgetting the outbox maps every step
of the composition to a step of `Scheduler` or to none, so the theorems above hold
of it (`HandedOverOnce`). `EveryLineAccounted` is `Accounted` for any files,
papers, faults and number of restarts, from `BooksInv`: the seven fates are apart
and together they are the record (`Told`); messages in the outbox share no line
(`Scattered`), which is what lets the sender move the lines of one message without
touching another's; a transition is reported with its paper, so a new paper is
never one reported before. `ChannelReadsOnce` and `ChannelReadsInOrder` are about
the channel's history, which no restart clears, from `ChannelInv`: posted messages
share no line, and neither in what is posted nor in what waits does a draft follow
its paper. Within one poll `notify_channel` writes transitions above drafts, so
the order depends on the polls: a poll that knows a paper does not probe its
drafts (`DraftsKnown`), whatever it is about to announce, and a transition is
handed over once, with a draft that was on record. The lemmas `LinesWithout`,
`LinesAppend`, `RemoveWithout` say what taking out or adding a message does to the
lines.

**`ProbeListProofs`.** The five properties of `ProbeList`. `UrlsAreDistinct` and
`OnlyUnpublishedListed` follow from what the four parts of a list can have in them
(`Proper`, `DraftsProper`, `GapsProper`): the hot and the cold part are apart
because the hot set was read once, though the watchlists are read twice, so the
second reading changes tiers, never URLs. `StraysAreIgnored` is about the loop of
`effective_frontier`, modelled on the sorted numbers: that the number at each
position is one of the set, and positions and numbers ascend together
(`RankGrows`, `RankTaken`, `SortedAscends`), and that what the descent finds is
therefore the largest number close above another, if there is one
(`FrontierFound`). From that for the numbers before and after: old clusters are
still there, so the frontier does not fall, and a new one has a new number in it
or just below it. `SweepIsComplete` is by the distance of a number to its slice
(`SweepInv`: after cycle `c`, a number of slice `s` has waited no longer than
since `s` was last probed), for any divisor and however numbers move in between.

**`ProbeCycleProofs`.** `PermitsBalance`: the free permits and the coroutines
inside the semaphore add up (`Enters`, `Leaves`, `Stays` are the three ways a step
can act on them). `CountersAddUp` is the end of `CountInv`, which holds of the
coroutines so far: a coroutine counts in the same step that ends it, or raises,
except that a hit is counted before its front text is awaited. `TypeCorrect` has
the rest.

**`PollLoopProofs`.** All five properties of `PollLoop`. The invariant has three
parts: what the loop's own timestamps know of the true ages (`Knows`: the age of
the last success is the true one, or there was none since the loop began; with
probing off no status is ever recorded), how far sleep and elapsed time reach
(`Spaced`), and what the snapshot shows (`Shown`). `StaleIsReported` follows from
the second: measured at the last check, either the last good poll or the last
alert was recent enough, and `Spaced` bounds the time since.

**`WatchlistProofs`.** All six properties of `Watchlist`. `steady` and
`ever` enclose the table for each reader under way (`ReadInv`); a step goes on,
begins or ends a reading (`GoesOn`, `Begins`, `Ends`), so `WatchersTold`,
`DMsJustified` and `ListsTruthful` follow from what is read in between.
`ConnectionsReturn` counts the borrowed connections (`PoolInv`); a thread that
holds one is in the middle of a transaction. `AnswersBalance` keeps the books of
a row (`Adds`): an answer that falls due, that is given, or that is lost in a
commit which raised changes two sides at once, and a row is added by one
transaction only, however many commands ask for it.

**`NotificationProofs`.** `MessagesAreCut`: `size` is what the current batch and its
newlines take (`CurrentCounted`), and a full batch does not change (`FitsStill`).
The module keeps where each line ends, not its length, so a text's length is a
difference and no sum over data of any size. `LinesAreSentOnce`: batches are
intervals one after another that together are all lines before the current
batch (`Cut`), and what was offered to the queue are the first of them
(`SentInv`).

Only model-checked is liveness (`EveryMessageSettles`, `EveryFileSettles`,
`CycleEnds`), as TLAPS does not reason about fairness, and the two properties the
code violates. Of one of them, `NoAlertLost`, it is proved that it holds when no
transaction raises and no process stops within a poll.

## Not modelled

- **Health endpoint** (`health.py`): it only reads. The snapshot it shows is in
  `PollLoop`; the row count, the queue's depth and the pool's use are looked up
  live and merged with it without a lock, each for itself.
- **Schema** (`init_db`): creates the tables once, before any thread runs.
- **Parsing** of index entries, titles, dates, Slack commands and front texts
  (`models.py`): abstracted to ids, revisions and the sets an item matches.
- **Slack event routing and commands** other than the watchlist's: computed from
  a message, no state.
- **Notification settings** (`notify_*`): all on. Switching one off takes lines of
  its kind out of a message and changes no order of steps.
- **Polls with a source off.** `Scheduler` and `Delivery` have both `enable_bulk_wg21`
  and `enable_iso_probe` on, as by default. `PollLoop` has polls without probing
  (`isoProbe`), as they change what the health snapshot says.
- **Two clocks.** `run_forever` measures the age of a poll by the wall clock and
  intervals, sleeps and the last alert by the monotonic one. `PollLoop` has one clock:
  nobody sets the wall clock.
- **The poll counter** of logs and snapshot (`_poll_count`).
- **Late posts.** In `MessageQueue` Slack posts while the call is under way, or not at
  all; a post that appears after the client gave up at its timeout is left out.
- **Order and repetition within a probe list.** It is a set of entries: a repeated
  entry of the same tier could not be seen (`NoUrlTwice` tells tiers apart).
- **Settings, wiring, logging** (`config.py`, `__main__.py`): the ranges settings
  are checked for are the assumptions of the modules; what `__main__.py` connects
  is composed in `Delivery` and `Watchlist`. An orderly shutdown joins no sender,
  so it is `StopAndStart` like a crash.
- **`open-std.org` scraper** and the miss counters of `ProbeState`, which nothing
  in the program calls.

## Plan

Done: the core (`MessageQueue`, `Scheduler`), the prober (`ProbeList`,
`ProbeCycle`), `PollLoop` with the health snapshot, `Watchlist` on a
`ConnectionPool`, `Notification`, the composition `Delivery`, and the proofs of
their safety properties.

What would come next:

1. `IndexCache`: TTL and download as a module of their own, with the age of the
   index a poll may work with as the property.
2. The pool under all threads of the program at once, the event loop's own
   queries included.
3. `Delivery` on `MessageQueue` itself: that a step of the composed queue is one of
   its `Sender`, which today follows from `QueueIsOutbox` by hand.
