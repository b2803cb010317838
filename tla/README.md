# cinemark-api in TLA+

cinemark-api collects posts and comments about films. Spiders of another
program, spider-hub, crawl Facebook, Threads and TikTok and publish what they
find to Kafka; this repository decides what to crawl and when, consumes the
results, stores what is relevant in Cloudflare D1, and computes statistics and
reports from it. Three processes of it matter here: the web API, the scheduler
(`app/workers/scheduler/main.py`, or within the web) and the ingest consumer
(`app/workers/ingest_consumer/main.py`), and scripts that cron starts. They share D1, Redis and Kafka, and
each of these fails from time to time.

This directory holds TLA+ modules of the parts where concurrency, failure and
ordering decide whether data is lost, repeated or stuck; TLC configurations
that check them on small instances; and proofs, checked by TLAPS, that the most
important properties hold for every instance.

## 1. Inventory

| Part | State | Operations | What is hard | What makes it correct | Module |
|---|---|---|---|---|---|
| Ingest consumer | Kafka offsets; asyncio tasks; `_OffsetTracker`; `_missing_parents`; lists of bookings and films kept for five minutes; rows in D1 | read, dispatch, handle, retry, dead-letter, report, commit, resume | tasks finish out of order; commits in flight; kills; rebalances; D1 unavailable, refusing, or answering too late; comments before their post | nothing committed before it has an outcome; nothing lost; outages are not decisions; everything settles | `IngestPromise`, `IngestConsumer` |
| Comment planner | lease columns of `posts`; jobs at spider-hub; list of completions in Redis | round: select, mark, publish, release; completion: apply, remove | late, lost, repeated and foreign completions; overlapping rounds; a crash between mark and publish | one job per post; leases given back; growth measured from the right count | `CommentLease` |
| Crawl slots | `crawl_fired`, `crawl_lease`, `crawl_progress` in Redis; `_crawl_fired`, `_crawl_running` in memory | tick, claim, deliver, record, finish | retries after partial delivery; restart; D1 or Kafka down; cancelled ticks | a slot that is over was delivered; nothing sent twice for free; a due slot gets done | `CrawlSlot` |
| Task queue and Stop | flags `*_drain`, `platform_stop_cutoff`, `crawl_job_cancel`; pending lists; job keys | request_stop, cancel_job, publish, enqueue | flags set one by one while publications go on; times to live; two clocks in one comparison | a stopped job does not run, one started afterwards does, a running one is told | `TaskStop` |
| Purge of posts | lock with a token; rows; backups in the lake; counts of the day | run_purge, subtract_deleted, reconcile_recent_days | a lock that expires between get and delete; a kill between two batches; posts that are stored but not yet counted | what is deleted is backed up; the counts follow the rows | `PostPurge` |
| One post in D1 | the row, its snapshots | persist_post, update_post_views, update_post_engagement | read and write are two statements; retries; answers lost | views and labels are not lost | `PostRow` |
| Sentiment sweep | lock without an owner; attempts in memory; labels in D1 | acquire, read, classify, save, release | sweeps that outlive the lock; comments no model can label; batches that fail; a window of 48 hours | a label is final; a readable comment gets one while it is recent | `SentimentSweep` |
| Reports | `_jobs` in memory; `report_schedules`; the one report of a film | enqueue, run, claim, serve, daily script | three processes write one row; a claim whose answer is lost | no report made from older comments; no appointment served twice or dropped in silence | `ReportJobs` |
| Refresh tracker | one state and one watch per platform; queues of dashboards | start_refresh, tail, finish, time out, subscribe | a cancelled watch against the newer one; double clicks | the shown outcome is that of the shown run; a watch ends | `RefreshWatch` |
| Lake writer | buffers, offsets, objects | fetch, write, commit | kills between two objects; memory kept over a rebalance; objects of one name | nothing committed that is not in the lake; everything gets there | `LakeWriter` |
| Accounts | accounts, proxies, pins, check results (Postgres) | set_account_proxy, update, enable, record a check | SELECT and UPDATE without a lock; spider-hub writes the same rows | one address per account; a dead session stays dead until a new cookie | `AccountPool` |
| Omar rounds | cursors, pause and hour in Redis; `_round` of each process, quota | tick, open, crawl_page, side jobs, close, crawl by hand | budget, quota, Stop, restarts and errors in the middle of a hashtag; rounds in two processes; requests outside of the budget | a finished hashtag was read whole; the reserve stays; every hashtag gets done | `OmarRound` |
| Omar comments | `omar:comments:jobs`, week key, lock, set of seen comments | enqueue, process_queue, publish | a job resumed in the middle of a page; a job put over one at work; videos that stop being worth it | a finished video was read whole; a video worth it gets done; seen means sent | `OmarComments` |
| Omar channels | `seen_until`, done day, zero runs, rest | crawl_channel of the round and by hand | a crawl cut short, or ended by a 404, an early last page or its cap, after it moved `seen_until`; two crawls at once | a day marked as done is covered | `OmarChannels` |
| Omar search | cursors of passes, done key, streak | step, finish, search_now | a query searched in parts over several rounds | a query marked as done was searched without a gap | `OmarSearch` |
| D1 client, source pages, lanes, keyword yield | attempt counter; `last_queued_at`, `quiet_runs`; hour flag | query, retry; queue, back off, choose | two kinds of retry on one counter; flags set before the work | bounded retries; every page and keyword gets its turn | only as the other parts meet them |

How the parts meet: a slot or a round *publishes* a request (Kafka) and notes
it as pending (Redis); spider-hub runs it, *publishes* posts and comments
(Kafka) and *pushes* a completion (Redis); the consumer *writes* rows (D1),
which the next round *selects* from, the sweep labels and the purge deletes;
the lake writer reads the same topics with a group of its own; Stop sets flags
(Redis) that spider-hub reads; Omar crawls without spider-hub and publishes to
the same topics. No two parts share memory, so that each module models what
lies beyond its part as actions of an environment: `Produce`, `EndJob`, `Grow`,
`Consume`, `StoreComment`, `HubPins`.

## 2. Modules

### IngestPromise and IngestConsumer

`IngestPromise` is the abstract specification: per partition a cursor that
covers settled records only. `IngestConsumer` is the program.

* A step is what runs between two awaits of `main.py`. `Dispatch` is the body
  of the loop (774-783); a task goes through `Acquire` (semaphore), `Lookup`
  (the reads of a handler), `Write`, and then through `Report`/`Commit`, or
  through `Fail` into `sleep` (`WakeUp`) or `letter` (`DeadLetter`).
* What the gates and mappers make of a record is its `KindOf`: *keep*, *norow*
  (a post that is accepted and leaves no row), *listed* (a post that only a list
  the process keeps lets in: a booking, or one of a source page that names a
  film), *drop*, *nokey*, *poison* (the
  handler raises) or *undecodable* (the iteration raises).
* D1 fails in three ways. A read that is not answered raises, under `d1_strict`
  (`NoAnswer`). One refused for good, a 400, returns None, which the handlers
  take for an unknown keyword or a missing parent (`Refused`). And
  `_active_rows` takes any failure for an empty list of bookings, as
  `_tracked_movies` takes a refusal for no films; the short list is kept for five
  minutes (`lists`, `ConsultLists`). How often a failed read is taken for an
  answer is bounded by `MaxMisreads`; `refusals` and `shortages` are history.
* `dispatched` and `finished` are the two fields of `_OffsetTracker`;
  `TrackFinished` pops the head of the queue while it is finished, exactly as
  the `while` of lines 588-593 does.
* `Rebalance` gives the partitions back to the same consumer, which reads from
  the committed offset again. The program registers no listener, so that its
  tasks and its tracker know nothing of it. A delivery carries an *epoch* to
  tell the tasks of one record apart.
* `Restart` follows `deploy/systemd/cinemark-ingest-consumer.service`
  (`Restart=on-failure`).

### CommentLease

The columns of `posts` that `comment_planner.py` writes, rounds that overlap,
jobs of spider-hub, and the list of completions. `MarkQueued`, `Publish` and
`ReleaseQueued` are the three awaits of the loop of `run_comment_round`;
`ApplyCompletion` is the one UPDATE of `_apply_completion`, and
`RemoveCompletion` the `lrem` after it. A D1 statement may land without an
answer. The layers that choose the picks are a choice among the posts that are
free. A kill, and a tick cancelled after 25 seconds, may come between any two
steps. `noted`, `lost`, `excused`, `contested` and `applied` are history.

### CrawlSlot

One platform and one day of `scheduler.py`. `Claim` is `_claim_crawl_slot`
together with the tick that calls it; an attempt (`task[s]`) goes through
`load`, `before`, `read`, `keywords`, `sources`, `after` and `finish`, the order
of `_trigger_platform`. `Send` is `_deliver_once` up to the answer of Kafka,
`Record` is `progress.add`. Redis, D1 and Kafka may fail in every call;
what may lose something done is counted in `losses`, what only fails in
`outages`. `mark_crawl_schedule_triggered` is for display only and left out, as
are changes of the schedule during the day. Items are delivered in any order
within a place, where the code uses the order of the plan.

### TaskStop

The Run and Stop buttons of one platform. `StartPublish`, `Stamp`, `Send` and
`EnqueuePublished` are the awaits of `publish_crawl_request`; `StopBegin` to
`StopJobs` those of `request_stop`, one flag each; `RemoveLine` and `CancelJob`
those of `cancel_job`. `now` is the clock, which no two calls read alike. How
spider-hub reads the flags (`Refused`, `Told`) is taken from the docstrings and
tests here that describe it, and mapped as external. `bfs_drain` and
`comments_drain` are left out: they are set and cleared with `platform_drain`
and are about jobs that jobs start. `Runs`, `Plans` and `Actions` are the three
kinds of requests: with `clear_stop`, without, and with `bypass_drain`.

### PostPurge, PostRow, SentimentSweep

`PostPurge` is `run_purge` with `purge_irrelevant_posts`: the lock, the choice of
candidates once, and per batch of one post `BackUp`, `DeleteChildren`,
`DeletePosts`, `SubtractDeleted`; the finally clause reads the token
(`ReadToken`) and deletes the key (`ReleasePurge`). Around it posts are stored,
which the statistics know of when the day is next counted (`missed`), comments
are stored, labels changed and the day counted again. A post that comes back
after its purge is another element of `Posts`. `PostRow` has one row and
several handlers, each a read and a write statement; a statement may land
without an answer, and the record is then handled again from its beginning.
`SentimentSweep` follows `sweep_forever` and `_save`, whose second statement has
no guard; of a round any part may come back without a label (a batch that fails,
a comment the model leaves out), and a comment leaves the window
(`LeavesWindow`) whenever time passes. `late`, `overlapped`, `cutShort` and
`unlocked` are history: they record what a property excuses.

### ReportJobs, RefreshWatch, LakeWriter, AccountPool

`ReportJobs` has the memory of the web process (`jobs`, `tasks`) and the
scheduler's `run_due_reports`, whose UPDATE ... RETURNING claims everything due
in one statement, and the daily script
`generate_social_topic_reports.py` (`Batches`), which goes through the films with
no regard for either. What is in a report is the number of the sample it was made
from. `RefreshWatch` has one platform, its watches and one dashboard; a step is
what runs between two awaits of `_tail_until_done`, and a cancelled task ends
where it waits. `LakeWriter` has one partition; writers keep their buffers over
a rebalance, as the program does, and an object's name is its platform, first
and last offset. `AccountPool` has `set_account_proxy` as SELECT and UPDATE,
every other edit as the one statement it is, and spider-hub's writes.

### OmarRound, OmarComments, OmarChannels, OmarSearch

`OmarRound` has the memory of each process (`_round`, `_stop_requested`,
`_manual_running`), since the buttons act on that of the web and the tick on that
of the scheduler, which may be the same process or another. It follows
`run_omar_round` from the claim over its
places (`deep`, `comments`, `fresh`, `info`, `closing`) to the pause. An entry
of `omar:hashtag_state` has its `cursor`, the age of `done_at`, `stalls`, `empty`
and `missing`; `had` and `blank` are history. `Paged` is what `crawl_page` makes
of an answer, `AnswerEmpty`, `AnswerError` and `AnswerStop` the other outcomes
of `omar_get`. `Open` has the answer of /usage, `OpenBlind` none and the fallback
budget; `RequestBeside` are the requests no budget counts (retries after a 424 or
429, lookups of single videos). `beyond` counts what no planned round answers
for. Channels, search and comments only spend there (`SideRequest`);
their own state is in the other three modules, which in turn see the budget
only as something that runs out. A page of `OmarChannels` has one video, one
video a day, or shows none; it may be the last for Omar too early, and the
channel may answer 404 on any. `OmarComments` takes the choice of D1, videos of a
week among the top of a hashtag, for a set that changes as it likes (`worth`).
A page of `OmarComments` one comment, with replies or not.
`OmarSearch` keeps a cursor for each pass of one query and follows `step`,
`_next_pass` and `finish` of `_QuerySearch`.

### MCControl and MCBackground

The twelve parts above share no state, so an interleaving of two of them shows
nothing that each alone does not. Each MC module extends several of them and
holds a `focus`, chosen in `Init`: a behavior follows that part and the others
stay. The instance is as large as the sum of its parts, not their product, and
each property is checked on exactly the behaviors of its module.

## 3. Runs

| Run | Instance | What it shows |
|---|---|---|
| `ingest_core` | about 474 000 states: a booking and two comments, one without an id, two partitions, one slot of each semaphore, one kill, one retry of each budget, one failed read taken for an answer | `DeliberateDrops`, `TrackerDrains`, `StaleMemoHarmless` and, under fairness, `EverySettles` |
| `ingest_rebalance` | one partition of four posts (poison, two refused, one undecodable), a rebalance, a kill, a KafkaError | `CommittedSettled`, `NothingLost`, and the refinement `KeepsPromise` |
| `ingest_tracker` | two posts, one rebalance | **violation** of `TrackerDrains`: finding 1 |
| `ingest_exit` | two posts, a KafkaError | **violation** of `ComesBack`: finding 2 |
| `comment_lease` | a post, two rounds, two runs, one reply, one interruption | `QueuedHoldsLease`, `LeaseIsAccounted`, `CountsWhatWasQueued`, `EveryCompletionHandled` |
| `lease_reapply` | a post, one round | **violation** of `ReapplyHarmless`: finding 3 |
| `crawl_slot` | two slots, a keyword, nurture before, one page, one loss, one outage | `FiredMeansDelivered`, `OnceAndOncePerLoss`, `DueSlotDelivered` |
| `slot_sources` | as above | **violation** of `SourcesDelivered`: finding 4 |
| `control` | `MCControl`, about 3.3 million states: a Run, a single action and a Stop; two purgers, two posts stored before or beside them; two films, two servers and a daily script; two accounts, proxies and addresses; two handlers of a post; five days of a channel, three pages; two passes of a query | the safety and action properties of TaskStop, PostPurge, ReportJobs, AccountPool, PostRow, OmarChannels and OmarSearch |
| `background` | `MCBackground`, about 515 000 states: two sweeps over five comments, two of them unreadable; two refreshes; two lake writers and three records; a hashtag of two pages, a web and a scheduler in one process or two; a video of two pages with replies | the safety properties of SentimentSweep, RefreshWatch, LakeWriter, OmarRound and OmarComments, and a liveness property of each under its fairness |
| `omar_seen` | a video with one comment, one slip | **violation** of `SeenComesToKafka`: finding 5 |
| `omar_search` | a query of two passes | **violation** of `BudgetKeepsCursor`: finding 6 |

**Bounds.** `LogLen`, `MaxCrashes`, `MaxRebalances`, `MaxMisreads`, `MaxRuns`, `MaxReplies`,
`Interrupts`, `MaxLosses`, `MaxOutages`, and in the later modules `MaxStops`,
`MaxExpiries`, `MaxPurges`, `MaxAccidents`, `LastClick`, `LastBooking`,
`MaxMishaps`, `MaxEdits`, `MaxRecords`, `MaxFaults`, `MaxHalts`, `MaxMistakes`,
`MaxSlips`, `LastRun`, `MaxChanges`, `MaxTroubles`, `MaxAges` and `MaxSlipUps`
bound what operators, failures and the environment do; retry budgets and
thresholds (`EmptyPages`, `PageTries`, `RowLimit`, `MaxAttempts`) are shorter
than in the code, and each counter reaches its threshold within them. Each bound is large enough for the case it
bounds to meet every other: two records are the least for finishing out of
order, two epochs for a record in the tracker twice, two runs for a completion
of one job under the lease of another, two slots for `due[0]` to choose, one
failure of each class for a retry of what was half done. In `ingest_rebalance`
four records and a rebalance reach the limit of `pending`; it and the runs with a
violation have `MaxMisreads = 0`, since what is taken for an answer changes
neither the tracker nor the commits (the theorems about them have no such
bound). In `control` a third
purge can follow two that overlap, and four edits are a SELECT, what overtakes
it, and two pins; three records with two handlers make one read between another's
statements; a cap of three pages is one that crawls of the two days wanted, with
pages that show no video, reach. In `background` two unreadable comments among
five with a limit of two are the least for a round full of unreadable ones before
a readable; two refreshes the least for a cancelled watch beside a newer; a quota
of two with a reserve of one the least for a round that runs out and is resumed
after a day, and a fallback of two budget more than it should. Where the web is a
process of its own it has fewer troubles than where it is one with the scheduler
(`MCMaxTroubles`). `SYMMETRY Alike` permutes films and calls, which no definition
chooses from; `control` checks no liveness. `control` has no
`Plans`: with a third request the part has tens of millions of states; the
theorems about TaskStop cover all three kinds. The safety properties are
also proved without bounds (section 4).

**Fairness.** Ingest: the event loop runs every task that is ready, systemd
restarts what failed, and a broker that refuses dead letters is asked until it
accepts; nothing forces D1 to answer, since a record it never answers for ends
as a dead letter. Lease: the scheduler ticks every 30 seconds, and D1 accepts an
UPDATE it is asked again and again (strong fairness of an application that is
answered). Slots: the tick and its tasks go on, and Redis keys expire; nothing
forces a window to close, and `MaxLosses` and `MaxOutages` bound how often an
attempt can fail, so that the property says: if failures stop while the window
is open, the slot is delivered. Sweep: the loop of each process goes on, and the
key of the lock goes away by its time to live; taking the lock is strongly fair,
because the processes sleep a minute between attempts while a sweep takes
seconds, so that none meets the lock taken every time. Refresh: the watch polls, the
clock passes the deadline, the handler of a WebSocket reads its queue. Lake:
the loop polls with a timeout, so that an idle buffer is flushed, and R2 takes
its objects. Rounds: the scheduler ticks, hours and days pass, a pause ends, a
crawl by hand goes on. Comments: ticks, rounds and the time to live of the
enqueue lock; nothing says that a comment is read before it is too old, or that a
video stays worth it. Failures and buttons are never fair, and the bounds stop them.
In `MCBackground` each fair action is conjoined with its `focus`.

**What the properties excuse.** Several hold but for a window that the code
leaves open, and name it: `ReadTooEarly` (a crawl that had read a post before its
views came writes zero over them), `refusals` and `shortages` (a read refused for
good, a list of bookings or films that came out short), `cutShort` (a purge that
deleted and did not subtract, until the day is counted again), `overlapped` (two
purges, or a count of the day between a deletion and its subtraction: the
statistics may then be too low, but not too high),
`unlocked` (a sweep without its lock), `OutOfReach` (a comment every process has
given up, or that a round full of unreadable ones keeps from its turn),
`beyond` (requests that no planned round answers for), `cut` (`seen_until` moves with the first page of a channel, and
what a crawl cut short left below it is not asked for again unless it is within
a day of it), `passed` (the same behind a 404, a page without a next cursor, or
the cap of pages, after which the day counts as done), `unchecked` (a pin that no check of the address stands behind),
`crossed` (button, appointment and daily script generate one report in several
processes),
`dropped` (a claim whose answer or process was lost says 'running' for ever),
and `Leaked` (`_omar_tick` claims the round in memory before it writes the hour,
and nothing gives the claim back when that write fails). Each is a history
variable or a predicate that only the faulty step makes true.

**Deadlock** is not checked: a log that has been consumed, jobs that have all
ended and a day that is over are the ends these systems should have.

**Mutants.** Each property is paired in `PROJECT.json` with a plausible slip in
one definition (a missing condition, a reset left out, a lookup skipped), kept
in the module beside the definition it changes, under which the property fails.

## 4. Proofs

Eight modules `*_proofs` prove every safety and action property that the passing
runs check, for every value of the constants that their assumptions allow. Where
a theorem needs a hypothesis more (`Seeded`, `MaxRebalances = 0`)
it is in the statement, and is named below with the reason:

| Module | Proves about |
|---|---|
| `IngestConsumer_proofs` | IngestConsumer, and that it implements IngestPromise |
| `CommentLease_proofs` | CommentLease |
| `CrawlSlot_proofs` | CrawlSlot |
| `Dashboard_proofs` | TaskStop, AccountPool, ReportJobs |
| `Rows_proofs` | PostPurge, PostRow |
| `OmarCrawls_proofs` | OmarRound, OmarComments |
| `OmarDaily_proofs` | OmarChannels, OmarSearch |
| `Background_proofs` | SentimentSweep, LakeWriter, RefreshWatch |

Each component has the same layout: types first where the invariant needs them,
then an inductive invariant with one lemma per action or group of actions, then
the theorems. Where an update would hide the type of a record from
the provers, it is typed field by field, with its `DOMAIN`. The
components of one module share nothing; they stand in one file because they are
of one kind.

*Ingest.* `IInv` says that each owed record below a queued offset, below the
reading position, or below an offset about to be committed is settled or queued
ahead (`QueueCovers`, `ReadCovers`, `CommitsSettled`), and that a queued record
is settled or still being worked on (`QueueWorking`). `CommittedSettled` alone
is not inductive: it says nothing of commits under way. From `IInv` follow
`CommittedIsSettled`, `NothingIsLost` and the refinement `PromiseIsKept`. These
theorems assume `Seeded`: each partition begins with an offset of its own or of
the retired group. Without it the loop starts at the end of the log
(`auto_offset_reset="latest"`), and a kill before the first commit skips what
was read; the hypothesis is the first deployment the code is written for.

Three more theorems need no such hypothesis, and an invariant each.
`DropsAreDeliberate` and `MemoIsHarmless` rest on `TasksFollow`: a task that
writes is of a record the gates or a whole list let in, and one that looks its
parent up carries no exception of an earlier attempt; and on `ListsFollow`: a list
that is short has been misread at some time. What they grant is what the code
grants: a post dropped after a read refused for good, or after a list came out
short, and no comment. `TrackerIsDrained` rests on `QueueInOrder`
(queued offsets are distinct and behind the reader, as is all that is finished or
being worked on) and `QueueAlive` (what is queued is finished or being worked
on, and the head of the queue is not finished). It assumes `MaxRebalances = 0`:
a rebalance moves the reader back and queues an offset twice, which is finding 1.

*Lease.* `IInv` says that a run has its lease, with the count it was taken on,
from the mark until its completion is in D1 (`LeaseKept`), that picks which
are not contested are free until marked (`TodoFree`), and that completions are
of jobs that have ended. From it follow `QueuedJobHoldsLease`,
`EveryLeaseAccounted` and the action property `CountsAsQueued`.

*Slots.* `IInv` says that what is recorded was sent (`RecordedAreSent`), that as
long as an attempt is complete what it asked for is sent or left
(`CompleteSoFar`), and that a message which neither this attempt nor the next
one knows of is due to a loss (`UnknownAreLosses`). `FiredMeansDelivered` needs
the second of these, since the flag is set on the word of the attempt alone;
`OnceAndOncePerLoss` needs the third, and the first is what makes skipping an
item sound. The proof takes the invariant slot by slot (`SlotGood`): a step
touches one slot, and a loss elsewhere only weakens what the others say.
`FiredIsDelivered` and `OnceInASlot` are the theorems, for any number of slots,
keywords, pages, losses and outages.

*Stop.* `Times` orders the clocks: the cutoff is no older than the last Stop that
has returned, and once written it is that of the Stop under way; with it
`OldWorkIsStopped` needs only that spider-hub compares `published_at` with the
cutoff. `Lives` says that a message is consumed once and that a key is that of a
running job; `Reached` is `StopReachesJobs` while the calls of `request_stop` are
still under way: what was alive at the press has its key among those that
`StopJobs` will read, or has had its flag. `FreshRuns` says that a Run begun after
a Stop finds neither that Stop nor one of its flags, that once it has cleared
them its `published_at` is no older than the cutoff, and that if it dies all the
same its own line was cancelled. From these
`StopIsHeard` and `RunsAfterStop`.

*Lake.* `CommittedInLake` alone says nothing of batches under way or of objects
to be written over. `LakeInv` says that what is committed is covered by objects
that end before the commit (`CommitCovered`, hence no later batch, which has
another name, writes over them), that what the owner has fetched is covered or in its
memory (`FetchCovered`), that below the end of any buffer, also one kept over a
rebalance, nothing is missing (`BatchWhole`), and that a batch under way is
covered but for the platforms still to be written (`FlushCovered`).

*Omar rounds.* `DoneIsWhole` is about Redis, but entries are copied to the
round, to the tasks and to crawls by hand, and back. `Good` says of every such
entry, wherever it is, that a pass has had every page before its cursor, and all
pages if it is done, or has had an empty page; that holds whichever process
writes it. `ReserveKept` follows from `BudgetKept`: of all the rounds at most one
is planned, and for that one `Sums` says that the reserve, its limit and its
requests under way are together no more than the quota, what went beyond the plan
and what the round has taken; a reset of the quota in the middle of a round keeps
it because the limit never exceeds a day's quota less the reserve.

*Accounts.* `SelectionHolds`: the account of a request that no other write has
overtaken would be alone at its address. With it each step that pins keeps
`OneAddressEach`; the other steps leave every account as it was, out of the
pool, or unchecked (`Settled`). `DeadUntouched`: an account that is dead without
a new cookie has no later `updated_at`, so that the WHERE of the check spares it.

*Sweep.* `LabelInv`: as long as no sweep has run without the lock, at most one
is under way (`Alone`), what it has read is still without a label (`Fresh`) and
what its first statement wrote is still there when the second is sent (`Wrote`).

*Reports.* `BookedOnce`: the reports an appointment has made, the calls that have
still to serve the film and the date that is due are together no more than were
booked, since the UPDATE that claims takes the date away. `RunningIsHeld`: what
says 'running' is in the hands of a call, or its process was lost. For
`ReportsGoForward`, `JobsFollow` ties each task to its job, `OneGeneration` says
that a film which button and appointment did not generate together has one
generation under way, in the web, in a call of the scheduler or of the daily
script, and `ReadIsNewer` that this one has read what is at least
as new as the report it will write over.

*Purge and statistics.* `Copied`: what a purge is about to delete it has copied
to the lake, or it came under a copied post after the copy. That holds of two
purges at once, so that `PurgedIsBackedUp` needs no lock. `StatisticsFollow` has
two halves. That no post stays counted that is gone holds of any purges
(`MostInv`): what is counted is at most the posts stored, without those the
statistics do not know of, and the pairs of a purge and a post it has deleted and
will subtract. The converse needs the lock (`CountInv`): until `overlapped`, only
its holder purges (`OwnsLock`), what it copied of the posts is exactly what it
deletes (`CopyIsExact`), and the difference is what it will subtract (`Counted`).
Both need that a post stored meanwhile is in no batch (`ChosenInv`). Posts and
purgers are assumed to be finitely many, and posts no comments.

*Row.* What a step does to the row (`RowKept`) follows from its type and from
`ViewsAreSome`: a reading of the Reels tab has some views.

*Omar comments.* The job of a video, in Redis or at a worker, has had all of the
pages before its own, and the replies of its page if it says so (`JobFollows`);
a worker's batch is of the page it is at, and a worker that marks has had
everything (`WorkerFollows`). A job an enqueue puts over another begins anew,
and so is as good. `MarkedIsRead` is the last of these.

*Omar channels.* `CrawlFollows`: a crawl reads back from its day to the day it
took over as seen, which is covered, and once it has read its first page its own
day is covered by what is read, under way or known to be left. `DoneDayIsCovered`
assumes nothing of the cap of pages: the 10 pages of the code may well end a
crawl before its 30 days, and what they leave is in `passed`.

*Omar search.* `SearchFollows`: whichever search is at a pass, the pages had are
those before the cursor, no fewer than this search has read, and if the search
is whole each pass behind it was gone through. The saved cursors have the same
shape, so that a search may go on where another stopped.

*Refresh.* `NewestOnly`: only the newest run is watched, and what was told of a
run is what spider-hub says of it. `Follows`: the last state sent to a dashboard
that missed nothing is the state.

Only model-checked: everything under fairness (`EverySettles`,
`EveryCompletionHandled`, `DueSlotDelivered` and the five liveness properties of
`background`), which is out of the prover's reach. The type invariant of
every module is proved, also where the runs spend their properties on others.

## 5. Findings

1. **A rebalance blocks the tracker** (`main.py:774`). A record handed out again
   is queued twice; the first copy to finish removes both from the finished
   set, and the second stays at the head: nothing later is committed until a
   restart. No record is lost (`NothingLost` holds), but all are read again.
2. **A KafkaError ends the consumer with status 0** (`main.py:784`, `842`), which
   `Restart=on-failure` does not restart; the docstring (800-802) promises a
   status other than 0.
3. **Applying a completion again is not harmless** (`comment_planner.py:323`):
   the second application takes the present `reply_count`, and replies that came
   in during the crawl count as crawled.
4. **Refused source pages count as delivered** (`scheduler.py:232`): what Kafka
   refuses in `queue_enabled_sources` is not seen by the slot.
5. **Seen before sent** (`omar_comments.py:394`): all comments of a page enter the
   set of seen ones before the first goes to Kafka; a process that ends in
   between has lost the others, though the docstring says a restart loses nothing.
6. **A budget that runs out keeps no cursor** (`omar_search.py:460`): the loop stops
   before `step` could save it, though the comment at `CURSOR_KEY` says that the
   next round goes on from there.

Met on the way, without a run of their own: the docstring of
`_handle_with_retries` (`main.py:650-651`) says that an outage of D1 is not taken
for an answer, but `_active_rows` (`tracked_posts.py:84`) takes it for an empty
list for five minutes, and bookings are dropped meanwhile (`DeliberateDrops`
names this case); `_film_keyword_cache` (`main.py:203`) keeps a read refused for
good as 'no keyword' until the process ends; `search_now` marks a query as done
although the search has failed (`omar_search.py:401-408`); a crawl by hand that
meets a temporary empty page at its end marks the hashtag as done; `refresh_info`
writes the entry the round has loaded over the cursor of a crawl by hand; the
WebSocket of a token refresh takes its snapshot before it subscribes
(`token_refresh.py:93-94`, `missed`); an update of a post that lands without an
answer leaves no snapshot, since the retry sees no change; `_update_last_job` and
`get_or_create_keyword` read and write without a guard; with the scheduler in a
process of its own, Stop and 'crawl this hashtag' act on the memory of the web,
where the scheduler's round does not look.

## 6. Not modelled

Relevance rules, AI prompts and parsing, topic clustering, vision and discovery
are transformations of text, vectors and images without state of their own.
Lists, searches and statistics in SQL only read; `subtract_deleted` and
`reconcile_recent_days`, which write beside a purge, are in `PostPurge`. Of the
configuration tables only accounts and proxies have two writers; the rest are
single statements. HTTP routes validate and serialize; the buttons among them
that change shared state are actions. The arithmetic of the planner's layers
(`pick_hot`, `pick_sample`, `pick_valuable`, `refresh_due`), of `plan_crawl` and
of `fresh_keywords` is a choice in the models: whatever they pick, the
properties hold. Of the periodic jobs, press reviews, the post-release news, the
hourly deep tick, channel profiles, tracked posts and watch pages set a key in
Redis and then publish (the list of bookings that ingestion reads is in
`IngestConsumer`); their only hazard is listed (a flag set before the
work), and no property covers it. The retry loop of `d1_query`, the start and
shutdown of the processes, operational sampling, and of Omar the adaptive
shares, query suggestions, trending videos, hashtag statistics and
`omar_spread_daily` (a budget below `spendable`) are left out. So are a SELECT of
`persist_post` that D1 refuses for good, and a booking entered less than five
minutes ago, which no list has yet.
The map therefore covers about a seventh of the implementation's lines: most of
the rest is SQL, text rules, schemas and calls to other programs.
`PROJECT.json` lists every component with what is left out of it.
