---------------------------- MODULE CommentLease ----------------------------
(***************************************************************************)
(* Hourly comment crawling (app/services/crawl/comment_planner.py).  A     *)
(* round picks posts, writes a lease with a fresh run_id into each post's  *)
(* row, and publishes a comments job to spider-hub.  spider-hub pushes a   *)
(* completion when the job ends; the scheduler's tick applies completions  *)
(* to D1, oldest first, records the crawl and releases the lease.          *)
(*                                                                         *)
(* Rounds may overlap (a round longer than an hour, or the script          *)
(* run_comment_round), jobs are also published by hand from the dashboard, *)
(* a D1 statement may land without an answer, a Kafka message may be       *)
(* delivered although its publication failed, and a tick is cancelled      *)
(* after 25 seconds wherever it is.                                        *)
(***************************************************************************)
EXTENDS Naturals, Sequences, FiniteSets

CONSTANTS
    Posts,          \* posts of the platform
    Rounds,         \* rounds that may run at the same time
    MaxRuns,        \* bound: run_ids ever made
    MaxReplies,     \* bound: replies a post may get
    Interrupts      \* bound: kills and cancelled ticks

ASSUME LeaseAssumption == 
    Posts # {} /\ MaxRuns \in Nat /\ MaxReplies \in Nat /\ Interrupts \in Nat

NoRun    == 0
NoLease  == MaxReplies + 1
Runs     == 1 .. MaxRuns
Replies  == 0 .. MaxReplies
Statuses == {"done", "skipped", "malformed"}

VARIABLES
    \* posts in D1, a column each
    replyCount,     \* reply_count
    queuedRun,      \* comments_queued_run_id
    queuedReplies,  \* comments_queued_replies
    queuedRecently, \* comments_queued_at is less than QUEUE_LEASE old
    crawledReplies, \* comments_crawled_replies
    \* run_comment_round
    round,          \* round[k]: its place, the picks left, the run at hand
                    \* and the reply_count of each post at the select
    \* spider-hub and the list of completions
    lastRun,        \* run_ids made so far
    job,            \* job[r]: new, queued or ended
    postOf,         \* postOf[r]: its post
    completions,    \* comment_crawl_completions, oldest first
    \* apply_comment_completions
    applying,       \* the oldest completion is in D1 and not yet removed
    interrupts,     \* kills and cancelled ticks so far
    \* history
    noted,          \* noted[r]: the reply_count written with the lease of r
    lost,           \* runs nobody will report on: see LeaseIsAccounted
    excused,        \* runs whose lease expired or was released before the end
    contested,      \* posts that two rounds have chosen at the same time
    applied         \* runs whose completion has reached D1

rowVars     == <<queuedRun, queuedReplies, queuedRecently, crawledReplies>>
jobVars     == <<job, postOf, completions>>
applyVars   == <<applying, applied>>
historyVars == <<noted, lost, excused, contested>>
vars == <<replyCount, rowVars, round, lastRun, jobVars, applyVars, interrupts, historyVars>>

-----------------------------------------------------------------------------
\* A round that is not running.
Idle == [at |-> "idle", todo |-> {}, run |-> NoRun, seen |-> [x \in Posts |-> 0]]

Init ==
    /\ replyCount = [x \in Posts |-> 0]
    /\ queuedRun = [x \in Posts |-> NoRun]
    /\ queuedReplies = [x \in Posts |-> 0]
    /\ queuedRecently = [x \in Posts |-> FALSE]
    /\ crawledReplies = [x \in Posts |-> 0]
    /\ round = [k \in Rounds |-> Idle]
    /\ lastRun = 0
    /\ job = [r \in Runs |-> "new"]
    /\ postOf = [r \in Runs |-> CHOOSE x \in Posts : TRUE]
    /\ completions = <<>>
    /\ applying = FALSE
    /\ interrupts = 0
    /\ noted = [r \in Runs |-> NoLease]
    /\ lost = {} /\ excused = {} /\ contested = {} /\ applied = {}

-----------------------------------------------------------------------------
(* Around the planner.                                                     *)

\* A crawl of posts meets the post again and updates its reply_count.
Grow(x) ==
    /\ replyCount[x] < MaxReplies
    /\ replyCount' = [replyCount EXCEPT ![x] = @ + 1]
    /\ UNCHANGED <<rowVars, round, lastRun, jobVars, applyVars, interrupts, historyVars>>

\* QUEUE_LEASE, 24 hours, has passed since the lease was taken.
Expire(x) ==
    /\ queuedRecently[x]
    /\ queuedRecently' = [queuedRecently EXCEPT ![x] = FALSE]
    /\ excused' = excused \cup {queuedRun[x]}
    /\ UNCHANGED <<replyCount, queuedRun, queuedReplies, crawledReplies, round, lastRun,
                   jobVars, applyVars, interrupts, noted, lost, contested>>

\* Someone asks for the comments of a post on the dashboard.
PublishByHand(x) ==
    LET r == lastRun + 1
    IN  /\ r \in Runs
        /\ lastRun' = r
        /\ job' = [job EXCEPT ![r] = "queued"]
        /\ postOf' = [postOf EXCEPT ![r] = x]
        /\ UNCHANGED <<replyCount, rowVars, round, completions, applyVars, interrupts,
                       historyVars>>

(* spider-hub is through with a job: it has crawled the post, or skipped   *)
(* it (stopped, no session, error).  Its completion may get lost.          *)
EndJob(r) ==
    /\ job[r] = "queued"
    /\ job' = [job EXCEPT ![r] = "ended"]
    /\ \/ /\ \E s \in Statuses :
                /\ completions' = Append(completions, [run |-> r, status |-> s])
                /\ lost' = IF s = "malformed" THEN lost \cup {r} ELSE lost
       \/ lost' = lost \cup {r} /\ UNCHANGED completions
    /\ UNCHANGED <<replyCount, rowVars, round, lastRun, postOf, applyVars, interrupts,
                   noted, excused, contested>>

-----------------------------------------------------------------------------
(* run_comment_round                                                       *)

\* Not queued_recently.
Free(x) == ~queuedRecently[x]

(* The select of _candidates and the layers that pick among its rows: some *)
(* of the posts that are free, with their reply_count as of now.           *)
StartRound(k) ==
    /\ round[k].at = "idle"
    /\ \E picks \in (SUBSET {x \in Posts : Free(x)}) \ {{}} :
          /\ round' = [round EXCEPT ![k] =
                          [at |-> "mark", todo |-> picks, run |-> NoRun, seen |-> replyCount]]
          /\ contested' = contested \cup UNION {picks \cap round[j].todo : j \in Rounds \ {k}}
    /\ UNCHANGED <<replyCount, rowVars, lastRun, jobVars, applyVars, interrupts, noted,
                   lost, excused>>

KeepLease == UNCHANGED <<queuedRun, queuedReplies, queuedRecently>>

\* On with the picks that are left, or the end of the round.
GoOn(k, left) ==
    round' = [round EXCEPT ![k] =
                 IF left = {} THEN Idle
                 ELSE [at |-> "mark", todo |-> left, run |-> NoRun, seen |-> round[k].seen]]

\* The run at hand of a round moves on to its next step.
GoTo(k, place, r, left) ==
    round' = [round EXCEPT ![k] = [at |-> place, todo |-> left, run |-> r, seen |-> round[k].seen]]

(* _mark_queued.  D1 answers, or does not: then nothing is published for   *)
(* the pick, and the lease may have been written all the same.             *)
MarkQueued(k, x) ==
    LET r    == lastRun + 1
        left == round[k].todo \ {x}
        seen == round[k].seen[x]
    IN  /\ round[k].at = "mark" /\ x \in round[k].todo
        /\ r \in Runs
        /\ lastRun' = r
        /\ postOf' = [postOf EXCEPT ![r] = x]
        /\ \/ /\ queuedRun' = [queuedRun EXCEPT ![x] = r]
              /\ queuedReplies' = [queuedReplies EXCEPT ![x] = seen]
              /\ queuedRecently' = [queuedRecently EXCEPT ![x] = TRUE]
              /\ noted' = [noted EXCEPT ![r] = seen]
              /\ \/ GoTo(k, "publish", r, left) /\ UNCHANGED lost
                 \/ GoOn(k, left) /\ lost' = lost \cup {r}
           \/ GoOn(k, left) /\ KeepLease /\ UNCHANGED <<noted, lost>>
        /\ UNCHANGED <<replyCount, crawledReplies, job, completions, applyVars, interrupts,
                       excused, contested>>

(* publish_comments_crawl_request.  The message is sent; or Kafka fails,   *)
(* with the message delivered or not; or it is sent and enqueue_published  *)
(* raises RedisError, which ends the round.                                *)
Publish(k) ==
    LET r    == round[k].run
        sent == job' = [job EXCEPT ![r] = "queued"]
    IN  /\ round[k].at = "publish"
        /\ \/ sent /\ GoOn(k, round[k].todo)
           \/ sent /\ GoOn(k, {})
           \/ (sent \/ UNCHANGED job) /\ GoTo(k, "release", r, round[k].todo)
        /\ UNCHANGED <<replyCount, rowVars, lastRun, postOf, completions, applyVars,
                       interrupts, historyVars>>

\* Mutant: only comments_queued_run_id is set back to NULL.
ClearLeaseHalf(x) ==
    /\ queuedRun' = [queuedRun EXCEPT ![x] = NoRun]
    /\ UNCHANGED <<queuedReplies, queuedRecently>>

\* The three columns of the lease are set back to NULL.
ClearLease(x) ==
    /\ queuedRun' = [queuedRun EXCEPT ![x] = NoRun]
    /\ queuedReplies' = [queuedReplies EXCEPT ![x] = 0]
    /\ queuedRecently' = [queuedRecently EXCEPT ![x] = FALSE]

\* Mutant: the run_id is not compared.
OwnsLeaseAny(r, x) == queuedRun[x] # NoRun

\* comments_queued_run_id = run_id
OwnsLease(r, x) == queuedRun[x] = r

\* _release_queued: the lease is still this run's, or nothing happens.
ReleaseQueued(k) ==
    LET r == round[k].run
        x == postOf[r]
    IN  /\ round[k].at = "release"
        /\ GoOn(k, round[k].todo)
        /\ \/ /\ IF OwnsLease(r, x) THEN ClearLease(x) ELSE KeepLease
              /\ excused' = excused \cup {r}
              /\ UNCHANGED lost
           \/ KeepLease /\ lost' = lost \cup {r} /\ UNCHANGED excused
        /\ UNCHANGED <<replyCount, crawledReplies, lastRun, jobVars, applyVars, interrupts,
                       noted, contested>>

\* The process of a round is killed.
KillRound(k) ==
    /\ round[k].at # "idle"
    /\ interrupts < Interrupts
    /\ interrupts' = interrupts + 1
    /\ round' = [round EXCEPT ![k] = Idle]
    /\ lost' = IF round[k].at = "mark" THEN lost ELSE lost \cup {round[k].run}
    /\ UNCHANGED <<replyCount, rowVars, lastRun, jobVars, applyVars, noted, excused,
                   contested>>

-----------------------------------------------------------------------------
(* apply_comment_completions                                               *)

\* Mutant: the count as of now, whoever holds the lease.
CrawledCountNow(r, x) == replyCount[x]

\* The CASE of comments_crawled_replies.
CrawledCount(r, x) == IF OwnsLease(r, x) THEN queuedReplies[x] ELSE replyCount[x]

\* Mutant: a job that was skipped leaves its lease alone.
ReleasesDone(status) == status = "done"

\* The lease goes with any job that has ended.
Releases(status) == status \in {"done", "skipped"}

(* _apply_completion: one UPDATE of the row of the post.  When D1 does not *)
(* answer, the statement has landed or not, and the tick goes on later.    *)
ApplyCompletion ==
    LET c == Head(completions)
        x == postOf[c.run]
    IN  /\ completions # <<>> /\ ~applying
        /\ c.status # "malformed"
        /\ IF Releases(c.status) /\ OwnsLease(c.run, x) THEN ClearLease(x) ELSE KeepLease
        /\ crawledReplies' = IF c.status = "done"
                             THEN [crawledReplies EXCEPT ![x] = CrawledCount(c.run, x)]
                             ELSE crawledReplies
        /\ applied' = applied \cup {c.run}
        /\ applying' \in BOOLEAN
        /\ UNCHANGED <<replyCount, round, lastRun, jobVars, interrupts, historyVars>>

\* Mutant: what cannot be read stays at the head of the list.
ReadyToRemoveApplied == applying

\* The completion is in D1, or it is malformed and will never be.
ReadyToRemove == applying \/ Head(completions).status = "malformed"

\* lrem of the completion at the end of the list.
RemoveCompletion ==
    /\ completions # <<>> /\ ReadyToRemove
    /\ completions' = Tail(completions)
    /\ applying' = FALSE
    /\ UNCHANGED <<replyCount, rowVars, round, lastRun, job, postOf, applied, interrupts,
                   historyVars>>

\* The tick is cancelled, or Redis fails, between the UPDATE and the lrem.
CancelTick ==
    /\ applying
    /\ interrupts < Interrupts
    /\ interrupts' = interrupts + 1
    /\ applying' = FALSE
    /\ UNCHANGED <<replyCount, rowVars, round, lastRun, jobVars, applied, historyVars>>

-----------------------------------------------------------------------------
Next ==
    \/ \E x \in Posts : Grow(x) \/ Expire(x) \/ PublishByHand(x)
    \/ \E r \in Runs : EndJob(r)
    \/ \E k \in Rounds, x \in Posts : MarkQueued(k, x)
    \/ \E k \in Rounds :
          StartRound(k) \/ Publish(k) \/ ReleaseQueued(k) \/ KillRound(k)
    \/ ApplyCompletion \/ RemoveCompletion \/ CancelTick

Spec == Init /\ [][Next]_vars

(* The scheduler ticks every 30 seconds and D1 answers it now and then; a  *)
(* completion D1 keeps refusing stays where it is, and all behind it.      *)
Fairness == SF_vars(ApplyCompletion /\ applying') /\ WF_vars(RemoveCompletion)

FairSpec == Spec /\ Fairness

-----------------------------------------------------------------------------
(* Properties.                                                             *)

\* The columns of a lease are set and cleared together.
LeaseWhole ==
    \A x \in Posts :
        queuedRun[x] = NoRun => ~queuedRecently[x] /\ queuedReplies[x] = 0

RowsOK ==
    /\ replyCount \in [Posts -> Replies]
    /\ queuedRun \in [Posts -> Runs \cup {NoRun}]
    /\ queuedReplies \in [Posts -> Replies]
    /\ queuedRecently \in [Posts -> BOOLEAN]
    /\ crawledReplies \in [Posts -> Replies]
    /\ LeaseWhole

Places == [at : {"idle", "mark", "publish", "release"}, todo : SUBSET Posts,
           run : Runs \cup {NoRun}, seen : [Posts -> Replies]]

JobsOK ==
    /\ lastRun \in 0 .. MaxRuns
    /\ job \in [Runs -> {"new", "queued", "ended"}]
    /\ postOf \in [Runs -> Posts]
    /\ noted \in [Runs -> Replies \cup {NoLease}]
    /\ interrupts \in 0 .. Interrupts

Completions == [run : Runs, status : Statuses]

CompletionsOK ==
    /\ completions \in Seq(Completions)
    /\ applying \in BOOLEAN

HistoryOK ==
    /\ lost \subseteq Runs \cup {NoRun}
    /\ excused \subseteq Runs \cup {NoRun}
    /\ applied \subseteq Runs
    /\ contested \subseteq Posts

TypeOK ==
    /\ RowsOK
    /\ round \in [Rounds -> Places]
    /\ JobsOK
    /\ CompletionsOK
    /\ HistoryOK

\* A run of the planner that has had its post, and its lease, for itself.
Undisturbed(r) == noted[r] # NoLease /\ r \notin excused /\ postOf[r] \notin contested

(* "tin hieu muon cua job cu, hay cua mot lan bam tay tren dashboard, khong*)
(* duoc xoa lease cua job khac": while its job is queued or running, a run *)
(* keeps the lease on its post, so that no round queues the post again;    *)
(* only the expiry of the lease, a publish reported as failed and two      *)
(* overlapping rounds can take it away.                                    *)
QueuedHoldsLease ==
    \A r \in Runs :
        (job[r] = "queued" /\ Undisturbed(r)) =>
            queuedRun[postOf[r]] = r /\ queuedRecently[postOf[r]]

(* A post is not kept from the rounds for nothing: the holder of a lease   *)
(* is being published, queued, running or about to be reported; or it is   *)
(* lost, for one of four reasons: its completion is lost or unreadable, D1 *)
(* left the mark or the release unanswered, or its round was killed.       *)
LeaseIsAccounted ==
    \A x \in Posts : queuedRecently[x] =>
        LET r == queuedRun[x]
        IN  \/ \E k \in Rounds : round[k].run = r
            \/ job[r] = "queued"
            \/ \E i \in 1 .. Len(completions) : completions[i].run = r
            \/ r \in lost

(* What comes in while a post is being crawled counts as new at the next   *)
(* round: a finished crawl records the reply_count its pick was made on,   *)
(* not the one the row has by then.                                        *)
CountsWhatWasQueued ==
    [][\A r \in Runs :
          ( /\ r \in applied' \ applied /\ Undisturbed(r)
            /\ Head(completions).status = "done" ) =>
                crawledReplies'[postOf[r]] = noted[r]]_vars

(* "Ghi lai la vo hai": a completion applied to D1 once more, because its  *)
(* answer or the tick that waited for it was lost, changes nothing.        *)
ReapplyHarmless ==
    [][\A r \in applied :
          (completions # <<>> /\ Head(completions).run = r /\ Undisturbed(r)) =>
              crawledReplies'[postOf[r]] = crawledReplies[postOf[r]]]_vars

(* Every completion leaves the list: none waits for ever behind one that   *)
(* cannot be read, that D1 left unanswered or whose tick was cancelled.    *)
EveryCompletionHandled ==
    \A r \in Runs :
        (\E i \in 1 .. Len(completions) : completions[i].run = r)
            ~> (\A i \in 1 .. Len(completions) : completions[i].run # r)

-----------------------------------------------------------------------------
(* The inductive invariant behind the three safety properties.             *)

\* A run_id is made once, and known to nobody before.
RunsAreMade ==
    /\ \A r \in Runs : r > lastRun => job[r] = "new" /\ noted[r] = NoLease
    /\ \A x \in Posts : queuedRun[x] <= lastRun
    /\ \A k \in Rounds : round[k].run <= lastRun

\* The lease in a row is that of a run for this post.
LeaseOfPost == \A x \in Posts : queuedRun[x] # NoRun => postOf[queuedRun[x]] = x

\* What a round holds at each of its places.
RoundShape ==
    /\ \A k \in Rounds :
          /\ round[k].at = "idle" => round[k].todo = {}
          /\ round[k].at \in {"idle", "mark"} <=> round[k].run = NoRun
          /\ round[k].run # NoRun => noted[round[k].run] # NoLease
          /\ round[k].at = "publish" => job[round[k].run] = "new"
    /\ \A j, k \in Rounds : (round[j].run = round[k].run /\ round[j].run # NoRun) => j = k

\* Completions are of jobs that have ended; an unreadable one loses its run.
CompletionsEnded ==
    /\ \A i \in 1 .. Len(completions) :
          /\ job[completions[i].run] = "ended"
          /\ completions[i].status = "malformed" => completions[i].run \in lost
    /\ \A r \in applied : job[r] = "ended"

\* A completion that is in D1 has given its lease back.
AppliedReleased ==
    applying =>
        /\ completions # <<>>
        /\ queuedRun[postOf[Head(completions).run]] # Head(completions).run

\* A pick that is not contested is one round's, and free until it marks it.
TodoFree ==
    \A k \in Rounds : \A x \in round[k].todo \ contested :
        /\ ~queuedRecently[x]
        /\ \A j \in Rounds : x \in round[j].todo => j = k

\* Run r has its lease, with the count it was taken on.
HasLease(r) ==
    /\ queuedRun[postOf[r]] = r
    /\ queuedRecently[postOf[r]]
    /\ queuedReplies[postOf[r]] = noted[r]

\* A run has its lease from the mark until its completion is in D1.
LeaseKept ==
    /\ \A r \in Runs \ applied :
          (job[r] # "new" /\ Undisturbed(r)) => HasLease(r)
    /\ \A k \in Rounds :
          (round[k].at = "publish" /\ Undisturbed(round[k].run)) => HasLease(round[k].run)

IInv ==
    /\ TypeOK
    /\ RunsAreMade
    /\ LeaseOfPost
    /\ RoundShape
    /\ CompletionsEnded
    /\ AppliedReleased
    /\ TodoFree
    /\ LeaseKept
    /\ LeaseIsAccounted
=============================================================================
