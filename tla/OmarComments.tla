----------------------------- MODULE OmarComments -----------------------------
(***************************************************************************)
(* Comments of TikTok videos through the Omar API                          *)
(* (app/services/omar/omar_comments.py).  Once a day the videos worth it   *)
(* are put in a queue in Redis, one job per video; the rounds work at the  *)
(* queue, several videos at a time, and save how far each has come.  A     *)
(* comment goes to Kafka if it is not yet in the set of the seen ones.     *)
(***************************************************************************)
EXTENDS Naturals, FiniteSets

CONSTANTS
    Videos,
    LastComment,  \* a video has the pages 0 .. LastComment, of one comment each
    Threads,      \* pages whose comment has replies
    MaxSlipUps    \* bound: errors, halts of a round, restarts

ASSUME OmarCommentsAssumption ==
    /\ LastComment \in Nat /\ Threads \subseteq 0 .. LastComment /\ MaxSlipUps \in Nat

VARIABLES
    jobs,      \* Redis: jobs[v], the job of v in omar:comments:jobs, in a set
    weekKey,   \* Redis: omar:comments:week is today
    enqLock,   \* Redis: omar:comments:enqueuing
    seen,      \* Redis: tiktok:seen_comment_ids
    inKafka,   \* comments sent to raw_comments
    worth,     \* D1: videos of the last 7 days, with comments, among the top of a hashtag
    marked,    \* D1: videos with an omar reason in comments_crawl_reason
    enqueue,   \* the enqueue under way: where it is, the keys it has read, what it has chosen
    tape,      \* videos in the asyncio.Queue of process_queue
    crew,      \* crew[v]: the worker at v: where it is, its job, its batch
    working,   \* process_queue runs
    slipUps

commentVars == <<jobs, weekKey, enqLock, seen, inKafka, worth, marked, enqueue, tape, crew, working, slipUps>>

CommentPages == 0 .. LastComment
CommentIds   == Videos \X CommentPages \X {"top", "reply"}
CommentsOf(v) ==
    {<<v, p, "top">> : p \in CommentPages} \cup {<<v, p, "reply">> : p \in Threads}

\* page: the cursor.  replied: whether the replies of this page are had.  got: history, what the
\* job has had so far.
NewJob     == [page |-> 0, replied |-> FALSE, got |-> {}]
NoWorker   == [at |-> "away", job |-> NewJob, batch |-> {}]
NoEnqueue  == [at |-> "none", chosen |-> {}]

OmarCommentsInit ==
    /\ jobs = [v \in Videos |-> {}] /\ weekKey = FALSE /\ enqLock = FALSE /\ seen = {}
    /\ inKafka = {} /\ worth \in SUBSET Videos /\ marked = {} /\ enqueue = NoEnqueue /\ tape = {}
    /\ crew = [v \in Videos |-> NoWorker] /\ working = FALSE /\ slipUps = 0

SlipUp == slipUps < MaxSlipUps /\ slipUps' = slipUps + 1

enqueueVars == <<weekKey, enqLock, enqueue>>
workVars    == <<tape, crew, working>>

-----------------------------------------------------------------------------
(* weekly_enqueue_due and enqueue_weekly_job                               *)

BeginEnqueue ==
    /\ ~weekKey /\ ~enqLock /\ enqueue.at = "none"
    /\ enqLock' = TRUE /\ enqueue' = [NoEnqueue EXCEPT !.at = "choose"]
    /\ UNCHANGED <<jobs, weekKey, seen, inKafka, worth, marked, workVars, slipUps>>

\* The keys of the queue are read, and then D1.  _top_videos takes no answer for no videos.
Choose ==
    /\ enqueue.at = "choose"
    /\ \E top \in {worth \ marked, {}} :
        /\ IF top = worth \ marked THEN UNCHANGED slipUps ELSE SlipUp
        /\ enqueue' = [at |-> "put", chosen |-> {v \in top : jobs[v] = {}}]
    /\ UNCHANGED <<jobs, weekKey, enqLock, seen, inKafka, worth, marked, workVars>>

\* hset of the new jobs, over whatever was put there meanwhile.
Put ==
    /\ enqueue.at = "put" /\ enqueue' = [enqueue EXCEPT !.at = "week"]
    /\ jobs' = [v \in Videos |-> IF v \in enqueue.chosen THEN {NewJob} ELSE jobs[v]]
    /\ UNCHANGED <<weekKey, enqLock, seen, inKafka, worth, marked, workVars, slipUps>>

SetWeek ==
    /\ enqueue.at = "week" /\ enqueue' = NoEnqueue /\ weekKey' = TRUE
    /\ UNCHANGED <<jobs, enqLock, seen, inKafka, worth, marked, workVars, slipUps>>

\* D1 or Redis fails: the lock stays.
EnqueueFails ==
    /\ enqueue.at # "none" /\ SlipUp /\ enqueue' = NoEnqueue
    /\ UNCHANGED <<jobs, weekKey, enqLock, seen, inKafka, worth, marked, workVars>>

\* Mutant: the lock has no time to live.
LockStays == FALSE

\* 15 minutes.
LockExpires == enqLock

LockEnds ==
    /\ LockExpires /\ enqLock' = FALSE
    /\ UNCHANGED <<jobs, weekKey, seen, inKafka, worth, marked, enqueue, workVars, slipUps>>

Tomorrow ==
    /\ weekKey /\ weekKey' = FALSE
    /\ UNCHANGED <<jobs, enqLock, seen, inKafka, worth, marked, enqueue, workVars, slipUps>>

\* Time passes, and others post: a video grows old, is overtaken by others, or comes up again.
WorthChanges ==
    /\ worth' \in SUBSET Videos
    /\ UNCHANGED <<jobs, enqueueVars, seen, inKafka, marked, workVars, slipUps>>

\* _NEEDS_CRAWL_SQL: the spider crawled the video and left its own reason, or many comments came.
NeedsCrawl(v) ==
    /\ v \in marked /\ SlipUp /\ marked' = marked \ {v}
    /\ UNCHANGED <<jobs, enqueueVars, seen, inKafka, worth, workVars>>

\* enqueue_videos: omar_trending adds a rising video that has no job, marked or not.
EnqueueVideo(v) ==
    /\ SlipUp /\ jobs[v] = {} /\ jobs' = [jobs EXCEPT ![v] = {NewJob}]
    /\ UNCHANGED <<enqueueVars, seen, inKafka, worth, marked, workVars>>

-----------------------------------------------------------------------------
(* process_queue, _publish                                                 *)

OpenQueue ==
    /\ ~working /\ working' = TRUE /\ tape' = {v \in Videos : jobs[v] # {}} /\ tape' # {}
    /\ crew' = [v \in Videos |-> IF v \in tape' THEN [NoWorker EXCEPT !.job = CHOOSE j \in jobs[v] : TRUE]
                                 ELSE NoWorker]
    /\ UNCHANGED <<jobs, enqueueVars, seen, inKafka, worth, marked, slipUps>>

CloseQueue ==
    /\ working /\ tape = {} /\ \A v \in Videos : crew[v].at = "away"
    /\ working' = FALSE
    /\ UNCHANGED <<jobs, enqueueVars, seen, inKafka, worth, marked, tape, crew, slipUps>>

\* No more budget, the Stop button or OmarStop: no job is begun, and each worker leaves when it
\* wants its next answer.
Halt ==
    /\ working /\ SlipUp /\ tape' = {}
    /\ crew' = [v \in Videos |-> IF crew[v].at = "ask" THEN NoWorker ELSE crew[v]]
    /\ UNCHANGED <<jobs, enqueueVars, seen, inKafka, worth, marked, working>>

Begin(v) ==
    /\ v \in tape /\ tape' = tape \ {v}
    /\ crew' = [crew EXCEPT ![v].at = "ask"]
    /\ UNCHANGED <<jobs, enqueueVars, seen, inKafka, worth, marked, working, slipUps>>

restOfComments == <<enqueueVars, worth, marked, tape, working>>

\* The next answer wanted: the comments of the page, then the replies to them.
Wanted(v) ==
    LET j == crew[v].job IN
    IF <<v, j.page, "top">> \in crew[v].batch THEN <<v, j.page, "reply">> ELSE <<v, j.page, "top">>

\* _publish: SADD of all of them, before anything is sent.
Answered(v) ==
    /\ crew[v].at = "ask"
    /\ crew' = [crew EXCEPT ![v] = [at |-> IF Wanted(v) \in seen THEN "sent" ELSE "send",
                                    job |-> [crew[v].job EXCEPT !.got = crew[v].job.got \cup {Wanted(v)}],
                                    batch |-> crew[v].batch \cup {Wanted(v)}]]
    /\ seen' = seen \cup {Wanted(v)}
    /\ UNCHANGED <<restOfComments, jobs, inKafka, slipUps>>

Newest(v) ==
    LET j == crew[v].job IN
    IF <<v, j.page, "reply">> \in crew[v].batch THEN <<v, j.page, "reply">> ELSE <<v, j.page, "top">>

Sent(v) ==
    /\ crew[v].at = "send" /\ crew' = [crew EXCEPT ![v].at = "sent"]
    /\ inKafka' = inKafka \cup {Newest(v)}
    /\ UNCHANGED <<restOfComments, jobs, seen, slipUps>>

\* KafkaError: SREM, so that the comment is sent another time.
NotSent(v) ==
    /\ crew[v].at = "send" /\ SlipUp /\ crew' = [crew EXCEPT ![v].at = "sent"]
    /\ inKafka' \in {inKafka, inKafka \cup {Newest(v)}} /\ seen' = seen \ {Newest(v)}
    /\ UNCHANGED <<restOfComments, jobs>>

\* After the comments of a page come the replies, if the job has not had them.
AskReplies(v) ==
    LET j == crew[v].job IN
    /\ crew[v].at = "sent" /\ Newest(v)[3] = "top" /\ j.page \in Threads /\ ~j.replied
    /\ crew' = [crew EXCEPT ![v].at = "ask"]
    /\ UNCHANGED <<restOfComments, jobs, seen, inKafka, slipUps>>

\* Which replies the page still needs is saved after each thread.
SaveReplied(v) ==
    LET j == [crew[v].job EXCEPT !.replied = TRUE] IN
    /\ crew[v].at = "sent" /\ Newest(v)[3] = "reply" /\ ~crew[v].job.replied
    /\ crew' = [crew EXCEPT ![v].job = j] /\ jobs' = [jobs EXCEPT ![v] = {j}]
    /\ UNCHANGED <<restOfComments, seen, inKafka, slipUps>>

\* Mutant: the list of the comments whose replies are had is kept for the next page.
KeepsReplied(j) == [j EXCEPT !.page = @ + 1]

\* replied = [] with the next cursor.
NextPage(j) == [j EXCEPT !.page = @ + 1, !.replied = FALSE]

PageDone(v) == crew[v].at = "sent" /\ (crew[v].job.page \in Threads => crew[v].job.replied)

SaveCursor(v) ==
    /\ PageDone(v) /\ crew[v].job.page < LastComment
    /\ LET j == NextPage(crew[v].job) IN
        crew' = [crew EXCEPT ![v] = [at |-> "ask", job |-> j, batch |-> {}]] /\ jobs' = [jobs EXCEPT ![v] = {j}]
    /\ UNCHANGED <<restOfComments, seen, inKafka, slipUps>>

\* hdel, and then the UPDATE of the post.
DeleteJob(v) ==
    /\ PageDone(v) /\ crew[v].job.page = LastComment
    /\ jobs' = [jobs EXCEPT ![v] = {}] /\ crew' = [crew EXCEPT ![v].at = "mark"]
    /\ UNCHANGED <<restOfComments, seen, inKafka, slipUps>>

\* d1_query is quiet: what it answers is not looked at.
MarkPost(v) ==
    /\ crew[v].at = "mark" /\ crew' = [crew EXCEPT ![v] = NoWorker]
    /\ \/ marked' = marked \cup {v} /\ UNCHANGED slipUps
       \/ SlipUp /\ UNCHANGED marked
    /\ UNCHANGED <<jobs, enqueueVars, seen, inKafka, worth, tape, working>>

\* 404: Omar has no such video, so that there is nothing more to have.
VideoGone(v) ==
    /\ crew[v].at = "ask" /\ crew[v].batch = {} /\ SlipUp
    /\ jobs' = [jobs EXCEPT ![v] = {}]
    /\ crew' = [crew EXCEPT ![v] = [at |-> "mark", job |-> [crew[v].job EXCEPT !.got = CommentsOf(v)], batch |-> {}]]
    /\ UNCHANGED <<restOfComments, seen, inKafka>>

\* An error: the job stays in the queue, as it was saved last.
WorkerFails(v) ==
    /\ crew[v].at \in {"ask", "sent"} /\ SlipUp /\ crew' = [crew EXCEPT ![v] = NoWorker]
    /\ UNCHANGED <<restOfComments, jobs, seen, inKafka>>

RestartComments ==
    /\ SlipUp /\ enqueue' = NoEnqueue /\ tape' = {} /\ working' = FALSE
    /\ crew' = [v \in Videos |-> NoWorker]
    /\ UNCHANGED <<jobs, weekKey, enqLock, seen, inKafka, worth, marked>>

WorkerStep(v) ==
    \/ Begin(v) \/ Answered(v) \/ Sent(v) \/ AskReplies(v) \/ SaveReplied(v) \/ SaveCursor(v)
    \/ DeleteJob(v) \/ MarkPost(v)

EnqueueStep == BeginEnqueue \/ Choose \/ Put \/ SetWeek

OmarCommentsNext ==
    \/ EnqueueStep \/ EnqueueFails \/ LockEnds \/ Tomorrow \/ OpenQueue \/ CloseQueue \/ Halt
    \/ RestartComments \/ WorthChanges
    \/ \E v \in Videos : NeedsCrawl(v) \/ EnqueueVideo(v) \/ WorkerStep(v) \/ NotSent(v) \/ VideoGone(v) \/ WorkerFails(v)

\* The scheduler ticks, rounds come and work at the queue, and the days pass.  Nothing says how
\* long a video stays worth it.
OmarCommentsFairness ==
    /\ WF_commentVars(EnqueueStep) /\ WF_commentVars(LockEnds) /\ WF_commentVars(Tomorrow)
    /\ WF_commentVars(OpenQueue) /\ WF_commentVars(CloseQueue)
    /\ WF_commentVars(\E v \in Videos : WorkerStep(v))

OmarCommentsSpec == OmarCommentsInit /\ [][OmarCommentsNext]_commentVars /\ OmarCommentsFairness

-----------------------------------------------------------------------------
(* Properties                                                              *)

Job == [page : CommentPages, replied : BOOLEAN, got : SUBSET CommentIds]

OmarCommentsTypeOK ==
    /\ jobs \in [Videos -> SUBSET Job]
    /\ weekKey \in BOOLEAN /\ enqLock \in BOOLEAN /\ working \in BOOLEAN /\ slipUps \in 0 .. MaxSlipUps
    /\ seen \subseteq CommentIds /\ inKafka \subseteq CommentIds /\ worth \subseteq Videos /\ marked \subseteq Videos /\ tape \subseteq Videos
    /\ enqueue \in [at : {"none", "choose", "put", "week"}, chosen : SUBSET Videos]
    /\ crew \in [Videos -> [at : {"away", "ask", "send", "sent", "mark"}, job : Job, batch : SUBSET CommentIds]]

\* A video is taken off the queue, and marked, only when every page and every thread of replies
\* was answered, over all the rounds, halts, errors and restarts it took, and although an enqueue
\* may have put a new job over the one a worker is at.
FinishedIsRead == \A v \in Videos : crew[v].at = "mark" => crew[v].job.got = CommentsOf(v)

\* A video that stays worth its comments is crawled and marked some day: a failed enqueue, a
\* SELECT or an UPDATE that is lost, a worker that fails, or a restart between the queue and D1
\* puts it off to an enqueue of a later day, which finds it only as long as it is worth it.  A job
\* that is in the queue is worked off whether the video is still worth it or not.
VideoGetsMarked ==
    \A v \in Videos :
        /\ v \notin marked ~> v \in marked \/ v \notin worth
        /\ jobs[v] # {} ~> jobs[v] = {}

\* What is in the set of seen comments comes to Kafka, or out of the set again: nobody sends a
\* comment that is there.
SeenComesToKafka == \A c \in CommentIds : c \in seen ~> c \in inKafka \/ c \notin seen
=============================================================================
