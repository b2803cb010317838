--------------------------- MODULE IngestConsumer ---------------------------
(***************************************************************************)
(* The ingest consumer (app/workers/ingest_consumer/main.py): one process  *)
(* with a reading loop for raw_posts and one for raw_comments.  A loop     *)
(* turns every record it reads into an asyncio task; the task runs the     *)
(* handler under the topic's semaphore, sleeps and retries on failure,     *)
(* falls back to the ingest_dead_letters topic, and then reports to the    *)
(* _OffsetTracker, whose contiguous prefix of finished offsets is what is  *)
(* committed.  A step is what runs between two awaits.                     *)
(*                                                                         *)
(* Around it: a broker that may lose or reorder commits, rebalance the     *)
(* group and fail; a D1 that may be unavailable, refuse a statement for    *)
(* good (a 400, which d1_strict lets through as None) or apply a write     *)
(* whose answer is lost; and systemd.                                      *)
(***************************************************************************)
EXTENDS Integers, Sequences, FiniteSets

CONSTANTS
    Partitions,         \* the assigned partitions of both topics
    PostPartitions,     \* those of raw_posts; the others are of raw_comments
    LogLen,             \* bound: records ever produced to a partition
    Posts,              \* external ids of posts
    KindOf,             \* KindOf[p][o]: what the handler makes of a record
    PostOf,             \* PostOf[p][o]: its post, or the parent of its comment
    Concurrency,        \* Concurrency[t]: the semaphore of a topic
    InfraRetries,       \* Len of _INFRA_RETRY_DELAYS
    ParentRetries,      \* Len of _PARENT_RETRY_DELAYS
    UnexpectedRetries,  \* Len of _UNEXPECTED_RETRY_DELAYS
    MemoCap,            \* entries of _missing_parents before it is cleared
    NoOffset,           \* "no committed offset"
    InitCommitted,      \* InitCommitted[p]: the group's offset to begin with
    Legacy,             \* Legacy[p]: the retired group's committed offset
    InitLogEnd,         \* InitLogEnd[p]: records in the log to begin with
    MaxCrashes,         \* bound: kills of the process
    MaxRebalances,      \* bound: rebalances in one life of the process
    MaxMisreads,        \* bound: reads that fail and are taken for an answer
    BrokerMayFail       \* whether a loop may meet a KafkaError

Topics  == {"raw_posts", "raw_comments"}
Offsets == 0 .. LogLen - 1
Epochs  == 0 .. MaxRebalances

(* keep: stored.  norow: a post that is accepted and leaves no row, its    *)
(* content being too short or its record carrying metrics only.  listed:   *)
(* stored because a list the process keeps names it, and refused by the    *)
(* gates otherwise: a booking, or what goes by the name or another keyword *)
(* of a film.  drop: refused by a gate; for a comment, before D1 is asked  *)
(* for its parent.  nokey: no external_id.  poison: the handler raises.    *)
(* undecodable: the value_deserializer raises, in the loop.                *)
Kinds == {"keep", "norow", "listed", "drop", "nokey", "poison", "undecodable"}

ASSUME ConsumerAssumption ==
    /\ PostPartitions \subseteq Partitions
    /\ LogLen \in Nat
    /\ KindOf \in [Partitions -> [Offsets -> Kinds]]
    /\ \A p \in Partitions \ PostPartitions, o \in Offsets : KindOf[p][o] \notin {"norow", "listed"}
    /\ PostOf \in [Partitions -> [Offsets -> Posts]]
    /\ Concurrency \in [Topics -> Nat \ {0}]
    /\ InfraRetries \in Nat /\ ParentRetries \in Nat /\ UnexpectedRetries \in Nat
    /\ MemoCap \in Nat
    /\ NoOffset \notin Int
    /\ InitLogEnd \in [Partitions -> 0 .. LogLen]
    /\ {InitCommitted, Legacy} \subseteq [Partitions -> (0 .. LogLen) \cup {NoOffset}]
    /\ \A p \in Partitions :
          {InitCommitted[p], Legacy[p]} \subseteq (0 .. InitLogEnd[p]) \cup {NoOffset}
    /\ MaxCrashes \in Nat /\ MaxRebalances \in Nat
    /\ MaxMisreads \in Nat
    /\ BrokerMayFail \in BOOLEAN

VARIABLES
    \* the broker
    logEnd,         \* logEnd[p]: records produced so far
    committed,      \* committed[p]: the group's committed offset
    \* what lasts
    outcome,        \* outcome[p][o]: every outcome the record has had
    posts,          \* posts with a row in D1
    first,          \* first[p]: where the group began reading p (history)
    refusals,       \* reads D1 has refused for good (history)
    shortages,      \* readings of the lists that have come out short (history)
    \* the process
    proc,           \* up, failed (exit status # 0) or exited (status 0)
    crashes,        \* kills so far
    loop,           \* loop[t]: whether topic t's loop is reading
    epoch,          \* epoch[t]: rebalances of t's consumer in this life
    position,       \* position[p]: next offset the loop will read
    task,           \* task[d]: the asyncio task of a delivery
    dispatched,     \* _OffsetTracker._dispatched
    finished,       \* _OffsetTracker._finished
    memo,           \* _missing_parents
    lists           \* _token_cache and _tracked_movies_cache: whole, or short of what D1 has

brokerVars  == <<logEnd, committed>>
history     == <<first, refusals, shortages>>
lastVars    == <<outcome, posts, history>>
loopVars    == <<loop, epoch, position>>
trackerVars == <<dispatched, finished>>
memory      == <<memo, lists>>
procVars    == <<proc, crashes, loopVars, task, trackerVars, memory>>
vars        == <<brokerVars, lastVars, procVars>>

-----------------------------------------------------------------------------
TopicOf(p) == IF p \in PostPartitions THEN "raw_posts" ELSE "raw_comments"

(* A delivery is a record handed to the loop, told apart by the epoch of   *)
(* the consumer: a rebalance makes the broker hand out again what is not   *)
(* committed, while the tasks of the earlier delivery are still alive.     *)
Deliveries == Partitions \X Offsets \X Epochs

States == {"none", "wait", "lookup", "write", "sleep", "letter", "report", "commit"}
Faults == {"no", "infra", "parent", "other"}
NoTask == [st |-> "none", attempt |-> 0, exc |-> "no", next |-> 0]
NewTask == [NoTask EXCEPT !.st = "wait"]
CommitTask(n) == [st |-> "commit", attempt |-> 0, exc |-> "no", next |-> n]

\* attempt counts the delays slept, next is the offset being committed.
Tasks == [st : States, attempt : Nat, exc : Faults, next : Nat]

PendingOf(t) == {d \in Deliveries : TopicOf(d[1]) = t /\ task[d].st # "none"}
Holding(t)   == {d \in PendingOf(t) : task[d].st \in {"lookup", "write"}}
PendingCap(t) == 4 * Concurrency[t]

Kind(d)   == KindOf[d[1]][d[2]]
Post(d)   == PostOf[d[1]][d[2]]
IsPost(d) == d[1] \in PostPartitions
Settled(p, o) == outcome[p][o] # {}

\* Mutant: the retired group is asked first, and whatever it answers is used.
ResumeAtLegacy(p) == Legacy[p]

\* Where the loop resumes p: committed, else the retired group's, else the end.
ResumeAt(p) ==
    IF committed[p] # NoOffset THEN committed[p]
    ELSE IF Legacy[p] # NoOffset THEN Legacy[p] ELSE logEnd[p]

\* The delays left to an exception decide between one more try and the end.
RetriesFor(exc, post) ==
    CASE exc = "parent" -> IF memo[post] = "live" THEN 0 ELSE ParentRetries
      [] exc = "infra"  -> InfraRetries
      [] OTHER          -> UnexpectedRetries

-----------------------------------------------------------------------------
Init ==
    /\ logEnd = InitLogEnd
    /\ committed = InitCommitted
    /\ outcome = [p \in Partitions |-> [o \in Offsets |-> {}]]
    /\ posts = {}
    /\ first = [p \in Partitions |-> NoOffset]
    /\ proc = "up"
    /\ crashes = 0
    /\ loop = [t \in Topics |-> FALSE]
    /\ epoch = [t \in Topics |-> 0]
    /\ position = [p \in Partitions |-> 0]
    /\ task = [d \in Deliveries |-> NoTask]
    /\ dispatched = [p \in Partitions |-> <<>>]
    /\ finished = [p \in Partitions |-> {}]
    /\ memo = [x \in Posts |-> "absent"]
    /\ lists = "whole"
    /\ refusals = 0
    /\ shortages = 0

\* A spider of spider-hub publishes a record.
Produce(p) ==
    /\ logEnd[p] < LogLen
    /\ logEnd' = [logEnd EXCEPT ![p] = @ + 1]
    /\ UNCHANGED <<committed, lastVars, procVars>>

-----------------------------------------------------------------------------
(* The reading loop of a topic.                                            *)

\* consumer.start() and _seed_offsets_from_legacy_group.
StartLoop(t) ==
    /\ proc = "up" /\ ~loop[t]
    /\ loop' = [loop EXCEPT ![t] = TRUE]
    /\ position' = [p \in Partitions |->
                       IF TopicOf(p) = t THEN ResumeAt(p) ELSE position[p]]
    /\ first' = [p \in Partitions |->
                    IF TopicOf(p) = t /\ first[p] = NoOffset
                    THEN ResumeAt(p) ELSE first[p]]
    /\ committed' = [p \in Partitions |->
                        IF TopicOf(p) = t /\ committed[p] = NoOffset
                        THEN Legacy[p] ELSE committed[p]]
    /\ UNCHANGED <<logEnd, outcome, posts, refusals, shortages, proc, crashes, epoch, task, trackerVars, memory>>

\* The loop may read on from p: it is not waiting for room in `pending`.
CanRead(p) ==
    /\ proc = "up" /\ loop[TopicOf(p)]
    /\ position[p] < logEnd[p]
    /\ Cardinality(PendingOf(TopicOf(p))) < PendingCap(TopicOf(p))

\* tracker.dispatched and create_task, with no await between them.
Dispatch(p) ==
    LET o == position[p]
        d == <<p, o, epoch[TopicOf(p)]>>
    IN  /\ CanRead(p)
        /\ KindOf[p][o] # "undecodable"
        /\ dispatched' = [dispatched EXCEPT ![p] = Append(@, o)]
        /\ task' = [task EXCEPT ![d] = NewTask]
        /\ position' = [position EXCEPT ![p] = @ + 1]
        /\ UNCHANGED <<brokerVars, lastVars, proc, crashes, loop, epoch, finished, memory>>

(* The group rebalances and hands the partitions of t back to the same     *)
(* consumer, which reads from the committed offset again.  The program     *)
(* registers no listener: its tasks and its tracker know nothing of it.    *)
Rebalance(t) ==
    /\ proc = "up" /\ loop[t]
    /\ epoch[t] < MaxRebalances
    /\ epoch' = [epoch EXCEPT ![t] = @ + 1]
    /\ position' = [p \in Partitions |->
                       IF TopicOf(p) # t THEN position[p]
                       ELSE IF committed[p] # NoOffset THEN committed[p] ELSE logEnd[p]]
    /\ UNCHANGED <<brokerVars, lastVars, proc, crashes, loop, task, trackerVars, memory>>

-----------------------------------------------------------------------------
(* The process ends, and everything it holds in memory with it.            *)

EndProcess(status) ==
    /\ proc' = status
    /\ loop' = [t \in Topics |-> FALSE]
    /\ epoch' = [t \in Topics |-> 0]
    /\ position' = [p \in Partitions |-> 0]
    /\ task' = [d \in Deliveries |-> NoTask]
    /\ dispatched' = [p \in Partitions |-> <<>>]
    /\ finished' = [p \in Partitions |-> {}]
    /\ memo' = [x \in Posts |-> "absent"]
    /\ lists' = "whole"

Crash ==
    /\ proc = "up"
    /\ crashes < MaxCrashes
    /\ crashes' = crashes + 1
    /\ EndProcess("failed")
    /\ UNCHANGED <<brokerVars, lastVars>>

(* A KafkaError in a loop, starting or reading: the loop logs it, cancels  *)
(* its tasks and returns; _run_loops cancels the other loop and returns,   *)
(* and the interpreter exits with status 0.                                *)
BrokerError ==
    /\ proc = "up"
    /\ BrokerMayFail
    /\ EndProcess("exited")
    /\ UNCHANGED <<brokerVars, lastVars, crashes>>

\* orjson.loads raises in `async for`: not a KafkaError, so _run_loops raises.
DecodeError(p) ==
    /\ CanRead(p)
    /\ KindOf[p][position[p]] = "undecodable"
    /\ EndProcess("failed")
    /\ UNCHANGED <<brokerVars, lastVars, crashes>>

\* systemd, Restart=on-failure.
Restart ==
    /\ proc = "failed"
    /\ proc' = "up"
    /\ UNCHANGED <<brokerVars, lastVars, crashes, loopVars, task, trackerVars, memory>>

-----------------------------------------------------------------------------
(* The task of a delivery: _process_message and _handle_with_retries.      *)

GoTo(d, st) == task' = [task EXCEPT ![d].st = st]

\* The exception has left the semaphore: sleep for the next delay, or give up.
Fail(d, exc) ==
    LET st == IF task[d].attempt >= RetriesFor(exc, Post(d)) THEN "letter" ELSE "sleep"
    IN  /\ task' = [task EXCEPT ![d].st = st, ![d].exc = exc]
        /\ UNCHANGED trackerVars

\* Mutant: `if` for `while`, one offset popped at a time.
DrainableOnce(queue, done, n) == n = 0 \/ (n = 1 /\ queue[1] \in done)

\* Mutant: the highest finished offset, not the highest contiguous one.
DrainableHighest(queue, done, n) == n > 0 => queue[n] \in done

\* The first n dispatched offsets are finished, each once.
Drainable(queue, done, n) ==
    \A i \in 1 .. n : queue[i] \in done /\ \A j \in 1 .. i - 1 : queue[j] # queue[i]

(* _OffsetTracker.finished: pop the finished head of the queue as far as   *)
(* it goes; a popped offset is what the task then commits.                 *)
TrackFinished(d) ==
    LET p     == d[1]
        queue == dispatched[p]
        done  == finished[p] \cup {d[2]}
    IN  \E n \in 0 .. Len(queue) :
          /\ Drainable(queue, done, n)
          /\ n < Len(queue) => ~Drainable(queue, done, n + 1)
          /\ dispatched' = [dispatched EXCEPT ![p] = SubSeq(queue, n + 1, Len(queue))]
          /\ finished' = [finished EXCEPT ![p] = done \ {queue[i] : i \in 1 .. n}]
          /\ task' = [task EXCEPT ![d] =
                         IF n = 0 THEN NoTask ELSE CommitTask(queue[n] + 1)]

HasOutcome(d, out) ==
    outcome' = [outcome EXCEPT ![d[1]][d[2]] = @ \cup {out}]

\* The handler returns: the record is stored or deliberately dropped.
Return(d, out) ==
    /\ HasOutcome(d, out)
    /\ TrackFinished(d)

\* async with semaphore
Acquire(d) ==
    /\ task[d].st = "wait"
    /\ Cardinality(Holding(TopicOf(d[1]))) < Concurrency[TopicOf(d[1])]
    /\ GoTo(d, "lookup")
    /\ UNCHANGED <<brokerVars, lastVars, proc, crashes, loopVars, trackerVars, memory>>

\* Mutant: without d1_strict a read D1 does not answer looks like no row.
NoAnswerLenient(d) == Return(d, "dropped")

\* A read is not answered: d1_strict raises D1Unavailable, Redis RedisError.
NoAnswer(d) == Fail(d, "infra") /\ UNCHANGED outcome

\* The bound on failed reads that are taken for an answer.
MayMisread == refusals + shortages < MaxMisreads

(* The handler of a post goes by lists that it reads, or that a task has   *)
(* read in the last minutes; several may be reading them.  _active_rows    *)
(* takes a failed read for an empty list, _tracked_movies a refused one,   *)
(* and what is then remembered is short until it is read again.            *)
ConsultLists(list) ==
    /\ lists' = list
    /\ \/ list \in {"whole", lists} /\ UNCHANGED shortages
       \/ list = "short" /\ MayMisread /\ shortages' = shortages + 1

\* D1 refuses a read for good.  It looks like no keyword, no film or no parent.
Refused(d) ==
    /\ MayMisread /\ refusals' = refusals + 1
    /\ IF IsPost(d) THEN Return(d, "dropped") ELSE Fail(d, "parent") /\ UNCHANGED outcome

\* Mutant: the memo is believed before D1 is asked.
ParentMissingMemo(d) == ~IsPost(d) /\ (Post(d) \notin posts \/ memo[Post(d)] = "live")

\* get_post_by_external_id finds no row.
ParentMissing(d) == ~IsPost(d) /\ Post(d) \notin posts

\* The handler asks D1 or Redis before it has come to an end.
AsksD1(d) == Kind(d) # "poison" /\ (Kind(d) = "drop" => IsPost(d))

\* A read that is answered, the lists being as they are: refused by a gate, no parent, no key, or to be stored.
Answered(d, list) ==
    \/ (Kind(d) = "drop" \/ (Kind(d) = "listed" /\ list = "short")) /\ Return(d, "dropped")
    \/ Kind(d) \in {"keep", "nokey"} /\ ParentMissing(d) /\ Fail(d, "parent") /\ UNCHANGED outcome
    \/ Kind(d) = "nokey" /\ ~ParentMissing(d) /\ Return(d, "dropped")
    \/ /\ Kind(d) \in {"keep", "norow", "listed"} /\ ~ParentMissing(d) /\ (Kind(d) = "listed" => list = "whole")
       /\ GoTo(d, "write") /\ UNCHANGED <<outcome, trackerVars>>

\* The reads of a handler, up to its write.
Lookup(d) ==
    /\ task[d].st = "lookup"
    /\ \E list \in {"whole", "short"} :
        /\ IF IsPost(d) THEN ConsultLists(list) ELSE list = "whole" /\ UNCHANGED <<lists, shortages>>
        /\ \/ Kind(d) = "poison" /\ Fail(d, "other") /\ UNCHANGED <<outcome, refusals>>
           \/ AsksD1(d) /\ NoAnswer(d) /\ UNCHANGED refusals
           \/ AsksD1(d) /\ Refused(d)
           \/ Answered(d, list) /\ UNCHANGED refusals
    /\ UNCHANGED <<brokerVars, posts, first, proc, crashes, loopVars, memo>>

\* The row a write leaves in D1, if any.
Stored(d) == IF IsPost(d) /\ Kind(d) \in {"keep", "listed"} THEN posts \cup {Post(d)} ELSE posts

(* persist_post or persist_comment.  It fails when D1 refuses the          *)
(* statement (IngestWriteFailed) or does not answer (D1Unavailable), and   *)
(* then the write may have landed all the same.                            *)
Write(d) ==
    /\ task[d].st = "write"
    /\ \/ posts' = Stored(d) /\ Return(d, "kept")
       \/ posts' \in {posts, Stored(d)} /\ Fail(d, "infra") /\ UNCHANGED outcome
    /\ UNCHANGED <<brokerVars, history, proc, crashes, loopVars, memory>>

\* Mutant: the attempts are not counted.
NextAttemptStuck(d) == task[d].attempt

NextAttempt(d) == task[d].attempt + 1

\* asyncio.sleep(delays[attempt]) is over.
WakeUp(d) ==
    /\ task[d].st = "sleep"
    /\ task' = [task EXCEPT ![d].st = "wait", ![d].exc = "no",
                            ![d].attempt = NextAttempt(d)]
    /\ UNCHANGED <<brokerVars, lastVars, proc, crashes, loopVars, trackerVars, memory>>

\* A missing parent is remembered; a full memo is emptied first.
Remember(x) ==
    memo' = IF Cardinality({y \in Posts : memo[y] # "absent"}) > MemoCap
            THEN [y \in Posts |-> IF y = x THEN "live" ELSE "absent"]
            ELSE [memo EXCEPT ![x] = "live"]

(* _dead_letter: the broker has confirmed the record.  While it does not,  *)
(* the task stays here and asks again every _DEAD_LETTER_RETRY_SECONDS.    *)
DeadLetter(d) ==
    /\ task[d].st = "letter"
    /\ HasOutcome(d, "dead")
    /\ IF task[d].exc = "parent" THEN Remember(Post(d)) ELSE UNCHANGED memo
    /\ GoTo(d, "report")
    /\ UNCHANGED <<brokerVars, posts, history, proc, crashes, loopVars, trackerVars, lists>>

\* _note_drop and _drop, whose errors are swallowed; then the tracker.
Report(d) ==
    /\ task[d].st = "report"
    /\ TrackFinished(d)
    /\ UNCHANGED <<brokerVars, lastVars, proc, crashes, loopVars, memory>>

\* Mutant: commit() without arguments commits what has been read.
CommitOffsetRead(d) == position[d[1]]

CommitOffset(d) == task[d].next

(* consumer.commit: commits of several tasks are in flight together, reach *)
(* the broker in any order, and a KafkaError is logged and forgotten.      *)
Commit(d) ==
    /\ task[d].st = "commit"
    /\ committed' \in {committed, [committed EXCEPT ![d[1]] = CommitOffset(d)]}
    /\ task' = [task EXCEPT ![d] = NoTask]
    /\ UNCHANGED <<logEnd, lastVars, proc, crashes, loopVars, trackerVars, memory>>

\* _MISSING_PARENT_MEMO_SECONDS have passed; the entry stays in the dict.
MemoExpires(x) ==
    /\ memo[x] = "live"
    /\ memo' = [memo EXCEPT ![x] = "expired"]
    /\ UNCHANGED <<brokerVars, lastVars, proc, crashes, loopVars, task, trackerVars, lists>>

-----------------------------------------------------------------------------
TaskStep(d) ==
    \/ Acquire(d) \/ Lookup(d) \/ Write(d) \/ WakeUp(d)
    \/ DeadLetter(d) \/ Report(d) \/ Commit(d)

Next ==
    \/ \E p \in Partitions : Produce(p) \/ Dispatch(p) \/ DecodeError(p)
    \/ \E t \in Topics : StartLoop(t) \/ Rebalance(t)
    \/ \E d \in Deliveries : TaskStep(d)
    \/ \E x \in Posts : MemoExpires(x)
    \/ Crash \/ BrokerError \/ Restart

Spec == Init /\ [][Next]_vars

(* The event loop runs every task that is ready, the loops are awaited,    *)
(* systemd restarts what failed, and a broker that refuses dead letters is *)
(* asked until it accepts one.                                             *)
Fairness ==
    /\ \A t \in Topics : WF_vars(StartLoop(t))
    /\ \A p \in Partitions : WF_vars(Dispatch(p)) /\ WF_vars(DecodeError(p))
    /\ \A d \in Deliveries : WF_vars(TaskStep(d))
    /\ WF_vars(Restart)

FairSpec == Spec /\ Fairness

-----------------------------------------------------------------------------
(* Properties.                                                             *)

TypeOK ==
    /\ logEnd \in [Partitions -> 0 .. LogLen]
    /\ committed \in [Partitions -> Nat \cup {NoOffset}]
    /\ outcome \in [Partitions -> [Offsets -> SUBSET {"kept", "dropped", "dead"}]]
    /\ posts \subseteq Posts
    /\ first \in [Partitions -> Nat \cup {NoOffset}]
    /\ proc \in {"up", "failed", "exited"}
    /\ crashes \in 0 .. MaxCrashes
    /\ loop \in [Topics -> BOOLEAN]
    /\ epoch \in [Topics -> Epochs]
    /\ position \in [Partitions -> Nat]
    /\ task \in [Deliveries -> Tasks]
    /\ dispatched \in [Partitions -> Seq(Offsets)]
    /\ finished \in [Partitions -> SUBSET Offsets]
    /\ memo \in [Posts -> {"absent", "live", "expired"}]
    /\ lists \in {"whole", "short"} /\ refusals \in 0 .. MaxMisreads /\ shortages \in 0 .. MaxMisreads

\* The group is responsible for p's records from `first` on.
Owed(p, o) == first[p] # NoOffset /\ first[p] <= o

\* Every owed record of p below n is settled.
SettledBelow(p, n) == \A o \in Offsets : (Owed(p, o) /\ o < n) => Settled(p, o)

\* The delivery still has its outcome to reach or its offset to report.
Working(d) == task[d].st \notin {"none", "commit"}

(* "offset chi duoc commit sau khi message da co mot trong cac ket cuc do":*)
(* whatever crashes, rebalances and reorders, no committed offset passes a *)
(* record that has no outcome yet.                                         *)
CommittedSettled ==
    \A p \in Partitions : committed[p] # NoOffset => SettledBelow(p, committed[p])

(* A record the group owes is settled, is being worked on, or lies where   *)
(* the loop will read it: none falls between the reader, the tasks and the *)
(* committed offset, in this life of the process or the next one.          *)
NothingLost ==
    \A p \in Partitions, o \in Offsets :
        LET next == IF loop[TopicOf(p)] THEN position[p] ELSE ResumeAt(p)
        IN  (Owed(p, o) /\ o < next) =>
                \/ Settled(p, o)
                \/ \E e \in Epochs : Working(<<p, o, e>>)

(* "mot hang doi offset ... cong mot tap cac offset da xong la du": once   *)
(* no delivery of p is being worked on, nothing of p is left waiting in    *)
(* the tracker, so that everything finished was offered for commit.        *)
TrackerDrains ==
    \A p \in Partitions :
        (\A o \in Offsets, e \in Epochs : ~Working(<<p, o, e>>)) => dispatched[p] = <<>>

(* "loi D1 tam thoi raise ..., nen khong bi nham": a failure of D1 or      *)
(* Redis passes for a decision in two ways only.  What is dropped is what  *)
(* a gate refuses, a post of which D1 has refused a read for good, or one  *)
(* that only a list names, once a list could not be read.  A comment, and  *)
(* a post that passes the gates by itself, outlast any outage, and what a  *)
(* gate refuses is never kept.                                             *)
DeliberateDrops ==
    \A p \in Partitions, o \in Offsets :
        /\ "dropped" \in outcome[p][o] =>
              \/ KindOf[p][o] \in {"drop", "nokey"}
              \/ p \in PostPartitions /\ (refusals > 0 \/ (KindOf[p][o] = "listed" /\ shortages > 0))
        /\ "kept" \in outcome[p][o] => KindOf[p][o] \in {"keep", "norow", "listed"}

(* A live entry of _missing_parents never condemns a comment whose parent  *)
(* has been stored in the meantime: the memo shortens the wait of a lookup *)
(* that failed, it does not replace the lookup.  Only a read that D1       *)
(* refuses for good makes a parent that is there look missing.             *)
StaleMemoHarmless ==
    [][\A d \in Deliveries :
          (Post(d) \in posts /\ task[d].st = "lookup" /\ refusals' = refusals) => task'[d].exc # "parent"]_vars

(* Every record the group owes gets an outcome in the end, through crashes,*)
(* D1 outages, poison and comments without a parent.                       *)
EverySettles ==
    \A p \in Partitions, o \in Offsets :
        (Owed(p, o) /\ o < logEnd[p]) ~> Settled(p, o)

(* The abstract promise: each step of the consumer is a step of            *)
(* IngestPromise, or one that it does not see.                             *)
Promise == INSTANCE IngestPromise WITH
    settled <- {r \in Partitions \X Offsets : Settled(r[1], r[2])},
    cursor  <- committed

KeepsPromise == Promise!Spec

\* The consumer does not stay down.
ComesBack == []<>(proc = "up")
-----------------------------------------------------------------------------
(* The inductive invariant behind CommittedSettled and NothingLost.        *)

\* Each partition has an offset to start from, its own or the retired group's.
Seeded == \A p \in Partitions : InitCommitted[p] # NoOffset \/ Legacy[p] # NoOffset

\* Reading, or having ever read, a seeded partition implies a committed offset.
Anchored ==
    \A p \in Partitions :
        /\ committed[p] = NoOffset => first[p] = NoOffset /\ Legacy[p] # NoOffset
        /\ loop[TopicOf(p)] => first[p] # NoOffset

\* What is reported to the tracker is settled.
ReportSettled ==
    \A p \in Partitions, o \in Offsets, e \in Epochs :
        task[<<p, o, e>>].st = "report" => Settled(p, o)

FinishedSettled == \A p \in Partitions : \A o \in finished[p] : Settled(p, o)

\* Offsets offered for commit cover settled records only.
CommitsSettled ==
    \A p \in Partitions, o \in Offsets, e \in Epochs :
        task[<<p, o, e>>].st = "commit" => SettledBelow(p, task[<<p, o, e>>].next)

\* An owed record below a queued offset is settled or queued ahead of it.
QueueCovers ==
    \A p \in Partitions : \A i \in 1 .. Len(dispatched[p]) : \A o \in Offsets :
        (Owed(p, o) /\ o < dispatched[p][i]) =>
            Settled(p, o) \/ \E j \in 1 .. i - 1 : dispatched[p][j] = o

\* An owed record the loop has read past is settled or queued.
ReadCovers ==
    \A p \in Partitions, o \in Offsets :
        (loop[TopicOf(p)] /\ Owed(p, o) /\ o < position[p]) =>
            Settled(p, o) \/ \E j \in 1 .. Len(dispatched[p]) : dispatched[p][j] = o

\* A queued record is settled or some delivery of it is being worked on.
QueueWorking ==
    \A p \in Partitions : \A i \in 1 .. Len(dispatched[p]) :
        \/ Settled(p, dispatched[p][i])
        \/ \E e \in Epochs : Working(<<p, dispatched[p][i], e>>)

\* A topic whose loop is off has no tasks and an empty tracker.
Idle ==
    \A p \in Partitions :
        ~loop[TopicOf(p)] =>
            /\ dispatched[p] = <<>>
            /\ finished[p] = {}
            /\ \A o \in Offsets, e \in Epochs : task[<<p, o, e>>].st = "none"

IInv ==
    /\ TypeOK
    /\ Anchored
    /\ CommittedSettled
    /\ ReportSettled
    /\ FinishedSettled
    /\ CommitsSettled
    /\ QueueCovers
    /\ ReadCovers
    /\ QueueWorking
    /\ Idle
=============================================================================
