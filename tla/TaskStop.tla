------------------------------- MODULE TaskStop -------------------------------
(***************************************************************************)
(* The Stop and Run buttons of one platform                                *)
(* (app/services/crawl/crawl_jobs.py, task_queue.py, clients/kafka.py).    *)
(* Work is a message in the Kafka topic crawl_requests, with a line in the *)
(* pending list of the dashboard.  spider-hub, another process, consumes   *)
(* the messages and runs the jobs.  Stop cannot take a message back: it    *)
(* leaves flags in Redis, one call after the other, that spider-hub reads  *)
(* before a job and while it runs; Run takes some of them away again.      *)
(***************************************************************************)
EXTENDS Naturals, FiniteSets

CONSTANTS
    Runs,       \* requests the operator's Run button publishes, clear_stop
    Plans,      \* requests of schedules, which clear nothing
    Actions,    \* requests with bypass_drain, an operator's single action
    MaxStops,   \* bound: uses of the Stop button
    MaxExpiries \* bound: flags whose time to live is up

ASSUME StopAssumption ==
    /\ Runs \cap Plans = {} /\ Runs \cap Actions = {} /\ Plans \cap Actions = {}
    /\ MaxStops \in Nat /\ MaxExpiries \in Nat

Requests  == Runs \cup Plans \cup Actions

\* bfs_drain and comments_drain, which are set and cleared with them, are left out: only the
\* jobs that a job of spider-hub starts are dropped for them.
StopFlags == {"platform_drain", "cancel_platform"}

VARIABLES
    now,        \* time.time(), which no two calls share
    \* Redis
    flags,      \* which of the flags are set
    drainAt,    \* value of platform_drain
    cutoff,     \* platform_stop_cutoff; 0 if there is none
    cancelled,  \* run ids with a crawl_job_cancel key
    pending,    \* run ids in task_pending
    keyed,      \* run ids in the crawl_job keys
    \* cinemark-api
    publish,    \* publish[r]: where publish_crawl_request is with r
    publishedAt,
    stopCall,   \* where request_stop is
    cancelCall, \* the run id cancel_job is about to flag, in a set
    \* Kafka and spider-hub
    topic,      \* messages not yet consumed
    job,        \* job[r]: what became of the message
    \* history
    lastStop,   \* stopped_at of the last Stop that has returned
    present,    \* the jobs with a key, and those without, when the last Stop was pressed
    fresh,      \* the Runs published since the last use of Stop
    unflagged,  \* a Run or the clock took cancel_platform away since then
    expiries

redisStop   == <<flags, drainAt, cutoff, cancelled, pending, keyed>>
apiStop     == <<publish, publishedAt, stopCall, cancelCall>>
spiderStop  == <<topic, job>>
historyStop == <<lastStop, present, fresh, unflagged, expiries>>
stopVars    == <<now, redisStop, apiStop, spiderStop, historyStop>>

StopInit ==
    /\ now = 1 /\ flags = {} /\ drainAt = 0 /\ cutoff = 0 /\ cancelled = {}
    /\ pending = {} /\ keyed = {}
    /\ publish = [r \in Requests |-> "idle"] /\ publishedAt = [r \in Requests |-> 0]
    /\ stopCall = [at |-> "idle", count |-> 0, stoppedAt |-> 0] /\ cancelCall = {}
    /\ topic = {} /\ job = [r \in Requests |-> "none"]
    /\ lastStop = 0 /\ present = [keyed |-> {}, booting |-> {}] /\ fresh = {} /\ unflagged = FALSE /\ expiries = 0

Alive(r) == job[r] \in {"booting", "running"}

-----------------------------------------------------------------------------
(* publish_crawl_request and publish_action_request                        *)

\* Mutant: Run takes the cutoff of the last Stop away as well.
ClearsCutoffToo(r) == IF r \in Runs THEN 0 ELSE cutoff

\* clear_drain does not touch platform_stop_cutoff.
CutoffAfterClear(r) == cutoff

\* Mutant: clear_drain forgets crawl_job_cancel_platform.
ClearedByLess(r) == IF r \in Runs THEN StopFlags \ {"cancel_platform"} ELSE {}

\* clear_stop: only the operator's Run takes the flags away.
ClearedBy(r) == IF r \in Runs THEN StopFlags ELSE {}

\* clear_drain is one DEL; then published_at is the time of the clock.
StartPublish(r) ==
    /\ publish[r] = "idle"
    /\ flags' = flags \ ClearedBy(r) /\ cutoff' = CutoffAfterClear(r)
    /\ unflagged' = (unflagged \/ ClearedBy(r) # {})
    /\ publish' = [publish EXCEPT ![r] = "cleared"]
    /\ fresh' = IF r \in Runs /\ stopCall.at = "idle" THEN fresh \cup {r} ELSE fresh
    /\ UNCHANGED <<now, drainAt, cancelled, pending, keyed, publishedAt, stopCall, cancelCall,
                   spiderStop, lastStop, present, expiries>>

Stamp(r) ==
    /\ publish[r] = "cleared"
    /\ publish' = [publish EXCEPT ![r] = "stamped"]
    /\ publishedAt' = [publishedAt EXCEPT ![r] = now] /\ now' = now + 1
    /\ UNCHANGED <<redisStop, stopCall, cancelCall, spiderStop, historyStop>>

\* send_and_wait: the broker has the message, or KafkaError, which may have lost the answer.
Send(r) ==
    /\ publish[r] = "stamped"
    /\ \/ topic' = topic \cup {r} /\ publish' = [publish EXCEPT ![r] = "sent"]
       \/ topic' \in {topic, topic \cup {r}} /\ publish' = [publish EXCEPT ![r] = "failed"]
    /\ UNCHANGED <<now, redisStop, publishedAt, stopCall, cancelCall, job, historyStop>>

EnqueuePublished(r) ==
    /\ publish[r] = "sent"
    /\ publish' = [publish EXCEPT ![r] = "queued"] /\ pending' = pending \cup {r}
    /\ UNCHANGED <<now, flags, drainAt, cutoff, cancelled, keyed, publishedAt, stopCall, cancelCall,
                   spiderStop, historyStop>>

-----------------------------------------------------------------------------
(* request_stop, call by call                                              *)

StopAt(place) == stopCall' = [stopCall EXCEPT !.at = place]

\* After bfs_drain and comments_drain are set, the clock is read.
StopBegin ==
    /\ stopCall.at = "idle" /\ stopCall.count < MaxStops
    /\ stopCall' = [at |-> "drain", count |-> stopCall.count + 1, stoppedAt |-> now]
    /\ now' = now + 1
    /\ present' = [keyed |-> keyed, booting |-> {r \in Requests : job[r] = "booting"}]
    /\ fresh' = {} /\ unflagged' = FALSE
    /\ UNCHANGED <<redisStop, publish, publishedAt, cancelCall, spiderStop, lastStop, expiries>>

StopDrain ==
    /\ stopCall.at = "drain"
    /\ flags' = flags \cup {"platform_drain"} /\ drainAt' = stopCall.stoppedAt /\ StopAt("cutoff")
    /\ UNCHANGED <<now, cutoff, cancelled, pending, keyed, publish, publishedAt, cancelCall,
                   spiderStop, historyStop>>

StopCutoff ==
    /\ stopCall.at = "cutoff"
    /\ cutoff' = stopCall.stoppedAt /\ StopAt("cancel")
    /\ UNCHANGED <<now, flags, drainAt, cancelled, pending, keyed, publish, publishedAt,
                   cancelCall, spiderStop, historyStop>>

StopCancel ==
    /\ stopCall.at = "cancel"
    /\ flags' = flags \cup {"cancel_platform"} /\ StopAt("pending")
    /\ UNCHANGED <<now, drainAt, cutoff, cancelled, pending, keyed, publish, publishedAt,
                   cancelCall, spiderStop, historyStop>>

ClearPending ==
    /\ stopCall.at = "pending"
    /\ pending' = {} /\ StopAt("jobs")
    /\ UNCHANGED <<now, flags, drainAt, cutoff, cancelled, keyed, publish, publishedAt,
                   cancelCall, spiderStop, historyStop>>

\* Mutant: the plain job key of the platform is read, and no lane's.
OneRunningJob == {r \in keyed : \A q \in keyed : publishedAt[r] <= publishedAt[q]}

\* get_running_jobs: the keys of the platform and of its lanes.
RunningJobs == keyed

StopJobs ==
    /\ stopCall.at = "jobs"
    /\ cancelled' = cancelled \cup RunningJobs /\ StopAt("idle")
    /\ lastStop' = stopCall.stoppedAt
    /\ UNCHANGED <<now, flags, drainAt, cutoff, pending, keyed, publish, publishedAt, cancelCall,
                   spiderStop, present, fresh, unflagged, expiries>>

-----------------------------------------------------------------------------
(* cancel_job, the Stop button of one line                                 *)

RemoveLine(r) ==
    /\ cancelCall = {} /\ r \in pending \cup keyed
    /\ pending' = pending \ {r} /\ keyed' = keyed \ {r} /\ cancelCall' = {r}
    /\ UNCHANGED <<now, flags, drainAt, cutoff, cancelled, publish, publishedAt, stopCall,
                   spiderStop, historyStop>>

CancelJob(r) ==
    /\ r \in cancelCall
    /\ cancelled' = cancelled \cup {r} /\ cancelCall' = {}
    /\ UNCHANGED <<now, flags, drainAt, cutoff, pending, keyed, publish, publishedAt, stopCall,
                   spiderStop, historyStop>>

\* The flags live 900 seconds.
FlagExpires(f) ==
    /\ f \in flags /\ expiries < MaxExpiries
    /\ flags' = flags \ {f} /\ expiries' = expiries + 1
    /\ unflagged' = (unflagged \/ f = "cancel_platform")
    /\ UNCHANGED <<now, drainAt, cutoff, cancelled, pending, keyed, apiStop, spiderStop,
                   lastStop, present, fresh>>

-----------------------------------------------------------------------------
(* spider-hub, crawl_request_consumer.py: not in this repository           *)

Refused(r) ==
    \/ r \in cancelled
    \/ publishedAt[r] < cutoff
    \/ /\ "platform_drain" \in flags
       /\ r \in Actions => publishedAt[r] < drainAt

\* A message is taken: its line leaves the pending list, and it is run or dropped.
Consume(r) ==
    /\ r \in topic
    /\ topic' = topic \ {r} /\ pending' = pending \ {r}
    /\ job' = [job EXCEPT ![r] = IF Refused(r) THEN "dropped" ELSE "booting"]
    /\ UNCHANGED <<now, flags, drainAt, cutoff, cancelled, keyed, apiStop, historyStop>>

WriteJobKey(r) ==
    /\ job[r] = "booting"
    /\ job' = [job EXCEPT ![r] = "running"] /\ keyed' = keyed \cup {r}
    /\ UNCHANGED <<now, flags, drainAt, cutoff, cancelled, pending, apiStop, topic, historyStop>>

Told(r) == r \in cancelled \/ "cancel_platform" \in flags

\* The job ends, of itself or at the poll of its cancel flags.
EndJob(r) ==
    /\ Alive(r)
    /\ \/ job[r] = "running" /\ job' = [job EXCEPT ![r] = "done"]
       \/ Told(r) /\ job' = [job EXCEPT ![r] = "killed"]
    /\ keyed' = keyed \ {r}
    /\ UNCHANGED <<now, flags, drainAt, cutoff, cancelled, pending, apiStop, topic, historyStop>>

StopStep(r) ==
    \/ StartPublish(r) \/ Stamp(r) \/ Send(r) \/ EnqueuePublished(r)
    \/ RemoveLine(r) \/ CancelJob(r) \/ Consume(r) \/ WriteJobKey(r) \/ EndJob(r)

StopNext ==
    \/ \E r \in Requests : StopStep(r)
    \/ StopBegin \/ StopDrain \/ StopCutoff \/ StopCancel \/ ClearPending \/ StopJobs
    \/ \E f \in StopFlags : FlagExpires(f)

StopSpec == StopInit /\ [][StopNext]_stopVars

-----------------------------------------------------------------------------
(* Properties                                                              *)

StopTypeOK ==
    /\ now \in Nat /\ flags \subseteq StopFlags /\ drainAt \in Nat /\ cutoff \in Nat
    /\ cancelled \subseteq Requests /\ pending \subseteq Requests /\ keyed \subseteq Requests
    /\ publish \in [Requests -> {"idle", "cleared", "stamped", "sent", "failed", "queued"}]
    /\ publishedAt \in [Requests -> Nat] /\ cancelCall \subseteq Requests
    /\ stopCall \in [at : {"idle", "drain", "cutoff", "cancel", "pending", "jobs"},
                     count : Nat, stoppedAt : Nat]
    /\ topic \subseteq Requests
    /\ job \in [Requests -> {"none", "booting", "running", "done", "killed", "dropped"}]
    /\ lastStop \in Nat /\ fresh \subseteq Runs
    /\ present \in [keyed : SUBSET Requests, booting : SUBSET Requests]
    /\ unflagged \in BOOLEAN /\ expiries \in Nat

\* Once a Stop has returned, nothing that was published before it begins to run, whatever Runs
\* and schedules came in between and whichever flags have expired: clear_drain and the time to
\* live take the drain away, platform_stop_cutoff stays.
OldWorkStaysStopped ==
    [][\A r \in Requests : job[r] = "none" /\ job'[r] = "booting" => lastStop <= publishedAt[r]]_stopVars

\* When Stop returns, every job that was alive when it was pressed is told to end: the ones that
\* had their key are flagged by run id, which no later Run takes back, and one that had none yet
\* by crawl_job_cancel_platform, unless a Run or the clock has taken that flag away since.
\* cancel_job removes the key of the job it flags.
StopReachesJobs ==
    stopCall.at = "idle" =>
        /\ \A r \in present.keyed : Alive(r) => r \in cancelled \cup cancelCall
        /\ \A r \in present.booting : Alive(r) => unflagged \/ Told(r) \/ r \in cancelCall

\* A Run pressed after Stop has returned is crawled: nothing that Stop has left behind drops its
\* message or kills its job, so the operator is not left with a Run that silently does nothing.
RunAfterStopRuns ==
    \A r \in fresh : job[r] \in {"dropped", "killed"} => r \in cancelled
=============================================================================
