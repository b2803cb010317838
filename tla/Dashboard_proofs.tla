------------------------- MODULE Dashboard_proofs --------------------------
(***************************************************************************)
(* Proofs about what operators do from the dashboard: Run and Stop         *)
(* (TaskStop), the accounts, their proxies and sessions (AccountPool), and *)
(* reports of films (ReportJobs); for any number of requests, Stops,       *)
(* accounts, films and processes, and any interleaving of them.            *)
(***************************************************************************)
EXTENDS TaskStop, AccountPool, ReportJobs, FiniteSetTheorems, TLAPS

-----------------------------------------------------------------------------
(* Run and Stop (TaskStop).                                                *)

(* The steps, by who takes them.                                           *)

PublishSteps ==
    \E r \in Requests : StartPublish(r) \/ Stamp(r) \/ Send(r) \/ EnqueuePublished(r)

StopSteps == StopDrain \/ StopCutoff \/ StopCancel \/ ClearPending

LineSteps == \E r \in Requests : RemoveLine(r) \/ CancelJob(r)

HubSteps == \E r \in Requests : Consume(r) \/ WriteJobKey(r) \/ EndJob(r)

Expiry == \E f \in StopFlags : FlagExpires(f)

LEMMA StepsSplit ==
    StopNext => PublishSteps \/ StopBegin \/ StopSteps \/ StopJobs \/ LineSteps \/ HubSteps \/ Expiry
<1> SUFFICES ASSUME StopNext
             PROVE  PublishSteps \/ StopBegin \/ StopSteps \/ StopJobs \/ LineSteps \/ HubSteps \/ Expiry
  OBVIOUS
<1>1. CASE \E r \in Requests : StopStep(r)
  <2>1. PICK r \in Requests : StopStep(r)
    BY <1>1
  <2> QED BY <2>1 DEF StopStep, PublishSteps, LineSteps, HubSteps
<1>2. CASE ~ \E r \in Requests : StopStep(r)
  BY <1>2 DEF StopNext, StopSteps, Expiry
<1> QED BY <1>1, <1>2

------------------------------------------------------------------------------
(* Type correctness.                                                       *)

LEMMA RunsAreRequests == Runs \subseteq Requests
BY DEF Requests

LEMMA StopTypesInit == StopInit => StopTypeOK
<1> SUFFICES ASSUME StopInit PROVE StopTypeOK
  OBVIOUS
<1>1. /\ publish \in [Requests -> {"idle", "cleared", "stamped", "sent", "failed", "queued"}]
      /\ publishedAt \in [Requests -> Nat]
      /\ job \in [Requests -> {"none", "booting", "running", "done", "killed", "dropped"}]
  BY DEF StopInit
<1>2. /\ stopCall \in [at : {"idle", "drain", "cutoff", "cancel", "pending", "jobs"}, count : Nat, stoppedAt : Nat]
      /\ present \in [keyed : SUBSET Requests, booting : SUBSET Requests]
  BY DEF StopInit
<1> QED BY <1>1, <1>2 DEF StopInit, StopTypeOK

LEMMA StopTypesKept == StopTypeOK /\ [StopNext]_stopVars => StopTypeOK'
<1> SUFFICES ASSUME StopTypeOK, [StopNext]_stopVars PROVE StopTypeOK'
  OBVIOUS
<1> USE DEF StopTypeOK, redisStop, apiStop, spiderStop, historyStop
<1>1. CASE UNCHANGED stopVars
  BY <1>1 DEF stopVars
<1>2. ASSUME NEW r \in Requests, StartPublish(r) PROVE StopTypeOK'
  <2>1. fresh' \subseteq Runs /\ cutoff' \in Nat /\ flags' \subseteq StopFlags /\ unflagged' \in BOOLEAN
    BY <1>2 DEF StartPublish, CutoffAfterClear, ClearedBy
  <2> QED BY <1>2, <2>1 DEF StartPublish
<1>3. ASSUME NEW r \in Requests, Stamp(r) PROVE StopTypeOK'
  BY <1>3 DEF Stamp
<1>4. ASSUME NEW r \in Requests, Send(r) PROVE StopTypeOK'
  BY <1>4 DEF Send
<1>5. ASSUME NEW r \in Requests, EnqueuePublished(r) PROVE StopTypeOK'
  BY <1>5 DEF EnqueuePublished
<1>6. CASE StopBegin
  <2>1. stopCall.count + 1 \in Nat /\ now + 1 \in Nat
    OBVIOUS
  <2> QED BY <1>6, <2>1 DEF StopBegin
<1>7. CASE StopSteps
  <2>1. stopCall'.count \in Nat /\ stopCall'.stoppedAt \in Nat
        /\ stopCall' \in [at : {"idle", "drain", "cutoff", "cancel", "pending", "jobs"}, count : Nat, stoppedAt : Nat]
    BY <1>7 DEF StopSteps, StopDrain, StopCutoff, StopCancel, ClearPending, StopAt
  <2> QED BY <1>7, <2>1 DEF StopSteps, StopDrain, StopCutoff, StopCancel, ClearPending, StopFlags
<1>8. CASE StopJobs
  <2>1. stopCall' \in [at : {"idle", "drain", "cutoff", "cancel", "pending", "jobs"}, count : Nat, stoppedAt : Nat]
    BY <1>8 DEF StopJobs, StopAt
  <2> QED BY <1>8, <2>1 DEF StopJobs, RunningJobs
<1>9. CASE LineSteps
  BY <1>9 DEF LineSteps, RemoveLine, CancelJob
<1>10. CASE HubSteps
  <2>1. job' \in [Requests -> {"none", "booting", "running", "done", "killed", "dropped"}]
    BY <1>10 DEF HubSteps, Consume, WriteJobKey, EndJob
  <2> QED BY <1>10, <2>1 DEF HubSteps, Consume, WriteJobKey, EndJob
<1>11. CASE Expiry
  <2>1. unflagged' \in BOOLEAN
    BY <1>11 DEF Expiry, FlagExpires
  <2> QED BY <1>11, <2>1 DEF Expiry, FlagExpires
<1> QED BY <1>1, <1>2, <1>3, <1>4, <1>5, <1>6, <1>7, <1>8, <1>9, <1>10, <1>11, StepsSplit DEF PublishSteps

\* The types, for every value of the constants.
THEOREM StopTypes == StopSpec => []StopTypeOK
BY StopTypesInit, StopTypesKept, PTL DEF StopSpec

------------------------------------------------------------------------------
(* What was published before a Stop stays stopped.  Time runs on; the      *)
(* cutoff is no older than the last Stop that has returned, and once it is *)
(* written it is that of the Stop under way.                               *)

Times ==
    /\ lastStop <= cutoff /\ lastStop <= stopCall.stoppedAt /\ cutoff <= stopCall.stoppedAt
    /\ stopCall.stoppedAt < now
    /\ stopCall.at \in {"cancel", "pending", "jobs"} => cutoff = stopCall.stoppedAt

LEMMA TimesInit == StopInit => Times
BY DEF StopInit, Times

LEMMA TimesKept == StopTypeOK /\ Times /\ [StopNext]_stopVars => Times'
<1> SUFFICES ASSUME StopTypeOK, Times, [StopNext]_stopVars PROVE Times'
  OBVIOUS
<1>0. now \in Nat /\ cutoff \in Nat /\ lastStop \in Nat /\ stopCall.stoppedAt \in Nat
      /\ stopCall \in [at : {"idle", "drain", "cutoff", "cancel", "pending", "jobs"}, count : Nat, stoppedAt : Nat]
  BY DEF StopTypeOK
<1> USE DEF Times, redisStop, apiStop, spiderStop, historyStop
<1>1. CASE UNCHANGED <<now, cutoff, lastStop, stopCall>>
  BY <1>1
<1>2. CASE PublishSteps
  <2>1. UNCHANGED <<cutoff, lastStop, stopCall>> /\ (now' = now \/ now' = now + 1)
    BY <1>2 DEF PublishSteps, StartPublish, CutoffAfterClear, Stamp, Send, EnqueuePublished
  <2> QED BY <1>0, <2>1
<1>3. CASE StopBegin
  BY <1>0, <1>3 DEF StopBegin
<1>4. CASE StopSteps
  <2>1. UNCHANGED <<now, lastStop>> /\ stopCall'.stoppedAt = stopCall.stoppedAt
    BY <1>0, <1>4 DEF StopSteps, StopDrain, StopCutoff, StopCancel, ClearPending, StopAt
  <2>2. CASE StopCutoff
    BY <1>0, <2>1, <2>2 DEF StopCutoff, StopAt
  <2>3. CASE StopDrain
    BY <1>0, <2>1, <2>3 DEF StopDrain, StopAt
  <2>4. CASE StopCancel \/ ClearPending
    BY <1>0, <2>1, <2>4 DEF StopCancel, ClearPending, StopAt
  <2> QED BY <1>4, <2>2, <2>3, <2>4 DEF StopSteps
<1>5. CASE StopJobs
  BY <1>0, <1>5 DEF StopJobs, StopAt
<1>6. CASE LineSteps \/ HubSteps \/ Expiry
  BY <1>1, <1>6 DEF LineSteps, RemoveLine, CancelJob, HubSteps, Consume, WriteJobKey, EndJob, Expiry, FlagExpires
<1> QED BY <1>1, <1>2, <1>3, <1>4, <1>5, <1>6, StepsSplit DEF stopVars

\* Work published before the last Stop does not begin to run, for every value of the constants.
THEOREM OldWorkIsStopped == StopSpec => OldWorkStaysStopped
<1> DEFINE Kept == \A r \in Requests : job[r] = "none" /\ job'[r] = "booting" => lastStop <= publishedAt[r]
<1>1. StopTypeOK /\ Times /\ [StopNext]_stopVars => [Kept]_stopVars
  <2> SUFFICES ASSUME StopTypeOK, Times, StopNext, NEW r \in Requests, job[r] = "none", job'[r] = "booting"
               PROVE  lastStop <= publishedAt[r]
    OBVIOUS
  <2>1. Consume(r)
    BY StepsSplit DEF StopTypeOK, PublishSteps, StartPublish, Stamp, Send, EnqueuePublished, StopBegin,
       StopSteps, StopDrain, StopCutoff, StopCancel, ClearPending, StopJobs, LineSteps, RemoveLine,
       CancelJob, HubSteps, Consume, WriteJobKey, EndJob, Expiry, FlagExpires, apiStop, spiderStop,
       Alive
  <2>2. ~(publishedAt[r] < cutoff)
    BY <2>1 DEF Consume, Refused, StopTypeOK
  <2> QED BY <2>2 DEF StopTypeOK, Times
<1> QED BY <1>1, StopTypesInit, StopTypesKept, TimesInit, TimesKept, PTL DEF StopSpec, OldWorkStaysStopped

------------------------------------------------------------------------------
(* Stop reaches the jobs that were alive when it was pressed.              *)

\* A message is consumed once, after it was sent; a key is that of a running job.
Lives ==
    /\ \A r \in Requests :
        /\ publish[r] \in {"idle", "cleared", "stamped"} => r \notin topic /\ job[r] = "none"
        /\ r \in topic => job[r] = "none"
        /\ r \in keyed => job[r] = "running"

\* A job whose key Stop will see, or that has been flagged by its run id.
Flagged(r) == r \in cancelled \cup cancelCall

Reached ==
    /\ \A r, q \in cancelCall : r = q
    /\ \A r \in present.keyed :
        /\ job[r] # "none"
        /\ Alive(r) => Flagged(r) \/ (stopCall.at # "idle" /\ r \in keyed)
    /\ \A r \in present.booting :
        stopCall.at \in {"pending", "jobs", "idle"} => unflagged \/ "cancel_platform" \in flags

LEMMA LivesInit == StopInit => Lives /\ Reached
BY DEF StopInit, Lives, Reached, Alive

LEMMA LivesKept == StopTypeOK /\ Lives /\ [StopNext]_stopVars => Lives'
<1> SUFFICES ASSUME StopTypeOK, Lives, [StopNext]_stopVars PROVE Lives'
  OBVIOUS
<1> USE DEF Lives, StopTypeOK, redisStop, apiStop, spiderStop, historyStop
<1>1. CASE UNCHANGED <<publish, topic, job, keyed>>
  BY <1>1
<1>2. CASE PublishSteps
  BY <1>2 DEF PublishSteps, StartPublish, Stamp, Send, EnqueuePublished
<1>3. CASE StopBegin \/ StopSteps \/ StopJobs \/ Expiry
  BY <1>1, <1>3 DEF StopBegin, StopSteps, StopDrain, StopCutoff, StopCancel, ClearPending, StopJobs, Expiry, FlagExpires
<1>4. CASE LineSteps
  BY <1>4 DEF LineSteps, RemoveLine, CancelJob
<1>5. CASE HubSteps
  BY <1>5 DEF HubSteps, Consume, WriteJobKey, EndJob, Alive
<1> QED BY <1>1, <1>2, <1>3, <1>4, <1>5, StepsSplit DEF stopVars

LEMMA ReachedKept == StopTypeOK /\ Lives /\ Reached /\ [StopNext]_stopVars => Reached'
<1> SUFFICES ASSUME StopTypeOK, Lives, Reached, [StopNext]_stopVars PROVE Reached'
  OBVIOUS
<1> USE DEF Reached, Flagged, Alive, redisStop, apiStop, spiderStop, historyStop
<1>0. present.keyed \subseteq Requests /\ present.booting \subseteq Requests
      /\ job \in [Requests -> {"none", "booting", "running", "done", "killed", "dropped"}]
  BY DEF StopTypeOK
<1>1. CASE UNCHANGED <<present, job, cancelled, cancelCall, stopCall, keyed, unflagged, flags>>
  BY <1>1
<1>2. CASE PublishSteps
  <2>1. UNCHANGED <<present, job, cancelled, cancelCall, stopCall, keyed>>
    BY <1>2 DEF PublishSteps, StartPublish, Stamp, Send, EnqueuePublished
  <2>2. (unflagged \/ "cancel_platform" \in flags) => (unflagged' \/ "cancel_platform" \in flags')
    BY <1>2 DEF PublishSteps, StartPublish, Stamp, Send, EnqueuePublished, ClearedBy
  <2> QED BY <2>1, <2>2
<1>3. CASE StopBegin
  BY <1>0, <1>3 DEF StopBegin, Lives, StopTypeOK
<1>4. CASE StopSteps
  <2>1. UNCHANGED <<present, job, cancelled, cancelCall, keyed, unflagged>> /\ stopCall.at # "idle"
        /\ stopCall'.at # "idle" /\ flags \subseteq flags'
        /\ (stopCall.at \in {"drain", "cutoff"} => stopCall'.at \in {"cutoff", "cancel"})
    BY <1>4 DEF StopSteps, StopDrain, StopCutoff, StopCancel, ClearPending, StopAt, StopTypeOK
  <2>2. stopCall'.at \in {"pending", "jobs"} =>
            "cancel_platform" \in flags' \/ stopCall.at = "pending"
    BY <1>4 DEF StopSteps, StopDrain, StopCutoff, StopCancel, ClearPending, StopAt, StopTypeOK
  <2> QED BY <2>1, <2>2
<1>5. CASE StopJobs
  <2>1. UNCHANGED <<present, job, cancelCall, keyed, unflagged, flags>> /\ cancelled' = cancelled \cup keyed
        /\ stopCall.at = "jobs"
    BY <1>5 DEF StopJobs, RunningJobs
  <2> QED BY <2>1
<1>6. CASE LineSteps
  <2>1. UNCHANGED <<present, job, stopCall, unflagged, flags>>
    BY <1>6 DEF LineSteps, RemoveLine, CancelJob
  <2>2. \A r, q \in cancelCall' : r = q
    BY <1>6 DEF LineSteps, RemoveLine, CancelJob
  <2>3. \A r \in Requests :
            /\ r \in cancelled \cup cancelCall => r \in cancelled' \cup cancelCall'
            /\ r \in keyed => r \in keyed' \/ r \in cancelled' \cup cancelCall'
    BY <1>6 DEF LineSteps, RemoveLine, CancelJob
  <2> QED BY <1>0, <2>1, <2>2, <2>3
<1>7. CASE HubSteps
  <2>1. UNCHANGED <<present, cancelled, cancelCall, stopCall, flags, unflagged>>
    BY <1>7 DEF HubSteps, Consume, WriteJobKey, EndJob
  <2>2. ASSUME NEW r \in present.keyed
        PROVE  /\ job'[r] # "none"
               /\ job'[r] \in {"booting", "running"} =>
                    /\ job[r] \in {"booting", "running"}
                    /\ r \in keyed => r \in keyed'
    BY <1>0, <1>7 DEF HubSteps, Consume, WriteJobKey, EndJob, Lives
  <2> QED BY <2>1, <2>2
<1>8. CASE Expiry
  <2>1. UNCHANGED <<present, job, cancelled, cancelCall, stopCall, keyed>>
    BY <1>8 DEF Expiry, FlagExpires
  <2>2. (unflagged \/ "cancel_platform" \in flags) => (unflagged' \/ "cancel_platform" \in flags')
    BY <1>8 DEF Expiry, FlagExpires
  <2> QED BY <2>1, <2>2
<1> QED BY <1>1, <1>2, <1>3, <1>4, <1>5, <1>6, <1>7, <1>8, StepsSplit DEF stopVars

\* When Stop returns, every job that was alive is told to end, for every value of the constants.
THEOREM StopIsHeard == StopSpec => []StopReachesJobs
<1>1. Reached => StopReachesJobs
  BY DEF Reached, StopReachesJobs, Flagged, Told
<1> QED BY <1>1, StopTypesInit, StopTypesKept, LivesInit, LivesKept, ReachedKept, PTL DEF StopSpec

------------------------------------------------------------------------------
(* A Run pressed after Stop has returned: it took the flags away, and its  *)
(* message is younger than the cutoff.                                     *)

FreshRuns ==
    /\ fresh # {} => flags = {} /\ stopCall.at = "idle"
    /\ \A r \in fresh :
        /\ publish[r] # "idle"
        /\ publish[r] # "cleared" => cutoff <= publishedAt[r]
        /\ job[r] \in {"dropped", "killed"} => r \in cancelled

LEMMA FreshInit == StopInit => FreshRuns
BY DEF StopInit, FreshRuns

LEMMA FreshKept ==
    StopTypeOK /\ Times /\ Lives /\ FreshRuns /\ [StopNext]_stopVars => FreshRuns'
<1> SUFFICES ASSUME StopTypeOK, Times, Lives, FreshRuns, [StopNext]_stopVars PROVE FreshRuns'
  OBVIOUS
<1> USE DEF FreshRuns, redisStop, apiStop, spiderStop, historyStop
<1>0. fresh \subseteq Requests /\ cutoff \in Nat /\ now \in Nat /\ publishedAt \in [Requests -> Nat]
      /\ stopCall.stoppedAt \in Nat /\ cutoff < now
      /\ flags \subseteq StopFlags
      /\ publish \in [Requests -> {"idle", "cleared", "stamped", "sent", "failed", "queued"}]
      /\ job \in [Requests -> {"none", "booting", "running", "done", "killed", "dropped"}]
  BY RunsAreRequests DEF StopTypeOK, Times
<1>1. CASE UNCHANGED <<fresh, flags, stopCall, publish, cutoff, publishedAt, job, cancelled>>
  BY <1>1
<1>2. ASSUME NEW r \in Requests, StartPublish(r) PROVE FreshRuns'
  <2>1. UNCHANGED <<cutoff, publishedAt, stopCall, job, cancelled>> /\ publish' = [publish EXCEPT ![r] = "cleared"]
        /\ publish[r] = "idle" /\ job[r] = "none" /\ flags' \subseteq flags
    BY <1>2 DEF StartPublish, CutoffAfterClear, Lives
  <2>2. r \in Runs /\ stopCall.at = "idle" => fresh' = fresh \cup {r} /\ flags' = {}
    BY <1>0, <1>2 DEF StartPublish, ClearedBy
  <2>3. ~(r \in Runs /\ stopCall.at = "idle") => fresh' = fresh
    BY <1>2 DEF StartPublish
  <2> QED BY <1>0, <2>1, <2>2, <2>3
<1>3. ASSUME NEW r \in Requests, Stamp(r) PROVE FreshRuns'
  <2>1. UNCHANGED <<fresh, flags, stopCall, cutoff, job, cancelled>> /\ publishedAt'[r] = now
        /\ publish'[r] = "stamped"
        /\ \A q \in Requests : q # r => publishedAt'[q] = publishedAt[q] /\ publish'[q] = publish[q]
    BY <1>0, <1>3 DEF Stamp
  <2>2. cutoff <= now
    BY <1>0
  <2>3. publish[r] # "idle"
    BY <1>3 DEF Stamp
  <2>4. ASSUME NEW q \in fresh PROVE publish'[q] # "idle" /\ (publish'[q] # "cleared" => cutoff <= publishedAt'[q])
    <3>1. q \in Requests
      BY <1>0
    <3> QED BY <2>1, <2>2, <3>1
  <2> QED BY <2>1, <2>4
<1>4. ASSUME NEW r \in Requests, Send(r) \/ EnqueuePublished(r) PROVE FreshRuns'
  <2>1. UNCHANGED <<fresh, flags, stopCall, cutoff, publishedAt, job, cancelled>>
        /\ publish[r] \in {"stamped", "sent"} /\ publish'[r] \in {"sent", "failed", "queued"}
        /\ \A q \in Requests : q # r => publish'[q] = publish[q]
    BY <1>0, <1>4 DEF Send, EnqueuePublished
  <2> QED BY <1>0, <2>1
<1>5. CASE StopBegin
  BY <1>5 DEF StopBegin
<1>6. CASE StopSteps \/ StopJobs
  <2>1. fresh = {} /\ fresh' = {}
    BY <1>6 DEF StopSteps, StopDrain, StopCutoff, StopCancel, ClearPending, StopJobs
  <2> QED BY <2>1
<1>7. CASE LineSteps
  BY <1>7 DEF LineSteps, RemoveLine, CancelJob
<1>8. CASE HubSteps
  <2>1. UNCHANGED <<fresh, flags, stopCall, publish, cutoff, publishedAt, cancelled>>
    BY <1>8 DEF HubSteps, Consume, WriteJobKey, EndJob
  <2>2. ASSUME NEW r \in fresh, job'[r] \in {"dropped", "killed"}, job[r] \notin {"dropped", "killed"}
        PROVE  r \in cancelled
    <3>1. (Consume(r) /\ Refused(r)) \/ Told(r)
      BY <1>0, <1>8, <2>2 DEF HubSteps, Consume, WriteJobKey, EndJob
    <3>2. flags = {}
      BY <2>2
    <3>3. CASE Consume(r) /\ Refused(r)
      <4>1. publish[r] # "cleared"
        BY <1>0, <2>2, <3>3 DEF Consume, Lives
      <4>2. ~(publishedAt[r] < cutoff)
        BY <1>0, <2>2, <4>1
      <4> QED BY <3>2, <3>3, <4>2 DEF Refused
    <3> QED BY <3>1, <3>2, <3>3 DEF Told
  <2> QED BY <2>1, <2>2
<1>9. CASE Expiry
  BY <1>9 DEF Expiry, FlagExpires
<1> QED BY <1>1, <1>2, <1>3, <1>4, <1>5, <1>6, <1>7, <1>8, <1>9, StepsSplit DEF stopVars, PublishSteps

\* A Run pressed after Stop is neither dropped nor killed by what Stop left, for every value of
\* the constants.
THEOREM RunsAfterStop == StopSpec => []RunAfterStopRuns
<1>1. FreshRuns => RunAfterStopRuns
  BY DEF FreshRuns, RunAfterStopRuns
<1> QED BY <1>1, StopTypesInit, StopTypesKept, TimesInit, TimesKept, LivesInit, LivesKept, FreshInit,
           FreshKept, PTL DEF StopSpec

-----------------------------------------------------------------------------
(* Accounts, proxies and sessions (AccountPool).                           *)

(* Type correctness.                                                       *)

Results == {"ok", "warning", "unknown", "disabled"}

\* The writes to pins, each of which leaves the sessions alone, and those to sessions.
PinStep ==
    \/ \E o \in Operators : UpdatePin(o) \/ \E a \in Accounts, p \in Proxies : SelectTarget(o, a, p)
    \/ \E a \in Accounts : ResetPin(a) \/ HubMeetsCheckpoint(a)
    \/ \E a \in Accounts, on \in BOOLEAN : SetEnabled(a, on)
    \/ \E a \in Accounts, p \in Proxies : HubPins(a, p)
    \/ \E p \in Proxies : UpdateProxy(p)

SessionStep ==
    \/ \E a \in Accounts : HubFindsDead(a)
    \/ \E a \in Accounts, cookie \in BOOLEAN : UpdateAccount(a, cookie)
    \/ \E a \in Accounts, r \in Results : RecordCheck(a, r)

LEMMA AccountSteps == AccountNext => PinStep \/ SessionStep
<1> SUFFICES ASSUME AccountNext PROVE PinStep \/ SessionStep
  OBVIOUS
<1>1. CASE \E o \in Operators : UpdatePin(o) \/ \E a \in Accounts, p \in Proxies : SelectTarget(o, a, p)
  BY <1>1 DEF PinStep
<1>2. CASE \E p \in Proxies : UpdateProxy(p)
  BY <1>2 DEF PinStep
<1>3. ASSUME NEW a \in Accounts,
             \/ ResetPin(a) \/ HubMeetsCheckpoint(a) \/ HubFindsDead(a)
             \/ \E b \in BOOLEAN : SetEnabled(a, b) \/ UpdateAccount(a, b)
             \/ \E r \in Results : RecordCheck(a, r)
             \/ \E p \in Proxies : HubPins(a, p)
      PROVE  PinStep \/ SessionStep
  <2>1. CASE ResetPin(a) \/ HubMeetsCheckpoint(a) \/ HubFindsDead(a)
    BY <2>1 DEF PinStep, SessionStep
  <2>2. CASE \E b \in BOOLEAN : SetEnabled(a, b) \/ UpdateAccount(a, b)
    BY <2>2 DEF PinStep, SessionStep
  <2>3. CASE \E r \in Results : RecordCheck(a, r)
    BY <2>3 DEF SessionStep
  <2>4. CASE \E p \in Proxies : HubPins(a, p)
    BY <2>4 DEF PinStep
  <2> QED BY <1>3, <2>1, <2>2, <2>3, <2>4
<1> QED BY <1>1, <1>2, <1>3 DEF AccountNext, Results

LEMMA AccountTypesInit == AccountInit => AccountTypeOK
<1> SUFFICES ASSUME AccountInit PROVE AccountTypeOK
  OBVIOUS
<1>1. pin \in [Accounts -> Proxies \cup {Unpinned}] /\ pinning \in [Operators -> SUBSET (Accounts \X Proxies)]
  BY DEF AccountInit
<1>2. check \in [Accounts -> {"none", "dead", "ok", "warning", "unknown", "disabled"}]
  BY DEF AccountInit
<1>3. edits \in 0 .. MaxEdits
  BY AccountAssumption DEF AccountInit
<1> QED BY <1>1, <1>2, <1>3 DEF AccountInit, AccountTypeOK

LEMMA EditTyped == AccountTypeOK /\ Edit => edits' \in 0 .. MaxEdits
BY AccountAssumption DEF Edit, AccountTypeOK

LEMMA AccountTypesKept == AccountTypeOK /\ [AccountNext]_accountVars => AccountTypeOK'
<1> SUFFICES ASSUME AccountTypeOK, [AccountNext]_accountVars PROVE AccountTypeOK'
  OBVIOUS
<1> USE DEF AccountTypeOK, pinVars, sessionVars
<1>1. CASE UNCHANGED accountVars
  BY <1>1 DEF accountVars
<1>2. ASSUME NEW o \in Operators, UpdatePin(o) PROVE AccountTypeOK'
  <2>1. PICK x \in pinning[o] :
            /\ pin' = [pin EXCEPT ![x[1]] = x[2]]
            /\ unchecked' = IF o \in overtaken THEN unchecked \cup {x[1]} ELSE unchecked \ {x[1]}
    BY <1>2 DEF UpdatePin
  <2>2. x[1] \in Accounts /\ x[2] \in Proxies
    OBVIOUS
  <2>3. pin' \in [Accounts -> Proxies \cup {Unpinned}] /\ unchecked' \subseteq Accounts
    BY <2>1, <2>2
  <2>4. pinning' \in [Operators -> SUBSET (Accounts \X Proxies)] /\ overtaken' \subseteq Operators
    BY <1>2 DEF UpdatePin, Selected
  <2> QED BY <1>2, <2>3, <2>4 DEF UpdatePin
<1>3. ASSUME NEW o \in Operators, NEW a \in Accounts, NEW p \in Proxies, SelectTarget(o, a, p)
      PROVE  AccountTypeOK'
  <2>1. <<a, p>> \in Accounts \X Proxies
    OBVIOUS
  <2>2. pinning' \in [Operators -> SUBSET (Accounts \X Proxies)]
    BY <1>3, <2>1 DEF SelectTarget
  <2> QED BY <1>3, <2>2, EditTyped DEF SelectTarget
<1>4. ASSUME NEW a \in Accounts, ResetPin(a) \/ HubMeetsCheckpoint(a) PROVE AccountTypeOK'
  BY <1>4, EditTyped DEF ResetPin, HubMeetsCheckpoint
<1>5. ASSUME NEW a \in Accounts, NEW on \in BOOLEAN, SetEnabled(a, on) PROVE AccountTypeOK'
  <2>1. enabled' \subseteq Accounts /\ checkpoint' \subseteq Accounts
    BY <1>5 DEF SetEnabled
  <2>2. overtaken' \subseteq Operators /\ unchecked' \subseteq Accounts
    BY <1>5 DEF SetEnabled, Selected
  <2> QED BY <1>5, <2>1, <2>2, EditTyped DEF SetEnabled
<1>6. ASSUME NEW a \in Accounts, NEW p \in Proxies, HubPins(a, p) PROVE AccountTypeOK'
  BY <1>6, EditTyped DEF HubPins, Selected
<1>7. ASSUME NEW p \in Proxies, UpdateProxy(p) PROVE AccountTypeOK'
  <2>1. address' \in [Proxies -> Addresses] /\ ipType' \in [Proxies -> {"static", "rotating", "unknown"}]
    BY <1>7 DEF UpdateProxy
  <2>2. overtaken' \subseteq Operators /\ unchecked' \subseteq Accounts
    BY <1>7 DEF UpdateProxy, Selected
  <2> QED BY <1>7, <2>1, <2>2, EditTyped DEF UpdateProxy
<1>8. CASE SessionStep
  BY <1>8, EditTyped DEF SessionStep, Results, HubFindsDead, UpdateAccount, TouchedBy, RecordCheck
<1> QED BY <1>1, <1>2, <1>3, <1>4, <1>5, <1>6, <1>7, <1>8, AccountSteps DEF PinStep

\* The types, for every value of the constants.
THEOREM AccountTypes == AccountSpec => []AccountTypeOK
BY AccountTypesInit, AccountTypesKept, PTL DEF AccountSpec

------------------------------------------------------------------------------
(* A dead session.  Since spider-hub called it dead the row was touched    *)
(* only if there is a new cookie, so the WHERE of the health check spares  *)
(* it.                                                                     *)

DeadUntouched == \A a \in Accounts : check[a] = "dead" /\ a \notin renewed => a \notin touched

LEMMA DeadInit == AccountInit => DeadUntouched
BY DEF AccountInit, DeadUntouched

LEMMA PinStepKeepsSessions == PinStep => UNCHANGED <<check, touched, renewed>>
BY DEF PinStep, UpdatePin, SelectTarget, ResetPin, HubMeetsCheckpoint, SetEnabled, HubPins, UpdateProxy, sessionVars

LEMMA DeadKept == AccountTypeOK /\ DeadUntouched /\ [AccountNext]_accountVars => DeadUntouched'
<1> SUFFICES ASSUME AccountTypeOK, DeadUntouched, [AccountNext]_accountVars PROVE DeadUntouched'
  OBVIOUS
<1>1. CASE UNCHANGED <<check, touched, renewed>>
  BY <1>1 DEF DeadUntouched
<1>2. CASE SessionStep
  BY <1>2 DEF DeadUntouched, AccountTypeOK, SessionStep, Results, HubFindsDead, UpdateAccount, TouchedBy,
     RecordCheck
<1> QED BY <1>1, <1>2, AccountSteps, PinStepKeepsSessions DEF accountVars, sessionVars

\* A dead session stays dead until there is a cookie, for every value of the constants.
THEOREM DeadStaysDead == AccountSpec => DeadUntilCookie
<1> DEFINE Stays == \A a \in Accounts : check[a] = "dead" /\ a \notin renewed => check'[a] = "dead"
<1>1. AccountTypeOK /\ DeadUntouched /\ [AccountNext]_accountVars => [Stays]_accountVars
  <2> SUFFICES ASSUME AccountTypeOK, DeadUntouched, AccountNext,
                      NEW a \in Accounts, check[a] = "dead", a \notin renewed
               PROVE  check'[a] = "dead"
    OBVIOUS
  <2>1. CASE SessionStep
    BY <2>1 DEF DeadUntouched, AccountTypeOK, SessionStep, Results, HubFindsDead, UpdateAccount, RecordCheck
  <2> QED BY <2>1, AccountSteps, PinStepKeepsSessions
<1> QED BY <1>1, AccountTypesInit, AccountTypesKept, DeadInit, DeadKept, PTL DEF AccountSpec, DeadUntilCookie

------------------------------------------------------------------------------
(* One address each.  What a request has read is still so when it writes,  *)
(* unless another write has overtaken it.                                  *)

\* Both accounts are of the pool and have one address.
Clash(a, b) ==
    /\ a # b /\ InPool(a) /\ InPool(b) /\ pin[a] # Unpinned /\ pin[b] # Unpinned
    /\ address[pin[a]] = address[pin[b]]

ClashesUnchecked == \A a, b \in Accounts : Clash(a, b) => a \in unchecked \/ b \in unchecked

\* The account of a request that no other has overtaken would be alone at the address.
SelectionHolds ==
    \A o \in Operators \ overtaken : \A x \in pinning[o] : \A b \in Accounts :
        b # x[1] /\ InPool(b) /\ pin[b] # Unpinned => address[pin[b]] # address[x[2]]

\* Accounts that stay as they were, or leave the pool or their pin, have no new clash.
Settled(a) == InPool(a)' /\ pin'[a] # Unpinned => InPool(a) /\ pin'[a] = pin[a] /\ address'[pin[a]] = address[pin[a]]

LEMMA SettledPairs ==
    ASSUME ClashesUnchecked, NEW a \in Accounts, NEW b \in Accounts, Settled(a), Settled(b), Clash(a, b)'
    PROVE  a \in unchecked \/ b \in unchecked
BY DEF ClashesUnchecked, Settled, Clash

LEMMA AddressInit == AccountInit => ClashesUnchecked /\ SelectionHolds
BY DEF AccountInit, ClashesUnchecked, SelectionHolds, Clash

\* A write that all requests under way are overtaken by.
LEMMA OvertakenHold ==
    ASSUME \A o \in Operators : pinning'[o] # {} => o \in overtaken'
    PROVE  SelectionHolds'
BY DEF SelectionHolds

\* One that changes no address, adds nothing to the pool and moves no pin.
LEMMA SettledHold ==
    ASSUME SelectionHolds, UNCHANGED <<pinning, overtaken, address>>, \A a \in Accounts : Settled(a)
    PROVE  SelectionHolds'
BY DEF SelectionHolds, Settled

LEMMA SettledClashes ==
    ASSUME ClashesUnchecked, \A a \in Accounts : Settled(a), unchecked \subseteq unchecked'
    PROVE  ClashesUnchecked'
<1> SUFFICES ASSUME NEW a \in Accounts, NEW b \in Accounts, Clash(a, b)'
             PROVE  a \in unchecked' \/ b \in unchecked'
  BY DEF ClashesUnchecked
<1> QED BY SettledPairs

\* One account has a new pin, is back in the pool with the one it had, or has lost it.
LEMMA OtherPairs ==
    ASSUME ClashesUnchecked, NEW a \in Accounts, \A b \in Accounts \ {a} : Settled(b),
           unchecked \ {a} \subseteq unchecked',
           a \in unchecked' \/ \A b \in Accounts : ~Clash(a, b)' /\ ~Clash(b, a)'
    PROVE  ClashesUnchecked'
<1> SUFFICES ASSUME NEW c \in Accounts, NEW d \in Accounts, Clash(c, d)'
             PROVE  c \in unchecked' \/ d \in unchecked'
  BY DEF ClashesUnchecked
<1>1. CASE c = a \/ d = a
  BY <1>1
<1>2. CASE c # a /\ d # a
  <2>1. c \in unchecked \/ d \in unchecked
    BY <1>2, SettledPairs
  <2> QED BY <1>2, <2>1
<1> QED BY <1>1, <1>2

LEMMA UpdatePinKeeps ==
    ASSUME AccountTypeOK, ClashesUnchecked, SelectionHolds, NEW o \in Operators, UpdatePin(o)
    PROVE  ClashesUnchecked' /\ SelectionHolds'
<1>1. PICK x \in pinning[o] :
          /\ pin' = [pin EXCEPT ![x[1]] = x[2]]
          /\ unchecked' = IF o \in overtaken THEN unchecked \cup {x[1]} ELSE unchecked \ {x[1]}
  BY DEF UpdatePin
<1>2. UNCHANGED <<enabled, checkpoint, address>> /\ pinning' = [pinning EXCEPT ![o] = {}]
      /\ overtaken' = (overtaken \cup Selected) \ {o}
  BY DEF UpdatePin
<1>3. x[1] \in Accounts /\ x[2] \in Proxies /\ x[2] # Unpinned
  BY AccountAssumption DEF AccountTypeOK
<1>4. pin'[x[1]] = x[2] /\ \A b \in Accounts : b # x[1] => pin'[b] = pin[b]
  BY <1>1, <1>3 DEF AccountTypeOK
<1>5. \A b \in Accounts \ {x[1]} : Settled(b)
  BY <1>2, <1>4 DEF Settled, InPool
<1>6. unchecked \ {x[1]} \subseteq unchecked'
  BY <1>1
<1>7. ASSUME o \notin overtaken, NEW b \in Accounts PROVE ~Clash(x[1], b)' /\ ~Clash(b, x[1])'
  <2> SUFFICES ASSUME b # x[1], InPool(b), pin'[b] # Unpinned PROVE address[pin'[b]] # address[pin'[x[1]]]
    BY <1>2 DEF Clash, InPool
  <2> QED BY <1>4, <1>7 DEF SelectionHolds
<1>8. x[1] \in unchecked' \/ \A b \in Accounts : ~Clash(x[1], b)' /\ ~Clash(b, x[1])'
  BY <1>1, <1>7
<1>9. ClashesUnchecked'
  BY <1>3, <1>5, <1>6, <1>8, OtherPairs
<1>10. SelectionHolds'
  <2>1. \A q \in Operators : pinning'[q] # {} => q \in overtaken'
    BY <1>2 DEF Selected, AccountTypeOK
  <2> QED BY <2>1, OvertakenHold
<1> QED BY <1>9, <1>10

LEMMA SelectKeeps ==
    ASSUME AccountTypeOK, ClashesUnchecked, SelectionHolds,
           NEW o \in Operators, NEW a \in Accounts, NEW p \in Proxies, SelectTarget(o, a, p)
    PROVE  ClashesUnchecked' /\ SelectionHolds'
<1>1. UNCHANGED <<enabled, checkpoint, pin, address, unchecked>>
  BY DEF SelectTarget
<1>2. ClashesUnchecked'
  BY <1>1 DEF ClashesUnchecked, Clash, InPool
<1>3. \A b \in Accounts : b # a /\ InPool(b) /\ pin[b] # Unpinned => address[pin[b]] # address[p]
  BY DEF SelectTarget, PinRefused, Others, SameAddress
<1>4. SelectionHolds'
  <2> SUFFICES ASSUME NEW q \in Operators \ overtaken', NEW x \in pinning'[q], NEW b \in Accounts,
                      b # x[1], InPool(b), pin[b] # Unpinned
               PROVE  address[pin[b]] # address[x[2]]
    BY <1>1 DEF SelectionHolds, InPool
  <2>1. CASE q = o
    <3>1. x = <<a, p>>
      BY <2>1 DEF SelectTarget, AccountTypeOK
    <3> QED BY <1>3, <3>1
  <2>2. CASE q # o
    BY <2>2 DEF SelectTarget, SelectionHolds, AccountTypeOK
  <2> QED BY <2>1, <2>2
<1> QED BY <1>2, <1>4

LEMMA ResetKeeps ==
    ASSUME AccountTypeOK, ClashesUnchecked, SelectionHolds, NEW a \in Accounts, ResetPin(a)
    PROVE  ClashesUnchecked' /\ SelectionHolds'
<1>1. UNCHANGED <<enabled, checkpoint, address, pinning, overtaken>> /\ pin'[a] = Unpinned
      /\ unchecked' = unchecked \ {a} /\ \A b \in Accounts : b # a => pin'[b] = pin[b]
  BY DEF ResetPin, AccountTypeOK
<1>2. \A b \in Accounts : Settled(b)
  BY <1>1 DEF Settled, InPool
<1>3. \A b \in Accounts : ~Clash(a, b)' /\ ~Clash(b, a)'
  BY <1>1 DEF Clash
<1>4. unchecked \ {a} \subseteq unchecked'
  BY <1>1
<1>5. ClashesUnchecked'
  BY <1>2, <1>3, <1>4, OtherPairs
<1> QED BY <1>1, <1>2, <1>5, SettledHold

LEMMA EnableKeeps ==
    ASSUME AccountTypeOK, ClashesUnchecked, SelectionHolds, NEW a \in Accounts, NEW on \in BOOLEAN,
           SetEnabled(a, on)
    PROVE  ClashesUnchecked' /\ SelectionHolds'
<1>1. UNCHANGED <<pin, address, pinning>> /\ \A b \in Accounts \ {a} : Settled(b)
  BY DEF SetEnabled, Settled, InPool
<1>2. CASE on /\ ~InPool(a)
  <2>1. overtaken' = overtaken \cup Selected
        /\ unchecked' = IF pin[a] # Unpinned THEN unchecked \cup {a} ELSE unchecked
    BY <1>2 DEF SetEnabled
  <2>2. a \in unchecked' \/ \A b \in Accounts : ~Clash(a, b)' /\ ~Clash(b, a)'
    BY <1>1, <2>1 DEF Clash
  <2>3. unchecked \ {a} \subseteq unchecked'
    BY <2>1
  <2>4. ClashesUnchecked'
    BY <1>1, <2>2, <2>3, OtherPairs
  <2>5. \A q \in Operators : pinning'[q] # {} => q \in overtaken'
    BY <1>1, <2>1 DEF Selected
  <2> QED BY <2>4, <2>5, OvertakenHold
<1>3. CASE ~(on /\ ~InPool(a))
  <2>1. Settled(a) /\ UNCHANGED <<overtaken, unchecked>>
    BY <1>1, <1>3 DEF SetEnabled, Settled, InPool
  <2>2. \A b \in Accounts : Settled(b)
    BY <1>1, <2>1
  <2> QED BY <1>1, <2>1, <2>2, SettledHold, SettledClashes
<1> QED BY <1>2, <1>3

LEMMA HubPinsKeeps ==
    ASSUME AccountTypeOK, ClashesUnchecked, SelectionHolds, NEW a \in Accounts, NEW p \in Proxies,
           HubPins(a, p)
    PROVE  ClashesUnchecked' /\ SelectionHolds'
<1>1. UNCHANGED <<enabled, checkpoint, address, pinning>> /\ pin'[a] = p /\ unchecked' = unchecked \ {a}
      /\ overtaken' = overtaken \cup Selected /\ \A b \in Accounts : b # a => pin'[b] = pin[b]
  BY DEF HubPins, AccountTypeOK
<1>2. \A b \in Accounts : b # a /\ InPool(b) /\ pin[b] # Unpinned => address[pin[b]] # address[p]
  BY DEF HubPins, PinRefused, Others, SameAddress
<1>3. \A b \in Accounts : ~Clash(a, b)' /\ ~Clash(b, a)'
  BY <1>1, <1>2 DEF Clash, InPool
<1>4. \A b \in Accounts \ {a} : Settled(b)
  BY <1>1 DEF Settled, InPool
<1>5. unchecked \ {a} \subseteq unchecked'
  BY <1>1
<1>6. ClashesUnchecked'
  BY <1>3, <1>4, <1>5, OtherPairs
<1>7. \A q \in Operators : pinning'[q] # {} => q \in overtaken'
  BY <1>1 DEF Selected
<1> QED BY <1>6, <1>7, OvertakenHold

LEMMA ProxyKeeps ==
    ASSUME AccountTypeOK, ClashesUnchecked, SelectionHolds, NEW p \in Proxies, UpdateProxy(p)
    PROVE  ClashesUnchecked' /\ SelectionHolds'
<1>1. UNCHANGED <<enabled, checkpoint, pin, pinning>> /\ overtaken' = overtaken \cup Selected
      /\ unchecked' = unchecked \cup {a \in Accounts : pin[a] = p}
  BY DEF UpdateProxy
<1>2. \A q \in Proxies : q # p => address'[q] = address[q]
  BY DEF UpdateProxy, AccountTypeOK
<1>3. \A a \in Accounts : a \in unchecked' \/ Settled(a)
  BY <1>1, <1>2 DEF Settled, InPool, AccountTypeOK
<1>4. ClashesUnchecked'
  <2> SUFFICES ASSUME NEW a \in Accounts, NEW b \in Accounts, Clash(a, b)', a \notin unchecked', b \notin unchecked'
               PROVE  FALSE
    BY DEF ClashesUnchecked
  <2>1. a \in unchecked \/ b \in unchecked
    BY <1>3, SettledPairs
  <2> QED BY <1>1, <2>1
<1>5. \A q \in Operators : pinning'[q] # {} => q \in overtaken'
  BY <1>1 DEF Selected
<1> QED BY <1>4, <1>5, OvertakenHold

LEMMA AddressKept ==
    AccountTypeOK /\ ClashesUnchecked /\ SelectionHolds /\ [AccountNext]_accountVars
        => ClashesUnchecked' /\ SelectionHolds'
<1> SUFFICES ASSUME AccountTypeOK, ClashesUnchecked, SelectionHolds, [AccountNext]_accountVars
             PROVE  ClashesUnchecked' /\ SelectionHolds'
  OBVIOUS
<1>1. CASE UNCHANGED pinVars
  BY <1>1 DEF pinVars, ClashesUnchecked, SelectionHolds, Clash, InPool
<1>2. CASE SessionStep
  <2>1. UNCHANGED pinVars
    BY <1>2 DEF SessionStep, HubFindsDead, UpdateAccount, RecordCheck
  <2> QED BY <1>1, <2>1
<1>3. ASSUME NEW a \in Accounts, HubMeetsCheckpoint(a) PROVE ClashesUnchecked' /\ SelectionHolds'
  <2>1. UNCHANGED <<pin, address, pinning, overtaken, unchecked>> /\ \A b \in Accounts : Settled(b)
    BY <1>3 DEF HubMeetsCheckpoint, Settled, InPool
  <2> QED BY <2>1, SettledHold, SettledClashes
<1>4. CASE PinStep
  BY <1>3, <1>4, UpdatePinKeeps, SelectKeeps, ResetKeeps, EnableKeeps, HubPinsKeeps, ProxyKeeps DEF PinStep
<1> QED BY <1>1, <1>2, <1>4, AccountSteps DEF accountVars

\* The accounts of the pool have an address each, with the exceptions the property names, for
\* every value of the constants.
THEOREM AddressesDiffer == AccountSpec => []OneAddressEach
<1>1. ClashesUnchecked => OneAddressEach
  BY DEF ClashesUnchecked, OneAddressEach, Clash
<1> QED BY <1>1, AccountTypesInit, AccountTypesKept, AddressInit, AddressKept, PTL DEF AccountSpec

-----------------------------------------------------------------------------
(* Reports and their appointments (ReportJobs).                            *)

ServeStates == [films : SUBSET Films, film : SUBSET Films, read : -1 .. LastSample]
ReportTasks == [film : Films, click : 1 .. LastClick, read : -1 .. LastSample]

WebTyped ==
    /\ sample \in [Films -> 0 .. LastSample] /\ report \in [Films -> -1 .. LastSample]
    /\ clicks \in 0 .. LastClick /\ jobs \in [Films -> {"none", "queued", "running", "done", "failed"}]
    /\ tasks \subseteq ReportTasks

ScheduleTyped ==
    /\ appointment \subseteq Films
    /\ lastResult \in [Films -> {"none", "running", "generated", "error"}]
    /\ serving \in [Calls -> ServeStates]
    /\ booked \in [Films -> 0 .. LastBooking] /\ made \in [Films -> Nat]
    /\ crossed \subseteq Films /\ dropped \subseteq Films /\ mishaps \in 0 .. MaxMishaps

LEMMA ReportTypesSplit == ReportTypeOK <=> WebTyped /\ ScheduleTyped
BY DEF ReportTypeOK, WebTyped, ScheduleTyped, ServeStates, ReportTasks

LEMMA MishapTyped == ASSUME mishaps \in 0 .. MaxMishaps, Mishap PROVE mishaps' \in 0 .. MaxMishaps
BY ReportAssumption DEF Mishap

LEMMA ReportInitTyped == ReportInit => WebTyped /\ ScheduleTyped
<1> SUFFICES ASSUME ReportInit PROVE WebTyped /\ ScheduleTyped
  OBVIOUS
<1>1. NotServing \in ServeStates
  BY ReportAssumption DEF NotServing, ServeStates
<1>2. 0 \in 0 .. LastSample /\ -1 \in -1 .. LastSample /\ 0 \in 0 .. LastClick /\ 0 \in 0 .. LastBooking /\ 0 \in 0 .. MaxMishaps
  BY ReportAssumption
<1> QED BY <1>1, <1>2 DEF ReportInit, WebTyped, ScheduleTyped

LEMMA EnqueueTyped ==
    ASSUME WebTyped, ScheduleTyped, NEW f \in Films, EnqueueReport(f)
    PROVE  WebTyped' /\ ScheduleTyped'
<1>1. clicks' \in 1 .. LastClick /\ -1 \in -1 .. LastSample
  BY ReportAssumption DEF EnqueueReport, WebTyped
<1>2. [film |-> f, click |-> clicks', read |-> -1] \in ReportTasks
  BY <1>1 DEF ReportTasks
<1>3. jobs' \in [Films -> {"none", "queued", "running", "done", "failed"}]
  <2>1. PICK old \in SUBSET Films :
          jobs' = [g \in Films |-> IF g = f THEN "queued" ELSE IF g \in old THEN "none" ELSE jobs[g]]
    BY DEF EnqueueReport
  <2> QED BY <2>1 DEF WebTyped
<1>4. tasks' \subseteq ReportTasks
  BY <1>2 DEF EnqueueReport, WebTyped
<1> QED BY <1>1, <1>3, <1>4 DEF EnqueueReport, WebTyped, ScheduleTyped, reportStore, reportHistory

LEMMA RunTyped ==
    ASSUME WebTyped, ScheduleTyped, NEW t \in tasks, RunReport(t)
    PROVE  WebTyped' /\ ScheduleTyped' /\ [t EXCEPT !.read = sample[t.film]] \in ReportTasks
<1>1. t \in ReportTasks /\ sample[t.film] \in 0 .. LastSample /\ 0 .. LastSample \subseteq -1 .. LastSample
  BY DEF WebTyped, ReportTasks
<1>2. [t EXCEPT !.read = sample[t.film]] \in ReportTasks
  BY <1>1 DEF ReportTasks
<1>3. jobs' \in [Films -> {"none", "queued", "running", "done", "failed"}]
  BY DEF RunReport, WebTyped
<1>4. crossed' \subseteq Films
  BY <1>1 DEF RunReport, Crossing, ScheduleTyped, ReportTasks
<1>5. tasks' \subseteq ReportTasks
  BY <1>2 DEF RunReport, WebTyped
<1> QED BY <1>2, <1>3, <1>4, <1>5 DEF RunReport, WebTyped, ScheduleTyped, reportStore

LEMMA EndTyped ==
    ASSUME WebTyped, ScheduleTyped, NEW t \in tasks, EndReport(t)
    PROVE  WebTyped' /\ ScheduleTyped'
<1>1. t.film \in Films /\ t.read \in -1 .. LastSample
  BY DEF WebTyped, ReportTasks
<1>2. report' \in [Films -> -1 .. LastSample]
  BY <1>1 DEF EndReport, WebTyped
<1>3. jobs' \in [Films -> {"none", "queued", "running", "done", "failed"}]
  BY DEF EndReport, WebTyped
<1>4. mishaps' \in 0 .. MaxMishaps
  BY MishapTyped DEF EndReport, ScheduleTyped
<1>5. tasks' \subseteq ReportTasks
  BY DEF EndReport, WebTyped
<1> QED BY <1>2, <1>3, <1>4, <1>5 DEF EndReport, WebTyped, ScheduleTyped

\* A call of run_due_reports goes on in r.
LEMMA ServingTyped ==
    ASSUME ScheduleTyped, NEW s \in Calls, NEW r \in ServeStates, serving' = [serving EXCEPT ![s] = r]
    PROVE  serving' \in [Calls -> ServeStates] /\ serving'[s] = r /\ \A q \in Calls \ {s} : serving'[q] = serving[q]
BY DEF ScheduleTyped

\* The states in which a call goes on.
LEMMA ServeStatesTyped ==
    ASSUME WebTyped, ScheduleTyped, NEW s \in Calls
    PROVE  /\ NotServing \in ServeStates
           /\ [serving[s] EXCEPT !.films = appointment] \in ServeStates
           /\ [serving[s] EXCEPT !.film = {}, !.read = -1] \in ServeStates
           /\ \A f \in Films : [films |-> serving[s].films \ {f}, film |-> {f}, read |-> sample[f]] \in ServeStates
<1>1. serving[s] \in ServeStates /\ -1 \in -1 .. LastSample /\ \A f \in Films : sample[f] \in -1 .. LastSample
  BY ReportAssumption DEF ScheduleTyped, WebTyped
<1> QED BY <1>1 DEF ServeStates, NotServing, ScheduleTyped

\* The three ends of a film, in the hands of call s.
Written(s, f) ==
    /\ report' = [report EXCEPT ![f] = serving[s].read]
    /\ lastResult' = [lastResult EXCEPT ![f] = "generated"]
    /\ UNCHANGED <<dropped, mishaps>>
Failed(s, f) == Mishap /\ lastResult' = [lastResult EXCEPT ![f] = "error"] /\ UNCHANGED <<report, dropped>>
Unsaid(s, f) ==
    /\ Mishap /\ report' = [report EXCEPT ![f] = serving[s].read]
    /\ dropped' = dropped \cup {f} /\ UNCHANGED lastResult

LEMMA FilmServedIs ==
    ASSUME NEW s \in Calls, FilmServed(s), ScheduleTyped
    PROVE  /\ serving' = [serving EXCEPT ![s] = [serving[s] EXCEPT !.film = {}, !.read = -1]]
           /\ UNCHANGED <<sample, appointment, webReports, booked, made, crossed>>
           /\ \E f \in serving[s].film : Written(s, f) \/ Failed(s, f) \/ Unsaid(s, f)
BY DEF FilmServed, Written, Failed, Unsaid, AfterError, ScheduleTyped

LEMMA ServeStepTyped ==
    ASSUME WebTyped, ScheduleTyped, NEW s \in Calls,
           ClaimDue(s) \/ ServeFilm(s) \/ FilmServed(s) \/ KillServer(s)
    PROVE  WebTyped' /\ ScheduleTyped'
<1> USE DEF reportStore, webReports
<1>1. CASE ClaimDue(s)
  <2>1. lastResult' \in [Films -> {"none", "running", "generated", "error"}] /\ appointment' \subseteq Films
    BY <1>1 DEF ClaimDue, DateTaken, ScheduleTyped
  <2>2. CASE serving' = [serving EXCEPT ![s].films = appointment] /\ UNCHANGED <<dropped, mishaps>>
    <3>1. serving' = [serving EXCEPT ![s] = [serving[s] EXCEPT !.films = appointment]]
      BY <2>2 DEF ScheduleTyped
    <3>2. serving' \in [Calls -> ServeStates]
      BY <3>1, ServingTyped, ServeStatesTyped
    <3> QED BY <1>1, <2>1, <2>2, <3>2 DEF ClaimDue, WebTyped, ScheduleTyped
  <2>3. CASE Mishap /\ dropped' = dropped \cup appointment /\ UNCHANGED serving
    BY <1>1, <2>1, <2>3, MishapTyped DEF ClaimDue, WebTyped, ScheduleTyped
  <2> QED BY <1>1, <2>2, <2>3 DEF ClaimDue
<1>2. CASE ServeFilm(s)
  <2>1. PICK f \in serving[s].films :
          /\ serving' = [serving EXCEPT ![s] = [films |-> @.films \ {f}, film |-> {f}, read |-> sample[f]]]
          /\ made' = [made EXCEPT ![f] = @ + 1]
          /\ Crossing(f, ByButton(f) \/ ByCall(f))
    BY <1>2 DEF ServeFilm
  <2>2. f \in Films
    BY DEF ScheduleTyped, ServeStates
  <2>3. serving' \in [Calls -> ServeStates]
    BY <2>1, <2>2, ServingTyped, ServeStatesTyped
  <2>4. made' \in [Films -> Nat] /\ crossed' \subseteq Films
    BY <2>1, <2>2 DEF ScheduleTyped, Crossing
  <2> QED BY <1>2, <2>3, <2>4 DEF ServeFilm, WebTyped, ScheduleTyped
<1>3. CASE FilmServed(s)
  <2>1. PICK f \in serving[s].film : Written(s, f) \/ Failed(s, f) \/ Unsaid(s, f)
    BY <1>3, FilmServedIs
  <2>2. f \in Films /\ serving[s].read \in -1 .. LastSample
    BY DEF ScheduleTyped, ServeStates
  <2>3. serving' \in [Calls -> ServeStates] /\ UNCHANGED <<sample, appointment, webReports, booked, made, crossed>>
    BY <1>3, FilmServedIs, ServingTyped, ServeStatesTyped
  <2>4. report' \in [Films -> -1 .. LastSample]
    BY <2>1, <2>2 DEF Written, Failed, Unsaid, WebTyped
  <2>5. lastResult' \in [Films -> {"none", "running", "generated", "error"}]
    BY <2>1 DEF Written, Failed, Unsaid, ScheduleTyped
  <2>6. mishaps' \in 0 .. MaxMishaps /\ dropped' \subseteq Films
    BY <2>1, <2>2, MishapTyped DEF Written, Failed, Unsaid, ScheduleTyped
  <2> QED BY <2>3, <2>4, <2>5, <2>6 DEF WebTyped, ScheduleTyped
<1>4. CASE KillServer(s)
  <2>1. serving' \in [Calls -> ServeStates]
    BY <1>4, ServingTyped, ServeStatesTyped DEF KillServer
  <2>2. dropped' \subseteq Films
    BY <1>4 DEF KillServer, ScheduleTyped, ServeStates
  <2> QED BY <1>4, <2>1, <2>2, MishapTyped DEF KillServer, WebTyped, ScheduleTyped
<1> QED BY <1>1, <1>2, <1>3, <1>4

LEMMA BatchStepTyped ==
    ASSUME WebTyped, ScheduleTyped, NEW b \in Calls,
           BatchBegins(b) \/ BatchTakes(b) \/ BatchServed(b) \/ BatchEnds(b)
    PROVE  WebTyped' /\ ScheduleTyped'
<1> USE DEF reportStore, webReports, reportHistory
<1>0. serving[b] \in ServeStates
  BY DEF ScheduleTyped
<1>1. CASE BatchBegins(b)
  <2>1. PICK fs \in SUBSET Films : serving' = [serving EXCEPT ![b].films = fs]
    BY <1>1 DEF BatchBegins
  <2>2. serving' = [serving EXCEPT ![b] = [serving[b] EXCEPT !.films = fs]] /\ [serving[b] EXCEPT !.films = fs] \in ServeStates
    BY <1>0, <2>1 DEF ScheduleTyped, ServeStates
  <2>3. serving' \in [Calls -> ServeStates]
    BY <2>2, ServingTyped
  <2> QED BY <1>1, <2>3 DEF BatchBegins, WebTyped, ScheduleTyped
<1>2. CASE BatchTakes(b)
  <2>1. PICK f \in serving[b].films :
          /\ serving' = [serving EXCEPT ![b] = [films |-> @.films \ {f}, film |-> {f}, read |-> sample[f]]]
          /\ Crossing(f, ByButton(f) \/ ByCall(f))
    BY <1>2 DEF BatchTakes
  <2>2. f \in Films
    BY <1>0 DEF ServeStates
  <2>3. serving' \in [Calls -> ServeStates]
    BY <2>1, <2>2, ServingTyped, ServeStatesTyped
  <2>4. crossed' \subseteq Films
    BY <2>1, <2>2 DEF ScheduleTyped, Crossing
  <2> QED BY <1>2, <2>3, <2>4 DEF BatchTakes, WebTyped, ScheduleTyped
<1>3. CASE BatchServed(b)
  <2>1. PICK f \in serving[b].film : report' \in {report, [report EXCEPT ![f] = serving[b].read]}
    BY <1>3 DEF BatchServed
  <2>2. report' \in [Films -> -1 .. LastSample]
    BY <1>0, <2>1 DEF ServeStates, WebTyped
  <2>3. serving' = [serving EXCEPT ![b] = [serving[b] EXCEPT !.film = {}, !.read = -1]]
    BY <1>3 DEF BatchServed, ScheduleTyped
  <2>4. serving' \in [Calls -> ServeStates]
    BY <2>3, ServingTyped, ServeStatesTyped
  <2> QED BY <1>3, <2>2, <2>4 DEF BatchServed, WebTyped, ScheduleTyped
<1>4. CASE BatchEnds(b)
  <2>1. serving' \in [Calls -> ServeStates]
    BY <1>4, ServingTyped, ServeStatesTyped DEF BatchEnds
  <2> QED BY <1>4, <2>1 DEF BatchEnds, WebTyped, ScheduleTyped
<1> QED BY <1>1, <1>2, <1>3, <1>4

LEMMA ReportNextTyped == WebTyped /\ ScheduleTyped /\ [ReportNext]_reportVars => WebTyped' /\ ScheduleTyped'
<1> SUFFICES ASSUME WebTyped, ScheduleTyped, [ReportNext]_reportVars PROVE WebTyped' /\ ScheduleTyped'
  OBVIOUS
<1> USE DEF reportStore, webReports, reportHistory
<1>1. ASSUME NEW f \in Films, CommentsChange(f) PROVE WebTyped' /\ ScheduleTyped'
  <2>1. sample' \in [Films -> 0 .. LastSample]
    BY <1>1, ReportAssumption DEF CommentsChange, WebTyped
  <2> QED BY <1>1, <2>1 DEF CommentsChange, WebTyped, ScheduleTyped
<1>2. ASSUME NEW f \in Films, AppointmentDue(f) PROVE WebTyped' /\ ScheduleTyped'
  <2>1. booked' \in [Films -> 0 .. LastBooking]
    BY <1>2, ReportAssumption DEF AppointmentDue, ScheduleTyped
  <2> QED BY <1>2, <2>1 DEF AppointmentDue, WebTyped, ScheduleTyped
<1>3. CASE RestartWeb
  <2>1. jobs' \in [Films -> {"none", "queued", "running", "done", "failed"}]
    BY <1>3 DEF RestartWeb
  <2> QED BY <1>3, <2>1, MishapTyped DEF RestartWeb, WebTyped, ScheduleTyped
<1>4. CASE UNCHANGED reportVars
  BY <1>4 DEF reportVars, WebTyped, ScheduleTyped
<1> QED BY <1>1, <1>2, <1>3, <1>4, EnqueueTyped, RunTyped, EndTyped, ServeStepTyped, BatchStepTyped DEF ReportNext, Calls

\* The jobs, the tasks and the calls have their types, for any number of films and processes.
THEOREM ReportTypes == ReportSpec => []ReportTypeOK
<1> QED BY ReportInitTyped, ReportNextTyped, ReportTypesSplit, PTL DEF ReportSpec

------------------------------------------------------------------------------
(* Appointments.  A booking is a date that has come, or a film in the      *)
(* hands of a call, or a generation that has begun, or it has been lost.   *)

\* The calls that have still to serve f.
Holding(f) == {s \in Servers : f \in serving[s].films}

DueCount(f) == IF f \in appointment THEN 1 ELSE 0

OneAtATime(s) == \A f, g \in serving[s].film : f = g

BookedOnce(f) ==
    IsFiniteSet(Holding(f)) /\ made[f] + Cardinality(Holding(f)) + DueCount(f) <= booked[f]

RunningIsHeld(f) ==
    lastResult[f] = "running" => f \in dropped \/ \E s \in Servers : f \in serving[s].films \cup serving[s].film

AppointmentInv ==
    /\ WebTyped /\ ScheduleTyped
    /\ \A s \in Servers : OneAtATime(s)
    /\ \A f \in Films : BookedOnce(f) /\ RunningIsHeld(f)

LEMMA AppointmentInit == ReportInit => AppointmentInv
<1> SUFFICES ASSUME ReportInit PROVE AppointmentInv
  OBVIOUS
<1>1. \A s \in Servers : OneAtATime(s)
  BY DEF ReportInit, OneAtATime, NotServing, Calls
<1>2. ASSUME NEW f \in Films PROVE BookedOnce(f) /\ RunningIsHeld(f)
  <2>1. Holding(f) = {}
    BY DEF ReportInit, Holding, NotServing, Calls
  <2>2. IsFiniteSet({}) /\ Cardinality({}) = 0
    BY FS_EmptySet
  <2>3. made[f] = 0 /\ booked[f] = 0 /\ DueCount(f) = 0 /\ lastResult[f] = "none"
    BY DEF ReportInit, DueCount
  <2>4. Cardinality(Holding(f)) = 0 /\ IsFiniteSet(Holding(f))
    BY <2>1, <2>2, Zenon
  <2>5. BookedOnce(f)
    BY <2>3, <2>4 DEF BookedOnce
  <2> QED BY <2>3, <2>5 DEF RunningIsHeld
<1> QED BY <1>1, <1>2, ReportInitTyped DEF AppointmentInv

\* A step that leaves the appointments of f where they are.
LEMMA SameHolders ==
    ASSUME NEW f, BookedOnce(f), UNCHANGED <<made[f], booked[f]>>, DueCount(f)' = DueCount(f), Holding(f)' = Holding(f)
    PROVE  BookedOnce(f)'
BY DEF BookedOnce

\* A step of another part of the system.
LEMMA AppointmentsStay ==
    ASSUME AppointmentInv, WebTyped', ScheduleTyped', UNCHANGED <<appointment, lastResult, booked, made, dropped>>,
           \A s \in Servers : serving'[s] = serving[s]
    PROVE  AppointmentInv'
<1>1. \A s \in Servers : OneAtATime(s)'
  BY DEF AppointmentInv, OneAtATime
<1>2. ASSUME NEW f \in Films PROVE (BookedOnce(f) /\ RunningIsHeld(f))'
  <2>1. Holding(f)' = Holding(f) /\ DueCount(f)' = DueCount(f)
    BY DEF Holding, DueCount
  <2>2. BookedOnce(f) /\ RunningIsHeld(f)
    BY DEF AppointmentInv
  <2>3. BookedOnce(f)'
    BY <2>1, <2>2, SameHolders
  <2> QED BY <2>2, <2>3 DEF RunningIsHeld
<1> QED BY <1>1, <1>2 DEF AppointmentInv

LEMMA DueKeeps ==
    ASSUME AppointmentInv, WebTyped', ScheduleTyped', NEW f \in Films, AppointmentDue(f)
    PROVE  AppointmentInv'
<1>0. /\ f \notin appointment /\ appointment' = appointment \cup {f} /\ booked' = [booked EXCEPT ![f] = @ + 1]
      /\ UNCHANGED <<lastResult, serving, made, dropped>>
  BY DEF AppointmentDue, webReports
<1>1. \A s \in Servers : OneAtATime(s)'
  BY <1>0 DEF AppointmentInv, OneAtATime
<1>2. ASSUME NEW g \in Films PROVE (BookedOnce(g) /\ RunningIsHeld(g))'
  <2>0. Holding(g)' = Holding(g)
    BY <1>0 DEF Holding
  <2>1. BookedOnce(g) /\ RunningIsHeld(g) /\ made[g] \in Nat /\ booked[g] \in Nat
    BY DEF AppointmentInv, ScheduleTyped
  <2>2. CASE g = f
    <3>1. booked'[g] = booked[g] + 1 /\ made'[g] = made[g]
      BY <1>0, <2>2 DEF AppointmentInv, ScheduleTyped
    <3>2. DueCount(g) = 0 /\ DueCount(g)' = 1
      BY <1>0, <2>2 DEF DueCount
    <3>3. Cardinality(Holding(g)) \in Nat
      BY <2>1, FS_CardinalityType DEF BookedOnce
    <3>4. Cardinality(Holding(g))' = Cardinality(Holding(g)) /\ IsFiniteSet(Holding(g))'
      BY <2>0, <2>1, Zenon DEF BookedOnce
    <3>5. BookedOnce(g)'
      BY <2>1, <3>1, <3>2, <3>3, <3>4 DEF BookedOnce
    <3> QED BY <1>0, <2>1, <3>5 DEF RunningIsHeld
  <2>3. CASE g # f
    <3>1. DueCount(g)' = DueCount(g) /\ made'[g] = made[g] /\ booked'[g] = booked[g]
      BY <1>0, <2>3 DEF DueCount, AppointmentInv, ScheduleTyped
    <3>2. BookedOnce(g)'
      BY <2>0, <2>1, <3>1, SameHolders
    <3> QED BY <1>0, <2>1, <3>2 DEF RunningIsHeld
  <2> QED BY <2>2, <2>3
<1> QED BY <1>1, <1>2 DEF AppointmentInv

LEMMA ClaimKeeps ==
    ASSUME AppointmentInv, WebTyped', ScheduleTyped', NEW s \in Servers, ClaimDue(s)
    PROVE  AppointmentInv'
<1>0. /\ serving[s] = NotServing /\ appointment' = {} /\ UNCHANGED <<booked, made>>
      /\ lastResult' = [f \in Films |-> IF f \in appointment THEN "running" ELSE lastResult[f]]
  BY DEF ClaimDue, DateTaken
<1>1. serving[s].films = {} /\ serving[s].film = {}
  BY <1>0 DEF NotServing
<1>2. ASSUME NEW f \in Films
      PROVE  /\ BookedOnce(f) /\ RunningIsHeld(f) /\ made[f] \in Nat /\ booked[f] \in Nat
             /\ DueCount(f)' = 0 /\ Cardinality(Holding(f)) \in Nat /\ s \notin Holding(f)
  <2>1. BookedOnce(f)
    BY DEF AppointmentInv
  <2>2. Cardinality(Holding(f)) \in Nat
    BY <2>1, FS_CardinalityType DEF BookedOnce
  <2> QED BY <1>0, <1>1, <2>2 DEF AppointmentInv, ScheduleTyped, DueCount, Holding
<1>3. CASE serving' = [serving EXCEPT ![s].films = appointment] /\ UNCHANGED <<dropped, mishaps>>
  <2>1. serving'[s].films = appointment /\ serving'[s].film = {} /\ \A q \in Servers \ {s} : serving'[q] = serving[q]
    BY <1>1, <1>3 DEF AppointmentInv, ScheduleTyped, ServeStates
  <2>2. \A q \in Servers : OneAtATime(q)'
    BY <2>1 DEF AppointmentInv, OneAtATime
  <2>3. ASSUME NEW f \in Films PROVE BookedOnce(f)'
    <3>1. CASE f \in appointment
      <4>1. Holding(f)' = Holding(f) \cup {s}
        BY <2>1, <3>1 DEF Holding
      <4>2. IsFiniteSet(Holding(f) \cup {s}) /\ Cardinality(Holding(f) \cup {s}) = Cardinality(Holding(f)) + 1
        BY <1>2, FS_AddElement DEF BookedOnce
      <4>3. DueCount(f) = 1
        BY <3>1 DEF DueCount
      <4>4. IsFiniteSet(Holding(f))' /\ Cardinality(Holding(f))' = Cardinality(Holding(f)) + 1
        BY <4>1, <4>2, Zenon
      <4> QED BY <1>0, <1>2, <4>3, <4>4 DEF BookedOnce
    <3>2. CASE f \notin appointment
      <4>1. Holding(f)' = Holding(f) /\ DueCount(f) = 0
        BY <1>1, <2>1, <3>2 DEF Holding, DueCount
      <4> QED BY <1>0, <1>2, <4>1, SameHolders
    <3> QED BY <3>1, <3>2
  <2>4. ASSUME NEW f \in Films PROVE RunningIsHeld(f)'
    BY <1>0, <1>1, <1>2, <1>3, <2>1 DEF RunningIsHeld
  <2> QED BY <2>2, <2>3, <2>4 DEF AppointmentInv
<1>4. CASE dropped' = dropped \cup appointment /\ UNCHANGED serving
  <2>1. \A q \in Servers : OneAtATime(q)'
    BY <1>4 DEF AppointmentInv, OneAtATime
  <2>2. ASSUME NEW f \in Films PROVE BookedOnce(f)'
    <3>1. Holding(f)' = Holding(f)
      BY <1>4 DEF Holding
    <3>2. IsFiniteSet(Holding(f))' /\ Cardinality(Holding(f))' = Cardinality(Holding(f))
      BY <1>2, <3>1, Zenon DEF BookedOnce
    <3>3. DueCount(f) \in Nat
      BY DEF DueCount
    <3> QED BY <1>0, <1>2, <3>2, <3>3 DEF BookedOnce
  <2>3. ASSUME NEW f \in Films PROVE RunningIsHeld(f)'
    BY <1>0, <1>2, <1>4 DEF RunningIsHeld
  <2> QED BY <2>1, <2>2, <2>3 DEF AppointmentInv
<1> QED BY <1>3, <1>4 DEF ClaimDue

LEMMA ServeKeeps ==
    ASSUME AppointmentInv, WebTyped', ScheduleTyped', NEW s \in Servers, ServeFilm(s)
    PROVE  AppointmentInv'
<1>1. PICK f \in serving[s].films :
        /\ serving' = [serving EXCEPT ![s] = [films |-> @.films \ {f}, film |-> {f}, read |-> sample[f]]]
        /\ made' = [made EXCEPT ![f] = @ + 1]
  BY DEF ServeFilm
<1>2. serving[s].film = {} /\ UNCHANGED <<appointment, lastResult, booked, dropped>>
  BY DEF ServeFilm, reportStore
<1>3. f \in Films /\ s \in Holding(f)
  BY DEF AppointmentInv, ScheduleTyped, ServeStates, Holding, Calls
<1>4. /\ serving'[s].films = serving[s].films \ {f} /\ serving'[s].film = {f}
      /\ \A q \in Servers \ {s} : serving'[q] = serving[q]
  BY <1>1 DEF AppointmentInv, ScheduleTyped
<1>5. \A q \in Servers : OneAtATime(q)'
  BY <1>4 DEF AppointmentInv, OneAtATime
<1>6. ASSUME NEW g \in Films PROVE (BookedOnce(g) /\ RunningIsHeld(g))'
  <2>1. BookedOnce(g) /\ RunningIsHeld(g) /\ made[g] \in Nat /\ booked[g] \in Nat /\ DueCount(g)' = DueCount(g)
    BY <1>2 DEF AppointmentInv, ScheduleTyped, DueCount
  <2>2. RunningIsHeld(g)'
    BY <1>2, <1>4, <2>1 DEF RunningIsHeld
  <2>3. CASE g = f
    <3>1. Holding(g)' = Holding(g) \ {s}
      BY <1>4, <2>3 DEF Holding
    <3>2. IsFiniteSet(Holding(g) \ {s}) /\ Cardinality(Holding(g) \ {s}) = Cardinality(Holding(g)) - 1
      BY <1>3, <2>1, <2>3, FS_RemoveElement DEF BookedOnce
    <3>3. IsFiniteSet(Holding(g))' /\ Cardinality(Holding(g))' = Cardinality(Holding(g)) - 1
      BY <3>1, <3>2, Zenon
    <3>4. Cardinality(Holding(g)) \in Nat /\ DueCount(g) \in Nat /\ made'[g] = made[g] + 1
      BY <1>1, <2>1, <2>3, FS_CardinalityType DEF BookedOnce, DueCount, AppointmentInv, ScheduleTyped
    <3> QED BY <1>2, <2>1, <2>2, <3>3, <3>4 DEF BookedOnce
  <2>4. CASE g # f
    <3>1. Holding(g)' = Holding(g)
      BY <1>4, <2>4 DEF Holding
    <3>2. made'[g] = made[g]
      BY <1>1, <2>4 DEF AppointmentInv, ScheduleTyped
    <3> QED BY <1>2, <2>1, <2>2, <3>1, <3>2, SameHolders
  <2> QED BY <2>3, <2>4
<1> QED BY <1>5, <1>6 DEF AppointmentInv

LEMMA ServedKeeps ==
    ASSUME AppointmentInv, WebTyped', ScheduleTyped', NEW s \in Servers, FilmServed(s)
    PROVE  AppointmentInv'
<1>1. PICK f \in serving[s].film : Written(s, f) \/ Failed(s, f) \/ Unsaid(s, f)
  BY FilmServedIs DEF AppointmentInv, Calls
<1>2. /\ serving'[s].films = serving[s].films /\ serving'[s].film = {}
      /\ \A q \in Servers \ {s} : serving'[q] = serving[q]
      /\ UNCHANGED <<appointment, booked, made>>
  <2> DEFINE r == [serving[s] EXCEPT !.film = {}, !.read = -1]
  <2>1. WebTyped /\ ScheduleTyped /\ serving[s] \in ServeStates
    BY DEF AppointmentInv, ScheduleTyped, Calls
  <2>2. r \in ServeStates /\ r.films = serving[s].films /\ r.film = {}
    BY <2>1, ServeStatesTyped DEF ServeStates, Calls
  <2>3. serving' = [serving EXCEPT ![s] = r] /\ UNCHANGED <<appointment, booked, made>>
    BY <2>1, FilmServedIs DEF Calls
  <2> HIDE DEF r
  <2> QED BY <2>1, <2>2, <2>3, ServingTyped DEF Calls
<1>3. serving[s].film = {f} /\ f \in Films
  <2>1. OneAtATime(s) /\ serving[s] \in ServeStates
    BY DEF AppointmentInv, ScheduleTyped, Calls
  <2>2. \A g \in serving[s].film : g = f
    BY <2>1 DEF OneAtATime
  <2> QED BY <2>1, <2>2 DEF ServeStates
<1>4. \A q \in Servers : OneAtATime(q)'
  BY <1>2 DEF AppointmentInv, OneAtATime
<1>5. ASSUME NEW g \in Films PROVE (BookedOnce(g) /\ RunningIsHeld(g))'
  <2>1. BookedOnce(g) /\ RunningIsHeld(g)
    BY DEF AppointmentInv
  <2>2. Holding(g)' = Holding(g) /\ DueCount(g)' = DueCount(g)
    BY <1>2 DEF Holding, DueCount
  <2>3. BookedOnce(g)'
    BY <1>2, <2>1, <2>2, SameHolders
  <2>4. RunningIsHeld(g)'
    BY <1>1, <1>2, <1>3, <2>1 DEF RunningIsHeld, Written, Failed, Unsaid, AppointmentInv, ScheduleTyped
  <2> QED BY <2>3, <2>4
<1> QED BY <1>4, <1>5 DEF AppointmentInv

LEMMA KillKeeps ==
    ASSUME AppointmentInv, WebTyped', ScheduleTyped', NEW s \in Servers, KillServer(s)
    PROVE  AppointmentInv'
<1>1. /\ serving'[s] = NotServing /\ \A q \in Servers \ {s} : serving'[q] = serving[q]
      /\ dropped' = dropped \cup serving[s].films \cup serving[s].film
      /\ UNCHANGED <<appointment, lastResult, booked, made>>
  BY DEF KillServer, AppointmentInv, ScheduleTyped, reportStore
<1>2. \A q \in Servers : OneAtATime(q)'
  BY <1>1 DEF AppointmentInv, OneAtATime, NotServing
<1>3. ASSUME NEW g \in Films PROVE (BookedOnce(g) /\ RunningIsHeld(g))'
  <2>1. BookedOnce(g) /\ RunningIsHeld(g) /\ made[g] \in Nat /\ booked[g] \in Nat /\ DueCount(g)' = DueCount(g)
    BY <1>1 DEF AppointmentInv, ScheduleTyped, DueCount
  <2>2. RunningIsHeld(g)'
    BY <1>1, <2>1 DEF RunningIsHeld, NotServing
  <2>3. Holding(g)' \subseteq Holding(g)
    BY <1>1 DEF Holding, NotServing
  <2>4. /\ IsFiniteSet(Holding(g))' /\ Cardinality(Holding(g))' <= Cardinality(Holding(g))
        /\ Cardinality(Holding(g))' \in Nat
    <3>1. IsFiniteSet(Holding(g))
      BY <2>1 DEF BookedOnce
    <3> DEFINE H == Holding(g)
               K == Holding(g)'
    <3>2. K \subseteq H /\ IsFiniteSet(H)
      BY <2>3, <3>1
    <3> HIDE DEF H, K
    <3>3. IsFiniteSet(K) /\ Cardinality(K) <= Cardinality(H) /\ Cardinality(K) \in Nat
      BY <3>2, FS_Subset, FS_CardinalityType
    <3> QED BY <3>3 DEF H, K
  <2>5. Cardinality(Holding(g)) \in Nat /\ DueCount(g) \in Nat
    BY <2>1, FS_CardinalityType DEF BookedOnce, DueCount
  <2> QED BY <1>1, <2>1, <2>2, <2>4, <2>5 DEF BookedOnce
<1> QED BY <1>2, <1>3 DEF AppointmentInv

LEMMA AppointmentNext == AppointmentInv /\ [ReportNext]_reportVars => AppointmentInv'
<1> SUFFICES ASSUME AppointmentInv, [ReportNext]_reportVars PROVE AppointmentInv'
  OBVIOUS
<1>1. WebTyped' /\ ScheduleTyped'
  BY ReportNextTyped DEF AppointmentInv
<1>2. ASSUME UNCHANGED <<appointment, lastResult, booked, made, dropped>>, \A s \in Servers : serving'[s] = serving[s]
      PROVE AppointmentInv'
  BY <1>1, <1>2, AppointmentsStay
<1>3. ASSUME \/ \E f \in Films : CommentsChange(f) \/ EnqueueReport(f)
             \/ \E t \in tasks : RunReport(t) \/ EndReport(t)
             \/ RestartWeb \/ UNCHANGED reportVars
      PROVE AppointmentInv'
  BY <1>2, <1>3 DEF CommentsChange, EnqueueReport, RunReport, EndReport, RestartWeb, reportVars, reportStore, reportHistory
<1>4. ASSUME NEW b \in Batches, BatchBegins(b) \/ BatchTakes(b) \/ BatchServed(b) \/ BatchEnds(b)
      PROVE AppointmentInv'
  <2>1. UNCHANGED <<appointment, lastResult, booked, made, dropped>>
    BY <1>4 DEF BatchBegins, BatchTakes, BatchServed, BatchEnds, reportStore, reportHistory
  <2>2. \A s \in Servers : s # b /\ s \in Calls
    BY ReportAssumption DEF Calls
  <2>3. \A s \in Servers : serving'[s] = serving[s]
    BY <1>4, <2>2 DEF BatchBegins, BatchTakes, BatchServed, BatchEnds, AppointmentInv, ScheduleTyped
  <2> QED BY <1>2, <2>1, <2>3
<1> QED BY <1>1, <1>3, <1>4, DueKeeps, ClaimKeeps, ServeKeeps, ServedKeeps, KillKeeps DEF ReportNext

\* No appointment makes two reports, and none is forgotten but with a process or an answer that is
\* lost: for any number of films, processes and appointments.
THEOREM AppointmentsAreKept == ReportSpec => []AppointmentKept
<1>1. AppointmentInv => AppointmentKept
  <2> SUFFICES ASSUME AppointmentInv, NEW f \in Films PROVE made[f] <= booked[f] /\ RunningIsHeld(f)
    BY DEF AppointmentKept, RunningIsHeld
  <2>1. BookedOnce(f) /\ RunningIsHeld(f) /\ made[f] \in Nat /\ booked[f] \in Nat
    BY DEF AppointmentInv, ScheduleTyped
  <2>2. Cardinality(Holding(f)) \in Nat /\ DueCount(f) \in Nat
    BY <2>1, FS_CardinalityType DEF BookedOnce, DueCount
  <2> QED BY <2>1, <2>2 DEF BookedOnce
<1> QED BY <1>1, AppointmentInit, AppointmentNext, PTL DEF ReportSpec

------------------------------------------------------------------------------
(* Reports.  Unless a call has crossed something else, one                 *)
(* generation of a film is under way at most, and it has read what is at   *)
(* least as new as the report it will write over.                          *)

\* A task is what its job says, and the only one of its film.
JobsFollow ==
    \A t \in tasks :
        /\ jobs[t.film] = IF t.read = -1 THEN "queued" ELSE "running"
        /\ \A u \in tasks : u.film = t.film => u = t

Serves(s, f) == serving[s].film = {f} /\ serving[s].read >= 0

OneGeneration(f) ==
    /\ ~(ByButton(f) /\ ByCall(f))
    /\ \A s, q \in Calls : Serves(s, f) /\ Serves(q, f) => s = q

ReadIsNewer(f) ==
    /\ \A t \in tasks : t.film = f /\ t.read >= 0 => report[f] <= t.read
    /\ \A s \in Calls : Serves(s, f) => report[f] <= serving[s].read

\* No read is ahead of the comments.
ReadsBehind(f) ==
    /\ report[f] <= sample[f]
    /\ \A t \in tasks : t.film = f => t.read <= sample[f]
    /\ \A s \in Calls : Serves(s, f) => serving[s].read <= sample[f]

NewerInv ==
    /\ WebTyped /\ ScheduleTyped /\ JobsFollow
    /\ \A s \in Calls : \A f \in serving[s].film : Serves(s, f)
    /\ \A f \in Films : ReadsBehind(f) /\ (f \notin crossed => OneGeneration(f) /\ ReadIsNewer(f))

LEMMA NewerInit == ReportInit => NewerInv
<1> SUFFICES ASSUME ReportInit PROVE NewerInv
  OBVIOUS
<1>1. JobsFollow
  BY DEF ReportInit, JobsFollow
<1>2. \A s \in Calls, f \in Films : ~Serves(s, f)
  BY DEF ReportInit, Serves, NotServing
<1>3. ASSUME NEW f \in Films PROVE ReadsBehind(f) /\ OneGeneration(f) /\ ReadIsNewer(f)
  <2>1. tasks = {} /\ report[f] = -1 /\ sample[f] = 0
    BY DEF ReportInit
  <2>2. report[f] <= sample[f]
    BY <2>1
  <2>3. ~ByButton(f) /\ \A s \in Calls : ~Serves(s, f)
    BY <1>2, <2>1 DEF ByButton
  <2>4. OneGeneration(f)
    BY <2>3 DEF OneGeneration
  <2>5. ReadIsNewer(f)
    BY <2>1, <2>3 DEF ReadIsNewer
  <2>6. ReadsBehind(f)
    BY <2>1, <2>2, <2>3 DEF ReadsBehind
  <2> QED BY <2>4, <2>5, <2>6
<1>4. \A s \in Calls : serving[s].film = {}
  BY DEF ReportInit, NotServing
<1> QED BY <1>1, <1>3, <1>4, ReportInitTyped DEF NewerInv

\* What is known of film f after a step in which the generations under way are among those before,
\* and neither the report nor the comments of f have gone back.
LEMMA FilmStays ==
    ASSUME NewerInv, NEW f \in Films,
           report'[f] = report[f], sample'[f] >= sample[f], sample'[f] \in Nat, f \in crossed => f \in crossed',
           \A t \in tasks' : t.film = f /\ t.read >= 0 => t \in tasks,
           \A t \in tasks' : t.film = f => t.read \in Int /\ (t.read < 0 \/ t.read >= 0),
           \A s \in Calls : Serves(s, f)' => Serves(s, f) /\ serving'[s].read = serving[s].read
    PROVE  ReadsBehind(f)' /\ (f \notin crossed' => (OneGeneration(f) /\ ReadIsNewer(f))')
<1>0. /\ ReadsBehind(f) /\ sample[f] \in Nat /\ report[f] \in Int
      /\ \A s \in Calls : serving[s].read \in Int
  BY DEF NewerInv, WebTyped, ScheduleTyped, ServeStates
<1>1. ReadsBehind(f)'
  <2>1. report'[f] <= sample'[f]
    BY <1>0 DEF ReadsBehind
  <2>2. ASSUME NEW t \in tasks', t.film = f PROVE t.read <= sample'[f]
    BY <1>0, <2>2 DEF ReadsBehind
  <2>3. ASSUME NEW s \in Calls, Serves(s, f)' PROVE serving'[s].read <= sample'[f]
    BY <1>0, <2>3 DEF ReadsBehind
  <2> QED BY <2>1, <2>2, <2>3 DEF ReadsBehind
<1>2. ASSUME f \notin crossed' PROVE (OneGeneration(f) /\ ReadIsNewer(f))'
  <2>1. OneGeneration(f) /\ ReadIsNewer(f)
    BY <1>2 DEF NewerInv
  <2>2. ByButton(f)' => ByButton(f)
    BY DEF ByButton
  <2>3. ByCall(f)' => ByCall(f)
    BY DEF ByCall, Serves
  <2>4. OneGeneration(f)'
    BY <2>1, <2>2, <2>3 DEF OneGeneration
  <2>5. ReadIsNewer(f)'
    BY <2>1 DEF ReadIsNewer
  <2> QED BY <2>4, <2>5
<1> QED BY <1>1, <1>2

LEMMA TasksTyped ==
    ASSUME WebTyped PROVE \A t \in tasks : t.film \in Films /\ t.read \in Int /\ t.read >= -1
BY DEF WebTyped, ReportTasks

\* A step that begins no generation, and ends none with a report.
LEMMA NothingBegins ==
    ASSUME NewerInv, WebTyped', ScheduleTyped', JobsFollow',
           \A f \in Films : report'[f] = report[f] /\ sample'[f] >= sample[f],
           crossed \subseteq crossed', \A t \in tasks' : t.read >= 0 => t \in tasks,
           \A s \in Calls : serving'[s].film = {} \/ (serving'[s].film = serving[s].film /\ serving'[s].read = serving[s].read)
    PROVE  NewerInv'
<1>1. ASSUME NEW s \in Calls, NEW f, Serves(s, f)' PROVE Serves(s, f) /\ serving'[s].read = serving[s].read
  BY <1>1 DEF Serves
<1>2. ASSUME NEW s \in Calls, NEW f \in serving'[s].film PROVE Serves(s, f)'
  BY <1>2 DEF Serves, NewerInv
<1>3. ASSUME NEW f \in Films PROVE ReadsBehind(f)' /\ (f \notin crossed' => (OneGeneration(f) /\ ReadIsNewer(f))')
  <2>1. sample'[f] \in Nat
    BY DEF WebTyped
  <2>2. \A t \in tasks' : t.read \in Int /\ (t.read < 0 \/ t.read >= 0)
    BY DEF WebTyped, ReportTasks
  <2> QED BY <1>1, <2>1, <2>2, FilmStays
<1> QED BY <1>2, <1>3 DEF NewerInv

\* A step of a film that leaves the others as they were.
LEMMA OneFilm ==
    ASSUME NewerInv, WebTyped', ScheduleTyped', JobsFollow', NEW f \in Films,
           ReadsBehind(f)', f \notin crossed' => (OneGeneration(f) /\ ReadIsNewer(f))',
           \A g \in Films \ {f} : report'[g] = report[g],
           UNCHANGED sample, crossed \subseteq crossed',
           \A t \in tasks' : t \in tasks \/ t.film = f,
           \A s \in Calls : \/ serving'[s].film = {f} /\ serving'[s].read >= 0
                            \/ serving'[s].film = {}
                            \/ serving'[s] = serving[s]
    PROVE  NewerInv'
<1>1. ASSUME NEW s \in Calls, NEW g \in serving'[s].film PROVE Serves(s, g)'
  BY <1>1 DEF Serves, NewerInv
<1>2. ASSUME NEW g \in Films \ {f} PROVE ReadsBehind(g)' /\ (g \notin crossed' => (OneGeneration(g) /\ ReadIsNewer(g))')
  <2>1. sample'[g] \in Nat /\ sample'[g] >= sample[g]
    BY DEF WebTyped, NewerInv
  <2>2. \A t \in tasks' : t.read \in Int /\ (t.read < 0 \/ t.read >= 0)
    BY DEF WebTyped, ReportTasks
  <2>3. ASSUME NEW s \in Calls, Serves(s, g)' PROVE Serves(s, g) /\ serving'[s].read = serving[s].read
    BY <2>3 DEF Serves
  <2> QED BY <2>1, <2>2, <2>3, FilmStays
<1> QED BY <1>1, <1>2 DEF NewerInv

LEMMA EnqueueNewer ==
    ASSUME NewerInv, WebTyped', ScheduleTyped', NEW f \in Films, EnqueueReport(f) PROVE NewerInv'
<1> DEFINE u == [film |-> f, click |-> clicks', read |-> -1]
<1>1. tasks' = tasks \cup {u} /\ u.film = f /\ u.read = -1
  BY DEF EnqueueReport
<1>2. PICK old \in SUBSET {g \in Films : jobs[g] \in {"done", "failed"}} :
        jobs' = [g \in Films |-> IF g = f THEN "queued" ELSE IF g \in old THEN "none" ELSE jobs[g]]
  BY DEF EnqueueReport
<1>3. ASSUME NEW t \in tasks
      PROVE  /\ t.film \in Films /\ t.film # f /\ jobs'[t.film] = jobs[t.film]
             /\ jobs[t.film] = IF t.read = -1 THEN "queued" ELSE "running"
  <2>1. t.film \in Films /\ jobs[t.film] = IF t.read = -1 THEN "queued" ELSE "running"
    BY TasksTyped DEF NewerInv, JobsFollow
  <2>2. t.film # f
    BY <2>1 DEF EnqueueReport, Unfinished
  <2> QED BY <1>2, <2>1, <2>2
<1> HIDE DEF u
<1>4. JobsFollow'
  <2>1. jobs'[f] = "queued"
    BY <1>2
  <2>2. ASSUME NEW t \in tasks'
        PROVE  jobs'[t.film] = (IF t.read = -1 THEN "queued" ELSE "running") /\ \A v \in tasks' : v.film = t.film => v = t
    BY <1>1, <1>3, <2>1 DEF NewerInv, JobsFollow
  <2> QED BY <2>2 DEF JobsFollow
<1>5. \A g \in Films : report'[g] = report[g] /\ sample'[g] >= sample[g]
  BY DEF EnqueueReport, reportStore, NewerInv, WebTyped
<1>6. UNCHANGED <<serving, crossed>>
  BY DEF EnqueueReport, reportHistory
<1>7. \A t \in tasks' : t.read >= 0 => t \in tasks
  BY <1>1
<1> QED BY <1>4, <1>5, <1>6, <1>7, NothingBegins

LEMMA RunNewer ==
    ASSUME NewerInv, WebTyped', ScheduleTyped', NEW t \in tasks, RunReport(t) PROVE NewerInv'
<1> DEFINE f == t.film
           u == [t EXCEPT !.read = sample[f]]
<1>1. f \in Films /\ t \in ReportTasks /\ sample[f] \in Nat /\ report[f] \in Int
  BY TasksTyped DEF NewerInv, WebTyped
<1>2. tasks' = (tasks \ {t}) \cup {u} /\ u.film = f /\ u.read = sample[f] /\ jobs' = [jobs EXCEPT ![f] = "running"]
  BY <1>1 DEF RunReport, ReportTasks
<1> HIDE DEF u
<1>3. \A v \in tasks \ {t} : v.film # f /\ v.film \in Films
  BY TasksTyped DEF NewerInv, JobsFollow
<1>4. JobsFollow'
  <2>1. jobs'[f] = "running" /\ u.read # -1
    BY <1>1, <1>2 DEF NewerInv, WebTyped
  <2>2. \A v \in tasks \ {t} : jobs'[v.film] = jobs[v.film]
    BY <1>2, <1>3 DEF NewerInv, WebTyped
  <2>3. ASSUME NEW v \in tasks'
        PROVE  jobs'[v.film] = (IF v.read = -1 THEN "queued" ELSE "running") /\ \A x \in tasks' : x.film = v.film => x = v
    BY <1>2, <1>3, <2>1, <2>2 DEF NewerInv, JobsFollow
  <2> QED BY <2>3 DEF JobsFollow
<1>5. UNCHANGED <<sample, report, serving>> /\ crossed' = IF ByCall(f) THEN crossed \cup {f} ELSE crossed
  BY DEF RunReport, Crossing, reportStore
<1>6. \A v \in tasks' : v.film = f => v = u
  BY <1>2, <1>3
<1> HIDE DEF f
<1>7. ReadsBehind(f)'
  <2>1. report[f] <= sample[f]
    BY <1>1 DEF NewerInv, ReadsBehind
  <2>2. ASSUME NEW v \in tasks', v.film = f PROVE v.read <= sample[f]
    BY <1>1, <1>2, <1>6, <2>2
  <2>3. ASSUME NEW s \in Calls, Serves(s, f)' PROVE serving'[s].read <= sample[f]
    BY <1>1, <1>5, <2>3 DEF NewerInv, ReadsBehind, Serves
  <2> QED BY <1>5, <2>1, <2>2, <2>3 DEF ReadsBehind
<1>8. ASSUME f \notin crossed' PROVE (OneGeneration(f) /\ ReadIsNewer(f))'
  <2>1. OneGeneration(f) /\ ReadIsNewer(f) /\ ~ByCall(f) /\ report[f] <= sample[f]
    BY <1>1, <1>5, <1>8 DEF NewerInv, ReadsBehind
  <2>2. OneGeneration(f)'
    BY <1>5, <2>1 DEF OneGeneration, ByCall, Serves
  <2>3. ReadIsNewer(f)'
    BY <1>2, <1>5, <1>6, <2>1 DEF ReadIsNewer, Serves
  <2> QED BY <2>2, <2>3
<1>9. \A v \in tasks' : v \in tasks \/ v.film = f
  BY <1>2
<1> QED BY <1>1, <1>4, <1>5, <1>7, <1>8, <1>9, OneFilm

LEMMA EndNewer ==
    ASSUME NewerInv, WebTyped', ScheduleTyped', NEW t \in tasks, EndReport(t)
    PROVE  NewerInv' /\ \A g \in Films : report'[g] < report[g] => g \in crossed
<1> DEFINE f == t.film
<1>1. /\ f \in Films /\ t.read \in Nat /\ sample[f] \in Nat /\ report[f] \in Int /\ t.read <= sample[f]
      /\ tasks' = tasks \ {t} /\ UNCHANGED <<sample, serving, crossed>>
  <2>1. f \in Films /\ t.read \in Int /\ t.read >= 0
    BY TasksTyped DEF NewerInv, EndReport
  <2> QED BY <2>1 DEF NewerInv, WebTyped, ReadsBehind, EndReport
<1>2. \A v \in tasks' : v.film # f /\ v.film \in Films
  BY <1>1, TasksTyped DEF NewerInv, JobsFollow
<1>3. /\ report'[f] \in {report[f], t.read} /\ \A g \in Films \ {f} : report'[g] = report[g] /\ jobs'[g] = jobs[g]
  BY <1>1 DEF EndReport, NewerInv, WebTyped
<1>4. JobsFollow'
  BY <1>1, <1>2, <1>3 DEF NewerInv, JobsFollow
<1>5. ASSUME f \notin crossed
      PROVE  report[f] <= t.read /\ \A s \in Calls : ~Serves(s, f)
  <2>1. ByButton(f)
    BY <1>1 DEF ByButton
  <2>2. OneGeneration(f) /\ ReadIsNewer(f)
    BY <1>1, <1>5 DEF NewerInv
  <2> QED BY <1>1, <2>1, <2>2 DEF OneGeneration, ReadIsNewer, ByCall, Serves
<1> HIDE DEF f
<1>6. ReadsBehind(f)'
  <2>1. ReadsBehind(f)
    BY <1>1 DEF NewerInv
  <2>2. report'[f] <= sample'[f]
    BY <1>1, <1>3, <2>1 DEF ReadsBehind
  <2>3. \A s \in Calls : Serves(s, f)' => serving'[s].read <= sample'[f]
    BY <1>1, <2>1 DEF ReadsBehind, Serves
  <2> QED BY <1>2, <2>2, <2>3 DEF ReadsBehind
<1>7. ASSUME f \notin crossed' PROVE (OneGeneration(f) /\ ReadIsNewer(f))'
  <2>1. \A s \in Calls : ~Serves(s, f)'
    BY <1>1, <1>5, <1>7 DEF Serves
  <2>2. ~ByButton(f)'
    BY <1>2 DEF ByButton
  <2> QED BY <1>2, <2>1, <2>2 DEF OneGeneration, ReadIsNewer
<1>8. NewerInv'
  BY <1>1, <1>3, <1>4, <1>6, <1>7, OneFilm
<1>9. ASSUME NEW g \in Films, report'[g] < report[g] PROVE g \in crossed
  BY <1>1, <1>3, <1>5, <1>9 DEF NewerInv, WebTyped
<1> QED BY <1>8, <1>9

LEMMA ServeNewer ==
    ASSUME NewerInv, WebTyped', ScheduleTyped', NEW s \in Calls, ServeFilm(s) \/ BatchTakes(s) PROVE NewerInv'
<1>1. PICK f \in serving[s].films :
        /\ serving' = [serving EXCEPT ![s] = [films |-> @.films \ {f}, film |-> {f}, read |-> sample[f]]]
        /\ Crossing(f, ByButton(f) \/ ByCall(f))
  BY DEF ServeFilm, BatchTakes
<1>2. f \in Films /\ sample[f] \in Nat /\ report[f] \in Int
  BY DEF NewerInv, WebTyped, ScheduleTyped, ServeStates
<1>3. /\ serving'[s].film = {f} /\ serving'[s].read = sample[f]
      /\ \A q \in Calls \ {s} : serving'[q] = serving[q]
  BY <1>1 DEF NewerInv, ScheduleTyped
<1>4. UNCHANGED <<sample, report, jobs, tasks>> /\ crossed \subseteq crossed' /\ (f \notin crossed' => ~ByButton(f) /\ ~ByCall(f))
  BY <1>1 DEF ServeFilm, BatchTakes, Crossing, reportStore, webReports
<1>5. JobsFollow'
  BY <1>4 DEF NewerInv, JobsFollow
<1>6. ReadsBehind(f)'
  <2>1. ReadsBehind(f)
    BY <1>2 DEF NewerInv
  <2>2. ASSUME NEW q \in Calls, Serves(q, f)' PROVE serving'[q].read <= sample[f]
    BY <1>2, <1>3, <2>1, <2>2 DEF ReadsBehind, Serves
  <2> QED BY <1>4, <2>1, <2>2 DEF ReadsBehind
<1>7. ASSUME f \notin crossed' PROVE (OneGeneration(f) /\ ReadIsNewer(f))'
  <2>1. ReadIsNewer(f) /\ report[f] <= sample[f] /\ ~ByButton(f) /\ ~ByButton(f)'
    BY <1>2, <1>4, <1>7 DEF NewerInv, ReadsBehind, ByButton
  <2>2. \A q \in Calls : ~Serves(q, f)
    BY <1>4, <1>7 DEF ByCall, Serves
  <2>3. \A q \in Calls : Serves(q, f)' => q = s
    BY <1>3, <2>2 DEF Serves
  <2> QED BY <1>3, <1>4, <2>1, <2>3 DEF OneGeneration, ReadIsNewer
<1>8. \A q \in Calls : \/ serving'[q].film = {f} /\ serving'[q].read >= 0
                       \/ serving'[q] = serving[q]
  BY <1>2, <1>3
<1> QED BY <1>2, <1>4, <1>5, <1>6, <1>7, <1>8, OneFilm

LEMMA ServedNewer ==
    ASSUME NewerInv, WebTyped', ScheduleTyped', NEW s \in Calls, FilmServed(s) \/ BatchServed(s)
    PROVE  NewerInv' /\ \A g \in Films : report'[g] < report[g] => g \in crossed
<1>1. PICK f \in serving[s].film : report' \in {report, [report EXCEPT ![f] = serving[s].read]}
  <2>1. CASE FilmServed(s)
    BY <2>1, FilmServedIs DEF NewerInv, Written, Failed, Unsaid
  <2>2. CASE BatchServed(s)
    BY <2>2 DEF BatchServed
  <2> QED BY <2>1, <2>2
<1>2. /\ serving'[s].film = {} /\ \A q \in Calls \ {s} : serving'[q] = serving[q]
      /\ UNCHANGED <<sample, jobs, tasks, crossed>>
  <2> DEFINE r == [serving[s] EXCEPT !.film = {}, !.read = -1]
  <2>1. WebTyped /\ ScheduleTyped /\ serving[s] \in ServeStates
    BY DEF NewerInv, ScheduleTyped
  <2>2. r \in ServeStates /\ r.film = {}
    BY <2>1, ServeStatesTyped DEF ServeStates
  <2>3. serving' = [serving EXCEPT ![s] = r] /\ UNCHANGED <<sample, webReports, crossed>>
    <3>1. CASE FilmServed(s)
      BY <2>1, <3>1, FilmServedIs
    <3>2. CASE BatchServed(s)
      BY <2>1, <3>2 DEF BatchServed, ScheduleTyped, reportHistory
    <3> QED BY <3>1, <3>2
  <2> HIDE DEF r
  <2> QED BY <2>1, <2>2, <2>3, ServingTyped DEF webReports
<1>3. f \in Films /\ Serves(s, f) /\ sample[f] \in Nat /\ report[f] \in Int /\ serving[s].read \in Nat
  BY DEF NewerInv, WebTyped, ScheduleTyped, ServeStates, Serves
<1>4. report'[f] \in {report[f], serving[s].read} /\ \A g \in Films \ {f} : report'[g] = report[g]
  BY <1>1, <1>3 DEF NewerInv, WebTyped
<1>5. JobsFollow'
  BY <1>2 DEF NewerInv, JobsFollow
<1>6. ReadsBehind(f)'
  <2>1. ReadsBehind(f)
    BY <1>3 DEF NewerInv
  <2>2. ASSUME NEW q \in Calls, Serves(q, f)' PROVE serving'[q].read <= sample[f]
    BY <1>2, <2>1, <2>2 DEF ReadsBehind, Serves
  <2>3. report'[f] <= sample[f]
    BY <1>3, <1>4, <2>1 DEF ReadsBehind
  <2> QED BY <1>2, <2>1, <2>2, <2>3 DEF ReadsBehind
<1>7. ASSUME f \notin crossed
      PROVE  report[f] <= serving[s].read /\ ~ByButton(f) /\ \A q \in Calls : Serves(q, f) => q = s
  <2>1. OneGeneration(f) /\ ReadIsNewer(f) /\ ByCall(f)
    BY <1>3, <1>7 DEF NewerInv, ByCall, Serves
  <2> QED BY <1>3, <2>1 DEF OneGeneration, ReadIsNewer
<1>8. ASSUME f \notin crossed' PROVE (OneGeneration(f) /\ ReadIsNewer(f))'
  <2>1. \A q \in Calls : ~Serves(q, f)'
    BY <1>2, <1>7, <1>8 DEF Serves
  <2>2. ~ByButton(f)' /\ ~ByButton(f)
    BY <1>2, <1>7, <1>8 DEF ByButton
  <2>3. \A t \in tasks' : t.film = f => ~(t.read >= 0)
    BY <2>2 DEF ByButton
  <2> QED BY <2>1, <2>2, <2>3 DEF OneGeneration, ReadIsNewer
<1>9. NewerInv'
  BY <1>2, <1>3, <1>4, <1>5, <1>6, <1>8, OneFilm
<1>10. ASSUME NEW g \in Films, report'[g] < report[g] PROVE g \in crossed
  BY <1>3, <1>4, <1>7, <1>10 DEF NewerInv, WebTyped
<1> QED BY <1>9, <1>10

\* The other steps begin no generation and write no report.
LEMMA OtherNewer ==
    ASSUME NewerInv, WebTyped', ScheduleTyped',
           \/ \E f \in Films : CommentsChange(f) \/ AppointmentDue(f)
           \/ RestartWeb \/ UNCHANGED reportVars
           \/ \E s \in Servers : ClaimDue(s) \/ KillServer(s)
           \/ \E b \in Batches : BatchBegins(b) \/ BatchEnds(b)
    PROVE  NewerInv' /\ UNCHANGED report
<1> USE DEF reportStore, webReports, reportHistory
<1>0. \A f \in Films : sample[f] \in Nat
  BY DEF NewerInv, WebTyped
<1>1. ASSUME NEW f \in Films, CommentsChange(f) PROVE NewerInv' /\ UNCHANGED report
  <2>1. /\ \A g \in Films : sample'[g] >= sample[g]
        /\ UNCHANGED <<report, jobs, tasks, crossed, serving>>
    BY <1>0, <1>1 DEF CommentsChange, NewerInv, WebTyped
  <2>2. JobsFollow'
    BY <2>1 DEF NewerInv, JobsFollow
  <2> QED BY <2>1, <2>2, NothingBegins
<1>2. ASSUME UNCHANGED <<report, sample, jobs, tasks, crossed, serving>> PROVE NewerInv' /\ UNCHANGED report
  <2>1. JobsFollow' /\ \A g \in Films : sample'[g] >= sample[g]
    BY <1>0, <1>2 DEF NewerInv, JobsFollow
  <2> QED BY <1>2, <2>1, NothingBegins
<1>3. CASE UNCHANGED reportVars \/ \E f \in Films : AppointmentDue(f)
  BY <1>2, <1>3 DEF reportVars, AppointmentDue
<1>4. CASE RestartWeb
  <2>1. JobsFollow' /\ UNCHANGED <<report, sample, crossed, serving>> /\ tasks' = {}
    BY <1>4 DEF RestartWeb, JobsFollow
  <2>2. \A g \in Films : sample'[g] >= sample[g]
    BY <1>0, <2>1
  <2> QED BY <2>1, <2>2, NothingBegins
<1>5. ASSUME NEW s \in Calls, ClaimDue(s) \/ KillServer(s) PROVE NewerInv' /\ UNCHANGED report
  <2>1. UNCHANGED <<report, sample, jobs, tasks, crossed>>
    BY <1>5 DEF ClaimDue, KillServer
  <2>2. JobsFollow' /\ \A g \in Films : sample'[g] >= sample[g]
    BY <1>0, <2>1 DEF NewerInv, JobsFollow
  <2>3. ASSUME NEW q \in Calls
        PROVE serving'[q].film = {} \/ (serving'[q].film = serving[q].film /\ serving'[q].read = serving[q].read)
    <3>1. NotServing.film = {}
      BY DEF NotServing
    <3>2. CASE serving' = [serving EXCEPT ![s] = NotServing]
      BY <3>1, <3>2 DEF NewerInv, ScheduleTyped
    <3>3. CASE UNCHANGED serving
      BY <3>3
    <3>4. CASE serving' = [serving EXCEPT ![s].films = appointment]
      BY <3>4 DEF NewerInv, ScheduleTyped, ServeStates
    <3> QED BY <1>5, <3>2, <3>3, <3>4 DEF ClaimDue, KillServer
  <2> QED BY <2>1, <2>2, <2>3, NothingBegins
<1>6. ASSUME NEW b \in Calls, BatchBegins(b) \/ BatchEnds(b) PROVE NewerInv' /\ UNCHANGED report
  <2>1. UNCHANGED <<report, sample, jobs, tasks, crossed>>
    BY <1>6 DEF BatchBegins, BatchEnds
  <2>2. JobsFollow' /\ \A g \in Films : sample'[g] >= sample[g]
    BY <1>0, <2>1 DEF NewerInv, JobsFollow
  <2>3. ASSUME NEW q \in Calls
        PROVE serving'[q].film = {} \/ (serving'[q].film = serving[q].film /\ serving'[q].read = serving[q].read)
    <3>1. NotServing.film = {}
      BY DEF NotServing
    <3>2. CASE serving' = [serving EXCEPT ![b] = NotServing]
      BY <3>1, <3>2 DEF NewerInv, ScheduleTyped
    <3>3. CASE \E fs : serving' = [serving EXCEPT ![b].films = fs]
      BY <3>3 DEF NewerInv, ScheduleTyped, ServeStates
    <3> QED BY <1>6, <3>2, <3>3 DEF BatchBegins, BatchEnds
  <2> QED BY <2>1, <2>2, <2>3, NothingBegins
<1> QED BY <1>1, <1>3, <1>4, <1>5, <1>6 DEF Calls

LEMMA NewerNext ==
    NewerInv /\ [ReportNext]_reportVars => NewerInv' /\ \A g \in Films : report'[g] < report[g] => g \in crossed
<1> SUFFICES ASSUME NewerInv, [ReportNext]_reportVars
             PROVE  NewerInv' /\ \A g \in Films : report'[g] < report[g] => g \in crossed
  OBVIOUS
<1>1. WebTyped' /\ ScheduleTyped'
  BY ReportNextTyped DEF NewerInv
<1>2. ASSUME NewerInv', UNCHANGED report PROVE \A g \in Films : ~(report'[g] < report[g])
  BY <1>2 DEF NewerInv, WebTyped
<1>3. ASSUME \/ \E f \in Films : EnqueueReport(f)
             \/ \E t \in tasks : RunReport(t)
             \/ \E s \in Servers : ServeFilm(s)
             \/ \E b \in Batches : BatchTakes(b)
      PROVE NewerInv' /\ UNCHANGED report
  BY <1>1, <1>3, EnqueueNewer, RunNewer, ServeNewer DEF EnqueueReport, RunReport, ServeFilm, BatchTakes, reportStore, Calls, Calls
<1>4. CASE \/ \E t \in tasks : EndReport(t)
           \/ \E s \in Servers : FilmServed(s)
           \/ \E b \in Batches : BatchServed(b)
  BY <1>1, <1>4, EndNewer, ServedNewer DEF Calls
<1>5. CASE \/ \E f \in Films : CommentsChange(f) \/ AppointmentDue(f)
           \/ RestartWeb \/ UNCHANGED reportVars
           \/ \E s \in Servers : ClaimDue(s) \/ KillServer(s)
           \/ \E b \in Batches : BatchBegins(b) \/ BatchEnds(b)
  BY <1>1, <1>2, <1>5, OtherNewer
<1> QED BY <1>2, <1>3, <1>4, <1>5 DEF ReportNext

\* No report is replaced by one made from an older sample, unless an appointment or the daily script
\* has crossed something else in the generation of the film's report: for any number of films, calls,
\* runs of the script and clicks.
THEOREM ReportsGoForward == ReportSpec => ReportNeverOlder
<1>1. NewerInv /\ [ReportNext]_reportVars => [\A f \in Films : report'[f] < report[f] => f \in crossed]_reportVars
  BY NewerNext
<1> QED BY <1>1, NewerInit, NewerNext, PTL DEF ReportSpec, ReportNeverOlder

=============================================================================
