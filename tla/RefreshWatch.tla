----------------------------- MODULE RefreshWatch -----------------------------
(***************************************************************************)
(* The watch of a token refresh, for one platform                          *)
(* (app/services/crawl/refresh_tracker.py, app/api/routes/                 *)
(* token_refresh.py).  A press of the button starts a task that reads what *)
(* spider-hub says of the run, in Redis and in its log, until it knows the *)
(* outcome or has waited three minutes; a later press cancels the task and *)
(* starts another.  The state of the platform is one object that all tasks *)
(* of it share, and dashboards follow it through WebSockets.               *)
(***************************************************************************)
EXTENDS Naturals, Sequences

CONSTANTS
    LastRun,    \* bound: presses of the button that start a watch, 1 .. LastRun
    MaxRead     \* bound: changes a dashboard has not read yet

ASSUME WatchAssumption == LastRun \in Nat /\ MaxRead \in Nat

Refreshes == 1 .. LastRun

VARIABLES
    status,     \* _RefreshState.status
    runId,      \* _RefreshState.run_id; 0 before the first run
    watch,      \* watch[r]: the task of run r
    young,      \* the newest task is younger than 5 seconds
    late,       \* late[r]: the three minutes of r are over
    published,  \* runs whose request was given to Kafka
    hub,        \* hub[r]: what spider-hub has found out
    told,       \* told[r]: it has said so where the watch can read it
    view,       \* what a dashboard shows
    client,     \* where the handler of its WebSocket is
    unread,     \* changes queued for it
    missed      \* history: the state changed between its snapshot and its subscription

stateVars == <<status, runId, watch, young, late>>
hubVars   == <<published, hub, told>>
viewVars  == <<view, client, unread, missed>>
watchVars == <<stateVars, hubVars, viewVars>>

WatchInit ==
    /\ status = "idle" /\ runId = 0 /\ young = FALSE
    /\ watch = [r \in Refreshes |-> "none"] /\ late = [r \in Refreshes |-> FALSE]
    /\ published = {} /\ hub = [r \in Refreshes |-> "unknown"] /\ told = [r \in Refreshes |-> {}]
    /\ view = "idle" /\ client = "away" /\ unread = << >> /\ missed = FALSE

Watching(r) == watch[r] \in {"asking", "sleeping"}

\* _broadcast: what every subscriber gets.
Broadcast(s) ==
    /\ unread' = IF client = "listening" THEN Append(unread, s) ELSE unread
    /\ missed' = (missed \/ client = "snapshot")
    /\ UNCHANGED <<view, client>>

\* Room for a change in the queue of the dashboard: a bound of the model.
Room == Len(unread) < MaxRead

-----------------------------------------------------------------------------
(* start_refresh, in the handler of the button                             *)

\* Mutant: the task of the older run is left running.
OldTaskGoesOn(r) == watch

\* task.cancel(): the task ends where it waits, without another statement.
CancelOld(r) == [q \in Refreshes |-> IF Watching(q) THEN "cancelled" ELSE watch[q]]

Press(r) ==
    /\ watch[r] = "none" /\ r = runId + 1 /\ Room
    /\ ~(young /\ \E q \in Refreshes : Watching(q))
    /\ status' = "running" /\ runId' = r /\ young' = TRUE
    /\ watch' = [CancelOld(r) EXCEPT ![r] = "asking"]
    /\ published' \in {published, published \cup {r}}
    /\ Broadcast("running")
    /\ UNCHANGED <<late, hub, told>>

GrowsOld ==
    /\ young /\ young' = FALSE
    /\ UNCHANGED <<status, runId, watch, late, hubVars, viewVars>>

DeadlinePasses(r) ==
    /\ Watching(r) /\ ~late[r] /\ (r = runId => ~young)
    /\ late' = [late EXCEPT ![r] = TRUE]
    /\ UNCHANGED <<status, runId, watch, young, hubVars, viewVars>>

-----------------------------------------------------------------------------
(* _tail_until_done                                                        *)

Finish(r, s) ==
    /\ Room
    /\ status' = s /\ watch' = [watch EXCEPT ![r] = "ended"] /\ Broadcast(s)

\* Mutant: any line with such an event counts, whatever its run_id.
LinesOfAnyRun(r) == UNION {told[q] : q \in Refreshes}

\* The Redis key of the run, and the lines of the log that carry its run_id.
Readable(r) == told[r]

\* The answer of Redis, and then the log, to its end, without an await in between.
Look(r) ==
    /\ watch[r] = "asking"
    /\ \/ \E s \in Readable(r) : Finish(r, s)
       \/ Readable(r) = {} /\ watch' = [watch EXCEPT ![r] = "sleeping"] /\ UNCHANGED <<status, viewVars>>
    /\ UNCHANGED <<runId, young, late, hubVars>>

\* Mutant: there is no deadline.
GivesUpNever(r) == FALSE

GivesUp(r) == late[r]

\* After the pause: another round, or "gave up watching".
Wake(r) ==
    /\ watch[r] = "sleeping"
    /\ IF GivesUp(r) THEN Finish(r, "failed")
       ELSE watch' = [watch EXCEPT ![r] = "asking"] /\ UNCHANGED <<status, viewVars>>
    /\ UNCHANGED <<runId, young, late, hubVars>>

\* Redis or the file cannot be read: the watch fails, whatever becomes of the run.
WatchFails(r) ==
    /\ watch[r] = "asking" /\ Finish(r, "failed")
    /\ UNCHANGED <<runId, young, late, hubVars>>

-----------------------------------------------------------------------------
(* spider-hub: not in this repository                                      *)

Decide(r) ==
    /\ r \in published /\ hub[r] = "unknown"
    /\ \E s \in {"success", "failed"} : hub' = [hub EXCEPT ![r] = s]
    /\ UNCHANGED <<stateVars, published, told, viewVars>>

\* It writes the key, or the line; or the line is rotated away unread.
Tell(r) ==
    /\ hub[r] # "unknown" /\ told[r] = {}
    /\ told' = [told EXCEPT ![r] = {hub[r]}]
    /\ UNCHANGED <<stateVars, published, hub, viewVars>>

-----------------------------------------------------------------------------
(* refresh_token_ws                                                        *)

\* snapshot() is sent, and the handler waits for that.
Snapshot ==
    /\ client = "away" /\ client' = "snapshot" /\ view' = status /\ missed' = FALSE /\ unread' = << >>
    /\ UNCHANGED <<stateVars, hubVars>>

Subscribe ==
    /\ client = "snapshot" /\ client' = "listening"
    /\ UNCHANGED <<stateVars, hubVars, view, unread, missed>>

ReadChange ==
    /\ client = "listening" /\ unread # << >>
    /\ view' = Head(unread) /\ unread' = Tail(unread)
    /\ UNCHANGED <<stateVars, hubVars, client, missed>>

Leave ==
    /\ client # "away" /\ client' = "away" /\ unread' = << >>
    /\ UNCHANGED <<stateVars, hubVars, view, missed>>

WatchStep(r) == Look(r) \/ Wake(r)

WatchNext ==
    \/ \E r \in Refreshes :
        \/ Press(r) \/ DeadlinePasses(r) \/ WatchStep(r) \/ WatchFails(r) \/ Decide(r) \/ Tell(r)
    \/ GrowsOld
    \/ Snapshot \/ Subscribe \/ ReadChange \/ Leave

\* The event loop runs the tasks and sends what is queued; the clock goes on.
WatchFairness ==
    /\ \A r \in Refreshes : WF_watchVars(WatchStep(r)) /\ WF_watchVars(DeadlinePasses(r))
    /\ WF_watchVars(GrowsOld) /\ WF_watchVars(ReadChange)

WatchSpec == WatchInit /\ [][WatchNext]_watchVars /\ WatchFairness

-----------------------------------------------------------------------------
(* Properties                                                              *)

WatchTypeOK ==
    /\ status \in {"idle", "running", "success", "failed"} /\ runId \in 0 .. LastRun
    /\ watch \in [Refreshes -> {"none", "asking", "sleeping", "cancelled", "ended"}]
    /\ young \in BOOLEAN /\ late \in [Refreshes -> BOOLEAN] /\ published \subseteq Refreshes
    /\ hub \in [Refreshes -> {"unknown", "success", "failed"}]
    /\ told \in [Refreshes -> SUBSET {"success", "failed"}]
    /\ view \in {"idle", "running", "success", "failed"}
    /\ client \in {"away", "snapshot", "listening"} /\ missed \in BOOLEAN
    /\ unread \in Seq({"running", "success", "failed"}) /\ Len(unread) <= MaxRead

\* The state belongs to the newest run: a watch that a later press has cancelled never writes its
\* outcome over it, however late spider-hub answers.  It is a success only for a run that
\* spider-hub has finished with success, although the log holds the lines of every run of every
\* platform.  And a dashboard that has read what was sent to it shows the state, unless the state
\* changed after its snapshot was taken and before it subscribed: that change is never sent.
OutcomeIsReal ==
    /\ status \in {"success", "failed"} => watch[runId] = "ended"
    /\ status = "success" => hub[runId] = "success"
    /\ client = "listening" /\ unread = << >> /\ ~missed => view = status

\* A watch comes to an end, also when spider-hub never says a word or Kafka lost the request.
WatchEnds == status = "running" ~> status # "running"
=============================================================================
