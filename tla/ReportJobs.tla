------------------------------ MODULE ReportJobs ------------------------------
(***************************************************************************)
(* Reports on the topics of a film (app/services/reports/).  The button of *)
(* the dashboard puts a job into the memory of the web process             *)
(* (report_queue.py); an appointment, a row of report_schedules, is served *)
(* by the scheduler, another process (report_schedule.py); and once a day  *)
(* cron starts a script that goes through the films                        *)
(* (scripts/jobs/generate_social_topic_reports.py).  All three call        *)
(* generate_report_for_movie (social_topic.py), which reads the comments,  *)
(* asks the models for minutes, and writes the one report of the film.     *)
(***************************************************************************)
EXTENDS Integers

CONSTANTS
    Films,
    Servers,       \* calls of run_due_reports that may be under way together
    Batches,       \* runs of the daily script, by cron or by hand, that may be under way together
    LastSample,    \* bound: times the comments of a film change
    LastClick,     \* bound: clicks on the button that start a job
    LastBooking,   \* bound: appointments made for a film
    MaxMishaps     \* bound: kills, statements without an answer, generations that fail

ASSUME ReportAssumption ==
    /\ LastSample \in Nat /\ LastClick \in Nat /\ LastBooking \in Nat /\ MaxMishaps \in Nat
    /\ Servers \cap Batches = {}

VARIABLES
    sample,       \* sample[f]: the comments of f, by the number of their changes
    report,       \* report[f]: the sample the stored report was made from; -1 before
    clicks,
    jobs,         \* web process: jobs[f], the status of the entry in _jobs
    tasks,        \* web process: the tasks _run, with the sample they have read, -1 before
    appointment,  \* D1: films with a next_report_date that has come
    lastResult,   \* D1: lastResult[f]
    serving,      \* serving[s]: films claimed or listed, the film in hand, the sample read for it
    \* history
    booked,       \* booked[f]: appointments of f
    made,         \* made[f]: generations begun for appointments of f
    crossed,      \* films for which a call outside the web process and something else generated together
    dropped,      \* films whose claim was lost with its answer or its process
    mishaps

reportStore   == <<sample, report, appointment, lastResult>>
reportHistory == <<booked, made, crossed, dropped, mishaps>>
webReports    == <<clicks, jobs, tasks>>
reportVars    == <<reportStore, webReports, serving, reportHistory>>

\* What generates outside the web process.
Calls == Servers \cup Batches

NotServing == [films |-> {}, film |-> {}, read |-> -1]

ReportInit ==
    /\ sample = [f \in Films |-> 0] /\ report = [f \in Films |-> -1]
    /\ clicks = 0 /\ jobs = [f \in Films |-> "none"] /\ tasks = {}
    /\ appointment = {} /\ lastResult = [f \in Films |-> "none"]
    /\ serving = [s \in Calls |-> NotServing]
    /\ booked = [f \in Films |-> 0] /\ made = [f \in Films |-> 0]
    /\ crossed = {} /\ dropped = {} /\ mishaps = 0

Mishap == mishaps < MaxMishaps /\ mishaps' = mishaps + 1

CommentsChange(f) ==
    /\ sample[f] < LastSample /\ sample' = [sample EXCEPT ![f] = @ + 1]
    /\ UNCHANGED <<report, appointment, lastResult, webReports, serving, reportHistory>>

ByButton(f) == \E t \in tasks : t.film = f /\ t.read >= 0
ByCall(f)   == \E s \in Calls : serving[s].film = {f} /\ serving[s].read >= 0
Crossing(f, other) == crossed' = IF other THEN crossed \cup {f} ELSE crossed

-----------------------------------------------------------------------------
(* report_queue.py                                                         *)

\* Mutant: a job that waits is found, one that runs is not.
OnlyWaiting == {"queued"}

Unfinished == {"queued", "running"}

\* enqueue_report_job.  _prune forgets jobs that ended an hour ago, this one or others.
EnqueueReport(f) ==
    /\ clicks < LastClick /\ clicks' = clicks + 1
    /\ jobs[f] \notin Unfinished
    /\ \E old \in SUBSET {g \in Films : jobs[g] \in {"done", "failed"}} :
        jobs' = [g \in Films |-> IF g = f THEN "queued" ELSE IF g \in old THEN "none" ELSE jobs[g]]
    /\ tasks' = tasks \cup {[film |-> f, click |-> clicks', read |-> -1]}
    /\ UNCHANGED <<reportStore, serving, reportHistory>>

\* _run begins, and generate_report_for_movie reads its sample.
RunReport(t) ==
    /\ t.read = -1
    /\ jobs' = [jobs EXCEPT ![t.film] = "running"]
    /\ tasks' = (tasks \ {t}) \cup {[t EXCEPT !.read = sample[t.film]]}
    /\ Crossing(t.film, ByCall(t.film))
    /\ UNCHANGED <<reportStore, clicks, serving, booked, made, dropped, mishaps>>

\* upsert_social_topic_report overwrites the row; or the job has failed.
EndReport(t) ==
    /\ t.read >= 0 /\ tasks' = tasks \ {t}
    /\ \/ /\ report' = [report EXCEPT ![t.film] = t.read]
          /\ jobs' = [jobs EXCEPT ![t.film] = "done"] /\ UNCHANGED mishaps
       \/ Mishap /\ jobs' = [jobs EXCEPT ![t.film] = "failed"] /\ UNCHANGED report
    /\ UNCHANGED <<sample, appointment, lastResult, clicks, serving, booked, made, crossed, dropped>>

\* The web process is started again: its memory is gone.
RestartWeb ==
    /\ Mishap /\ tasks # {} /\ tasks' = {} /\ jobs' = [f \in Films |-> "none"]
    /\ UNCHANGED <<reportStore, clicks, serving, booked, made, crossed, dropped>>

-----------------------------------------------------------------------------
(* report_schedule.py                                                      *)

\* An operator makes an appointment, and its hour comes.
AppointmentDue(f) ==
    /\ booked[f] < LastBooking /\ f \notin appointment
    /\ appointment' = appointment \cup {f} /\ booked' = [booked EXCEPT ![f] = @ + 1]
    /\ UNCHANGED <<sample, report, lastResult, webReports, serving, made, crossed, dropped, mishaps>>

\* Mutant: the statement does not take the date away.
KeepsDate == appointment

\* next_report_date = NULL
DateTaken == {}

\* UPDATE ... RETURNING: all that is due is claimed in one statement.  Its answer may be lost.
ClaimDue(s) ==
    /\ serving[s] = NotServing /\ appointment # {}
    /\ appointment' = DateTaken
    /\ lastResult' = [f \in Films |-> IF f \in appointment THEN "running" ELSE lastResult[f]]
    /\ \/ serving' = [serving EXCEPT ![s].films = appointment] /\ UNCHANGED <<dropped, mishaps>>
       \/ Mishap /\ dropped' = dropped \cup appointment /\ UNCHANGED serving
    /\ UNCHANGED <<sample, report, webReports, booked, made, crossed>>

ServeFilm(s) ==
    /\ serving[s].film = {}
    /\ \E f \in serving[s].films :
        /\ serving' = [serving EXCEPT ![s] = [films |-> @.films \ {f}, film |-> {f}, read |-> sample[f]]]
        /\ made' = [made EXCEPT ![f] = @ + 1]
        /\ Crossing(f, ByButton(f) \/ ByCall(f))
    /\ UNCHANGED <<reportStore, webReports, booked, dropped, mishaps>>

\* Mutant: an exception ends the call for the films that follow, too.
NothingAfterError(s) == NotServing

\* The exception of one film does not keep the next from its turn.
AfterError(s) == [serving[s] EXCEPT !.film = {}, !.read = -1]

\* The report is written, or the film fails; then last_result is, if D1 takes it.
FilmServed(s) ==
    /\ \E f \in serving[s].film :
        \/ /\ report' = [report EXCEPT ![f] = serving[s].read]
           /\ lastResult' = [lastResult EXCEPT ![f] = "generated"]
           /\ serving' = [serving EXCEPT ![s] = [@ EXCEPT !.film = {}, !.read = -1]]
           /\ UNCHANGED <<dropped, mishaps>>
        \/ /\ Mishap /\ lastResult' = [lastResult EXCEPT ![f] = "error"]
           /\ serving' = [serving EXCEPT ![s] = AfterError(s)]
           /\ UNCHANGED <<report, dropped>>
        \/ /\ Mishap /\ report' = [report EXCEPT ![f] = serving[s].read]
           /\ dropped' = dropped \cup {f}
           /\ serving' = [serving EXCEPT ![s] = [@ EXCEPT !.film = {}, !.read = -1]]
           /\ UNCHANGED lastResult
    /\ UNCHANGED <<sample, appointment, webReports, booked, made, crossed>>

KillServer(s) ==
    /\ serving[s] # NotServing /\ Mishap
    /\ dropped' = dropped \cup serving[s].films \cup serving[s].film
    /\ serving' = [serving EXCEPT ![s] = NotServing]
    /\ UNCHANGED <<reportStore, webReports, booked, made, crossed>>

-----------------------------------------------------------------------------
(* scripts/jobs/generate_social_topic_reports.py                           *)

\* generate: the enabled films, but those with an appointment on a later day; or the one asked for.
BatchBegins(b) ==
    /\ serving[b] = NotServing
    /\ \E fs \in SUBSET Films \ {{}} : serving' = [serving EXCEPT ![b].films = fs]
    /\ UNCHANGED <<reportStore, webReports, reportHistory>>

BatchTakes(b) ==
    /\ serving[b].film = {}
    /\ \E f \in serving[b].films :
        /\ serving' = [serving EXCEPT ![b] = [films |-> @.films \ {f}, film |-> {f}, read |-> sample[f]]]
        /\ Crossing(f, ByButton(f) \/ ByCall(f))
    /\ UNCHANGED <<reportStore, webReports, booked, made, dropped, mishaps>>

\* The report is written over what there is, or the film had too few comments or no answer.
BatchServed(b) ==
    /\ \E f \in serving[b].film : report' \in {report, [report EXCEPT ![f] = serving[b].read]}
    /\ serving' = [serving EXCEPT ![b] = [@ EXCEPT !.film = {}, !.read = -1]]
    /\ UNCHANGED <<sample, appointment, lastResult, webReports, reportHistory>>

\* An exception, or the end of the process, ends the whole run.
BatchEnds(b) ==
    /\ serving[b] # NotServing /\ serving' = [serving EXCEPT ![b] = NotServing]
    /\ UNCHANGED <<reportStore, webReports, reportHistory>>

ReportNext ==
    \/ \E f \in Films : CommentsChange(f) \/ EnqueueReport(f) \/ AppointmentDue(f)
    \/ \E t \in tasks : RunReport(t) \/ EndReport(t)
    \/ RestartWeb
    \/ \E s \in Servers : ClaimDue(s) \/ ServeFilm(s) \/ FilmServed(s) \/ KillServer(s)
    \/ \E b \in Batches : BatchBegins(b) \/ BatchTakes(b) \/ BatchServed(b) \/ BatchEnds(b)

ReportSpec == ReportInit /\ [][ReportNext]_reportVars

-----------------------------------------------------------------------------
(* Properties                                                              *)

ReportTypeOK ==
    /\ sample \in [Films -> 0 .. LastSample] /\ report \in [Films -> -1 .. LastSample]
    /\ clicks \in 0 .. LastClick /\ jobs \in [Films -> {"none", "queued", "running", "done", "failed"}]
    /\ tasks \subseteq [film : Films, click : 1 .. LastClick, read : -1 .. LastSample]
    /\ appointment \subseteq Films
    /\ lastResult \in [Films -> {"none", "running", "generated", "error"}]
    /\ serving \in [Calls -> [films : SUBSET Films, film : SUBSET Films, read : -1 .. LastSample]]
    /\ booked \in [Films -> 0 .. LastBooking] /\ made \in [Films -> Nat]
    /\ crossed \subseteq Films /\ dropped \subseteq Films /\ mishaps \in 0 .. MaxMishaps

\* A report is never replaced by one made from an older sample but when a call of another process has
\* crossed something else: two clicks never generate the report of one film at the same time, whatever
\* the queue has forgotten.  The scheduler, the daily script and the web process know nothing of each
\* other, so that a film they have generated together may go back, and only such a film.
ReportNeverOlder ==
    [][\A f \in Films : report'[f] < report[f] => f \in crossed]_reportVars

\* No appointment makes two reports, whichever processes and ticks look for what is due.  And one
\* whose date has been taken away is in the hands of a call, or its row says how it ended: a film
\* that fails does not take the others with it.  Only what was claimed by a process that died, or
\* with an answer that was lost, says 'running' for ever.
AppointmentKept ==
    \A f \in Films :
        /\ made[f] <= booked[f]
        /\ lastResult[f] = "running" =>
            f \in dropped \/ \E s \in Servers : f \in serving[s].films \cup serving[s].film
=============================================================================
