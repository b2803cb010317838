------------------------------ MODULE CrawlSlot ------------------------------
(***************************************************************************)
(* Scheduled crawls of one platform and one day                            *)
(* (app/services/crawl/scheduler.py).  A schedule has up to three times a  *)
(* day, its slots.  Every 30 seconds the tick of the scheduler takes the   *)
(* first slot that is due, claims it and leaves it to a task, which        *)
(* publishes a crawl request per keyword, nurture requests, and the        *)
(* page_feed requests of the source pages.  What Kafka has accepted is     *)
(* recorded in Redis item by item; an attempt that is not complete is made *)
(* again as long as the slot is due, for what is missing.                  *)
(*                                                                         *)
(* One process runs the scheduler (app/workers/scheduler/main.py).  It may *)
(* be killed and restarted at any point, and Redis, D1 and Kafka may fail  *)
(* in any call.                                                            *)
(***************************************************************************)
EXTENDS Naturals, FiniteSets

CONSTANTS
    LastSlot,    \* number of run times of the day, in order
    Keywords,    \* keywords of the platform
    Nurture,     \* nurture requests the schedule asks for
    Pages,       \* source pages; empty unless the platform is facebook
    Lanes,       \* facebook_crawl_lanes: source pages in the first slot only
    FiredCap,    \* size above which _crawl_fired is cleared, 500 in the code
    MaxLosses,   \* bound: kills, Redis failures, Kafka answers lost
    MaxOutages   \* bound: publications refused, D1 outages, cancelled ticks

Before      == "nurture_before"
After       == "nurture_after"
SourcePages == "source_pages"
Nothing     == "nothing"

ASSUME SlotAssumption ==
    /\ LastSlot \in Nat /\ FiredCap \in Nat /\ MaxLosses \in Nat /\ MaxOutages \in Nat
    /\ Nurture \subseteq {Before, After} /\ Lanes \in BOOLEAN
    /\ {Before, After, SourcePages, Nothing} \cap (Keywords \cup Pages) = {}
    /\ Keywords \cap Pages = {}

Slots    == 1 .. LastSlot
Messages == Keywords \cup Nurture
Items    == Messages \cup {SourcePages}

VARIABLES
    window,     \* window[s]: the slot is not due yet, due, or 30 minutes past
    \* Redis
    fired,      \* slots with a crawl_fired key
    lease,      \* slots with a crawl_lease key
    saved,      \* saved[s]: the items in its crawl_progress key
    \* the memory of the process
    memFired,   \* _crawl_fired
    task,       \* task[s]: the attempt of _run_crawl_slot, if there is one
    \* history
    sends,      \* sends[s][i]: messages for i that Kafka holds because of s
    owed,       \* owed[s]: what the keyword list asked for, attempt by attempt
    granted,    \* granted[s]: what the attempt that completed s was to deliver,
                \* and everything as long as there is none
    losses, outages

redisVars   == <<fired, lease, saved>>
memoryVars  == <<memFired, task>>
historyVars == <<sends, owed, granted>>
boundVars   == <<losses, outages>>
vars == <<window, redisVars, memoryVars, historyVars, boundVars>>

-----------------------------------------------------------------------------
NoTask == [at |-> "none", left |-> {}, done |-> {}, item |-> Nothing, complete |-> FALSE]

\* key in _crawl_running
Running(s) == task[s].at # "none"

Init ==
    /\ window = [s \in Slots |-> "early"]
    /\ fired = {} /\ lease = {} /\ saved = [s \in Slots |-> {}]
    /\ memFired = {} /\ task = [s \in Slots |-> NoTask]
    /\ sends = [s \in Slots |-> [i \in Messages \cup Pages |-> 0]]
    /\ owed = [s \in Slots |-> {}]
    /\ granted = [s \in Slots |-> Messages \cup Pages]
    /\ losses = 0 /\ outages = 0

\* One more failure that may lose what was done, or one that does nothing.
Loses  == losses < MaxLosses /\ losses' = losses + 1 /\ UNCHANGED outages
Fails  == outages < MaxOutages /\ outages' = outages + 1 /\ UNCHANGED losses
Works  == UNCHANGED boundVars

-----------------------------------------------------------------------------
(* Time.  _is_due: from its run time on, for _CATCH_UP_MINUTES.            *)

Open(s) ==
    /\ window[s] = "early"
    /\ \A e \in Slots : e < s => window[e] # "early"
    /\ window' = [window EXCEPT ![s] = "due"]
    /\ UNCHANGED <<redisVars, memoryVars, historyVars, boundVars>>

Close(s) ==
    /\ window[s] = "due"
    /\ \A e \in Slots : e < s => window[e] = "past"
    /\ window' = [window EXCEPT ![s] = "past"]
    /\ UNCHANGED <<redisVars, memoryVars, historyVars, boundVars>>

\* Mutant: the lease has no time to live.
RunsOutNever(s) == s \in lease /\ Running(s)

\* The lease is a key that lives 600 seconds, or 120 after a failed attempt.
RunsOut(s) == s \in lease

LeaseRunsOut(s) ==
    /\ RunsOut(s)
    /\ lease' = lease \ {s}
    /\ UNCHANGED <<window, fired, saved, memoryVars, historyVars, boundVars>>

-----------------------------------------------------------------------------
(* _tick and _claim_crawl_slot                                             *)

\* due[0]
FirstDue(s) ==
    /\ window[s] = "due"
    /\ \A e \in Slots : window[e] = "due" => s <= e

Become(s, t) == task' = [task EXCEPT ![s] = t]

Begin(s) ==
    Become(s, [at |-> "load", left |-> {}, done |-> {}, item |-> Nothing, complete |-> TRUE])

(* Redis answers: no flag, and no lease.  Or it fails, and the two sets in *)
(* memory decide alone; the lease may have been set.  Or the tick is       *)
(* cancelled after 25 seconds, with the lease set and nothing started.     *)
Claim(s) ==
    /\ FirstDue(s)
    /\ s \notin memFired /\ ~Running(s)
    /\ \/ s \notin fired /\ s \notin lease /\ lease' = lease \cup {s} /\ Begin(s) /\ Works
       \/ lease' \in {lease, IF s \in fired THEN lease ELSE lease \cup {s}} /\ Begin(s) /\ Loses
       \/ s \notin fired /\ lease' = lease \cup {s} /\ UNCHANGED task /\ Fails
    /\ UNCHANGED <<window, fired, saved, memFired, historyVars>>

-----------------------------------------------------------------------------
(* _run_crawl_slot and _trigger_platform                                   *)

\* Mutant: an attempt starts with nothing delivered.
LoadedNothing(s) == {}

\* The items an earlier attempt has recorded.
Loaded(s) == saved[s]

\* On to another place, with the items to deliver there.
GoTo(s, place, items) ==
    Become(s, [at |-> place, left |-> items, done |-> task[s].done, item |-> Nothing,
               complete |-> task[s].complete])

\* On to another place, after a failure.
GoOnWithout(s, place, items) ==
    Become(s, [at |-> place, left |-> items, done |-> task[s].done, item |-> Nothing,
               complete |-> FALSE])

\* An exception ends the attempt.
Abandon(s) == GoOnWithout(s, "finish", {})

\* A message for the item is with Kafka, and the item not yet recorded.
Accepted(s, i) ==
    Become(s, [at |-> task[s].at, left |-> task[s].left, done |-> task[s].done, item |-> i,
               complete |-> task[s].complete])

\* _SlotProgress.load
Load(s) ==
    /\ task[s].at = "load"
    /\ \E found \in {Loaded(s), {}} :
          /\ Become(s, [at |-> "before", left |-> Nurture \cap {Before}, done |-> found,
                        item |-> Nothing, complete |-> TRUE])
          /\ IF found = Loaded(s) THEN Works ELSE Loses
    /\ UNCHANGED <<window, redisVars, memFired, historyVars>>

\* Where nurture and keywords are delivered, and what comes next.
Delivering == {"before", "keywords", "after"}
Following(place) ==
    CASE place = "before"   -> "read"
      [] place = "keywords" -> "sources"
      [] place = "after"    -> "finish"

\* _deliver_once: item in progress
Skip(s) ==
    /\ task[s].at \in Delivering /\ task[s].item = Nothing
    /\ \E i \in task[s].left \cap task[s].done :
          GoTo(s, task[s].at, task[s].left \ {i})
    /\ UNCHANGED <<window, redisVars, memFired, historyVars, boundVars>>

Sent(s, items) ==
    sends' = [sends EXCEPT ![s] = [i \in Messages \cup Pages |->
                                      sends[s][i] + IF i \in items THEN 1 ELSE 0]]

(* publish_crawl_request or publish_nurture_request: Kafka accepts, or     *)
(* does not, or says that it does not; or enqueue_published raises after   *)
(* the message is sent.                                                    *)
Send(s) ==
    /\ task[s].at \in Delivering /\ task[s].item = Nothing
    /\ \E i \in task[s].left \ task[s].done :
          LET refused == GoOnWithout(s, task[s].at, task[s].left \ {i})
          IN  \/ Sent(s, {i}) /\ Accepted(s, i) /\ Works
              \/ Sent(s, {}) /\ refused /\ Fails
              \/ Sent(s, {i}) /\ refused /\ Loses
              \/ Sent(s, {i}) /\ Abandon(s) /\ Loses
    /\ UNCHANGED <<window, redisVars, memFired, owed, granted>>

\* _SlotProgress.add
Record(s) ==
    LET i == task[s].item
    IN  /\ i # Nothing
        /\ Become(s, [at |-> task[s].at, left |-> task[s].left \ {i},
                      done |-> task[s].done \cup {i}, item |-> Nothing,
                      complete |-> task[s].complete])
        /\ \/ saved' = [saved EXCEPT ![s] = @ \cup {i}] /\ Works
           \/ UNCHANGED saved /\ Loses
        /\ UNCHANGED <<window, fired, lease, memFired, historyVars>>

Advance(s) ==
    /\ task[s].at \in Delivering /\ task[s].item = Nothing /\ task[s].left = {}
    /\ GoTo(s, Following(task[s].at), {})
    /\ UNCHANGED <<window, redisVars, memFired, historyVars, boundVars>>

\* Mutant: without d1_strict an outage looks like an empty list.
OutageLenient(s) == GoTo(s, "after", Nurture \cap {After})

\* d1_strict: D1Unavailable ends the attempt.
Outage(s) == Abandon(s)

(* get_enabled_keywords or fresh_keywords, and plan_crawl: the keywords of *)
(* the slot as they are now.  Without one, the source pages are left out   *)
(* too.                                                                    *)
ReadKeywords(s) ==
    /\ task[s].at = "read"
    /\ \E asked \in SUBSET Keywords :
          /\ owed' = [owed EXCEPT ![s] = Nurture \cup asked]
          /\ \/ GoTo(s, "keywords", asked) /\ Works
             \/ asked = {} /\ GoTo(s, "after", Nurture \cap {After}) /\ Works
             \/ Outage(s) /\ Fails
    /\ UNCHANGED <<window, redisVars, memFired, sends, granted>>

\* The pages that are queued with slot s.
PagesOf(s) == IF Lanes /\ s # 1 THEN {} ELSE Pages

(* The source pages: queue_enabled_sources publishes what is due, and does *)
(* not say what Kafka has refused; an exception makes the attempt          *)
(* incomplete, and it goes on.                                             *)
QueueSources(s) ==
    /\ task[s].at = "sources" /\ task[s].item = Nothing
    /\ IF PagesOf(s) = {} \/ SourcePages \in task[s].done
       THEN GoTo(s, "after", Nurture \cap {After}) /\ Works /\ UNCHANGED <<sends, owed>>
       ELSE \E due \in SUBSET PagesOf(s) : \E accepted \in SUBSET due :
               /\ Sent(s, accepted)
               /\ owed' = [owed EXCEPT ![s] = @ \cup due]
               /\ \/ Accepted(s, SourcePages) /\ IF accepted = due THEN Works ELSE Fails
                  \/ GoOnWithout(s, "after", Nurture \cap {After}) /\ Fails
    /\ UNCHANGED <<window, redisVars, memFired, granted>>

\* Mutant: the record of an attempt stays behind.
EndedHalf(s) ==
    [at |-> "none", left |-> {}, done |-> task[s].done, item |-> Nothing, complete |-> FALSE]

\* _crawl_running.discard
Ended(s) == NoTask

(* _finish_crawl_slot.  A complete slot gets its flag, in memory and in    *)
(* Redis; one that is not complete keeps a lease until the next attempt.   *)
Finish(s) ==
    /\ task[s].at = "finish"
    /\ Become(s, Ended(s))
    /\ IF task[s].complete
       THEN /\ memFired' = IF Cardinality(memFired) > FiredCap THEN {s} ELSE memFired \cup {s}
            /\ granted' = [granted EXCEPT ![s] = owed[s]]
            /\ \/ /\ fired' = fired \cup {s}
                  /\ lease' = lease \ {s}
                  /\ saved' = [saved EXCEPT ![s] = {}]
                  /\ Works
               \/ fired' \in {fired, fired \cup {s}} /\ UNCHANGED <<lease, saved>> /\ Loses
       ELSE /\ \/ lease' = lease \cup {s} /\ Works
               \/ UNCHANGED lease /\ Loses
            /\ UNCHANGED <<memFired, granted, fired, saved>>
    /\ UNCHANGED <<window, sends, owed>>

\* The process is killed, and started again.
Restart ==
    /\ Loses
    /\ memFired' = {}
    /\ task' = [s \in Slots |-> NoTask]
    /\ UNCHANGED <<window, redisVars, historyVars>>

-----------------------------------------------------------------------------
Step(s) ==
    \/ Load(s) \/ Skip(s) \/ Send(s) \/ Record(s) \/ Advance(s)
    \/ ReadKeywords(s) \/ QueueSources(s) \/ Finish(s)

Next ==
    \/ \E s \in Slots : Open(s) \/ Close(s) \/ LeaseRunsOut(s) \/ Claim(s) \/ Step(s)
    \/ Restart

Spec == Init /\ [][Next]_vars

(* The scheduler ticks, its tasks go on, and Redis keys run out.  Nothing  *)
(* makes a window close.                                                   *)
Fairness ==
    \A s \in Slots : WF_vars(Claim(s)) /\ WF_vars(Step(s)) /\ WF_vars(LeaseRunsOut(s))

FairSpec == Spec /\ Fairness
-----------------------------------------------------------------------------
(* Properties.                                                             *)

Places == {"none", "load", "before", "read", "keywords", "sources", "after", "finish"}

\* An attempt: what it has left is to be delivered where it is.
Attempts ==
    [at : Places, left : SUBSET Messages, done : SUBSET Items, item : Items \cup {Nothing},
     complete : BOOLEAN]

TypeOK ==
    /\ window \in [Slots -> {"early", "due", "past"}]
    /\ fired \subseteq Slots /\ lease \subseteq Slots
    /\ saved \in [Slots -> SUBSET Items]
    /\ memFired \subseteq Slots
    /\ task \in [Slots -> Attempts]
    /\ \A s \in Slots : ~Running(s) => task[s] = NoTask
    /\ sends \in [Slots -> [Messages \cup Pages -> Nat]]
    /\ owed \in [Slots -> SUBSET (Messages \cup Pages)]
    /\ granted \in [Slots -> SUBSET (Messages \cup Pages)]
    /\ losses \in 0 .. MaxLosses /\ outages \in 0 .. MaxOutages

\* The slot is over: the flag is in Redis, or in memory at least.
Marked(s) == s \in fired \cup memFired

(* "co fired chi dat khi Kafka da nhan du": a slot that is over has all    *)
(* its keywords, and the nurture it asks for, with Kafka.  It takes a D1   *)
(* outage that is not a list of no keywords, attempts that add up, and a   *)
(* flag that comes last.                                                   *)
FiredMeansDelivered ==
    \A s \in Slots : Marked(s) => \A i \in granted[s] \ Pages : sends[s][i] > 0

\* The same for the source pages of the slot.
SourcesDelivered ==
    \A s \in Slots : Marked(s) => \A i \in granted[s] \cap Pages : sends[s][i] > 0

(* An attempt sends what is missing, and no more: a keyword goes to Kafka  *)
(* once in a slot, and once more for each kill, Redis failure or lost      *)
(* answer of Kafka at most; never for a retry, a restart without losses, a *)
(* lease that has run out or a slot that is over.                          *)
OnceAndOncePerLoss ==
    \A s \in Slots : \A i \in Messages : sends[s][i] <= 1 + losses

(* A slot whose turn it is gets done while it is due: not a killed         *)
(* process, a cancelled tick, a lease nobody gives back nor an attempt     *)
(* that failed keeps it from being delivered as long as its window lasts.  *)
DueSlotDelivered ==
    \A s \in Slots : FirstDue(s) ~> (Marked(s) \/ window[s] = "past")

-----------------------------------------------------------------------------
(* The inductive invariant behind the two safety properties.               *)

\* What an attempt that is at a place should have asked Kafka for by now.
AskedAt(place, asked) ==
    CASE place \in {"before", "read"}      -> Nurture \cap {Before}
      [] place \in {"keywords", "sources"} -> asked \ {After}
      [] place \in {"after", "finish"}     -> asked
      [] OTHER                             -> {}

\* What an attempt holds at each of its places.
AttemptShape ==
    \A s \in Slots :
        /\ task[s].at \in Delivering \/ task[s].left = {}
        /\ task[s].item = Nothing \/ task[s].at \in Delivering \cup {"sources"}

\* What is recorded, or about to be, has been sent.
RecordedAreSent ==
    \A s \in Slots : \A i \in Messages :
        i \in saved[s] \cup task[s].done \cup {task[s].item} => sends[s][i] > 0

\* As long as an attempt is complete, what it asked for is sent or left.
CompleteSoFar ==
    \A s \in Slots : task[s].complete =>
        \A i \in AskedAt(task[s].at, owed[s]) \cap Messages :
            sends[s][i] > 0 \/ i \in task[s].left

\* A message the next attempt, or this one, does not know of is due to a loss.
UnknownAreLosses ==
    \A s \in Slots : \A i \in Messages \ {task[s].item} :
        /\ (i \notin saved[s] /\ (s \notin fired \/ task[s].at = "load")) =>
               sends[s][i] <= losses
        /\ (i \notin task[s].done /\ task[s].at \notin {"none", "load"}) =>
               sends[s][i] <= losses

IInv ==
    /\ TypeOK
    /\ AttemptShape
    /\ RecordedAreSent
    /\ CompleteSoFar
    /\ UnknownAreLosses
    /\ FiredMeansDelivered
    /\ OnceAndOncePerLoss
=============================================================================
