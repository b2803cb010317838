------------------------------ MODULE OmarRound -------------------------------
(***************************************************************************)
(* The rounds that crawl TikTok hashtags through the Omar API              *)
(* (app/services/omar/omar_tiktok.py, _omar_tick of scheduler.py and the   *)
(* buttons of routes/omar.py).  A round spends what is left of the day's   *)
(* quota, one page of one hashtag at a time; the cursor of each hashtag is *)
(* kept in Redis, so that the next round goes on where this one stopped.   *)
(* The operator may have one hashtag crawled apart from the rounds.  What  *)
(* the code keeps in module globals is kept by process: the scheduler runs *)
(* in the web (SCHEDULER_IN_WEB), or as a service of its own beside it,    *)
(* and then the rounds of the two know nothing of each other.              *)
(***************************************************************************)
EXTENDS Naturals, FiniteSets

CONSTANTS
    Processes,    \* of cinemark-api
    Scheduler,    \* the one of them that runs the scheduler
    Tags,         \* hashtags
    LastPage,     \* the pages of a hashtag are 0 .. LastPage
    DayQuota,     \* requests a day that the plan of the key allows
    Reserve,      \* omar_daily_reserve, left for crawls by hand
    Fallback,     \* hour_cap // 4, the budget of a round that /usage does not answer
    Feeds,        \* run_search and run_channels
    ShareOf,      \* ShareOf[s]: a side job has one part in ShareOf[s] of the budget
    PageTries,    \* _MAX_PAGE_FAILURES and _EMPTY_RETRIES
    StallRounds,  \* _MAX_STALL_ROUNDS
    EmptyPages,   \* _MAX_EMPTY_PAGES
    MaxTroubles,  \* MaxTroubles[web], a bound: bad answers, requests beside the budgets,
                  \* restarts, presses of buttons
    MaxAges       \* bound: times a finished hashtag grows older

Pages == 0 .. LastPage
Sides == Feeds \cup {"comments"}

ASSUME OmarRoundAssumption ==
    /\ Scheduler \in Processes /\ Fallback \in Nat \ {0}
    /\ LastPage \in Nat /\ DayQuota \in Nat /\ Reserve \in 0 .. DayQuota
    /\ ShareOf \in [Sides -> Nat \ {0}] /\ PageTries \in Nat \ {0} /\ StallRounds \in Nat
    /\ EmptyPages \in Nat \ {0} /\ MaxTroubles \in [Processes -> Nat] /\ MaxAges \in Nat

VARIABLES
    web,           \* the process that serves the buttons; it never changes
    stored,        \* Redis: stored[h], the entry of h in omar:hashtag_state
    pause,         \* Redis: the reason in omar:paused; "over" once its time has come
    hourTaken,     \* Redis: omar_round:last_hour is this hour
    quota,         \* requests Omar still allows today
    beyond,        \* history: those answered today that no plan of a round allows for
    running,       \* memory of each process, as the rest: _round["running"]
    stopRequested,
    round,         \* where the round is, its budget, what halted it, the hashtags to crawl again
    loaded,        \* loaded[p][h]: state[h] of the round
    entries,       \* entries[p][h]: the entry the round works on, if there is one
    left,          \* hashtags in the heap of the loop
    asking,        \* hashtags with a request under way
    tries,         \* tries[p][h]: answers in a row that failed, and that were empty
    manual,        \* manual[p][h]: the entry of a crawl by hand, if there is one
    troubles, ages

redisVars == <<web, stored, pause, hourTaken>>
planVars  == <<quota, beyond>>
tagVars   == <<loaded, entries, left, asking, tries>>
restVars  == <<manual, troubles, ages>>
roundVars == <<redisVars, planVars, running, stopRequested, round, tagVars, restVars>>

\* cursor: 0 for none.  some: a page was had.  done: the age of done_at, "settled" after
\* omar_recrawl_min_hours and "due" after omar_recrawl_days.  had, blank: history, the pages this
\* pass has had an answer for, and whether one of the answers was empty.
NewEntry == [cursor |-> 0, some |-> FALSE, done |-> "never", stalls |-> 0, empty |-> 0,
             missing |-> FALSE, had |-> {}, blank |-> FALSE]
Fresh    == [h \in Tags |-> NewEntry]
Nobody   == [h \in Tags |-> {}]
NoRound  == [at |-> "none", planned |-> FALSE, limit |-> 0, spent |-> 0,
             used |-> [s \in Sides |-> 0], halted |-> "no", again |-> {}]
NoTries  == [h \in Tags |-> [fail |-> 0, empty |-> 0]]

\* All the processes have the same value.
Each(value) == [p \in Processes |-> value]

OmarRoundInit ==
    /\ web \in Processes /\ stored = Fresh /\ pause = "no" /\ hourTaken = FALSE
    /\ quota = DayQuota /\ beyond = 0
    /\ running = Each(FALSE) /\ stopRequested = Each(FALSE) /\ round = Each(NoRound)
    /\ loaded = Each(Fresh) /\ entries = Each(Nobody) /\ left = Each({}) /\ asking = Each({})
    /\ tries = Each(NoTries) /\ manual = Each(Nobody) /\ troubles = 0 /\ ages = 0

Trouble == troubles < MaxTroubles[web] /\ troubles' = troubles + 1

-----------------------------------------------------------------------------
(* claim_round, _omar_tick, trigger_omar_now, request_stop                 *)

Claimed(p, place) ==
    /\ running' = [running EXCEPT ![p] = TRUE] /\ stopRequested' = [stopRequested EXCEPT ![p] = FALSE]
    /\ round' = [round EXCEPT ![p] = [NoRound EXCEPT !.at = place]]

At(p, place) == round' = [round EXCEPT ![p].at = place]

\* A pause that is over is taken away and a round opens at once; otherwise there is one an hour.
Tick ==
    /\ ~running[Scheduler]
    /\ \/ pause = "over" /\ pause' = "no"
       \/ pause = "no" /\ ~hourTaken /\ UNCHANGED pause
    /\ Claimed(Scheduler, "claimed")
    /\ UNCHANGED <<web, stored, hourTaken, planVars, tagVars, restVars>>

\* redis.set of the hour, then _spawn.
TickSpawns ==
    /\ round[Scheduler].at = "claimed" /\ hourTaken' = TRUE /\ At(Scheduler, "opening")
    /\ UNCHANGED <<web, stored, pause, planVars, running, stopRequested, tagVars, restVars>>

\* That write fails, or takes the tick over its 25 seconds: _loop logs it and goes on.
TickFails ==
    /\ round[Scheduler].at = "claimed" /\ Trouble
    /\ hourTaken' \in {hourTaken, TRUE} /\ round' = [round EXCEPT ![Scheduler] = NoRound]
    /\ UNCHANGED <<web, stored, pause, planVars, running, stopRequested, tagVars, manual, ages>>

\* POST /omar/run takes the pause away first.
RunNow ==
    /\ Trouble /\ pause' = "no"
    /\ IF running[web] THEN UNCHANGED <<running, stopRequested, round>> ELSE Claimed(web, "opening")
    /\ UNCHANGED <<web, stored, hourTaken, planVars, tagVars, manual, ages>>

RequestStop ==
    /\ running[web] /\ Trouble /\ stopRequested' = [stopRequested EXCEPT ![web] = TRUE]
    /\ UNCHANGED <<redisVars, planVars, running, round, tagVars, manual, ages>>

\* The memory of a round is gone.
Forgotten(p) ==
    /\ running' = [running EXCEPT ![p] = FALSE] /\ stopRequested' = [stopRequested EXCEPT ![p] = FALSE]
    /\ round' = [round EXCEPT ![p] = NoRound] /\ loaded' = [loaded EXCEPT ![p] = Fresh]
    /\ entries' = [entries EXCEPT ![p] = Nobody] /\ left' = [left EXCEPT ![p] = {}]
    /\ asking' = [asking EXCEPT ![p] = {}] /\ tries' = [tries EXCEPT ![p] = NoTries]

\* Mutant: the reserve is spent with the rest.
NoReserve(q) == q

Spendable(q) == IF q > Reserve THEN q - Reserve ELSE 0

Todo(e) == ~e.missing /\ e.done \in {"never", "due"}

\* The round has its budget.  It is planned if that leaves the reserve and no round of another
\* process counts on the same requests.
Opened(p, limit, known) ==
    /\ round' = [round EXCEPT ![p] = [@ EXCEPT !.at = "deep", !.limit = limit,
                    !.planned = known /\ \A q \in Processes : ~round[q].planned,
                    !.again = {h \in Tags : ~stored[h].missing /\ stored[h].done = "settled"}]]
    /\ loaded' = [loaded EXCEPT ![p] = stored]
    /\ left' = [left EXCEPT ![p] = {h \in Tags : Todo(stored[h])}]
    /\ UNCHANGED <<redisVars, planVars, running, stopRequested, entries, asking, tries, manual, ages>>

\* /usage gives the budget.
Open(p) ==
    /\ round[p].at = "opening" /\ Spendable(quota) > 0
    /\ Opened(p, Spendable(quota), TRUE) /\ UNCHANGED troubles

OpenInVain(p) ==
    /\ round[p].at = "opening" /\ Spendable(quota) = 0
    /\ pause' = "quota" /\ Forgotten(p)
    /\ UNCHANGED <<web, stored, hourTaken, planVars, restVars>>

\* fetch_usage has no answer: a quarter of an hour's requests, whatever is left of the day.
OpenBlind(p) == round[p].at = "opening" /\ Trouble /\ Opened(p, Fallback, FALSE)

-----------------------------------------------------------------------------
(* Spending: Budget.take and Budget.exhausted                              *)

StopNow(p)   == stopRequested[p] \/ round[p].halted # "no"
Exhausted(p) == round[p].spent >= round[p].limit

\* Omar answers a request of a round.
Paid(p) ==
    /\ quota > 0 /\ quota' = quota - 1
    /\ beyond' = IF round[p].planned THEN beyond ELSE beyond + 1

\* Requests that no budget of a round counts: omar_get asks again after a 424 or a 429, and videos
\* are looked up one by one (omar_trending, tracked_posts, hashtag_exists).
RequestBeside ==
    /\ Trouble /\ quota > 0 /\ quota' = quota - 1 /\ beyond' = beyond + 1
    /\ UNCHANGED <<redisVars, running, stopRequested, round, tagVars, manual, ages>>

Taken(r) == [r EXCEPT !.spent = @ + 1]

\* A child's request is taken from its parent too.
TakenForSide(r, s) == [Taken(r) EXCEPT !.used[s] = @ + 1]

\* A request of the search, the channels or the comments, and its answer.
SideRequest(p, s) ==
    /\ round[p].at = (IF s = "comments" THEN "comments" ELSE "deep") /\ ~StopNow(p)
    /\ round[p].used[s] < round[p].limit \div ShareOf[s] /\ ~Exhausted(p)
    /\ \/ Paid(p) /\ round' = [round EXCEPT ![p] = TakenForSide(@, s)]
       \/ /\ quota = 0 /\ UNCHANGED planVars
          /\ round' = [round EXCEPT ![p] = [TakenForSide(@, s) EXCEPT !.halted = "daily"]]
    /\ UNCHANGED <<redisVars, running, stopRequested, tagVars, restVars>>

-----------------------------------------------------------------------------
(* crawl_page                                                              *)

\* Only the figures of hashtag_info are kept for another pass.
ResetPass(e) == NewEntry

Begun(p, h) ==
    IF entries[p][h] # {} THEN entries[p][h]
    ELSE {IF loaded[p][h].done = "never" THEN loaded[p][h] ELSE ResetPass(loaded[p][h])}

Looping(p) == round[p].at \in {"deep", "fresh"}

Ask(p, h) ==
    /\ Looping(p) /\ h \in left[p] \ asking[p] /\ manual[p][h] = {} /\ ~StopNow(p) /\ ~Exhausted(p)
    /\ entries' = [entries EXCEPT ![p][h] = Begun(p, h)] /\ asking' = [asking EXCEPT ![p] = @ \cup {h}]
    /\ round' = [round EXCEPT ![p] = Taken(@)]
    /\ UNCHANGED <<redisVars, planVars, running, stopRequested, loaded, left, tries, restVars>>

\* A hashtag that this process crawls by hand is left to that.
LeaveToHand(p, h) ==
    /\ Looping(p) /\ h \in left[p] \ asking[p] /\ manual[p][h] # {}
    /\ left' = [left EXCEPT ![p] = @ \ {h}]
    /\ UNCHANGED <<redisVars, planVars, running, stopRequested, round, loaded, entries, asking, tries, restVars>>

Done(e) == [e EXCEPT !.cursor = 0, !.empty = 0, !.stalls = 0, !.done = "recent"]

\* e after the answer to its page: whether it has videos, and whether Omar says there is more.
Paged(e, videos, more) ==
    LET n == [e EXCEPT !.some = TRUE, !.missing = FALSE, !.had = @ \cup {e.cursor},
                       !.blank = @ \/ ~videos, !.stalls = IF videos THEN 0 ELSE @,
                       !.empty = IF videos THEN 0 ELSE @ + 1]
    IN IF ~more \/ n.empty >= EmptyPages THEN Done(n) ELSE [n EXCEPT !.cursor = @ + 1]

\* Mutant: the entry is saved when the round ends.
SavedLater(p, h, e) == UNCHANGED stored /\ loaded' = [loaded EXCEPT ![p][h] = e]

\* After every page.
Saved(p, h, e) == stored' = [stored EXCEPT ![h] = e] /\ loaded' = [loaded EXCEPT ![p][h] = e]

Kept(p, h, e) ==
    entries' = [entries EXCEPT ![p][h] = {e}] /\ asking' = [asking EXCEPT ![p] = @ \ {h}]

\* The hashtag stays in the heap unless the loop is through with it.
Stays(p, h, more) == left' = [left EXCEPT ![p] = IF more THEN @ ELSE @ \ {h}]

AnsweredVars == <<web, pause, hourTaken, running, stopRequested>>

AnswerPage(p, h) ==
    /\ h \in asking[p] /\ Paid(p)
    /\ \E e \in entries[p][h] :
        LET n == Paged(e, TRUE, e.cursor < LastPage) IN
        Saved(p, h, n) /\ Kept(p, h, n) /\ Stays(p, h, n.done # "recent")
    /\ tries' = [tries EXCEPT ![p][h] = [fail |-> 0, empty |-> 0]]
    /\ UNCHANGED <<AnsweredVars, round, restVars>>

\* An empty page after the first is asked for again, and then left to the next round.
AnswerEmpty(p, h, more) ==
    /\ h \in asking[p] /\ Paid(p) /\ Trouble
    /\ \E e \in entries[p][h] :
        LET again == e.cursor > 0 /\ tries[p][h].empty < PageTries
            stall == e.cursor > 0 /\ ~more /\ e.stalls + 1 < StallRounds
            n == IF again THEN e
                 ELSE IF stall THEN [e EXCEPT !.stalls = @ + 1, !.missing = FALSE]
                 ELSE Paged(e, FALSE, more) IN
        /\ more => e.cursor < LastPage
        /\ Kept(p, h, n) /\ Stays(p, h, again \/ ~(stall \/ n.done = "recent"))
        /\ IF again THEN UNCHANGED <<stored, loaded>> ELSE Saved(p, h, n)
        /\ tries' = [tries EXCEPT ![p][h] = [fail |-> 0, empty |-> IF again \/ stall THEN @.empty + 1 ELSE 0]]
    /\ UNCHANGED <<AnsweredVars, round, manual, ages>>

\* Mutant: omar_get returns an empty answer when its tries are used up.
ErrorIsEnd(e, unknown) == Done(e)

AfterError(e, unknown) == [e EXCEPT !.missing = unknown \/ @]

\* No page was ever had: TikTok has no such hashtag.  Otherwise the page is asked for again.
\* What Omar charges for the requests in vain is charged by RequestBeside.
AnswerError(p, h) ==
    /\ h \in asking[p] /\ Trouble
    /\ \E e \in entries[p][h] :
        LET unknown == e.cursor = 0 /\ ~e.some /\ loaded[p][h].done = "never"
            n == AfterError(e, unknown)
            fails == tries[p][h].fail + 1 IN
        /\ Kept(p, h, n) /\ Stays(p, h, ~unknown /\ fails < PageTries)
        /\ IF unknown THEN Saved(p, h, n) ELSE UNCHANGED <<stored, loaded>>
        /\ tries' = [tries EXCEPT ![p][h].fail = IF unknown THEN @ ELSE fails]
    /\ UNCHANGED <<AnsweredVars, planVars, round, manual, ages>>

\* OmarStop: the quota of the day is used up, or the key is refused.
AnswerStop(p, h) ==
    /\ h \in asking[p]
    /\ \E why \in {"daily", "key"} :
        /\ round' = [round EXCEPT ![p].halted = why]
        /\ IF why = "daily" THEN quota = 0 /\ UNCHANGED troubles ELSE Trouble
    /\ Stays(p, h, FALSE) /\ asking' = [asking EXCEPT ![p] = @ \ {h}]
    /\ UNCHANGED <<AnsweredVars, stored, planVars, loaded, entries, tries, manual, ages>>

-----------------------------------------------------------------------------
(* run_omar_round after the first loop                                     *)

Ended(p) == asking[p] = {} /\ (left[p] = {} \/ StopNow(p) \/ Exhausted(p))

\* What comes next is for what is left of the budget.
Then(p, next) == At(p, IF StopNow(p) \/ Exhausted(p) THEN "closing" ELSE next)

PhaseVars == <<redisVars, planVars, running, stopRequested, loaded, asking, tries, restVars>>

DeepEnds(p) ==
    /\ round[p].at = "deep" /\ Ended(p) /\ left' = [left EXCEPT ![p] = {}] /\ Then(p, "comments")
    /\ UNCHANGED <<PhaseVars, entries>>

\* The finished hashtags are crawled again from their first page.
CommentsEnd(p) ==
    /\ round[p].at = "comments" /\ Then(p, "fresh")
    /\ IF StopNow(p) \/ Exhausted(p) THEN UNCHANGED <<entries, left>>
       ELSE entries' = [entries EXCEPT ![p] = Nobody] /\ left' = [left EXCEPT ![p] = round[p].again]
    /\ UNCHANGED PhaseVars

\* stale_info is some of the hashtags.
FreshEnds(p) ==
    /\ round[p].at = "fresh" /\ Ended(p) /\ Then(p, "info")
    /\ \E stale \in SUBSET Tags : left' = [left EXCEPT ![p] = stale]
    /\ UNCHANGED <<PhaseVars, entries>>

\* refresh_info writes the entry this round has, with the figures.
RefreshInfo(p, h) ==
    /\ round[p].at = "info" /\ h \in left[p] /\ ~StopNow(p) /\ ~Exhausted(p) /\ Paid(p)
    /\ round' = [round EXCEPT ![p] = Taken(@)]
    /\ stored' = [stored EXCEPT ![h] = loaded[p][h]] /\ Stays(p, h, FALSE)
    /\ UNCHANGED <<AnsweredVars, loaded, entries, asking, tries, restVars>>

InfoEnds(p) ==
    /\ round[p].at = "info" /\ (left[p] = {} \/ StopNow(p) \/ Exhausted(p) \/ quota = 0)
    /\ round' = [round EXCEPT ![p] = [@ EXCEPT !.at = "closing",
                    !.halted = IF left[p] # {} /\ quota = 0 THEN "daily" ELSE round[p].halted]]
    /\ UNCHANGED <<redisVars, planVars, running, stopRequested, tagVars, restVars>>

\* _pause_after_round, unless the operator has stopped the round; /usage is read again.
PauseAfter(p) ==
    CASE stopRequested[p] -> pause
      [] ~stopRequested[p] /\ round[p].halted = "key" -> "key"
      [] ~stopRequested[p] /\ round[p].halted = "daily" -> "quota"
      [] ~stopRequested[p] /\ round[p].halted = "no" ->
            IF Exhausted(p) /\ Spendable(quota) = 0 THEN "quota" ELSE pause

Close(p) ==
    /\ round[p].at = "closing" /\ pause' = PauseAfter(p) /\ Forgotten(p)
    /\ UNCHANGED <<web, stored, hourTaken, planVars, restVars>>

-----------------------------------------------------------------------------
(* _crawl_hashtag_now                                                      *)

CrawlNow(h) ==
    /\ manual[web][h] = {} /\ Trouble
    /\ LET e == IF stored[h].done = "never" THEN stored[h] ELSE ResetPass(stored[h]) IN
        manual' = [manual EXCEPT ![web][h] = {[e EXCEPT !.missing = FALSE]}]
    /\ UNCHANGED <<redisVars, planVars, running, stopRequested, round, tagVars, ages>>

ManualVars == <<web, pause, hourTaken, running, stopRequested, round, tagVars, ages>>

\* Every page is saved.  The crawl ends with the last, and with any that Omar says is the last.
ManualPage(h, videos) ==
    /\ quota > 0 /\ quota' = quota - 1 /\ beyond' = beyond + 1
    /\ \E e \in manual[web][h], more \in BOOLEAN :
        /\ IF videos THEN more = (e.cursor < LastPage) /\ UNCHANGED troubles
           ELSE (more => e.cursor < LastPage) /\ Trouble
        /\ LET n == [Paged(e, videos, more) EXCEPT !.stalls = e.stalls, !.empty = e.empty] IN
            LET m == IF more THEN [n EXCEPT !.cursor = e.cursor + 1, !.done = "never"] ELSE n IN
            /\ stored' = [stored EXCEPT ![h] = m]
            /\ manual' = [manual EXCEPT ![web][h] = IF more THEN {m} ELSE {}]
    /\ UNCHANGED ManualVars

\* The page fails until the crawl gives up, or the quota is used up.
ManualEnds(h) ==
    /\ \E e \in manual[web][h] :
        \/ /\ Trouble
           /\ stored' = [stored EXCEPT ![h] = [e EXCEPT !.missing = e.cursor = 0 /\ ~e.some]]
        \/ quota = 0 /\ stored' = [stored EXCEPT ![h] = e] /\ UNCHANGED troubles
    /\ manual' = [manual EXCEPT ![web][h] = {}]
    /\ UNCHANGED <<ManualVars, planVars>>

-----------------------------------------------------------------------------
(* Time, and the processes                                                 *)

TimeVars == <<web, running, stopRequested, round, entries, left, asking, tries, manual, troubles>>

\* The quota is reset; a pause for it is over.
NewDay ==
    /\ quota < DayQuota /\ quota' = DayQuota /\ beyond' = 0
    /\ pause' = IF pause = "quota" THEN "over" ELSE pause
    /\ UNCHANGED <<TimeVars, stored, hourTaken, loaded, ages>>

\* pause_over: until has come, which is an hour from now if /usage did not answer; or there is
\* another key.
PauseOver ==
    /\ pause \in {"key", "quota"} /\ pause' = "over"
    /\ UNCHANGED <<TimeVars, stored, hourTaken, planVars, loaded, ages>>

NewHour ==
    /\ hourTaken /\ hourTaken' = FALSE
    /\ UNCHANGED <<TimeVars, stored, pause, planVars, loaded, ages>>

Older(age) == IF age = "recent" THEN {"settled", "due"} ELSE {"due"}

GrowOlder(h) ==
    /\ stored[h].done \in {"recent", "settled"} /\ ages < MaxAges /\ ages' = ages + 1
    /\ \E age \in Older(stored[h].done) :
        /\ stored' = [stored EXCEPT ![h].done = age]
        /\ loaded' = [p \in Processes |->
                        [loaded[p] EXCEPT ![h].done = IF loaded[p][h] = stored[h] THEN age ELSE @]]
    /\ UNCHANGED <<TimeVars, pause, hourTaken, planVars>>

\* omar_missing_recheck_hours.
MissingEnds(h) ==
    /\ stored[h].missing /\ stored' = [stored EXCEPT ![h].missing = FALSE]
    /\ loaded' = [p \in Processes |-> [loaded[p] EXCEPT ![h].missing = FALSE]]
    /\ UNCHANGED <<TimeVars, pause, hourTaken, planVars, ages>>

Restart(p) ==
    /\ Trouble /\ Forgotten(p) /\ manual' = [manual EXCEPT ![p] = Nobody]
    /\ UNCHANGED <<redisVars, planVars, ages>>

-----------------------------------------------------------------------------

\* A tick that claimed a round and failed: nothing gives the claim back before a restart.
Leaked == running[Scheduler] /\ round[Scheduler].at = "none"

TickStep == Tick \/ TickSpawns

RoundStep(p) ==
    \/ Open(p) \/ OpenInVain(p) \/ DeepEnds(p) \/ CommentsEnd(p) \/ FreshEnds(p) \/ InfoEnds(p) \/ Close(p)
    \/ \E h \in Tags : Ask(p, h) \/ LeaveToHand(p, h) \/ AnswerPage(p, h) \/ AnswerStop(p, h) \/ RefreshInfo(p, h)

OmarRoundNext ==
    \/ TickStep \/ TickFails \/ RunNow \/ RequestStop \/ RequestBeside \/ NewDay \/ PauseOver \/ NewHour
    \/ \E p \in Processes :
        \/ RoundStep(p) \/ OpenBlind(p) \/ Restart(p)
        \/ \E s \in Sides : SideRequest(p, s)
        \/ \E h \in Tags : AnswerError(p, h) \/ \E more \in BOOLEAN : AnswerEmpty(p, h, more)
    \/ \E h \in Tags :
        \/ CrawlNow(h) \/ ManualEnds(h) \/ GrowOlder(h) \/ MissingEnds(h)
        \/ \E videos \in BOOLEAN : ManualPage(h, videos)

\* The loop of the scheduler ticks, a round and a crawl by hand go on, and time passes.
OmarRoundFairness ==
    /\ WF_roundVars(TickStep) /\ \A p \in Processes : WF_roundVars(RoundStep(p))
    /\ WF_roundVars(NewDay) /\ WF_roundVars(PauseOver) /\ WF_roundVars(NewHour)
    /\ \A h \in Tags :
        /\ WF_roundVars(MissingEnds(h)) /\ WF_roundVars(ManualPage(h, TRUE) \/ ManualEnds(h))

OmarRoundSpec == OmarRoundInit /\ [][OmarRoundNext]_roundVars /\ OmarRoundFairness

-----------------------------------------------------------------------------
(* Properties                                                              *)

Entry == [cursor : Pages, some : BOOLEAN, done : {"never", "recent", "settled", "due"},
          stalls : Nat, empty : Nat, missing : BOOLEAN, had : SUBSET Pages, blank : BOOLEAN]

Places == {"none", "claimed", "opening", "deep", "comments", "fresh", "info", "closing"}

OmarRoundTypeOK ==
    /\ web \in Processes /\ stored \in [Tags -> Entry]
    /\ pause \in {"no", "quota", "key", "over"} /\ hourTaken \in BOOLEAN
    /\ quota \in 0 .. DayQuota /\ beyond \in Nat
    /\ running \in [Processes -> BOOLEAN] /\ stopRequested \in [Processes -> BOOLEAN]
    /\ round \in [Processes -> [at : Places, planned : BOOLEAN, limit : Nat, spent : Nat,
                     used : [Sides -> Nat], halted : {"no", "daily", "key"}, again : SUBSET Tags]]
    /\ loaded \in [Processes -> [Tags -> Entry]]
    /\ \A p \in Processes, h \in Tags : entries[p][h] \subseteq Entry /\ manual[p][h] \subseteq Entry
    /\ left \in [Processes -> SUBSET Tags] /\ asking \in [Processes -> SUBSET Tags]
    /\ tries \in [Processes -> [Tags -> [fail : Nat, empty : Nat]]]
    /\ troubles \in 0 .. MaxTroubles[web] /\ ages \in 0 .. MaxAges

\* A hashtag is marked as crawled to its end only when every one of its pages was answered in that
\* pass: not over a page that failed, a round cut short, a restart, a cursor of the pass before, a
\* crawl by hand that ran beside the round, or a round of the other process that wrote the same
\* entry.  An empty page may end it early.
DoneIsWhole ==
    \A h \in Tags : stored[h].done # "never" => stored[h].had = Pages \/ stored[h].blank

\* Whatever the rounds, their side jobs and the resets of the quota do: if less of the day is left
\* than the reserve, the difference has gone to crawls by hand, to requests that no budget counts,
\* to rounds that /usage did not answer, or to rounds beside a round of the other process.
ReserveKept == quota + beyond >= Reserve

\* Every hashtag is crawled to its end: pauses, stops, errors, restarts, rounds of two processes and
\* a quota too small for one day only put it off.  Only a tick that fails between its claim and its
\* round puts an end to all the rounds, for the claim is never given back.
TagsGetDone == \A h \in Tags : stored[h].done = "never" ~> stored[h].done # "never" \/ Leaked
=============================================================================
