------------------------------ MODULE OmarChannels ------------------------------
(***************************************************************************)
(* One TikTok channel and its crawls (app/services/omar/omar_channels.py). *)
(* A round reads /posts of a channel once a day, the newest first, back to *)
(* videos that are too old or to the newest that was seen before; an       *)
(* operator may have it read at any time.  Both keep the newest video they *)
(* have seen in Redis.  The videos are numbered by their days, one a day,  *)
(* and a page has one of them.                                             *)
(***************************************************************************)
EXTENDS Naturals

CONSTANTS
    Days,         \* omar_channels_days
    ChannelPages, \* omar_channels_max_pages
    PruneRuns,    \* omar_channels_prune_runs
    RestDays,     \* omar_channels_rest_days
    LastDay,      \* bound: days
    MaxHalts      \* bound: crawls by hand, crawls cut short, and pages with which Omar surprises

Crawls == {"round", "hand"}

ASSUME ChannelAssumption ==
    /\ Days \in Nat /\ ChannelPages \in Nat \ {0} /\ PruneRuns \in Nat \ {0} /\ RestDays \in Nat
    /\ LastDay \in Nat \ {0} /\ MaxHalts \in Nat

VARIABLES
    today,
    seenUntil,  \* Redis: the newest video seen, 0 for none
    doneDay,    \* Redis: the day the round has done the channel
    zeroRuns,   \* Redis: crawls in a row without a video of a film
    restUntil,  \* Redis
    crawl,      \* crawl[k]: crawl_channel under way in the round and by hand, if there is one
    \* history
    had,        \* videos a page of which was answered
    cut,        \* videos that a crawl left unread when it was cut short, after the newest was read
    passed,     \* videos left unread by a crawl that was through for Omar, or by the cap of its pages
    gone,       \* the days on which the round was shown no video of the channel, gone or empty
    halts

channelRedis == <<seenUntil, doneDay, zeroRuns, restUntil>>
channelVars  == <<today, channelRedis, crawl, had, cut, passed, gone, halts>>

OmarChannelsInit ==
    /\ today = 1 /\ seenUntil = 0 /\ doneDay = 0 /\ zeroRuns = 0 /\ restUntil = 0
    /\ crawl = [k \in Crawls |-> {}] /\ had = {} /\ cut = {} /\ passed = {} /\ gone = {}
    /\ halts = 0

Halting == halts < MaxHalts /\ halts' = halts + 1

-----------------------------------------------------------------------------

\* The number n days before day d, and 0 before the first.
Before(d, n) == IF d > n THEN d - n ELSE 0

\* Videos before this one need no page: they are too old, or a day older than the newest seen.
Cutoff(d, seen) == IF Before(d, Days) >= Before(seen, 1) THEN Before(d, Days) ELSE Before(seen, 1)

Begun(k) ==
    crawl' = [crawl EXCEPT ![k] = {[day |-> today, cutoff |-> Cutoff(today, seenUntil),
                                    seen |-> seenUntil, next |-> today, pages |-> 0]}]

\* run_channels: a channel that is not done today and does not rest.
RoundBegins ==
    /\ crawl["round"] = {} /\ doneDay # today /\ restUntil <= today /\ Begun("round")
    /\ UNCHANGED <<today, channelRedis, had, cut, passed, gone, halts>>

\* crawl_channel_now, and the priority channels
HandBegins ==
    /\ crawl["hand"] = {} /\ Halting /\ Begun("hand")
    /\ UNCHANGED <<today, channelRedis, had, cut, passed, gone>>

\* The round marks a channel for which crawl_channel returns True.
MarkedDone(k, c) == doneDay' = IF k = "round" THEN c.day ELSE doneDay

\* _track_zero: after too many crawls without a video of a film the channel rests.
Tracked(matched) ==
    IF matched THEN zeroRuns' = 0 /\ UNCHANGED restUntil
    ELSE IF zeroRuns + 1 >= PruneRuns THEN zeroRuns' = 0 /\ restUntil' = today + RestDays
    ELSE zeroRuns' = zeroRuns + 1 /\ UNCHANGED restUntil

\* The crawl after a page that showed its next video, or none.
AfterPage(c, found) == [c EXCEPT !.next = IF found THEN @ - 1 ELSE @, !.pages = @ + 1]

\* The page is the last for the code: Omar has no more, it has come to what is too old, or to its cap.
LastPage(c, found, more) == ~more \/ (found /\ c.next < c.cutoff) \/ c.pages + 1 = ChannelPages

\* What a crawl was still to read, if it has seen the newest video and so moved seen_until.
LeftBehind(c) == IF c.next = c.day THEN {} ELSE {v \in 1 .. c.next : v >= c.cutoff}

\* The crawl is through for the code, whatever it leaves behind.
Through(k, c) ==
    /\ MarkedDone(k, c) /\ crawl' = [crawl EXCEPT ![k] = {}]
    /\ passed' = passed \cup LeftBehind(c)
    /\ gone' = IF k = "round" /\ c.next = c.day THEN gone \cup {c.day} ELSE gone

\* A page as it should be has a video, and a next cursor while there are more.
AsItShould(c, found, more) == found /\ (more <=> c.next > 1)

\* The videos of a page are published, and then the newest of this crawl is written if it is newer
\* than what was read at the beginning.
ReadChannelPage(k) ==
    /\ \E c \in crawl[k], found \in BOOLEAN, more \in BOOLEAN :
        /\ found /\ more => c.next > 1
        /\ IF AsItShould(c, found, more) THEN UNCHANGED halts ELSE Halting
        /\ had' = IF found THEN had \cup {c.next} ELSE had
        /\ seenUntil' = IF (found \/ c.next < c.day) /\ c.day > c.seen THEN c.day ELSE seenUntil
        /\ IF LastPage(c, found, more)
           THEN Through(k, AfterPage(c, found)) /\ \E matched \in BOOLEAN : Tracked(matched)
           ELSE /\ crawl' = [crawl EXCEPT ![k] = {AfterPage(c, found)}]
                /\ UNCHANGED <<doneDay, zeroRuns, restUntil, passed, gone>>
    /\ UNCHANGED <<today, cut>>

\* Omar answers a page, the first or a later one, with 404: the channel is gone, or has another name.
ChannelGone(k) ==
    /\ Halting /\ \E c \in crawl[k] : Through(k, c)
    /\ UNCHANGED <<today, seenUntil, zeroRuns, restUntil, had, cut>>

\* Mutant: crawl_channel does not tell a crawl cut short from one that is through.
HaltIsDone(k, c) == MarkedDone(k, c)

\* A crawl cut short is not marked.
AfterHalt(k, c) == UNCHANGED doneDay

\* take() is False: the budget or the pages asked for are used up, or the round is stopped.
\* Or Omar refuses the key, a statement of Redis fails, or the process restarts.
ChannelHalted(k) ==
    /\ Halting
    /\ \E c \in crawl[k] : AfterHalt(k, c) /\ cut' = cut \cup LeftBehind(c)
    /\ crawl' = [crawl EXCEPT ![k] = {}]
    /\ UNCHANGED <<today, seenUntil, zeroRuns, restUntil, had, passed, gone>>

DayBreaks ==
    /\ today < LastDay /\ today' = today + 1
    /\ UNCHANGED <<channelRedis, crawl, had, cut, passed, gone, halts>>

OmarChannelsNext ==
    \/ RoundBegins \/ HandBegins \/ DayBreaks
    \/ \E k \in Crawls : ReadChannelPage(k) \/ ChannelGone(k) \/ ChannelHalted(k)

OmarChannelsSpec == OmarChannelsInit /\ [][OmarChannelsNext]_channelVars

-----------------------------------------------------------------------------
(* Properties                                                              *)

OmarChannelsTypeOK ==
    /\ today \in 1 .. LastDay /\ seenUntil \in 0 .. LastDay /\ doneDay \in 0 .. LastDay
    /\ zeroRuns \in 0 .. PruneRuns - 1 /\ restUntil \in Nat
    /\ crawl \in [Crawls -> SUBSET [day : 1 .. LastDay, cutoff : 0 .. LastDay, seen : 0 .. LastDay,
                                    next : 1 .. LastDay, pages : 0 .. ChannelPages - 1]]
    /\ had \subseteq 1 .. LastDay /\ cut \subseteq 1 .. LastDay /\ passed \subseteq 1 .. LastDay /\ gone \subseteq 1 .. LastDay
    /\ halts \in 0 .. MaxHalts

\* The videos that the crawl of a day is for.
Wanted(d) == {v \in 1 .. d : v >= Before(d, Days)}

\* The videos that a crawl under way has still to read.
UnderWay == UNION {UNION {LeftBehind(c) : c \in crawl[k]} : k \in Crawls}

\* On a day marked as done every video of the last days has been read, though one crawl takes up
\* where another ended, at the newest it had seen, and a crawl by hand runs beside it.  The exceptions
\* are those of the code: what a crawl has still to read or had to when it was cut short, what lay
\* behind a page without a next cursor, a 404 or the cap of pages, after which the day is marked as
\* done and later crawls stop at the newest video all the same; and a day without any video shown.
ChannelCovered ==
    doneDay \notin gone => Wanted(doneDay) \subseteq had \cup cut \cup passed \cup UnderWay
=============================================================================
