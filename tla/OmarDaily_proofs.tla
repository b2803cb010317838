------------------------- MODULE OmarDaily_proofs --------------------------
(***************************************************************************)
(* Proofs about the two daily crawls of Omar (TikTok): one channel         *)
(* (OmarChannels) and one search query (OmarSearch); for any number of     *)
(* days, pages, rounds, restarts and crawls that overlap.                  *)
(***************************************************************************)
EXTENDS OmarChannels, OmarSearch, FiniteSetTheorems, TLAPS

-----------------------------------------------------------------------------
(* The videos of a channel (OmarChannels).                                 *)

ChannelCrawls == [day : 1 .. LastDay, cutoff : 0 .. LastDay, seen : 0 .. LastDay,
                  next : 1 .. LastDay, pages : 0 .. ChannelPages - 1]

\* A crawl as Begun makes it.
NewCrawl == [day |-> today, cutoff |-> Cutoff(today, seenUntil), seen |-> seenUntil, next |-> today, pages |-> 0]

LEMMA CutoffTyped ==
    ASSUME NEW d \in 1 .. LastDay, NEW s \in 0 .. LastDay
    PROVE  /\ Cutoff(d, s) \in 0 .. LastDay
           /\ Before(d, Days) \in 0 .. LastDay
           /\ Cutoff(d, s) >= Before(d, Days) /\ Cutoff(d, s) >= Before(s, 1)
           /\ Cutoff(d, s) \in {Before(d, Days), Before(s, 1)}
BY ChannelAssumption DEF Cutoff, Before

LEMMA BegunTyped ==
    ASSUME OmarChannelsTypeOK, NEW k \in Crawls, Begun(k)
    PROVE  /\ NewCrawl \in ChannelCrawls
           /\ crawl' \in [Crawls -> SUBSET ChannelCrawls]
           /\ crawl'[k] = {NewCrawl} /\ \A j \in Crawls \ {k} : crawl'[j] = crawl[j]
<1>1. today \in 1 .. LastDay /\ seenUntil \in 0 .. LastDay
  BY DEF OmarChannelsTypeOK
<1>2. Cutoff(today, seenUntil) \in 0 .. LastDay
  BY <1>1, CutoffTyped
<1>3. 0 \in 0 .. ChannelPages - 1
  BY ChannelAssumption
<1>4. NewCrawl \in ChannelCrawls
  BY <1>1, <1>2, <1>3 DEF ChannelCrawls, NewCrawl
<1>5. crawl' = [crawl EXCEPT ![k] = {NewCrawl}]
  BY DEF Begun, NewCrawl
<1> HIDE DEF NewCrawl
<1> QED BY <1>4, <1>5 DEF OmarChannelsTypeOK, ChannelCrawls

LEMMA AfterPageIs ==
    ASSUME NEW c \in ChannelCrawls, NEW found \in BOOLEAN
    PROVE  AfterPage(c, found) = [day |-> c.day, cutoff |-> c.cutoff, seen |-> c.seen,
                                  next |-> IF found THEN c.next - 1 ELSE c.next, pages |-> c.pages + 1]
<1> DEFINE n == IF found THEN c.next - 1 ELSE c.next
           b == [c EXCEPT !.next = n]
<1>1. b = [day |-> c.day, cutoff |-> c.cutoff, seen |-> c.seen, next |-> n, pages |-> c.pages]
  BY DEF ChannelCrawls
<1>2. AfterPage(c, found) = [b EXCEPT !.pages = c.pages + 1]
  BY DEF AfterPage
<1> HIDE DEF b, n
<1>3. AfterPage(c, found) = [day |-> c.day, cutoff |-> c.cutoff, seen |-> c.seen, next |-> n, pages |-> c.pages + 1]
  BY <1>1, <1>2
<1> QED BY <1>3 DEF n

LEMMA AfterPageTyped ==
    ASSUME NEW c \in ChannelCrawls, NEW found \in BOOLEAN, NEW more \in BOOLEAN,
           found /\ more => c.next > 1, ~LastPage(c, found, more)
    PROVE  AfterPage(c, found) \in ChannelCrawls
<1>1. c.next \in 1 .. LastDay /\ c.pages \in 0 .. ChannelPages - 1 /\ c.pages + 1 # ChannelPages /\ (found => c.next > 1)
  BY DEF ChannelCrawls, LastPage
<1>2. (IF found THEN c.next - 1 ELSE c.next) \in 1 .. LastDay /\ c.pages + 1 \in 0 .. ChannelPages - 1
  BY <1>1, ChannelAssumption
<1>3. c.day \in 1 .. LastDay /\ c.cutoff \in 0 .. LastDay /\ c.seen \in 0 .. LastDay
  BY DEF ChannelCrawls
<1> DEFINE n == IF found THEN c.next - 1 ELSE c.next
<1>4. n \in 1 .. LastDay /\ AfterPage(c, found) = [day |-> c.day, cutoff |-> c.cutoff, seen |-> c.seen, next |-> n, pages |-> c.pages + 1]
  BY <1>2, AfterPageIs
<1> HIDE DEF n
<1> QED BY <1>2, <1>3, <1>4 DEF ChannelCrawls

LEMMA TrackedTyped ==
    ASSUME OmarChannelsTypeOK, NEW matched \in BOOLEAN, Tracked(matched)
    PROVE  zeroRuns' \in 0 .. PruneRuns - 1 /\ restUntil' \in Nat
BY ChannelAssumption DEF OmarChannelsTypeOK, Tracked

LEMMA LeftTyped ==
    ASSUME NEW c, c.next \in Nat, c.next <= LastDay
    PROVE  LeftBehind(c) \subseteq 1 .. LastDay
BY ChannelAssumption DEF LeftBehind

\* A crawl that is through for the code.
LEMMA ThroughTyped ==
    ASSUME OmarChannelsTypeOK, NEW k \in Crawls, NEW c, Through(k, c),
           c.day \in 1 .. LastDay, c.next \in Nat, c.next <= LastDay
    PROVE  /\ doneDay' \in 0 .. LastDay /\ crawl' \in [Crawls -> SUBSET ChannelCrawls]
           /\ passed' \subseteq 1 .. LastDay /\ gone' \subseteq 1 .. LastDay
<1>1. doneDay' \in 0 .. LastDay
  BY DEF Through, MarkedDone, OmarChannelsTypeOK
<1>2. crawl' \in [Crawls -> SUBSET ChannelCrawls]
  BY DEF Through, OmarChannelsTypeOK, ChannelCrawls
<1>3. passed' \subseteq 1 .. LastDay
  BY LeftTyped DEF Through, OmarChannelsTypeOK
<1>4. gone' \subseteq 1 .. LastDay
  BY DEF Through, OmarChannelsTypeOK
<1> QED BY <1>1, <1>2, <1>3, <1>4

\* The two ways in which a page is read, with what it showed.
ReadAndEnded(k, c, found, more) ==
    /\ LastPage(c, found, more) /\ Through(k, AfterPage(c, found)) /\ \E matched \in BOOLEAN : Tracked(matched)
ReadAndGoesOn(k, c, found, more) ==
    /\ ~LastPage(c, found, more) /\ crawl' = [crawl EXCEPT ![k] = {AfterPage(c, found)}]
    /\ UNCHANGED <<doneDay, zeroRuns, restUntil, passed, gone>>
PageWasRead(k, c, found, more) ==
    /\ found /\ more => c.next > 1
    /\ UNCHANGED halts \/ Halting
    /\ had' = IF found THEN had \cup {c.next} ELSE had
    /\ seenUntil' = IF (found \/ c.next < c.day) /\ c.day > c.seen THEN c.day ELSE seenUntil
    /\ ReadAndEnded(k, c, found, more) \/ ReadAndGoesOn(k, c, found, more)

LEMMA ReadPageIs ==
    ASSUME NEW k \in Crawls, ReadChannelPage(k)
    PROVE  /\ UNCHANGED <<today, cut>>
           /\ \E c \in crawl[k], found \in BOOLEAN, more \in BOOLEAN : PageWasRead(k, c, found, more)
<1>1. PICK c \in crawl[k], found \in BOOLEAN, more \in BOOLEAN :
        /\ found /\ more => c.next > 1
        /\ IF AsItShould(c, found, more) THEN UNCHANGED halts ELSE Halting
        /\ had' = IF found THEN had \cup {c.next} ELSE had
        /\ seenUntil' = IF (found \/ c.next < c.day) /\ c.day > c.seen THEN c.day ELSE seenUntil
        /\ IF LastPage(c, found, more)
           THEN Through(k, AfterPage(c, found)) /\ \E matched \in BOOLEAN : Tracked(matched)
           ELSE /\ crawl' = [crawl EXCEPT ![k] = {AfterPage(c, found)}]
                /\ UNCHANGED <<doneDay, zeroRuns, restUntil, passed, gone>>
  BY DEF ReadChannelPage
<1>2. PageWasRead(k, c, found, more)
  <2>1. UNCHANGED halts \/ Halting
    BY <1>1
  <2>2. ReadAndEnded(k, c, found, more) \/ ReadAndGoesOn(k, c, found, more)
    BY <1>1 DEF ReadAndEnded, ReadAndGoesOn
  <2> QED BY <1>1, <2>1, <2>2 DEF PageWasRead
<1> QED BY <1>2 DEF ReadChannelPage

LEMMA ReadTyped ==
    ASSUME OmarChannelsTypeOK, NEW k \in Crawls, ReadChannelPage(k)
    PROVE  OmarChannelsTypeOK'
<1>1. PICK c \in crawl[k], found \in BOOLEAN, more \in BOOLEAN : PageWasRead(k, c, found, more)
  BY ReadPageIs
<1>2. UNCHANGED <<today, cut>> /\ halts' \in 0 .. MaxHalts
  BY <1>1, ReadPageIs, ChannelAssumption DEF PageWasRead, Halting, OmarChannelsTypeOK
<1>3. c \in ChannelCrawls
  BY DEF OmarChannelsTypeOK, ChannelCrawls
<1>4. c.next \in 1 .. LastDay /\ c.day \in 1 .. LastDay /\ c.day \in 0 .. LastDay
  BY <1>3 DEF ChannelCrawls
<1>5. seenUntil' \in 0 .. LastDay /\ had' \subseteq 1 .. LastDay
  BY <1>1, <1>4 DEF PageWasRead, OmarChannelsTypeOK
<1>6. CASE ReadAndEnded(k, c, found, more)
  <2>1. zeroRuns' \in 0 .. PruneRuns - 1 /\ restUntil' \in Nat
    BY <1>6, TrackedTyped DEF ReadAndEnded
  <2>2. /\ AfterPage(c, found).day = c.day
        /\ AfterPage(c, found).next \in Nat /\ AfterPage(c, found).next <= LastDay
    BY <1>3, <1>4, AfterPageIs, ChannelAssumption
  <2>3. /\ doneDay' \in 0 .. LastDay /\ crawl' \in [Crawls -> SUBSET ChannelCrawls]
        /\ passed' \subseteq 1 .. LastDay /\ gone' \subseteq 1 .. LastDay
    BY <1>4, <1>6, <2>2, ThroughTyped DEF ReadAndEnded
  <2> QED BY <1>2, <1>5, <2>1, <2>3 DEF OmarChannelsTypeOK, ChannelCrawls
<1>7. CASE ReadAndGoesOn(k, c, found, more)
  <2>1. AfterPage(c, found) \in ChannelCrawls
    BY <1>1, <1>3, <1>7, AfterPageTyped DEF ReadAndGoesOn, PageWasRead
  <2> QED BY <1>2, <1>5, <1>7, <2>1 DEF ReadAndGoesOn, OmarChannelsTypeOK, ChannelCrawls
<1> QED BY <1>1, <1>6, <1>7 DEF PageWasRead

LEMMA ChannelStepTyped == OmarChannelsTypeOK /\ [OmarChannelsNext]_channelVars => OmarChannelsTypeOK'
<1> SUFFICES ASSUME OmarChannelsTypeOK, [OmarChannelsNext]_channelVars PROVE OmarChannelsTypeOK'
  OBVIOUS
<1> USE DEF channelRedis
<1>1. ASSUME NEW k \in Crawls, Begun(k), halts' \in 0 .. MaxHalts, UNCHANGED <<today, channelRedis, had, cut, passed, gone>>
      PROVE  OmarChannelsTypeOK'
  <2>1. crawl' \in [Crawls -> SUBSET ChannelCrawls]
    BY <1>1, BegunTyped
  <2> QED BY <1>1, <2>1 DEF OmarChannelsTypeOK, ChannelCrawls
<1>2. CASE RoundBegins \/ HandBegins
  <2>1. halts' \in 0 .. MaxHalts
    BY <1>2, ChannelAssumption DEF RoundBegins, HandBegins, Halting, OmarChannelsTypeOK
  <2>2. "round" \in Crawls /\ "hand" \in Crawls
    BY DEF Crawls
  <2> QED BY <1>1, <1>2, <2>1, <2>2 DEF RoundBegins, HandBegins
<1>3. CASE DayBreaks
  <2>1. today' \in 1 .. LastDay
    BY <1>3, ChannelAssumption DEF DayBreaks, OmarChannelsTypeOK
  <2> QED BY <1>3, <2>1 DEF DayBreaks, OmarChannelsTypeOK
<1>4. CASE \E k \in Crawls : ReadChannelPage(k)
  BY <1>4, ReadTyped
<1>5. ASSUME NEW k \in Crawls, ChannelGone(k) PROVE OmarChannelsTypeOK'
  <2>1. PICK c \in crawl[k] : Through(k, c)
    BY <1>5 DEF ChannelGone
  <2>2. c.day \in 1 .. LastDay /\ c.next \in Nat /\ c.next <= LastDay
    BY DEF OmarChannelsTypeOK
  <2>3. /\ doneDay' \in 0 .. LastDay /\ crawl' \in [Crawls -> SUBSET ChannelCrawls]
        /\ passed' \subseteq 1 .. LastDay /\ gone' \subseteq 1 .. LastDay
    BY <2>1, <2>2, ThroughTyped
  <2>4. halts' \in 0 .. MaxHalts
    BY <1>5, ChannelAssumption DEF ChannelGone, OmarChannelsTypeOK, Halting
  <2> QED BY <1>5, <2>3, <2>4 DEF ChannelGone, OmarChannelsTypeOK, ChannelCrawls
<1>6. ASSUME NEW k \in Crawls, ChannelHalted(k) PROVE OmarChannelsTypeOK'
  <2>1. PICK c \in crawl[k] : UNCHANGED doneDay /\ cut' = cut \cup LeftBehind(c)
    BY <1>6 DEF ChannelHalted, AfterHalt
  <2>2. LeftBehind(c) \subseteq 1 .. LastDay
    <3>1. c.next \in Nat /\ c.next <= LastDay
      BY DEF OmarChannelsTypeOK
    <3> QED BY <3>1, LeftTyped
  <2>3. halts' \in 0 .. MaxHalts
    BY <1>6, ChannelAssumption DEF ChannelHalted, OmarChannelsTypeOK, Halting
  <2>4. crawl' \in [Crawls -> SUBSET ChannelCrawls]
    BY <1>6 DEF ChannelHalted, OmarChannelsTypeOK, ChannelCrawls
  <2> QED BY <1>6, <2>1, <2>2, <2>3, <2>4 DEF ChannelHalted, OmarChannelsTypeOK, ChannelCrawls
<1>7. CASE UNCHANGED channelVars
  BY <1>7 DEF channelVars, OmarChannelsTypeOK
<1> QED BY <1>2, <1>3, <1>4, <1>5, <1>6, <1>7 DEF OmarChannelsNext

LEMMA ChannelInitTyped == OmarChannelsInit => OmarChannelsTypeOK
BY ChannelAssumption DEF OmarChannelsInit, OmarChannelsTypeOK

\* The keys of the channel and the crawls under way have their types, for any number of days, pages
\* and halts.
THEOREM ChannelTypes == OmarChannelsSpec => []OmarChannelsTypeOK
BY ChannelInitTyped, ChannelStepTyped, PTL DEF OmarChannelsSpec

------------------------------------------------------------------------------
(* A day that is done.  Two crawls may be under way and either may end     *)
(* where the other has read: what is read, under way or known to be left   *)
(* covers the last days before the day that is marked and before the day   *)
(* up to which the channel was seen, on which a crawl stops early.         *)

\* All that was read, is under way, or is known to be left.
Cover == had \cup cut \cup passed \cup UnderWay
Covered(d) == Wanted(d) \subseteq Cover

\* A crawl goes back from its day a page at a time, from the newest it found, which was covered; and
\* what its own day asks for is covered once its first page was read.
CrawlFollows(c) ==
    /\ c.day <= today /\ c.seen <= c.day /\ c.cutoff = Cutoff(c.day, c.seen) /\ c.next <= c.day
    /\ Covered(c.seen) /\ (c.next < c.day => Covered(c.day))

ChannelInv ==
    /\ OmarChannelsTypeOK
    /\ seenUntil <= today /\ Covered(seenUntil)
    /\ \A k \in Crawls : \A c \in crawl[k] : CrawlFollows(c) /\ \A b \in crawl[k] : b = c
    /\ doneDay \notin gone => Covered(doneDay)

LEMMA ChannelInvInit == OmarChannelsInit => ChannelInv
<1> SUFFICES ASSUME OmarChannelsInit PROVE ChannelInv
  OBVIOUS
<1>1. Wanted(0) = {}
  BY DEF Wanted
<1> QED BY <1>1, ChannelInitTyped DEF OmarChannelsInit, ChannelInv, Covered

LEMMA Uncovered ==
    ASSUME NEW v
    PROVE  v \in UnderWay <=> \E k \in Crawls : \E c \in crawl[k] : v \in LeftBehind(c)
BY DEF UnderWay

\* The crawl of a day that reads back to what was seen before covers the day's videos.
LEMMA SeenAndRest ==
    ASSUME NEW d \in 1 .. LastDay, NEW s \in 0 .. LastDay, s <= d, NEW v \in Wanted(d)
    PROVE  v >= Cutoff(d, s) \/ v \in Wanted(s)
BY CutoffTyped, ChannelAssumption DEF Wanted, Before, Cutoff

\* What a page adds: what was covered stays so, and the day of the crawl is covered once a video was
\* shown.
LEMMA ReadCovers ==
    ASSUME ChannelInv, NEW k \in Crawls, NEW c \in crawl[k], NEW found \in BOOLEAN, NEW more \in BOOLEAN,
           PageWasRead(k, c, found, more), UNCHANGED cut
    PROVE  Cover \subseteq Cover' /\ (found \/ c.next < c.day => Wanted(c.day) \subseteq Cover')
<1> DEFINE d == AfterPage(c, found)
<1>1. c \in ChannelCrawls /\ CrawlFollows(c) /\ \A b \in crawl[k] : b = c
  BY DEF ChannelInv, OmarChannelsTypeOK, ChannelCrawls
<1>2. c.day \in 1 .. LastDay /\ c.seen \in 0 .. LastDay /\ c.next \in 1 .. LastDay /\ c.cutoff \in Nat
  BY <1>1 DEF ChannelCrawls
<1>3. c.seen <= c.day /\ c.cutoff = Cutoff(c.day, c.seen) /\ c.next <= c.day /\ Covered(c.seen)
  BY <1>1 DEF CrawlFollows
<1>4. \A j \in Crawls \ {k} : crawl'[j] = crawl[j]
  BY DEF PageWasRead, ReadAndEnded, ReadAndGoesOn, Through, ChannelInv, OmarChannelsTypeOK
<1>5. d.next = (IF found THEN c.next - 1 ELSE c.next) /\ d.cutoff = c.cutoff /\ d.day = c.day
  BY <1>1, AfterPageIs
<1>6. LeftBehind(d) \subseteq Cover'
  <2>1. CASE ReadAndEnded(k, c, found, more)
    BY <2>1 DEF ReadAndEnded, Through, Cover
  <2>2. CASE ReadAndGoesOn(k, c, found, more)
    <3>1. crawl'[k] = {d}
      BY <2>2 DEF ReadAndGoesOn, ChannelInv, OmarChannelsTypeOK
    <3> HIDE DEF d
    <3> QED BY <3>1 DEF UnderWay, LeftBehind, Cover
  <2> QED BY <2>1, <2>2 DEF PageWasRead
<1> HIDE DEF d
<1>7. ASSUME NEW v \in 1 .. c.next, v >= c.cutoff, found \/ c.next < c.day PROVE v \in Cover'
  <2>1. CASE found /\ v = c.next
    BY <2>1 DEF PageWasRead, Cover
  <2>2. CASE ~found \/ v # c.next
    <3>1. d.next # d.day /\ v \in 1 .. d.next
      BY <1>2, <1>3, <1>5, <1>7, <2>2
    <3> QED BY <1>5, <1>6, <1>7, <3>1 DEF LeftBehind
  <2> QED BY <2>1, <2>2
<1>8. had \subseteq had' /\ passed \subseteq passed'
  BY DEF PageWasRead, ReadAndEnded, ReadAndGoesOn, Through
<1>9. Cover \subseteq Cover'
  <2> SUFFICES ASSUME NEW v \in UnderWay PROVE v \in Cover'
    BY <1>8 DEF Cover
  <2>1. PICK j \in Crawls : \E b \in crawl[j] : v \in LeftBehind(b)
    BY DEF UnderWay
  <2>2. CASE j = k
    <3>1. v \in LeftBehind(c)
      BY <1>1, <2>1, <2>2
    <3>2. c.next < c.day
      BY <1>2, <1>3, <3>1 DEF LeftBehind
    <3> QED BY <1>7, <3>1, <3>2 DEF LeftBehind
  <2>3. CASE j # k
    <3>1. v \in UnderWay'
      BY <1>4, <2>1, <2>3 DEF UnderWay, LeftBehind
    <3> QED BY <3>1 DEF Cover
  <2> QED BY <2>2, <2>3
<1>10. ASSUME found \/ c.next < c.day, NEW v \in Wanted(c.day) PROVE v \in Cover'
  <2>1. CASE c.next < c.day
    BY <1>1, <1>9, <1>10, <2>1 DEF CrawlFollows, Covered
  <2>2. CASE c.next = c.day /\ v >= c.cutoff
    <3>1. v \in 1 .. c.next
      BY <1>2, <1>3, <1>10, <2>2 DEF Wanted
    <3> QED BY <1>7, <1>10, <2>2, <3>1
  <2>3. CASE v \in Wanted(c.seen)
    BY <1>3, <1>9, <2>3 DEF Covered
  <2>4. v >= c.cutoff \/ v \in Wanted(c.seen)
    BY <1>2, <1>3, <1>10, SeenAndRest
  <2> QED BY <1>2, <1>3, <2>1, <2>2, <2>3, <2>4
<1> QED BY <1>9, <1>10

\* A crawl that is not disturbed still follows when more is covered.
LEMMA FollowsOn ==
    ASSUME NEW c \in ChannelCrawls, CrawlFollows(c), Cover \subseteq Cover', today \in Nat, today' \in Nat, today' >= today
    PROVE  CrawlFollows(c)'
<1>1. c.day \in Nat
  BY DEF ChannelCrawls
<1>2. \A d : Covered(d) => Covered(d)'
  BY DEF Covered, Wanted, Before
<1>3. c.day <= today'
  BY <1>1 DEF CrawlFollows
<1> QED BY <1>2, <1>3 DEF CrawlFollows, Cutoff, Before

LEMMA ReadKeeps ==
    ASSUME ChannelInv, OmarChannelsTypeOK', NEW k \in Crawls, ReadChannelPage(k)
    PROVE  ChannelInv'
<1>1. PICK c \in crawl[k], found \in BOOLEAN, more \in BOOLEAN : PageWasRead(k, c, found, more)
  BY ReadPageIs
<1> DEFINE d == AfterPage(c, found)
<1>2. UNCHANGED <<today, cut>>
  BY ReadPageIs
<1>3. c \in ChannelCrawls /\ CrawlFollows(c) /\ today \in Nat
  BY DEF ChannelInv, OmarChannelsTypeOK, ChannelCrawls
<1>4. Cover \subseteq Cover' /\ (found \/ c.next < c.day => Wanted(c.day) \subseteq Cover')
  BY <1>1, <1>2, ReadCovers
<1>5. \A e : Covered(e) => Covered(e)'
  BY <1>4 DEF Covered, Wanted, Before
<1>6. found \/ c.next < c.day => Covered(c.day)'
  BY <1>4 DEF Covered, Wanted, Before
<1>7. seenUntil' <= today' /\ Covered(seenUntil)'
  <2>1. seenUntil <= today /\ c.day <= today
    BY <1>3 DEF ChannelInv, CrawlFollows
  <2>2. CASE seenUntil' = c.day /\ (found \/ c.next < c.day)
    BY <1>2, <1>6, <2>1, <2>2 DEF Covered
  <2>3. CASE seenUntil' = seenUntil
    BY <1>2, <1>5, <2>1, <2>3 DEF ChannelInv, Covered
  <2> QED BY <1>1, <2>2, <2>3 DEF PageWasRead
<1>8. \A j \in Crawls \ {k} : crawl'[j] = crawl[j]
  BY <1>1 DEF PageWasRead, ReadAndEnded, ReadAndGoesOn, Through, ChannelInv, OmarChannelsTypeOK
<1>0. d.day = c.day /\ d.seen = c.seen /\ d.cutoff = c.cutoff /\ d.next = (IF found THEN c.next - 1 ELSE c.next)
  BY <1>3, AfterPageIs
<1>11. c.next \in 1 .. LastDay /\ c.day \in 1 .. LastDay /\ c.next <= c.day
  BY <1>3 DEF ChannelCrawls, CrawlFollows
<1>9. ASSUME NEW j \in Crawls, NEW b \in crawl'[j] PROVE CrawlFollows(b)' /\ \A e \in crawl'[j] : e = b
  <2>1. CASE j # k
    <3>1. b \in ChannelCrawls /\ CrawlFollows(b) /\ \A e \in crawl'[j] : e = b
      BY <1>8, <1>9, <2>1 DEF ChannelInv, OmarChannelsTypeOK, ChannelCrawls
    <3> QED BY <1>2, <1>3, <1>4, <3>1, FollowsOn
  <2>2. CASE j = k
    <3>1. crawl'[k] = {d}
      BY <1>1, <1>9, <2>2 DEF PageWasRead, ReadAndEnded, ReadAndGoesOn, Through, ChannelInv, OmarChannelsTypeOK
    <3> HIDE DEF d
    <3>2. b = d /\ \A e \in crawl'[j] : e = b
      BY <1>9, <2>2, <3>1
    <3>3. b.day = c.day /\ b.seen = c.seen /\ b.cutoff = c.cutoff /\ b.next <= b.day
          /\ (b.next < b.day => found \/ c.next < c.day)
      BY <1>0, <1>11, <3>2
    <3>4. Covered(b.seen)' /\ (b.next < b.day => Covered(b.day)')
      BY <1>3, <1>5, <1>6, <3>3 DEF CrawlFollows, Covered
    <3> QED BY <1>2, <1>3, <3>2, <3>3, <3>4 DEF CrawlFollows, Cutoff, Before
  <2> QED BY <2>1, <2>2
<1>10. (doneDay \notin gone => Covered(doneDay))'
  <2> HIDE DEF d
  <2>1. CASE ReadAndEnded(k, c, found, more) /\ doneDay' = d.day /\ (found \/ c.next < c.day)
    BY <1>0, <1>6, <2>1 DEF Covered
  <2>2. CASE ReadAndEnded(k, c, found, more) /\ doneDay' = d.day /\ k = "round" /\ ~found /\ c.next = c.day
    BY <1>0, <2>2 DEF ReadAndEnded, Through, d
  <2>3. CASE doneDay' = doneDay /\ gone \subseteq gone'
    BY <1>5, <2>3 DEF ChannelInv, Covered
  <2>4. gone \subseteq gone'
    BY <1>1 DEF PageWasRead, ReadAndEnded, ReadAndGoesOn, Through
  <2> QED BY <1>1, <1>11, <2>1, <2>2, <2>3, <2>4 DEF PageWasRead, ReadAndEnded, ReadAndGoesOn, Through, MarkedDone, d
<1> QED BY <1>7, <1>9, <1>10 DEF ChannelInv

\* Every other step: the crawls that are under way stay as they are, or one begins or ends.
LEMMA OtherKeeps ==
    ASSUME ChannelInv, OmarChannelsTypeOK', Cover \subseteq Cover', today' >= today, UNCHANGED seenUntil,
           \A j \in Crawls : crawl'[j] = crawl[j] \/ crawl'[j] = {} \/ (crawl'[j] = {NewCrawl} /\ UNCHANGED today),
           doneDay' = doneDay \/ doneDay' \in gone' \/ Covered(doneDay'), gone \subseteq gone'
    PROVE  ChannelInv'
<1>1. today \in 1 .. LastDay /\ today' \in Nat /\ seenUntil \in 0 .. LastDay
  BY DEF ChannelInv, OmarChannelsTypeOK
<1>2. \A d : Covered(d) => Covered(d)'
  BY DEF Covered, Wanted, Before
<1>3. seenUntil' <= today' /\ Covered(seenUntil)'
  BY <1>1, <1>2 DEF ChannelInv, Covered
<1>4. ASSUME NEW j \in Crawls, NEW b \in crawl'[j] PROVE CrawlFollows(b)' /\ \A e \in crawl'[j] : e = b
  <2>1. CASE crawl'[j] = crawl[j]
    <3>1. b \in ChannelCrawls /\ CrawlFollows(b) /\ \A e \in crawl'[j] : e = b
      BY <1>4, <2>1 DEF ChannelInv, OmarChannelsTypeOK, ChannelCrawls
    <3> QED BY <1>1, <3>1, FollowsOn
  <2>2. CASE crawl'[j] = {NewCrawl} /\ UNCHANGED today
    <3>1. b = NewCrawl /\ \A e \in crawl'[j] : e = b
      BY <1>4, <2>2
    <3>2. b.day = today /\ b.seen = seenUntil /\ b.cutoff = Cutoff(today, seenUntil) /\ b.next = today /\ b.pages = 0
      BY <3>1 DEF NewCrawl
    <3>3. seenUntil <= today /\ Covered(seenUntil)'
      BY <1>3 DEF ChannelInv
    <3>4. Covered(b.seen)'
      BY <3>2, <3>3 DEF Covered
    <3> QED BY <1>1, <2>2, <3>1, <3>2, <3>3, <3>4 DEF CrawlFollows, Cutoff, Before
  <2> QED BY <1>4, <2>1, <2>2
<1>5. (doneDay \notin gone => Covered(doneDay))'
  BY <1>2 DEF ChannelInv, Covered, Wanted, Before
<1> QED BY <1>3, <1>4, <1>5 DEF ChannelInv

\* What is covered stays so when a crawl ends that has left nothing, or what it left is known.
LEMMA EndCovers ==
    ASSUME ChannelInv, NEW k \in Crawls, NEW c \in crawl[k], crawl' = [crawl EXCEPT ![k] = {}],
           UNCHANGED had, cut \subseteq cut', passed \subseteq passed', LeftBehind(c) \subseteq cut' \cup passed'
    PROVE  Cover \subseteq Cover'
<1> SUFFICES ASSUME NEW v \in UnderWay PROVE v \in Cover'
  BY DEF Cover
<1>1. PICK j \in Crawls : \E b \in crawl[j] : v \in LeftBehind(b)
  BY DEF UnderWay
<1>2. CASE j = k
  BY <1>1, <1>2 DEF ChannelInv, Cover
<1>3. CASE j # k
  <2>1. crawl'[j] = crawl[j]
    BY <1>3 DEF ChannelInv, OmarChannelsTypeOK
  <2>2. v \in UnderWay'
    BY <1>1, <2>1 DEF UnderWay, LeftBehind
  <2> QED BY <2>2 DEF Cover
<1> QED BY <1>2, <1>3

LEMMA ChannelInvStep ==
    ASSUME ChannelInv, [OmarChannelsNext]_channelVars
    PROVE  ChannelInv'
<1>1. OmarChannelsTypeOK /\ OmarChannelsTypeOK'
  BY ChannelStepTyped DEF ChannelInv
<1>2. today \in Nat
  BY <1>1 DEF OmarChannelsTypeOK
<1> USE DEF channelRedis
<1>3. ASSUME NEW k \in Crawls, crawl[k] = {}, Begun(k), UNCHANGED <<today, channelRedis, had, cut, passed, gone>>
      PROVE  ChannelInv'
  <2>1. crawl'[k] = {NewCrawl} /\ \A j \in Crawls \ {k} : crawl'[j] = crawl[j]
    BY <1>1, <1>3, BegunTyped
  <2>2. UnderWay \subseteq UnderWay'
    BY <1>3, <2>1 DEF UnderWay, LeftBehind
  <2>3. Cover \subseteq Cover'
    BY <1>3, <2>2 DEF Cover
  <2> QED BY <1>1, <1>2, <1>3, <2>1, <2>3, OtherKeeps
<1>4. CASE RoundBegins
  BY <1>3, <1>4 DEF RoundBegins, Crawls
<1>5. CASE HandBegins
  BY <1>3, <1>5 DEF HandBegins, Crawls
<1>6. CASE DayBreaks \/ UNCHANGED channelVars
  <2>1. UNCHANGED <<channelRedis, crawl, had, cut, passed, gone>> /\ today' >= today
    BY <1>2, <1>6 DEF DayBreaks, channelVars
  <2>2. Cover \subseteq Cover'
    BY <2>1 DEF Cover, UnderWay, LeftBehind
  <2> QED BY <1>1, <2>1, <2>2, OtherKeeps
<1>7. ASSUME NEW k \in Crawls, ReadChannelPage(k) PROVE ChannelInv'
  BY <1>1, <1>7, ReadKeeps
<1>8. ASSUME NEW k \in Crawls, ChannelGone(k) PROVE ChannelInv'
  <2>1. PICK c \in crawl[k] : Through(k, c)
    BY <1>8 DEF ChannelGone
  <2>2. crawl' = [crawl EXCEPT ![k] = {}] /\ UNCHANGED <<today, seenUntil, had, cut>>
    BY <1>8, <2>1 DEF ChannelGone, Through
  <2>3. Cover \subseteq Cover'
    BY <2>1, <2>2, EndCovers DEF Through
  <2>4. \A j \in Crawls : crawl'[j] = crawl[j] \/ crawl'[j] = {}
    BY <1>1, <2>2 DEF OmarChannelsTypeOK
  <2>5. doneDay' = doneDay \/ doneDay' \in gone' \/ Covered(doneDay')
    <3>1. c \in ChannelCrawls /\ CrawlFollows(c)
      BY DEF ChannelInv, OmarChannelsTypeOK, ChannelCrawls
    <3>2. c.next < c.day => Covered(c.day)
      BY <3>1 DEF CrawlFollows
    <3>3. c.next \in Nat /\ c.day \in Nat /\ c.next <= c.day
      BY <3>1 DEF CrawlFollows, ChannelCrawls
    <3> QED BY <2>1, <3>2, <3>3 DEF Through, MarkedDone
  <2>6. gone \subseteq gone'
    BY <2>1 DEF Through
  <2> QED BY <1>1, <1>2, <2>2, <2>3, <2>4, <2>5, <2>6, OtherKeeps
<1>9. ASSUME NEW k \in Crawls, ChannelHalted(k) PROVE ChannelInv'
  <2>1. PICK c \in crawl[k] : UNCHANGED doneDay /\ cut' = cut \cup LeftBehind(c)
    BY <1>9 DEF ChannelHalted, AfterHalt
  <2>2. crawl' = [crawl EXCEPT ![k] = {}] /\ UNCHANGED <<today, seenUntil, had, passed, gone>>
    BY <1>9 DEF ChannelHalted
  <2>3. Cover \subseteq Cover'
    BY <2>1, <2>2, EndCovers
  <2>4. \A j \in Crawls : crawl'[j] = crawl[j] \/ crawl'[j] = {}
    BY <1>1, <2>2 DEF OmarChannelsTypeOK
  <2> QED BY <1>1, <1>2, <2>1, <2>2, <2>3, <2>4, OtherKeeps
<1> QED BY <1>4, <1>5, <1>6, <1>7, <1>8, <1>9 DEF OmarChannelsNext

\* Whatever halts, overlaps or is taken up the day after, a channel is marked as crawled on a day
\* only when each video of the last days has been read or is known to be left: by a crawl under way or
\* cut short, or behind Omar's last page or the cap.  For any number of days, pages and halts.
THEOREM DoneDayIsCovered == OmarChannelsSpec => []ChannelCovered
<1>1. ChannelInv => ChannelCovered
  BY DEF ChannelInv, ChannelCovered, Covered, Cover
<1>2. ChannelInv /\ [OmarChannelsNext]_channelVars => ChannelInv'
  BY ChannelInvStep
<1> QED BY <1>1, <1>2, ChannelInvInit, PTL DEF OmarChannelsSpec

-----------------------------------------------------------------------------
(* The pages of a search (OmarSearch).                                     *)

SavedCursors == [cursor : 1 .. SearchLast, had : SUBSET (0 .. SearchLast)]

\* The states a search goes on in, field by field.
SearchAt(at, day, part, known, cursor, gotten, pages, empty, whole, ended) ==
    [at |-> at, day |-> day, part |-> part, known |-> known, cursor |-> cursor, had |-> gotten,
     pages |-> pages, empty |-> empty, whole |-> whole, passed |-> ended]
Reading(c, cursor, gotten) ==
    SearchAt("read", c.day, c.part, TRUE, cursor, gotten, c.pages, c.empty, c.whole, c.passed)
Answered(c) ==
    SearchAt("next", c.day, c.part, c.known, c.cursor + 1, c.had \cup {c.cursor}, c.pages + 1, 0, c.whole, c.passed)
Past(c, end) ==
    SearchAt(IF c.part = Passes THEN "through" ELSE "next", c.day, c.part + 1, FALSE, 0, {}, 0, 0, c.whole /\ end # "failed",
             [c.passed EXCEPT ![c.part] = {[had |-> c.had, blank |-> end \in {"blank", "nothing"}]}])

\* What EXCEPT makes of such a state.
LEMMA ReadingSet ==
    ASSUME NEW c \in SearchStates, NEW t, NEW cursor, NEW gotten
    PROVE  /\ [c EXCEPT !.at = "read", !.known = t, !.cursor = cursor, !.had = gotten]
                = SearchAt("read", c.day, c.part, t, cursor, gotten, c.pages, c.empty, c.whole, c.passed)
           /\ [c EXCEPT !.at = "read", !.known = t]
                = SearchAt("read", c.day, c.part, t, c.cursor, c.had, c.pages, c.empty, c.whole, c.passed)
<1> USE DEF SearchAt
<1> DEFINE a == [c EXCEPT !.at = "read"]
           b == [a EXCEPT !.known = t]
           d == [b EXCEPT !.cursor = cursor]
<1>1. a = SearchAt("read", c.day, c.part, c.known, c.cursor, c.had, c.pages, c.empty, c.whole, c.passed)
  BY DEF SearchStates
<1> HIDE DEF a
<1>2. b = SearchAt("read", c.day, c.part, t, c.cursor, c.had, c.pages, c.empty, c.whole, c.passed)
  BY <1>1
<1> HIDE DEF b
<1>3. d = SearchAt("read", c.day, c.part, t, cursor, c.had, c.pages, c.empty, c.whole, c.passed)
  BY <1>2
<1> HIDE DEF d
<1>4. [d EXCEPT !.had = gotten] = SearchAt("read", c.day, c.part, t, cursor, gotten, c.pages, c.empty, c.whole, c.passed)
  BY <1>3
<1> QED BY <1>2, <1>4 DEF a, b, d

LEMMA AnsweredIs ==
    ASSUME NEW c \in SearchStates
    PROVE  [c EXCEPT !.cursor = @ + 1, !.had = @ \cup {c.cursor}, !.pages = @ + 1, !.empty = 0, !.at = "next"] = Answered(c)
<1> USE DEF SearchAt, Answered
<1> DEFINE a == [c EXCEPT !.cursor = c.cursor + 1]
           b == [a EXCEPT !.had = c.had \cup {c.cursor}]
           d == [b EXCEPT !.pages = c.pages + 1]
           e == [d EXCEPT !.empty = 0]
<1>1. a = SearchAt(c.at, c.day, c.part, c.known, c.cursor + 1, c.had, c.pages, c.empty, c.whole, c.passed)
  BY DEF SearchStates
<1> HIDE DEF a
<1>2. b = SearchAt(c.at, c.day, c.part, c.known, c.cursor + 1, c.had \cup {c.cursor}, c.pages, c.empty, c.whole, c.passed)
  BY <1>1
<1> HIDE DEF b
<1>3. d = SearchAt(c.at, c.day, c.part, c.known, c.cursor + 1, c.had \cup {c.cursor}, c.pages + 1, c.empty, c.whole, c.passed)
  BY <1>2
<1> HIDE DEF d
<1>4. e = SearchAt(c.at, c.day, c.part, c.known, c.cursor + 1, c.had \cup {c.cursor}, c.pages + 1, 0, c.whole, c.passed)
  BY <1>3
<1> HIDE DEF e
<1>5. [e EXCEPT !.at = "next"] = Answered(c)
  BY <1>4
<1> QED BY <1>5 DEF a, b, d, e

LEMMA NextPassIs ==
    ASSUME NEW k \in Searches, NEW c, NEW end, NextPass(k, c, end)
    PROVE  /\ saved' = IF end = "blank" THEN CursorKept(c) ELSE [saved EXCEPT ![c.part] = {}]
           /\ search' = [search EXCEPT ![k] = {Past(c, end)}]
<1> DEFINE o == Fresh(c.day)
           at2 == IF c.part = Passes THEN "through" ELSE "next"
           part2 == c.part + 1
           whole2 == c.whole /\ end # "failed"
           passed2 == [c.passed EXCEPT ![c.part] = {[had |-> c.had, blank |-> end \in {"blank", "nothing"}]}]
           no == FALSE
           yes == TRUE
           none == [p \in PassNos |-> {}]
           g == [o EXCEPT !.at = at2, !.part = part2, !.whole = whole2, !.passed = passed2]
<1>1. search' = [search EXCEPT ![k] = {g}]
  BY DEF NextPass, Goes
<1>2. o = SearchAt("next", c.day, 1, no, 0, {}, 0, 0, yes, none)
  BY DEF Fresh, SearchAt
<1>3. Past(c, end) = SearchAt(at2, c.day, part2, no, 0, {}, 0, 0, whole2, passed2)
  BY DEF Past
<1> HIDE DEF o, at2, part2, whole2, passed2, no, yes, none
<1>4. g = SearchAt(at2, c.day, part2, no, 0, {}, 0, 0, whole2, passed2)
  <2> DEFINE a == [o EXCEPT !.at = at2]
             b == [a EXCEPT !.part = part2]
             d == [b EXCEPT !.whole = whole2]
  <2> USE DEF SearchAt
  <2>1. a = SearchAt(at2, c.day, 1, no, 0, {}, 0, 0, yes, none)
    BY <1>2
  <2> HIDE DEF a
  <2>2. b = SearchAt(at2, c.day, part2, no, 0, {}, 0, 0, yes, none)
    BY <2>1
  <2> HIDE DEF b
  <2>3. d = SearchAt(at2, c.day, part2, no, 0, {}, 0, 0, whole2, none)
    BY <2>2
  <2> HIDE DEF d
  <2>4. [d EXCEPT !.passed = passed2] = SearchAt(at2, c.day, part2, no, 0, {}, 0, 0, whole2, passed2)
    BY <2>3
  <2> QED BY <2>4 DEF a, b, d
<1> HIDE DEF g
<1> QED BY <1>1, <1>3, <1>4, Zenon DEF NextPass

-----------------------------------------------------------------------------
(* What a search carries: it is inductive, and constant.                   *)

\* The first n pages of a pass.
Prefix(n) == {i \in 0 .. SearchLast : i < n}

\* The end of a pass, as the round has to answer for it.
GoodEnd(r) == r.blank \/ GoneThrough(r)

\* The pages of the pass are those before the cursor, this search answered no more of them, the place
\* is one of the passes or through, and a search that is whole has gone through what is behind it.
SearchFollows(c) ==
    /\ c.had = Prefix(c.cursor) /\ c.pages <= c.cursor /\ (c.known \/ c.pages = 0)
    /\ c.at \in {"read", "asked"} => c.known
    /\ c.at = "through" <=> c.part = Passes + 1
    /\ c.whole => \A p \in PassNos : p < c.part => \E r \in c.passed[p] : GoodEnd(r)

GoodSearch(c) == c \in SearchStates /\ SearchFollows(c)

LEMMA SearchAtTyped ==
    ASSUME NEW at \in {"next", "read", "asked", "through"}, NEW day \in 1 .. LastDate, NEW part \in 1 .. Passes + 1,
           NEW known \in BOOLEAN, NEW cursor \in 0 .. SearchLast, NEW gotten \in SUBSET (0 .. SearchLast),
           NEW pages \in 0 .. SearchPages - 1, NEW empty \in 0 .. EmptyTries, NEW whole \in BOOLEAN,
           NEW ended \in [PassNos -> SUBSET PassEnds]
    PROVE  SearchAt(at, day, part, known, cursor, gotten, pages, empty, whole, ended) \in SearchStates
BY DEF SearchAt, SearchStates

LEMMA StateTyped ==
    ASSUME NEW c \in SearchStates
    PROVE  /\ c.at \in {"next", "read", "asked", "through"} /\ c.day \in 1 .. LastDate /\ c.part \in 1 .. Passes + 1
           /\ c.known \in BOOLEAN /\ c.cursor \in 0 .. SearchLast /\ c.had \in SUBSET (0 .. SearchLast)
           /\ c.pages \in 0 .. SearchPages - 1 /\ c.empty \in 0 .. EmptyTries /\ c.whole \in BOOLEAN
           /\ c.passed \in [PassNos -> SUBSET PassEnds]
BY DEF SearchStates

LEMMA FreshGood ==
    ASSUME NEW d \in 1 .. LastDate
    PROVE  GoodSearch(Fresh(d))
<1>1. Fresh(d) = SearchAt("next", d, 1, FALSE, 0, {}, 0, 0, TRUE, [p \in PassNos |-> {}])
  BY DEF Fresh, SearchAt
<1>2. 1 \in 1 .. Passes + 1 /\ 0 \in 0 .. SearchLast /\ 0 \in 0 .. SearchPages - 1 /\ 0 \in 0 .. EmptyTries
  BY SearchAssumption
<1>3. /\ [p \in PassNos |-> {}] \in [PassNos -> SUBSET PassEnds]
      /\ FALSE \in BOOLEAN /\ TRUE \in BOOLEAN /\ {} \in SUBSET (0 .. SearchLast) /\ "next" \in {"next", "read", "asked", "through"}
  OBVIOUS
<1>4. Fresh(d) \in SearchStates
  <2> DEFINE no == FALSE
             yes == TRUE
             none == [p \in PassNos |-> {}]
  <2>1. Fresh(d) = SearchAt("next", d, 1, no, 0, {}, 0, 0, yes, none)
    BY <1>1
  <2>2. no \in BOOLEAN /\ yes \in BOOLEAN /\ none \in [PassNos -> SUBSET PassEnds]
    BY <1>3
  <2> HIDE DEF no, yes, none
  <2> QED BY <1>2, <1>3, <2>1, <2>2, SearchAtTyped
<1>5. Prefix(0) = {}
  BY DEF Prefix
<1>6. \A p \in PassNos : ~(p < 1)
  BY SearchAssumption DEF PassNos
<1>7. Passes + 1 # 1
  BY SearchAssumption
<1>8. SearchFollows(Fresh(d))
  BY <1>5, <1>6, <1>7 DEF SearchFollows, Fresh
<1> QED BY <1>4, <1>8 DEF GoodSearch

LEMMA ReadingGood ==
    ASSUME NEW c, GoodSearch(c), c.at = "next", ~c.known
    PROVE  /\ GoodSearch(Reading(c, c.cursor, c.had))
           /\ \A s \in SavedCursors : s.had = Prefix(s.cursor) => GoodSearch(Reading(c, s.cursor, s.had))
<1>1. ASSUME NEW cursor \in 0 .. SearchLast, c.pages = 0 PROVE GoodSearch(Reading(c, cursor, Prefix(cursor)))
  <2>1. Reading(c, cursor, Prefix(cursor)) \in SearchStates
    BY StateTyped, SearchAtTyped DEF GoodSearch, Reading, Prefix
  <2>2. c.part # Passes + 1
    BY DEF GoodSearch, SearchFollows
  <2>3. SearchFollows(Reading(c, cursor, Prefix(cursor)))
    BY <1>1, <2>2 DEF GoodSearch, SearchFollows, Reading, SearchAt
  <2> QED BY <2>1, <2>3 DEF GoodSearch
<1>2. c.pages = 0 /\ c.had = Prefix(c.cursor) /\ c.cursor \in 0 .. SearchLast
  BY StateTyped DEF GoodSearch, SearchFollows
<1>3. \A s \in SavedCursors : s.cursor \in 0 .. SearchLast
  BY SearchAssumption DEF SavedCursors
<1> QED BY <1>1, <1>2, <1>3

LEMMA AskedGood ==
    ASSUME NEW c, GoodSearch(c), c.at = "read" \/ (c.at = "next" /\ c.known)
    PROVE  GoodSearch([c EXCEPT !.at = "asked"])
<1> DEFINE a == [c EXCEPT !.at = "asked"]
<1>1. a = SearchAt("asked", c.day, c.part, c.known, c.cursor, c.had, c.pages, c.empty, c.whole, c.passed)
  BY DEF GoodSearch, SearchStates, SearchAt
<1> HIDE DEF a
<1>2. a \in SearchStates
  BY <1>1, StateTyped, SearchAtTyped DEF GoodSearch
<1>3. c.part # Passes + 1
  BY DEF GoodSearch, SearchFollows
<1>4. SearchFollows(a)
  BY <1>1, <1>3 DEF GoodSearch, SearchFollows, SearchAt
<1> QED BY <1>2, <1>4 DEF GoodSearch, a

LEMMA RetryGood ==
    ASSUME NEW c, GoodSearch(c), c.at = "asked", c.empty < EmptyTries
    PROVE  GoodSearch([c EXCEPT !.at = "next", !.empty = @ + 1])
<1> DEFINE a == [c EXCEPT !.at = "next"]
           b == [a EXCEPT !.empty = c.empty + 1]
<1>1. a = SearchAt("next", c.day, c.part, c.known, c.cursor, c.had, c.pages, c.empty, c.whole, c.passed)
  BY DEF GoodSearch, SearchStates, SearchAt
<1> HIDE DEF a
<1>2. b = SearchAt("next", c.day, c.part, c.known, c.cursor, c.had, c.pages, c.empty + 1, c.whole, c.passed)
  BY <1>1 DEF SearchAt
<1>3. c.empty + 1 \in 0 .. EmptyTries
  BY StateTyped, SearchAssumption DEF GoodSearch
<1> HIDE DEF b
<1>4. b \in SearchStates
  BY <1>2, <1>3, StateTyped, SearchAtTyped DEF GoodSearch
<1>5. c.part # Passes + 1
  BY DEF GoodSearch, SearchFollows
<1>6. SearchFollows(b)
  BY <1>2, <1>5 DEF GoodSearch, SearchFollows, SearchAt
<1> QED BY <1>4, <1>6 DEF GoodSearch, a, b

LEMMA AnsweredGood ==
    ASSUME NEW c, GoodSearch(c), c.at = "asked", c.cursor # SearchLast, c.pages + 1 # SearchPages
    PROVE  GoodSearch(Answered(c))
<1>1. c.cursor + 1 \in 0 .. SearchLast /\ c.pages + 1 \in 0 .. SearchPages - 1 /\ 0 \in 0 .. EmptyTries
  BY StateTyped, SearchAssumption DEF GoodSearch
<1>2. c.had \cup {c.cursor} = Prefix(c.cursor + 1) /\ c.cursor \in 0 .. SearchLast
  BY StateTyped, SearchAssumption DEF GoodSearch, SearchFollows, Prefix
<1>3. Answered(c) \in SearchStates
  BY <1>1, <1>2, StateTyped, SearchAtTyped DEF GoodSearch, Answered
<1>4. c.part # Passes + 1
  BY DEF GoodSearch, SearchFollows
<1>5. c.pages + 1 <= c.cursor + 1
  BY StateTyped DEF GoodSearch, SearchFollows
<1>6. SearchFollows(Answered(c))
  BY <1>2, <1>4, <1>5 DEF GoodSearch, SearchFollows, Answered, SearchAt
<1> QED BY <1>3, <1>6 DEF GoodSearch

\* c: as the pass ends, which may be after an answer.
LEMMA PastGood ==
    ASSUME NEW b, GoodSearch(b), b.at # "through", NEW c, NEW end,
           c.day = b.day, c.part = b.part, c.whole = b.whole, c.passed = b.passed, c.had \subseteq 0 .. SearchLast,
           end # "failed" => GoodEnd([had |-> c.had, blank |-> end \in {"blank", "nothing"}])
    PROVE  GoodSearch(Past(c, end))
<1> DEFINE e == [had |-> c.had, blank |-> end \in {"blank", "nothing"}]
           ends == [c.passed EXCEPT ![c.part] = {e}]
           at == IF c.part = Passes THEN "through" ELSE "next"
           whole == c.whole /\ end # "failed"
<1>1. b.part \in 1 .. Passes
  BY StateTyped, SearchAssumption DEF GoodSearch, SearchFollows
<1>2. c.part \in PassNos /\ c.part + 1 \in 1 .. Passes + 1
  BY <1>1, SearchAssumption DEF PassNos
<1>3. e \in PassEnds
  BY DEF PassEnds
<1>4. c.passed \in [PassNos -> SUBSET PassEnds]
  BY StateTyped DEF GoodSearch
<1>5. ends \in [PassNos -> SUBSET PassEnds] /\ ends[c.part] = {e} /\ \A p \in PassNos \ {c.part} : ends[p] = c.passed[p]
  <2> HIDE DEF e
  <2> QED BY <1>2, <1>3, <1>4
<1>6. at \in {"next", "through"} /\ at \in {"next", "read", "asked", "through"} /\ (at = "through" <=> c.part + 1 = Passes + 1)
  BY <1>2, SearchAssumption DEF PassNos
<1>7. whole \in BOOLEAN
  OBVIOUS
<1>8. 0 \in 0 .. SearchLast /\ 0 \in 0 .. SearchPages - 1 /\ 0 \in 0 .. EmptyTries /\ Prefix(0) = {}
  BY SearchAssumption DEF Prefix
<1>9. Past(c, end) = SearchAt(at, c.day, c.part + 1, FALSE, 0, {}, 0, 0, whole, ends)
  BY DEF Past
<1>10. ASSUME whole, NEW p \in PassNos, p < c.part + 1 PROVE \E r \in ends[p] : GoodEnd(r)
  <2>1. CASE p = c.part
    BY <1>5, <1>10, <2>1
  <2>2. CASE p < c.part
    <3>1. \E r \in b.passed[p] : GoodEnd(r)
      BY <1>10, <2>2 DEF GoodSearch, SearchFollows
    <3>2. ends[p] = b.passed[p]
      <4> HIDE DEF ends
      <4> QED BY <1>2, <1>5, <2>2, SearchAssumption DEF PassNos
    <3> HIDE DEF ends, e
    <3> QED BY <3>1, <3>2, Zenon
  <2> QED BY <1>2, <1>10, <2>1, <2>2, SearchAssumption DEF PassNos
<1> HIDE DEF ends, at, whole, e
<1>11. c.day \in 1 .. LastDate
  BY StateTyped DEF GoodSearch
<1>12. FALSE \in BOOLEAN /\ {} \in SUBSET (0 .. SearchLast)
  OBVIOUS
<1>13. Past(c, end) \in SearchStates
  <2> DEFINE no == FALSE
  <2>1. Past(c, end) = SearchAt(at, c.day, c.part + 1, no, 0, {}, 0, 0, whole, ends) /\ no \in BOOLEAN
    BY <1>9
  <2> HIDE DEF no
  <2> QED BY <1>2, <1>5, <1>6, <1>7, <1>8, <1>11, <1>12, <2>1, SearchAtTyped
<1>14. SearchFollows(Past(c, end))
  BY <1>6, <1>8, <1>9, <1>10 DEF SearchFollows, SearchAt
<1> QED BY <1>13, <1>14 DEF GoodSearch

\* A pass that ends with an answer was gone through.
LEMMA AnsweredEnd ==
    ASSUME NEW c, GoodSearch(c), c.cursor = SearchLast \/ c.pages + 1 = SearchPages
    PROVE  /\ Answered(c).had \subseteq 0 .. SearchLast
           /\ GoodEnd([had |-> Answered(c).had, blank |-> "end" \in {"blank", "nothing"}])
<1>1. c.cursor \in 0 .. SearchLast /\ c.pages \in Nat /\ c.pages <= c.cursor
  BY StateTyped DEF GoodSearch, SearchFollows
<1>2. Answered(c).had = 0 .. c.cursor
  BY <1>1, SearchAssumption DEF Answered, SearchAt, GoodSearch, SearchFollows, Prefix
<1>3. Cardinality(0 .. c.cursor) = c.cursor + 1
  BY <1>1, FS_Interval
<1>4. GoneThrough([had |-> 0 .. c.cursor, blank |-> FALSE])
  BY <1>1, <1>3, SearchAssumption DEF GoneThrough
<1>5. ("end" \in {"blank", "nothing"}) = FALSE
  OBVIOUS
<1>6. GoodEnd([had |-> 0 .. c.cursor, blank |-> "end" \in {"blank", "nothing"}])
  BY <1>4, <1>5, Zenon DEF GoodEnd
<1>7. 0 .. c.cursor \subseteq 0 .. SearchLast
  BY <1>1, SearchAssumption
<1> QED BY <1>2, <1>6, <1>7, Zenon
-----------------------------------------------------------------------------

GoodSearches == {c \in SearchStates : SearchFollows(c)}
GoodCursors  == {s \in SavedCursors : s.had = Prefix(s.cursor)}
GoodProofs   == {ended \in [PassNos -> SUBSET PassEnds] : \A p \in PassNos : \E r \in ended[p] : GoodEnd(r)}

ScalarsTyped ==
    /\ date \in 1 .. LastDate /\ doneOn \in 0 .. LastDate /\ streak \in 0 .. PruneDays - 1 /\ pruned \in BOOLEAN
    /\ budget \in {"none", "some", "out"} /\ mistakes \in 0 .. MaxMistakes

\* What Redis and the searches hold of a pass goes from its first page without a gap, and what a round
\* went by when it marked the query was gone through.
SearchInv ==
    /\ ScalarsTyped
    /\ saved \in [PassNos -> SUBSET GoodCursors]
    /\ search \in [Searches -> SUBSET GoodSearches]
    /\ proof \subseteq GoodProofs

LEMMA SearchInvIs ==
    ASSUME SearchInv
    PROVE  OmarSearchTypeOK /\ SearchDoneIsWhole
<1>1. GoodCursors \subseteq [cursor : 1 .. SearchLast, had : SUBSET (0 .. SearchLast)] /\ GoodSearches \subseteq SearchStates
      /\ GoodProofs \subseteq [PassNos -> SUBSET PassEnds]
  BY DEF GoodCursors, GoodSearches, GoodProofs, SavedCursors
<1>2. saved \in [PassNos -> SUBSET [cursor : 1 .. SearchLast, had : SUBSET (0 .. SearchLast)]]
  BY <1>1 DEF SearchInv
<1>3. search \in [Searches -> SUBSET SearchStates] /\ proof \subseteq [PassNos -> SUBSET PassEnds]
  BY <1>1 DEF SearchInv
<1>4. SearchDoneIsWhole
  BY DEF SearchInv, GoodProofs, GoodEnd, SearchDoneIsWhole
<1> QED BY <1>2, <1>3, <1>4 DEF SearchInv, ScalarsTyped, OmarSearchTypeOK

LEMMA SearchGoesOn ==
    ASSUME SearchInv, NEW k \in Searches, NEW r, GoodSearch(r), search' = [search EXCEPT ![k] = {r}]
    PROVE  search' \in [Searches -> SUBSET GoodSearches]
BY DEF SearchInv, GoodSearch, GoodSearches

LEMMA SearchIsGone ==
    ASSUME SearchInv, NEW k \in Searches, search' = [search EXCEPT ![k] = {}]
    PROVE  search' \in [Searches -> SUBSET GoodSearches]
BY DEF SearchInv

LEMMA CursorIsKept ==
    ASSUME SearchInv, NEW c, GoodSearch(c), c.at # "through"
    PROVE  /\ CursorKept(c) \in [PassNos -> SUBSET GoodCursors]
           /\ [saved EXCEPT ![c.part] = {}] \in [PassNos -> SUBSET GoodCursors]
<1> DEFINE s == [cursor |-> c.cursor, had |-> c.had]
<1>1. CASE c.cursor # 0
  <2>1. c.cursor \in 1 .. SearchLast /\ c.had = Prefix(c.cursor) /\ c.had \in SUBSET (0 .. SearchLast)
    BY <1>1, StateTyped, SearchAssumption DEF GoodSearch, SearchFollows
  <2>2. s \in GoodCursors
    BY <2>1 DEF GoodCursors, SavedCursors
  <2> HIDE DEF s
  <2>3. [saved EXCEPT ![c.part] = {s}] \in [PassNos -> SUBSET GoodCursors]
    BY <2>2 DEF SearchInv
  <2>4. CursorKept(c) = [saved EXCEPT ![c.part] = {s}]
    BY <1>1 DEF CursorKept, s
  <2> QED BY <2>3, <2>4 DEF SearchInv
<1>2. CASE c.cursor = 0
  BY <1>2 DEF CursorKept, SearchInv
<1> QED BY <1>1, <1>2

LEMMA PassEndsGood ==
    ASSUME SearchInv, NEW k \in Searches, NEW b, GoodSearch(b), b.at # "through", NEW c, NEW end,
           c = b \/ end = "end",
           c.day = b.day, c.part = b.part, c.whole = b.whole, c.passed = b.passed, c.had \subseteq 0 .. SearchLast,
           end # "failed" => GoodEnd([had |-> c.had, blank |-> end \in {"blank", "nothing"}]),
           NextPass(k, c, end)
    PROVE  saved' \in [PassNos -> SUBSET GoodCursors] /\ search' \in [Searches -> SUBSET GoodSearches]
<1>1. search' \in [Searches -> SUBSET GoodSearches]
  <2>1. GoodSearch(Past(c, end))
    BY PastGood
  <2>2. search' = [search EXCEPT ![k] = {Past(c, end)}]
    BY NextPassIs
  <2> QED BY <2>1, <2>2, SearchGoesOn
<1>2. saved' \in [PassNos -> SUBSET GoodCursors]
  <2>1. saved' = IF end = "blank" THEN CursorKept(c) ELSE [saved EXCEPT ![c.part] = {}]
    BY NextPassIs
  <2>2. [saved EXCEPT ![c.part] = {}] \in [PassNos -> SUBSET GoodCursors]
    BY CursorIsKept
  <2>3. CASE end = "blank"
    BY <2>1, <2>3, CursorIsKept
  <2> QED BY <2>1, <2>2, <2>3
<1> QED BY <1>1, <1>2

LEMMA MistakeTyped ==
    ASSUME SearchInv, Mistake
    PROVE  mistakes' \in 0 .. MaxMistakes
BY SearchAssumption DEF SearchInv, ScalarsTyped, Mistake

LEMMA SearchOf ==
    ASSUME SearchInv, NEW k \in Searches, NEW c \in search[k]
    PROVE  GoodSearch(c)
BY DEF SearchInv, GoodSearches, GoodSearch

LEMMA PagesKeep ==
    ASSUME SearchInv, NEW k \in Searches, PageFails(k) \/ PageEmpty(k) \/ PageAnswered(k)
    PROVE  SearchInv'
<1>1. UNCHANGED <<date, doneOn, streak, pruned, budget, proof>>
  BY DEF PageFails, PageEmpty, PageAnswered
<1>2. mistakes' \in 0 .. MaxMistakes
  BY MistakeTyped DEF PageFails, PageEmpty, PageAnswered, SearchInv, ScalarsTyped
<1> SUFFICES saved' \in [PassNos -> SUBSET GoodCursors] /\ search' \in [Searches -> SUBSET GoodSearches]
  BY <1>1, <1>2 DEF SearchInv, ScalarsTyped
<1>3. CASE PageFails(k)
  <2>1. PICK c \in search[k] : c.at = "asked" /\ NextPass(k, c, "failed")
    BY <1>3 DEF PageFails
  <2>2. GoodSearch(c) /\ c.had \subseteq 0 .. SearchLast
    BY SearchOf, StateTyped DEF GoodSearch
  <2> QED BY <2>1, <2>2, PassEndsGood
<1>4. CASE PageEmpty(k)
  <2>1. PICK c \in search[k] :
          /\ c.at = "asked"
          /\ IF c.cursor > 0 /\ c.empty < EmptyTries
             THEN Goes(k, [c EXCEPT !.at = "next", !.empty = @ + 1]) /\ UNCHANGED saved
             ELSE NextPass(k, c, IF c.cursor > 0 THEN "blank" ELSE "nothing")
    BY <1>4 DEF PageEmpty
  <2>2. GoodSearch(c) /\ c.had \subseteq 0 .. SearchLast
    BY SearchOf, StateTyped DEF GoodSearch
  <2>3. CASE c.cursor > 0 /\ c.empty < EmptyTries
    <3>1. GoodSearch([c EXCEPT !.at = "next", !.empty = @ + 1])
      BY <2>1, <2>2, <2>3, RetryGood
    <3>2. search' = [search EXCEPT ![k] = {[c EXCEPT !.at = "next", !.empty = @ + 1]}] /\ UNCHANGED saved
      BY <2>1, <2>3 DEF Goes
    <3> QED BY <3>1, <3>2, SearchGoesOn DEF SearchInv
  <2>4. ASSUME NEW end \in {"blank", "nothing"}, NextPass(k, c, end)
        PROVE  saved' \in [PassNos -> SUBSET GoodCursors] /\ search' \in [Searches -> SUBSET GoodSearches]
    <3>1. GoodEnd([had |-> c.had, blank |-> end \in {"blank", "nothing"}])
      BY <2>4 DEF GoodEnd
    <3> QED BY <2>1, <2>2, <2>4, <3>1, PassEndsGood
  <2> QED BY <2>1, <2>3, <2>4
<1>5. CASE PageAnswered(k)
  <2>1. PICK c \in search[k] :
          LET n == [c EXCEPT !.cursor = @ + 1, !.had = @ \cup {c.cursor}, !.pages = @ + 1, !.empty = 0, !.at = "next"] IN
          /\ c.at = "asked"
          /\ IF c.cursor = SearchLast \/ n.pages = SearchPages THEN NextPass(k, n, "end")
             ELSE Goes(k, n) /\ UNCHANGED saved
    BY <1>5 DEF PageAnswered
  <2>2. GoodSearch(c) /\ c.at = "asked"
    BY <2>1, SearchOf
  <2>3. [c EXCEPT !.cursor = @ + 1, !.had = @ \cup {c.cursor}, !.pages = @ + 1, !.empty = 0, !.at = "next"] = Answered(c)
    BY <2>2, AnsweredIs DEF GoodSearch
  <2>4. IF c.cursor = SearchLast \/ Answered(c).pages = SearchPages THEN NextPass(k, Answered(c), "end")
        ELSE Goes(k, Answered(c)) /\ UNCHANGED saved
    BY <2>1, <2>3, Zenon
  <2>5. Answered(c).pages = c.pages + 1 /\ Answered(c).day = c.day /\ Answered(c).part = c.part
        /\ Answered(c).whole = c.whole /\ Answered(c).passed = c.passed
    BY DEF Answered, SearchAt
  <2>6. CASE c.cursor = SearchLast \/ Answered(c).pages = SearchPages
    <3>1. NextPass(k, Answered(c), "end")
      BY <2>4, <2>6
    <3>2. /\ Answered(c).had \subseteq 0 .. SearchLast
          /\ GoodEnd([had |-> Answered(c).had, blank |-> "end" \in {"blank", "nothing"}])
      BY <2>2, <2>5, <2>6, AnsweredEnd
    <3> QED BY <2>2, <2>5, <3>1, <3>2, PassEndsGood
  <2>7. CASE ~(c.cursor = SearchLast \/ Answered(c).pages = SearchPages)
    <3>1. GoodSearch(Answered(c))
      BY <2>2, <2>5, <2>7, AnsweredGood
    <3>2. search' = [search EXCEPT ![k] = {Answered(c)}] /\ UNCHANGED saved
      BY <2>4, <2>7 DEF Goes
    <3> QED BY <3>1, <3>2, SearchGoesOn DEF SearchInv
  <2> QED BY <2>6, <2>7
<1> QED BY <1>3, <1>4, <1>5
LEMMA StepsKeep ==
    ASSUME SearchInv, NEW k \in Searches, ReadCursor(k) \/ TakePage(k) \/ SearchStopped(k) \/ FinishSearch(k)
    PROVE  SearchInv'
<1>1. CASE ReadCursor(k)
  <2>1. PICK c \in search[k] :
          /\ c.at = "next" /\ ~c.known
          /\ IF saved[c.part] = {} THEN Goes(k, [c EXCEPT !.at = "read", !.known = TRUE])
             ELSE \E s \in saved[c.part] :
                    Goes(k, [c EXCEPT !.at = "read", !.known = TRUE, !.cursor = s.cursor, !.had = s.had])
    BY <1>1 DEF ReadCursor
  <2>2. GoodSearch(c) /\ c.at = "next" /\ ~c.known
    BY <2>1, SearchOf
  <2>3. c.part \in PassNos
    BY <2>2, StateTyped, SearchAssumption DEF GoodSearch, SearchFollows, PassNos
  <2>4. CASE saved[c.part] = {}
    <3>1. search' = [search EXCEPT ![k] = {[c EXCEPT !.at = "read", !.known = TRUE]}]
      BY <2>1, <2>4 DEF Goes
    <3>2. [c EXCEPT !.at = "read", !.known = TRUE] = Reading(c, c.cursor, c.had)
      BY <2>2, ReadingSet DEF Reading, GoodSearch
    <3>3. GoodSearch(Reading(c, c.cursor, c.had))
      BY <2>2, ReadingGood
    <3>4. search' \in [Searches -> SUBSET GoodSearches]
      BY <3>1, <3>2, <3>3, SearchGoesOn
    <3> QED BY <1>1, <3>4 DEF ReadCursor, SearchInv, ScalarsTyped, searchRedis
  <2>5. CASE saved[c.part] # {}
    <3>1. PICK s \in saved[c.part] :
            search' = [search EXCEPT ![k] = {[c EXCEPT !.at = "read", !.known = TRUE, !.cursor = s.cursor, !.had = s.had]}]
      BY <2>1, <2>5 DEF Goes
    <3>2. [c EXCEPT !.at = "read", !.known = TRUE, !.cursor = s.cursor, !.had = s.had] = Reading(c, s.cursor, s.had)
      BY <2>2, ReadingSet DEF Reading, GoodSearch
    <3>3. s \in SavedCursors /\ s.had = Prefix(s.cursor)
      BY <2>3 DEF SearchInv, GoodCursors
    <3>4. GoodSearch(Reading(c, s.cursor, s.had))
      BY <2>2, <3>3, ReadingGood
    <3>5. search' \in [Searches -> SUBSET GoodSearches]
      BY <3>1, <3>2, <3>4, SearchGoesOn
    <3> QED BY <1>1, <3>5 DEF ReadCursor, SearchInv, ScalarsTyped, searchRedis
  <2> QED BY <2>4, <2>5
<1>2. CASE TakePage(k)
  <2>1. PICK c \in search[k] : (c.at = "read" \/ (c.at = "next" /\ c.known)) /\ Goes(k, [c EXCEPT !.at = "asked"])
    BY <1>2 DEF TakePage
  <2>2. GoodSearch([c EXCEPT !.at = "asked"])
    BY <2>1, SearchOf, AskedGood
  <2>3. search' \in [Searches -> SUBSET GoodSearches]
    BY <2>1, <2>2, SearchGoesOn DEF Goes
  <2> QED BY <1>2, <2>3 DEF TakePage, SearchInv, ScalarsTyped, searchRedis
<1>3. CASE SearchStopped(k)
  <2>1. PICK c \in search[k] : c.at = "asked" /\ saved' = CursorKept(c)
    BY <1>3 DEF SearchStopped
  <2>2. saved' \in [PassNos -> SUBSET GoodCursors]
    BY <2>1, SearchOf, CursorIsKept
  <2>3. search' \in [Searches -> SUBSET GoodSearches] /\ mistakes' \in 0 .. MaxMistakes
    BY <1>3, SearchIsGone, MistakeTyped DEF SearchStopped, Gone
  <2> QED BY <1>3, <2>2, <2>3 DEF SearchStopped, SearchInv, ScalarsTyped
<1>4. CASE FinishSearch(k)
  <2>1. PICK c \in search[k] :
          /\ c.at = "through" /\ TrackedZero(c)
          /\ doneOn' = IF k = "hand" THEN date ELSE IF Complete(c) THEN c.day ELSE doneOn
          /\ proof' = IF k = "round" /\ Complete(c) THEN {c.passed} ELSE proof
    BY <1>4 DEF FinishSearch
  <2>2. GoodSearch(c)
    BY SearchOf
  <2>3. c.day \in 1 .. LastDate /\ c.passed \in [PassNos -> SUBSET PassEnds] /\ c.whole \in BOOLEAN
    BY <2>2, StateTyped DEF GoodSearch
  <2>4. doneOn' \in 0 .. LastDate
    BY <2>1, <2>3, SearchAssumption DEF SearchInv, ScalarsTyped
  <2>5. streak' \in 0 .. PruneDays - 1
    BY <2>1, SearchAssumption DEF TrackedZero, SearchInv, ScalarsTyped
  <2>6. pruned' \in BOOLEAN
    BY <2>1 DEF TrackedZero, SearchInv, ScalarsTyped
  <2>7. proof' \subseteq GoodProofs
    <3>1. \A p \in PassNos : p < Passes + 1
      BY SearchAssumption DEF PassNos
    <3>2. c.whole => c.passed \in GoodProofs
      BY <2>1, <2>2, <2>3, <3>1 DEF GoodSearch, SearchFollows, GoodProofs
    <3> QED BY <2>1, <3>2 DEF SearchInv, Complete
  <2>8. search' \in [Searches -> SUBSET GoodSearches]
    BY <1>4, SearchIsGone DEF FinishSearch, Gone
  <2> QED BY <1>4, <2>4, <2>5, <2>6, <2>7, <2>8 DEF FinishSearch, SearchInv, ScalarsTyped
<1> QED BY <1>1, <1>2, <1>3, <1>4

LEMMA RoundsKeep ==
    ASSUME SearchInv,
           RoundOpens \/ SearchNow \/ BudgetRunsOut \/ LoopStops \/ TakeFails \/ DateChanges \/ SearchRestart
    PROVE  SearchInv'
<1> USE DEF searchRedis
<1>1. GoodSearch(Fresh(date)) /\ "round" \in Searches /\ "hand" \in Searches
  BY FreshGood DEF SearchInv, ScalarsTyped, Searches
<1>2. CASE RoundOpens
  <2>1. search' \in [Searches -> SUBSET GoodSearches]
    <3>1. CASE Goes("round", Fresh(date))
      BY <1>1, <3>1, SearchGoesOn DEF Goes
    <3> QED BY <1>2, <3>1 DEF RoundOpens, SearchInv
  <2> QED BY <1>2, <2>1 DEF RoundOpens, SearchInv, ScalarsTyped
<1>3. CASE SearchNow
  <2>1. search' \in [Searches -> SUBSET GoodSearches]
    BY <1>1, <1>3, SearchGoesOn DEF SearchNow, Goes
  <2>2. mistakes' \in 0 .. MaxMistakes
    BY <1>3, MistakeTyped DEF SearchNow
  <2> QED BY <1>3, <2>1, <2>2 DEF SearchNow, SearchInv, ScalarsTyped
<1>4. CASE BudgetRunsOut
  BY <1>4 DEF BudgetRunsOut, SearchInv, ScalarsTyped
<1>5. CASE LoopStops
  <2>1. search' \in [Searches -> SUBSET GoodSearches]
    BY <1>1, <1>5, SearchIsGone DEF LoopStops, Gone
  <2> QED BY <1>5, <2>1 DEF LoopStops, SearchInv, ScalarsTyped
<1>6. CASE TakeFails
  <2>1. search' \in [Searches -> SUBSET GoodSearches]
    BY <1>1, <1>6, SearchIsGone DEF TakeFails, Gone
  <2>2. PICK c \in search["round"] : c.at = "read" /\ saved' = CursorKept(c)
    BY <1>6 DEF TakeFails
  <2>3. saved' \in [PassNos -> SUBSET GoodCursors]
    BY <1>1, <2>2, SearchOf, CursorIsKept
  <2> QED BY <1>6, <2>1, <2>3 DEF TakeFails, SearchInv, ScalarsTyped
<1>7. CASE DateChanges
  <2>1. date' \in 1 .. LastDate
    BY <1>7, SearchAssumption DEF DateChanges, SearchInv, ScalarsTyped
  <2> QED BY <1>7, <2>1 DEF DateChanges, SearchInv, ScalarsTyped
<1>8. CASE SearchRestart
  <2>1. search' \in [Searches -> SUBSET GoodSearches]
    BY <1>8 DEF SearchRestart
  <2>2. mistakes' \in 0 .. MaxMistakes
    BY <1>8, MistakeTyped DEF SearchRestart
  <2> QED BY <1>8, <2>1, <2>2 DEF SearchRestart, SearchInv, ScalarsTyped
<1> QED BY <1>2, <1>3, <1>4, <1>5, <1>6, <1>7, <1>8

LEMMA SearchInvInit == OmarSearchInit => SearchInv
<1> SUFFICES ASSUME OmarSearchInit PROVE SearchInv
  OBVIOUS
<1>1. ScalarsTyped
  <2>1. date \in 1 .. LastDate /\ doneOn \in 0 .. LastDate /\ streak \in 0 .. PruneDays - 1 /\ mistakes \in 0 .. MaxMistakes
    BY SearchAssumption DEF OmarSearchInit
  <2> QED BY <2>1 DEF OmarSearchInit, ScalarsTyped
<1>2. saved \in [PassNos -> SUBSET GoodCursors] /\ search \in [Searches -> SUBSET GoodSearches] /\ proof \subseteq GoodProofs
  BY DEF OmarSearchInit
<1> QED BY <1>1, <1>2 DEF SearchInv

LEMMA SearchInvStep == SearchInv /\ [OmarSearchNext]_searchVars => SearchInv'
<1> SUFFICES ASSUME SearchInv, [OmarSearchNext]_searchVars PROVE SearchInv'
  OBVIOUS
<1>1. CASE UNCHANGED searchVars
  BY <1>1 DEF searchVars, searchRedis, SearchInv, ScalarsTyped
<1> QED BY <1>1, RoundsKeep, StepsKeep, PagesKeep DEF OmarSearchNext

\* The cursors, the searches and what they answer for have their types, for any number of passes,
\* pages, rounds and days.
THEOREM SearchTypes == OmarSearchSpec => []OmarSearchTypeOK
BY SearchInvInit, SearchInvStep, SearchInvIs, PTL DEF OmarSearchSpec

\* A query is marked as done only when every pass of it was gone through without a gap, or a page
\* without results ended it, whichever searches shared in a pass, through halts, pages that fail,
\* budgets that run out and cursors that expire.
THEOREM SearchedToTheEnd == OmarSearchSpec => []SearchDoneIsWhole
BY SearchInvInit, SearchInvStep, SearchInvIs, PTL DEF OmarSearchSpec

=============================================================================
