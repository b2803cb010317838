------------------------- MODULE OmarCrawls_proofs -------------------------
(***************************************************************************)
(* Proofs about two crawls of Omar (TikTok): the rounds over hashtags, of  *)
(* all processes that open them, and the quota they spend (OmarRound); and *)
(* the queue of videos whose comments are wanted (OmarComments); for any   *)
(* number of processes, hashtags, videos, pages, side jobs, errors,        *)
(* restarts and days.                                                      *)
(***************************************************************************)
EXTENDS OmarRound, OmarComments, FiniteSetTheorems, TLAPS

-----------------------------------------------------------------------------
(* Rounds over hashtags (OmarRound).                                       *)

(* Entries.  A pass has had every page before its cursor, and if it is     *)
(* done it has had all of them; or it has had an empty page.               *)

Whole(e) ==
    e.blank \/ (/\ \A p \in Pages : p < e.cursor => p \in e.had
                /\ e.done # "never" => e.had = Pages)

Good(e) == e \in Entry /\ Whole(e)

LEMMA PagesAreNat ==
    /\ 0 \in Pages /\ LastPage \in Pages
    /\ \A p \in Pages : p \in Nat /\ p <= LastPage /\ (p < LastPage => p + 1 \in Pages) /\ ~(p < 0)
    /\ \A p, q \in Pages : (q < p + 1 => q = p \/ q < p) /\ (~(p < LastPage) => p = LastPage /\ (q = p \/ q < p))
BY OmarRoundAssumption DEF Pages

LEMMA NewGood == Good(NewEntry)
BY PagesAreNat DEF Good, Entry, Whole, NewEntry

\* The entry with its page counted, before its cursor moves.
Counted(e, videos) ==
    [e EXCEPT !.some = TRUE, !.missing = FALSE, !.had = @ \cup {e.cursor},
              !.blank = @ \/ ~videos, !.stalls = IF videos THEN 0 ELSE @,
              !.empty = IF videos THEN 0 ELSE @ + 1]

LEMMA CountedIs ==
    ASSUME NEW e, Good(e), NEW videos \in BOOLEAN
    PROVE  /\ Counted(e, videos) \in Entry
           /\ Counted(e, videos).cursor = e.cursor /\ Counted(e, videos).done = e.done
           /\ Counted(e, videos).had = e.had \cup {e.cursor}
           /\ Counted(e, videos).blank = (e.blank \/ ~videos)
           /\ videos => Counted(e, videos).empty = 0
<1> DEFINE T == TRUE
           F == FALSE
           H == e.had \cup {e.cursor}
           B == e.blank \/ ~videos
           S == IF videos THEN 0 ELSE e.stalls
           M == IF videos THEN 0 ELSE e.empty + 1
<1>2. T \in BOOLEAN /\ F \in BOOLEAN /\ H \in SUBSET Pages /\ B \in BOOLEAN /\ S \in Nat /\ M \in Nat
  BY DEF Good, Entry
<1>3. Counted(e, videos) = [e EXCEPT !.some = T, !.missing = F, !.had = H, !.blank = B, !.stalls = S, !.empty = M]
  BY DEF Good, Entry, Counted
<1>4. videos => M = 0
  OBVIOUS
<1> HIDE DEF T, F, S, M
<1>5. /\ Counted(e, videos) \in Entry
      /\ Counted(e, videos).cursor = e.cursor /\ Counted(e, videos).done = e.done
      /\ Counted(e, videos).had = H /\ Counted(e, videos).blank = B /\ Counted(e, videos).empty = M
  <2> HIDE DEF H, B
  <2> DEFINE n == Counted(e, videos)
  <2>1. n = [e EXCEPT !.some = T, !.missing = F, !.had = H, !.blank = B, !.stalls = S, !.empty = M]
    BY <1>3
  <2> HIDE DEF n
  <2>2. n \in Entry /\ n.cursor = e.cursor /\ n.done = e.done /\ n.had = H /\ n.blank = B /\ n.empty = M
    BY <1>2, <2>1 DEF Good, Entry
  <2> QED BY <2>2 DEF n
<1> QED BY <1>4, <1>5

LEMMA DoneTyped ==
    ASSUME NEW e \in Entry
    PROVE  Done(e) \in Entry /\ Done(e).cursor = 0 /\ Done(e).had = e.had /\ Done(e).blank = e.blank
BY PagesAreNat DEF Entry, Done

LEMMA MovedTyped ==
    ASSUME NEW e \in Entry, e.cursor < LastPage
    PROVE  /\ [e EXCEPT !.cursor = @ + 1] \in Entry /\ [e EXCEPT !.cursor = @ + 1].cursor = e.cursor + 1
           /\ [e EXCEPT !.cursor = @ + 1].had = e.had /\ [e EXCEPT !.cursor = @ + 1].blank = e.blank
           /\ [e EXCEPT !.cursor = @ + 1].done = e.done
BY PagesAreNat DEF Entry

\* A page with videos, the last or one with more after it.
LEMMA StalledTyped ==
    ASSUME NEW e \in Entry
    PROVE  LET n == [e EXCEPT !.stalls = @ + 1, !.missing = FALSE] IN
           /\ n \in Entry /\ n.cursor = e.cursor /\ n.had = e.had /\ n.done = e.done /\ n.blank = e.blank
<1> DEFINE F == FALSE
           i == e.stalls + 1
           n == [e EXCEPT !.stalls = i, !.missing = F]
<1>1. F \in BOOLEAN /\ i \in Nat
  BY DEF Entry
<1>2. [e EXCEPT !.stalls = @ + 1, !.missing = FALSE] = n
  BY DEF Entry
<1> HIDE DEF F, i
<1>3. n \in Entry
  BY <1>1 DEF Entry
<1>4. n.cursor = e.cursor /\ n.had = e.had /\ n.done = e.done
  BY DEF Entry
<1>5. n.blank = e.blank
  BY DEF Entry
<1> HIDE DEF n
<1> QED BY <1>2, <1>3, <1>4, <1>5

LEMMA PageGood ==
    ASSUME NEW e, Good(e), NEW more \in BOOLEAN, more <=> e.cursor < LastPage
    PROVE  Good(Paged(e, TRUE, more))
<1> DEFINE n == Counted(e, TRUE)
<1>1. n \in Entry /\ n.cursor = e.cursor /\ n.done = e.done /\ n.had = e.had \cup {e.cursor}
      /\ n.blank = e.blank /\ n.empty = 0
  BY CountedIs DEF Good, Entry
<1>3. Paged(e, TRUE, more) = IF ~more \/ n.empty >= EmptyPages THEN Done(n) ELSE [n EXCEPT !.cursor = @ + 1]
  BY DEF Paged, Counted
<1> HIDE DEF n
<1>2. ~(n.empty >= EmptyPages)
  <2>1. EmptyPages \in Nat /\ EmptyPages # 0
    BY OmarRoundAssumption
  <2> QED BY <1>1, <2>1
<1>4. e.cursor \in Pages
  BY DEF Good, Entry
<1>5. CASE ~(e.cursor < LastPage)
  <2>1. e.blank \/ n.had = Pages
    BY <1>1, <1>4, <1>5, PagesAreNat DEF Good, Whole, Entry
  <2>2. Done(n) \in Entry /\ Done(n).cursor = 0 /\ Done(n).had = n.had /\ Done(n).blank = n.blank
    BY <1>1, DoneTyped
  <2>3. Good(Done(n))
    BY <1>1, <2>1, <2>2, PagesAreNat DEF Good, Whole
  <2> QED BY <1>3, <1>5, <2>3
<1>6. CASE e.cursor < LastPage
  <2> DEFINE m == [n EXCEPT !.cursor = @ + 1]
  <2>1. m \in Entry /\ m.cursor = e.cursor + 1 /\ m.had = n.had /\ m.blank = e.blank /\ m.done = e.done
    BY <1>1, <1>6, MovedTyped
  <2> HIDE DEF m
  <2>2. e.blank \/ \A p \in Pages : p < e.cursor + 1 => p \in n.had
    BY <1>1, <1>4, PagesAreNat DEF Good, Whole
  <2>3. e.blank \/ (e.done # "never" => n.had = Pages)
    BY <1>1, <1>4 DEF Good, Whole
  <2>4. Good(m)
    BY <2>1, <2>2, <2>3 DEF Good, Whole
  <2> QED BY <1>2, <1>3, <1>6, <2>4 DEF m
<1> QED BY <1>5, <1>6

\* An empty page.
LEMMA EmptyGood ==
    ASSUME NEW e, Good(e), NEW more \in BOOLEAN, more => e.cursor < LastPage
    PROVE  Good(Paged(e, FALSE, more))
<1> DEFINE n == Counted(e, FALSE)
<1>1. n \in Entry /\ n.cursor = e.cursor /\ n.blank
  BY CountedIs
<1>2. Paged(e, FALSE, more) = IF ~more \/ n.empty >= EmptyPages THEN Done(n) ELSE [n EXCEPT !.cursor = @ + 1]
  BY DEF Paged, Counted
<1> HIDE DEF n
<1>3. Good(Done(n))
  BY <1>1, DoneTyped DEF Good, Whole
<1>4. more => Good([n EXCEPT !.cursor = @ + 1])
  BY <1>1, MovedTyped DEF Good, Whole
<1> QED BY <1>2, <1>3, <1>4

------------------------------------------------------------------------------

------------------------------------------------------------------------------
(* Every entry there is, in Redis and in the memory of the processes.      *)

AllGood(f) == f = [h \in Tags |-> f[h]] /\ \A h \in Tags : Good(f[h])

EachGood(f) == DOMAIN f = Tags /\ \A h \in Tags : \A e \in f[h] : Good(e)

AllTables(F)  == F = [p \in Processes |-> F[p]] /\ \A p \in Processes : AllGood(F[p])

EachTables(F) == DOMAIN F = Processes /\ \A p \in Processes : EachGood(F[p])

EntriesGood == AllGood(stored) /\ AllTables(loaded) /\ EachTables(entries) /\ EachTables(manual)

LEMMA NobodyGood == EachGood(Nobody) /\ AllGood(Fresh)
BY NewGood DEF EachGood, Nobody, AllGood, Fresh

LEMMA PutGood ==
    ASSUME NEW f, AllGood(f), NEW h \in Tags, NEW e, Good(e)
    PROVE  AllGood([f EXCEPT ![h] = e])
BY DEF AllGood

LEMMA PutEachGood ==
    ASSUME NEW f, EachGood(f), NEW h \in Tags, NEW E, \A e \in E : Good(e)
    PROVE  EachGood([f EXCEPT ![h] = E])
BY DEF EachGood

\* The table of one process, or an entry in it.
LEMMA TableGood ==
    ASSUME NEW F, AllTables(F), NEW p \in Processes
    PROVE  /\ \A f : AllGood(f) => AllTables([F EXCEPT ![p] = f])
           /\ \A h \in Tags : \A e : Good(e) => AllTables([F EXCEPT ![p][h] = e])
<1>1. \A f : AllGood(f) => AllTables([F EXCEPT ![p] = f])
  BY DEF AllTables
<1>2. ASSUME NEW h \in Tags, NEW e, Good(e) PROVE AllTables([F EXCEPT ![p][h] = e])
  <2>1. AllGood([F[p] EXCEPT ![h] = e])
    BY <1>2, PutGood DEF AllTables
  <2>2. AllTables([F EXCEPT ![p] = [F[p] EXCEPT ![h] = e]])
    BY <1>1, <2>1
  <2> QED BY <2>2
<1> QED BY <1>1, <1>2

LEMMA EachTableGood ==
    ASSUME NEW F, EachTables(F), NEW p \in Processes
    PROVE  /\ \A f : EachGood(f) => EachTables([F EXCEPT ![p] = f])
           /\ \A h \in Tags : \A E : (\A e \in E : Good(e)) => EachTables([F EXCEPT ![p][h] = E])
<1>1. \A f : EachGood(f) => EachTables([F EXCEPT ![p] = f])
  BY DEF EachTables
<1>2. ASSUME NEW h \in Tags, NEW E, \A e \in E : Good(e) PROVE EachTables([F EXCEPT ![p][h] = E])
  <2>1. EachGood([F[p] EXCEPT ![h] = E])
    BY <1>2, PutEachGood DEF EachTables
  <2>2. EachTables([F EXCEPT ![p] = [F[p] EXCEPT ![h] = E]])
    BY <1>1, <2>1
  <2> QED BY <2>2
<1> QED BY <1>1, <1>2

LEMMA EntriesInit == OmarRoundInit => EntriesGood
<1> SUFFICES ASSUME OmarRoundInit PROVE EntriesGood
  OBVIOUS
<1>1. AllGood(stored) /\ AllTables(loaded) /\ EachTables(entries) /\ EachTables(manual)
  BY NobodyGood DEF OmarRoundInit, AllTables, EachTables, Each
<1> QED BY <1>1 DEF EntriesGood

\* An answer of the round puts one entry; it is saved, or only kept.
LEMMA AnswerGood ==
    ASSUME EntriesGood, NEW p \in Processes, NEW h \in Tags, NEW n, Good(n), Kept(p, h, n),
           Saved(p, h, n) \/ UNCHANGED <<stored, loaded>>, UNCHANGED manual
    PROVE  EntriesGood'
<1>1. AllGood(stored')
  BY PutGood DEF EntriesGood, Saved
<1>2. AllTables(loaded')
  BY TableGood DEF EntriesGood, Saved
<1>3. EachTables(entries')
  <2>1. \A e \in {n} : Good(e)
    OBVIOUS
  <2> QED BY <2>1, EachTableGood DEF EntriesGood, Kept
<1> QED BY <1>1, <1>2, <1>3 DEF EntriesGood

LEMMA AskGood ==
    ASSUME EntriesGood, NEW p \in Processes, NEW h \in Tags, Ask(p, h)
    PROVE  EntriesGood'
<1>1. \A e \in Begun(p, h) : Good(e)
  BY NewGood DEF Begun, ResetPass, EntriesGood, AllTables, EachTables, AllGood, EachGood
<1>2. EachTables(entries')
  BY <1>1, EachTableGood DEF EntriesGood, Ask
<1>3. UNCHANGED <<stored, loaded, manual>>
  BY DEF Ask, redisVars, restVars
<1> QED BY <1>2, <1>3 DEF EntriesGood

LEMMA AnswerPageGood ==
    ASSUME EntriesGood, NEW p \in Processes, NEW h \in Tags, AnswerPage(p, h)
    PROVE  EntriesGood'
<1>1. PICK e \in entries[p][h] :
          LET n == Paged(e, TRUE, e.cursor < LastPage) IN Saved(p, h, n) /\ Kept(p, h, n)
  BY DEF AnswerPage
<1>2. Good(e)
  BY DEF EntriesGood, EachTables, EachGood
<1>3. Good(Paged(e, TRUE, e.cursor < LastPage))
  <2>1. CASE e.cursor < LastPage
    <3>1. Good(Paged(e, TRUE, TRUE))
      BY <1>2, <2>1, PageGood
    <3> QED BY <2>1, <3>1 DEF Paged
  <2>2. CASE ~(e.cursor < LastPage)
    <3>1. Good(Paged(e, TRUE, FALSE))
      BY <1>2, <2>2, PageGood
    <3> QED BY <2>2, <3>1 DEF Paged
  <2> QED BY <2>1, <2>2
<1>4. UNCHANGED manual
  BY DEF AnswerPage, restVars
<1> QED BY <1>1, <1>3, <1>4, AnswerGood

LEMMA AnswerEmptyGood ==
    ASSUME EntriesGood, NEW p \in Processes, NEW h \in Tags, NEW more \in BOOLEAN, AnswerEmpty(p, h, more)
    PROVE  EntriesGood'
<1>1. PICK e \in entries[p][h] :
          LET again == e.cursor > 0 /\ tries[p][h].empty < PageTries
              stall == e.cursor > 0 /\ ~more /\ e.stalls + 1 < StallRounds
              n == IF again THEN e
                   ELSE IF stall THEN [e EXCEPT !.stalls = @ + 1, !.missing = FALSE]
                   ELSE Paged(e, FALSE, more) IN
          /\ more => e.cursor < LastPage
          /\ Kept(p, h, n)
          /\ IF again THEN UNCHANGED <<stored, loaded>> ELSE Saved(p, h, n)
  BY DEF AnswerEmpty
<1>7. PICK n \in {e, [e EXCEPT !.stalls = @ + 1, !.missing = FALSE], Paged(e, FALSE, more)} :
          Kept(p, h, n) /\ (Saved(p, h, n) \/ UNCHANGED <<stored, loaded>>)
  <2>1. CASE e.cursor > 0 /\ tries[p][h].empty < PageTries
    BY <1>1, <2>1
  <2>2. CASE ~(e.cursor > 0 /\ tries[p][h].empty < PageTries)
    BY <1>1, <2>2
  <2> QED BY <2>1, <2>2
<1>2. Good(e)
  BY DEF EntriesGood, EachTables, EachGood
<1>3. Good([e EXCEPT !.stalls = @ + 1, !.missing = FALSE])
  <2>1. e.stalls + 1 \in Nat
    BY <1>2 DEF Good, Entry
  <2> QED BY <1>2, <2>1, StalledTyped DEF Good, Whole
<1>4. Good(Paged(e, FALSE, more))
  BY <1>1, <1>2, EmptyGood
<1>5. Good(n)
  BY <1>7, <1>2, <1>3, <1>4
<1>6. UNCHANGED manual
  BY DEF AnswerEmpty
<1> QED BY <1>7, <1>5, <1>6, AnswerGood

LEMMA AnswerErrorGood ==
    ASSUME EntriesGood, NEW p \in Processes, NEW h \in Tags, AnswerError(p, h)
    PROVE  EntriesGood'
<1>1. PICK e \in entries[p][h], unknown \in BOOLEAN :
          /\ Kept(p, h, AfterError(e, unknown))
          /\ Saved(p, h, AfterError(e, unknown)) \/ UNCHANGED <<stored, loaded>>
  <2>1. PICK e \in entries[p][h] :
            LET unknown == e.cursor = 0 /\ ~e.some /\ loaded[p][h].done = "never"
                n == AfterError(e, unknown) IN
            Kept(p, h, n) /\ IF unknown THEN Saved(p, h, n) ELSE UNCHANGED <<stored, loaded>>
    BY DEF AnswerError
  <2>2. CASE e.cursor = 0 /\ ~e.some /\ loaded[p][h].done = "never"
    BY <2>1, <2>2
  <2>3. CASE ~(e.cursor = 0 /\ ~e.some /\ loaded[p][h].done = "never")
    BY <2>1, <2>3
  <2> QED BY <2>2, <2>3
<1>2. Good(e)
  BY DEF EntriesGood, EachTables, EachGood
<1>3. Good(AfterError(e, unknown))
  BY <1>2 DEF AfterError, Good, Entry, Whole
<1>4. UNCHANGED manual
  BY DEF AnswerError
<1> QED BY <1>1, <1>3, <1>4, AnswerGood

LEMMA CrawlNowGood ==
    ASSUME EntriesGood, web \in Processes, NEW h \in Tags, CrawlNow(h)
    PROVE  EntriesGood'
<1>1. PICK e \in {stored[h], NewEntry} : manual' = [manual EXCEPT ![web][h] = {[e EXCEPT !.missing = FALSE]}]
  BY DEF CrawlNow, ResetPass
<1>2. Good(e)
  BY NewGood DEF EntriesGood, AllGood
<1>3. \A n \in {[e EXCEPT !.missing = FALSE]} : Good(n)
  BY <1>2 DEF Good, Entry, Whole
<1>4. EachTables(manual')
  BY <1>1, <1>3, EachTableGood DEF EntriesGood
<1>5. UNCHANGED <<stored, loaded, entries>>
  BY DEF CrawlNow, redisVars, tagVars
<1> QED BY <1>4, <1>5 DEF EntriesGood

\* A crawl by hand goes on from a page that the round would have ended at.
LEMMA HandGood ==
    ASSUME NEW e, Good(e), NEW videos \in BOOLEAN, NEW more \in BOOLEAN, more => e.cursor < LastPage,
           videos => more = (e.cursor < LastPage)
    PROVE  LET n == [Paged(e, videos, more) EXCEPT !.stalls = e.stalls, !.empty = e.empty] IN
           Good(IF more THEN [n EXCEPT !.cursor = e.cursor + 1, !.done = "never"] ELSE n)
<1> DEFINE q == Paged(e, videos, more)
           n == [q EXCEPT !.stalls = e.stalls, !.empty = e.empty]
           m == [n EXCEPT !.cursor = e.cursor + 1, !.done = "never"]
<1>1. Good(q)
  BY PageGood, EmptyGood
<1>2. more => q.had = e.had \cup {e.cursor} /\ q.blank = (e.blank \/ ~videos)
  <2> DEFINE c == Counted(e, videos)
  <2>1. c \in Entry /\ c.had = e.had \cup {e.cursor} /\ c.blank = (e.blank \/ ~videos)
    BY CountedIs
  <2>2. q = IF ~more \/ c.empty >= EmptyPages THEN Done(c) ELSE [c EXCEPT !.cursor = @ + 1]
    BY DEF Paged, Counted
  <2> HIDE DEF c, q
  <2>3. Done(c).had = c.had /\ Done(c).blank = c.blank
    BY <2>1, DoneTyped
  <2>4. [c EXCEPT !.cursor = @ + 1].had = c.had /\ [c EXCEPT !.cursor = @ + 1].blank = c.blank
    BY <2>1 DEF Entry
  <2> QED BY <2>1, <2>2, <2>3, <2>4
<1> HIDE DEF q
<1>3. Good(n) /\ n.had = q.had /\ n.blank = q.blank
  BY <1>1 DEF Good, Entry, Whole
<1> HIDE DEF n
<1>4. ASSUME more PROVE Good(m)
  <2>1. e.cursor \in Pages /\ e.cursor + 1 \in Pages
    BY <1>4, PagesAreNat DEF Good, Entry
  <2>2. m \in Entry /\ m.cursor = e.cursor + 1 /\ m.had = n.had /\ m.blank = n.blank /\ m.done = "never"
    BY <1>3, <2>1 DEF Good, Entry
  <2> HIDE DEF m
  <2>3. n.blank \/ \A p \in Pages : p < e.cursor + 1 => p \in n.had
    BY <1>2, <1>3, <1>4, <2>1, PagesAreNat DEF Good, Whole
  <2> QED BY <2>2, <2>3 DEF Good, Whole
<1>5. Good(IF more THEN m ELSE n)
  BY <1>3, <1>4
<1> QED BY <1>5 DEF m, n, q

LEMMA ManualPageGood ==
    ASSUME EntriesGood, web \in Processes, NEW h \in Tags, NEW videos \in BOOLEAN, ManualPage(h, videos)
    PROVE  EntriesGood'
<1>1. PICK e \in manual[web][h], more \in BOOLEAN :
          LET n == [Paged(e, videos, more) EXCEPT !.stalls = e.stalls, !.empty = e.empty]
              m == IF more THEN [n EXCEPT !.cursor = e.cursor + 1, !.done = "never"] ELSE n IN
          /\ more => e.cursor < LastPage
          /\ videos => more = (e.cursor < LastPage)
          /\ stored' = [stored EXCEPT ![h] = m]
          /\ manual' = [manual EXCEPT ![web][h] = IF more THEN {m} ELSE {}]
  BY DEF ManualPage
<1>2. Good(e)
  BY DEF EntriesGood, EachTables, EachGood
<1> DEFINE n == [Paged(e, videos, more) EXCEPT !.stalls = e.stalls, !.empty = e.empty]
           m == IF more THEN [n EXCEPT !.cursor = e.cursor + 1, !.done = "never"] ELSE n
           M == IF more THEN {m} ELSE {}
<1>3. Good(m)
  BY <1>1, <1>2, HandGood
<1>4. stored' = [stored EXCEPT ![h] = m] /\ manual' = [manual EXCEPT ![web][h] = M]
  BY <1>1
<1> HIDE DEF m
<1>5. AllGood(stored')
  BY <1>3, <1>4, PutGood DEF EntriesGood
<1>8. \A x \in M : Good(x)
  BY <1>3
<1> HIDE DEF M
<1>6. EachTables(manual')
  BY <1>8, <1>4, EachTableGood DEF EntriesGood
<1>7. UNCHANGED <<loaded, entries>>
  BY DEF ManualPage, ManualVars, tagVars
<1> QED BY <1>5, <1>6, <1>7 DEF EntriesGood

LEMMA ManualEndsGood ==
    ASSUME EntriesGood, web \in Processes, NEW h \in Tags, ManualEnds(h)
    PROVE  EntriesGood'
<1>1. PICK e \in manual[web][h], b \in BOOLEAN :
          stored' = [stored EXCEPT ![h] = [e EXCEPT !.missing = b]] \/ stored' = [stored EXCEPT ![h] = e]
  BY DEF ManualEnds
<1>2. Good(e)
  BY DEF EntriesGood, EachTables, EachGood
<1>3. Good([e EXCEPT !.missing = b])
  BY <1>2 DEF Good, Entry, Whole
<1>4. AllGood(stored')
  BY <1>1, <1>2, <1>3, PutGood DEF EntriesGood
<1>5. manual' = [manual EXCEPT ![web][h] = {}] /\ UNCHANGED <<loaded, entries>>
  BY DEF ManualEnds, ManualVars, tagVars
<1>7. \A x \in {} : Good(x)
  OBVIOUS
<1>6. EachTables(manual')
  BY <1>5, <1>7, EachTableGood DEF EntriesGood
<1> QED BY <1>4, <1>5, <1>6 DEF EntriesGood

\* done_at grows older, but is not forgotten.
LEMMA AgeGood ==
    ASSUME NEW e, Good(e), e.done # "never", NEW age \in {"settled", "due"}
    PROVE  Good([e EXCEPT !.done = age])
BY DEF Good, Entry, Whole

LEMMA GrowOlderGood ==
    ASSUME EntriesGood, NEW h \in Tags, GrowOlder(h)
    PROVE  EntriesGood'
<1>1. PICK age \in {"settled", "due"} :
          /\ stored' = [stored EXCEPT ![h].done = age]
          /\ loaded' = [p \in Processes |->
                          [loaded[p] EXCEPT ![h].done = IF loaded[p][h] = stored[h] THEN age ELSE @]]
  BY DEF GrowOlder, Older
<1>2. stored[h].done # "never"
  BY DEF GrowOlder
<1>3. AllGood(stored')
  <2>1. Good([stored[h] EXCEPT !.done = age])
    BY <1>2, AgeGood DEF EntriesGood, AllGood
  <2>2. stored' = [stored EXCEPT ![h] = [stored[h] EXCEPT !.done = age]]
    BY <1>1
  <2> QED BY <2>1, <2>2, PutGood DEF EntriesGood
<1>4. ASSUME NEW p \in Processes PROVE AllGood(loaded'[p])
  <2>0. AllGood(loaded[p]) /\ Good(loaded[p][h])
    BY DEF EntriesGood, AllTables, AllGood
  <2>1. CASE loaded[p][h] = stored[h]
    <3>1. Good([loaded[p][h] EXCEPT !.done = age])
      BY <1>2, <2>0, <2>1, AgeGood
    <3>2. loaded'[p] = [loaded[p] EXCEPT ![h] = [loaded[p][h] EXCEPT !.done = age]]
      BY <1>1, <2>1
    <3> QED BY <2>0, <3>1, <3>2, PutGood
  <2>2. CASE loaded[p][h] # stored[h]
    <3>1. Good([loaded[p][h] EXCEPT !.done = @])
      BY <2>0 DEF Good, Entry, Whole
    <3>2. loaded'[p] = [loaded[p] EXCEPT ![h] = [loaded[p][h] EXCEPT !.done = @]]
      BY <1>1, <2>2
    <3> QED BY <2>0, <3>1, <3>2, PutGood
  <2> QED BY <2>1, <2>2
<1>5. UNCHANGED <<entries, manual>>
  BY DEF GrowOlder, TimeVars
<1>6. AllTables(loaded')
  BY <1>1, <1>4 DEF AllTables
<1> QED BY <1>3, <1>5, <1>6 DEF EntriesGood

LEMMA MissingGood ==
    ASSUME EntriesGood, NEW h \in Tags, MissingEnds(h)
    PROVE  EntriesGood'
<1>1. \A e : Good(e) => Good([e EXCEPT !.missing = FALSE])
  BY DEF Good, Entry, Whole
<1>2. /\ stored' = [stored EXCEPT ![h] = [stored[h] EXCEPT !.missing = FALSE]]
      /\ loaded' = [p \in Processes |-> [loaded[p] EXCEPT ![h] = [loaded[p][h] EXCEPT !.missing = FALSE]]]
  BY DEF MissingEnds
<1>3. AllGood(stored')
  BY <1>1, <1>2, PutGood DEF EntriesGood, AllGood
<1>5. ASSUME NEW p \in Processes PROVE AllGood([loaded[p] EXCEPT ![h] = [loaded[p][h] EXCEPT !.missing = FALSE]])
  BY <1>1, PutGood DEF EntriesGood, AllTables, AllGood
<1>6. AllTables(loaded')
  BY <1>2, <1>5 DEF AllTables
<1>4. UNCHANGED <<entries, manual>>
  BY DEF MissingEnds, TimeVars
<1> QED BY <1>3, <1>4, <1>6 DEF EntriesGood

LEMMA OpenGood == ASSUME EntriesGood, NEW p \in Processes, Open(p) \/ OpenBlind(p) PROVE EntriesGood'
<1>1. loaded' = [loaded EXCEPT ![p] = stored] /\ UNCHANGED <<stored, entries, manual>>
  BY DEF Open, OpenBlind, Opened, redisVars
<1>2. AllTables(loaded')
  BY <1>1, TableGood DEF EntriesGood
<1> QED BY <1>1, <1>2 DEF EntriesGood

LEMMA RefreshGood ==
    ASSUME EntriesGood, NEW p \in Processes, NEW h \in Tags, RefreshInfo(p, h)
    PROVE  EntriesGood'
<1>0. Good(loaded[p][h])
  BY DEF EntriesGood, AllTables, AllGood
<1>1. AllGood(stored')
  BY <1>0, PutGood DEF RefreshInfo, EntriesGood
<1> QED BY <1>1 DEF RefreshInfo, EntriesGood, restVars

\* A round or the process ends.
LEMMA FinishGood ==
    ASSUME EntriesGood, NEW p \in Processes, OpenInVain(p) \/ Close(p) \/ Restart(p)
    PROVE  EntriesGood'
<1>1. /\ UNCHANGED stored /\ loaded' = [loaded EXCEPT ![p] = Fresh] /\ entries' = [entries EXCEPT ![p] = Nobody]
      /\ manual' = manual \/ manual' = [manual EXCEPT ![p] = Nobody]
  BY DEF OpenInVain, Close, Restart, Forgotten, redisVars, restVars
<1>2. AllTables(loaded')
  BY <1>1, NobodyGood, TableGood DEF EntriesGood
<1>3. EachTables(entries')
  BY <1>1, NobodyGood, EachTableGood DEF EntriesGood
<1>4. EachTables(manual')
  BY <1>1, NobodyGood, EachTableGood DEF EntriesGood
<1> QED BY <1>1, <1>2, <1>3, <1>4 DEF EntriesGood

LEMMA CommentsEndGood ==
    ASSUME EntriesGood, NEW p \in Processes, CommentsEnd(p)
    PROVE  EntriesGood'
<1>1. UNCHANGED <<stored, loaded, manual>> /\ (entries' = entries \/ entries' = [entries EXCEPT ![p] = Nobody])
  BY DEF CommentsEnd, PhaseVars, redisVars, restVars
<1>2. EachTables(entries')
  BY <1>1, NobodyGood, EachTableGood DEF EntriesGood
<1> QED BY <1>1, <1>2 DEF EntriesGood

\* The steps that put no entry.
LEMMA OthersGood ==
    ASSUME EntriesGood,
           \/ TickStep \/ TickFails \/ RunNow \/ RequestStop \/ RequestBeside \/ NewDay \/ PauseOver \/ NewHour
           \/ \E p \in Processes :
               \/ DeepEnds(p) \/ FreshEnds(p) \/ InfoEnds(p) \/ \E s \in Sides : SideRequest(p, s)
               \/ \E h \in Tags : LeaveToHand(p, h) \/ AnswerStop(p, h)
    PROVE  EntriesGood'
<1>1. UNCHANGED <<stored, loaded, entries, manual>>
  <2>1. CASE TickStep \/ TickFails \/ RunNow \/ RequestStop \/ RequestBeside
    BY <2>1 DEF TickStep, Tick, TickSpawns, TickFails, RunNow, RequestStop, RequestBeside, redisVars, tagVars, restVars
  <2>3. ASSUME NEW p \in Processes, DeepEnds(p) \/ FreshEnds(p) \/ InfoEnds(p)
        PROVE  UNCHANGED <<stored, loaded, entries, manual>>
    BY <2>3 DEF DeepEnds, FreshEnds, InfoEnds, PhaseVars, redisVars, tagVars, restVars
  <2>4. CASE NewDay \/ PauseOver \/ NewHour
    BY <2>4 DEF NewDay, PauseOver, NewHour, TimeVars
  <2>5. ASSUME NEW p \in Processes, NEW s \in Sides, SideRequest(p, s)
        PROVE  UNCHANGED <<stored, loaded, entries, manual>>
    BY <2>5 DEF SideRequest, redisVars, tagVars, restVars
  <2>6. ASSUME NEW p \in Processes, NEW h \in Tags, LeaveToHand(p, h) \/ AnswerStop(p, h)
        PROVE  UNCHANGED <<stored, loaded, entries, manual>>
    BY <2>6 DEF LeaveToHand, AnswerStop, redisVars, restVars
  <2> QED BY <2>1, <2>3, <2>4, <2>5, <2>6
<1> QED BY <1>1 DEF EntriesGood

LEMMA EntriesStutter == EntriesGood /\ UNCHANGED roundVars => EntriesGood'
BY DEF EntriesGood, roundVars, redisVars, tagVars, restVars

\* One process serves the buttons, always the same.
WebIs == web \in Processes

LEMMA WebSame == [OmarRoundNext]_roundVars => web' = web
<1> SUFFICES ASSUME [OmarRoundNext]_roundVars PROVE web' = web
  OBVIOUS
<1>1. CASE \/ TickStep \/ TickFails \/ RunNow \/ RequestStop \/ RequestBeside \/ NewDay \/ PauseOver \/ NewHour
  BY <1>1 DEF TickStep, Tick, TickSpawns, TickFails, RunNow, RequestStop, RequestBeside, redisVars,
              NewDay, PauseOver, NewHour, TimeVars
<1>2. ASSUME NEW p \in Processes,
             \/ Open(p) \/ OpenBlind(p) \/ OpenInVain(p) \/ DeepEnds(p) \/ CommentsEnd(p) \/ FreshEnds(p)
             \/ InfoEnds(p) \/ Close(p) \/ Restart(p) \/ \E s \in Sides : SideRequest(p, s)
      PROVE  web' = web
  BY <1>2 DEF Open, OpenBlind, Opened, OpenInVain, DeepEnds, CommentsEnd, FreshEnds, InfoEnds, Close, Restart,
              SideRequest, PhaseVars, redisVars
<1>3. ASSUME NEW p \in Processes, NEW h \in Tags,
             \/ Ask(p, h) \/ LeaveToHand(p, h) \/ AnswerPage(p, h) \/ AnswerStop(p, h) \/ RefreshInfo(p, h)
             \/ AnswerError(p, h) \/ \E more \in BOOLEAN : AnswerEmpty(p, h, more)
      PROVE  web' = web
  BY <1>3 DEF Ask, LeaveToHand, AnswerPage, AnswerStop, RefreshInfo, AnswerError, AnswerEmpty, AnsweredVars, redisVars
<1>4. ASSUME NEW h \in Tags,
             \/ CrawlNow(h) \/ ManualEnds(h) \/ GrowOlder(h) \/ MissingEnds(h)
             \/ \E videos \in BOOLEAN : ManualPage(h, videos)
      PROVE  web' = web
  BY <1>4 DEF CrawlNow, ManualEnds, GrowOlder, MissingEnds, ManualPage, ManualVars, TimeVars, redisVars
<1>5. CASE UNCHANGED roundVars
  BY <1>5 DEF roundVars, redisVars
<1> QED BY <1>1, <1>2, <1>3, <1>4, <1>5 DEF OmarRoundNext, RoundStep

LEMMA WebStays == WebIs /\ [OmarRoundNext]_roundVars => WebIs'
BY WebSame DEF WebIs

LEMMA EntriesNext == EntriesGood /\ WebIs /\ OmarRoundNext => EntriesGood'
<1> SUFFICES ASSUME EntriesGood, web \in Processes, OmarRoundNext PROVE EntriesGood'
  BY DEF WebIs
<1>1. ASSUME NEW p \in Processes, RoundStep(p) \/ OpenBlind(p) \/ Restart(p) PROVE EntriesGood'
  <2>1. CASE Open(p) \/ OpenBlind(p)
    BY <2>1, OpenGood
  <2>2. CASE OpenInVain(p) \/ Close(p) \/ Restart(p)
    BY <2>2, FinishGood
  <2>3. CASE DeepEnds(p) \/ CommentsEnd(p) \/ FreshEnds(p) \/ InfoEnds(p)
    BY <2>3, OthersGood, CommentsEndGood
  <2>4. ASSUME NEW h \in Tags,
               Ask(p, h) \/ LeaveToHand(p, h) \/ AnswerPage(p, h) \/ AnswerStop(p, h) \/ RefreshInfo(p, h)
        PROVE  EntriesGood'
    BY <2>4, AskGood, OthersGood, AnswerPageGood, RefreshGood
  <2> QED BY <1>1, <2>1, <2>2, <2>3, <2>4 DEF RoundStep
<1>2. ASSUME NEW p \in Processes, NEW h \in Tags, AnswerError(p, h) \/ \E more \in BOOLEAN : AnswerEmpty(p, h, more)
      PROVE  EntriesGood'
  BY <1>2, AnswerErrorGood, AnswerEmptyGood
<1>3. ASSUME NEW h \in Tags,
             \/ CrawlNow(h) \/ ManualEnds(h) \/ GrowOlder(h) \/ MissingEnds(h)
             \/ \E videos \in BOOLEAN : ManualPage(h, videos)
      PROVE  EntriesGood'
  BY <1>3, CrawlNowGood, ManualEndsGood, GrowOlderGood, MissingGood, ManualPageGood
<1>4. CASE \/ TickStep \/ TickFails \/ RunNow \/ RequestStop \/ RequestBeside \/ NewDay \/ PauseOver \/ NewHour
           \/ \E p \in Processes, s \in Sides : SideRequest(p, s)
  BY <1>4, OthersGood
<1> QED BY <1>1, <1>2, <1>3, <1>4 DEF OmarRoundNext

(* Redis calls a hashtag finished only when each of its pages was answered *)
(* in the pass that finished it, or that pass had an empty page: over      *)
(* rounds cut short, errors, restarts, crawls by hand beside a round, and  *)
(* rounds of several processes that write the same entries.                *)
THEOREM FinishedIsWhole == OmarRoundSpec => []DoneIsWhole
<1>1. EntriesGood => DoneIsWhole
  BY DEF EntriesGood, AllGood, Good, Entry, Whole, DoneIsWhole
<1>2. OmarRoundInit => EntriesGood /\ WebIs
  BY EntriesInit DEF OmarRoundInit, WebIs
<1>3. EntriesGood /\ WebIs /\ [OmarRoundNext]_roundVars => (EntriesGood /\ WebIs)'
  BY EntriesNext, EntriesStutter, WebStays
<1> QED BY <1>1, <1>2, <1>3, PTL DEF OmarRoundSpec

------------------------------------------------------------------------------
(* The budget.  With l the limit of a planned round, s what it has taken   *)
(* of it, c its requests under way, q the quota of the day and b what has  *)
(* gone beyond the plans: what the round may still ask and what it is      *)
(* waiting for leaves the reserve.  One round at most is planned.          *)

Sums(l, s, c, q, b) ==
    /\ l \in Nat /\ s \in Nat /\ c \in Nat /\ q \in Nat /\ b \in Nat
    /\ c <= s /\ s <= l /\ l + Reserve <= DayQuota /\ q <= DayQuota
    /\ Reserve + l + c <= q + b + s

LEMMA ReserveIs == Reserve \in Nat /\ DayQuota \in Nat /\ Reserve <= DayQuota
BY OmarRoundAssumption

LEMMA SumsStep ==
    ASSUME NEW l, NEW s, NEW c, NEW q, NEW b, Sums(l, s, c, q, b)
    PROVE  /\ s < l => Sums(l, s + 1, c + 1, q, b) /\ Sums(l, s + 1, c, q, b)
           /\ s < l /\ q > 0 => Sums(l, s + 1, c, q - 1, b)
           /\ c > 0 => Sums(l, s, c - 1, q, b)
           /\ c > 0 /\ q > 0 => Sums(l, s, c - 1, q - 1, b)
           /\ q > 0 => Sums(l, s, c, q - 1, b + 1)
           /\ Sums(l, s, c, DayQuota, 0)
           /\ Sums(0, 0, 0, q, b)
           /\ q + b >= Reserve
BY ReserveIs DEF Sums

LEMMA SumsOpen ==
    ASSUME NEW q, NEW b, Sums(0, 0, 0, q, b), Spendable(q) > 0
    PROVE  Sums(Spendable(q), 0, 0, q, b)
BY ReserveIs DEF Sums, Spendable

Early       == {"none", "claimed", "opening"}
RoundFields == {"at", "planned", "limit", "spent", "used", "halted", "again"}

\* A round, the hashtags it asks for, and whether its process says that it runs.
Sound(r, A, on) ==
    /\ IsFiniteSet(A) /\ DOMAIN r = RoundFields
    /\ r.limit \in Nat /\ r.spent \in Nat /\ r.planned \in BOOLEAN
    /\ r.at \in Early => r.spent = 0 /\ A = {} /\ ~r.planned
    /\ on \/ r.at = "none"

PlanKept(r, A, q, b) == r.planned => Sums(r.limit, r.spent, Cardinality(A), q, b)

BudgetKept ==
    /\ Sums(0, 0, 0, quota, beyond)
    /\ DOMAIN round = Processes /\ DOMAIN asking = Processes /\ DOMAIN running = Processes
    /\ \A p \in Processes :
        /\ Sound(round[p], asking[p], running[p])
        /\ PlanKept(round[p], asking[p], quota, beyond)
    /\ \A p, q \in Processes : round[p].planned /\ round[q].planned => p = q

LEMMA NoRoundSound ==
    /\ \A on \in BOOLEAN : Sound(NoRound, {}, on) /\ ~NoRound.planned
    /\ \A place \in Early :
        Sound([NoRound EXCEPT !.at = place], {}, TRUE) /\ ~[NoRound EXCEPT !.at = place].planned
BY FS_EmptySet DEF Sound, NoRound, RoundFields, Early

LEMMA BudgetInit == OmarRoundInit => BudgetKept
<1> SUFFICES ASSUME OmarRoundInit PROVE BudgetKept
  OBVIOUS
<1>1. Sums(0, 0, 0, quota, beyond)
  BY ReserveIs DEF OmarRoundInit, Sums
<1>2. Sound(NoRound, {}, FALSE) /\ ~NoRound.planned
  BY NoRoundSound
<1>3. /\ DOMAIN round = Processes /\ DOMAIN asking = Processes /\ DOMAIN running = Processes
      /\ \A p \in Processes : round[p] = NoRound /\ asking[p] = {} /\ running[p] = FALSE
  BY DEF OmarRoundInit, Each
<1>4. \A p \in Processes : Sound(round[p], asking[p], running[p]) /\ ~round[p].planned
  BY <1>2, <1>3
<1> QED BY <1>1, <1>3, <1>4 DEF BudgetKept, PlanKept

\* The other processes stay as they are.
Elsewhere(p) ==
    /\ DOMAIN round' = Processes /\ DOMAIN asking' = Processes /\ DOMAIN running' = Processes
    /\ \A q \in Processes \ {p} : round'[q] = round[q] /\ asking'[q] = asking[q] /\ running'[q] = running[q]

LEMMA StepKept ==
    ASSUME BudgetKept, NEW p \in Processes, Elsewhere(p), Sums(0, 0, 0, quota', beyond'),
           Sound(round'[p], asking'[p], running'[p]),
           round'[p].planned => round[p].planned \/ \A q \in Processes : ~round[q].planned,
           PlanKept(round'[p], asking'[p], quota', beyond'),
           \A q \in Processes \ {p} : PlanKept(round[q], asking[q], quota', beyond')
    PROVE  BudgetKept'
<1>1. \A q \in Processes :
        /\ Sound(round'[q], asking'[q], running'[q])
        /\ PlanKept(round'[q], asking'[q], quota', beyond')
  BY DEF BudgetKept, Elsewhere
<1>2. ASSUME NEW a \in Processes, NEW b \in Processes, round'[a].planned, round'[b].planned PROVE a = b
  <2>1. CASE a = p
    BY <1>2, <2>1 DEF BudgetKept, Elsewhere
  <2>2. CASE b = p
    BY <1>2, <2>2 DEF BudgetKept, Elsewhere
  <2>3. CASE a # p /\ b # p
    BY <1>2, <2>3 DEF BudgetKept, Elsewhere
  <2> QED BY <2>1, <2>2, <2>3
<1> QED BY <1>1, <1>2 DEF BudgetKept, Elsewhere

\* No request is answered.
LEMMA UnpaidKept ==
    ASSUME BudgetKept, NEW p \in Processes, Elsewhere(p), UNCHANGED <<quota, beyond>>,
           Sound(round'[p], asking'[p], running'[p]),
           round'[p].planned => round[p].planned \/ \A q \in Processes : ~round[q].planned,
           PlanKept(round'[p], asking'[p], quota, beyond)
    PROVE  BudgetKept'
BY StepKept DEF BudgetKept

\* A request of the round of p is answered: the round has taken it before, or takes it now.
LEMMA PaidKept ==
    ASSUME BudgetKept, NEW p \in Processes, Elsewhere(p), Paid(p),
           Sound(round'[p], asking'[p], running'[p]),
           round'[p].planned = round[p].planned, round'[p].limit = round[p].limit,
           \/ /\ round'[p].spent = round[p].spent + 1 /\ round[p].spent < round[p].limit
              /\ asking'[p] = asking[p]
           \/ /\ round'[p].spent = round[p].spent
              /\ Cardinality(asking'[p]) = Cardinality(asking[p]) - 1 /\ Cardinality(asking[p]) > 0
    PROVE  BudgetKept'
<1>1. CASE round[p].planned
  <2>1. quota' = quota - 1 /\ beyond' = beyond /\ quota > 0
    BY <1>1 DEF Paid
  <2>2. Sums(round[p].limit, round[p].spent, Cardinality(asking[p]), quota, beyond)
    BY <1>1 DEF BudgetKept, PlanKept
  <2>3. Sums(round'[p].limit, round'[p].spent, Cardinality(asking'[p]), quota - 1, beyond)
    BY <2>1, <2>2, SumsStep
  <2>4. \A q \in Processes \ {p} : ~round[q].planned
    BY <1>1 DEF BudgetKept
  <2>5. Sums(0, 0, 0, quota', beyond')
    BY <2>1, <2>3, SumsStep
  <2>6. PlanKept(round'[p], asking'[p], quota', beyond') /\ \A q \in Processes \ {p} : PlanKept(round[q], asking[q], quota', beyond')
    BY <2>1, <2>3, <2>4 DEF PlanKept
  <2> QED BY <2>5, <2>6, StepKept
<1>2. CASE ~round[p].planned
  <2>1. quota' = quota - 1 /\ beyond' = beyond + 1 /\ quota > 0
    BY <1>2 DEF Paid
  <2>2. Sums(0, 0, 0, quota', beyond')
    BY <2>1, SumsStep DEF BudgetKept
  <2>3. \A q \in Processes \ {p} : PlanKept(round[q], asking[q], quota', beyond')
    BY <2>1, SumsStep DEF BudgetKept, PlanKept
  <2>4. PlanKept(round'[p], asking'[p], quota', beyond')
    BY <1>2 DEF PlanKept
  <2> QED BY <1>2, <2>2, <2>3, <2>4, StepKept
<1>3. round[p].planned \in BOOLEAN
  BY DEF BudgetKept, Sound
<1> QED BY <1>1, <1>2, <1>3

\* A request that no budget counts.
LEMMA BesideKept ==
    ASSUME BudgetKept, quota > 0, quota' = quota - 1, beyond' = beyond + 1, UNCHANGED <<round, asking, running>>
    PROVE  BudgetKept'
<1>1. Sums(0, 0, 0, quota', beyond')
  BY SumsStep DEF BudgetKept
<1>2. \A p \in Processes : PlanKept(round[p], asking[p], quota', beyond')
  BY SumsStep DEF BudgetKept, PlanKept
<1> QED BY <1>1, <1>2 DEF BudgetKept

\* The round only changes its place, or why it halts.
Moved(r, n) ==
    /\ DOMAIN n = DOMAIN r /\ n.limit = r.limit /\ n.spent = r.spent /\ n.planned = r.planned
    /\ n.at \in Early => r.at \in Early

LEMMA MovesKept ==
    ASSUME BudgetKept, NEW p \in Processes, UNCHANGED <<asking, quota, beyond, running>>, NEW n,
           round' = [round EXCEPT ![p] = n], Moved(round[p], n), running[p] \/ n.at = "none"
    PROVE  BudgetKept'
<1>1. Elsewhere(p) /\ round'[p] = n
  BY DEF Elsewhere, BudgetKept
<1>2. Sound(n, asking[p], running[p]) /\ PlanKept(n, asking[p], quota, beyond)
  BY DEF BudgetKept, Sound, Moved, PlanKept
<1> QED BY <1>1, <1>2, UnpaidKept DEF Moved

LEMMA BlankKept ==
    ASSUME BudgetKept, NEW p \in Processes, Elsewhere(p), UNCHANGED <<quota, beyond>>, NEW n,
           round'[p] = n, asking'[p] = {}, Sound(n, {}, running'[p]), ~n.planned
    PROVE  BudgetKept'
<1>1. PlanKept(n, {}, quota, beyond)
  BY DEF PlanKept
<1> QED BY <1>1, UnpaidKept

\* Before a round is open nothing is asked for.
LEMMA EarlyIsQuiet ==
    ASSUME BudgetKept, NEW p \in Processes, round[p].at \in Early
    PROVE  asking[p] = {} /\ round[p].spent = 0 /\ ~round[p].planned
BY DEF BudgetKept, Sound

LEMMA SchedulerIs == Scheduler \in Processes
BY OmarRoundAssumption

LEMMA ClaimKept ==
    ASSUME BudgetKept, NEW p \in Processes, ~running[p], NEW place \in Early, Claimed(p, place),
           UNCHANGED <<asking, quota, beyond>>
    PROVE  BudgetKept'
<1>1. round[p].at \in Early
  BY DEF BudgetKept, Sound, Early
<1>2. asking'[p] = {}
  BY <1>1, EarlyIsQuiet
<1> DEFINE n == [NoRound EXCEPT !.at = place]
<1>3. Sound(n, {}, TRUE) /\ ~n.planned
  BY NoRoundSound
<1>4. round' = [round EXCEPT ![p] = n] /\ running' = [running EXCEPT ![p] = TRUE]
  BY DEF Claimed
<1> HIDE DEF n
<1>5. Elsewhere(p) /\ round'[p] = n /\ running'[p] = TRUE
  BY <1>4 DEF Elsewhere, BudgetKept
<1> QED BY <1>2, <1>3, <1>5, BlankKept

LEMMA TickKept ==
    ASSUME BudgetKept, WebIs, TickStep \/ TickFails \/ RunNow \/ RequestStop \/ RequestBeside
    PROVE  BudgetKept'
<1>1. CASE Tick
  BY <1>1, ClaimKept, SchedulerIs DEF Tick, planVars, tagVars, Early
<1>2. CASE TickSpawns
  <2> DEFINE n == [round[Scheduler] EXCEPT !.at = "opening"]
  <2>1. round' = [round EXCEPT ![Scheduler] = n] /\ UNCHANGED <<asking, quota, beyond, running>>
    BY <1>2 DEF TickSpawns, At, planVars, tagVars
  <2>2. Moved(round[Scheduler], n) /\ running[Scheduler]
    BY <1>2, SchedulerIs DEF TickSpawns, BudgetKept, Sound, Moved, RoundFields, Early
  <2> HIDE DEF n
  <2> QED BY <2>1, <2>2, MovesKept, SchedulerIs
<1>3. CASE TickFails
  <2>1. round' = [round EXCEPT ![Scheduler] = NoRound] /\ UNCHANGED <<asking, running, quota, beyond>>
    BY <1>3 DEF TickFails, planVars, tagVars
  <2>2. asking[Scheduler] = {} /\ running[Scheduler]
    BY <1>3, EarlyIsQuiet, SchedulerIs DEF TickFails, Early, BudgetKept, Sound
  <2>3. Elsewhere(Scheduler) /\ round'[Scheduler] = NoRound /\ asking'[Scheduler] = {}
    BY <2>1, <2>2, SchedulerIs DEF Elsewhere, BudgetKept
  <2>4. Sound(NoRound, {}, running'[Scheduler]) /\ ~NoRound.planned
    BY FS_EmptySet, <2>1, <2>2 DEF Sound, NoRound, RoundFields, Early
  <2> QED BY <2>1, <2>3, <2>4, BlankKept, SchedulerIs
<1>4. CASE RunNow
  <2>1. CASE running[web]
    <3>1. UNCHANGED <<round, asking, running, quota, beyond>>
      BY <1>4, <2>1 DEF RunNow, planVars, tagVars
    <3> QED BY <3>1 DEF BudgetKept
  <2>2. CASE ~running[web]
    BY <1>4, <2>2, ClaimKept DEF RunNow, planVars, tagVars, WebIs, Early
  <2> QED BY <2>1, <2>2
<1>5. CASE RequestStop
  <2>1. UNCHANGED <<round, asking, running, quota, beyond>>
    BY <1>5 DEF RequestStop, planVars, tagVars
  <2> QED BY <2>1 DEF BudgetKept
<1>6. CASE RequestBeside
  BY <1>6, BesideKept DEF RequestBeside, tagVars
<1> QED BY <1>1, <1>2, <1>3, <1>4, <1>5, <1>6 DEF TickStep

\* The end of a round, of its opening or of the process.
LEMMA EndKept ==
    ASSUME BudgetKept, NEW p \in Processes, OpenInVain(p) \/ Close(p) \/ Restart(p)
    PROVE  BudgetKept'
<1>1. /\ round' = [round EXCEPT ![p] = NoRound] /\ asking' = [asking EXCEPT ![p] = {}]
      /\ running' = [running EXCEPT ![p] = FALSE] /\ UNCHANGED <<quota, beyond>>
  BY DEF OpenInVain, Close, Restart, Forgotten, planVars
<1>2. Elsewhere(p) /\ round'[p] = NoRound /\ asking'[p] = {} /\ running'[p] = FALSE
  BY <1>1 DEF Elsewhere, BudgetKept
<1> QED BY <1>1, <1>2, NoRoundSound, BlankKept

LEMMA OpenedKept ==
    ASSUME BudgetKept, NEW p \in Processes, round[p].at = "opening", NEW limit \in Nat, NEW known \in BOOLEAN,
           Opened(p, limit, known), known => limit = Spendable(quota) /\ limit > 0
    PROVE  BudgetKept'
<1>1. asking[p] = {} /\ round[p].spent = 0 /\ running[p] /\ DOMAIN round[p] = RoundFields
  BY EarlyIsQuiet DEF BudgetKept, Sound, Early
<1>3. UNCHANGED <<asking, quota, beyond, running>>
  BY DEF Opened, planVars
<1> DEFINE plan  == known /\ \A q \in Processes : ~round[q].planned
           again == {h \in Tags : ~stored[h].missing /\ stored[h].done = "settled"}
           n     == [round[p] EXCEPT !.at = "deep", !.limit = limit, !.planned = plan, !.again = again]
<1>4. round' = [round EXCEPT ![p] = n] /\ plan \in BOOLEAN
  BY DEF Opened
<1>7. plan => known /\ \A q \in Processes : ~round[q].planned
  OBVIOUS
<1> HIDE DEF plan, again
<1>5. DOMAIN n = RoundFields /\ n.at = "deep" /\ n.limit = limit /\ n.spent = 0 /\ n.planned = plan
  BY <1>1 DEF RoundFields
<1> HIDE DEF n
<1>8. Elsewhere(p) /\ round'[p] = n /\ asking'[p] = {} /\ running'[p]
  BY <1>1, <1>3, <1>4 DEF Elsewhere, BudgetKept
<1>9. Sound(n, {}, running'[p])
  BY <1>4, <1>5, <1>8, FS_EmptySet DEF Sound, Early
<1>10. PlanKept(n, {}, quota, beyond)
  <2>1. Cardinality({}) = 0
    BY FS_EmptySet
  <2>2. plan => Sums(limit, 0, 0, quota, beyond)
    BY <1>7, SumsOpen DEF BudgetKept
  <2> QED BY <1>5, <2>1, <2>2 DEF PlanKept
<1> QED BY <1>3, <1>5, <1>7, <1>8, <1>9, <1>10, UnpaidKept

LEMMA OpenKept == ASSUME BudgetKept, NEW p \in Processes, Open(p) \/ OpenBlind(p) PROVE BudgetKept'
<1>1. CASE Open(p)
  <2>1. Spendable(quota) \in Nat
    BY ReserveIs DEF Spendable, BudgetKept, Sums
  <2> QED BY <1>1, <2>1, OpenedKept DEF Open
<1>2. CASE OpenBlind(p)
  <2>1. Fallback \in Nat
    BY OmarRoundAssumption
  <2> QED BY <1>2, <2>1, OpenedKept DEF OpenBlind
<1> QED BY <1>1, <1>2

LEMMA PhasesKept ==
    ASSUME BudgetKept, NEW p \in Processes, DeepEnds(p) \/ CommentsEnd(p) \/ FreshEnds(p) \/ InfoEnds(p)
    PROVE  BudgetKept'
<1>0. UNCHANGED <<asking, quota, beyond, running>> /\ round[p].at \in {"deep", "comments", "fresh", "info"}
  BY DEF DeepEnds, CommentsEnd, FreshEnds, InfoEnds, PhaseVars, planVars, tagVars
<1>1. PICK place \in {"comments", "fresh", "info", "closing"} :
          \/ round' = [round EXCEPT ![p] = [round[p] EXCEPT !.at = place]]
          \/ \E why : round' = [round EXCEPT ![p] = [round[p] EXCEPT !.at = place, !.halted = why]]
  BY DEF DeepEnds, CommentsEnd, FreshEnds, InfoEnds, Then, At
<1>2. DOMAIN round[p] = RoundFields /\ running[p]
  BY <1>0 DEF BudgetKept, Sound
<1>3. /\ Moved(round[p], [round[p] EXCEPT !.at = place]) /\ [round[p] EXCEPT !.at = place].at = place
      /\ \A why : /\ Moved(round[p], [round[p] EXCEPT !.at = place, !.halted = why])
                  /\ [round[p] EXCEPT !.at = place, !.halted = why].at = place
  BY <1>2 DEF Moved, Early, RoundFields
<1>4. PICK n : round' = [round EXCEPT ![p] = n] /\ Moved(round[p], n)
  BY <1>1, <1>3
<1> QED BY <1>0, <1>2, <1>4, MovesKept

\* A request is taken from the budget.
LEMMA TakenIs ==
    ASSUME NEW r, DOMAIN r = RoundFields
    PROVE  /\ DOMAIN Taken(r) = RoundFields /\ Taken(r).limit = r.limit /\ Taken(r).spent = r.spent + 1
           /\ Taken(r).planned = r.planned /\ Taken(r).at = r.at
           /\ \A s : /\ DOMAIN TakenForSide(r, s) = RoundFields /\ TakenForSide(r, s).limit = r.limit
                     /\ TakenForSide(r, s).spent = r.spent + 1 /\ TakenForSide(r, s).planned = r.planned
                     /\ TakenForSide(r, s).at = r.at
BY DEF Taken, TakenForSide, RoundFields

LEMMA SpentIs ==
    ASSUME BudgetKept, NEW p \in Processes, ~Exhausted(p)
    PROVE  round[p].spent < round[p].limit /\ round[p].spent + 1 \in Nat /\ DOMAIN round[p] = RoundFields
BY DEF Exhausted, BudgetKept, Sound

LEMMA SideKept ==
    ASSUME BudgetKept, NEW p \in Processes, NEW s \in Sides, SideRequest(p, s)
    PROVE  BudgetKept'
<1> DEFINE t == TakenForSide(round[p], s)
<1>0. round[p].spent < round[p].limit /\ round[p].spent + 1 \in Nat /\ DOMAIN round[p] = RoundFields
  BY SpentIs DEF SideRequest
<1>1. DOMAIN t = RoundFields /\ t.limit = round[p].limit /\ t.spent = round[p].spent + 1
      /\ t.planned = round[p].planned /\ t.at = round[p].at
  BY <1>0, TakenIs
<1>2. UNCHANGED <<asking, running>> /\ ~(round[p].at \in Early)
  BY DEF SideRequest, tagVars, Early
<1>3. \/ Paid(p) /\ round' = [round EXCEPT ![p] = t]
      \/ UNCHANGED <<quota, beyond>> /\ round' = [round EXCEPT ![p] = [t EXCEPT !.halted = "daily"]]
  BY DEF SideRequest, planVars
<1> HIDE DEF t
<1>4. PICK n : /\ round' = [round EXCEPT ![p] = n] /\ (Paid(p) \/ UNCHANGED <<quota, beyond>>)
               /\ DOMAIN n = RoundFields /\ n.limit = round[p].limit /\ n.spent = round[p].spent + 1
               /\ n.planned = round[p].planned /\ n.at = round[p].at
  <2>1. DOMAIN [t EXCEPT !.halted = "daily"] = RoundFields /\ [t EXCEPT !.halted = "daily"].limit = t.limit
        /\ [t EXCEPT !.halted = "daily"].spent = t.spent /\ [t EXCEPT !.halted = "daily"].planned = t.planned
        /\ [t EXCEPT !.halted = "daily"].at = t.at
    BY <1>1 DEF RoundFields
  <2> QED BY <1>1, <1>3, <2>1
<1>5. Elsewhere(p) /\ round'[p] = n /\ asking'[p] = asking[p] /\ running'[p] = running[p]
  BY <1>2, <1>4 DEF Elsewhere, BudgetKept
<1>6. Sound(n, asking[p], running[p])
  BY <1>0, <1>2, <1>4 DEF BudgetKept, Sound
<1>7. CASE Paid(p)
  BY <1>0, <1>4, <1>5, <1>6, <1>7, PaidKept
<1>8. CASE UNCHANGED <<quota, beyond>>
  <2>1. PlanKept(n, asking[p], quota, beyond)
    BY <1>0, <1>4, SumsStep DEF PlanKept, BudgetKept
  <2> QED BY <1>4, <1>5, <1>6, <1>8, <2>1, UnpaidKept
<1> QED BY <1>4, <1>7, <1>8

LEMMA AskKept ==
    ASSUME BudgetKept, NEW p \in Processes, NEW h \in Tags, Ask(p, h)
    PROVE  BudgetKept'
<1> DEFINE n == Taken(round[p])
           A == asking[p] \cup {h}
<1>0. round[p].spent < round[p].limit /\ round[p].spent + 1 \in Nat /\ DOMAIN round[p] = RoundFields
  BY SpentIs DEF Ask
<1>1. DOMAIN n = RoundFields /\ n.limit = round[p].limit /\ n.spent = round[p].spent + 1
      /\ n.planned = round[p].planned /\ n.at = round[p].at
  BY <1>0, TakenIs
<1>2. /\ round' = [round EXCEPT ![p] = n] /\ asking' = [asking EXCEPT ![p] = A] /\ h \notin asking[p]
      /\ UNCHANGED <<quota, beyond, running>> /\ ~(round[p].at \in Early)
  BY DEF Ask, planVars, Early, Looping
<1>3. IsFiniteSet(A) /\ Cardinality(A) = Cardinality(asking[p]) + 1
  BY <1>2, FS_AddElement DEF BudgetKept, Sound
<1> HIDE DEF n, A
<1>4. Elsewhere(p) /\ round'[p] = n /\ asking'[p] = A /\ running'[p] = running[p]
  BY <1>2 DEF Elsewhere, BudgetKept
<1>5. Sound(n, A, running[p])
  BY <1>0, <1>1, <1>2, <1>3 DEF BudgetKept, Sound
<1>6. PlanKept(n, A, quota, beyond)
  <2>1. ASSUME round[p].planned
        PROVE  Sums(round[p].limit, round[p].spent + 1, Cardinality(asking[p]) + 1, quota, beyond)
    <3>1. Sums(round[p].limit, round[p].spent, Cardinality(asking[p]), quota, beyond)
      BY <2>1 DEF PlanKept, BudgetKept
    <3> QED BY <1>0, <3>1, SumsStep
  <2> QED BY <1>1, <1>3, <2>1 DEF PlanKept
<1> QED BY <1>1, <1>2, <1>4, <1>5, <1>6, UnpaidKept

\* One hashtag less is asked for.
LEMMA FewerAsked ==
    ASSUME BudgetKept, NEW p \in Processes, NEW h \in asking[p]
    PROVE  /\ IsFiniteSet(asking[p] \ {h}) /\ Cardinality(asking[p] \ {h}) = Cardinality(asking[p]) - 1
           /\ Cardinality(asking[p]) > 0
<1>1. IsFiniteSet(asking[p])
  BY DEF BudgetKept, Sound
<1>2. IsFiniteSet(asking[p] \ {h}) /\ Cardinality(asking[p] \ {h}) = Cardinality(asking[p]) - 1
  BY <1>1, FS_RemoveElement
<1>3. Cardinality(asking[p] \ {h}) \in Nat /\ Cardinality(asking[p]) \in Nat
  BY <1>1, <1>2, FS_CardinalityType
<1> QED BY <1>2, <1>3

LEMMA AnswerKept ==
    ASSUME BudgetKept, NEW p \in Processes, NEW h \in Tags,
           \/ AnswerPage(p, h) \/ AnswerError(p, h) \/ AnswerStop(p, h)
           \/ \E more \in BOOLEAN : AnswerEmpty(p, h, more)
    PROVE  BudgetKept'
<1> DEFINE A == asking[p] \ {h}
<1>1. /\ h \in asking[p] /\ asking' = [asking EXCEPT ![p] = A] /\ UNCHANGED running
      /\ Paid(p) \/ UNCHANGED <<quota, beyond>>
  BY DEF AnswerPage, AnswerError, AnswerStop, AnswerEmpty, Kept, AnsweredVars, planVars
<1>2. /\ DOMAIN round' = Processes /\ \A q \in Processes \ {p} : round'[q] = round[q]
      /\ round'[p] = round[p] \/ \E why : round'[p] = [round[p] EXCEPT !.halted = why]
  BY DEF AnswerPage, AnswerError, AnswerStop, AnswerEmpty, BudgetKept
<1>3. DOMAIN round[p] = RoundFields /\ ~(round[p].at \in Early)
  BY <1>1 DEF BudgetKept, Sound
<1> DEFINE n == round'[p]
<1>4. DOMAIN n = RoundFields /\ n.limit = round[p].limit /\ n.spent = round[p].spent
      /\ n.planned = round[p].planned /\ n.at = round[p].at
  BY <1>2, <1>3 DEF RoundFields
<1>5. IsFiniteSet(A) /\ Cardinality(A) = Cardinality(asking[p]) - 1 /\ Cardinality(asking[p]) > 0
  BY <1>1, FewerAsked
<1> HIDE DEF A
<1>6. Elsewhere(p) /\ round'[p] = n /\ asking'[p] = A /\ running'[p] = running[p]
  BY <1>1, <1>2 DEF Elsewhere, BudgetKept
<1>7. Sound(n, A, running[p])
  BY <1>3, <1>4, <1>5 DEF BudgetKept, Sound
<1>8. CASE Paid(p)
  BY <1>4, <1>5, <1>6, <1>7, <1>8, PaidKept
<1>9. CASE UNCHANGED <<quota, beyond>>
  <2>1. PlanKept(n, A, quota, beyond)
    BY <1>4, <1>5, SumsStep DEF PlanKept, BudgetKept
  <2> QED BY <1>4, <1>6, <1>7, <1>9, <2>1, UnpaidKept
<1> QED BY <1>1, <1>8, <1>9

LEMMA RefreshKept ==
    ASSUME BudgetKept, NEW p \in Processes, NEW h \in Tags, RefreshInfo(p, h)
    PROVE  BudgetKept'
<1> DEFINE n == Taken(round[p])
<1>0. round[p].spent < round[p].limit /\ round[p].spent + 1 \in Nat /\ DOMAIN round[p] = RoundFields
  BY SpentIs DEF RefreshInfo
<1>1. DOMAIN n = RoundFields /\ n.limit = round[p].limit /\ n.spent = round[p].spent + 1
      /\ n.planned = round[p].planned /\ n.at = round[p].at
  BY <1>0, TakenIs
<1>2. round' = [round EXCEPT ![p] = n] /\ UNCHANGED <<asking, running>> /\ ~(round[p].at \in Early) /\ Paid(p)
  BY DEF RefreshInfo, AnsweredVars, Early
<1> HIDE DEF n
<1>3. Elsewhere(p) /\ round'[p] = n /\ asking'[p] = asking[p] /\ running'[p] = running[p]
  BY <1>2 DEF Elsewhere, BudgetKept
<1>4. Sound(n, asking[p], running[p])
  BY <1>0, <1>1, <1>2 DEF BudgetKept, Sound
<1> QED BY <1>0, <1>1, <1>2, <1>3, <1>4, PaidKept

LEMMA HandKept ==
    ASSUME BudgetKept, NEW h \in Tags, NEW videos \in BOOLEAN, ManualPage(h, videos)
    PROVE  BudgetKept'
<1>1. quota > 0 /\ quota' = quota - 1 /\ beyond' = beyond + 1 /\ UNCHANGED <<asking, round, running>>
  BY DEF ManualPage, ManualVars, tagVars
<1> QED BY <1>1, BesideKept

LEMMA DayKept == ASSUME BudgetKept, NewDay PROVE BudgetKept'
<1>1. quota' = DayQuota /\ beyond' = 0 /\ UNCHANGED <<asking, round, running>>
  BY DEF NewDay, TimeVars
<1>2. Sums(0, 0, 0, DayQuota, 0)
  BY SumsStep DEF BudgetKept
<1>3. \A p \in Processes : PlanKept(round[p], asking[p], DayQuota, 0)
  BY SumsStep DEF BudgetKept, PlanKept
<1> QED BY <1>1, <1>2, <1>3 DEF BudgetKept

LEMMA QuietKept ==
    ASSUME BudgetKept,
           \/ PauseOver \/ NewHour \/ UNCHANGED roundVars
           \/ \E p \in Processes, h \in Tags : LeaveToHand(p, h)
           \/ \E h \in Tags : CrawlNow(h) \/ ManualEnds(h) \/ GrowOlder(h) \/ MissingEnds(h)
    PROVE  BudgetKept'
<1>1. UNCHANGED <<asking, quota, beyond, running, round>>
  BY DEF PauseOver, NewHour, TimeVars, roundVars, LeaveToHand, CrawlNow, ManualEnds, ManualVars, GrowOlder,
         MissingEnds, planVars, tagVars
<1> QED BY <1>1 DEF BudgetKept

LEMMA BudgetNext == BudgetKept /\ WebIs /\ OmarRoundNext => BudgetKept'
<1> SUFFICES ASSUME BudgetKept, WebIs, OmarRoundNext PROVE BudgetKept'
  OBVIOUS
<1>1. ASSUME NEW p \in Processes, RoundStep(p) \/ OpenBlind(p) \/ Restart(p) PROVE BudgetKept'
  <2>1. CASE \E h \in Tags :
                Ask(p, h) \/ LeaveToHand(p, h) \/ AnswerPage(p, h) \/ AnswerStop(p, h) \/ RefreshInfo(p, h)
    BY <2>1, AskKept, QuietKept, AnswerKept, RefreshKept
  <2>2. CASE Open(p) \/ OpenBlind(p)
    BY <2>2, OpenKept
  <2>3. CASE OpenInVain(p) \/ Close(p) \/ Restart(p)
    BY <2>3, EndKept
  <2>4. CASE DeepEnds(p) \/ CommentsEnd(p) \/ FreshEnds(p) \/ InfoEnds(p)
    BY <2>4, PhasesKept
  <2> QED BY <1>1, <2>1, <2>2, <2>3, <2>4 DEF RoundStep
<1>2. ASSUME NEW p \in Processes, NEW h \in Tags, AnswerError(p, h) \/ \E more \in BOOLEAN : AnswerEmpty(p, h, more)
      PROVE  BudgetKept'
  BY <1>2, AnswerKept
<1>3. ASSUME NEW h \in Tags,
             \/ CrawlNow(h) \/ ManualEnds(h) \/ GrowOlder(h) \/ MissingEnds(h)
             \/ \E videos \in BOOLEAN : ManualPage(h, videos)
      PROVE  BudgetKept'
  BY <1>3, QuietKept, HandKept
<1>4. CASE \E p \in Processes, s \in Sides : SideRequest(p, s)
  BY <1>4, SideKept
<1>5. CASE TickStep \/ TickFails \/ RunNow \/ RequestStop \/ RequestBeside
  BY <1>5, TickKept
<1>6. CASE NewDay \/ PauseOver \/ NewHour
  BY <1>6, DayKept, QuietKept
<1> QED BY <1>1, <1>2, <1>3, <1>4, <1>5, <1>6 DEF OmarRoundNext

(* However many hashtags ask at once, and whatever the side jobs take: if  *)
(* less than the reserve is left of a day, the difference was spent by     *)
(* hand, on requests that no budget counts, by rounds without /usage, or   *)
(* by rounds beside a round of another process.                            *)
THEOREM RoundsLeaveReserve == OmarRoundSpec => []ReserveKept
<1>1. BudgetKept => ReserveKept
  BY SumsStep DEF BudgetKept, ReserveKept
<1>2. OmarRoundInit => BudgetKept /\ WebIs
  BY BudgetInit DEF OmarRoundInit, WebIs
<1>3. BudgetKept /\ WebIs /\ [OmarRoundNext]_roundVars => (BudgetKept /\ WebIs)'
  BY BudgetNext, QuietKept, WebStays
<1> QED BY <1>1, <1>2, <1>3, PTL DEF OmarRoundSpec

-----------------------------------------------------------------------------
(* Types.  The entries are typed where they are good and the quota where   *)
(* the budget is kept; what is left is the rounds and the tries.           *)

Rounds ==
    [at : Places, planned : BOOLEAN, limit : Nat, spent : Nat, used : [Sides -> Nat],
     halted : {"no", "daily", "key"}, again : SUBSET Tags]

TryCounts == [Tags -> [fail : Nat, empty : Nat]]

RoundTyped ==
    /\ pause \in {"no", "quota", "key", "over"} /\ hourTaken \in BOOLEAN
    /\ running \in [Processes -> BOOLEAN] /\ stopRequested \in [Processes -> BOOLEAN]
    /\ round \in [Processes -> Rounds] /\ tries \in [Processes -> TryCounts]
    /\ left \in [Processes -> SUBSET Tags] /\ asking \in [Processes -> SUBSET Tags]
    /\ troubles \in 0 .. MaxTroubles[web] /\ ages \in 0 .. MaxAges

LEMMA NoRoundTyped ==
    /\ NoRound \in Rounds /\ NoTries \in TryCounts
    /\ \A place \in {"claimed", "opening"} : [NoRound EXCEPT !.at = place] \in Rounds
BY DEF NoRound, NoTries, Rounds, TryCounts, Places

LEMMA RoundMade ==
    ASSUME NEW r \in Rounds
    PROVE  /\ \A place \in Places :
                  /\ [r EXCEPT !.at = place] \in Rounds
                  /\ \A why \in {"no", "daily", "key"} : [r EXCEPT !.at = place, !.halted = why] \in Rounds
           /\ \A why \in {"no", "daily", "key"} : [r EXCEPT !.halted = why] \in Rounds
           /\ Taken(r) \in Rounds
           /\ \A l \in Nat, b \in BOOLEAN, A \in SUBSET Tags :
                  [r EXCEPT !.at = "deep", !.limit = l, !.planned = b, !.again = A] \in Rounds
           /\ \A s \in Sides : TakenForSide(r, s) \in Rounds
<1>1. /\ \A place \in Places :
              /\ [r EXCEPT !.at = place] \in Rounds
              /\ \A why \in {"no", "daily", "key"} : [r EXCEPT !.at = place, !.halted = why] \in Rounds
      /\ \A why \in {"no", "daily", "key"} : [r EXCEPT !.halted = why] \in Rounds
  BY DEF Rounds
<1>2. Taken(r) \in Rounds
  BY DEF Rounds, Taken
<1>3. \A l \in Nat, b \in BOOLEAN, A \in SUBSET Tags :
          [r EXCEPT !.at = "deep", !.limit = l, !.planned = b, !.again = A] \in Rounds
  BY DEF Rounds, Places
<1>4. ASSUME NEW s \in Sides PROVE TakenForSide(r, s) \in Rounds
  <2> DEFINE t == Taken(r)
  <2>1. t \in Rounds
    BY <1>2
  <2>2. TakenForSide(r, s) = [t EXCEPT !.used[s] = @ + 1]
    BY DEF TakenForSide
  <2> HIDE DEF t
  <2>3. t.used \in [Sides -> Nat]
    BY <2>1 DEF Rounds
  <2>4. [t.used EXCEPT ![s] = t.used[s] + 1] \in [Sides -> Nat]
    BY <2>3
  <2>5. \A U \in [Sides -> Nat] : [t EXCEPT !.used = U] \in Rounds
    BY <2>1 DEF Rounds
  <2>6. [t EXCEPT !.used[s] = @ + 1] = [t EXCEPT !.used = [t.used EXCEPT ![s] = t.used[s] + 1]]
    BY <2>1 DEF Rounds
  <2> QED BY <2>2, <2>4, <2>5, <2>6
<1> QED BY <1>1, <1>2, <1>3, <1>4

LEMMA RoundBegins == OmarRoundInit => RoundTyped
<1> SUFFICES ASSUME OmarRoundInit PROVE RoundTyped
  OBVIOUS
<1>1. round \in [Processes -> Rounds] /\ tries \in [Processes -> TryCounts]
  BY NoRoundTyped DEF OmarRoundInit, Each
<1>2. running \in [Processes -> BOOLEAN] /\ stopRequested \in [Processes -> BOOLEAN] /\ hourTaken \in BOOLEAN
  BY DEF OmarRoundInit, Each
<1>3. left \in [Processes -> SUBSET Tags] /\ asking \in [Processes -> SUBSET Tags]
  BY DEF OmarRoundInit, Each
<1>4. troubles \in 0 .. MaxTroubles[web] /\ ages \in 0 .. MaxAges
  BY OmarRoundAssumption DEF OmarRoundInit
<1> QED BY <1>1, <1>2, <1>3, <1>4 DEF OmarRoundInit, RoundTyped

\* What bounds the troubles is a number, and stays.
LEMMA TroublesTyped ==
    ASSUME RoundTyped, WebIs, [OmarRoundNext]_roundVars, Trouble \/ UNCHANGED troubles
    PROVE  troubles' \in 0 .. MaxTroubles[web']
<1>1. MaxTroubles[web] \in Nat
  BY OmarRoundAssumption DEF WebIs
<1>2. web' = web
  BY WebSame
<1> QED BY <1>1, <1>2 DEF RoundTyped, Trouble

\* Each round is typed if one is put that is.
LEMMA RoundsMade ==
    ASSUME RoundTyped, NEW p \in Processes, NEW r \in Rounds, round' = [round EXCEPT ![p] = r]
    PROVE  round' \in [Processes -> Rounds]
BY DEF RoundTyped

\* Steps that leave the tries and the hashtags of the loop.
LEMMA RoundGoesOn ==
    ASSUME RoundTyped, UNCHANGED <<left, asking, tries, ages>>, troubles' \in 0 .. MaxTroubles[web'],
           round' \in [Processes -> Rounds], pause' \in {"no", "quota", "key", "over"},
           hourTaken' \in BOOLEAN, running' \in [Processes -> BOOLEAN], stopRequested' \in [Processes -> BOOLEAN]
    PROVE  RoundTyped'
BY DEF RoundTyped

LEMMA TickTyped ==
    ASSUME RoundTyped, WebIs, [OmarRoundNext]_roundVars,
           TickStep \/ TickFails \/ RunNow \/ RequestStop \/ RequestBeside
    PROVE  RoundTyped'
<1>1. /\ UNCHANGED <<left, asking, tries, ages>> /\ (Trouble \/ UNCHANGED troubles)
      /\ pause' \in {"no", "quota", "key", "over"} /\ hourTaken' \in BOOLEAN
  BY DEF RoundTyped, TickStep, Tick, TickSpawns, TickFails, RunNow, RequestStop, RequestBeside, tagVars, restVars,
         redisVars
<1>2. running' \in [Processes -> BOOLEAN] /\ stopRequested' \in [Processes -> BOOLEAN]
  BY DEF RoundTyped, TickStep, Tick, TickSpawns, TickFails, RunNow, RequestStop, RequestBeside, Claimed
<1>3. \/ UNCHANGED round
      \/ \E p \in Processes, r \in Rounds : round' = [round EXCEPT ![p] = r]
  <2>1. CASE Tick \/ RunNow
    BY <2>1, NoRoundTyped, SchedulerIs DEF Tick, RunNow, Claimed, WebIs
  <2>2. CASE TickSpawns
    <3>1. [round[Scheduler] EXCEPT !.at = "opening"] \in Rounds
      BY RoundMade, SchedulerIs DEF RoundTyped, Places
    <3>2. round' = [round EXCEPT ![Scheduler] = [round[Scheduler] EXCEPT !.at = "opening"]]
      BY <2>2 DEF TickSpawns, At
    <3> QED BY <3>1, <3>2, SchedulerIs
  <2>3. CASE TickFails
    BY <2>3, NoRoundTyped, SchedulerIs DEF TickFails
  <2>4. CASE RequestStop \/ RequestBeside
    BY <2>4 DEF RequestStop, RequestBeside
  <2> QED BY <2>1, <2>2, <2>3, <2>4 DEF TickStep
<1>4. round' \in [Processes -> Rounds]
  BY <1>3, RoundsMade DEF RoundTyped
<1>5. troubles' \in 0 .. MaxTroubles[web']
  BY <1>1, TroublesTyped
<1> QED BY <1>1, <1>2, <1>4, <1>5, RoundGoesOn

LEMMA EndTyped ==
    ASSUME RoundTyped, WebIs, [OmarRoundNext]_roundVars, NEW p \in Processes, OpenInVain(p) \/ Close(p) \/ Restart(p)
    PROVE  RoundTyped'
<1>0. round[p] \in Rounds /\ pause \in {"no", "quota", "key", "over"}
  BY DEF RoundTyped
<1>1. pause' \in {"no", "quota", "key", "over"}
  BY <1>0 DEF Rounds, OpenInVain, Close, Restart, PauseAfter, redisVars
<1>2. /\ round' = [round EXCEPT ![p] = NoRound] /\ running' = [running EXCEPT ![p] = FALSE]
      /\ stopRequested' = [stopRequested EXCEPT ![p] = FALSE] /\ tries' = [tries EXCEPT ![p] = NoTries]
      /\ left' = [left EXCEPT ![p] = {}] /\ asking' = [asking EXCEPT ![p] = {}]
      /\ UNCHANGED <<hourTaken, ages>> /\ (Trouble \/ UNCHANGED troubles)
  BY DEF OpenInVain, Close, Restart, Forgotten, redisVars, restVars
<1>3. /\ round' \in [Processes -> Rounds] /\ tries' \in [Processes -> TryCounts]
      /\ left' \in [Processes -> SUBSET Tags] /\ asking' \in [Processes -> SUBSET Tags]
  BY <1>2, NoRoundTyped DEF RoundTyped
<1>4. running' \in [Processes -> BOOLEAN] /\ stopRequested' \in [Processes -> BOOLEAN]
  BY <1>2 DEF RoundTyped
<1>5. troubles' \in 0 .. MaxTroubles[web']
  BY <1>2, TroublesTyped
<1> QED BY <1>1, <1>2, <1>3, <1>4, <1>5 DEF RoundTyped

LEMMA OpenTyped ==
    ASSUME RoundTyped, WebIs, [OmarRoundNext]_roundVars, BudgetKept, NEW p \in Processes, Open(p) \/ OpenBlind(p)
    PROVE  RoundTyped'
<1>1. PICK limit \in Nat, plan \in BOOLEAN, A \in SUBSET Tags :
          round' = [round EXCEPT ![p] = [round[p] EXCEPT !.at = "deep", !.limit = limit, !.planned = plan, !.again = A]]
  <2> DEFINE A == {h \in Tags : ~stored[h].missing /\ stored[h].done = "settled"}
             plan(known) == known /\ \A q \in Processes : ~round[q].planned
             n(limit, known) == [round[p] EXCEPT !.at = "deep", !.limit = limit, !.planned = plan(known), !.again = A]
  <2>1. Spendable(quota) \in Nat /\ Fallback \in Nat /\ A \in SUBSET Tags
    BY ReserveIs, OmarRoundAssumption DEF Spendable, BudgetKept, Sums
  <2>2. plan(TRUE) \in BOOLEAN /\ plan(FALSE) \in BOOLEAN
    OBVIOUS
  <2>3. round' = [round EXCEPT ![p] = n(Spendable(quota), TRUE)] \/ round' = [round EXCEPT ![p] = n(Fallback, FALSE)]
    BY DEF Open, OpenBlind, Opened
  <2> HIDE DEF plan, A
  <2> QED BY <2>1, <2>2, <2>3
<1>2. round' \in [Processes -> Rounds]
  BY <1>1, RoundMade, RoundsMade DEF RoundTyped
<1>3. /\ UNCHANGED <<asking, tries, ages, pause, hourTaken, running, stopRequested>> /\ (Trouble \/ UNCHANGED troubles)
      /\ left' = [left EXCEPT ![p] = {h \in Tags : Todo(stored[h])}]
  BY DEF Open, OpenBlind, Opened, redisVars
<1>4. left' \in [Processes -> SUBSET Tags]
  BY <1>3 DEF RoundTyped
<1>5. troubles' \in 0 .. MaxTroubles[web']
  BY <1>3, TroublesTyped
<1> QED BY <1>2, <1>3, <1>4, <1>5 DEF RoundTyped

LEMMA PhasesTyped ==
    ASSUME RoundTyped, WebIs, [OmarRoundNext]_roundVars, NEW p \in Processes,
           DeepEnds(p) \/ CommentsEnd(p) \/ FreshEnds(p) \/ InfoEnds(p)
    PROVE  RoundTyped'
<1>0. round[p] \in Rounds /\ round[p].halted \in {"no", "daily", "key"} /\ round[p].again \in SUBSET Tags
  BY DEF RoundTyped, Rounds
<1>1. \/ \E place \in Places : round' = [round EXCEPT ![p] = [round[p] EXCEPT !.at = place]]
      \/ \E why \in {"no", "daily", "key"} :
             round' = [round EXCEPT ![p] = [round[p] EXCEPT !.at = "closing", !.halted = why]]
  <2>1. ASSUME NEW next \in Places, Then(p, next)
        PROVE  \E place \in Places : round' = [round EXCEPT ![p] = [round[p] EXCEPT !.at = place]]
    <3>1. PICK place \in {next, "closing"} : At(p, place)
      BY <2>1 DEF Then
    <3>2. place \in Places /\ round' = [round EXCEPT ![p] = [round[p] EXCEPT !.at = place]]
      BY <3>1 DEF At, Places
    <3> QED BY <3>2
  <2>2. CASE DeepEnds(p) \/ CommentsEnd(p) \/ FreshEnds(p)
    <3>1. PICK next \in {"comments", "fresh", "info"} : Then(p, next)
      BY <2>2 DEF DeepEnds, CommentsEnd, FreshEnds
    <3>2. next \in Places
      BY DEF Places
    <3> QED BY <2>1, <3>1, <3>2
  <2>3. CASE InfoEnds(p)
    <3> DEFINE why == IF left[p] # {} /\ quota = 0 THEN "daily" ELSE round[p].halted
    <3>1. round' = [round EXCEPT ![p] = [@ EXCEPT !.at = "closing", !.halted = why]]
      BY <2>3 DEF InfoEnds
    <3>2. why \in {"no", "daily", "key"}
      BY <1>0
    <3> HIDE DEF why
    <3> QED BY <3>1, <3>2
  <2> QED BY <2>2, <2>3
<1>2. round' \in [Processes -> Rounds]
  <2>1. "closing" \in Places
    BY DEF Places
  <2> QED BY <1>0, <1>1, <2>1, RoundMade, RoundsMade
<1>3. left' \in [Processes -> SUBSET Tags]
  BY <1>0 DEF RoundTyped, DeepEnds, CommentsEnd, FreshEnds, InfoEnds, tagVars
<1>4. UNCHANGED <<asking, tries, ages, pause, hourTaken, running, stopRequested, troubles>>
  BY DEF DeepEnds, CommentsEnd, FreshEnds, InfoEnds, PhaseVars, tagVars, restVars, redisVars
<1>5. troubles' \in 0 .. MaxTroubles[web']
  BY <1>4, TroublesTyped
<1> QED BY <1>2, <1>3, <1>4, <1>5 DEF RoundTyped

LEMMA SideTyped ==
    ASSUME RoundTyped, WebIs, [OmarRoundNext]_roundVars, NEW p \in Processes, NEW s \in Sides, SideRequest(p, s)
    PROVE  RoundTyped'
<1> DEFINE t == TakenForSide(round[p], s)
<1>1. t \in Rounds
  BY RoundMade DEF RoundTyped
<1>2. round' = [round EXCEPT ![p] = t] \/ round' = [round EXCEPT ![p] = [t EXCEPT !.halted = "daily"]]
  BY DEF SideRequest
<1> HIDE DEF t
<1>3. [t EXCEPT !.halted = "daily"] \in Rounds
  BY <1>1, RoundMade
<1>4. round' \in [Processes -> Rounds]
  BY <1>1, <1>2, <1>3, RoundsMade
<1>5. UNCHANGED <<left, asking, tries, ages, pause, hourTaken, running, stopRequested, troubles>>
  BY DEF SideRequest, tagVars, restVars, redisVars
<1>6. troubles' \in 0 .. MaxTroubles[web']
  BY <1>5, TroublesTyped
<1> QED BY <1>4, <1>5, <1>6 DEF RoundTyped

LEMMA AskTyped ==
    ASSUME RoundTyped, WebIs, [OmarRoundNext]_roundVars, NEW p \in Processes, NEW h \in Tags,
           Ask(p, h) \/ LeaveToHand(p, h) \/ RefreshInfo(p, h)
    PROVE  RoundTyped'
<1>1. round' = [round EXCEPT ![p] = Taken(round[p])] \/ UNCHANGED round
  BY DEF Ask, LeaveToHand, RefreshInfo
<1>2. round' \in [Processes -> Rounds]
  BY <1>1, RoundMade, RoundsMade DEF RoundTyped
<1>3. left' \in [Processes -> SUBSET Tags] /\ asking' \in [Processes -> SUBSET Tags]
  BY DEF RoundTyped, Ask, LeaveToHand, RefreshInfo, Stays
<1>4. UNCHANGED <<tries, ages, pause, hourTaken, running, stopRequested, troubles>>
  BY DEF Ask, LeaveToHand, RefreshInfo, AnsweredVars, restVars, redisVars
<1>5. troubles' \in 0 .. MaxTroubles[web']
  BY <1>4, TroublesTyped
<1> QED BY <1>2, <1>3, <1>4, <1>5 DEF RoundTyped

LEMMA AnswerTyped ==
    ASSUME RoundTyped, WebIs, [OmarRoundNext]_roundVars, NEW p \in Processes, NEW h \in Tags,
           \/ AnswerPage(p, h) \/ AnswerError(p, h) \/ AnswerStop(p, h)
           \/ \E more \in BOOLEAN : AnswerEmpty(p, h, more)
    PROVE  RoundTyped'
<1>1. tries' \in [Processes -> TryCounts]
  <2>0. tries[p][h].fail \in Nat /\ tries[p][h].empty \in Nat /\ tries \in [Processes -> TryCounts]
        /\ tries[p] \in TryCounts
    BY DEF RoundTyped, TryCounts
  <2>1. ASSUME NEW t \in [fail : Nat, empty : Nat], tries' = [tries EXCEPT ![p][h] = t]
        PROVE  tries' \in [Processes -> TryCounts]
    <3>1. [tries[p] EXCEPT ![h] = t] \in TryCounts
      BY <2>0 DEF TryCounts
    <3>2. tries' = [tries EXCEPT ![p] = [tries[p] EXCEPT ![h] = t]]
      BY <2>1
    <3> QED BY <2>0, <3>1, <3>2
  <2>2. CASE AnswerPage(p, h)
    <3>1. [fail |-> 0, empty |-> 0] \in [fail : Nat, empty : Nat]
      OBVIOUS
    <3>2. tries' = [tries EXCEPT ![p][h] = [fail |-> 0, empty |-> 0]]
      BY <2>2 DEF AnswerPage
    <3> QED BY <2>1, <3>1, <3>2
  <2>3. CASE AnswerError(p, h)
    <3>1. PICK unknown : tries' = [tries EXCEPT ![p][h].fail = IF unknown THEN @ ELSE tries[p][h].fail + 1]
      BY <2>3 DEF AnswerError
    <3> DEFINE f == IF unknown THEN tries[p][h].fail ELSE tries[p][h].fail + 1
               t == [tries[p][h] EXCEPT !.fail = f]
    <3>2. tries' = [tries EXCEPT ![p][h] = t]
      BY <3>1
    <3>3. f \in Nat /\ tries[p][h] \in [fail : Nat, empty : Nat]
      BY <2>0 DEF TryCounts
    <3> HIDE DEF f
    <3>4. t \in [fail : Nat, empty : Nat]
      BY <3>3
    <3> HIDE DEF t
    <3> QED BY <2>1, <3>2, <3>4
  <2>4. CASE AnswerStop(p, h)
    BY <2>0, <2>4 DEF AnswerStop
  <2>5. ASSUME NEW more \in BOOLEAN, AnswerEmpty(p, h, more) PROVE tries' \in [Processes -> TryCounts]
    <3>1. PICK c : tries' = [tries EXCEPT ![p][h] = [fail |-> 0, empty |-> IF c THEN @.empty + 1 ELSE 0]]
      BY <2>5 DEF AnswerEmpty
    <3> DEFINE n == IF c THEN tries[p][h].empty + 1 ELSE 0
    <3>2. tries' = [tries EXCEPT ![p][h] = [fail |-> 0, empty |-> n]] /\ n \in Nat
      BY <2>0, <3>1
    <3> HIDE DEF n
    <3>3. [fail |-> 0, empty |-> n] \in [fail : Nat, empty : Nat]
      BY <3>2
    <3> QED BY <2>1, <3>2, <3>3
  <2> QED BY <2>2, <2>3, <2>4, <2>5
<1>2. round' \in [Processes -> Rounds]
  <2>1. CASE AnswerStop(p, h)
    <3>1. PICK why \in {"daily", "key"} : round' = [round EXCEPT ![p] = [round[p] EXCEPT !.halted = why]]
      BY <2>1 DEF AnswerStop
    <3>2. [round[p] EXCEPT !.halted = why] \in Rounds
      BY RoundMade DEF RoundTyped
    <3> QED BY <3>1, <3>2, RoundsMade
  <2>2. CASE UNCHANGED round
    BY <2>2 DEF RoundTyped
  <2> QED BY <2>1, <2>2 DEF AnswerPage, AnswerError, AnswerEmpty
<1>3. left' \in [Processes -> SUBSET Tags]
  <2>1. \E more \in BOOLEAN : Stays(p, h, more)
    BY DEF AnswerPage, AnswerError, AnswerStop, AnswerEmpty
  <2> QED BY <2>1 DEF Stays, RoundTyped
<1>4. asking' \in [Processes -> SUBSET Tags]
  <2>1. asking' = [asking EXCEPT ![p] = asking[p] \ {h}]
    <3>1. CASE AnswerStop(p, h)
      BY <3>1 DEF AnswerStop
    <3>2. ASSUME NEW e, Kept(p, h, e) PROVE asking' = [asking EXCEPT ![p] = asking[p] \ {h}]
      BY <3>2 DEF Kept
    <3>3. (\E e : Kept(p, h, e)) \/ AnswerStop(p, h)
      BY DEF AnswerPage, AnswerError, AnswerEmpty
    <3> QED BY <3>1, <3>2, <3>3
  <2> QED BY <2>1 DEF RoundTyped
<1>5. UNCHANGED <<pause, hourTaken, running, stopRequested, ages>> /\ (Trouble \/ UNCHANGED troubles)
  BY DEF AnswerPage, AnswerError, AnswerStop, AnswerEmpty, AnsweredVars, restVars
<1>6. troubles' \in 0 .. MaxTroubles[web']
  BY <1>5, TroublesTyped
<1> QED BY <1>1, <1>2, <1>3, <1>4, <1>5, <1>6 DEF RoundTyped

LEMMA HandTyped ==
    ASSUME RoundTyped, WebIs, [OmarRoundNext]_roundVars, NEW h \in Tags,
           CrawlNow(h) \/ ManualEnds(h) \/ \E videos \in BOOLEAN : ManualPage(h, videos)
    PROVE  RoundTyped'
<1>1. UNCHANGED <<pause, hourTaken, running, stopRequested, round, left, asking, tries, ages>>
  BY DEF CrawlNow, ManualEnds, ManualPage, ManualVars, tagVars, redisVars
<1>2. Trouble \/ UNCHANGED troubles
  BY DEF CrawlNow, ManualEnds, ManualPage
<1> QED BY <1>1, <1>2, TroublesTyped DEF RoundTyped

LEMMA TimeTyped ==
    ASSUME RoundTyped, WebIs, [OmarRoundNext]_roundVars,
           NewDay \/ PauseOver \/ NewHour \/ UNCHANGED roundVars \/ \E h \in Tags : GrowOlder(h) \/ MissingEnds(h)
    PROVE  RoundTyped'
<1>1. UNCHANGED <<running, stopRequested, round, left, asking, tries, troubles>>
  BY DEF NewDay, PauseOver, NewHour, TimeVars, roundVars, GrowOlder, MissingEnds, tagVars, restVars
<1>2. pause' \in {"no", "quota", "key", "over"} /\ hourTaken' \in BOOLEAN
  BY DEF RoundTyped, NewDay, PauseOver, NewHour, roundVars, redisVars, GrowOlder, MissingEnds
<1>3. ages' \in 0 .. MaxAges
  BY OmarRoundAssumption DEF RoundTyped, NewDay, PauseOver, NewHour, roundVars, GrowOlder, MissingEnds, restVars
<1>4. troubles' \in 0 .. MaxTroubles[web']
  BY <1>1, TroublesTyped
<1> QED BY <1>1, <1>2, <1>3, <1>4 DEF RoundTyped

LEMMA RoundNext == RoundTyped /\ WebIs /\ BudgetKept /\ [OmarRoundNext]_roundVars => RoundTyped'
<1> SUFFICES ASSUME RoundTyped, WebIs, BudgetKept, [OmarRoundNext]_roundVars PROVE RoundTyped'
  OBVIOUS
<1>1. ASSUME NEW p \in Processes, RoundStep(p) \/ OpenBlind(p) \/ Restart(p) PROVE RoundTyped'
  <2>1. CASE Open(p) \/ OpenBlind(p)
    BY <2>1, OpenTyped
  <2>2. CASE OpenInVain(p) \/ Close(p) \/ Restart(p)
    BY <2>2, EndTyped
  <2>3. CASE DeepEnds(p) \/ CommentsEnd(p) \/ FreshEnds(p) \/ InfoEnds(p)
    BY <2>3, PhasesTyped
  <2>4. CASE \E h \in Tags :
                Ask(p, h) \/ LeaveToHand(p, h) \/ AnswerPage(p, h) \/ AnswerStop(p, h) \/ RefreshInfo(p, h)
    BY <2>4, AskTyped, AnswerTyped
  <2> QED BY <1>1, <2>1, <2>2, <2>3, <2>4 DEF RoundStep
<1>2. ASSUME NEW p \in Processes, NEW h \in Tags, AnswerError(p, h) \/ \E more \in BOOLEAN : AnswerEmpty(p, h, more)
      PROVE  RoundTyped'
  BY <1>2, AnswerTyped
<1>3. ASSUME NEW h \in Tags, CrawlNow(h) \/ ManualEnds(h) \/ \E videos \in BOOLEAN : ManualPage(h, videos)
      PROVE  RoundTyped'
  BY <1>3, HandTyped
<1>4. CASE \E p \in Processes, s \in Sides : SideRequest(p, s)
  BY <1>4, SideTyped
<1>5. CASE TickStep \/ TickFails \/ RunNow \/ RequestStop \/ RequestBeside
  BY <1>5, TickTyped
<1>6. CASE \/ NewDay \/ PauseOver \/ NewHour \/ UNCHANGED roundVars
           \/ \E h \in Tags : GrowOlder(h) \/ MissingEnds(h)
  BY <1>6, TimeTyped
<1> QED BY <1>1, <1>2, <1>3, <1>4, <1>5, <1>6 DEF OmarRoundNext

LEMMA RoundTypesAre == EntriesGood /\ WebIs /\ BudgetKept /\ RoundTyped => OmarRoundTypeOK
<1> SUFFICES ASSUME EntriesGood, WebIs, BudgetKept, RoundTyped PROVE OmarRoundTypeOK
  OBVIOUS
<1>1. ASSUME NEW e, Good(e) PROVE e \in Entry
  BY <1>1 DEF Good
<1>2. stored \in [Tags -> Entry]
  BY <1>1 DEF EntriesGood, AllGood
<1>3. loaded \in [Processes -> [Tags -> Entry]]
  <2>1. \A p \in Processes : loaded[p] \in [Tags -> Entry]
    BY <1>1 DEF EntriesGood, AllTables, AllGood
  <2>2. loaded = [p \in Processes |-> loaded[p]]
    BY DEF EntriesGood, AllTables
  <2> QED BY <2>1, <2>2
<1>4. \A p \in Processes, h \in Tags : entries[p][h] \subseteq Entry /\ manual[p][h] \subseteq Entry
  BY <1>1 DEF EntriesGood, EachTables, EachGood
<1>5. quota \in 0 .. DayQuota /\ beyond \in Nat
  BY ReserveIs DEF BudgetKept, Sums
<1> QED BY <1>2, <1>3, <1>4, <1>5 DEF OmarRoundTypeOK, WebIs, RoundTyped, Rounds, TryCounts

(* The types of the rounds: whatever the answers, the buttons, the side    *)
(* jobs and the restarts, the rounds, their counts and the entries in      *)
(* Redis and in memory are what they can be, and the quota is within the   *)
(* plan.                                                                   *)
THEOREM RoundTypes == OmarRoundSpec => []OmarRoundTypeOK
<1>1. OmarRoundInit => EntriesGood /\ WebIs /\ BudgetKept /\ RoundTyped
  BY EntriesInit, BudgetInit, RoundBegins DEF OmarRoundInit, WebIs
<1>2. EntriesGood /\ WebIs /\ BudgetKept /\ RoundTyped /\ [OmarRoundNext]_roundVars
        => (EntriesGood /\ WebIs /\ BudgetKept /\ RoundTyped)'
  BY EntriesNext, EntriesStutter, WebStays, BudgetNext, QuietKept, RoundNext
<1> QED BY <1>1, <1>2, RoundTypesAre, PTL DEF OmarRoundSpec

-----------------------------------------------------------------------------
(* Comments of videos (OmarComments).                                      *)

Workers == [at : {"away", "ask", "send", "sent", "mark"}, job : Job, batch : SUBSET CommentIds]

\* What a job has had when it is at a page.
ReadBefore(v, p) ==
    {<<v, q, "top">> : q \in {r \in CommentPages : r < p}} \cup {<<v, q, "reply">> : q \in {r \in Threads : r < p}}

\* A job has had all of the pages before its own, nothing that the video does not have, and the replies
\* of its page if it says so.
JobFollows(v, j) ==
    /\ ReadBefore(v, j.page) \subseteq j.got /\ j.got \subseteq CommentsOf(v)
    /\ j.replied => j.page \in Threads /\ <<v, j.page, "reply">> \in j.got

\* A worker's batch is of what its job has had: the comments of the page before the replies, which are
\* asked for on a page that has some.
WorkerFollows(v, w) ==
    /\ JobFollows(v, w.job) /\ w.batch \subseteq w.job.got
    /\ w.at = "away" => w.batch = {}
    /\ w.at \in {"send", "sent"} => <<v, w.job.page, "top">> \in w.batch
    /\ w.at = "ask" /\ <<v, w.job.page, "top">> \in w.batch => w.job.page \in Threads
    /\ w.at = "mark" => w.job.got = CommentsOf(v)

GoodJobs(v)    == {j \in Job : JobFollows(v, j)}
GoodWorkers(v) == {w \in Workers : WorkerFollows(v, w)}

RestTyped ==
    /\ weekKey \in BOOLEAN /\ enqLock \in BOOLEAN /\ working \in BOOLEAN /\ slipUps \in 0 .. MaxSlipUps
    /\ seen \subseteq CommentIds /\ inKafka \subseteq CommentIds /\ worth \subseteq Videos /\ marked \subseteq Videos /\ tape \subseteq Videos
    /\ enqueue \in [at : {"none", "choose", "put", "week"}, chosen : SUBSET Videos]

CommentInv ==
    /\ RestTyped
    /\ jobs \in [Videos -> SUBSET Job] /\ \A v \in Videos : jobs[v] \subseteq GoodJobs(v)
    /\ crew \in [Videos -> Workers] /\ \A v \in Videos : crew[v] \in GoodWorkers(v)
    /\ \A v \in tape : crew[v].at = "away"

LEMMA CommentInvIs == CommentInv => OmarCommentsTypeOK /\ FinishedIsRead
BY DEF CommentInv, RestTyped, OmarCommentsTypeOK, FinishedIsRead, Workers, GoodWorkers, WorkerFollows

-----------------------------------------------------------------------------
(* Jobs and workers, field by field                                        *)

Worker(a, j, b) == [at |-> a, job |-> j, batch |-> b]
JobAt(p, r, g) == [page |-> p, replied |-> r, got |-> g]

LEMMA WorkerTyped ==
    ASSUME NEW w \in Workers
    PROVE  /\ w = Worker(w.at, w.job, w.batch) /\ w.job \in Job /\ w.batch \in SUBSET CommentIds
           /\ w.at \in {"away", "ask", "send", "sent", "mark"}
BY DEF Workers, Worker

LEMMA JobTyped ==
    ASSUME NEW j \in Job
    PROVE  j = JobAt(j.page, j.replied, j.got) /\ j.page \in CommentPages /\ j.replied \in BOOLEAN /\ j.got \in SUBSET CommentIds
BY DEF Job, JobAt

LEMMA JobSet ==
    ASSUME NEW j \in Job, NEW x
    PROVE  /\ [j EXCEPT !.replied = x] = JobAt(j.page, x, j.got)
           /\ [j EXCEPT !.got = x] = JobAt(j.page, j.replied, x)
           /\ [j EXCEPT !.page = @ + 1, !.replied = x] = JobAt(j.page + 1, x, j.got)
<1> DEFINE a == [j EXCEPT !.page = j.page + 1]
<1>1. a = JobAt(j.page + 1, j.replied, j.got)
  BY DEF Job, JobAt
<1> HIDE DEF a
<1>2. [a EXCEPT !.replied = x] = JobAt(j.page + 1, x, j.got)
  BY <1>1 DEF JobAt
<1>3. [j EXCEPT !.replied = x] = JobAt(j.page, x, j.got) /\ [j EXCEPT !.got = x] = JobAt(j.page, j.replied, x)
  BY DEF Job, JobAt
<1> QED BY <1>2, <1>3 DEF a

LEMMA CrewSet ==
    ASSUME crew \in [Videos -> Workers], NEW v \in Videos, NEW x
    PROVE  /\ [crew EXCEPT ![v].at = x] = [crew EXCEPT ![v] = Worker(x, crew[v].job, crew[v].batch)]
           /\ [crew EXCEPT ![v].job = x] = [crew EXCEPT ![v] = Worker(crew[v].at, x, crew[v].batch)]
<1>1. crew[v] \in Workers
  OBVIOUS
<1>2. [crew[v] EXCEPT !.at = x] = Worker(x, crew[v].job, crew[v].batch)
      /\ [crew[v] EXCEPT !.job = x] = Worker(crew[v].at, x, crew[v].batch)
  BY <1>1 DEF Workers, Worker
<1>3. [crew EXCEPT ![v].at = x] = [crew EXCEPT ![v] = [crew[v] EXCEPT !.at = x]]
      /\ [crew EXCEPT ![v].job = x] = [crew EXCEPT ![v] = [crew[v] EXCEPT !.job = x]]
  OBVIOUS
<1> QED BY <1>2, <1>3, Zenon

LEMMA MadeTyped ==
    ASSUME NEW a \in {"away", "ask", "send", "sent", "mark"}, NEW j \in Job, NEW b \in SUBSET CommentIds
    PROVE  /\ Worker(a, j, b) \in Workers /\ Worker(a, j, b).at = a
           /\ Worker(a, j, b).job = j /\ Worker(a, j, b).batch = b
BY DEF Worker, Workers

LEMMA JobMade ==
    ASSUME NEW p \in CommentPages, NEW r \in BOOLEAN, NEW g \in SUBSET CommentIds
    PROVE  JobAt(p, r, g) \in Job /\ JobAt(p, r, g).page = p /\ JobAt(p, r, g).replied = r /\ JobAt(p, r, g).got = g
BY DEF Job, JobAt

LEMMA NewJobGood ==
    ASSUME NEW v \in Videos
    PROVE  NewJob \in GoodJobs(v) /\ NoWorker \in GoodWorkers(v)
<1>1. 0 \in CommentPages
  BY OmarCommentsAssumption DEF CommentPages
<1>2. NewJob \in Job
  BY <1>1 DEF NewJob, Job
<1>3. ReadBefore(v, 0) = {}
  <2>1. \A r \in CommentPages : ~(r < 0)
    BY OmarCommentsAssumption DEF CommentPages
  <2>2. {r \in CommentPages : r < 0} = {} /\ {r \in Threads : r < 0} = {}
    BY <2>1, OmarCommentsAssumption DEF CommentPages
  <2> QED BY <2>2 DEF ReadBefore
<1>4. JobFollows(v, NewJob)
  BY <1>3 DEF JobFollows, NewJob
<1> HIDE DEF NewJob
<1>5. NoWorker \in Workers /\ NoWorker.job = NewJob /\ NoWorker.at = "away" /\ NoWorker.batch = {}
  BY <1>2 DEF NoWorker, Workers
<1> QED BY <1>2, <1>4, <1>5 DEF GoodJobs, GoodWorkers, WorkerFollows
LEMMA PageIds ==
    ASSUME NEW v \in Videos, NEW p \in CommentPages
    PROVE  /\ <<v, p, "top">> \in CommentIds /\ <<v, p, "reply">> \in CommentIds
           /\ <<v, p, "top">> \in CommentsOf(v) /\ (p \in Threads => <<v, p, "reply">> \in CommentsOf(v))
           /\ <<v, p, "top">> # <<v, p, "reply">>
           /\ <<v, p, "top">>[3] = "top" /\ <<v, p, "reply">>[3] = "reply"
BY DEF CommentIds, CommentsOf

LEMMA IdsOf == ASSUME NEW v \in Videos PROVE CommentsOf(v) \subseteq CommentIds
BY OmarCommentsAssumption DEF CommentIds, CommentsOf, CommentPages

LEMMA ReadOne ==
    ASSUME NEW v \in Videos, NEW p \in CommentPages, NEW got, ReadBefore(v, p) \subseteq got,
           <<v, p, "top">> \in got, p \in Threads => <<v, p, "reply">> \in got
    PROVE  /\ ReadBefore(v, p + 1) \subseteq got
           /\ p = LastComment => CommentsOf(v) \subseteq got
<1>1. \A q \in CommentPages : q < p + 1 => q < p \/ q = p
  BY OmarCommentsAssumption DEF CommentPages
<1>2. \A q \in CommentPages : q < p + 1 => <<v, q, "top">> \in got /\ (q \in Threads => <<v, q, "reply">> \in got)
  <2> SUFFICES ASSUME NEW q \in CommentPages, q < p + 1
               PROVE  <<v, q, "top">> \in got /\ (q \in Threads => <<v, q, "reply">> \in got)
    OBVIOUS
  <2>1. CASE q = p
    BY <2>1
  <2>2. CASE q < p
    BY <2>2 DEF ReadBefore
  <2> QED BY <1>1, <2>1, <2>2
<1>3. Threads \subseteq CommentPages
  BY OmarCommentsAssumption DEF CommentPages
<1>4. ReadBefore(v, p + 1) \subseteq got
  BY <1>2, <1>3 DEF ReadBefore
<1>5. ASSUME p = LastComment PROVE CommentsOf(v) \subseteq got
  <2>1. \A q \in CommentPages : q < p + 1
    BY <1>5, OmarCommentsAssumption DEF CommentPages
  <2> QED BY <1>2, <1>3, <2>1 DEF CommentsOf
<1> QED BY <1>4, <1>5

-----------------------------------------------------------------------------
(* The steps                                                               *)

LEMMA JobOf ==
    ASSUME CommentInv, NEW v \in Videos
    PROVE  /\ crew[v] \in Workers /\ WorkerFollows(v, crew[v]) /\ crew[v].job \in Job
           /\ JobFollows(v, crew[v].job) /\ crew[v].batch \in SUBSET CommentIds
           /\ crew[v].job.page \in CommentPages /\ crew[v].job.got \in SUBSET CommentIds /\ crew[v].job.replied \in BOOLEAN
<1>1. crew[v] \in Workers /\ WorkerFollows(v, crew[v])
  BY DEF CommentInv, GoodWorkers
<1>2. crew[v].job \in Job /\ crew[v].batch \in SUBSET CommentIds
  BY <1>1, WorkerTyped
<1> QED BY <1>1, <1>2, JobTyped DEF WorkerFollows

LEMMA CrewGoesOn ==
    ASSUME CommentInv, NEW v \in Videos, NEW w \in Workers, WorkerFollows(v, w), crew' = [crew EXCEPT ![v] = w]
    PROVE  crew' \in [Videos -> Workers] /\ \A u \in Videos : crew'[u] \in GoodWorkers(u)
BY DEF CommentInv, GoodWorkers

LEMMA JobsGoOn ==
    ASSUME CommentInv, NEW v \in Videos, NEW js, js \subseteq GoodJobs(v), jobs' = [jobs EXCEPT ![v] = js]
    PROVE  jobs' \in [Videos -> SUBSET Job] /\ \A u \in Videos : jobs'[u] \subseteq GoodJobs(u)
<1>1. GoodJobs(v) \subseteq Job
  BY DEF GoodJobs
<1> QED BY <1>1 DEF CommentInv

LEMMA SlipTyped == ASSUME RestTyped, SlipUp PROVE slipUps' \in 0 .. MaxSlipUps
BY OmarCommentsAssumption DEF RestTyped, SlipUp

LEMMA WorkerMade ==
    ASSUME NEW v \in Videos, NEW a \in {"away", "ask", "send", "sent", "mark"}, NEW j \in Job, NEW b \in SUBSET CommentIds,
           JobFollows(v, j), b \subseteq j.got, a = "away" => b = {},
           a \in {"send", "sent"} => <<v, j.page, "top">> \in b,
           a = "ask" /\ <<v, j.page, "top">> \in b => j.page \in Threads,
           a = "mark" => j.got = CommentsOf(v)
    PROVE  Worker(a, j, b) \in Workers /\ WorkerFollows(v, Worker(a, j, b))
BY MadeTyped DEF WorkerFollows

\* A worker that goes on, and its job in Redis, if that changes.
WorkerChange(v, w) == crew' = [crew EXCEPT ![v] = w] /\ w \in Workers /\ WorkerFollows(v, w)
JobChange(v, js) == jobs' = [jobs EXCEPT ![v] = js] /\ js \subseteq GoodJobs(v)
TapeKept(v) == tape' \subseteq tape \ {v} \/ (tape' = tape /\ crew[v].at # "away")

LEMMA WorkerKeeps ==
    ASSUME CommentInv, NEW v \in Videos, NEW w, WorkerChange(v, w),
           UNCHANGED jobs \/ \E js : JobChange(v, js),
           RestTyped', TapeKept(v)
    PROVE  CommentInv'
<1>1. crew' \in [Videos -> Workers] /\ \A u \in Videos : crew'[u] \in GoodWorkers(u)
  BY CrewGoesOn DEF WorkerChange
<1>2. jobs' \in [Videos -> SUBSET Job] /\ \A u \in Videos : jobs'[u] \subseteq GoodJobs(u)
  <2>1. CASE UNCHANGED jobs
    BY <2>1 DEF CommentInv
  <2>2. ASSUME NEW js, JobChange(v, js) PROVE jobs' \in [Videos -> SUBSET Job] /\ \A u \in Videos : jobs'[u] \subseteq GoodJobs(u)
    BY <2>2, JobsGoOn DEF JobChange
  <2> QED BY <2>1, <2>2
<1>3. \A u \in tape' : u # v /\ u \in tape
  BY DEF TapeKept, CommentInv
<1>4. \A u \in Videos \ {v} : crew'[u] = crew[u]
  BY DEF WorkerChange, CommentInv
<1>5. \A u \in tape' : crew'[u].at = "away"
  BY <1>3, <1>4 DEF CommentInv, RestTyped
<1> QED BY <1>1, <1>2, <1>5 DEF CommentInv, GoodJobs, GoodWorkers, JobFollows, WorkerFollows, ReadBefore

LEMMA BeginKeeps == ASSUME CommentInv, NEW v \in Videos, Begin(v) PROVE CommentInv'
<1> DEFINE w == Worker("ask", crew[v].job, crew[v].batch)
<1>1. crew[v].at = "away" /\ crew[v].batch = {}
  BY JobOf DEF Begin, CommentInv, WorkerFollows
<1>2. w \in Workers /\ WorkerFollows(v, w)
  <2>1. crew[v].job \in Job /\ JobFollows(v, crew[v].job) /\ "ask" \in {"away", "ask", "send", "sent", "mark"}
        /\ crew[v].batch \in SUBSET CommentIds /\ crew[v].batch \subseteq crew[v].job.got
        /\ <<v, crew[v].job.page, "top">> \notin crew[v].batch
    BY <1>1, JobOf
  <2> QED BY <2>1, WorkerMade
<1>3. crew' = [crew EXCEPT ![v] = w]
  BY CrewSet DEF Begin, CommentInv
<1> HIDE DEF w
<1>4. RestTyped' /\ TapeKept(v)
  BY DEF Begin, CommentInv, RestTyped, TapeKept, enqueueVars
<1> QED BY <1>2, <1>3, <1>4, WorkerKeeps DEF WorkerChange, Begin

LEMMA WantedIs ==
    ASSUME CommentInv, NEW v \in Videos
    PROVE  /\ Wanted(v) \in CommentIds
           /\ Wanted(v) = IF <<v, crew[v].job.page, "top">> \in crew[v].batch THEN <<v, crew[v].job.page, "reply">>
                          ELSE <<v, crew[v].job.page, "top">>
           /\ crew[v].at = "ask" => Wanted(v) \in CommentsOf(v)
BY JobOf, PageIds DEF Wanted, WorkerFollows

LEMMA AnsweredKeeps == ASSUME CommentInv, NEW v \in Videos, Answered(v) PROVE CommentInv'
<1> DEFINE a == IF Wanted(v) \in seen THEN "sent" ELSE "send"
           j == JobAt(crew[v].job.page, crew[v].job.replied, crew[v].job.got \cup {Wanted(v)})
           b == crew[v].batch \cup {Wanted(v)}
           g == crew[v].job.got \cup {Wanted(v)}
<1>1. [crew[v].job EXCEPT !.got = g] = j
  <2> HIDE DEF g
  <2> QED BY JobOf, JobSet DEF g
<1>2. crew' = [crew EXCEPT ![v] = [at |-> a, job |-> [crew[v].job EXCEPT !.got = g], batch |-> b]]
  BY DEF Answered, CommentInv
<1>3. crew' = [crew EXCEPT ![v] = Worker(a, j, b)]
  BY <1>1, <1>2, Zenon DEF Worker
<1>4. j \in Job /\ j.page = crew[v].job.page /\ j.replied = crew[v].job.replied /\ j.got = crew[v].job.got \cup {Wanted(v)}
  <2>1. g \in SUBSET CommentIds
    BY JobOf, WantedIs
  <2> HIDE DEF g
  <2>2. j = JobAt(crew[v].job.page, crew[v].job.replied, g)
    BY DEF g
  <2>3. j \in Job /\ j.page = crew[v].job.page /\ j.replied = crew[v].job.replied /\ j.got = g
    BY <2>1, <2>2, JobOf, JobMade
  <2> QED BY <2>3 DEF g
<1>5. b \in SUBSET CommentIds /\ a \in {"send", "sent"}
  BY JobOf, WantedIs
<1>6. <<v, crew[v].job.page, "top">> \in b
  BY WantedIs
<1> HIDE DEF j
<1>7. JobFollows(v, j)
  BY <1>4, JobOf, WantedIs DEF JobFollows, Answered
<1>8. b \subseteq j.got
  BY <1>4, JobOf DEF WorkerFollows
<1> HIDE DEF a, b
<1>9. Worker(a, j, b) \in Workers /\ WorkerFollows(v, Worker(a, j, b))
  BY <1>4, <1>5, <1>6, <1>7, <1>8, WorkerMade
<1>10. RestTyped' /\ TapeKept(v)
  BY WantedIs DEF Answered, CommentInv, RestTyped, TapeKept, restOfComments, enqueueVars
<1> QED BY <1>3, <1>9, <1>10, WorkerKeeps DEF WorkerChange, Answered
LEMMA NewestIs ==
    ASSUME CommentInv, NEW v \in Videos
    PROVE  /\ Newest(v) \in CommentIds
           /\ Newest(v)[3] = "top" <=> <<v, crew[v].job.page, "reply">> \notin crew[v].batch
           /\ Newest(v)[3] = "reply" <=> <<v, crew[v].job.page, "reply">> \in crew[v].batch
<1>1. crew[v].job.page \in CommentPages
  BY JobOf
<1>2. CASE <<v, crew[v].job.page, "reply">> \in crew[v].batch
  <2>1. Newest(v) = <<v, crew[v].job.page, "reply">>
    BY <1>2 DEF Newest
  <2> QED BY <1>1, <1>2, <2>1, PageIds
<1>3. CASE <<v, crew[v].job.page, "reply">> \notin crew[v].batch
  <2>1. Newest(v) = <<v, crew[v].job.page, "top">>
    BY <1>3 DEF Newest
  <2> QED BY <1>1, <1>3, <2>1, PageIds
<1> QED BY <1>2, <1>3

LEMMA SendKeeps == ASSUME CommentInv, NEW v \in Videos, Sent(v) \/ NotSent(v) \/ AskReplies(v) PROVE CommentInv'
<1> USE DEF restOfComments, enqueueVars
<1>1. crew[v].job \in Job /\ JobFollows(v, crew[v].job) /\ crew[v].batch \in SUBSET CommentIds
      /\ crew[v].batch \subseteq crew[v].job.got
  BY JobOf DEF WorkerFollows
<1>2. Newest(v) \in CommentIds
  BY NewestIs
<1>3. CASE Sent(v) \/ NotSent(v)
  <2>1. crew[v].at = "send"
    BY <1>3 DEF Sent, NotSent
  <2>2. <<v, crew[v].job.page, "top">> \in crew[v].batch
    BY <2>1, JobOf DEF WorkerFollows
  <2>3. Worker("sent", crew[v].job, crew[v].batch) \in Workers /\ WorkerFollows(v, Worker("sent", crew[v].job, crew[v].batch))
    <3>1. "sent" \in {"away", "ask", "send", "sent", "mark"}
      OBVIOUS
    <3> QED BY <1>1, <2>2, <3>1, WorkerMade
  <2>4. crew' = [crew EXCEPT ![v] = Worker("sent", crew[v].job, crew[v].batch)]
    BY <1>3, CrewSet DEF Sent, NotSent, CommentInv
  <2>5. slipUps' \in 0 .. MaxSlipUps
    BY <1>3, SlipTyped DEF Sent, NotSent, CommentInv, RestTyped
  <2>6. inKafka' \subseteq CommentIds /\ seen' \subseteq CommentIds
    BY <1>2, <1>3 DEF Sent, NotSent, CommentInv, RestTyped
  <2>7. RestTyped' /\ TapeKept(v)
    BY <1>3, <2>1, <2>5, <2>6 DEF Sent, NotSent, CommentInv, RestTyped, TapeKept
  <2> QED BY <1>3, <2>3, <2>4, <2>7, WorkerKeeps DEF WorkerChange, Sent, NotSent
<1>4. CASE AskReplies(v)
  <2>1. crew[v].at = "sent" /\ crew[v].job.page \in Threads
    BY <1>4 DEF AskReplies
  <2>2. Worker("ask", crew[v].job, crew[v].batch) \in Workers /\ WorkerFollows(v, Worker("ask", crew[v].job, crew[v].batch))
    <3>1. "ask" \in {"away", "ask", "send", "sent", "mark"}
      OBVIOUS
    <3> QED BY <1>1, <2>1, <3>1, WorkerMade
  <2>3. crew' = [crew EXCEPT ![v] = Worker("ask", crew[v].job, crew[v].batch)]
    BY <1>4, CrewSet DEF AskReplies, CommentInv
  <2>4. RestTyped' /\ TapeKept(v)
    BY <1>4, <2>1 DEF AskReplies, CommentInv, RestTyped, TapeKept
  <2> QED BY <1>4, <2>2, <2>3, <2>4, WorkerKeeps DEF WorkerChange, AskReplies
<1> QED BY <1>3, <1>4

LEMMA SaveRepliedKeeps == ASSUME CommentInv, NEW v \in Videos, SaveReplied(v) PROVE CommentInv'
<1> DEFINE yes == TRUE
           j == JobAt(crew[v].job.page, yes, crew[v].job.got)
<1>1. crew[v].job \in Job /\ JobFollows(v, crew[v].job) /\ crew[v].batch \in SUBSET CommentIds
      /\ crew[v].batch \subseteq crew[v].job.got /\ crew[v].at = "sent"
  BY JobOf DEF WorkerFollows, SaveReplied
<1>2. yes \in BOOLEAN
  OBVIOUS
<1>3. crew' = [crew EXCEPT ![v].job = [crew[v].job EXCEPT !.replied = yes]] /\ jobs' = [jobs EXCEPT ![v] = {[crew[v].job EXCEPT !.replied = yes]}]
  BY DEF SaveReplied
<1>4. <<v, crew[v].job.page, "reply">> \in crew[v].job.got
  BY <1>1, NewestIs DEF SaveReplied
<1>5. crew[v].job.page \in Threads
  <2>1. <<v, crew[v].job.page, "reply">> \in CommentsOf(v)
    BY <1>1, <1>4 DEF JobFollows
  <2> QED BY <2>1 DEF CommentsOf
<1>6. <<v, crew[v].job.page, "top">> \in crew[v].batch
  BY <1>1, JobOf DEF WorkerFollows
<1> HIDE DEF yes
<1>7. [crew[v].job EXCEPT !.replied = yes] = j
  BY <1>1, JobSet
<1>8. j \in Job /\ j.page = crew[v].job.page /\ j.got = crew[v].job.got
  BY <1>2, JobOf, JobMade
<1> HIDE DEF j
<1>9. JobFollows(v, j)
  BY <1>1, <1>4, <1>5, <1>8 DEF JobFollows
<1>10. Worker(crew[v].at, j, crew[v].batch) \in Workers /\ WorkerFollows(v, Worker(crew[v].at, j, crew[v].batch))
  <2>1. crew[v].at \in {"away", "ask", "send", "sent", "mark"}
    BY <1>1
  <2>2. crew[v].batch \subseteq j.got /\ <<v, j.page, "top">> \in crew[v].batch /\ j.page \in Threads
    BY <1>1, <1>5, <1>6, <1>8
  <2> QED BY <1>1, <1>8, <1>9, <2>1, <2>2, WorkerMade
<1>11. crew' = [crew EXCEPT ![v] = Worker(crew[v].at, j, crew[v].batch)]
  BY <1>3, <1>7, CrewSet DEF CommentInv
<1>12. JobChange(v, {j})
  BY <1>3, <1>7, <1>8, <1>9 DEF JobChange, GoodJobs
<1>13. RestTyped' /\ TapeKept(v)
  BY <1>1 DEF SaveReplied, CommentInv, RestTyped, TapeKept, restOfComments, enqueueVars
<1> QED BY <1>10, <1>11, <1>12, <1>13, WorkerKeeps DEF WorkerChange

\* A page that is done was read with its replies.
LEMMA DoneIsRead ==
    ASSUME CommentInv, NEW v \in Videos, PageDone(v)
    PROVE  /\ crew[v].at = "sent" /\ ReadBefore(v, crew[v].job.page + 1) \subseteq crew[v].job.got
           /\ crew[v].job.page = LastComment => crew[v].job.got = CommentsOf(v)
<1>1. crew[v].at = "sent" /\ (crew[v].job.page \in Threads => crew[v].job.replied)
  BY DEF PageDone
<1>2. <<v, crew[v].job.page, "top">> \in crew[v].job.got
  BY <1>1, JobOf DEF WorkerFollows
<1>3. crew[v].job.page \in Threads => <<v, crew[v].job.page, "reply">> \in crew[v].job.got
  BY <1>1, JobOf DEF JobFollows
<1>4. ReadBefore(v, crew[v].job.page) \subseteq crew[v].job.got /\ crew[v].job.got \subseteq CommentsOf(v)
  BY JobOf DEF JobFollows
<1>5. crew[v].job.page \in CommentPages
  BY JobOf
<1>6. /\ ReadBefore(v, crew[v].job.page + 1) \subseteq crew[v].job.got
      /\ crew[v].job.page = LastComment => CommentsOf(v) \subseteq crew[v].job.got
  <2> DEFINE p == crew[v].job.page
             got == crew[v].job.got
  <2>1. p \in CommentPages /\ ReadBefore(v, p) \subseteq got /\ <<v, p, "top">> \in got /\ (p \in Threads => <<v, p, "reply">> \in got)
    BY <1>1, <1>2, <1>3, <1>4, <1>5
  <2> HIDE DEF p, got
  <2>2. ReadBefore(v, p + 1) \subseteq got /\ (p = LastComment => CommentsOf(v) \subseteq got)
    BY <2>1, ReadOne
  <2> QED BY <2>2 DEF p, got
<1> QED BY <1>1, <1>4, <1>6

LEMMA SaveCursorKeeps == ASSUME CommentInv, NEW v \in Videos, SaveCursor(v) PROVE CommentInv'
<1> DEFINE no == FALSE
           j == JobAt(crew[v].job.page + 1, no, crew[v].job.got)
<1>1. crew[v].job \in Job /\ JobFollows(v, crew[v].job) /\ PageDone(v)
  BY JobOf DEF SaveCursor
<1>2. no \in BOOLEAN /\ ~no
  OBVIOUS
<1>3. NextPage(crew[v].job) = [crew[v].job EXCEPT !.page = @ + 1, !.replied = no]
  BY DEF NextPage
<1> HIDE DEF no
<1>4. NextPage(crew[v].job) = j
  BY <1>1, <1>3, JobSet
<1>5. crew[v].job.page + 1 \in CommentPages
  BY JobOf, OmarCommentsAssumption DEF SaveCursor, CommentPages
<1>6. j \in Job /\ j.page = crew[v].job.page + 1 /\ j.got = crew[v].job.got /\ j.replied = no
  BY <1>2, <1>5, JobOf, JobMade
<1>7. crew' = [crew EXCEPT ![v] = [at |-> "ask", job |-> NextPage(crew[v].job), batch |-> {}]]
      /\ jobs' = [jobs EXCEPT ![v] = {NextPage(crew[v].job)}]
  BY DEF SaveCursor
<1>8. crew' = [crew EXCEPT ![v] = Worker("ask", j, {})] /\ jobs' = [jobs EXCEPT ![v] = {j}]
  BY <1>4, <1>7 DEF Worker
<1> HIDE DEF j
<1>9. JobFollows(v, j)
  BY <1>1, <1>2, <1>6, DoneIsRead DEF JobFollows
<1>10. Worker("ask", j, {}) \in Workers /\ WorkerFollows(v, Worker("ask", j, {}))
  <2>1. "ask" \in {"away", "ask", "send", "sent", "mark"} /\ {} \in SUBSET CommentIds /\ <<v, j.page, "top">> \notin {}
    OBVIOUS
  <2> QED BY <1>6, <1>9, <2>1, WorkerMade
<1>11. JobChange(v, {j})
  BY <1>6, <1>8, <1>9 DEF JobChange, GoodJobs
<1>12. RestTyped' /\ TapeKept(v)
  BY <1>1, DoneIsRead DEF SaveCursor, CommentInv, RestTyped, TapeKept, restOfComments, enqueueVars
<1> QED BY <1>8, <1>10, <1>11, <1>12, WorkerKeeps DEF WorkerChange

LEMMA DeleteKeeps == ASSUME CommentInv, NEW v \in Videos, DeleteJob(v) PROVE CommentInv'
<1>1. crew[v].at = "sent" /\ crew[v].job.got = CommentsOf(v)
  BY DoneIsRead DEF DeleteJob
<1>2. crew[v].job \in Job /\ JobFollows(v, crew[v].job) /\ crew[v].batch \in SUBSET CommentIds
      /\ crew[v].batch \subseteq crew[v].job.got /\ "mark" \in {"away", "ask", "send", "sent", "mark"}
  BY JobOf DEF WorkerFollows
<1>3. Worker("mark", crew[v].job, crew[v].batch) \in Workers /\ WorkerFollows(v, Worker("mark", crew[v].job, crew[v].batch))
  BY <1>1, <1>2, WorkerMade
<1>4. crew' = [crew EXCEPT ![v] = Worker("mark", crew[v].job, crew[v].batch)]
  BY CrewSet DEF DeleteJob, CommentInv
<1>5. JobChange(v, {})
  BY DEF DeleteJob, JobChange
<1>6. RestTyped' /\ TapeKept(v)
  BY <1>1 DEF DeleteJob, CommentInv, RestTyped, TapeKept, restOfComments, enqueueVars
<1> QED BY <1>3, <1>4, <1>5, <1>6, WorkerKeeps DEF WorkerChange

LEMMA GoneKeeps == ASSUME CommentInv, NEW v \in Videos, VideoGone(v) PROVE CommentInv'
<1> DEFINE all == CommentsOf(v)
           j == JobAt(crew[v].job.page, crew[v].job.replied, all)
<1>1. crew[v].job \in Job /\ JobFollows(v, crew[v].job) /\ crew[v].at = "ask"
  BY JobOf DEF VideoGone
<1>2. all \in SUBSET CommentIds
  BY IdsOf
<1>3. crew' = [crew EXCEPT ![v] = [at |-> "mark", job |-> [crew[v].job EXCEPT !.got = all], batch |-> {}]]
  BY DEF VideoGone
<1>4. crew[v].job.got \subseteq all
  BY <1>1 DEF JobFollows
<1> HIDE DEF all
<1>5. [crew[v].job EXCEPT !.got = all] = j
  BY <1>1, JobSet
<1>6. crew' = [crew EXCEPT ![v] = Worker("mark", j, {})]
  BY <1>3, <1>5, Zenon DEF Worker
<1>7. j \in Job /\ j.page = crew[v].job.page /\ j.got = all /\ j.replied = crew[v].job.replied
  BY <1>2, JobOf, JobMade
<1> HIDE DEF j
<1>8. JobFollows(v, j)
  BY <1>1, <1>4, <1>7 DEF JobFollows, all
<1>9. Worker("mark", j, {}) \in Workers /\ WorkerFollows(v, Worker("mark", j, {}))
  <2>1. "mark" \in {"away", "ask", "send", "sent", "mark"} /\ {} \in SUBSET CommentIds
    OBVIOUS
  <2>2. j.got = CommentsOf(v)
    BY <1>7 DEF all
  <2> QED BY <1>7, <1>8, <2>1, <2>2, WorkerMade
<1>10. JobChange(v, {})
  BY DEF VideoGone, JobChange
<1>11. slipUps' \in 0 .. MaxSlipUps
  BY SlipTyped DEF VideoGone, CommentInv
<1>12. RestTyped' /\ TapeKept(v)
  BY <1>1, <1>11 DEF VideoGone, CommentInv, RestTyped, TapeKept, restOfComments, enqueueVars
<1> QED BY <1>6, <1>9, <1>10, <1>12, WorkerKeeps DEF WorkerChange

LEMMA LeaveKeeps == ASSUME CommentInv, NEW v \in Videos, MarkPost(v) \/ WorkerFails(v) PROVE CommentInv'
<1> USE DEF restOfComments, enqueueVars
<1>1. NoWorker \in Workers /\ WorkerFollows(v, NoWorker)
  BY NewJobGood DEF GoodWorkers
<1>2. crew' = [crew EXCEPT ![v] = NoWorker] /\ UNCHANGED jobs /\ crew[v].at # "away"
  BY DEF MarkPost, WorkerFails
<1>3. slipUps' \in 0 .. MaxSlipUps
  BY SlipTyped DEF MarkPost, WorkerFails, CommentInv, RestTyped
<1>4. marked' \subseteq Videos
  BY DEF MarkPost, WorkerFails, CommentInv, RestTyped
<1>5. RestTyped' /\ TapeKept(v)
  BY <1>2, <1>3, <1>4 DEF MarkPost, WorkerFails, CommentInv, RestTyped, TapeKept
<1> QED BY <1>1, <1>2, <1>5, WorkerKeeps DEF WorkerChange
LEMMA QueueKeeps ==
    ASSUME CommentInv,
           BeginEnqueue \/ Choose \/ Put \/ SetWeek \/ EnqueueFails \/ LockEnds \/ Tomorrow
           \/ WorthChanges \/ (\E v \in Videos : EnqueueVideo(v) \/ NeedsCrawl(v))
    PROVE  CommentInv'
<1> USE DEF workVars, enqueueVars
<1>1. jobs' \in [Videos -> SUBSET Job] /\ \A v \in Videos : jobs'[v] \subseteq GoodJobs(v)
  <2>1. \A v \in Videos : {NewJob} \subseteq GoodJobs(v) /\ {NewJob} \in SUBSET Job
    BY NewJobGood DEF GoodJobs
  <2>2. CASE Put
    <3>1. jobs' = [v \in Videos |-> IF v \in enqueue.chosen THEN {NewJob} ELSE jobs[v]]
      BY <2>2 DEF Put
    <3> HIDE DEF NewJob
    <3> QED BY <2>1, <3>1 DEF CommentInv
  <2>3. ASSUME NEW v \in Videos, EnqueueVideo(v) PROVE jobs' \in [Videos -> SUBSET Job] /\ \A u \in Videos : jobs'[u] \subseteq GoodJobs(u)
    <3> DEFINE js == {NewJob}
    <3>1. jobs' = [jobs EXCEPT ![v] = js] /\ js \subseteq GoodJobs(v)
      BY <2>1, <2>3 DEF EnqueueVideo
    <3> HIDE DEF js
    <3> QED BY <3>1, JobsGoOn
  <2>4. CASE UNCHANGED jobs
    BY <2>4 DEF CommentInv
  <2> QED BY <2>2, <2>3, <2>4 DEF BeginEnqueue, Choose, SetWeek, EnqueueFails, LockEnds, Tomorrow, WorthChanges, NeedsCrawl
<1>2. enqueue' \in [at : {"none", "choose", "put", "week"}, chosen : SUBSET Videos]
  BY DEF BeginEnqueue, Choose, Put, SetWeek, EnqueueFails, LockEnds, Tomorrow, WorthChanges, NeedsCrawl, EnqueueVideo, NoEnqueue, CommentInv, RestTyped
<1>3. slipUps' \in 0 .. MaxSlipUps
  BY SlipTyped DEF BeginEnqueue, Choose, Put, SetWeek, EnqueueFails, LockEnds, Tomorrow, WorthChanges, NeedsCrawl, EnqueueVideo, CommentInv, RestTyped
<1>4. UNCHANGED <<seen, inKafka, tape, crew, working>> /\ weekKey' \in BOOLEAN /\ enqLock' \in BOOLEAN
      /\ worth' \subseteq Videos /\ marked' \subseteq Videos
  BY DEF BeginEnqueue, Choose, Put, SetWeek, EnqueueFails, LockEnds, Tomorrow, WorthChanges, NeedsCrawl, EnqueueVideo, CommentInv, RestTyped
<1> QED BY <1>1, <1>2, <1>3, <1>4 DEF CommentInv, RestTyped, GoodJobs, GoodWorkers

\* The workers are set to away, with a job of the queue or none.
LEMMA CrewMade ==
    ASSUME CommentInv, NEW v \in Videos, NEW j \in jobs[v]
    PROVE  [NoWorker EXCEPT !.job = j] \in GoodWorkers(v) /\ [NoWorker EXCEPT !.job = j].at = "away"
<1>1. j \in Job /\ JobFollows(v, j)
  BY DEF CommentInv, GoodJobs
<1>2. [NoWorker EXCEPT !.job = j] = Worker("away", j, {})
  BY DEF NoWorker, Worker
<1>3. Worker("away", j, {}) \in Workers /\ WorkerFollows(v, Worker("away", j, {})) /\ Worker("away", j, {}).at = "away"
  <2>1. "away" \in {"away", "ask", "send", "sent", "mark"} /\ {} \in SUBSET CommentIds
    OBVIOUS
  <2> QED BY <1>1, <2>1, WorkerMade, MadeTyped
<1> QED BY <1>2, <1>3 DEF GoodWorkers

LEMMA RoundKeeps ==
    ASSUME CommentInv, OpenQueue \/ CloseQueue \/ Halt \/ RestartComments
    PROVE  CommentInv'
<1> USE DEF enqueueVars
<1>1. \A v \in Videos : NoWorker \in GoodWorkers(v) /\ GoodWorkers(v) \subseteq Workers /\ NoWorker.at = "away"
  BY NewJobGood DEF GoodWorkers, NoWorker
<1>2. /\ crew' \in [Videos -> Workers] /\ \A v \in Videos : crew'[v] \in GoodWorkers(v)
      /\ \A v \in tape' : crew'[v].at = "away"
  <2>1. CASE OpenQueue
    <3>1. tape' \subseteq Videos /\ \A v \in tape' : jobs[v] # {}
      BY <2>1 DEF OpenQueue
    <3>2. crew' = [v \in Videos |-> IF v \in tape' THEN [NoWorker EXCEPT !.job = CHOOSE j \in jobs[v] : TRUE] ELSE NoWorker]
      BY <2>1 DEF OpenQueue
    <3>3. ASSUME NEW v \in tape'
          PROVE  /\ [NoWorker EXCEPT !.job = CHOOSE j \in jobs[v] : TRUE] \in GoodWorkers(v)
                 /\ [NoWorker EXCEPT !.job = CHOOSE j \in jobs[v] : TRUE].at = "away"
      <4> DEFINE j == CHOOSE j \in jobs[v] : TRUE
      <4>1. j \in jobs[v]
        BY <3>1
      <4> HIDE DEF j
      <4>2. [NoWorker EXCEPT !.job = j] \in GoodWorkers(v) /\ [NoWorker EXCEPT !.job = j].at = "away"
        BY <3>1, <4>1, CrewMade
      <4> QED BY <4>2 DEF j
    <3> HIDE DEF NoWorker
    <3> QED BY <1>1, <3>1, <3>2, <3>3
  <2>2. CASE CloseQueue
    BY <2>2 DEF CloseQueue, CommentInv
  <2>3. CASE Halt
    <3>1. crew' = [v \in Videos |-> IF crew[v].at = "ask" THEN NoWorker ELSE crew[v]] /\ tape' = {}
      BY <2>3 DEF Halt
    <3> HIDE DEF NoWorker
    <3> QED BY <1>1, <3>1 DEF CommentInv
  <2>4. CASE RestartComments
    <3>1. crew' = [v \in Videos |-> NoWorker] /\ tape' = {}
      BY <2>4 DEF RestartComments
    <3> HIDE DEF NoWorker
    <3> QED BY <1>1, <3>1
  <2> QED BY <2>1, <2>2, <2>3, <2>4
<1>3. enqueue' \in [at : {"none", "choose", "put", "week"}, chosen : SUBSET Videos]
  BY DEF OpenQueue, CloseQueue, Halt, RestartComments, NoEnqueue, CommentInv, RestTyped
<1>4. slipUps' \in 0 .. MaxSlipUps
  BY SlipTyped DEF OpenQueue, CloseQueue, Halt, RestartComments, CommentInv, RestTyped
<1>5. UNCHANGED <<jobs, weekKey, enqLock, seen, inKafka, worth, marked>> /\ working' \in BOOLEAN /\ tape' \subseteq Videos
  BY DEF OpenQueue, CloseQueue, Halt, RestartComments, CommentInv, RestTyped
<1> QED BY <1>2, <1>3, <1>4, <1>5 DEF CommentInv, RestTyped, GoodJobs, GoodWorkers

LEMMA CommentInvInit == OmarCommentsInit => CommentInv
<1> SUFFICES ASSUME OmarCommentsInit PROVE CommentInv
  OBVIOUS
<1>1. \A v \in Videos : NoWorker \in GoodWorkers(v) /\ GoodWorkers(v) \subseteq Workers
  BY NewJobGood DEF GoodWorkers
<1>2. NoEnqueue \in [at : {"none", "choose", "put", "week"}, chosen : SUBSET Videos]
  BY DEF NoEnqueue
<1>3. 0 \in 0 .. MaxSlipUps
  BY OmarCommentsAssumption
<1>4. RestTyped
  BY <1>2, <1>3 DEF OmarCommentsInit, RestTyped
<1> HIDE DEF NoWorker
<1>5. crew = [v \in Videos |-> NoWorker] /\ jobs = [v \in Videos |-> {}] /\ tape = {}
  BY DEF OmarCommentsInit
<1> QED BY <1>1, <1>4, <1>5 DEF CommentInv

LEMMA CommentInvStep == CommentInv /\ [OmarCommentsNext]_commentVars => CommentInv'
<1> SUFFICES ASSUME CommentInv, [OmarCommentsNext]_commentVars PROVE CommentInv'
  OBVIOUS
<1>1. CASE UNCHANGED commentVars
  BY <1>1 DEF commentVars, CommentInv, RestTyped, GoodJobs, GoodWorkers
<1>2. ASSUME NEW v \in Videos, WorkerStep(v) \/ NotSent(v) \/ VideoGone(v) \/ WorkerFails(v) PROVE CommentInv'
  BY <1>2, BeginKeeps, AnsweredKeeps, SendKeeps, SaveRepliedKeeps, SaveCursorKeeps, DeleteKeeps, GoneKeeps, LeaveKeeps
     DEF WorkerStep
<1> QED BY <1>1, <1>2, QueueKeeps, RoundKeeps DEF OmarCommentsNext, EnqueueStep

\* The queue, the workers and what has been read have their types, for any number of videos, pages
\* and workers.
THEOREM CommentTypes == OmarCommentsSpec => []OmarCommentsTypeOK
BY CommentInvInit, CommentInvStep, CommentInvIs, PTL DEF OmarCommentsSpec

\* A video is marked, and leaves the queue, only when every page of its comments and every thread of
\* replies was answered, over any number of rounds, halts, restarts and jobs put over one another.
THEOREM MarkedIsRead == OmarCommentsSpec => []FinishedIsRead
BY CommentInvInit, CommentInvStep, CommentInvIs, PTL DEF OmarCommentsSpec

=============================================================================
