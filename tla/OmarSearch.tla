------------------------------- MODULE OmarSearch -------------------------------
(***************************************************************************)
(* One search query of TikTok (app/services/omar/omar_search.py).  A query *)
(* has several passes, one for each way to sort the videos and one for     *)
(* photos, and each pass a few pages.  A round searches a query once a day *)
(* and one page at a time, in turn with the other queries and for what is  *)
(* left of its budget; an operator may have a query searched at once.      *)
(* Both keep the cursors of passes they leave in Redis.                    *)
(***************************************************************************)
EXTENDS Naturals, FiniteSets

CONSTANTS
    Passes,        \* 1 .. Passes
    SearchLast,    \* the pages of a pass are 0 .. SearchLast
    SearchPages,   \* omar_search_pages
    EmptyTries,    \* _EMPTY_RETRIES
    PruneDays,     \* omar_search_prune_days
    LastDate,      \* bound: days
    MaxMistakes    \* bound: bad answers, restarts, and searches by hand

Searches == {"round", "hand"}
PassNos  == 1 .. Passes

ASSUME SearchAssumption ==
    /\ Passes \in Nat \ {0} /\ SearchLast \in Nat /\ SearchPages \in Nat \ {0} /\ EmptyTries \in Nat
    /\ PruneDays \in Nat \ {0} /\ LastDate \in Nat \ {0} /\ MaxMistakes \in Nat

VARIABLES
    date,
    saved,     \* Redis: saved[p], the cursor of pass p, if there is one, and the pages before it
    doneOn,    \* Redis: the day the query is done
    streak,    \* Redis: searches in a row that found nothing new
    pruned,    \* D1: the suggested query has been deleted
    search,    \* search[k]: the _QuerySearch of the round and of the operator, if there is one
    budget,    \* of the round: "some", "out", or "none" for no round
    proof,     \* history: the passes of the last search that the round marked as done
    mistakes

searchRedis == <<saved, doneOn, streak, pruned>>
searchVars  == <<date, searchRedis, search, budget, proof, mistakes>>

\* at: between two steps, in the middle of one, or through.  part: self.index.  had: history, the
\* pages answered since the pass began.  whole: self.complete.  passed: history, had and the
\* manner of the end for each pass that is behind.
Fresh(d) == [at |-> "next", day |-> d, part |-> 1, known |-> FALSE, cursor |-> 0, had |-> {},
             pages |-> 0, empty |-> 0, whole |-> TRUE, passed |-> [p \in PassNos |-> {}]]

OmarSearchInit ==
    /\ date = 1 /\ saved = [p \in PassNos |-> {}] /\ doneOn = 0 /\ streak = 0 /\ pruned = FALSE
    /\ search = [k \in Searches |-> {}] /\ budget = "none" /\ proof = {} /\ mistakes = 0

Mistake == mistakes < MaxMistakes /\ mistakes' = mistakes + 1

Goes(k, c) == search' = [search EXCEPT ![k] = {c}]
Gone(k)    == search' = [search EXCEPT ![k] = {}]

-----------------------------------------------------------------------------
(* run_search, search_now                                                  *)

RoundOpens ==
    /\ budget # "some" /\ search["round"] = {} /\ budget' = "some"
    /\ IF doneOn # date /\ ~pruned THEN Goes("round", Fresh(date)) ELSE UNCHANGED search
    /\ UNCHANGED <<date, searchRedis, proof, mistakes>>

SearchNow ==
    /\ search["hand"] = {} /\ ~pruned /\ Mistake /\ Goes("hand", Fresh(date))
    /\ UNCHANGED <<date, searchRedis, budget, proof>>

\* The other queries, the channels and the hashtags spend the budget too.
BudgetRunsOut ==
    /\ budget = "some" /\ budget' = "out"
    /\ UNCHANGED <<date, searchRedis, search, proof, mistakes>>

\* halted() of the loop of run_round_robin: no query has another step.
LoopStops ==
    /\ budget = "out" /\ \E c \in search["round"] : c.at = "next"
    /\ Gone("round")
    /\ UNCHANGED <<date, searchRedis, budget, proof, mistakes>>

-----------------------------------------------------------------------------
(* _QuerySearch.step                                                       *)

MayStep(k) == k = "hand" \/ budget = "some"

\* The first step of a pass reads the cursor from Redis, while others may go on.
ReadCursor(k) ==
    /\ MayStep(k)
    /\ \E c \in search[k] :
        /\ c.at = "next" /\ ~c.known
        /\ IF saved[c.part] = {} THEN Goes(k, [c EXCEPT !.at = "read", !.known = TRUE])
           ELSE \E s \in saved[c.part] :
                Goes(k, [c EXCEPT !.at = "read", !.known = TRUE, !.cursor = s.cursor, !.had = s.had])
    /\ UNCHANGED <<date, searchRedis, budget, proof, mistakes>>

TakePage(k) ==
    /\ MayStep(k)
    /\ \E c \in search[k] : (c.at = "read" \/ (c.at = "next" /\ c.known)) /\ Goes(k, [c EXCEPT !.at = "asked"])
    /\ UNCHANGED <<date, searchRedis, budget, proof, mistakes>>

CursorKept(c) == IF c.cursor = 0 THEN saved ELSE [saved EXCEPT ![c.part] = {[cursor |-> c.cursor, had |-> c.had]}]

\* take() is False, in the middle of the first step of a pass.
TakeFails ==
    /\ budget # "some"
    /\ \E c \in search["round"] : c.at = "read" /\ saved' = CursorKept(c)
    /\ Gone("round")
    /\ UNCHANGED <<date, doneOn, streak, pruned, budget, proof, mistakes>>

\* OmarStop: the quota of the day is used up, or the key is refused.
SearchStopped(k) ==
    /\ Mistake /\ \E c \in search[k] : c.at = "asked" /\ saved' = CursorKept(c)
    /\ Gone(k)
    /\ UNCHANGED <<date, doneOn, streak, pruned, budget, proof>>

\* _next_pass: the pass ended with its last page, a page that failed, one that was blank midway, or
\* nothing at all.
NextPass(k, c, end) ==
    /\ saved' = IF end = "blank" THEN CursorKept(c) ELSE [saved EXCEPT ![c.part] = {}]
    /\ Goes(k, [Fresh(c.day) EXCEPT
                    !.at = IF c.part = Passes THEN "through" ELSE "next", !.part = c.part + 1,
                    !.whole = c.whole /\ end # "failed",
                    !.passed = [c.passed EXCEPT ![c.part] = {[had |-> c.had, blank |-> end \in {"blank", "nothing"}]}]])

\* A page that fails: the rest of this pass is left, and the query is not done today.
PageFails(k) ==
    /\ Mistake
    /\ \E c \in search[k] : c.at = "asked" /\ NextPass(k, c, "failed")
    /\ UNCHANGED <<date, doneOn, streak, pruned, budget, proof>>

\* A page in the middle without results is asked for again, and then left to another search.
PageEmpty(k) ==
    /\ Mistake
    /\ \E c \in search[k] :
        /\ c.at = "asked"
        /\ IF c.cursor > 0 /\ c.empty < EmptyTries
           THEN Goes(k, [c EXCEPT !.at = "next", !.empty = @ + 1]) /\ UNCHANGED saved
           ELSE NextPass(k, c, IF c.cursor > 0 THEN "blank" ELSE "nothing")
    /\ UNCHANGED <<date, doneOn, streak, pruned, budget, proof>>

PageAnswered(k) ==
    /\ \E c \in search[k] :
        LET n == [c EXCEPT !.cursor = @ + 1, !.had = @ \cup {c.cursor}, !.pages = @ + 1, !.empty = 0, !.at = "next"] IN
        /\ c.at = "asked"
        /\ IF c.cursor = SearchLast \/ n.pages = SearchPages THEN NextPass(k, n, "end")
           ELSE Goes(k, n) /\ UNCHANGED saved
    /\ UNCHANGED <<date, doneOn, streak, pruned, budget, proof, mistakes>>

-----------------------------------------------------------------------------
(* _QuerySearch.finish                                                     *)

\* Mutant: finish returns True.
AnyFinish(c) == TRUE

\* self.complete
Complete(c) == c.whole

\* _track_zero, of a suggested query
TrackedZero(c) ==
    \/ UNCHANGED <<streak, pruned>>
    \/ Complete(c) /\ streak' = 0 /\ UNCHANGED pruned
    \/ /\ Complete(c) /\ streak' = (IF streak + 1 >= PruneDays THEN 0 ELSE streak + 1)
       /\ pruned' = (pruned \/ streak + 1 >= PruneDays)

\* A search by hand marks the query whatever finish says.
FinishSearch(k) ==
    /\ \E c \in search[k] :
        /\ c.at = "through" /\ TrackedZero(c)
        /\ doneOn' = IF k = "hand" THEN date ELSE IF Complete(c) THEN c.day ELSE doneOn
        /\ proof' = IF k = "round" /\ Complete(c) THEN {c.passed} ELSE proof
    /\ Gone(k)
    /\ UNCHANGED <<date, saved, budget, mistakes>>

DateChanges ==
    /\ date < LastDate /\ date' = date + 1
    /\ UNCHANGED <<searchRedis, search, budget, proof, mistakes>>

SearchRestart ==
    /\ Mistake /\ search' = [k \in Searches |-> {}] /\ budget' = "none"
    /\ UNCHANGED <<date, searchRedis, proof>>

OmarSearchNext ==
    \/ RoundOpens \/ SearchNow \/ BudgetRunsOut \/ LoopStops \/ TakeFails \/ DateChanges \/ SearchRestart
    \/ \E k \in Searches :
        \/ ReadCursor(k) \/ TakePage(k) \/ SearchStopped(k) \/ PageFails(k) \/ PageEmpty(k)
        \/ PageAnswered(k) \/ FinishSearch(k)

OmarSearchSpec == OmarSearchInit /\ [][OmarSearchNext]_searchVars

-----------------------------------------------------------------------------
(* Properties                                                              *)

PassEnds     == [had : SUBSET (0 .. SearchLast), blank : BOOLEAN]
SearchStates == [at : {"next", "read", "asked", "through"}, day : 1 .. LastDate, part : 1 .. Passes + 1,
                 known : BOOLEAN, cursor : 0 .. SearchLast, had : SUBSET (0 .. SearchLast),
                 pages : 0 .. SearchPages - 1, empty : 0 .. EmptyTries, whole : BOOLEAN,
                 passed : [PassNos -> SUBSET PassEnds]]

OmarSearchTypeOK ==
    /\ date \in 1 .. LastDate /\ doneOn \in 0 .. LastDate /\ streak \in 0 .. PruneDays - 1 /\ pruned \in BOOLEAN
    /\ saved \in [PassNos -> SUBSET [cursor : 1 .. SearchLast, had : SUBSET (0 .. SearchLast)]]
    /\ search \in [Searches -> SUBSET SearchStates] /\ proof \subseteq [PassNos -> SUBSET PassEnds]
    /\ budget \in {"none", "some", "out"} /\ mistakes \in 0 .. MaxMistakes

\* A pass was gone through: from its first page without a gap, though several searches may have
\* shared in it, to its last or as far as one search may go.
GoneThrough(r) ==
    /\ \A i \in r.had, j \in 0 .. SearchLast : j < i => j \in r.had
    /\ SearchLast \in r.had \/ Cardinality(r.had) >= SearchPages

\* A round marks a query as done only when every pass of it was gone through: not over a page that
\* failed, nor over pages between two searches.  A page without results may end a pass early.
SearchDoneIsWhole ==
    \A passed \in proof, p \in PassNos : \E r \in passed[p] : r.blank \/ GoneThrough(r)

\* "The cursor of a (query, pass) under way when the round stops midway, out of budget: the next
\* round goes on from there instead of from page 1."
BudgetKeepsCursor ==
    [][\A c \in search["round"] :
        search'["round"] = {} /\ budget = "out" /\ budget' = "out" /\ c.cursor > 0 /\ c.part <= Passes
            => \E s \in saved'[c.part] : s.cursor = c.cursor]_searchVars
=============================================================================
