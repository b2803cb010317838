---------------------------- MODULE SentimentSweep ----------------------------
(***************************************************************************)
(* The sweep that gives stored comments a sentiment                        *)
(* (app/workers/ingest_consumer/sentiment_sweep.py).  Every process of the *)
(* ingest consumer runs one.  A sweep takes a lock in Redis that has a     *)
(* time to live and no owner, reads the newest comments without a label,   *)
(* has a model label them, and writes the labels where there is still      *)
(* none; a second statement says which model a label came from.  Comments  *)
(* the model has not labelled are left out after a number of attempts,     *)
(* which each process counts in memory, and a comment older than 48 hours  *)
(* is not read any more.                                                   *)
(***************************************************************************)
EXTENDS Naturals, FiniteSets

CONSTANTS
    Sweepers,      \* processes
    NewestRow,     \* the comments are 1 .. NewestRow, by age
    Unreadable,    \* comments for which no model returns a valid label
    RowLimit,      \* SWEEP_MAX_ROWS
    MaxAttempts,   \* MAX_ATTEMPTS
    MaxSlips       \* bound: kills, Redis failures, outages of the model, locks that run out

SweepRows == 1 .. NewestRow

ASSUME SweepAssumption ==
    /\ NewestRow \in Nat /\ Unreadable \subseteq SweepRows
    /\ RowLimit \in Nat \ {0} /\ MaxAttempts \in Nat \ {0} /\ MaxSlips \in Nat

VARIABLES
    sentiment,  \* sentiment[c]: the model that gave the label, "none" before
    source,     \* source[c]: sentiment_source is 'visobert'
    sweepLock,  \* the key of the lock exists
    sweep,      \* sweep[w]: where the loop of process w is
    attempts,   \* attempts[w][c]
    windowFrom, \* the oldest comment within SWEEP_WINDOW
    \* history
    unlocked,   \* a sweep ran without the lock, or outlived it
    slips

sweepVars == <<sentiment, source, sweepLock, sweep, attempts, windowFrom, unlocked, slips>>

Asleep == [at |-> "sleep", batch |-> {}, label |-> [c \in SweepRows |-> "none"]]

SweepInit ==
    /\ sentiment = [c \in SweepRows |-> "none"] /\ source = [c \in SweepRows |-> FALSE]
    /\ sweepLock = FALSE /\ sweep = [w \in Sweepers |-> Asleep]
    /\ attempts = [w \in Sweepers |-> [c \in SweepRows |-> 0]]
    /\ windowFrom = 1 /\ unlocked = FALSE /\ slips = 0

Sweeping(w) == sweep[w].at # "sleep"
Slip        == slips < MaxSlips /\ slips' = slips + 1

SweepGoesOn(w, s) == sweep' = [sweep EXCEPT ![w] = s]

-----------------------------------------------------------------------------
(* sweep_forever                                                           *)

\* Mutant: the key is set, not claimed.
LockIgnored == TRUE

\* SET NX
NoLock == ~sweepLock

\* _acquire_lock: without Redis the sweep runs without the lock.
AcquireSweep(w) ==
    /\ ~Sweeping(w)
    /\ SweepGoesOn(w, [Asleep EXCEPT !.at = "read"])
    /\ \/ NoLock /\ sweepLock' = TRUE /\ UNCHANGED <<unlocked, slips>>
       \/ Slip /\ unlocked' = TRUE /\ UNCHANGED sweepLock
    /\ UNCHANGED <<sentiment, source, attempts, windowFrom>>

\* Mutant: nothing is left out.
NothingLeftOut(w) == {}

\* Left out after MAX_ATTEMPTS.
LeftOut(w) == {c \in SweepRows : attempts[w][c] >= MaxAttempts}

\* The newest RowLimit of the comments in S.
NewestOf(S, limit) == {c \in S : Cardinality({d \in S : d > c}) < limit}

\* The newest without a label, if they are recent.  LIMIT counts the rows left out too: they are
\* dropped from what was read.
ReadPending(w) ==
    /\ sweep[w].at = "read"
    /\ LET pending == {c \in SweepRows : sentiment[c] = "none" /\ c >= windowFrom}
           read    == NewestOf(pending, RowLimit + Cardinality(LeftOut(w))) \ LeftOut(w) IN
        SweepGoesOn(w, [sweep[w] EXCEPT !.at = "classify", !.batch = NewestOf(read, RowLimit)])
    /\ UNCHANGED <<sentiment, source, sweepLock, attempts, windowFrom, unlocked, slips>>

\* classify_comments: the model of the house or the external one, for one batch after the other.
\* A batch can fail, and a comment of one that does not can come back without a label: whoever is
\* left without one, is in failed_ids.
Classify(w) ==
    /\ sweep[w].at = "classify"
    /\ \E m \in {"kira", "visobert"} : \E done \in SUBSET (sweep[w].batch \ Unreadable) :
        /\ IF done = sweep[w].batch \ Unreadable THEN UNCHANGED slips ELSE Slip
        /\ SweepGoesOn(w, [at |-> "save", batch |-> sweep[w].batch \ done,
                           label |-> [c \in SweepRows |-> IF c \in done THEN m ELSE "none"]])
    /\ UNCHANGED <<sentiment, source, sweepLock, attempts, windowFrom, unlocked>>

Labelled(w) == {c \in SweepRows : sweep[w].label[c] # "none"}

\* Mutant: the statement has no guard.
OverAnyLabel(c) == TRUE

\* AND +sentiment IS NULL
Unlabelled(c) == sentiment[c] = "none"

\* _save, its first statement, for every batch; what D1 refuses does not count as labelled, nor
\* as failed.
SaveLabels(w) ==
    /\ sweep[w].at = "save"
    /\ \E saved \in SUBSET Labelled(w) :
        /\ IF saved = Labelled(w) THEN UNCHANGED slips ELSE Slip
        /\ sentiment' = [c \in SweepRows |->
                IF c \in saved /\ Unlabelled(c) THEN sweep[w].label[c] ELSE sentiment[c]]
        /\ SweepGoesOn(w, [sweep[w] EXCEPT !.at = "source",
                !.label = [c \in SweepRows |-> IF c \in saved THEN sweep[w].label[c] ELSE "none"]])
    /\ UNCHANGED <<source, sweepLock, attempts, windowFrom, unlocked>>

\* _save, its second statement, which has no guard and whose failure nobody looks at
SaveSource(w) ==
    /\ sweep[w].at = "source"
    /\ \/ source' = [c \in SweepRows |-> sweep[w].label[c] = "visobert" \/ source[c]] /\ UNCHANGED slips
       \/ Slip /\ UNCHANGED source
    /\ SweepGoesOn(w, [sweep[w] EXCEPT !.at = "release"])
    /\ UNCHANGED <<sentiment, sweepLock, attempts, windowFrom, unlocked>>

\* Only a round in which the model labelled something counts as an attempt.
AttemptCounts(w) == Labelled(w) # {}

\* _release_lock deletes the key, whoever set it, if Redis answers.
ReleaseSweep(w) ==
    /\ sweep[w].at = "release"
    /\ \/ sweepLock' = FALSE /\ UNCHANGED slips
       \/ Slip /\ UNCHANGED sweepLock
    /\ attempts' = [attempts EXCEPT ![w] = [c \in SweepRows |->
            IF AttemptCounts(w) /\ c \in sweep[w].batch /\ attempts[w][c] < MaxAttempts
            THEN attempts[w][c] + 1 ELSE attempts[w][c]]]
    /\ SweepGoesOn(w, Asleep)
    /\ UNCHANGED <<sentiment, source, windowFrom, unlocked>>

\* D1 refuses the SELECT, the models raise, or the posts, which are swept after the comments, do:
\* the sweep ends through the finally clause, and counts no attempt.
SweepFails(w) ==
    /\ sweep[w].at \in {"read", "classify", "release"} /\ Slip
    /\ sweepLock' = FALSE /\ SweepGoesOn(w, Asleep)
    /\ UNCHANGED <<sentiment, source, attempts, windowFrom, unlocked>>

\* The process is killed and started again.
KillSweeper(w) ==
    /\ Slip /\ SweepGoesOn(w, Asleep)
    /\ attempts' = [attempts EXCEPT ![w] = [c \in SweepRows |-> 0]]
    /\ UNCHANGED <<sentiment, source, sweepLock, windowFrom, unlocked>>

\* The key lives ten minutes; a sweep seldom takes as long.
SweepLockRunsOut ==
    /\ sweepLock
    /\ IF \E w \in Sweepers : Sweeping(w) THEN Slip /\ unlocked' = TRUE ELSE UNCHANGED <<unlocked, slips>>
    /\ sweepLock' = FALSE
    /\ UNCHANGED <<sentiment, source, sweep, attempts, windowFrom>>

\* Time passes: a comment gets older than SWEEP_WINDOW, labelled or not.
LeavesWindow ==
    /\ windowFrom <= NewestRow /\ windowFrom' = windowFrom + 1
    /\ UNCHANGED <<sentiment, source, sweepLock, sweep, attempts, unlocked, slips>>

SweepStep(w) ==
    \/ AcquireSweep(w) \/ ReadPending(w) \/ Classify(w)
    \/ SaveLabels(w) \/ SaveSource(w) \/ ReleaseSweep(w)

SweepNext ==
    \/ \E w \in Sweepers : SweepStep(w) \/ SweepFails(w) \/ KillSweeper(w)
    \/ SweepLockRunsOut \/ LeavesWindow

\* The loop of every process goes on, and a key with a time to live goes away.  Nothing says that
\* a comment grows old before, or after, it is read.
SweepFairness ==
    /\ \A w \in Sweepers : SF_sweepVars(AcquireSweep(w)) /\ WF_sweepVars(SweepStep(w))
    /\ WF_sweepVars(SweepLockRunsOut)

SweepSpec == SweepInit /\ [][SweepNext]_sweepVars /\ SweepFairness

-----------------------------------------------------------------------------
(* Properties                                                              *)

SweepTypeOK ==
    /\ sentiment \in [SweepRows -> {"none", "kira", "visobert"}]
    /\ source \in [SweepRows -> BOOLEAN] /\ sweepLock \in BOOLEAN
    /\ sweep \in [Sweepers -> [at : {"sleep", "read", "classify", "save", "source", "release"},
                               batch : SUBSET SweepRows,
                               label : [SweepRows -> {"none", "kira", "visobert"}]]]
    /\ attempts \in [Sweepers -> [SweepRows -> 0 .. MaxAttempts]]
    /\ windowFrom \in 1 .. NewestRow + 1 /\ unlocked \in BOOLEAN /\ slips \in 0 .. MaxSlips

\* A label is final: whatever sweeps overlap, none writes over the label of another, so the shares
\* of the sentiments do not move under a report.  And what the dashboard says about its origin is
\* true: the two statements of _save belong to one sweep.  Only a sweep without the lock, or one
\* that has outlived it, can put its name to the label of another.
LabelIsFinal ==
    [][\A c \in SweepRows :
        /\ sentiment[c] # "none" => sentiment'[c] = sentiment[c]
        /\ source'[c] /\ ~unlocked' => sentiment'[c] = "visobert"]_sweepVars

\* No attempt of process w can come to c any more: it has given c up, or comments that no model
\* can label fill all its rounds.
OutOfReach(w, c) ==
    \/ attempts[w][c] >= MaxAttempts
    \/ Cardinality({d \in Unreadable : d > c /\ attempts[w][d] < MaxAttempts}) >= RowLimit

\* Comments that no model can label do not keep older ones from their labels for ever, although
\* the newest are read first: they are left out in time.  A comment that a model could label gets
\* its label while it is recent, whatever fails; unless each process has given it up, after
\* batches of it failed while others went well, or has a round full of unreadable comments: as a
\* round in which nothing is labelled counts no attempt, nothing is left out of such a round.
ReadableGetsLabel ==
    \A c \in SweepRows \ Unreadable :
        \/ <>(sentiment[c] # "none" \/ c < windowFrom)
        \/ <>[](\A w \in Sweepers : OutOfReach(w, c))
=============================================================================
