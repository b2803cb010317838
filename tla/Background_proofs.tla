------------------------- MODULE Background_proofs -------------------------
(***************************************************************************)
(* Proofs about what runs beside the crawls: the sentiment sweep           *)
(* (SentimentSweep), the writer of the lake (LakeWriter) and the watch     *)
(* over a refresh (RefreshWatch); for any number of processes, comments,   *)
(* records, kills and failures.                                            *)
(***************************************************************************)
EXTENDS SentimentSweep, LakeWriter, RefreshWatch, TLAPS

-----------------------------------------------------------------------------
(* The sentiment sweep (SentimentSweep).                                   *)

(* The invariant.  While no sweep has run without the lock, at most one is *)
(* under way, so that what it has read is still without a label when it    *)
(* writes, and its two statements are about the same comments.             *)

StateTyped(s) ==
    /\ DOMAIN s = {"at", "batch", "label"} /\ s.batch \subseteq SweepRows
    /\ \A c \in SweepRows : s.label[c] # "none" => s.at \in {"save", "source", "release"}

SweepTyped ==
    /\ DOMAIN sweep = Sweepers /\ DOMAIN sentiment = SweepRows /\ DOMAIN source = SweepRows
    /\ \A w \in Sweepers : StateTyped(sweep[w])

Alone == \A w \in Sweepers : Sweeping(w) => sweepLock /\ \A v \in Sweepers : Sweeping(v) => v = w

\* What a sweep has read, or labelled, is still without a label; what it has written is still there.
Fresh(s) ==
    /\ s.at = "classify" => \A c \in s.batch : sentiment[c] = "none"
    /\ s.at = "save" => \A c \in SweepRows : s.label[c] # "none" => sentiment[c] = "none"
Wrote(s) == s.at = "source" => \A c \in SweepRows : s.label[c] # "none" => sentiment[c] = s.label[c]

Honest ==
    /\ \A w \in Sweepers : Fresh(sweep[w]) /\ Wrote(sweep[w])
    /\ \A c \in SweepRows : source[c] => sentiment[c] = "visobert"

LabelInv == SweepTyped /\ (~unlocked => Alone /\ Honest)

LEMMA AsleepTyped ==
    /\ StateTyped(Asleep) /\ Asleep.at = "sleep"
    /\ \A place : StateTyped([Asleep EXCEPT !.at = place]) /\ [Asleep EXCEPT !.at = place].at = place
BY DEF StateTyped, Asleep

LEMMA LabelInit == SweepInit => LabelInv
BY AsleepTyped DEF SweepInit, LabelInv, SweepTyped, Alone, Honest, Sweeping, Fresh, Wrote

\* A sweep goes on, or begins, in s: without another beside it, and with no label written.
LEMMA GoesOn ==
    ASSUME LabelInv, NEW w \in Sweepers, NEW s, SweepGoesOn(w, s), StateTyped(s),
           UNCHANGED <<sentiment, source>>, unlocked => unlocked',
           ~unlocked' /\ ~unlocked => Fresh(s) /\ Wrote(s),
           ~unlocked' /\ s.at # "sleep" => sweepLock' /\ \A v \in Sweepers : Sweeping(v) => v = w,
           ~unlocked' /\ s.at = "sleep" /\ (\E v \in Sweepers \ {w} : Sweeping(v)) => sweepLock' = sweepLock
    PROVE  LabelInv'
<1>1. /\ DOMAIN sweep' = Sweepers /\ sweep'[w] = s
      /\ \A v \in Sweepers : v # w => sweep'[v] = sweep[v]
  BY DEF SweepGoesOn, LabelInv, SweepTyped
<1>2. SweepTyped'
  <2>1. ASSUME NEW v \in Sweepers PROVE StateTyped(sweep'[v])
    BY <1>1 DEF LabelInv, SweepTyped
  <2>2. ASSUME NEW v \in Sweepers PROVE StateTyped(sweep[v])'
    BY <2>1 DEF StateTyped
  <2> QED BY <1>1, <2>2 DEF LabelInv, SweepTyped
<1>3. ASSUME ~unlocked' PROVE Alone'
  <2>1. Alone /\ ~unlocked
    BY <1>3 DEF LabelInv
  <2> QED BY <1>1, <1>3, <2>1 DEF Alone, Sweeping
<1>4. ASSUME ~unlocked' PROVE Honest'
  <2>1. Honest /\ ~unlocked
    BY <1>4 DEF LabelInv
  <2>2. \A v \in Sweepers : (Fresh(sweep[v]) /\ Wrote(sweep[v]))'
    BY <1>1, <1>4, <2>1 DEF Fresh, Wrote, Honest
  <2>3. \A c \in SweepRows : source'[c] => sentiment'[c] = "visobert"
    BY <2>1 DEF Honest
  <2> QED BY <2>2, <2>3 DEF Honest
<1> QED BY <1>2, <1>3, <1>4 DEF LabelInv

LEMMA AcquireKeeps == ASSUME LabelInv, NEW w \in Sweepers, AcquireSweep(w) PROVE LabelInv'
<1> DEFINE s == [Asleep EXCEPT !.at = "read"]
<1>1. StateTyped(s) /\ s.at = "read" /\ Fresh(s) /\ Wrote(s)
  BY AsleepTyped DEF Fresh, Wrote
<1>2. SweepGoesOn(w, s) /\ UNCHANGED <<sentiment, source>> /\ (unlocked => unlocked')
      /\ (~unlocked' => ~sweepLock /\ sweepLock')
  BY DEF AcquireSweep, NoLock
<1>3. ASSUME ~unlocked' PROVE \A v \in Sweepers : ~Sweeping(v)
  BY <1>2, <1>3 DEF LabelInv, Alone
<1> HIDE DEF s
<1> QED BY <1>1, <1>2, <1>3, GoesOn

\* The sweep that is under way goes on in s.
LEMMA WorkKeeps ==
    ASSUME LabelInv, NEW w \in Sweepers, Sweeping(w), NEW s, SweepGoesOn(w, s), StateTyped(s), s.at # "sleep",
           ~unlocked => Fresh(s) /\ Wrote(s), UNCHANGED <<sentiment, source, sweepLock, unlocked>>
    PROVE  LabelInv'
<1>1. ASSUME ~unlocked' PROVE sweepLock' /\ \A v \in Sweepers : Sweeping(v) => v = w
  BY <1>1 DEF LabelInv, Alone
<1> QED BY <1>1, GoesOn

LEMMA ReadKeeps == ASSUME LabelInv, NEW w \in Sweepers, ReadPending(w) PROVE LabelInv'
<1> DEFINE pending == {c \in SweepRows : sentiment[c] = "none" /\ c >= windowFrom}
           read    == NewestOf(pending, RowLimit + Cardinality(LeftOut(w))) \ LeftOut(w)
           B       == NewestOf(read, RowLimit)
           s       == [sweep[w] EXCEPT !.at = "classify", !.batch = B]
<1>1. B \subseteq SweepRows /\ \A c \in B : sentiment[c] = "none"
  BY DEF NewestOf
<1>2. SweepGoesOn(w, s) /\ sweep[w].at = "read" /\ UNCHANGED <<sentiment, source, sweepLock, unlocked>>
  BY DEF ReadPending
<1> HIDE DEF B
<1>3. DOMAIN s = {"at", "batch", "label"} /\ s.at = "classify" /\ s.batch = B /\ s.label = sweep[w].label
  BY DEF LabelInv, SweepTyped, StateTyped
<1>4. \A c \in SweepRows : ~(sweep[w].label[c] # "none")
  BY <1>2 DEF LabelInv, SweepTyped, StateTyped
<1> HIDE DEF s
<1>5. StateTyped(s) /\ Fresh(s) /\ Wrote(s)
  BY <1>1, <1>3, <1>4 DEF StateTyped, Fresh, Wrote
<1> QED BY <1>2, <1>3, <1>5, WorkKeeps DEF Sweeping

LEMMA ClassifyKeeps == ASSUME LabelInv, NEW w \in Sweepers, Classify(w) PROVE LabelInv'
<1>1. PICK m \in {"kira", "visobert"} : \E done \in SUBSET (sweep[w].batch \ Unreadable) :
          SweepGoesOn(w, [at |-> "save", batch |-> sweep[w].batch \ done,
                          label |-> [c \in SweepRows |-> IF c \in done THEN m ELSE "none"]])
  BY DEF Classify
<1>2. PICK done \in SUBSET (sweep[w].batch \ Unreadable) :
          SweepGoesOn(w, [at |-> "save", batch |-> sweep[w].batch \ done,
                          label |-> [c \in SweepRows |-> IF c \in done THEN m ELSE "none"]])
  BY <1>1
<1> DEFINE L == [c \in SweepRows |-> IF c \in done THEN m ELSE "none"]
           s == [at |-> "save", batch |-> sweep[w].batch \ done, label |-> L]
<1>3. \A c \in SweepRows : L[c] # "none" => c \in sweep[w].batch
  OBVIOUS
<1>4. SweepGoesOn(w, s)
  BY <1>2
<1> HIDE DEF L
<1>5. DOMAIN s = {"at", "batch", "label"} /\ s.at = "save" /\ s.batch \subseteq sweep[w].batch /\ s.label = L
  OBVIOUS
<1> HIDE DEF s
<1>6. sweep[w].at = "classify" /\ UNCHANGED <<sentiment, source, sweepLock, unlocked>>
  BY DEF Classify
<1>7. StateTyped(s)
  BY <1>5 DEF StateTyped, LabelInv, SweepTyped
<1>8. ~unlocked => Fresh(s) /\ Wrote(s)
  BY <1>3, <1>5, <1>6 DEF LabelInv, Honest, Fresh, Wrote
<1> QED BY <1>4, <1>5, <1>6, <1>7, <1>8, WorkKeeps DEF Sweeping

\* What a lone sweep saves all lands, for what it has labelled is still without any.
LEMMA SaveKeeps == ASSUME LabelInv, NEW w \in Sweepers, SaveLabels(w) PROVE LabelInv'
<1>0. sweep[w].at = "save" /\ Sweeping(w) /\ UNCHANGED <<source, sweepLock, unlocked>>
  BY DEF SaveLabels, Sweeping
<1>1. PICK saved \in SUBSET Labelled(w) :
          /\ sentiment' = [c \in SweepRows |->
                IF c \in saved /\ Unlabelled(c) THEN sweep[w].label[c] ELSE sentiment[c]]
          /\ SweepGoesOn(w, [sweep[w] EXCEPT !.at = "source",
                !.label = [c \in SweepRows |-> IF c \in saved THEN sweep[w].label[c] ELSE "none"]])
  BY DEF SaveLabels
<1> DEFINE L == [c \in SweepRows |-> IF c \in saved THEN sweep[w].label[c] ELSE "none"]
           s == [sweep[w] EXCEPT !.at = "source", !.label = L]
<1>2. \A c \in SweepRows : L[c] # "none" => c \in saved /\ L[c] = sweep[w].label[c]
  OBVIOUS
<1>3. SweepGoesOn(w, s)
  BY <1>1
<1> HIDE DEF L
<1>4. DOMAIN s = {"at", "batch", "label"} /\ s.at = "source" /\ s.batch = sweep[w].batch /\ s.label = L
  BY DEF LabelInv, SweepTyped, StateTyped
<1> HIDE DEF s
<1>5. /\ DOMAIN sweep' = Sweepers /\ sweep'[w] = s
      /\ \A v \in Sweepers : v # w => sweep'[v] = sweep[v]
  BY <1>3 DEF SweepGoesOn, LabelInv, SweepTyped
<1>6. StateTyped(s)
  BY <1>4 DEF StateTyped, LabelInv, SweepTyped
<1>7. SweepTyped'
  <2>1. ASSUME NEW v \in Sweepers PROVE StateTyped(sweep'[v])
    BY <1>5, <1>6 DEF LabelInv, SweepTyped
  <2>2. ASSUME NEW v \in Sweepers PROVE StateTyped(sweep[v])'
    BY <2>1 DEF StateTyped
  <2> QED BY <1>0, <1>1, <1>5, <2>2 DEF LabelInv, SweepTyped
<1>8. ASSUME ~unlocked' PROVE Alone' /\ Honest'
  <2>1. Alone /\ Honest
    BY <1>0, <1>8 DEF LabelInv
  <2>2. \A v \in Sweepers : Sweeping(v) => v = w
    BY <1>0, <2>1 DEF Alone
  <2>3. Alone'
    BY <1>0, <1>4, <1>5, <2>1 DEF Alone, Sweeping
  <2>4. ASSUME NEW c \in SweepRows, s.label[c] # "none" PROVE sentiment'[c] = s.label[c]
    <3>1. c \in saved /\ s.label[c] = sweep[w].label[c]
      BY <1>2, <1>4, <2>4
    <3>2. Unlabelled(c)
      BY <1>0, <2>1, <2>4, <3>1 DEF Honest, Fresh, Unlabelled
    <3> QED BY <1>1, <3>1, <3>2
  <2>5. \A v \in Sweepers : (Fresh(sweep[v]) /\ Wrote(sweep[v]))'
    <3>1. (Fresh(sweep[w]) /\ Wrote(sweep[w]))'
      BY <1>4, <1>5, <2>4 DEF Fresh, Wrote
    <3>2. ASSUME NEW v \in Sweepers, v # w PROVE (Fresh(sweep[v]) /\ Wrote(sweep[v]))'
      BY <1>5, <2>2, <3>2 DEF Fresh, Wrote, Sweeping
    <3> QED BY <3>1, <3>2
  <2>6. \A c \in SweepRows : source'[c] => sentiment'[c] = "visobert"
    BY <1>0, <1>1, <2>1 DEF Honest, Unlabelled
  <2> QED BY <2>3, <2>5, <2>6 DEF Honest
<1> QED BY <1>7, <1>8 DEF LabelInv

LEMMA SourceKeeps == ASSUME LabelInv, NEW w \in Sweepers, SaveSource(w) PROVE LabelInv'
<1> DEFINE s == [sweep[w] EXCEPT !.at = "release"]
<1>0. /\ sweep[w].at = "source" /\ Sweeping(w) /\ UNCHANGED <<sentiment, sweepLock, unlocked>>
      /\ SweepGoesOn(w, s)
  BY DEF SaveSource, Sweeping
<1>1. DOMAIN s = {"at", "batch", "label"} /\ s.at = "release" /\ s.batch = sweep[w].batch /\ s.label = sweep[w].label
  BY DEF LabelInv, SweepTyped, StateTyped
<1>2. /\ DOMAIN sweep' = Sweepers /\ sweep'[w] = s
      /\ \A v \in Sweepers : v # w => sweep'[v] = sweep[v]
  BY <1>0 DEF SweepGoesOn, LabelInv, SweepTyped
<1> HIDE DEF s
<1>3. StateTyped(s)
  BY <1>1 DEF StateTyped, LabelInv, SweepTyped
<1>4. SweepTyped'
  <2>1. ASSUME NEW v \in Sweepers PROVE StateTyped(sweep'[v])
    BY <1>2, <1>3 DEF LabelInv, SweepTyped
  <2>2. ASSUME NEW v \in Sweepers PROVE StateTyped(sweep[v])'
    BY <2>1 DEF StateTyped
  <2>3. DOMAIN source' = SweepRows
    BY DEF SaveSource, LabelInv, SweepTyped
  <2> QED BY <1>0, <1>2, <2>2, <2>3 DEF LabelInv, SweepTyped
<1>5. ASSUME ~unlocked' PROVE Alone' /\ Honest'
  <2>1. Alone /\ Honest
    BY <1>0, <1>5 DEF LabelInv
  <2>2. Alone'
    BY <1>0, <1>1, <1>2, <2>1 DEF Alone, Sweeping
  <2>3. \A v \in Sweepers : (Fresh(sweep[v]) /\ Wrote(sweep[v]))'
    BY <1>0, <1>1, <1>2, <2>1 DEF Fresh, Wrote, Honest
  <2>4. ASSUME NEW c \in SweepRows, source'[c] PROVE sentiment'[c] = "visobert"
    <3>1. sweep[w].label[c] = "visobert" \/ source[c]
      BY <2>4 DEF SaveSource
    <3>2. source[c] => sentiment[c] = "visobert"
      BY <2>1 DEF Honest
    <3>3. sweep[w].label[c] = "visobert" => sentiment[c] = "visobert"
      BY <1>0, <2>1 DEF Honest, Wrote
    <3> QED BY <1>0, <3>1, <3>2, <3>3
  <2> QED BY <2>2, <2>3, <2>4 DEF Honest
<1> QED BY <1>4, <1>5 DEF LabelInv

\* A sweep ends, in whatever way.
LEMMA EndKeeps ==
    ASSUME LabelInv, NEW w \in Sweepers,
           \/ ReleaseSweep(w) \/ SweepFails(w) \/ KillSweeper(w)
    PROVE  LabelInv'
<1>1. /\ SweepGoesOn(w, Asleep) /\ UNCHANGED <<sentiment, source, unlocked>>
      /\ Sweeping(w) \/ UNCHANGED sweepLock
  BY DEF ReleaseSweep, SweepFails, KillSweeper, Sweeping
<1>2. StateTyped(Asleep) /\ Asleep.at = "sleep" /\ Fresh(Asleep) /\ Wrote(Asleep)
  BY AsleepTyped DEF Fresh, Wrote
<1>3. ASSUME ~unlocked', \E v \in Sweepers \ {w} : Sweeping(v) PROVE sweepLock' = sweepLock
  <2>1. ~Sweeping(w)
    BY <1>1, <1>3 DEF LabelInv, Alone
  <2> QED BY <1>1, <2>1
<1> QED BY <1>1, <1>2, <1>3, GoesOn

LEMMA OutKeeps == ASSUME LabelInv, SweepLockRunsOut PROVE LabelInv'
<1>1. UNCHANGED <<sentiment, source, sweep>> /\ ((\E w \in Sweepers : Sweeping(w)) => unlocked')
      /\ (unlocked => unlocked')
  BY DEF SweepLockRunsOut
<1>2. SweepTyped' /\ (Honest => Honest')
  BY <1>1 DEF LabelInv, SweepTyped, StateTyped, Honest, Fresh, Wrote
<1>3. ~unlocked' => Alone'
  BY <1>1 DEF Alone, Sweeping
<1> QED BY <1>1, <1>2, <1>3 DEF LabelInv

LEMMA LabelNext == LabelInv /\ [SweepNext]_sweepVars => LabelInv'
<1> SUFFICES ASSUME LabelInv, [SweepNext]_sweepVars PROVE LabelInv'
  OBVIOUS
<1>1. ASSUME NEW w \in Sweepers, SweepStep(w) \/ SweepFails(w) \/ KillSweeper(w) PROVE LabelInv'
  BY <1>1, AcquireKeeps, ReadKeeps, ClassifyKeeps, SaveKeeps, SourceKeeps, EndKeeps DEF SweepStep
<1>2. CASE SweepLockRunsOut
  BY <1>2, OutKeeps
<1>3. CASE UNCHANGED sweepVars \/ LeavesWindow
  BY <1>3 DEF sweepVars, LeavesWindow, LabelInv, SweepTyped, StateTyped, Alone, Sweeping, Honest, Fresh, Wrote
<1> QED BY <1>1, <1>2, <1>3 DEF SweepNext

\* Only the first statement of _save writes a label, and only where there is none.
LEMMA LabelsStay ==
    ASSUME LabelInv, [SweepNext]_sweepVars, NEW c \in SweepRows, sentiment[c] # "none"
    PROVE  sentiment'[c] = sentiment[c]
<1>1. CASE \E w \in Sweepers : SaveLabels(w)
  BY <1>1 DEF SaveLabels, Unlabelled
<1>2. CASE ~ \E w \in Sweepers : SaveLabels(w)
  BY <1>2 DEF SweepNext, SweepStep, sweepVars, AcquireSweep, ReadPending, Classify, SaveSource,
             ReleaseSweep, SweepFails, KillSweeper, SweepLockRunsOut, LeavesWindow
<1> QED BY <1>1, <1>2

(* Sweeps that overlap never write over a label, and as long as none has   *)
(* run without the lock or outlived it, every label that says it came from *)
(* the external model did: however processes are killed, statements fail   *)
(* and models differ.                                                      *)
THEOREM LabelsAreFinal == SweepSpec => LabelIsFinal
<1>1. LabelInv /\ [SweepNext]_sweepVars =>
          \A c \in SweepRows :
              /\ sentiment[c] # "none" => sentiment'[c] = sentiment[c]
              /\ source'[c] /\ ~unlocked' => sentiment'[c] = "visobert"
  <2> SUFFICES ASSUME LabelInv, [SweepNext]_sweepVars, NEW c \in SweepRows
               PROVE  /\ sentiment[c] # "none" => sentiment'[c] = sentiment[c]
                      /\ source'[c] /\ ~unlocked' => sentiment'[c] = "visobert"
    OBVIOUS
  <2>1. LabelInv'
    BY LabelNext
  <2> QED BY <2>1, LabelsStay DEF LabelInv, Honest
<1> QED BY <1>1, LabelInit, LabelNext, PTL DEF SweepSpec, LabelIsFinal

(* Types.                                                                  *)

LabelNames == {"none", "kira", "visobert"}
SweepStates == [at : {"sleep", "read", "classify", "save", "source", "release"},
                batch : SUBSET SweepRows, label : [SweepRows -> LabelNames]]

LEMMA AsleepIs == Asleep \in SweepStates /\ [Asleep EXCEPT !.at = "read"] \in SweepStates
BY DEF Asleep, SweepStates, LabelNames

LEMMA SweepBegins == SweepInit => SweepTypeOK
<1> SUFFICES ASSUME SweepInit PROVE SweepTypeOK
  OBVIOUS
<1>1. sweep \in [Sweepers -> SweepStates]
  BY AsleepIs DEF SweepInit
<1>2. source \in [SweepRows -> BOOLEAN] /\ sweepLock \in BOOLEAN /\ unlocked \in BOOLEAN
  BY DEF SweepInit
<1>3. sentiment \in [SweepRows -> LabelNames]
  BY DEF SweepInit, LabelNames
<1>4. attempts \in [Sweepers -> [SweepRows -> 0 .. MaxAttempts]] /\ slips \in 0 .. MaxSlips
      /\ windowFrom \in 1 .. NewestRow + 1
  BY SweepAssumption DEF SweepInit
<1> QED BY <1>1, <1>2, <1>3, <1>4 DEF SweepTypeOK, SweepStates, LabelNames

\* A sweep goes on in s; the rest is what a slip and the attempts leave of it.
LEMMA SweepStateSet ==
    ASSUME SweepTypeOK, NEW w \in Sweepers, NEW s \in SweepStates, SweepGoesOn(w, s)
    PROVE  sweep' \in [Sweepers -> SweepStates]
BY DEF SweepTypeOK, SweepGoesOn, SweepStates, LabelNames

LEMMA SlipsTyped == ASSUME SweepTypeOK, Slip \/ UNCHANGED slips PROVE slips' \in 0 .. MaxSlips
BY SweepAssumption DEF SweepTypeOK, Slip

LEMMA SweepTypesStep ==
    ASSUME SweepTypeOK, NEW w \in Sweepers, SweepStep(w) \/ SweepFails(w) \/ KillSweeper(w)
    PROVE  SweepTypeOK'
<1>1. sweep[w] \in SweepStates
  BY DEF SweepTypeOK, SweepStates, LabelNames
<1>2. ASSUME sweep' \in [Sweepers -> SweepStates], sentiment' \in [SweepRows -> LabelNames],
             source' \in [SweepRows -> BOOLEAN], sweepLock' \in BOOLEAN,
             attempts' \in [Sweepers -> [SweepRows -> 0 .. MaxAttempts]],
             unlocked' \in BOOLEAN, windowFrom' \in 1 .. NewestRow + 1, Slip \/ UNCHANGED slips
      PROVE  SweepTypeOK'
  BY <1>2, SlipsTyped DEF SweepTypeOK, SweepStates, LabelNames
<1>3. /\ sentiment \in [SweepRows -> LabelNames] /\ source \in [SweepRows -> BOOLEAN]
      /\ sweepLock \in BOOLEAN /\ unlocked \in BOOLEAN /\ windowFrom \in 1 .. NewestRow + 1
      /\ attempts \in [Sweepers -> [SweepRows -> 0 .. MaxAttempts]]
  BY DEF SweepTypeOK, LabelNames
<1>4. CASE AcquireSweep(w)
  BY <1>2, <1>3, <1>4, AsleepIs, SweepStateSet DEF AcquireSweep
<1>5. CASE ReadPending(w)
  <2> DEFINE B == NewestOf(NewestOf({c \in SweepRows : sentiment[c] = "none" /\ c >= windowFrom},
                                    RowLimit + Cardinality(LeftOut(w))) \ LeftOut(w), RowLimit)
             s == [sweep[w] EXCEPT !.at = "classify", !.batch = B]
  <2>1. B \in SUBSET SweepRows /\ SweepGoesOn(w, s)
    BY <1>5 DEF NewestOf, ReadPending
  <2> HIDE DEF B
  <2>2. s \in SweepStates
    BY <1>1, <2>1 DEF SweepStates
  <2> HIDE DEF s
  <2>3. sweep' \in [Sweepers -> SweepStates]
    BY <2>1, <2>2, SweepStateSet
  <2> QED BY <1>2, <1>3, <1>5, <2>3 DEF ReadPending
<1>6. CASE Classify(w)
  <2>1. ASSUME NEW m \in {"kira", "visobert"}, NEW done
        PROVE  [at |-> "save", batch |-> sweep[w].batch \ done,
                label |-> [c \in SweepRows |-> IF c \in done THEN m ELSE "none"]] \in SweepStates
    <3>1. [c \in SweepRows |-> IF c \in done THEN m ELSE "none"] \in [SweepRows -> LabelNames]
      BY DEF LabelNames
    <3> QED BY <1>1, <3>1 DEF SweepStates
  <2>2. \E s \in SweepStates : SweepGoesOn(w, s)
    BY <1>6, <2>1 DEF Classify
  <2>3. sweep' \in [Sweepers -> SweepStates]
    BY <2>2, SweepStateSet
  <2>4. Slip \/ UNCHANGED slips
    BY <1>6 DEF Classify
  <2> QED BY <1>2, <1>3, <1>6, <2>3, <2>4 DEF Classify
<1>7. CASE SaveLabels(w)
  <2>1. sweep[w].label \in [SweepRows -> LabelNames]
    BY <1>1 DEF SweepStates
  <2>2. sentiment' \in [SweepRows -> LabelNames]
    BY <1>3, <1>7, <2>1 DEF SaveLabels
  <2>3. ASSUME NEW saved
        PROVE  [sweep[w] EXCEPT !.at = "source",
                  !.label = [c \in SweepRows |-> IF c \in saved THEN sweep[w].label[c] ELSE "none"]] \in SweepStates
    <3>1. [c \in SweepRows |-> IF c \in saved THEN sweep[w].label[c] ELSE "none"] \in [SweepRows -> LabelNames]
      BY <2>1 DEF LabelNames
    <3> QED BY <1>1, <3>1 DEF SweepStates
  <2>4. \E s \in SweepStates : SweepGoesOn(w, s)
    BY <1>7, <2>3 DEF SaveLabels
  <2>5. sweep' \in [Sweepers -> SweepStates]
    BY <2>4, SweepStateSet
  <2>6. Slip \/ UNCHANGED slips
    BY <1>7 DEF SaveLabels
  <2> QED BY <1>2, <1>3, <1>7, <2>2, <2>5, <2>6 DEF SaveLabels
<1>8. CASE SaveSource(w)
  <2>1. [sweep[w] EXCEPT !.at = "release"] \in SweepStates
    BY <1>1 DEF SweepStates
  <2>2. sweep' \in [Sweepers -> SweepStates]
    BY <1>8, <2>1, SweepStateSet DEF SaveSource
  <2>3. [c \in SweepRows |-> sweep[w].label[c] = "visobert" \/ source[c]] \in [SweepRows -> BOOLEAN]
    BY Zenon
  <2> QED BY <1>2, <1>3, <1>8, <2>2, <2>3 DEF SaveSource
<1>9. CASE ReleaseSweep(w)
  <2> DEFINE A == [c \in SweepRows |->
            IF AttemptCounts(w) /\ c \in sweep[w].batch /\ attempts[w][c] < MaxAttempts
            THEN attempts[w][c] + 1 ELSE attempts[w][c]]
  <2>1. A \in [SweepRows -> 0 .. MaxAttempts]
    BY <1>3, SweepAssumption
  <2>2. attempts' = [attempts EXCEPT ![w] = A]
    BY <1>9 DEF ReleaseSweep
  <2> HIDE DEF A
  <2>3. attempts' \in [Sweepers -> [SweepRows -> 0 .. MaxAttempts]]
    BY <1>3, <2>1, <2>2
  <2>4. sweep' \in [Sweepers -> SweepStates]
    BY <1>9, AsleepIs, SweepStateSet DEF ReleaseSweep
  <2> QED BY <1>2, <1>3, <1>9, <2>3, <2>4 DEF ReleaseSweep
<1>10. CASE SweepFails(w)
  BY <1>2, <1>3, <1>10, AsleepIs, SweepStateSet DEF SweepFails
<1>11. CASE KillSweeper(w)
  <2>1. [c \in SweepRows |-> 0] \in [SweepRows -> 0 .. MaxAttempts]
    BY SweepAssumption
  <2>2. attempts' \in [Sweepers -> [SweepRows -> 0 .. MaxAttempts]]
    BY <1>3, <1>11, <2>1 DEF KillSweeper
  <2> QED BY <1>2, <1>3, <1>11, <2>2, AsleepIs, SweepStateSet DEF KillSweeper
<1> QED BY <1>4, <1>5, <1>6, <1>7, <1>8, <1>9, <1>10, <1>11 DEF SweepStep

(* What a sweep has read are rows, and their labels and the attempts of    *)
(* each process are what they can be, whatever is killed or fails: no      *)
(* comment is tried more than MAX_ATTEMPTS times by one process.           *)
THEOREM SweepTypes == SweepSpec => []SweepTypeOK
<1>1. SweepTypeOK /\ SweepLockRunsOut => SweepTypeOK'
  <2> SUFFICES ASSUME SweepTypeOK, SweepLockRunsOut PROVE SweepTypeOK'
    OBVIOUS
  <2>1. Slip \/ UNCHANGED slips
    BY DEF SweepLockRunsOut
  <2> QED BY <2>1, SlipsTyped DEF SweepLockRunsOut, SweepTypeOK
<1>2. SweepTypeOK /\ UNCHANGED sweepVars => SweepTypeOK'
  BY DEF SweepTypeOK, sweepVars
<1>3. SweepTypeOK /\ LeavesWindow => SweepTypeOK'
  BY SweepAssumption DEF SweepTypeOK, LeavesWindow
<1>4. SweepTypeOK /\ [SweepNext]_sweepVars => SweepTypeOK'
  BY <1>1, <1>2, <1>3, SweepTypesStep DEF SweepNext
<1> QED BY <1>4, SweepBegins, PTL DEF SweepSpec

-----------------------------------------------------------------------------
(* The writer of the lake (LakeWriter).                                    *)

(* Sequences of offsets, and the types.                                    *)

\* What a buffer is after one more offset.
LEMMA Appended ==
    ASSUME NEW s \in Seq(Offsets), NEW o \in Offsets
    PROVE  /\ Append(s, o) \in Seq(Offsets) /\ Append(s, o) # << >>
           /\ Append(s, o)[Len(Append(s, o))] = o
           /\ {Append(s, o)[i] : i \in 1 .. Len(Append(s, o))} = {s[i] : i \in 1 .. Len(s)} \cup {o}
<1>1. /\ Append(s, o) \in Seq(Offsets) /\ Len(Append(s, o)) = Len(s) + 1 /\ Len(s) \in Nat
      /\ Append(s, o)[Len(s) + 1] = o /\ \A i \in 1 .. Len(s) : Append(s, o)[i] = s[i]
  OBVIOUS
<1>2. Append(s, o) # << >>
  BY <1>1
<1>3. 1 .. Len(Append(s, o)) = (1 .. Len(s)) \cup {Len(s) + 1}
  BY <1>1
<1> HIDE DEF Offsets
<1> QED BY <1>1, <1>2, <1>3

\* The first and the last offset of a buffer that is not empty.
LEMMA Ends ==
    ASSUME LakeTypeOK, NEW w \in Writers, buffer[w] # << >>
    PROVE  First(w) \in Offsets /\ Last(w) \in Offsets /\ Last(w) \in Buffered(w)
<1>1. buffer[w] \in Seq(Offsets) /\ Len(buffer[w]) \in Nat \ {0}
  BY DEF LakeTypeOK
<1>2. 1 \in 1 .. Len(buffer[w]) /\ Len(buffer[w]) \in 1 .. Len(buffer[w])
  BY <1>1
<1> QED BY <1>1, <1>2 DEF First, Last, Buffered

LEMMA BufferedTyped ==
    ASSUME LakeTypeOK, NEW w \in Writers
    PROVE  Buffered(w) \subseteq Offsets /\ (Buffered(w) # {} => buffer[w] # << >>)
BY DEF LakeTypeOK, Buffered

\* An offset is an integer from 0 to the bound.
LEMMA OffsetsAreNat ==
    /\ \A o \in Offsets : o \in Nat /\ o <= LastOffset /\ o + 1 \in 0 .. LastOffset + 1
    /\ \A n \in 0 .. LastOffset + 1 : n \in Nat /\ \A o \in Nat : o < n => o \in Offsets
BY LakeAssumption DEF Offsets

\* A batch under way is one that has records, and it writes the platforms of those only.
Batches ==
    /\ \A w \in flushing : buffer[w] # << >>
    /\ \A w \in Writers : flush[w] # {} => w \in flushing

LEMMA LakeInitTypes == LakeInit => LakeTypeOK /\ Batches
<1> SUFFICES ASSUME LakeInit PROVE LakeTypeOK /\ Batches
  OBVIOUS
<1>1. owner \in Writers
  BY LakeAssumption DEF LakeInit
<1>2. 0 \in 0 .. LastOffset + 1 /\ 0 \in 0 .. MaxChanges /\ << >> \in Seq(Offsets)
  BY LakeAssumption
<1> QED BY <1>1, <1>2 DEF LakeInit, LakeTypeOK, Batches

\* The key and the contents of the object PutObject(w, p) writes.
New(w, p) == [platform |-> p, first |-> First(w), last |-> Last(w),
              holds |-> {o \in Buffered(w) : PlatformOf[o] = p}]

\* What Forget leaves.
LEMMA ForgetTypes ==
    ASSUME LakeTypeOK, Batches, NEW w \in Writers, Forget(w)
    PROVE  /\ buffer' \in [Writers -> Seq(Offsets)] /\ flush' \in [Writers -> SUBSET Platforms]
           /\ flushing' \subseteq Writers /\ Batches'
<1>1. << >> \in Seq(Offsets)
  OBVIOUS
<1> QED BY <1>1 DEF LakeTypeOK, Batches, Forget

LEMMA LakeStepTypes ==
    ASSUME LakeTypeOK, Batches, [LakeNext]_lakeVars
    PROVE  LakeTypeOK' /\ Batches'
<1>1. CASE UNCHANGED lakeVars
  BY <1>1 DEF lakeVars, LakeTypeOK, Batches
<1>2. CASE Produce
  BY <1>2, LakeAssumption DEF Produce, LakeTypeOK, Batches
<1>3. ASSUME NEW w \in Writers, Fetch(w) PROVE LakeTypeOK' /\ Batches'
  <2>1. position[w] \in Offsets /\ position[w] + 1 \in 0 .. LastOffset + 1
    BY <1>3, LakeAssumption DEF Fetch, LakeTypeOK, Offsets
  <2>2. Append(buffer[w], position[w]) \in Seq(Offsets) /\ Append(buffer[w], position[w]) # << >>
    BY <2>1, Appended DEF LakeTypeOK
  <2>3. position' \in [Writers -> 0 .. LastOffset + 1] /\ buffer' \in [Writers -> Seq(Offsets)]
    BY <1>3, <2>1, <2>2 DEF Fetch, LakeTypeOK
  <2>4. Batches'
    BY <1>3, <2>2 DEF Fetch, Batches, LakeTypeOK
  <2> QED BY <1>3, <2>3, <2>4 DEF Fetch, LakeTypeOK
<1>4. ASSUME NEW w \in Writers, BeginFlush(w) PROVE LakeTypeOK' /\ Batches'
  <2>1. {PlatformOf[o] : o \in Buffered(w)} \subseteq Platforms
    BY BufferedTyped, LakeAssumption
  <2> QED BY <1>4, <2>1 DEF BeginFlush, FlushDue, LakeTypeOK, Batches
<1>5. ASSUME NEW w \in Writers, NEW p \in Platforms, PutObject(w, p) PROVE LakeTypeOK' /\ Batches'
  <2>1. buffer[w] # << >>
    BY <1>5 DEF PutObject, Batches
  <2>2. New(w, p) \in [platform : Platforms, first : Offsets, last : Offsets, holds : SUBSET Offsets]
    BY <2>1, Ends, BufferedTyped DEF New
  <2>3. objects' \subseteq objects \cup {New(w, p)}
    BY <1>5 DEF PutObject, New
  <2>4. objects' \subseteq [platform : Platforms, first : Offsets, last : Offsets, holds : SUBSET Offsets]
    BY <2>2, <2>3 DEF LakeTypeOK
  <2>5. flush' \in [Writers -> SUBSET Platforms] /\ \A v \in Writers : flush'[v] \subseteq flush[v]
    BY <1>5 DEF PutObject, LakeTypeOK
  <2> QED BY <1>5, <2>4, <2>5 DEF PutObject, LakeTypeOK, Batches
<1>6. ASSUME NEW w \in Writers, Commit(w) PROVE LakeTypeOK' /\ Batches'
  <2>1. Last(w) + 1 \in 0 .. LastOffset + 1
    BY <1>6, Ends, OffsetsAreNat DEF Commit, AllWritten, Batches
  <2> QED BY <1>6, <2>1, ForgetTypes DEF Commit, LakeTypeOK
<1>7. ASSUME NEW w \in Writers, CommitRefused(w) PROVE LakeTypeOK' /\ Batches'
  BY <1>7, ForgetTypes DEF CommitRefused, LakeTypeOK
<1>8. ASSUME NEW w \in Writers, LakeRebalance(w) PROVE LakeTypeOK' /\ Batches'
  BY <1>8, LakeAssumption DEF LakeRebalance, LakeTypeOK, Batches
<1>9. ASSUME NEW w \in Writers, KillWriter(w) PROVE LakeTypeOK' /\ Batches'
  <2>1. AllWritten(w) => Last(w) + 1 \in 0 .. LastOffset + 1
    BY Ends, OffsetsAreNat DEF AllWritten, Batches
  <2>2. committed' \in 0 .. LastOffset + 1
    BY <1>9, <2>1 DEF KillWriter, LakeTypeOK
  <2>3. position' \in [Writers -> 0 .. LastOffset + 1] /\ owner' \in Writers
    BY <1>9, <2>2 DEF KillWriter, LakeTypeOK
  <2>4. changes' \in 0 .. MaxChanges
    BY <1>9, LakeAssumption DEF KillWriter, LakeTypeOK
  <2>5. Forget(w)
    BY <1>9 DEF KillWriter
  <2> QED BY <1>9, <2>2, <2>3, <2>4, <2>5, ForgetTypes DEF KillWriter, LakeTypeOK
<1> QED BY <1>1, <1>2, <1>3, <1>4, <1>5, <1>6, <1>7, <1>8, <1>9 DEF LakeNext, LakeStep

\* The types, for every value of the constants.
THEOREM LakeTypes == LakeSpec => [](LakeTypeOK /\ Batches)
BY LakeInitTypes, LakeStepTypes, PTL DEF LakeSpec

------------------------------------------------------------------------------
(* What is committed is in the lake.  Offset g is covered up to c when an  *)
(* object holds it whose batch ends before c.  A batch may have records in *)
(* it twice, after a rebalance, and one object may be written over another *)
(* of the same name; but what the new one lacks is covered by a batch that *)
(* ends before it, and so has another name.                                *)

Objects == [platform : Platforms, first : Offsets, last : Offsets, holds : SUBSET Offsets]

CoveredIn(lake, g, c) == \E x \in lake : g \in x.holds /\ g <= x.last /\ x.last < c

Items(s) == {s[i] : i \in 1 .. Len(s)}
Final(s) == s[Len(s)]

CommitCovered == \A g \in Offsets : g < committed => CoveredIn(objects, g, committed)

\* What the owner has fetched is covered or in its memory.
FetchCovered ==
    \A g \in Offsets : g < position[owner] =>
        \/ CoveredIn(objects, g, position[owner])
        \/ /\ buffer[owner] # << >> /\ g \in Items(buffer[owner])
           /\ g <= Final(buffer[owner]) /\ Final(buffer[owner]) < position[owner]

\* Below the end of a batch there is nothing that is neither in it nor covered.
BatchWhole ==
    \A w \in Writers : buffer[w] # << >> =>
        \A g \in Offsets : g < Final(buffer[w]) =>
            g \in Items(buffer[w]) \/ CoveredIn(objects, g, Final(buffer[w]))

ObjectsTrue == \A x \in objects : \A g \in x.holds : PlatformOf[g] = x.platform

\* A batch under way is covered but for the platforms still to be written.
FlushCovered ==
    \A w \in flushing : \A g \in Items(buffer[w]) : g <= Final(buffer[w]) =>
        PlatformOf[g] \in flush[w] \/ CoveredIn(objects, g, Final(buffer[w]) + 1)

LakeInv == CommitCovered /\ FetchCovered /\ BatchWhole /\ ObjectsTrue /\ FlushCovered

LEMMA SameItems == \A w : Items(buffer[w]) = Buffered(w) /\ Final(buffer[w]) = Last(w)
BY DEF Items, Final, Buffered, Last

LEMMA CoverGrows ==
    ASSUME NEW lake \in SUBSET Objects, NEW g \in Offsets, NEW c \in Nat, NEW d \in Nat,
           c <= d, CoveredIn(lake, g, c)
    PROVE  CoveredIn(lake, g, d)
<1>1. PICK x \in lake : g \in x.holds /\ g <= x.last /\ x.last < c
  BY DEF CoveredIn
<1>2. x.last \in Nat
  BY OffsetsAreNat DEF Objects
<1>3. x.last < d
  BY <1>1, <1>2
<1> QED BY <1>1, <1>3 DEF CoveredIn

\* Putting an object takes no cover away.
LEMMA CoverKept ==
    ASSUME LakeTypeOK, Batches, LakeInv, NEW w \in Writers, NEW p \in Platforms, PutObject(w, p),
           NEW g \in Offsets, NEW c \in Nat, CoveredIn(objects, g, c)
    PROVE  CoveredIn(objects', g, c)
<1>1. buffer[w] # << >> /\ Last(w) \in Offsets /\ Last(w) \in Buffered(w)
  BY Ends DEF PutObject, Batches
<1>2. PICK x \in objects : g \in x.holds /\ g <= x.last /\ x.last < c
  BY DEF CoveredIn
<1>3. New(w, p) \in objects'
  BY DEF PutObject, New
<1>4. \A y \in objects : y.last # Last(w) \/ y.platform # p => y \in objects'
  BY DEF PutObject
<1>5. CASE x \in objects'
  BY <1>2, <1>5 DEF CoveredIn
<1>6. CASE x \notin objects' /\ g \in Buffered(w)
  <2>1. x.last = Last(w) /\ x.platform = p
    BY <1>4, <1>6
  <2>2. PlatformOf[g] = p
    BY <1>2, <2>1 DEF LakeInv, ObjectsTrue
  <2>3. g \in New(w, p).holds /\ New(w, p).last = x.last
    BY <1>6, <2>1, <2>2 DEF New
  <2> QED BY <1>2, <1>3, <2>3 DEF CoveredIn
<1>7. CASE x \notin objects' /\ g \notin Buffered(w)
  <2>1. x.last = Last(w)
    BY <1>4, <1>7
  <2>2. g < Last(w)
    BY <1>1, <1>2, <1>7, <2>1, OffsetsAreNat
  <2>3. CoveredIn(objects, g, Last(w))
    BY <1>1, <1>7, <2>2, SameItems DEF LakeInv, BatchWhole
  <2>4. PICK y \in objects : g \in y.holds /\ g <= y.last /\ y.last < Last(w)
    BY <2>3 DEF CoveredIn
  <2>5. y.last \in Nat /\ Last(w) \in Nat
    BY <1>1, OffsetsAreNat DEF LakeTypeOK
  <2>6. y \in objects'
    BY <1>4, <2>4, <2>5
  <2>7. y.last < c
    BY <1>2, <2>1, <2>4, <2>5
  <2> QED BY <2>4, <2>6, <2>7 DEF CoveredIn
<1> QED BY <1>5, <1>6, <1>7

LEMMA PutKeeps ==
    ASSUME LakeTypeOK, Batches, LakeInv, NEW w \in Writers, NEW p \in Platforms, PutObject(w, p)
    PROVE  LakeInv'
<1>1. buffer[w] # << >> /\ Last(w) \in Offsets /\ w \in flushing
  BY Ends DEF PutObject, Batches
<1>2. New(w, p) \in objects' /\ objects' \subseteq objects \cup {New(w, p)}
  BY DEF PutObject, New
<1>3. UNCHANGED <<committed, owner, position, buffer, flushing>> /\ flush' = [flush EXCEPT ![w] = @ \ {p}]
  BY DEF PutObject
<1>4. CommitCovered'
  BY <1>3, CoverKept, OffsetsAreNat DEF LakeInv, CommitCovered, LakeTypeOK
<1>5. FetchCovered'
  <2>1. position[owner] \in Nat
    BY OffsetsAreNat DEF LakeTypeOK
  <2> QED BY <1>3, <2>1, CoverKept DEF LakeInv, FetchCovered
<1>6. BatchWhole'
  <2> SUFFICES ASSUME NEW v \in Writers, buffer[v] # << >>, NEW g \in Offsets, g < Final(buffer[v])
               PROVE  g \in Items(buffer[v]) \/ CoveredIn(objects', g, Final(buffer[v]))
    BY <1>3 DEF BatchWhole
  <2>1. Final(buffer[v]) \in Nat
    BY Ends, SameItems, OffsetsAreNat
  <2> QED BY <2>1, CoverKept DEF LakeInv, BatchWhole
<1>7. ObjectsTrue'
  <2>1. \A g \in New(w, p).holds : PlatformOf[g] = New(w, p).platform
    BY DEF New
  <2> QED BY <1>2, <2>1 DEF LakeInv, ObjectsTrue
<1>8. FlushCovered'
  <2> SUFFICES ASSUME NEW v \in flushing, NEW g \in Items(buffer[v]), g <= Final(buffer[v])
               PROVE  PlatformOf[g] \in flush'[v] \/ CoveredIn(objects', g, Final(buffer[v]) + 1)
    BY <1>3 DEF FlushCovered
  <2>1. v \in Writers /\ buffer[v] # << >>
    BY DEF LakeTypeOK, Batches
  <2>2. Final(buffer[v]) \in Nat /\ g \in Offsets
    BY <2>1, Ends, BufferedTyped, SameItems, OffsetsAreNat
  <2>3. CASE CoveredIn(objects, g, Final(buffer[v]) + 1)
    BY <2>2, <2>3, CoverKept
  <2>4. CASE PlatformOf[g] \in flush[v] /\ (v # w \/ PlatformOf[g] # p)
    BY <1>3, <2>1, <2>4 DEF LakeTypeOK
  <2>5. CASE v = w /\ PlatformOf[g] = p
    <3>1. g \in New(w, p).holds /\ New(w, p).last = Final(buffer[v])
      BY <2>2, <2>5, SameItems DEF New
    <3>2. Final(buffer[v]) < Final(buffer[v]) + 1
      BY <2>2
    <3> QED BY <1>2, <3>1, <3>2 DEF CoveredIn
  <2> QED BY <2>3, <2>4, <2>5 DEF LakeInv, FlushCovered
<1> QED BY <1>4, <1>5, <1>6, <1>7, <1>8 DEF LakeInv

LEMMA FetchKeeps ==
    ASSUME LakeTypeOK, Batches, LakeInv, NEW w \in Writers, Fetch(w)
    PROVE  LakeInv'
<1> DEFINE o == position[w]
<1>1. w = owner /\ w \notin flushing /\ o \in Offsets /\ o \in Nat
  BY LakeAssumption, OffsetsAreNat DEF Fetch, LakeTypeOK, Offsets
<1>2. UNCHANGED <<committed, owner, objects, flush, flushing>>
  BY DEF Fetch
<1>3. position'[w] = o + 1 /\ buffer'[w] = Append(buffer[w], o)
      /\ \A v \in Writers : v # w => buffer'[v] = buffer[v]
  BY DEF Fetch, LakeTypeOK
<1>4. buffer'[w] # << >> /\ Final(buffer'[w]) = o /\ Items(buffer'[w]) = Items(buffer[w]) \cup {o}
  BY <1>1, <1>3, Appended DEF LakeTypeOK, Items, Final
<1>5. o + 1 \in Nat /\ o < o + 1 /\ o <= o /\ \A g \in Offsets : g < o + 1 => g = o \/ g < o
  BY <1>1, OffsetsAreNat
<1>6. objects \in SUBSET Objects
  BY DEF LakeTypeOK, Objects
<1> HIDE DEF o
<1>7. \A g \in Offsets : g < o => g \in Items(buffer[w]) \/ CoveredIn(objects, g, o)
  BY <1>1 DEF LakeInv, FetchCovered, o
<1>8. CommitCovered' /\ ObjectsTrue'
  BY <1>2 DEF LakeInv, CommitCovered, ObjectsTrue
<1>9. FetchCovered'
  <2> SUFFICES ASSUME NEW g \in Offsets, g < o + 1
               PROVE  CoveredIn(objects, g, o + 1) \/ (g \in Items(buffer'[w]) /\ g <= o)
    BY <1>1, <1>2, <1>3, <1>4, <1>5 DEF FetchCovered
  <2>1. CASE g = o
    BY <1>4, <1>5, <2>1
  <2>2. CASE g < o /\ g \in Items(buffer[w])
    BY <1>4, <2>2, <1>1, OffsetsAreNat
  <2>3. CASE g < o /\ CoveredIn(objects, g, o)
    <3>1. o <= o + 1
      BY <1>1
    <3> QED BY <1>1, <1>5, <1>6, <2>3, <3>1, CoverGrows
  <2> QED BY <1>5, <1>7, <2>1, <2>2, <2>3
<1>10. BatchWhole'
  <2> SUFFICES ASSUME NEW v \in Writers, buffer'[v] # << >>, NEW g \in Offsets, g < Final(buffer'[v])
               PROVE  g \in Items(buffer'[v]) \/ CoveredIn(objects, g, Final(buffer'[v]))
    BY <1>2 DEF BatchWhole
  <2>1. CASE v = w
    BY <1>4, <1>7, <2>1
  <2>2. CASE v # w
    BY <1>3, <2>2 DEF LakeInv, BatchWhole
  <2> QED BY <2>1, <2>2
<1>11. FlushCovered'
  BY <1>1, <1>2, <1>3 DEF LakeInv, FlushCovered, LakeTypeOK
<1> QED BY <1>8, <1>9, <1>10, <1>11 DEF LakeInv

\* A batch that has been written is covered up to its end.
LEMMA WrittenCovered ==
    ASSUME LakeTypeOK, Batches, LakeInv, NEW w \in Writers, AllWritten(w)
    PROVE  /\ Last(w) \in Nat
           /\ \A g \in Offsets : g < Last(w) + 1 => CoveredIn(objects, g, Last(w) + 1)
<1>1. w \in flushing /\ flush[w] = {} /\ buffer[w] # << >>
  BY DEF AllWritten, Batches
<1>2. Last(w) \in Offsets /\ Last(w) \in Buffered(w) /\ Last(w) \in Nat
  BY <1>1, Ends, OffsetsAreNat
<1>3. ASSUME NEW g \in Offsets, g < Last(w) + 1 PROVE CoveredIn(objects, g, Last(w) + 1)
  <2>1. g \in Nat /\ g <= Last(w) /\ (g = Last(w) \/ g < Last(w))
    BY <1>2, <1>3, OffsetsAreNat
  <2>2. CASE g \in Buffered(w)
    BY <1>1, <2>1, <2>2, SameItems DEF LakeInv, FlushCovered
  <2>3. CASE g \notin Buffered(w)
    <3>1. CoveredIn(objects, g, Last(w))
      BY <1>1, <1>2, <2>1, <2>3, SameItems DEF LakeInv, BatchWhole
    <3>2. Last(w) + 1 \in Nat /\ Last(w) <= Last(w) + 1 /\ objects \in SUBSET Objects
      BY <1>2 DEF LakeTypeOK, Objects
    <3> QED BY <1>2, <3>1, <3>2, CoverGrows
  <2> QED BY <2>2, <2>3
<1> QED BY <1>2, <1>3

\* Forgetting a batch leaves every other as it was.
LEMMA ForgetKeeps ==
    ASSUME LakeTypeOK, Batches, LakeInv, NEW w \in Writers, Forget(w), UNCHANGED objects
    PROVE  /\ BatchWhole' /\ ObjectsTrue' /\ FlushCovered'
           /\ buffer'[w] = << >> /\ \A v \in Writers : v # w => buffer'[v] = buffer[v]
<1>1. buffer'[w] = << >> /\ \A v \in Writers : v # w => buffer'[v] = buffer[v] /\ flush'[v] = flush[v]
  BY DEF Forget, LakeTypeOK
<1>2. flushing' = flushing \ {w} /\ flushing \subseteq Writers
  BY DEF Forget, LakeTypeOK
<1>3. BatchWhole'
  BY <1>1 DEF LakeInv, BatchWhole
<1>4. FlushCovered'
  BY <1>1, <1>2 DEF LakeInv, FlushCovered
<1> QED BY <1>1, <1>3, <1>4 DEF LakeInv, ObjectsTrue

LEMMA CommitKeeps ==
    ASSUME LakeTypeOK, Batches, LakeInv, NEW w \in Writers, Commit(w)
    PROVE  LakeInv'
<1>1. AllWritten(w) /\ w = owner /\ committed' = Last(w) + 1 /\ Forget(w)
      /\ UNCHANGED <<owner, position, objects>>
  BY DEF Commit
<1>2. BatchWhole' /\ ObjectsTrue' /\ FlushCovered' /\ buffer'[w] = << >>
  BY <1>1, ForgetKeeps
<1>3. CommitCovered'
  BY <1>1, WrittenCovered DEF CommitCovered
<1>4. FetchCovered'
  <2> SUFFICES ASSUME NEW g \in Offsets, g < position[w]
               PROVE  CoveredIn(objects, g, position[w])
    BY <1>1 DEF FetchCovered
  <2>1. CASE /\ g \in Items(buffer[w]) /\ g <= Final(buffer[w]) /\ Final(buffer[w]) < position[w]
    <3>1. Last(w) \in Nat /\ Last(w) + 1 \in Nat /\ position[w] \in Nat /\ g \in Nat
          /\ objects \in SUBSET Objects
      BY <1>1, WrittenCovered, OffsetsAreNat DEF LakeTypeOK, Objects
    <3>2. g < Last(w) + 1 /\ Last(w) + 1 <= position[w]
      BY <2>1, <3>1, SameItems
    <3>3. CoveredIn(objects, g, Last(w) + 1)
      BY <1>1, <3>2, WrittenCovered
    <3> QED BY <3>1, <3>2, <3>3, CoverGrows
  <2> QED BY <1>1, <2>1 DEF LakeInv, FetchCovered
<1> QED BY <1>2, <1>3, <1>4 DEF LakeInv

LEMMA KillKeeps ==
    ASSUME LakeTypeOK, Batches, LakeInv, NEW w \in Writers, KillWriter(w)
    PROVE  LakeInv'
<1>1. Forget(w) /\ owner' \in Writers /\ position' = [position EXCEPT ![owner'] = committed']
      /\ UNCHANGED objects
  BY DEF KillWriter
<1>2. committed' = committed \/ (AllWritten(w) /\ committed' = Last(w) + 1)
  BY DEF KillWriter
<1>3. BatchWhole' /\ ObjectsTrue' /\ FlushCovered'
  BY <1>1, ForgetKeeps
<1>4. \A g \in Offsets : g < committed' => CoveredIn(objects, g, committed')
  BY <1>2, WrittenCovered DEF LakeInv, CommitCovered
<1>5. position'[owner'] = committed'
  BY <1>1 DEF LakeTypeOK
<1>6. CommitCovered' /\ FetchCovered'
  BY <1>1, <1>4, <1>5 DEF CommitCovered, FetchCovered
<1> QED BY <1>3, <1>6 DEF LakeInv

LEMMA LakeInvKept ==
    ASSUME LakeTypeOK, Batches, LakeInv, [LakeNext]_lakeVars
    PROVE  LakeInv'
<1> USE DEF LakeInv
<1>1. CASE UNCHANGED <<committed, owner, position, buffer, flush, flushing, objects>>
  BY <1>1 DEF CommitCovered, FetchCovered, BatchWhole, ObjectsTrue, FlushCovered
<1>2. ASSUME NEW w \in Writers, BeginFlush(w) PROVE LakeInv'
  <2>1. UNCHANGED <<committed, owner, position, buffer, objects>>
    BY <1>2 DEF BeginFlush
  <2>2. flush'[w] = {PlatformOf[o] : o \in Items(buffer[w])} /\ flushing' = flushing \cup {w}
        /\ \A v \in flushing : v # w => flush'[v] = flush[v]
    BY <1>2, SameItems DEF BeginFlush, LakeTypeOK
  <2>3. FlushCovered'
    BY <2>1, <2>2 DEF FlushCovered
  <2> QED BY <2>1, <2>3 DEF CommitCovered, FetchCovered, BatchWhole, ObjectsTrue
<1>3. ASSUME NEW w \in Writers, CommitRefused(w) PROVE LakeInv'
  <2>1. Forget(w) /\ w # owner /\ UNCHANGED <<committed, owner, position, objects>>
    BY <1>3 DEF CommitRefused
  <2>2. BatchWhole' /\ ObjectsTrue' /\ FlushCovered' /\ buffer'[owner] = buffer[owner]
    BY <2>1, ForgetKeeps DEF LakeTypeOK
  <2> QED BY <2>1, <2>2 DEF CommitCovered, FetchCovered
<1>4. ASSUME NEW w \in Writers, LakeRebalance(w) PROVE LakeInv'
  <2>1. owner' = w /\ position'[w] = committed /\ UNCHANGED <<committed, buffer, flush, flushing, objects>>
    BY <1>4 DEF LakeRebalance, LakeTypeOK
  <2> QED BY <2>1 DEF CommitCovered, FetchCovered, BatchWhole, ObjectsTrue, FlushCovered
<1>5. CASE LakeNext
  <2>1. ASSUME Produce PROVE LakeInv'
    BY <1>1, <2>1 DEF Produce
  <2> QED BY <1>2, <1>3, <1>4, <1>5, <2>1, FetchKeeps, PutKeeps, CommitKeeps, KillKeeps
          DEF LakeNext, LakeStep
<1> QED BY <1>1, <1>5 DEF lakeVars

LEMMA LakeInvInit == LakeInit => LakeInv
<1> SUFFICES ASSUME LakeInit PROVE LakeInv
  OBVIOUS
<1>1. owner \in Writers
  BY LakeAssumption DEF LakeInit
<1>2. \A g \in Offsets : ~(g < 0)
  BY OffsetsAreNat
<1> QED BY <1>1, <1>2 DEF LakeInit, LakeInv, CommitCovered, FetchCovered, BatchWhole, ObjectsTrue, FlushCovered

\* What is committed is in the lake, for every value of the constants.
THEOREM CommittedIsInLake == LakeSpec => []CommittedInLake
<1>1. LakeInit => LakeTypeOK /\ Batches /\ LakeInv
  BY LakeInitTypes, LakeInvInit
<1>2. LakeTypeOK /\ Batches /\ LakeInv /\ [LakeNext]_lakeVars => LakeTypeOK' /\ Batches' /\ LakeInv'
  BY LakeStepTypes, LakeInvKept
<1>3. LakeInv => CommittedInLake
  <2> SUFFICES ASSUME LakeInv, NEW o \in Offsets, o < committed PROVE o \in InLake
    BY DEF CommittedInLake
  <2>1. CoveredIn(objects, o, committed)
    BY DEF LakeInv, CommitCovered
  <2> QED BY <2>1 DEF CoveredIn, InLake
<1> QED BY <1>1, <1>2, <1>3, PTL DEF LakeSpec

-----------------------------------------------------------------------------
(* The watch over a refresh (RefreshWatch).                                *)

\* What a dashboard will show once it has read what was sent to it.
Comes == IF unread = << >> THEN view ELSE unread[Len(unread)]

TasksTyped ==
    /\ status \in {"idle", "running", "success", "failed"} /\ runId \in 0 .. LastRun
    /\ watch \in [Refreshes -> {"none", "asking", "sleeping", "cancelled", "ended"}]
    /\ young \in BOOLEAN /\ late \in [Refreshes -> BOOLEAN] /\ published \subseteq Refreshes
    /\ hub \in [Refreshes -> {"unknown", "success", "failed"}]
    /\ told \in [Refreshes -> SUBSET {"success", "failed"}]

DashboardTyped ==
    /\ view \in {"idle", "running", "success", "failed"}
    /\ client \in {"away", "snapshot", "listening"} /\ missed \in BOOLEAN
    /\ unread \in Seq({"running", "success", "failed"}) /\ Len(unread) <= MaxRead

\* Only the newest run is watched, and what was told of a run is what spider-hub found.
NewestOnly ==
    /\ \A r \in Refreshes : (Watching(r) => r = runId) /\ (r > runId => watch[r] = "none") /\ told[r] \subseteq {hub[r]}
    /\ status \in {"success", "failed"} => runId \in Refreshes /\ watch[runId] = "ended"
    /\ status = "success" => hub[runId] = "success"

\* A dashboard that missed nothing is on its way to the state.
Follows ==
    /\ client = "listening" /\ ~missed => Comes = status
    /\ client = "snapshot" => unread = << >> /\ (~missed => view = status)

WatchInv == TasksTyped /\ DashboardTyped /\ NewestOnly /\ Follows

LEMMA WatchInvIs == WatchInv => WatchTypeOK /\ OutcomeIsReal
BY DEF WatchInv, TasksTyped, DashboardTyped, NewestOnly, Follows, WatchTypeOK, OutcomeIsReal, Comes

LEMMA WatchInvInit == WatchInit => WatchInv
<1> SUFFICES ASSUME WatchInit PROVE WatchInv
  OBVIOUS
<1>1. TasksTyped
  <2>1. runId \in 0 .. LastRun
    BY WatchAssumption DEF WatchInit
  <2>2. /\ watch \in [Refreshes -> {"none", "asking", "sleeping", "cancelled", "ended"}]
        /\ hub \in [Refreshes -> {"unknown", "success", "failed"}]
        /\ told \in [Refreshes -> SUBSET {"success", "failed"}]
    BY DEF WatchInit
  <2>3. young \in BOOLEAN /\ late \in [Refreshes -> BOOLEAN]
    BY DEF WatchInit
  <2> QED BY <2>1, <2>2, <2>3 DEF WatchInit, TasksTyped
<1>2. << >> \in Seq({"running", "success", "failed"}) /\ Len(<< >>) <= MaxRead
  BY WatchAssumption
<1>3. DashboardTyped
  BY <1>2 DEF WatchInit, DashboardTyped
<1>4. NewestOnly /\ Follows
  BY DEF WatchInit, NewestOnly, Follows, Watching
<1> QED BY <1>1, <1>3, <1>4 DEF WatchInv

LEMMA BroadcastFollows ==
    ASSUME DashboardTyped, Follows, NEW s \in {"running", "success", "failed"}, Room, Broadcast(s), status' = s
    PROVE  DashboardTyped' /\ Follows'
<1>1. CASE client = "listening"
  <2>1. unread' = Append(unread, s) /\ UNCHANGED <<view, client, missed>>
    BY <1>1 DEF Broadcast, DashboardTyped
  <2>2. unread' \in Seq({"running", "success", "failed"}) /\ Len(unread') = Len(unread) + 1 /\ unread'[Len(unread')] = s
    BY <2>1 DEF DashboardTyped
  <2>3. Len(unread) \in Nat
    BY DEF DashboardTyped
  <2>4. Len(unread') <= MaxRead /\ unread' # << >>
    BY <2>2, <2>3, WatchAssumption DEF Room
  <2> QED BY <1>1, <2>1, <2>2, <2>4 DEF DashboardTyped, Follows, Comes
<1>2. CASE client # "listening"
  BY <1>2 DEF Broadcast, DashboardTyped, Follows
<1> QED BY <1>1, <1>2

LEMMA PressKeeps == ASSUME WatchInv, NEW r \in Refreshes, Press(r) PROVE WatchInv'
<1> USE DEF WatchInv, TasksTyped, NewestOnly, hubVars
<1>1. DashboardTyped' /\ Follows'
  BY BroadcastFollows DEF Press
<1>2. watch' \in [Refreshes -> {"none", "asking", "sleeping", "cancelled", "ended"}]
  BY DEF Press, CancelOld
<1>3. \A q \in Refreshes : watch'[q] = IF q = r THEN "asking" ELSE IF Watching(q) THEN "cancelled" ELSE watch[q]
  BY DEF Press, CancelOld
<1>4. runId \in Nat /\ r \in Nat /\ r = runId + 1 /\ runId' = r /\ runId' \in 0 .. LastRun
  BY WatchAssumption DEF Press, Refreshes
<1>5. \A q \in Refreshes : q \in Nat
  BY DEF Refreshes
<1>6. \A q \in Refreshes : (Watching(q) => q = runId)' /\ (q > runId => watch[q] = "none")' /\ (told[q] \subseteq {hub[q]})'
  BY <1>3, <1>4, <1>5 DEF Press, Watching
<1>7. published' \subseteq Refreshes /\ status' = "running" /\ young' \in BOOLEAN /\ UNCHANGED <<late, hub, told>>
  BY DEF Press
<1> QED BY <1>1, <1>2, <1>4, <1>6, <1>7

\* A watch that ends writes of the newest run, as spider-hub told it.
LEMMA FinishKeeps ==
    ASSUME WatchInv, NEW r \in Refreshes, Watching(r), NEW s \in {"success", "failed"}, Finish(r, s),
           s = "success" => s \in told[r], UNCHANGED <<runId, young, late, hubVars>>
    PROVE  WatchInv'
<1> USE DEF WatchInv, TasksTyped, NewestOnly, hubVars
<1>1. DashboardTyped' /\ Follows'
  BY BroadcastFollows DEF Finish
<1>2. r = runId /\ status' = s /\ watch' = [watch EXCEPT ![r] = "ended"]
  BY DEF Finish
<1>3. watch' \in [Refreshes -> {"none", "asking", "sleeping", "cancelled", "ended"}]
  BY <1>2
<1>4. \A q \in Refreshes : watch'[q] = IF q = r THEN "ended" ELSE watch[q]
  BY <1>2
<1>5. s = "success" => hub[runId] = "success"
  BY <1>2
<1>6. ~(r > runId)
  BY <1>2, WatchAssumption DEF Refreshes
<1>7. \A q \in Refreshes : (Watching(q) => q = runId)' /\ (q > runId => watch[q] = "none")' /\ (told[q] \subseteq {hub[q]})'
  BY <1>4, <1>6 DEF Watching
<1> QED BY <1>1, <1>2, <1>3, <1>4, <1>5, <1>7

\* A watch that goes on.
LEMMA WatchGoesOn ==
    ASSUME WatchInv, NEW r \in Refreshes, Watching(r), NEW a \in {"asking", "sleeping"}, watch' = [watch EXCEPT ![r] = a],
           UNCHANGED <<status, viewVars, runId, young, late, hubVars>>
    PROVE  WatchInv'
<1> USE DEF WatchInv, TasksTyped, NewestOnly, hubVars, viewVars
<1>1. watch' \in [Refreshes -> {"none", "asking", "sleeping", "cancelled", "ended"}]
  OBVIOUS
<1>2. \A q \in Refreshes : watch'[q] = IF q = r THEN a ELSE watch[q]
  OBVIOUS
<1>3. r = runId /\ ~(r > runId)
  BY WatchAssumption DEF Refreshes
<1>4. \A q \in Refreshes : (Watching(q) => q = runId)' /\ (q > runId => watch[q] = "none")' /\ (told[q] \subseteq {hub[q]})'
  BY <1>2, <1>3 DEF Watching
<1>5. status \notin {"success", "failed"}
  BY <1>3 DEF Watching
<1>6. DashboardTyped' /\ Follows'
  BY DEF DashboardTyped, Follows, Comes
<1> QED BY <1>1, <1>4, <1>5, <1>6

LEMMA WatchStepKeeps == ASSUME WatchInv, NEW r \in Refreshes, WatchStep(r) \/ WatchFails(r) PROVE WatchInv'
<1> USE DEF WatchInv, TasksTyped, NewestOnly
<1>1. CASE Look(r)
  <2>1. ASSUME NEW s \in told[r], Finish(r, s) PROVE WatchInv'
    <3>1. s \in {"success", "failed"}
      OBVIOUS
    <3> QED BY <1>1, <2>1, <3>1, FinishKeeps DEF Look, Watching
  <2>2. CASE watch' = [watch EXCEPT ![r] = "sleeping"] /\ UNCHANGED <<status, viewVars>>
    BY <1>1, <2>2, WatchGoesOn DEF Look, Watching
  <2> QED BY <1>1, <2>1, <2>2 DEF Look, Readable
<1>2. CASE Wake(r)
  <2>1. CASE Finish(r, "failed")
    BY <1>2, <2>1, FinishKeeps DEF Wake, Watching
  <2>2. CASE watch' = [watch EXCEPT ![r] = "asking"] /\ UNCHANGED <<status, viewVars>>
    BY <1>2, <2>2, WatchGoesOn DEF Wake, Watching
  <2> QED BY <1>2, <2>1, <2>2 DEF Wake
<1>3. CASE WatchFails(r)
  BY <1>3, FinishKeeps DEF WatchFails, Watching
<1> QED BY <1>1, <1>2, <1>3 DEF WatchStep

LEMMA HubKeeps == ASSUME WatchInv, NEW r \in Refreshes, Decide(r) \/ Tell(r) PROVE WatchInv'
<1> USE DEF WatchInv, TasksTyped, NewestOnly, stateVars, viewVars
<1>1. DashboardTyped' /\ Follows'
  BY DEF Decide, Tell, DashboardTyped, Follows, Comes
<1>2. UNCHANGED <<status, runId, watch, young, late, published>> /\ \A q \in Refreshes : Watching(q)' = Watching(q)
  BY DEF Decide, Tell, Watching
<1>3. CASE Decide(r)
  <2>1. PICK s \in {"success", "failed"} : hub' = [hub EXCEPT ![r] = s]
    BY <1>3 DEF Decide
  <2>2. hub' \in [Refreshes -> {"unknown", "success", "failed"}] /\ \A q \in Refreshes : hub'[q] = IF q = r THEN s ELSE hub[q]
    BY <2>1
  <2>3. told[r] = {} /\ hub[r] = "unknown" /\ UNCHANGED told
    BY <1>3 DEF Decide
  <2>4. \A q \in Refreshes : told'[q] \subseteq {hub'[q]}
    BY <2>2, <2>3
  <2>5. status = "success" => hub'[runId] = "success"
    BY <2>2, <2>3
  <2> QED BY <1>1, <1>2, <2>2, <2>3, <2>4, <2>5
<1>4. CASE Tell(r)
  <2>1. hub[r] \in {"success", "failed"} /\ told' = [told EXCEPT ![r] = {hub[r]}] /\ UNCHANGED hub
    BY <1>4 DEF Tell
  <2>2. told' \in [Refreshes -> SUBSET {"success", "failed"}] /\ \A q \in Refreshes : told'[q] = IF q = r THEN {hub[r]} ELSE told[q]
    BY <2>1
  <2> QED BY <1>1, <1>2, <2>1, <2>2
<1> QED BY <1>3, <1>4

LEMMA TimeKeeps ==
    ASSUME WatchInv, GrowsOld \/ (\E r \in Refreshes : DeadlinePasses(r)) \/ UNCHANGED watchVars
    PROVE  WatchInv'
<1> USE DEF WatchInv, TasksTyped, NewestOnly, stateVars, hubVars, viewVars, watchVars
<1>1. UNCHANGED <<status, runId, watch, hub, told, published, view, client, unread, missed>>
      /\ young' \in BOOLEAN /\ late' \in [Refreshes -> BOOLEAN]
  BY DEF GrowsOld, DeadlinePasses
<1>2. DashboardTyped' /\ Follows' /\ \A q \in Refreshes : Watching(q)' = Watching(q)
  BY <1>1 DEF DashboardTyped, Follows, Comes, Watching
<1> QED BY <1>1, <1>2

LEMMA DashboardKeeps == ASSUME WatchInv, Snapshot \/ Subscribe \/ ReadChange \/ Leave PROVE WatchInv'
<1> USE DEF WatchInv, TasksTyped, NewestOnly, stateVars, hubVars
<1>1. UNCHANGED <<status, runId, watch, young, late, hub, told, published>> /\ \A q \in Refreshes : Watching(q)' = Watching(q)
  BY DEF Snapshot, Subscribe, ReadChange, Leave, Watching
<1>2. DashboardTyped /\ Follows /\ status \in {"idle", "running", "success", "failed"}
  OBVIOUS
<1>3. << >> \in Seq({"running", "success", "failed"}) /\ Len(<< >>) <= MaxRead
  BY WatchAssumption
<1> SUFFICES DashboardTyped' /\ Follows'
  BY <1>1
<1>4. CASE Snapshot
  BY <1>2, <1>3, <1>4 DEF Snapshot, DashboardTyped, Follows, Comes
<1>5. CASE Subscribe
  BY <1>2, <1>5 DEF Subscribe, DashboardTyped, Follows, Comes
<1>6. CASE ReadChange
  <2>1. view' = Head(unread) /\ unread' = Tail(unread) /\ unread # << >> /\ client = "listening" /\ UNCHANGED <<client, missed>>
    BY <1>6 DEF ReadChange
  <2>2. view' \in {"running", "success", "failed"} /\ unread' \in Seq({"running", "success", "failed"})
        /\ Len(unread') = Len(unread) - 1 /\ Len(unread) \in Nat
    BY <1>2, <2>1 DEF DashboardTyped
  <2>3. Len(unread') <= MaxRead
    BY <1>2, <2>2, WatchAssumption DEF DashboardTyped
  <2>4. Comes' = Comes
    <3>1. CASE unread' = << >>
      <4>1. Len(unread') = 0
        BY <3>1
      <4>2. Len(unread) = 1
        BY <2>2, <4>1
      <4>3. Head(unread) = unread[1]
        OBVIOUS
      <4> QED BY <2>1, <3>1, <4>2, <4>3 DEF Comes
    <3>2. CASE unread' # << >>
      BY <1>2, <2>1, <2>2, <3>2 DEF DashboardTyped, Comes
    <3> QED BY <3>1, <3>2
  <2> QED BY <1>1, <1>2, <2>1, <2>2, <2>3, <2>4 DEF DashboardTyped, Follows
<1>7. CASE Leave
  BY <1>2, <1>3, <1>7 DEF Leave, DashboardTyped, Follows, Comes
<1> QED BY <1>4, <1>5, <1>6, <1>7
LEMMA WatchInvStep == WatchInv /\ [WatchNext]_watchVars => WatchInv'
BY PressKeeps, WatchStepKeeps, HubKeeps, TimeKeeps, DashboardKeeps DEF WatchNext

\* The presses, the watches and the dashboard have their types, for any number of runs.
THEOREM WatchTypes == WatchSpec => []WatchTypeOK
BY WatchInvInit, WatchInvStep, WatchInvIs, PTL DEF WatchSpec

\* The state of a refresh is that of its newest run, a success only if spider-hub finished that run
\* with success, and the state a dashboard shows once it has read what was sent to it: for any
\* number of presses, late answers and connections.
THEOREM StatusIsReal == WatchSpec => []OutcomeIsReal
BY WatchInvInit, WatchInvStep, WatchInvIs, PTL DEF WatchSpec

=============================================================================
