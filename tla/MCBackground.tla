----------------------------- MODULE MCBackground -----------------------------
(***************************************************************************)
(* Small instances of the parts that run by themselves.  They share        *)
(* nothing, so a behavior follows one of them, its focus, and the others   *)
(* stay as they began.                                                     *)
(***************************************************************************)
EXTENDS SentimentSweep, RefreshWatch, LakeWriter, OmarRound, OmarComments

VARIABLE focus

\* Records of two platforms take turns; the search may use half of a budget.
MCPlatformOf == [o \in Offsets |-> 1 + (o % 2)]
MCShareOf    == [s \in Sides |-> IF s = "search" THEN 2 ELSE 1]

\* One press of a button is enough for two rounds beside each other.
MCMaxTroubles == [p \in Processes |-> IF p = Scheduler THEN 2 ELSE 1]

parts == <<focus, sweepVars, watchVars, lakeVars, roundVars, commentVars>>

Init ==
    /\ focus \in {"sweep", "watch", "lake", "round", "comments"}
    /\ SweepInit /\ WatchInit /\ LakeInit /\ OmarRoundInit /\ OmarCommentsInit
    /\ focus = "round" \/ web = Scheduler
    /\ focus = "comments" \/ worth = Videos

Next ==
    /\ UNCHANGED focus
    /\ IF focus = "sweep" THEN SweepNext ELSE UNCHANGED sweepVars
    /\ IF focus = "watch" THEN WatchNext ELSE UNCHANGED watchVars
    /\ IF focus = "lake" THEN LakeNext ELSE UNCHANGED lakeVars
    /\ IF focus = "round" THEN OmarRoundNext ELSE UNCHANGED roundVars
    /\ IF focus = "comments" THEN OmarCommentsNext ELSE UNCHANGED commentVars

\* The fairness of each part, for the part that is followed.
Fairness ==
    /\ \A x \in Sweepers :
        SF_sweepVars(focus = "sweep" /\ AcquireSweep(x)) /\ WF_sweepVars(focus = "sweep" /\ SweepStep(x))
    /\ WF_sweepVars(focus = "sweep" /\ SweepLockRunsOut)
    /\ \A r \in Refreshes :
        WF_watchVars(focus = "watch" /\ WatchStep(r)) /\ WF_watchVars(focus = "watch" /\ DeadlinePasses(r))
    /\ WF_watchVars(focus = "watch" /\ GrowsOld) /\ WF_watchVars(focus = "watch" /\ ReadChange)
    /\ \A x \in Writers : WF_lakeVars(focus = "lake" /\ LakeStep(x))
    /\ WF_roundVars(focus = "round" /\ TickStep)
    /\ \A p \in Processes : WF_roundVars(focus = "round" /\ RoundStep(p))
    /\ WF_roundVars(focus = "round" /\ NewDay) /\ WF_roundVars(focus = "round" /\ PauseOver)
    /\ WF_roundVars(focus = "round" /\ NewHour)
    /\ \A h \in Tags :
        /\ WF_roundVars(focus = "round" /\ MissingEnds(h))
        /\ WF_roundVars(focus = "round" /\ (ManualPage(h, TRUE) \/ ManualEnds(h)))
    /\ WF_commentVars(focus = "comments" /\ EnqueueStep) /\ WF_commentVars(focus = "comments" /\ LockEnds)
    /\ WF_commentVars(focus = "comments" /\ Tomorrow) /\ WF_commentVars(focus = "comments" /\ OpenQueue)
    /\ WF_commentVars(focus = "comments" /\ CloseQueue)
    /\ WF_commentVars(focus = "comments" /\ \E x \in Videos : WorkerStep(x))

Spec == Init /\ [][Next]_parts /\ Fairness

-----------------------------------------------------------------------------
(* The liveness properties, each of the part that is followed              *)

\* Comments get their labels: see ReadableGetsLabel of SentimentSweep.
CommentsGetLabels == focus = "sweep" => ReadableGetsLabel

\* A watch of a token refresh ends: see WatchEnds of RefreshWatch.
RefreshGetsOutcome == focus = "watch" => WatchEnds

\* Every record comes to the lake: see AllReachLake of LakeWriter.
RecordsReachLake == focus = "lake" => AllReachLake

\* Every hashtag is crawled to its end: see TagsGetDone of OmarRound.
HashtagsGetDone == focus = "round" => TagsGetDone

\* The comments of a video are crawled: see VideoGetsMarked of OmarComments.
VideosGetMarked == focus = "comments" => VideoGetsMarked
===============================================================================
