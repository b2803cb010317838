------------------------- MODULE CommentLease_proofs -------------------------
(***************************************************************************)
(* Proofs about CommentLease: its types, that a queued or running job      *)
(* keeps the lease on its post, that every lease is accounted for, and     *)
(* what a finished crawl records; for any number of posts, rounds, runs,   *)
(* replies and interruptions.                                              *)
(***************************************************************************)
EXTENDS CommentLease, TLAPS

------------------------------------------------------------------------------
(* Type correctness.                                                       *)

\* A run_id is not NoRun, and the planner's counts are not NoLease.
LEMMA RunsAreNat ==
    /\ Runs \subseteq Nat /\ NoRun \in Nat \ Runs
    /\ \A n \in Nat : NoRun <= n /\ NoLease \notin Replies
    /\ \A n \in Nat : n + 1 \in Runs => n + 1 <= MaxRuns
BY LeaseAssumption DEF Runs, NoRun, NoLease, Replies

LEMMA IdleTyped == Idle \in Places
BY LeaseAssumption DEF Idle, Places, Replies

\* What a sequence keeps as it grows at its end and shrinks at its head.
LEMMA SeqParts ==
    ASSUME NEW S, NEW s \in Seq(S)
    PROVE  /\ \A e \in S :
                 /\ Append(s, e) \in Seq(S)
                 /\ Len(Append(s, e)) = Len(s) + 1
                 /\ Append(s, e)[Len(s) + 1] = e
                 /\ \A i \in 1 .. Len(s) : Append(s, e)[i] = s[i]
           /\ s # <<>> =>
                 /\ Head(s) \in S /\ Head(s) = s[1] /\ Tail(s) \in Seq(S)
                 /\ Len(s) \in Nat \ {0} /\ Len(Tail(s)) = Len(s) - 1
                 /\ \A i \in 1 .. Len(s) - 1 : Tail(s)[i] = s[i + 1]
           /\ \A i \in 1 .. Len(s) : s[i] \in S
           /\ Len(s) \in Nat
           /\ <<>> \in Seq(S) /\ Len(<<>>) = 0
OBVIOUS

\* The lease of a row, cleared or kept; what is crawled keeps its type.
LEMMA RowsKept ==
    ASSUME RowsOK, NEW x, ClearLease(x) \/ KeepLease,
           crawledReplies' \in [Posts -> Replies], UNCHANGED replyCount
    PROVE  RowsOK'
<1> USE DEF RowsOK
<1>1. CASE KeepLease
  BY <1>1 DEF KeepLease, LeaseWhole
<1>2. CASE ClearLease(x)
  <2> USE <1>2 DEF ClearLease
  <2>1. queuedRun' \in [Posts -> Runs \cup {NoRun}]
    OBVIOUS
  <2>2. queuedReplies' \in [Posts -> Replies]
    <3>1. 0 \in Replies
      BY LeaseAssumption DEF Replies
    <3> QED BY <3>1
  <2>3. queuedRecently' \in [Posts -> BOOLEAN]
    OBVIOUS
  <2>4. LeaseWhole'
    BY DEF LeaseWhole
  <2> QED BY <2>1, <2>2, <2>3, <2>4
<1> QED BY <1>1, <1>2

LEMMA InitTyped == Init => TypeOK
<1> SUFFICES ASSUME Init PROVE TypeOK
  OBVIOUS
<1> USE LeaseAssumption DEF Init, Replies
<1>1. RowsOK
  BY DEF RowsOK, LeaseWhole, NoRun
<1>2. round \in [Rounds -> Places]
  BY IdleTyped
<1>3. JobsOK
  BY DEF JobsOK
<1>4. CompletionsOK /\ HistoryOK
  <2>1. <<>> \in Seq(Completions)
    OBVIOUS
  <2> QED BY <2>1 DEF CompletionsOK, HistoryOK
<1> QED BY <1>1, <1>2, <1>3, <1>4 DEF TypeOK

\* The record of a round keeps its type.
LEMMA GoTyped ==
    ASSUME round \in [Rounds -> Places], NEW k \in Rounds, NEW left \in SUBSET Posts,
           NEW r \in Runs \cup {NoRun}, NEW place \in {"publish", "release"},
           GoOn(k, left) \/ GoTo(k, place, r, left)
    PROVE  round' \in [Rounds -> Places]
<1>3. round[k].seen \in [Posts -> Replies]
  BY DEF Places
<1>4. [at |-> "mark", todo |-> left, run |-> NoRun, seen |-> round[k].seen] \in Places
  BY <1>3 DEF Places
<1>5. [at |-> place, todo |-> left, run |-> r, seen |-> round[k].seen] \in Places
  BY <1>3 DEF Places
<1> QED BY IdleTyped, <1>4, <1>5 DEF GoOn, GoTo

LEMMA NextTyped == TypeOK /\ [Next]_vars => TypeOK'
<1> SUFFICES ASSUME TypeOK, [Next]_vars PROVE TypeOK'
  OBVIOUS
<1> USE LeaseAssumption, RunsAreNat
<1> USE DEF TypeOK, rowVars, jobVars, applyVars, historyVars
<1>1. ASSUME NEW x \in Posts, Grow(x) PROVE TypeOK'
  <2> USE <1>1 DEF Grow
  <2>5. RowsOK'
    BY DEF RowsOK, LeaseWhole, Replies
  <2>6. round' \in [Rounds -> Places]
    BY DEF TypeOK
  <2>7. JobsOK'
    BY DEF JobsOK
  <2>8. CompletionsOK'
    BY DEF CompletionsOK
  <2>9. HistoryOK'
    BY DEF HistoryOK
  <2> QED BY <2>5, <2>6, <2>7, <2>8, <2>9
<1>2. ASSUME NEW x \in Posts, Expire(x) PROVE TypeOK'
  <2> USE <1>2 DEF Expire
  <2>5. RowsOK'
    BY DEF RowsOK, LeaseWhole
  <2>6. round' \in [Rounds -> Places]
    BY DEF TypeOK
  <2>7. JobsOK'
    BY DEF JobsOK
  <2>8. CompletionsOK'
    BY DEF CompletionsOK
  <2>9. HistoryOK'
    BY DEF HistoryOK, RowsOK
  <2> QED BY <2>5, <2>6, <2>7, <2>8, <2>9
<1>3. ASSUME NEW x \in Posts, PublishByHand(x) PROVE TypeOK'
  <2> USE <1>3 DEF PublishByHand
  <2>5. RowsOK'
    BY DEF RowsOK, LeaseWhole
  <2>6. round' \in [Rounds -> Places]
    BY DEF TypeOK
  <2>7. JobsOK'
    BY DEF JobsOK, Runs
  <2>8. CompletionsOK'
    BY DEF CompletionsOK
  <2>9. HistoryOK'
    BY DEF HistoryOK
  <2> QED BY <2>5, <2>6, <2>7, <2>8, <2>9
<1>4. ASSUME NEW r \in Runs, EndJob(r) PROVE TypeOK'
  <2> USE <1>4 DEF EndJob
  <2>5. RowsOK'
    BY DEF RowsOK, LeaseWhole
  <2>6. round' \in [Rounds -> Places]
    BY DEF TypeOK
  <2>7. JobsOK'
    BY DEF JobsOK
  <2>1. \A c \in Completions : Append(completions, c) \in Seq(Completions)
    BY SeqParts DEF CompletionsOK
  <2>2. \A c \in Statuses : [run |-> r, status |-> c] \in Completions
    BY DEF Completions
  <2>8. CompletionsOK'
    BY <2>1, <2>2 DEF CompletionsOK
  <2>9. HistoryOK'
    BY DEF HistoryOK
  <2> QED BY <2>5, <2>6, <2>7, <2>8, <2>9
<1>5. ASSUME NEW k \in Rounds, StartRound(k) PROVE TypeOK'
  <2> USE <1>5 DEF StartRound
  <2>1. replyCount \in [Posts -> Replies]
    BY DEF RowsOK
  <2>5. RowsOK'
    BY DEF RowsOK, LeaseWhole
  <2>6. round' \in [Rounds -> Places]
    BY <2>1 DEF Places
  <2>7. JobsOK'
    BY DEF JobsOK
  <2>8. CompletionsOK'
    BY DEF CompletionsOK
  <2>9. HistoryOK'
    BY DEF HistoryOK
  <2> QED BY <2>5, <2>6, <2>7, <2>8, <2>9
<1>6. ASSUME NEW k \in Rounds, NEW x \in Posts, MarkQueued(k, x) PROVE TypeOK'
  <2> USE <1>6 DEF MarkQueued
  <2>1. lastRun + 1 \in Runs
    OBVIOUS
  <2>2. round[k].seen[x] \in Replies
    BY DEF Places
  <2>3. round[k].todo \ {x} \in SUBSET Posts
    BY DEF Places
  <2>5. RowsOK'
    <3>1. CASE KeepLease
      BY <3>1, RowsKept DEF RowsOK
    <3>2. CASE ~KeepLease
      <4> DEFINE r == lastRun + 1
                 n == round[k].seen[x]
      <4>1. /\ queuedRun' = [queuedRun EXCEPT ![x] = r]
            /\ queuedReplies' = [queuedReplies EXCEPT ![x] = n]
            /\ queuedRecently' = [queuedRecently EXCEPT ![x] = TRUE]
            /\ UNCHANGED <<replyCount, crawledReplies>>
        BY <3>2
      <4>2. r \in Runs /\ r # NoRun /\ n \in Replies
        BY <2>1, <2>2
      <4> HIDE DEF r, n
      <4> QED BY <4>1, <4>2 DEF RowsOK, LeaseWhole
    <3> QED BY <3>1, <3>2
  <2>6. round' \in [Rounds -> Places]
    BY <2>1, <2>3, GoTyped
  <2>7. JobsOK'
    <3>1. lastRun' \in 0 .. MaxRuns
      BY <2>1 DEF Runs
    <3>2. noted' \in [Runs -> Replies \cup {NoLease}]
      BY <2>1, <2>2 DEF JobsOK
    <3>3. postOf' \in [Runs -> Posts] /\ UNCHANGED <<job, interrupts>>
      BY DEF JobsOK
    <3> QED BY <3>1, <3>2, <3>3 DEF JobsOK
  <2>8. CompletionsOK'
    BY DEF CompletionsOK
  <2>9. HistoryOK'
    BY DEF HistoryOK
  <2> QED BY <2>5, <2>6, <2>7, <2>8, <2>9
<1>7. ASSUME NEW k \in Rounds, Publish(k) PROVE TypeOK'
  <2> USE <1>7 DEF Publish
  <2>1. round[k].todo \in SUBSET Posts /\ round[k].run \in Runs \cup {NoRun}
    BY DEF Places
  <2>5. RowsOK'
    BY DEF RowsOK, LeaseWhole
  <2>6. round' \in [Rounds -> Places]
    BY <2>1, GoTyped
  <2>7. JobsOK'
    BY DEF JobsOK
  <2>8. CompletionsOK'
    BY DEF CompletionsOK
  <2>9. HistoryOK'
    BY DEF HistoryOK
  <2> QED BY <2>5, <2>6, <2>7, <2>8, <2>9
<1>8. ASSUME NEW k \in Rounds, ReleaseQueued(k) PROVE TypeOK'
  <2> USE <1>8 DEF ReleaseQueued
  <2>1. round[k].todo \in SUBSET Posts /\ round[k].run \in Runs \cup {NoRun}
    BY DEF Places
  <2>5. RowsOK'
    BY RowsKept DEF RowsOK
  <2>6. round' \in [Rounds -> Places]
    BY <2>1, GoTyped
  <2>7. JobsOK'
    BY DEF JobsOK
  <2>8. CompletionsOK'
    BY DEF CompletionsOK
  <2>9. HistoryOK'
    BY <2>1 DEF HistoryOK
  <2> QED BY <2>5, <2>6, <2>7, <2>8, <2>9
<1>9. ASSUME NEW k \in Rounds, KillRound(k) PROVE TypeOK'
  <2> USE <1>9 DEF KillRound
  <2>1. round[k].run \in Runs \cup {NoRun}
    BY DEF Places
  <2>5. RowsOK'
    BY DEF RowsOK, LeaseWhole
  <2>6. round' \in [Rounds -> Places]
    BY IdleTyped
  <2>7. JobsOK'
    BY DEF JobsOK
  <2>8. CompletionsOK'
    BY DEF CompletionsOK
  <2>9. HistoryOK'
    BY <2>1 DEF HistoryOK
  <2> QED BY <2>5, <2>6, <2>7, <2>8, <2>9
<1>10. ASSUME ApplyCompletion PROVE TypeOK'
  <2> USE <1>10 DEF ApplyCompletion
  <2>3. Head(completions) \in Completions
    BY SeqParts DEF CompletionsOK
  <2>1. Head(completions) \in Completions /\ Head(completions).run \in Runs
    BY <2>3 DEF Completions
  <2> DEFINE c == Head(completions)
             y == postOf[c.run]
  <2>2. y \in Posts /\ CrawledCount(c.run, y) \in Replies
    BY <2>1 DEF RowsOK, JobsOK, CrawledCount
  <2>5. RowsOK'
    <3>1. crawledReplies' \in [Posts -> Replies]
      BY <2>2 DEF RowsOK
    <3>2. \E z \in Posts : ClearLease(z) \/ KeepLease
      BY <2>2
    <3> QED BY <3>1, <3>2, RowsKept DEF RowsOK
  <2>6. round' \in [Rounds -> Places]
    BY DEF TypeOK
  <2>7. JobsOK'
    BY DEF JobsOK
  <2>8. CompletionsOK'
    BY DEF CompletionsOK
  <2>9. HistoryOK'
    BY <2>1 DEF HistoryOK
  <2> QED BY <2>5, <2>6, <2>7, <2>8, <2>9
<1>11. ASSUME RemoveCompletion PROVE TypeOK'
  <2> USE <1>11 DEF RemoveCompletion
  <2>5. RowsOK'
    BY DEF RowsOK, LeaseWhole
  <2>6. round' \in [Rounds -> Places]
    BY DEF TypeOK
  <2>7. JobsOK'
    BY DEF JobsOK
  <2>8. CompletionsOK'
    BY SeqParts DEF CompletionsOK
  <2>9. HistoryOK'
    BY DEF HistoryOK
  <2> QED BY <2>5, <2>6, <2>7, <2>8, <2>9
<1>12. ASSUME CancelTick PROVE TypeOK'
  <2> USE <1>12 DEF CancelTick
  <2>5. RowsOK'
    BY DEF RowsOK, LeaseWhole
  <2>6. round' \in [Rounds -> Places]
    BY DEF TypeOK
  <2>7. JobsOK'
    BY DEF JobsOK
  <2>8. CompletionsOK'
    BY DEF CompletionsOK
  <2>9. HistoryOK'
    BY DEF HistoryOK
  <2> QED BY <2>5, <2>6, <2>7, <2>8, <2>9
<1>13. ASSUME UNCHANGED vars PROVE TypeOK'
  BY <1>13 DEF vars, RowsOK, LeaseWhole, JobsOK, CompletionsOK, HistoryOK
<1> QED
  BY <1>1, <1>2, <1>3, <1>4, <1>5, <1>6, <1>7, <1>8, <1>9, <1>10, <1>11, <1>12, <1>13 DEF Next

(* Every column, round, job and completion keeps its type, and the columns *)
(* of a lease are set and cleared together.                                *)
THEOREM LeaseTypes == Spec => []TypeOK
BY InitTyped, NextTyped, PTL DEF Spec

------------------------------------------------------------------------------
(* The inductive invariant: first what several actions share.              *)

\* Types in the form the steps below need.
LEMMA Facts ==
    ASSUME IInv
    PROVE  /\ lastRun \in Nat
           /\ \A x \in Posts : queuedRun[x] \in Nat
           /\ \A k \in Rounds :
                 /\ round[k].run \in Runs \cup {NoRun} /\ round[k].run \in Nat
                 /\ round[k].todo \subseteq Posts
                 /\ round[k].at \in {"idle", "mark", "publish", "release"}
           /\ Len(completions) \in Nat
           /\ \A i \in 1 .. Len(completions) : completions[i].run \in Runs
<1> USE RunsAreNat, LeaseAssumption DEF IInv, TypeOK
<1>1. lastRun \in Nat
  BY DEF JobsOK
<1>2. \A x \in Posts : queuedRun[x] \in Nat
  BY DEF RowsOK
<1>3. \A k \in Rounds :
        /\ round[k].run \in Runs \cup {NoRun} /\ round[k].run \in Nat
        /\ round[k].todo \subseteq Posts
        /\ round[k].at \in {"idle", "mark", "publish", "release"}
  BY DEF Places
<1>4. Len(completions) \in Nat /\ \A i \in 1 .. Len(completions) : completions[i] \in Completions
  BY SeqParts DEF CompletionsOK
<1>5. \A i \in 1 .. Len(completions) : completions[i].run \in Runs
  BY <1>4 DEF Completions
<1> QED BY <1>1, <1>2, <1>3, <1>4, <1>5

\* The oldest completion is of a job that has ended.
LEMMA OldestEnded ==
    ASSUME IInv, completions # <<>>
    PROVE  /\ Head(completions) = completions[1] /\ 1 \in 1 .. Len(completions)
           /\ Head(completions).run \in Runs /\ job[Head(completions).run] = "ended"
           /\ Head(completions).status \in Statuses
<1>1. Head(completions) = completions[1] /\ 1 \in 1 .. Len(completions)
  BY SeqParts DEF IInv, TypeOK, CompletionsOK
<1>2. completions[1] \in Completions
  BY <1>1, SeqParts DEF IInv, TypeOK, CompletionsOK
<1> QED BY <1>1, <1>2, Facts DEF IInv, CompletionsEnded, Completions

\* A run at hand is made: it is one of Runs, not above lastRun.
LEMMA RunAtHand ==
    ASSUME IInv, NEW k \in Rounds, round[k].at \in {"publish", "release"}
    PROVE  round[k].run \in Runs /\ round[k].run <= lastRun /\ noted[round[k].run] # NoLease
BY Facts DEF IInv, RoundShape, RunsAreMade

\* What a round holds after GoOn.
LEMMA WentOn ==
    ASSUME round \in [Rounds -> Places], NEW k \in Rounds, NEW left, GoOn(k, left)
    PROVE  /\ round'[k].run = NoRun /\ round'[k].todo = left
           /\ round'[k].at = IF left = {} THEN "idle" ELSE "mark"
           /\ \A j \in Rounds \ {k} : round'[j] = round[j]
BY DEF GoOn, Idle

\* What a round holds after GoTo.
LEMMA WentTo ==
    ASSUME round \in [Rounds -> Places], NEW k \in Rounds, NEW left, NEW place, NEW r,
           GoTo(k, place, r, left)
    PROVE  /\ round'[k].run = r /\ round'[k].todo = left /\ round'[k].at = place
           /\ \A j \in Rounds \ {k} : round'[j] = round[j]
BY DEF GoTo

\* Undisturbed and HasLease of a run, in the next state.
UndisturbedNext(s) == noted'[s] # NoLease /\ s \notin excused' /\ postOf'[s] \notin contested'

HasLeaseNext(s) ==
    /\ queuedRun'[postOf'[s]] = s
    /\ queuedRecently'[postOf'[s]]
    /\ queuedReplies'[postOf'[s]] = noted'[s]

LEMMA LeaseKeptNext ==
    ASSUME \A s \in Runs \ applied' : (job'[s] # "new" /\ UndisturbedNext(s)) => HasLeaseNext(s),
           \A j \in Rounds : (round'[j].at = "publish" /\ UndisturbedNext(round'[j].run)) =>
               HasLeaseNext(round'[j].run)
    PROVE  LeaseKept'
BY DEF LeaseKept, HasLease, Undisturbed, HasLeaseNext, UndisturbedNext

\* A round goes on, with fewer picks and no run at hand.
LEMMA GoOnShape ==
    ASSUME IInv, NEW k \in Rounds, NEW left \in SUBSET Posts, GoOn(k, left),
           \A r \in Runs : noted[r] # NoLease => noted'[r] # NoLease,
           \A j \in Rounds \ {k} : round[j].at = "publish" => job'[round[j].run] = "new"
    PROVE  RoundShape'
<1>1. /\ round'[k].run = NoRun /\ round'[k].todo = left
      /\ round'[k].at = IF left = {} THEN "idle" ELSE "mark"
      /\ \A j \in Rounds \ {k} : round'[j] = round[j]
  BY WentOn DEF IInv, TypeOK
<1> QED BY <1>1, Facts, RunsAreNat DEF IInv, RoundShape

\* A round goes to its next step with a run that no other round has.
LEMMA GoToShape ==
    ASSUME IInv, NEW k \in Rounds, NEW left \in SUBSET Posts, NEW r \in Runs,
           NEW place \in {"publish", "release"}, GoTo(k, place, r, left),
           \A s \in Runs : noted[s] # NoLease => noted'[s] # NoLease,
           noted'[r] # NoLease,
           place = "publish" => job'[r] = "new",
           \A j \in Rounds \ {k} : round[j].run # r,
           \A j \in Rounds \ {k} : round[j].at = "publish" => job'[round[j].run] = "new"
    PROVE  RoundShape'
<1>1. /\ round'[k].run = r /\ round'[k].todo = left /\ round'[k].at = place
      /\ \A j \in Rounds \ {k} : round'[j] = round[j]
  BY WentTo DEF IInv, TypeOK
<1>2. r # NoRun
  BY RunsAreNat
<1> QED BY <1>1, <1>2, Facts, RunsAreNat DEF IInv, RoundShape

\* Picks stay free while rounds only lose picks and no lease is taken on one.
LEMMA TodoShrinks ==
    ASSUME IInv, contested' = contested,
           \A j \in Rounds : round'[j].todo \subseteq round[j].todo,
           \A j \in Rounds : \A x \in round'[j].todo \ contested :
               queuedRecently'[x] => queuedRecently[x]
    PROVE  TodoFree'
BY DEF IInv, TodoFree

LEMMA InitIInv == Init => IInv
<1> SUFFICES ASSUME Init PROVE IInv
  OBVIOUS
<1> USE DEF Init
<1>1. RunsAreMade /\ LeaseOfPost
  BY LeaseAssumption DEF RunsAreMade, LeaseOfPost, Idle, NoRun
<1>2. RoundShape
  BY DEF RoundShape, Idle
<1>3. CompletionsEnded /\ AppliedReleased
  BY DEF CompletionsEnded, AppliedReleased
<1>4. TodoFree /\ LeaseKept /\ LeaseIsAccounted
  BY DEF TodoFree, LeaseKept, LeaseIsAccounted, Idle
<1> QED BY InitTyped, <1>1, <1>2, <1>3, <1>4 DEF IInv

------------------------------------------------------------------------------
(* One lemma per action.                                                   *)

\* A post grows: only reply_count changes.
LEMMA GrowStep ==
    ASSUME IInv, TypeOK', NEW x \in Posts, Grow(x)
    PROVE  IInv'
<1> USE LeaseAssumption, RunsAreNat, Facts
<1> USE DEF IInv, TypeOK, RowsOK, JobsOK, Grow
<1> USE DEF rowVars, jobVars, applyVars, historyVars
<1>1. RunsAreMade'
  BY DEF RunsAreMade
<1>2. LeaseOfPost'
  BY DEF LeaseOfPost, RunsAreMade
<1>3. RoundShape'
  BY DEF RoundShape, RunsAreMade
<1>4. CompletionsEnded'
  BY DEF CompletionsEnded, RunsAreMade
<1>5. AppliedReleased'
  BY DEF AppliedReleased
<1>6. TodoFree'
  BY DEF TodoFree
<1>7. LeaseKept'
  BY DEF LeaseKept, HasLease, Undisturbed
<1>8. LeaseIsAccounted'
  BY DEF LeaseIsAccounted
<1> QED BY <1>1, <1>2, <1>3, <1>4, <1>5, <1>6, <1>7, <1>8

\* A lease expires: its run is excused.
LEMMA ExpireStep ==
    ASSUME IInv, TypeOK', NEW x \in Posts, Expire(x)
    PROVE  IInv'
<1> USE LeaseAssumption, RunsAreNat, Facts
<1> USE DEF IInv, TypeOK, RowsOK, JobsOK, Expire
<1> USE DEF rowVars, jobVars, applyVars, historyVars
<1>1. RunsAreMade'
  BY DEF RunsAreMade
<1>2. LeaseOfPost'
  BY DEF LeaseOfPost, RunsAreMade
<1>3. RoundShape'
  BY DEF RoundShape, RunsAreMade
<1>4. CompletionsEnded'
  BY DEF CompletionsEnded, RunsAreMade
<1>5. AppliedReleased'
  BY DEF AppliedReleased
<1>6. TodoFree'
  BY DEF TodoFree
<1>7. LeaseKept'
  BY DEF LeaseKept, HasLease, Undisturbed
<1>8. LeaseIsAccounted'
  BY DEF LeaseIsAccounted
<1> QED BY <1>1, <1>2, <1>3, <1>4, <1>5, <1>6, <1>7, <1>8

\* A run published by hand has no lease.
LEMMA PublishByHandStep ==
    ASSUME IInv, TypeOK', NEW x \in Posts, PublishByHand(x)
    PROVE  IInv'
<1> USE LeaseAssumption, RunsAreNat, Facts
<1> USE DEF IInv, TypeOK, RowsOK, JobsOK, PublishByHand
<1> USE DEF rowVars, jobVars, applyVars, historyVars
<1>a. lastRun + 1 \in Runs /\ job[lastRun + 1] = "new"
  BY DEF RunsAreMade
<1>1. RunsAreMade'
  BY <1>a DEF RunsAreMade
<1>2. LeaseOfPost'
  BY DEF LeaseOfPost, RunsAreMade
<1>3. RoundShape'
  BY DEF RoundShape, RunsAreMade
<1>4. CompletionsEnded'
  BY DEF CompletionsEnded, RunsAreMade
<1>5. AppliedReleased'
  BY <1>a, OldestEnded DEF AppliedReleased
<1>6. TodoFree'
  BY DEF TodoFree
<1>7. LeaseKept'
  <2>1. \A k \in Rounds : round[k].at = "publish" => round[k].run # lastRun + 1
    BY RunAtHand
  <2>2. noted[lastRun + 1] = NoLease
    BY <1>a DEF RunsAreMade
  <2>3. \A s \in Runs \ {lastRun + 1} : job'[s] = job[s] /\ postOf'[s] = postOf[s]
    OBVIOUS
  <2>4. \A k \in Rounds : round[k].at = "publish" => round[k].run \in Runs
    BY RunAtHand
  <2> QED BY <2>1, <2>2, <2>3, <2>4 DEF LeaseKept, HasLease, Undisturbed
<1>8. LeaseIsAccounted'
  BY DEF LeaseIsAccounted
<1> QED BY <1>1, <1>2, <1>3, <1>4, <1>5, <1>6, <1>7, <1>8

\* A job ends: its completion is in the list, or its run is lost.
LEMMA EndJobStep ==
    ASSUME IInv, TypeOK', NEW r \in Runs, EndJob(r)
    PROVE  IInv'
<1> USE LeaseAssumption, RunsAreNat, Facts
<1> USE DEF IInv, TypeOK, RowsOK, JobsOK, EndJob
<1> USE DEF rowVars, jobVars, applyVars, historyVars
<1>a. \/ \E s \in Statuses :
            /\ completions' = Append(completions, [run |-> r, status |-> s])
            /\ s = "malformed" => r \in lost'
      \/ completions' = completions /\ r \in lost'
  OBVIOUS
<1>b. lost \subseteq lost' /\ job'[r] = "ended" /\ \A s \in Runs \ {r} : job'[s] = job[s]
  OBVIOUS
<1>c. \A s \in Statuses : [run |-> r, status |-> s] \in Completions
  BY DEF Completions
<1>d. /\ \A i \in 1 .. Len(completions) :
            i \in 1 .. Len(completions') /\ completions'[i] = completions[i]
      /\ completions # <<>> => Head(completions') = Head(completions) /\ completions' # <<>>
      /\ \A i \in 1 .. Len(completions') : \/ i \in 1 .. Len(completions)
                                           \/ /\ completions'[i].run = r
                                              /\ completions'[i].status = "malformed" => r \in lost'
      /\ (\E i \in 1 .. Len(completions') : completions'[i].run = r) \/ r \in lost'
  <2>1. completions \in Seq(Completions)
    BY DEF CompletionsOK
  <2>2. CASE completions' = completions /\ r \in lost'
    BY <2>2
  <2>3. ASSUME NEW s \in Statuses, s = "malformed" => r \in lost',
               completions' = Append(completions, [run |-> r, status |-> s])
        PROVE  <1>d!:
    <3> DEFINE c == [run |-> r, status |-> s]
    <3>1. c \in Completions /\ c.run = r /\ c.status = s /\ completions' = Append(completions, c)
      BY <2>3, <1>c
    <3> HIDE DEF c
    <3>2. /\ completions' \in Seq(Completions)
          /\ Len(completions') = Len(completions) + 1 /\ Len(completions) \in Nat
          /\ completions'[Len(completions) + 1] = c
          /\ \A i \in 1 .. Len(completions) : completions'[i] = completions[i]
      BY <2>1, <3>1, SeqParts
    <3>3. completions # <<>> => Head(completions') = Head(completions) /\ completions' # <<>>
      <4>1. completions' # <<>> /\ Head(completions') = completions'[1]
        BY <3>2, SeqParts
      <4>2. completions # <<>> => Head(completions) = completions[1] /\ 1 \in 1 .. Len(completions)
        BY <2>1, SeqParts
      <4> QED BY <4>1, <4>2, <3>2
    <3>4. Len(completions) + 1 \in 1 .. Len(completions')
      BY <3>2
    <3>5. \A i \in 1 .. Len(completions') : i \in 1 .. Len(completions) \/ i = Len(completions) + 1
      BY <3>2
    <3> QED BY <3>1, <3>2, <3>3, <3>4, <3>5, <2>3
  <2> QED BY <1>a, <2>2, <2>3
<1>1. RunsAreMade'
  BY DEF RunsAreMade
<1>2. LeaseOfPost'
  BY DEF LeaseOfPost, RunsAreMade
<1>3. RoundShape'
  BY DEF RoundShape, RunsAreMade
<1>4. CompletionsEnded'
  <2>1. ASSUME NEW i \in 1 .. Len(completions')
        PROVE  /\ job'[completions'[i].run] = "ended"
               /\ completions'[i].status = "malformed" => completions'[i].run \in lost'
    BY <1>b, <1>d DEF CompletionsEnded
  <2>2. \A s \in applied : job'[s] = "ended"
    BY <1>b DEF CompletionsEnded, HistoryOK
  <2> QED BY <2>1, <2>2 DEF CompletionsEnded
<1>5. AppliedReleased'
  BY <1>d DEF AppliedReleased
<1>6. TodoFree'
  BY DEF TodoFree
<1>7. LeaseKept'
  BY DEF LeaseKept, HasLease, Undisturbed
<1>8. LeaseIsAccounted'
  <2> SUFFICES ASSUME NEW x \in Posts, queuedRecently[x]
               PROVE  LET q == queuedRun[x]
                      IN  \/ \E k \in Rounds : round[k].run = q
                          \/ job'[q] = "queued"
                          \/ \E i \in 1 .. Len(completions') : completions'[i].run = q
                          \/ q \in lost'
    BY DEF LeaseIsAccounted
  <2>1. CASE queuedRun[x] = r
    BY <2>1, <1>d
  <2>2. CASE queuedRun[x] # r
    <3>1. queuedRun[x] \in Runs /\ round' = round
      BY DEF LeaseWhole
    <3>2. \A q \in Runs \ {r} : job[q] = "queued" => job'[q] = "queued"
      BY <1>b
    <3> HIDE DEF EndJob
    <3> QED BY <2>2, <3>1, <3>2, <1>b, <1>d DEF LeaseIsAccounted
  <2> QED BY <2>1, <2>2
<1> QED BY <1>1, <1>2, <1>3, <1>4, <1>5, <1>6, <1>7, <1>8

\* A round picks posts that are free.
LEMMA StartRoundStep ==
    ASSUME IInv, TypeOK', NEW k \in Rounds, StartRound(k)
    PROVE  IInv'
<1> USE LeaseAssumption, RunsAreNat, Facts
<1> USE DEF IInv, TypeOK, RowsOK, JobsOK, StartRound
<1> USE DEF rowVars, jobVars, applyVars, historyVars
<1>a. PICK picks \in (SUBSET {x \in Posts : Free(x)}) \ {{}} :
          /\ round' = [round EXCEPT ![k] =
                          [at |-> "mark", todo |-> picks, run |-> NoRun, seen |-> replyCount]]
          /\ contested' = contested \cup UNION {picks \cap round[j].todo : j \in Rounds \ {k}}
  OBVIOUS
<1>b. /\ round'[k].at = "mark" /\ round'[k].todo = picks /\ round'[k].run = NoRun
      /\ \A j \in Rounds \ {k} : round'[j] = round[j]
  BY <1>a
<1>c. contested \subseteq contested'
  BY <1>a
<1>1. RunsAreMade'
  BY <1>b DEF RunsAreMade
<1>2. LeaseOfPost'
  BY DEF LeaseOfPost, RunsAreMade
<1>3. RoundShape'
  BY <1>b DEF RoundShape
<1>4. CompletionsEnded'
  BY DEF CompletionsEnded, RunsAreMade
<1>5. AppliedReleased'
  BY DEF AppliedReleased
<1>6. TodoFree'
  <2>1. \A x \in picks : ~queuedRecently[x]
    BY DEF Free
  <2>2. \A j \in Rounds \ {k} : picks \cap round[j].todo \subseteq contested'
    BY <1>a
  <2> QED BY <1>b, <1>c, <2>1, <2>2 DEF TodoFree
<1>7. LeaseKept'
  BY <1>b, <1>c DEF LeaseKept, HasLease, Undisturbed
<1>8. LeaseIsAccounted'
  <2>1. round[k].run = NoRun
    BY DEF RoundShape
  <2>2. \A x \in Posts : queuedRecently[x] => queuedRun[x] # NoRun
    BY DEF LeaseWhole
  <2> QED BY <1>b, <2>1, <2>2 DEF LeaseIsAccounted
<1> QED BY <1>1, <1>2, <1>3, <1>4, <1>5, <1>6, <1>7, <1>8

\* A new run takes the lease of a pick that is free or contested.
LEMMA MarkQueuedStep ==
    ASSUME IInv, TypeOK', NEW k \in Rounds, NEW x \in Posts, MarkQueued(k, x)
    PROVE  IInv'
<1> USE LeaseAssumption, RunsAreNat, Facts
<1> USE DEF IInv, TypeOK, RowsOK, JobsOK, MarkQueued
<1> USE DEF rowVars, jobVars, applyVars, historyVars
<1> DEFINE r == lastRun + 1
            left == round[k].todo \ {x}
<1>a. r \in Runs /\ job[r] = "new" /\ noted[r] = NoLease /\ r # NoRun
  BY DEF RunsAreMade
<1>b. left \in SUBSET Posts /\ round[k].seen[x] \in Replies /\ round[k].run = NoRun
  BY DEF Places, RoundShape
<1>c. \A j \in Rounds : round[j].run # r
  BY DEF RunsAreMade
<1>d. \A s \in Runs \ {r} : postOf'[s] = postOf[s] /\ noted'[s] = noted[s]
  OBVIOUS
<1>e. \/ /\ queuedRun' = [queuedRun EXCEPT ![x] = r]
         /\ queuedReplies' = [queuedReplies EXCEPT ![x] = round[k].seen[x]]
         /\ queuedRecently' = [queuedRecently EXCEPT ![x] = TRUE]
         /\ noted' = [noted EXCEPT ![r] = round[k].seen[x]]
         /\ GoTo(k, "publish", r, left) \/ (GoOn(k, left) /\ r \in lost')
      \/ GoOn(k, left) /\ KeepLease /\ noted' = noted
  OBVIOUS
<1>i. GoOn(k, left) => /\ round'[k].todo = left /\ round'[k].run = NoRun
                       /\ round'[k].at # "publish"
                       /\ \A j \in Rounds \ {k} : round'[j] = round[j]
  BY WentOn
<1>j. GoTo(k, "publish", r, left) => /\ round'[k].todo = left /\ round'[k].run = r
                                     /\ \A j \in Rounds \ {k} : round'[j] = round[j]
  BY WentTo
<1>k. /\ round'[k].todo = left
      /\ \A j \in Rounds \ {k} : round'[j] = round[j]
      /\ round'[k].run \in {NoRun, r}
  BY <1>e, <1>i, <1>j
<1>f. \/ /\ queuedRun' = [queuedRun EXCEPT ![x] = r]
         /\ queuedReplies' = [queuedReplies EXCEPT ![x] = round[k].seen[x]]
         /\ queuedRecently' = [queuedRecently EXCEPT ![x] = TRUE]
         /\ noted' = [noted EXCEPT ![r] = round[k].seen[x]]
         /\ \/ round'[k].run = r
            \/ round'[k].run = NoRun /\ round'[k].at # "publish" /\ r \in lost'
      \/ KeepLease /\ noted' = noted /\ round'[k].run = NoRun /\ round'[k].at # "publish"
  BY <1>e, <1>i, <1>j
<1>g. lost \subseteq lost' /\ postOf'[r] = x /\ lastRun' = r
  BY <1>a
<1>h. \A y \in Posts \ {x} : /\ queuedRun'[y] = queuedRun[y]
                              /\ queuedReplies'[y] = queuedReplies[y]
                              /\ queuedRecently'[y] = queuedRecently[y]
  BY <1>f DEF KeepLease
<1>u. UNCHANGED <<replyCount, crawledReplies, job, completions, applyVars, interrupts,
                  excused, contested>>
  OBVIOUS
<1>l. x \in round[k].todo
  OBVIOUS
<1>n. lastRun \in Nat /\ \A y \in Posts : queuedRun[y] \in Nat
  BY Facts
<1>o. \A j \in Rounds : round[j].run \in Nat
  BY Facts
<1>p. r \in Nat /\ lastRun < r
  BY <1>n
<1> HIDE DEF r, left, MarkQueued
<1>v. r \in Nat /\ lastRun < r /\ NoRun <= r
  BY <1>p
<1>1. RunsAreMade'
  <2>1. ASSUME NEW s \in Runs, s > r
        PROVE  job'[s] = "new" /\ noted'[s] = NoLease
    <3>1. \A a, b, c \in Nat : a < b /\ c > b => c > a /\ c # b
      OBVIOUS
    <3>2. s \in Nat
      OBVIOUS
    <3>3. s > lastRun /\ s # r
      BY <2>1, <3>1, <3>2, <1>n, <1>v
    <3> QED BY <3>3, <1>d, <1>u DEF RunsAreMade
  <2>2. \A y \in Posts : queuedRun'[y] \in {queuedRun[y], r}
    BY <1>f DEF KeepLease
  <2>3. ASSUME NEW y \in Posts PROVE queuedRun'[y] <= r
    <3>1. queuedRun[y] <= lastRun /\ queuedRun[y] \in Nat
      BY <1>n DEF RunsAreMade
    <3>2. \A a, b, c \in Nat : a <= b /\ b < c => a <= c /\ c <= c
      OBVIOUS
    <3>3. queuedRun[y] <= r /\ r <= r
      BY <3>1, <3>2, <1>n, <1>v
    <3> QED BY <2>2, <3>3
  <2>4. \A j \in Rounds : round'[j].run <= r
    <3>1. round'[k].run <= r
      BY <1>k, <1>v
    <3>2. \A j \in Rounds \ {k} : round'[j].run = round[j].run /\ round[j].run <= lastRun
      BY <1>k DEF RunsAreMade
    <3>3. ASSUME NEW j \in Rounds \ {k} PROVE round'[j].run <= r
      <4>1. round'[j].run = round[j].run /\ round[j].run <= lastRun /\ round[j].run \in Nat
        BY <3>2, <1>o
      <4>2. \A a, b, c \in Nat : a <= b /\ b < c => a <= c
        OBVIOUS
      <4> QED BY <4>1, <4>2, <1>n, <1>v
    <3> QED BY <3>1, <3>3
  <2> QED BY <1>g, <2>1, <2>3, <2>4 DEF RunsAreMade
<1>2. LeaseOfPost'
  <2> SUFFICES ASSUME NEW y \in Posts, queuedRun'[y] # NoRun
               PROVE  postOf'[queuedRun'[y]] = y
    BY DEF LeaseOfPost
  <2>1. CASE queuedRun'[y] = queuedRun[y]
    <3>1. queuedRun[y] \in Runs \ {r}
      BY <2>1 DEF RunsAreMade, r
    <3> QED BY <2>1, <3>1, <1>d DEF LeaseOfPost
  <2>2. CASE queuedRun'[y] # queuedRun[y]
    BY <2>2, <1>f, <1>g DEF KeepLease
  <2> QED BY <2>1, <2>2
<1>3. RoundShape'
  <2>1. \A s \in Runs : noted[s] # NoLease => noted'[s] # NoLease
    BY <1>a, <1>d
  <2>2. \A j \in Rounds : round[j].at = "publish" => job'[round[j].run] = "new"
    BY <1>u DEF RoundShape
  <2>3. CASE GoOn(k, left)
    BY <2>1, <2>2, <2>3, <1>b, GoOnShape
  <2>4. CASE GoTo(k, "publish", r, left)
    <3>1. noted'[r] # NoLease
      <4>1. round'[k].run = r
        BY <2>4, <1>j
      <4>2. noted' = [noted EXCEPT ![r] = round[k].seen[x]]
        BY <4>1, <1>a, <1>f
      <4>3. noted'[r] = round[k].seen[x]
        BY <4>2, <1>a
      <4> QED BY <4>3, <1>b
    <3>2. job'[r] = "new" /\ "publish" \in {"publish", "release"}
      BY <1>a, <1>u
    <3>3. \A j \in Rounds \ {k} : round[j].run # r
      BY <1>c
    <3>4. \A j \in Rounds \ {k} : round[j].at = "publish" => job'[round[j].run] = "new"
      BY <2>2
    <3>5. r \in Runs /\ left \in SUBSET Posts
      BY <1>a, <1>b
    <3> HIDE DEF IInv, TypeOK, RowsOK, JobsOK
    <3> QED BY <2>1, <2>4, <3>1, <3>2, <3>3, <3>4, <3>5, GoToShape
  <2> QED BY <2>3, <2>4, <1>e
<1>4. CompletionsEnded'
  BY <1>g, <1>u DEF CompletionsEnded, applyVars
<1>5. AppliedReleased'
  <2>1. completions # <<>> => Head(completions).run \in Runs \ {r}
    BY OldestEnded, <1>a
  <2>2. completions # <<>> => postOf[Head(completions).run] \in Posts
    BY <2>1
  <2>3. \A y \in Posts : queuedRun'[y] \in {queuedRun[y], r}
    BY <1>f DEF KeepLease
  <2> QED BY <2>1, <2>2, <2>3, <1>d, <1>u DEF AppliedReleased
<1>6. TodoFree'
  <2>1. \A j \in Rounds : round'[j].todo \subseteq round[j].todo
    BY <1>k DEF left
  <2>2. \A j \in Rounds : x \in round'[j].todo \ contested => FALSE
    BY <1>k, <1>l, <2>1 DEF TodoFree, left
  <2> QED BY <2>1, <2>2, <1>h, <1>u, TodoShrinks
<1>7. LeaseKept'
  <2>1. ASSUME NEW s \in Runs \ {r}, UndisturbedNext(s), HasLease(s)
        PROVE  HasLeaseNext(s)
    <3>1. Undisturbed(s)
      BY <2>1, <1>d, <1>u DEF Undisturbed, UndisturbedNext
    <3>2. postOf[s] # x
      BY <2>1, <3>1, <1>l DEF HasLease, TodoFree, Undisturbed
    <3> QED BY <2>1, <3>2, <1>d, <1>h DEF HasLease, HasLeaseNext
  <2>2. ASSUME NEW s \in Runs \ applied, job'[s] # "new", UndisturbedNext(s)
        PROVE  HasLeaseNext(s)
    <3>1. s # r /\ HasLease(s)
      BY <2>2, <1>a, <1>d, <1>u DEF LeaseKept, Undisturbed, UndisturbedNext
    <3> QED BY <2>1, <2>2, <3>1
  <2>3. ASSUME NEW j \in Rounds \ {k}, round'[j].at = "publish", UndisturbedNext(round'[j].run)
        PROVE  HasLeaseNext(round'[j].run)
    <3>1. round'[j] = round[j] /\ round[j].run \in Runs \ {r}
      <4>1. round'[j] = round[j]
        BY <1>k
      <4> QED BY <2>3, <4>1, <1>c, RunAtHand
    <3>2. HasLease(round[j].run)
      BY <2>3, <3>1, <1>d, <1>u DEF LeaseKept, Undisturbed, UndisturbedNext
    <3> QED BY <2>1, <2>3, <3>1, <3>2
  <2>4. round'[k].at = "publish" => HasLeaseNext(round'[k].run)
    <3>1. ASSUME round'[k].at = "publish"
          PROVE  /\ queuedRun'[x] = r /\ queuedRecently'[x] /\ round'[k].run = r
                 /\ queuedReplies'[x] = round[k].seen[x] /\ noted'[r] = round[k].seen[x]
      BY <3>1, <1>a, <1>f
    <3> QED BY <3>1, <1>g DEF HasLeaseNext
  <2>5. applied' = applied
    BY <1>u DEF applyVars
  <2> QED BY <2>2, <2>3, <2>4, <2>5, LeaseKeptNext
<1>8. LeaseIsAccounted'
  <2>1. \A j \in Rounds : round[j].run # NoRun => round'[j].run = round[j].run
    BY <1>b, <1>k
  <2>2. \A y \in Posts : queuedRecently[y] => queuedRun[y] # NoRun
    BY DEF LeaseWhole
  <2>3. ASSUME NEW y \in Posts, queuedRecently'[y], queuedRun'[y] = queuedRun[y], queuedRecently[y]
        PROVE  LET q == queuedRun'[y]
               IN  \/ \E j \in Rounds : round'[j].run = q
                   \/ job'[q] = "queued"
                   \/ \E i \in 1 .. Len(completions') : completions'[i].run = q
                   \/ q \in lost'
    BY <2>1, <2>2, <2>3, <1>g, <1>u DEF LeaseIsAccounted
  <2>4. ASSUME queuedRun'[x] = r, ~KeepLease
        PROVE  (\E j \in Rounds : round'[j].run = r) \/ r \in lost'
    BY <2>4, <1>f
  <2>5. \A y \in Posts \ {x} : queuedRecently'[y] =>
            queuedRun'[y] = queuedRun[y] /\ queuedRecently[y]
    BY <1>h
  <2>6. KeepLease \/ queuedRun'[x] = r
    BY <1>f
  <2> QED BY <2>3, <2>4, <2>5, <2>6, <1>u DEF LeaseIsAccounted, KeepLease
<1> QED BY <1>1, <1>2, <1>3, <1>4, <1>5, <1>6, <1>7, <1>8

\* A run that has its lease is published.
LEMMA PublishStep ==
    ASSUME IInv, TypeOK', NEW k \in Rounds, Publish(k)
    PROVE  IInv'
<1> USE LeaseAssumption, RunsAreNat, Facts
<1> USE DEF IInv, TypeOK, RowsOK, JobsOK, Publish
<1> USE DEF rowVars, jobVars, applyVars, historyVars
<1> DEFINE r == round[k].run
            left == round[k].todo
<1>a. r \in Runs /\ r # NoRun /\ noted[r] # NoLease /\ job[r] = "new" /\ r <= lastRun
  BY RunAtHand DEF RoundShape
<1>b. \A j \in Rounds \ {k} : round[j].run # r
  BY <1>a DEF RoundShape
<1>c. left \in SUBSET Posts /\ {} \in SUBSET Posts
  OBVIOUS
<1>d. \A s \in Runs \ {r} : job'[s] = job[s]
  OBVIOUS
<1>e. \/ job'[r] = "queued" /\ (GoOn(k, left) \/ GoOn(k, {}))
      \/ job'[r] \in {"new", "queued"} /\ GoTo(k, "release", r, left)
  BY <1>a
<1>g. ASSUME NEW to \in SUBSET left, GoOn(k, to)
      PROVE  /\ round'[k].todo \subseteq left /\ round'[k].at # "publish"
             /\ \A j \in Rounds \ {k} : round'[j] = round[j]
             /\ round'[k].run = NoRun
  BY <1>g, WentOn
<1>h. GoTo(k, "release", r, left) =>
             /\ round'[k].todo \subseteq left /\ round'[k].at # "publish"
             /\ \A j \in Rounds \ {k} : round'[j] = round[j]
             /\ round'[k].run = r
  BY WentTo
<1>f. /\ round'[k].todo \subseteq left /\ round'[k].at # "publish"
      /\ \A j \in Rounds \ {k} : round'[j] = round[j]
      /\ round'[k].run \in {NoRun, r}
      /\ job'[r] # "queued" => round'[k].run = r
  <2>1. CASE GoOn(k, left) /\ job'[r] = "queued"
    BY <2>1, <1>g
  <2>2. CASE GoOn(k, {}) /\ job'[r] = "queued"
    BY <2>2, <1>g
  <2>3. CASE GoTo(k, "release", r, left)
    BY <2>3, <1>h
  <2> QED BY <1>e, <2>1, <2>2, <2>3
<1> HIDE DEF r, left
<1>1. RunsAreMade'
  <2>1. lastRun' = lastRun /\ queuedRun' = queuedRun /\ noted' = noted
    OBVIOUS
  <2>2. \A s \in Runs : s > lastRun => job'[s] = "new"
    BY <1>a, <1>d DEF RunsAreMade
  <2>3. \A j \in Rounds : round'[j].run <= lastRun
    <3>1. NoRun <= lastRun
      OBVIOUS
    <3> QED BY <3>1, <1>a, <1>f DEF RunsAreMade
  <2> HIDE DEF Publish
  <2> QED BY <2>1, <2>2, <2>3 DEF RunsAreMade
<1>2. LeaseOfPost'
  BY DEF LeaseOfPost, RunsAreMade
<1>3. RoundShape'
  <2>1. \A j \in Rounds \ {k} : round[j].at = "publish" => job'[round[j].run] = "new"
    BY <1>b, <1>d, RunAtHand DEF RoundShape
  <2> QED BY <2>1, <1>a, <1>b, <1>c, <1>e, GoOnShape, GoToShape
<1>4. CompletionsEnded'
  <2>1. \A s \in Runs : job[s] = "ended" => job'[s] = "ended"
    BY <1>a, <1>d
  <2>2. completions' = completions /\ applied' = applied /\ lost' = lost /\ applied \subseteq Runs
    BY DEF HistoryOK
  <2> QED BY <2>1, <2>2 DEF CompletionsEnded
<1>5. AppliedReleased'
  BY DEF AppliedReleased
<1>6. TodoFree'
  <2>1. \A j \in Rounds : round'[j].todo \subseteq round[j].todo
    BY <1>f DEF left
  <2> QED BY <2>1, TodoShrinks
<1>7. LeaseKept'
  <2>1. Undisturbed(r) => HasLease(r)
    BY DEF LeaseKept, r
  <2>2. \A s \in Runs \ applied : (job'[s] # "new" /\ Undisturbed(s)) => HasLease(s)
    BY <2>1, <1>d DEF LeaseKept
  <2>3. \A j \in Rounds : round'[j].at = "publish" => round'[j] = round[j]
    BY <1>f
  <2> QED BY <2>2, <2>3 DEF LeaseKept, HasLease, Undisturbed
<1>8. LeaseIsAccounted'
  <2>1. \A j \in Rounds : round[j].run = r => j = k
    BY <1>b
  <2>2. \A s \in Runs : job[s] = "queued" => job'[s] = "queued"
    BY <1>a, <1>d
  <2>3. \A y \in Posts : queuedRecently[y] => queuedRun[y] \in Runs
    BY DEF LeaseWhole
  <2>4. ASSUME NEW y \in Posts, queuedRecently[y], NEW j \in Rounds, round[j].run = queuedRun[y]
        PROVE  (\E i \in Rounds : round'[i].run = queuedRun[y]) \/ job'[queuedRun[y]] = "queued"
    <3>1. CASE j = k
      BY <2>4, <3>1, <1>a, <1>f DEF r
    <3>2. CASE j # k
      BY <2>4, <3>2, <1>f
    <3> QED BY <3>1, <3>2
  <2> QED BY <2>2, <2>3, <2>4 DEF LeaseIsAccounted
<1> QED BY <1>1, <1>2, <1>3, <1>4, <1>5, <1>6, <1>7, <1>8

\* A run gives its own lease back, and is excused.
LEMMA ReleaseQueuedStep ==
    ASSUME IInv, TypeOK', NEW k \in Rounds, ReleaseQueued(k)
    PROVE  IInv'
<1> USE LeaseAssumption, RunsAreNat, Facts
<1> USE DEF IInv, TypeOK, RowsOK, JobsOK, ReleaseQueued
<1> USE DEF rowVars, jobVars, applyVars, historyVars
<1> DEFINE r == round[k].run
            x == postOf[r]
            left == round[k].todo
<1>a. r \in Runs /\ r # NoRun /\ x \in Posts /\ r <= lastRun /\ left \in SUBSET Posts
  BY RunAtHand
<1>b. \A j \in Rounds \ {k} : round[j].run # r
  BY <1>a DEF RoundShape
<1>c. /\ round'[k].todo = left /\ round'[k].at # "publish" /\ round'[k].run = NoRun
      /\ \A j \in Rounds \ {k} : round'[j] = round[j]
  BY WentOn
<1>d. GoOn(k, left) /\ UNCHANGED <<job, noted, postOf, completions, applied, applying, contested, lastRun>>
  OBVIOUS
<1>e. \/ KeepLease /\ excused \subseteq excused' /\ r \in lost' \cup excused'
      \/ ClearLease(x) /\ queuedRun[x] = r /\ r \in excused' /\ excused \subseteq excused'
  BY DEF OwnsLease
<1>f. lost \subseteq lost' /\ (KeepLease /\ queuedRun[x] = r => r \in lost')
  BY <1>a DEF OwnsLease, ClearLease, KeepLease
<1> HIDE DEF r, x, left
<1>g. \A y \in Posts :
        \/ /\ queuedRun'[y] = queuedRun[y] /\ queuedReplies'[y] = queuedReplies[y]
           /\ queuedRecently'[y] = queuedRecently[y]
        \/ queuedRun[y] = r /\ queuedRun'[y] = NoRun /\ queuedRecently'[y] = FALSE
  BY <1>a, <1>e DEF ClearLease, KeepLease
<1>1. RunsAreMade'
  <2>1. NoRun <= lastRun
    OBVIOUS
  <2>2. \A j \in Rounds : round'[j].run <= lastRun
    BY <2>1, <1>c DEF RunsAreMade
  <2>3. \A y \in Posts : queuedRun'[y] <= lastRun
    BY <2>1, <1>g DEF RunsAreMade
  <2> HIDE DEF ReleaseQueued
  <2> QED BY <2>2, <2>3, <1>d DEF RunsAreMade
<1>2. LeaseOfPost'
  BY <1>d, <1>g DEF LeaseOfPost
<1>3. RoundShape'
  BY <1>a, <1>d, GoOnShape DEF RoundShape
<1>4. CompletionsEnded'
  BY <1>d, <1>f DEF CompletionsEnded
<1>5. AppliedReleased'
  <2>1. completions # <<>> => /\ postOf[Head(completions).run] \in Posts
                             /\ Head(completions).run # NoRun
    BY OldestEnded
  <2> QED BY <2>1, <1>d, <1>g DEF AppliedReleased
<1>6. TodoFree'
  <2>1. \A j \in Rounds : round'[j].todo \subseteq round[j].todo
    BY <1>c DEF left
  <2> QED BY <2>1, <1>d, <1>g, TodoShrinks
<1>7. LeaseKept'
  <2>1. ASSUME NEW s \in Runs, UndisturbedNext(s), HasLease(s)
        PROVE  HasLeaseNext(s)
    <3>1. s # r \/ KeepLease
      BY <2>1, <1>e DEF UndisturbedNext
    <3>2. postOf[s] \in Posts
      OBVIOUS
    <3> QED BY <2>1, <3>1, <3>2, <1>d, <1>g DEF HasLease, HasLeaseNext, KeepLease
  <2>2. \A s \in Runs : UndisturbedNext(s) => Undisturbed(s)
    BY <1>d, <1>e DEF Undisturbed, UndisturbedNext
  <2>3. \A s \in Runs \ applied' : (job'[s] # "new" /\ UndisturbedNext(s)) => HasLeaseNext(s)
    BY <2>1, <2>2, <1>d DEF LeaseKept
  <2>4. ASSUME NEW j \in Rounds, round'[j].at = "publish", UndisturbedNext(round'[j].run)
        PROVE  HasLeaseNext(round'[j].run)
    <3>1. round'[j] = round[j] /\ round[j].run \in Runs
      <4>1. j # k
        BY <2>4, <1>c
      <4>2. round'[j] = round[j]
        BY <4>1, <1>c
      <4> QED BY <2>4, <4>2, RunAtHand
    <3>2. HasLease(round[j].run)
      BY <2>2, <2>4, <3>1 DEF LeaseKept
    <3> QED BY <2>1, <2>4, <3>1, <3>2
  <2> HIDE DEF ReleaseQueued
  <2> QED BY <2>3, <2>4, LeaseKeptNext
<1>8. LeaseIsAccounted'
  <2> SUFFICES ASSUME NEW y \in Posts, queuedRecently'[y]
               PROVE  LET q == queuedRun'[y]
                      IN  \/ \E j \in Rounds : round'[j].run = q
                          \/ job'[q] = "queued"
                          \/ \E i \in 1 .. Len(completions') : completions'[i].run = q
                          \/ q \in lost'
    BY DEF LeaseIsAccounted
  <2>1. queuedRun'[y] = queuedRun[y] /\ queuedRecently[y]
    BY <1>g
  <2>2. CASE queuedRun[y] = r
    <3>1. y = x
      BY <2>2, <1>a DEF LeaseOfPost, x
    <3>2. KeepLease
      BY <2>1, <2>2, <3>1, <1>a, <1>e DEF ClearLease
    <3> QED BY <2>1, <2>2, <3>1, <3>2, <1>f
  <2>3. CASE queuedRun[y] # r
    <3>1. \A j \in Rounds : round[j].run = queuedRun[y] => round'[j].run = queuedRun[y]
      BY <2>3, <1>c DEF r
    <3> QED BY <2>1, <3>1, <1>d, <1>f DEF LeaseIsAccounted
  <2> QED BY <2>2, <2>3
<1> QED BY <1>1, <1>2, <1>3, <1>4, <1>5, <1>6, <1>7, <1>8

\* A killed round loses the run at hand.
LEMMA KillRoundStep ==
    ASSUME IInv, TypeOK', NEW k \in Rounds, KillRound(k)
    PROVE  IInv'
<1> USE LeaseAssumption, RunsAreNat, Facts
<1> USE DEF IInv, TypeOK, RowsOK, JobsOK, KillRound
<1> USE DEF rowVars, jobVars, applyVars, historyVars
<1>a. GoOn(k, {})
  BY DEF GoOn
<1>b. /\ round'[k].todo = {} /\ round'[k].at # "publish" /\ round'[k].run = NoRun
      /\ \A j \in Rounds \ {k} : round'[j] = round[j]
  BY <1>a, WentOn
<1>c. round[k].run # NoRun => round[k].run \in lost'
  BY DEF RoundShape
<1>d. lost \subseteq lost'
  OBVIOUS
<1>1. RunsAreMade'
  BY <1>b DEF RunsAreMade
<1>2. LeaseOfPost'
  BY DEF LeaseOfPost, RunsAreMade
<1>3. RoundShape'
  BY <1>a, GoOnShape DEF RoundShape
<1>4. CompletionsEnded'
  BY DEF CompletionsEnded, RunsAreMade
<1>5. AppliedReleased'
  BY DEF AppliedReleased
<1>6. TodoFree'
  BY <1>b, TodoShrinks
<1>7. LeaseKept'
  <2>1. \A j \in Rounds : round'[j].at = "publish" => round'[j] = round[j]
    BY <1>b
  <2> QED BY <2>1 DEF LeaseKept, HasLease, Undisturbed
<1>8. LeaseIsAccounted'
  <2>1. \A y \in Posts : queuedRecently[y] => queuedRun[y] # NoRun
    BY DEF LeaseWhole
  <2> QED BY <2>1, <1>b, <1>c, <1>d DEF LeaseIsAccounted
<1> QED BY <1>1, <1>2, <1>3, <1>4, <1>5, <1>6, <1>7, <1>8

\* A completion gives back the lease of its own run, which has ended.
LEMMA ApplyCompletionStep ==
    ASSUME IInv, TypeOK', ApplyCompletion
    PROVE  IInv'
<1> USE LeaseAssumption, RunsAreNat, Facts
<1> USE DEF IInv, TypeOK, RowsOK, JobsOK, ApplyCompletion
<1> USE DEF rowVars, jobVars, applyVars, historyVars
<1> DEFINE r == Head(completions).run
            x == postOf[r]
<1>a. r \in Runs /\ r # NoRun /\ x \in Posts /\ job[r] = "ended"
  BY OldestEnded
<1>b. /\ UNCHANGED <<round, lastRun, job, postOf, completions, noted, lost, excused, contested>>
      /\ applied' = applied \cup {r} /\ completions # <<>>
  OBVIOUS
<1>c. KeepLease \/ (ClearLease(x) /\ queuedRun[x] = r)
  BY DEF OwnsLease
<1>d. queuedRun'[x] # r
  <2>1. Head(completions).status \in {"done", "skipped"}
    BY OldestEnded DEF Statuses
  <2> QED BY <2>1, <1>a DEF Releases, OwnsLease, ClearLease, KeepLease
<1> HIDE DEF r, x
<1>e. \A y \in Posts :
        \/ /\ queuedRun'[y] = queuedRun[y] /\ queuedReplies'[y] = queuedReplies[y]
           /\ queuedRecently'[y] = queuedRecently[y]
        \/ queuedRun[y] = r /\ queuedRun'[y] = NoRun /\ queuedRecently'[y] = FALSE
  BY <1>a, <1>c DEF ClearLease, KeepLease
<1>1. RunsAreMade'
  BY <1>b, <1>e DEF RunsAreMade
<1>2. LeaseOfPost'
  BY <1>b, <1>e DEF LeaseOfPost
<1>3. RoundShape'
  BY <1>b DEF RoundShape
<1>4. CompletionsEnded'
  BY <1>a, <1>b DEF CompletionsEnded
<1>5. AppliedReleased'
  BY <1>b, <1>d DEF AppliedReleased, r, x
<1>6. TodoFree'
  <2>1. \A j \in Rounds : round'[j].todo \subseteq round[j].todo
    BY <1>b
  <2> QED BY <2>1, <1>b, <1>e, TodoShrinks
<1>7. LeaseKept'
  <2>1. ASSUME NEW s \in Runs \ {r}, HasLease(s)
        PROVE  HasLease(s)'
    BY <2>1, <1>b, <1>e DEF HasLease
  <2>2. \A s \in Runs \ applied' : (job[s] # "new" /\ Undisturbed(s)) => HasLease(s)'
    BY <2>1, <1>b DEF LeaseKept
  <2>3. \A j \in Rounds : round[j].at = "publish" => round[j].run \in Runs \ {r}
    BY <1>a, RunAtHand DEF RoundShape
  <2>4. ASSUME NEW j \in Rounds, round[j].at = "publish", Undisturbed(round[j].run)
        PROVE  HasLease(round[j].run)'
    <3>1. HasLease(round[j].run) /\ round'[j] = round[j]
      BY <2>4, <1>b DEF LeaseKept
    <3> QED BY <2>1, <2>3, <2>4, <3>1, <1>b, <1>e DEF HasLease
  <2> QED BY <2>2, <2>4, <1>b DEF LeaseKept, Undisturbed
<1>8. LeaseIsAccounted'
  BY <1>b, <1>e DEF LeaseIsAccounted
<1> QED BY <1>1, <1>2, <1>3, <1>4, <1>5, <1>6, <1>7, <1>8

\* The completion that is removed holds no lease, or its run is lost.
LEMMA RemoveCompletionStep ==
    ASSUME IInv, TypeOK', RemoveCompletion
    PROVE  IInv'
<1> USE LeaseAssumption, RunsAreNat, Facts
<1> USE DEF IInv, TypeOK, RowsOK, JobsOK, RemoveCompletion
<1> USE DEF rowVars, jobVars, applyVars, historyVars
<1>a. /\ Head(completions) = completions[1]
      /\ Len(completions) \in Nat \ {0} /\ Len(completions') = Len(completions) - 1
      /\ \A i \in 1 .. Len(completions) - 1 : completions'[i] = completions[i + 1]
  BY SeqParts DEF CompletionsOK
<1>1. RunsAreMade'
  BY DEF RunsAreMade
<1>2. LeaseOfPost'
  BY DEF LeaseOfPost, RunsAreMade
<1>3. RoundShape'
  BY DEF RoundShape, RunsAreMade
<1>4. CompletionsEnded'
  BY <1>a DEF CompletionsEnded
<1>5. AppliedReleased'
  BY DEF AppliedReleased
<1>6. TodoFree'
  BY DEF TodoFree
<1>7. LeaseKept'
  BY DEF LeaseKept, HasLease, Undisturbed
<1>8. LeaseIsAccounted'
  <2>1. \A y \in Posts : queuedRecently[y] => queuedRun[y] # NoRun
    BY DEF LeaseWhole
  <2>2. ASSUME NEW y \in Posts, queuedRecently[y], queuedRun[y] = completions[1].run
        PROVE  queuedRun[y] \in lost
    <3>1. CASE applying
      BY <2>1, <2>2, <3>1, <1>a DEF AppliedReleased, LeaseOfPost
    <3>2. CASE ~applying
      BY <2>2, <3>2, <1>a DEF ReadyToRemove, CompletionsEnded
    <3> QED BY <3>1, <3>2
  <2>3. \A i \in 2 .. Len(completions) : \E j \in 1 .. Len(completions') : completions'[j] = completions[i]
    <3>1. \A i \in 2 .. Len(completions) : i - 1 \in 1 .. Len(completions') /\ completions'[i - 1] = completions[i]
      BY <1>a
    <3> QED BY <3>1
  <2>4. \A i \in 1 .. Len(completions) : i = 1 \/ i \in 2 .. Len(completions)
    BY <1>a
  <2>5. ASSUME NEW y \in Posts, queuedRecently[y], NEW i \in 1 .. Len(completions),
               completions[i].run = queuedRun[y]
        PROVE  \/ \E j \in 1 .. Len(completions') : completions'[j].run = queuedRun[y]
               \/ queuedRun[y] \in lost
    <3>1. CASE i = 1
      BY <2>2, <2>5, <3>1
    <3>2. CASE i # 1
      <4>1. PICK j \in 1 .. Len(completions') : completions'[j] = completions[i]
        BY <2>3, <2>4, <2>5, <3>2
      <4> QED BY <4>1, <2>5
    <3> QED BY <3>1, <3>2
  <2>6. queuedRecently' = queuedRecently /\ queuedRun' = queuedRun /\ round' = round /\ job' = job /\ lost' = lost
    OBVIOUS
  <2> HIDE DEF RemoveCompletion
  <2> QED BY <2>5, <2>6 DEF LeaseIsAccounted
<1> QED BY <1>1, <1>2, <1>3, <1>4, <1>5, <1>6, <1>7, <1>8

\* A cancelled tick leaves the list as it is.
LEMMA CancelTickStep ==
    ASSUME IInv, TypeOK', CancelTick
    PROVE  IInv'
<1> USE LeaseAssumption, RunsAreNat, Facts
<1> USE DEF IInv, TypeOK, RowsOK, JobsOK, CancelTick
<1> USE DEF rowVars, jobVars, applyVars, historyVars
<1>1. RunsAreMade'
  BY DEF RunsAreMade
<1>2. LeaseOfPost'
  BY DEF LeaseOfPost, RunsAreMade
<1>3. RoundShape'
  BY DEF RoundShape, RunsAreMade
<1>4. CompletionsEnded'
  BY DEF CompletionsEnded, RunsAreMade
<1>5. AppliedReleased'
  BY DEF AppliedReleased
<1>6. TodoFree'
  BY DEF TodoFree
<1>7. LeaseKept'
  BY DEF LeaseKept, HasLease, Undisturbed
<1>8. LeaseIsAccounted'
  BY DEF LeaseIsAccounted
<1> QED BY <1>1, <1>2, <1>3, <1>4, <1>5, <1>6, <1>7, <1>8

------------------------------------------------------------------------------
(* The theorems.                                                           *)

LEMMA NextIInv == IInv /\ [Next]_vars => IInv'
<1> SUFFICES ASSUME IInv, [Next]_vars PROVE IInv'
  OBVIOUS
<1>1. TypeOK'
  BY NextTyped DEF IInv
<1>2. ASSUME NEW x \in Posts, Grow(x) \/ Expire(x) \/ PublishByHand(x)
      PROVE  IInv'
  BY <1>1, <1>2, GrowStep, ExpireStep, PublishByHandStep
<1>3. ASSUME NEW r \in Runs, EndJob(r)
      PROVE  IInv'
  BY <1>1, <1>3, EndJobStep
<1>4. ASSUME NEW k \in Rounds, NEW x \in Posts, MarkQueued(k, x)
      PROVE  IInv'
  BY <1>1, <1>4, MarkQueuedStep
<1>5. ASSUME NEW k \in Rounds,
             StartRound(k) \/ Publish(k) \/ ReleaseQueued(k) \/ KillRound(k)
      PROVE  IInv'
  BY <1>1, <1>5, StartRoundStep, PublishStep, ReleaseQueuedStep, KillRoundStep
<1>6. CASE ApplyCompletion \/ RemoveCompletion \/ CancelTick
  BY <1>1, <1>6, ApplyCompletionStep, RemoveCompletionStep, CancelTickStep
<1>7. CASE UNCHANGED vars
  <2> USE <1>7 DEF vars, rowVars, jobVars, applyVars, historyVars, IInv
  <2>1. RunsAreMade' /\ LeaseOfPost' /\ RoundShape'
    BY DEF RunsAreMade, LeaseOfPost, RoundShape
  <2>2. CompletionsEnded' /\ AppliedReleased' /\ TodoFree'
    BY DEF CompletionsEnded, AppliedReleased, TodoFree
  <2>3. LeaseKept' /\ LeaseIsAccounted'
    BY DEF LeaseKept, HasLease, Undisturbed, LeaseIsAccounted
  <2> QED BY <1>1, <2>1, <2>2, <2>3
<1> QED BY <1>2, <1>3, <1>4, <1>5, <1>6, <1>7 DEF Next

(* The inductive invariant: what a run_id, a round, a completion and a     *)
(* lease are to each other at every point of every interleaving of rounds, *)
(* jobs and completions.                                                   *)
THEOREM LeaseInvariance == Spec => []IInv
BY InitIInv, NextIInv, PTL DEF Spec

(* A job that is queued or running on spider-hub keeps the lease on its    *)
(* post, for any number of rounds, posts and jobs published by hand: no    *)
(* completion of another job takes it away (_apply_completion compares     *)
(* comments_queued_run_id), so that no round queues the post again.        *)
THEOREM QueuedJobHoldsLease == Spec => []QueuedHoldsLease
<1>1. IInv => QueuedHoldsLease
  <2> SUFFICES ASSUME IInv, NEW r \in Runs, job[r] = "queued", Undisturbed(r)
               PROVE  queuedRun[postOf[r]] = r /\ queuedRecently[postOf[r]]
    BY DEF QueuedHoldsLease
  <2>1. r \notin applied
    BY DEF IInv, CompletionsEnded
  <2>2. HasLease(r)
    BY <2>1 DEF IInv, LeaseKept
  <2> QED BY <2>2 DEF HasLease
<1> QED BY <1>1, LeaseInvariance, PTL

(* A post whose lease has no round, job or completion behind it any more   *)
(* has lost its run in one of the four ways named at LeaseIsAccounted: no  *)
(* order of marks, publications and completions leaves a lease behind.     *)
THEOREM EveryLeaseAccounted == Spec => []LeaseIsAccounted
<1>1. IInv => LeaseIsAccounted
  BY DEF IInv
<1> QED BY <1>1, LeaseInvariance, PTL

(* A finished crawl of a run that has kept its lease records the           *)
(* reply_count its pick was made on: what came in while the post was being *)
(* crawled is new at the next round.                                       *)
THEOREM CountsAsQueued == Spec => CountsWhatWasQueued
<1>1. ASSUME IInv, Next, NEW r \in Runs, r \in applied' \ applied, Undisturbed(r),
             Head(completions).status = "done"
      PROVE  crawledReplies'[postOf[r]] = noted[r]
  <2>1. ApplyCompletion /\ completions # <<>> /\ r = Head(completions).run
    <3>1. applied' # applied
      BY <1>1
    <3>2. ASSUME ~ApplyCompletion PROVE applied' = applied
      <4> USE DEF jobVars, applyVars, historyVars
      <4>1. ASSUME NEW x \in Posts, Grow(x) \/ Expire(x) \/ PublishByHand(x)
            PROVE  applied' = applied
        BY <4>1 DEF Grow, Expire, PublishByHand
      <4>2. ASSUME NEW s \in Runs, EndJob(s)
            PROVE  applied' = applied
        BY <4>2 DEF EndJob
      <4>3. ASSUME NEW k \in Rounds, NEW x \in Posts, MarkQueued(k, x)
            PROVE  applied' = applied
        BY <4>3 DEF MarkQueued
      <4>4. ASSUME NEW k \in Rounds,
                   StartRound(k) \/ Publish(k) \/ ReleaseQueued(k) \/ KillRound(k)
            PROVE  applied' = applied
        BY <4>4 DEF StartRound, Publish, ReleaseQueued, KillRound
      <4>5. CASE RemoveCompletion \/ CancelTick
        BY <4>5 DEF RemoveCompletion, CancelTick
      <4> QED BY <1>1, <3>2, <4>1, <4>2, <4>3, <4>4, <4>5 DEF Next
    <3>3. ApplyCompletion
      BY <3>1, <3>2
    <3> QED BY <3>3, <1>1 DEF ApplyCompletion
  <2>2. job[r] = "ended" /\ postOf[r] \in Posts
    BY <1>1, <2>1, OldestEnded DEF IInv, TypeOK, JobsOK
  <2>3. HasLease(r)
    BY <1>1, <2>2 DEF IInv, LeaseKept
  <2>4. crawledReplies' = [crawledReplies EXCEPT ![postOf[r]] = CrawledCount(r, postOf[r])]
    BY <1>1, <2>1 DEF ApplyCompletion
  <2>5. CrawledCount(r, postOf[r]) = noted[r]
    BY <2>3 DEF HasLease, CrawledCount, OwnsLease
  <2> QED BY <1>1, <2>2, <2>4, <2>5 DEF IInv, TypeOK, RowsOK
<1>2. IInv /\ [Next]_vars =>
          [\A r \in Runs :
              ( /\ r \in applied' \ applied /\ Undisturbed(r)
                /\ Head(completions).status = "done" ) =>
                    crawledReplies'[postOf[r]] = noted[r]]_vars
  BY <1>1
<1> QED BY <1>2, LeaseInvariance, PTL DEF Spec, CountsWhatWasQueued
==============================================================================
