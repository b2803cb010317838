----------------------- MODULE IngestConsumer_proofs -----------------------
(***************************************************************************)
(* Proofs about IngestConsumer, for every set of partitions, log length,   *)
(* retry budget, and number of crashes and rebalances: what is committed   *)
(* is settled, nothing is lost, the promise of IngestPromise is kept, what *)
(* is dropped is dropped on purpose, the memo of missing parents condemns  *)
(* no comment, and the tracker holds nothing back.                         *)
(***************************************************************************)
EXTENDS IngestConsumer, SequenceTheorems, TLAPS

-----------------------------------------------------------------------------
(* Type correctness.                                                       *)

\* A delivery is a record and the epoch it was handed out in.
LEMMA DeliveryParts ==
    ASSUME NEW d \in Deliveries
    PROVE  d[1] \in Partitions /\ d[2] \in Offsets /\ d[3] \in Epochs
BY DEF Deliveries

LEMMA OffsetsAreNat == Offsets \subseteq Nat /\ LogLen \in Nat /\ MaxRebalances \in Nat
BY ConsumerAssumption DEF Offsets

\* The loop resumes at an offset.
LEMMA ResumeTyped ==
    ASSUME TypeOK, NEW p \in Partitions
    PROVE  ResumeAt(p) \in Nat
BY ConsumerAssumption DEF TypeOK, ResumeAt

\* What a task that reports to the tracker leaves behind is well typed.
LEMMA TrackTyped ==
    ASSUME TypeOK, NEW d \in Deliveries, TrackFinished(d)
    PROVE  /\ dispatched' \in [Partitions -> Seq(Offsets)]
           /\ finished' \in [Partitions -> SUBSET Offsets]
           /\ task' \in [Deliveries -> Tasks]
<1> DEFINE p == d[1]
           queue == dispatched[p]
           done == finished[p] \cup {d[2]}
<1>1. p \in Partitions /\ d[2] \in Offsets
  BY DeliveryParts
<1>2. queue \in Seq(Offsets) /\ done \subseteq Offsets
  BY <1>1 DEF TypeOK
<1>3. PICK n \in 0 .. Len(queue) :
          /\ dispatched' = [dispatched EXCEPT ![p] = SubSeq(queue, n + 1, Len(queue))]
          /\ finished' = [finished EXCEPT ![p] = done \ {queue[i] : i \in 1 .. n}]
          /\ task' = [task EXCEPT ![d] =
                         IF n = 0 THEN NoTask ELSE CommitTask(queue[n] + 1)]
  BY DEF TrackFinished
<1>4. n \in Int /\ Len(queue) \in Nat /\ \A i \in 1 .. Len(queue) : queue[i] \in Offsets
  BY <1>2, ElementOfSeq, LenProperties
<1>5. SubSeq(queue, n + 1, Len(queue)) \in Seq(Offsets)
  <2>1. \A i \in n + 1 .. Len(queue) : queue[i] \in Offsets
    BY <1>4
  <2> HIDE DEF queue
  <2> QED BY <1>4, <2>1, SubSeqProperties
<1>6. dispatched' \in [Partitions -> Seq(Offsets)]
  BY <1>1, <1>3, <1>5 DEF TypeOK
<1>7. finished' \in [Partitions -> SUBSET Offsets]
  BY <1>1, <1>2, <1>3 DEF TypeOK
<1>8. (IF n = 0 THEN NoTask ELSE CommitTask(queue[n] + 1)) \in Tasks
  <2>1. \A i \in 1 .. Len(queue) : queue[i] + 1 \in Nat
    <3>1. \A o \in Offsets : o + 1 \in Nat
      BY OffsetsAreNat
    <3> QED BY <1>4, <3>1
  <2> HIDE DEF queue
  <2> QED BY <1>4, <2>1 DEF NoTask, CommitTask, Tasks, States, Faults
<1>9. task' \in [Deliveries -> Tasks]
  BY <1>3, <1>8 DEF TypeOK
<1> QED BY <1>6, <1>7, <1>9

\* What the reads of a handler come to.
LEMMA LookupIs ==
    ASSUME NEW d \in Deliveries, Lookup(d)
    PROVE  /\ task[d].st = "lookup" /\ UNCHANGED <<brokerVars, posts, first, proc, crashes, loopVars, memo>>
           /\ \/ UNCHANGED outcome /\ \E exc \in Faults : Fail(d, exc)
              \/ Return(d, "dropped")
              \/ /\ Kind(d) \in {"keep", "norow", "listed"} /\ GoTo(d, "write")
                 /\ UNCHANGED <<outcome, trackerVars>>
BY DEF Lookup, Answered, Refused, NoAnswer, Faults

\* What they leave of the lists, and of the failed reads that were taken for an answer.
LEMMA ReadsTyped ==
    ASSUME TypeOK, NEW d \in Deliveries, Lookup(d)
    PROVE  /\ lists' \in {"whole", "short"} /\ refusals' \in 0 .. MaxMisreads /\ shortages' \in 0 .. MaxMisreads
           /\ (refusals > 0 => refusals' > 0) /\ (shortages > 0 => shortages' > 0)
           /\ lists' = "short" => lists = "short" \/ shortages' > 0
<1>1. MaxMisreads \in Nat /\ refusals \in 0 .. MaxMisreads /\ shortages \in 0 .. MaxMisreads /\ lists \in {"whole", "short"}
  BY ConsumerAssumption DEF TypeOK
<1>2. refusals' = refusals \/ (refusals' = refusals + 1 /\ MayMisread)
  BY DEF Lookup, Refused
<1>3. /\ lists' \in {"whole", "short"}
      /\ shortages' = shortages \/ (shortages' = shortages + 1 /\ MayMisread)
      /\ lists' = "short" => lists = "short" \/ shortages' = shortages + 1
  BY <1>1 DEF Lookup, ConsultLists
<1>4. MayMisread => refusals < MaxMisreads /\ shortages < MaxMisreads
  BY <1>1 DEF MayMisread
<1>5. refusals' \in 0 .. MaxMisreads /\ (refusals > 0 => refusals' > 0)
  BY <1>1, <1>2, <1>4
<1>6. shortages' \in 0 .. MaxMisreads /\ (shortages > 0 => shortages' > 0)
  BY <1>1, <1>3, <1>4
<1>7. shortages' = shortages + 1 => shortages' > 0
  BY <1>1
<1> QED BY <1>3, <1>5, <1>6, <1>7

\* One step of one task.
LEMMA TaskStepTyped ==
    ASSUME TypeOK, NEW d \in Deliveries, TaskStep(d)
    PROVE  TypeOK'
<1>a. d[1] \in Partitions /\ d[2] \in Offsets /\ task[d] \in Tasks
  BY DeliveryParts DEF TypeOK
<1>b. ASSUME NEW st \in States
      PROVE  [task EXCEPT ![d].st = st] \in [Deliveries -> Tasks]
  BY <1>a DEF TypeOK, Tasks
<1>c. ASSUME NEW exc \in Faults, Fail(d, exc)
      PROVE  task' \in [Deliveries -> Tasks] /\ UNCHANGED trackerVars
  BY <1>a, <1>c DEF TypeOK, Tasks, Fail, States
<1>d. ASSUME NEW out \in {"kept", "dropped", "dead"}, HasOutcome(d, out)
      PROVE  outcome' \in [Partitions -> [Offsets -> SUBSET {"kept", "dropped", "dead"}]]
  BY <1>a, <1>d DEF TypeOK, HasOutcome
<1>1. CASE Acquire(d)
  BY <1>1, <1>b DEF Acquire, GoTo, TypeOK, States, brokerVars, lastVars, history, memory, loopVars, trackerVars
<1>2. CASE Lookup(d)
  <2>1. UNCHANGED <<logEnd, committed, posts, first, proc, crashes, loop, epoch, position, memo>>
    BY <1>2, LookupIs DEF brokerVars, loopVars
  <2>a. lists' \in {"whole", "short"} /\ refusals' \in 0 .. MaxMisreads /\ shortages' \in 0 .. MaxMisreads
    BY <1>2, ReadsTyped
  <2>2. CASE UNCHANGED outcome /\ \E exc \in Faults : Fail(d, exc)
    BY <2>1, <2>a, <2>2, <1>c DEF TypeOK, trackerVars
  <2>3. CASE Return(d, "dropped")
    BY <2>1, <2>a, <2>3, <1>d, TrackTyped DEF TypeOK, Return
  <2>4. CASE GoTo(d, "write") /\ UNCHANGED <<outcome, trackerVars>>
    BY <2>1, <2>a, <2>4, <1>b DEF TypeOK, GoTo, States, trackerVars
  <2> QED BY <1>2, <2>2, <2>3, <2>4, LookupIs
<1>3. CASE Write(d)
  <2>1. UNCHANGED <<logEnd, committed, history, proc, crashes, loop, epoch, position, memory>>
    BY <1>3 DEF Write, brokerVars, loopVars
  <2>2. Stored(d) \subseteq Posts
    BY <1>a, ConsumerAssumption DEF Stored, TypeOK, Post
  <2>3. posts' \subseteq Posts
    BY <1>3, <2>2 DEF Write, TypeOK
  <2>4. CASE Return(d, "kept")
    BY <2>1, <2>3, <2>4, <1>d, TrackTyped DEF TypeOK, Return, history, memory
  <2>5. CASE Fail(d, "infra") /\ UNCHANGED outcome
    BY <2>1, <2>3, <2>5, <1>c DEF TypeOK, Faults, trackerVars, history, memory
  <2> QED BY <1>3, <2>4, <2>5 DEF Write
<1>4. CASE WakeUp(d)
  <2>1. task' \in [Deliveries -> Tasks]
    <3> DEFINE r == [task[d] EXCEPT !.st = "wait", !.exc = "no", !.attempt = task[d].attempt + 1]
    <3>1. task' = [task EXCEPT ![d] = r]
      BY <1>4, <1>a DEF WakeUp, NextAttempt, TypeOK
    <3>2. task[d].attempt + 1 \in Nat
      BY <1>a DEF Tasks
    <3>3. r \in Tasks
      BY <1>a, <3>2 DEF Tasks, States, Faults
    <3> QED BY <3>1, <3>3 DEF TypeOK
  <2> QED BY <2>1, <1>4 DEF WakeUp, TypeOK, brokerVars, lastVars, history, memory, loopVars, trackerVars
<1>5. CASE DeadLetter(d)
  <2>1. memo' \in [Posts -> {"absent", "live", "expired"}]
    BY <1>5 DEF DeadLetter, Remember, TypeOK
  <2>2. task' \in [Deliveries -> Tasks]
    BY <1>5, <1>b DEF DeadLetter, GoTo, States
  <2> QED BY <2>1, <2>2, <1>5, <1>d DEF DeadLetter, TypeOK, brokerVars, loopVars, trackerVars, history
<1>6. CASE Report(d)
  BY <1>6, TrackTyped DEF Report, TypeOK, brokerVars, lastVars, history, memory, loopVars
<1>7. CASE Commit(d)
  <2>1. task[d].next \in Nat /\ NoTask \in Tasks
    BY <1>a DEF Tasks, NoTask, States, Faults
  <2>2. committed' \in [Partitions -> Nat \cup {NoOffset}] /\ task' \in [Deliveries -> Tasks]
    BY <1>7, <1>a, <2>1 DEF Commit, CommitOffset, TypeOK
  <2> QED BY <2>2, <1>7 DEF Commit, TypeOK, lastVars, history, memory, loopVars, trackerVars
<1> QED BY <1>1, <1>2, <1>3, <1>4, <1>5, <1>6, <1>7 DEF TaskStep

LEMMA InitTyped == Init => TypeOK
<1> USE ConsumerAssumption, OffsetsAreNat
<1>1. NoTask \in Tasks /\ <<>> \in Seq(Offsets) /\ 0 \in Epochs /\ 0 \in 0 .. MaxCrashes
  BY DEF NoTask, Tasks, States, Faults, Epochs
<1> QED BY <1>1 DEF Init, TypeOK

\* A process that has ended holds nothing.
LEMMA EndProcessTyped ==
    ASSUME TypeOK, NEW status \in {"up", "failed", "exited"}, EndProcess(status),
           UNCHANGED <<brokerVars, lastVars>>, crashes' \in 0 .. MaxCrashes
    PROVE  TypeOK'
<1>1. NoTask \in Tasks /\ <<>> \in Seq(Offsets) /\ 0 \in Epochs
  BY OffsetsAreNat DEF NoTask, Tasks, States, Faults, Epochs
<1> QED BY <1>1 DEF EndProcess, TypeOK, brokerVars, lastVars, history, memory

\* Every action keeps the types.
LEMMA NextTyped == TypeOK /\ [Next]_vars => TypeOK'
<1> SUFFICES ASSUME TypeOK, [Next]_vars PROVE TypeOK'
  OBVIOUS
<1> USE ConsumerAssumption
<1>1. ASSUME NEW p \in Partitions, Produce(p) PROVE TypeOK'
  BY <1>1 DEF Produce, TypeOK, lastVars, history, memory, procVars, loopVars, trackerVars
<1>2. ASSUME NEW p \in Partitions, Dispatch(p) PROVE TypeOK'
  <2>1. position[p] \in Offsets /\ epoch[TopicOf(p)] \in Epochs
    BY <1>2, OffsetsAreNat DEF Dispatch, CanRead, TypeOK, Offsets, TopicOf, Topics
  <2>2. dispatched' \in [Partitions -> Seq(Offsets)]
    <3>1. Append(dispatched[p], position[p]) \in Seq(Offsets)
      BY <2>1, AppendProperties DEF TypeOK
    <3> QED BY <1>2, <3>1 DEF Dispatch, TypeOK
  <2>3. NewTask \in Tasks /\ <<p, position[p], epoch[TopicOf(p)]>> \in Deliveries
    BY <2>1 DEF NewTask, NoTask, Tasks, States, Faults, Deliveries
  <2>4. task' \in [Deliveries -> Tasks]
    BY <1>2, <2>3 DEF Dispatch, TypeOK
  <2>5. position' \in [Partitions -> Nat]
    BY <1>2 DEF Dispatch, TypeOK
  <2> QED BY <1>2, <2>2, <2>4, <2>5 DEF Dispatch, TypeOK, brokerVars, lastVars, history, memory
<1>3. ASSUME NEW p \in Partitions, DecodeError(p) PROVE TypeOK'
  BY <1>3, EndProcessTyped DEF DecodeError, TypeOK
<1>4. ASSUME NEW t \in Topics, StartLoop(t) PROVE TypeOK'
  <2>1. \A p \in Partitions : ResumeAt(p) \in Nat
    BY ResumeTyped
  <2>2. /\ position' \in [Partitions -> Nat]
        /\ first' \in [Partitions -> Nat \cup {NoOffset}]
        /\ committed' \in [Partitions -> Nat \cup {NoOffset}]
    BY <1>4, <2>1 DEF StartLoop, TypeOK
  <2> QED BY <1>4, <2>2 DEF StartLoop, TypeOK, trackerVars, memory
<1>5. ASSUME NEW t \in Topics, Rebalance(t) PROVE TypeOK'
  <2>1. position' \in [Partitions -> Nat]
    BY <1>5 DEF Rebalance, TypeOK
  <2>2. epoch' \in [Topics -> Epochs]
    BY <1>5, OffsetsAreNat DEF Rebalance, TypeOK, Epochs
  <2> QED BY <1>5, <2>1, <2>2 DEF Rebalance, TypeOK, brokerVars, lastVars, history, memory, trackerVars
<1>6. ASSUME NEW d \in Deliveries, TaskStep(d) PROVE TypeOK'
  BY <1>6, TaskStepTyped
<1>7. ASSUME NEW x \in Posts, MemoExpires(x) PROVE TypeOK'
  BY <1>7 DEF MemoExpires, TypeOK, brokerVars, lastVars, history, memory, loopVars, trackerVars
<1>8. CASE Crash
  <2>1. crashes' \in 0 .. MaxCrashes
    BY <1>8 DEF Crash, TypeOK
  <2> QED BY <1>8, <2>1, EndProcessTyped DEF Crash
<1>9. CASE BrokerError
  BY <1>9, EndProcessTyped DEF BrokerError, TypeOK
<1>10. CASE Restart
  BY <1>10 DEF Restart, TypeOK, brokerVars, lastVars, history, memory, loopVars, trackerVars
<1>11. CASE UNCHANGED vars
  BY <1>11 DEF TypeOK, vars, brokerVars, lastVars, history, memory, procVars, loopVars, trackerVars
<1> QED
  BY <1>1, <1>2, <1>3, <1>4, <1>5, <1>6, <1>7, <1>8, <1>9, <1>10, <1>11 DEF Next

(* Every variable keeps its type, for all values of the constants: what    *)
(* the tracker queues are offsets of the log, what is committed is one.    *)
THEOREM TypeCorrect == Spec => []TypeOK
BY InitTyped, NextTyped, PTL DEF Spec
-----------------------------------------------------------------------------
(* The inductive invariant.  Steps fall into five classes: quiet ones,     *)
(* which move a task on and may settle a record; reports to the tracker;   *)
(* commits; reads (Dispatch, Rebalance, StartLoop); and ends of the process.*)

\* A record and an epoch make a delivery, and a delivery is made of them.
LEMMA DeliveryOf ==
    ASSUME NEW p \in Partitions, NEW o \in Offsets, NEW e \in Epochs
    PROVE  <<p, o, e>> \in Deliveries /\ <<p, o, e>>[1] = p /\ <<p, o, e>>[2] = o
BY DEF Deliveries

LEMMA DeliveryIs ==
    ASSUME NEW d \in Deliveries
    PROVE  d = <<d[1], d[2], d[3]>>
BY DEF Deliveries

LEMMA InitIInv == Seeded /\ Init => IInv
<1> SUFFICES ASSUME Seeded, Init PROVE IInv
  OBVIOUS
<1> USE ConsumerAssumption
<1>1. TypeOK
  BY InitTyped
<1>2. \A p \in Partitions : TopicOf(p) \in Topics
  BY DEF TopicOf, Topics
<1>3. \A p \in Partitions : ~loop[TopicOf(p)] /\ first[p] = NoOffset
  BY <1>2 DEF Init
<1>4. Anchored /\ CommittedSettled /\ ReadCovers
  BY <1>3 DEF Init, Anchored, Seeded, CommittedSettled, ReadCovers, SettledBelow, Owed
<1>5. \A p \in Partitions, o \in Offsets, e \in Epochs : task[<<p, o, e>>].st = "none"
  BY DeliveryOf DEF Init, NoTask
<1>6. ReportSettled /\ CommitsSettled
  BY <1>5 DEF ReportSettled, CommitsSettled
<1>7. FinishedSettled /\ Idle
  BY <1>5 DEF Init, FinishedSettled, Idle
<1>8. QueueCovers /\ QueueWorking
  BY DEF Init, QueueCovers, QueueWorking
<1> QED BY <1>1, <1>4, <1>6, <1>7, <1>8 DEF IInv

\* A task moves on among the working states; records may become settled.
LEMMA QuietStep ==
    ASSUME IInv, TypeOK',
           UNCHANGED <<committed, first, loop, position, dispatched, finished>>,
           \A p \in Partitions, o \in Offsets : Settled(p, o) => Settled(p, o)',
           \A p \in Partitions, o \in Offsets, e \in Epochs :
              \/ task'[<<p, o, e>>] = task[<<p, o, e>>]
              \/ /\ Working(<<p, o, e>>) /\ Working(<<p, o, e>>)'
                 /\ task'[<<p, o, e>>].st = "report" => Settled(p, o)'
    PROVE  IInv'
<1>1. Anchored'
  BY DEF IInv, Anchored
<1>2. \A p \in Partitions : \A n : SettledBelow(p, n) => SettledBelow(p, n)'
  BY DEF SettledBelow, Owed
<1>3. CommittedSettled'
  BY <1>2 DEF IInv, CommittedSettled
<1>4. ReportSettled'
  BY DEF IInv, ReportSettled
<1>5. FinishedSettled'
  BY DEF IInv, FinishedSettled, TypeOK
<1>6. CommitsSettled'
  BY <1>2 DEF IInv, CommitsSettled, Working
<1>7. QueueCovers'
  BY DEF IInv, QueueCovers, Owed
<1>8. ReadCovers'
  BY DEF IInv, ReadCovers, Owed
<1>9. QueueWorking'
  <2> SUFFICES ASSUME NEW p \in Partitions, NEW i \in 1 .. Len(dispatched[p])
               PROVE  \/ Settled(p, dispatched[p][i])'
                      \/ \E e \in Epochs : Working(<<p, dispatched[p][i], e>>)'
    BY DEF QueueWorking
  <2>1. dispatched[p][i] \in Offsets
    BY DEF IInv, TypeOK
  <2>2. \/ Settled(p, dispatched[p][i])
        \/ \E e \in Epochs : Working(<<p, dispatched[p][i], e>>)
    BY DEF IInv, QueueWorking
  <2> QED BY <2>1, <2>2 DEF Working
<1>10. Idle'
  BY DEF IInv, Idle, Working
<1> QED BY <1>1, <1>3, <1>4, <1>5, <1>6, <1>7, <1>8, <1>9, <1>10 DEF IInv


\* Operators of the next state, whose arguments are not primed with them.
SettledNext(p, o) == outcome'[p][o] # {}
SettledBelowNext(p, n) == \A o \in Offsets : (Owed(p, o) /\ o < n) => SettledNext(p, o)
WorkingNext(d) == task'[d].st \notin {"none", "commit"}

\* A settled record is reported: the queue drops its finished head.
LEMMA TrackStep ==
    ASSUME IInv, TypeOK', NEW d \in Deliveries, Working(d), TrackFinished(d),
           UNCHANGED <<committed, first, loop, position>>,
           SettledNext(d[1], d[2]),
           \A p \in Partitions, o \in Offsets : Settled(p, o) => SettledNext(p, o)
    PROVE  IInv'
<1> USE DEF Settled, SettledNext, SettledBelowNext, WorkingNext
<1> DEFINE q == d[1]
           queue == dispatched[q]
           done == finished[q] \cup {d[2]}
<1>a. q \in Partitions /\ d[2] \in Offsets /\ d[3] \in Epochs /\ d = <<q, d[2], d[3]>>
  BY DeliveryParts, DeliveryIs
<1>b. PICK n \in 0 .. Len(queue) :
          /\ Drainable(queue, done, n)
          /\ dispatched' = [dispatched EXCEPT ![q] = SubSeq(queue, n + 1, Len(queue))]
          /\ finished' = [finished EXCEPT ![q] = done \ {queue[i] : i \in 1 .. n}]
          /\ task' = [task EXCEPT ![d] =
                         IF n = 0 THEN NoTask ELSE CommitTask(queue[n] + 1)]
  BY DEF TrackFinished
<1>c. /\ queue \in Seq(Offsets) /\ n \in Nat /\ Len(queue) \in Nat /\ n <= Len(queue)
      /\ \A i \in 1 .. Len(queue) : queue[i] \in Offsets
  BY <1>a, ElementOfSeq, LenProperties DEF IInv, TypeOK
<1>d. \A o \in done : o \in Offsets /\ SettledNext(q, o)
  BY <1>a DEF IInv, FinishedSettled, TypeOK
<1>e. \A i \in 1 .. n : queue[i] \in Offsets /\ SettledNext(q, queue[i])
  BY <1>b, <1>c, <1>d DEF Drainable
<1>f. /\ \A p \in Partitions \ {q} : dispatched'[p] = dispatched[p] /\ finished'[p] = finished[p]
      /\ dispatched'[q] = SubSeq(queue, n + 1, Len(queue))
      /\ finished'[q] \subseteq done
  BY <1>a, <1>b DEF IInv, TypeOK
<1>g. Len(dispatched'[q]) = Len(queue) - n
      /\ \A i \in 1 .. Len(queue) - n : dispatched'[q][i] = queue[i + n]
  <2>1. \A i \in n + 1 .. Len(queue) : queue[i] \in Offsets
    BY <1>c
  <2> HIDE DEF queue
  <2> QED BY <1>c, <1>f, <2>1, SubSeqProperties
<1>h. \A p \in Partitions, o \in Offsets, e \in Epochs :
          <<p, o, e>> # d => task'[<<p, o, e>>] = task[<<p, o, e>>]
  BY <1>b, DeliveryOf DEF IInv, TypeOK
<1>i. task'[d].st \in {"none", "commit"}
      /\ (task'[d].st = "commit" => n # 0 /\ task'[d].next = queue[n] + 1)
  BY <1>b DEF IInv, TypeOK, NoTask, CommitTask
<1>j. \A p \in Partitions : \A m : SettledBelow(p, m) => SettledBelowNext(p, m)
  BY DEF SettledBelow, Owed
<1>1. Anchored'
  BY DEF IInv, Anchored
<1>2. CommittedSettled'
  BY <1>j DEF IInv, CommittedSettled, SettledBelow, Owed
<1>3. ReportSettled'
  BY <1>h, <1>i DEF IInv, ReportSettled
<1>4. FinishedSettled'
  BY <1>d, <1>f DEF IInv, FinishedSettled, TypeOK
<1>5. CommitsSettled'
  <2>1. n # 0 => SettledBelowNext(q, queue[n] + 1)
    <3> SUFFICES ASSUME n # 0, NEW o \in Offsets, Owed(q, o), o < queue[n] + 1
                 PROVE  SettledNext(q, o)
      BY DEF SettledBelow, Owed
    <3>0. queue[n] \in Nat /\ o \in Nat
      <4>1. n \in 1 .. Len(queue)
        BY <1>c
      <4>2. queue[n] \in Offsets
        BY <4>1, <1>c
      <4> QED BY <4>2, OffsetsAreNat
    <3>1. CASE o = queue[n]
      BY <3>1, <1>c, <1>e
    <3>2. CASE o < queue[n]
      <4>1. Settled(q, o) \/ \E j \in 1 .. n - 1 : queue[j] = o
        BY <3>2, <1>a, <1>c DEF IInv, QueueCovers
      <4> QED BY <4>1, <1>a, <1>c, <1>e
    <3> QED BY <3>0, <3>1, <3>2
  <2> SUFFICES ASSUME NEW p \in Partitions, NEW o \in Offsets, NEW e \in Epochs,
                      task'[<<p, o, e>>].st = "commit"
               PROVE  SettledBelowNext(p, task'[<<p, o, e>>].next)
    BY DEF CommitsSettled, SettledBelow, Owed
  <2>2. CASE <<p, o, e>> = d
    BY <2>1, <2>2, <1>i
  <2>3. CASE <<p, o, e>> # d
    BY <2>3, <1>h, <1>j DEF IInv, CommitsSettled
  <2> QED BY <2>2, <2>3
<1>6. QueueCovers'
  <2> SUFFICES ASSUME NEW p \in Partitions, NEW i \in 1 .. Len(dispatched'[p]),
                      NEW o \in Offsets, Owed(p, o), o < dispatched'[p][i]
               PROVE  SettledNext(p, o) \/ \E j \in 1 .. i - 1 : dispatched'[p][j] = o
    BY DEF QueueCovers, Owed
  <2>1. CASE p # q
    <3>1. dispatched'[p] = dispatched[p]
      BY <2>1, <1>f
    <3>2. Settled(p, o) \/ \E j \in 1 .. i - 1 : dispatched[p][j] = o
      BY <3>1 DEF IInv, QueueCovers
    <3> QED BY <3>1, <3>2
  <2>2. CASE p = q
    <3>1. i + n \in 1 .. Len(queue) /\ dispatched'[q][i] = queue[i + n]
      BY <2>2, <1>c, <1>g
    <3>2. Settled(q, o) \/ \E j \in 1 .. i + n - 1 : queue[j] = o
      BY <2>2, <3>1 DEF IInv, QueueCovers
    <3>3. ASSUME NEW j \in 1 .. i + n - 1, queue[j] = o
          PROVE  SettledNext(q, o) \/ \E k \in 1 .. i - 1 : dispatched'[q][k] = o
      <4>1. CASE j <= n
        BY <4>1, <3>3, <3>1, <1>c, <1>e
      <4>2. CASE j > n
        <5>1. j - n \in 1 .. i - 1 /\ dispatched'[q][j - n] = queue[j]
          BY <4>2, <3>1, <1>c, <1>g
        <5> QED BY <5>1, <3>3
      <4> QED BY <4>1, <4>2, <1>c
    <3> QED BY <2>2, <3>2, <3>3
  <2> QED BY <2>1, <2>2
<1>7. ReadCovers'
  <2> SUFFICES ASSUME NEW p \in Partitions, NEW o \in Offsets,
                      loop[TopicOf(p)], Owed(p, o), o < position[p]
               PROVE  SettledNext(p, o) \/ \E j \in 1 .. Len(dispatched'[p]) : dispatched'[p][j] = o
    BY DEF ReadCovers, Owed
  <2>1. CASE p # q
    BY <2>1, <1>f DEF IInv, ReadCovers
  <2>2. CASE p = q
    <3>1. Settled(q, o) \/ \E j \in 1 .. Len(queue) : queue[j] = o
      BY <2>2 DEF IInv, ReadCovers
    <3>2. ASSUME NEW j \in 1 .. Len(queue), queue[j] = o
          PROVE  SettledNext(q, o) \/ \E k \in 1 .. Len(dispatched'[q]) : dispatched'[q][k] = o
      <4>1. CASE j <= n
        BY <4>1, <3>2, <1>c, <1>e
      <4>2. CASE j > n
        <5>1. j - n \in 1 .. Len(dispatched'[q]) /\ dispatched'[q][j - n] = queue[j]
          BY <4>2, <1>c, <1>g
        <5> QED BY <5>1, <3>2
      <4> QED BY <4>1, <4>2, <1>c
    <3> QED BY <2>2, <3>1, <3>2
  <2> QED BY <2>1, <2>2
<1>8. QueueWorking'
  <2> SUFFICES ASSUME NEW p \in Partitions, NEW i \in 1 .. Len(dispatched'[p])
               PROVE  \/ SettledNext(p, dispatched'[p][i])
                      \/ \E e \in Epochs : WorkingNext(<<p, dispatched'[p][i], e>>)
    BY DEF QueueWorking, Working
  <2>1. PICK k \in 1 .. Len(dispatched[p]) : dispatched'[p][i] = dispatched[p][k]
    <3>1. CASE p # q
      BY <3>1, <1>f
    <3>2. CASE p = q
      BY <3>2, <1>c, <1>g
    <3> QED BY <3>1, <3>2
  <2>2. dispatched[p][k] \in Offsets
    BY DEF IInv, TypeOK
  <2>3. \/ Settled(p, dispatched[p][k])
        \/ \E e \in Epochs : Working(<<p, dispatched[p][k], e>>)
    BY DEF IInv, QueueWorking
  <2>4. ASSUME NEW e \in Epochs, Working(<<p, dispatched[p][k], e>>)
        PROVE  \/ SettledNext(p, dispatched[p][k])
               \/ WorkingNext(<<p, dispatched[p][k], e>>)
    <3>1. CASE <<p, dispatched[p][k], e>> = d
      BY <3>1
    <3>2. CASE <<p, dispatched[p][k], e>> # d
      BY <3>2, <2>2, <2>4, <1>h DEF Working
    <3> QED BY <3>1, <3>2
  <2> QED BY <2>1, <2>2, <2>3, <2>4
<1>9. Idle'
  <2>1. loop[TopicOf(q)]
    BY <1>a DEF IInv, Idle, Working
  <2> SUFFICES ASSUME NEW p \in Partitions, ~loop[TopicOf(p)]
               PROVE  /\ dispatched'[p] = <<>>
                      /\ finished'[p] = {}
                      /\ \A o \in Offsets, e \in Epochs : task'[<<p, o, e>>].st = "none"
    BY DEF Idle
  <2>2. p # q
    BY <2>1
  <2>3. \A o \in Offsets, e \in Epochs : <<p, o, e>> # d
    BY <2>2
  <2> QED BY <2>2, <2>3, <1>f, <1>h DEF IInv, Idle
<1> QED BY <1>1, <1>2, <1>3, <1>4, <1>5, <1>6, <1>7, <1>8, <1>9 DEF IInv

\* A commit reaches the broker, or is lost.
LEMMA CommitStep ==
    ASSUME IInv, TypeOK', NEW d \in Deliveries, Commit(d)
    PROVE  IInv'
<1>a. d[1] \in Partitions /\ d[2] \in Offsets /\ d[3] \in Epochs /\ d = <<d[1], d[2], d[3]>>
  BY DeliveryParts, DeliveryIs
<1>b. UNCHANGED <<outcome, first, loop, position, dispatched, finished>>
  BY DEF Commit, lastVars, history, memory, loopVars, trackerVars
<1>c. \A p \in Partitions, o \in Offsets, e \in Epochs :
          IF <<p, o, e>> = d THEN task'[<<p, o, e>>].st = "none"
                             ELSE task'[<<p, o, e>>] = task[<<p, o, e>>]
  BY DeliveryOf DEF IInv, TypeOK, Commit, NoTask
<1>d. task[d].st = "commit" /\ task[d].next \in Nat
  BY DEF IInv, TypeOK, Commit, Tasks
<1>e. \A p \in Partitions :
          committed'[p] = committed[p] \/ (p = d[1] /\ committed'[p] = task[d].next)
  BY <1>a DEF IInv, TypeOK, Commit, CommitOffset
<1>f. task[d].next # NoOffset
  BY <1>d, ConsumerAssumption
<1>1. Anchored'
  BY <1>b, <1>e, <1>f DEF IInv, Anchored
<1>2. CommittedSettled'
  <2>1. SettledBelow(d[1], task[d].next)
    BY <1>a, <1>d DEF IInv, CommitsSettled
  <2> QED BY <1>b, <1>e, <2>1 DEF IInv, CommittedSettled, SettledBelow, Owed, Settled
<1>3. ReportSettled' /\ FinishedSettled'
  BY <1>b, <1>c DEF IInv, ReportSettled, FinishedSettled, Settled
<1>4. CommitsSettled'
  BY <1>b, <1>c DEF IInv, CommitsSettled, SettledBelow, Owed, Settled
<1>5. QueueCovers' /\ ReadCovers'
  BY <1>b DEF IInv, QueueCovers, ReadCovers, Owed, Settled
<1>6. QueueWorking'
  <2> SUFFICES ASSUME NEW p \in Partitions, NEW i \in 1 .. Len(dispatched[p])
               PROVE  \/ Settled(p, dispatched[p][i])
                      \/ \E e \in Epochs : WorkingNext(<<p, dispatched[p][i], e>>)
    BY <1>b DEF QueueWorking, Settled, Working, WorkingNext
  <2>1. dispatched[p][i] \in Offsets
    BY DEF IInv, TypeOK
  <2>2. \/ Settled(p, dispatched[p][i])
        \/ \E e \in Epochs : Working(<<p, dispatched[p][i], e>>)
    BY DEF IInv, QueueWorking
  <2> QED BY <2>1, <2>2, <1>c, <1>d DEF Working, WorkingNext
<1>7. Idle'
  BY <1>b, <1>c DEF IInv, Idle
<1> QED BY <1>1, <1>2, <1>3, <1>4, <1>5, <1>6, <1>7 DEF IInv

\* The loop reads a record and dispatches its task.
LEMMA DispatchStep ==
    ASSUME IInv, TypeOK', NEW q \in Partitions, Dispatch(q)
    PROVE  IInv'
<1> DEFINE new == position[q]
           queue == dispatched[q]
           d == <<q, new, epoch[TopicOf(q)]>>
<1>a. /\ new \in Offsets /\ d \in Deliveries /\ d[1] = q /\ d[2] = new
      /\ loop[TopicOf(q)] /\ epoch[TopicOf(q)] \in Epochs
  BY OffsetsAreNat DEF Dispatch, CanRead, IInv, TypeOK, Offsets, TopicOf, Topics, Deliveries
<1>b. UNCHANGED <<committed, outcome, first, loop, finished>>
  BY DEF Dispatch, brokerVars, lastVars, history, memory
<1>c. \A p \in Partitions, o \in Offsets, e \in Epochs :
          IF <<p, o, e>> = d THEN task'[<<p, o, e>>].st = "wait"
                             ELSE task'[<<p, o, e>>] = task[<<p, o, e>>]
  BY DeliveryOf DEF IInv, TypeOK, Dispatch, NewTask, NoTask
<1>d. /\ \A p \in Partitions \ {q} : dispatched'[p] = dispatched[p] /\ position'[p] = position[p]
      /\ dispatched'[q] = Append(queue, new) /\ position'[q] = new + 1
  BY DEF IInv, TypeOK, Dispatch
<1>e. queue \in Seq(Offsets) /\ Len(queue) \in Nat
  BY LenProperties DEF IInv, TypeOK
<1>f. /\ Len(dispatched'[q]) = Len(queue) + 1
      /\ \A i \in 1 .. Len(queue) : dispatched'[q][i] = queue[i]
      /\ dispatched'[q][Len(queue) + 1] = new
  <2> HIDE DEF queue, new
  <2> QED BY <1>a, <1>d, <1>e, AppendProperties
<1>1. Anchored' /\ CommittedSettled' /\ FinishedSettled'
  BY <1>b DEF IInv, Anchored, CommittedSettled, FinishedSettled, SettledBelow, Owed, Settled
<1>2. ReportSettled' /\ CommitsSettled'
  BY <1>b, <1>c DEF IInv, ReportSettled, CommitsSettled, SettledBelow, Owed, Settled
<1>3. QueueCovers'
  <2> SUFFICES ASSUME NEW p \in Partitions, NEW i \in 1 .. Len(dispatched'[p]),
                      NEW o \in Offsets, Owed(p, o), o < dispatched'[p][i]
               PROVE  Settled(p, o) \/ \E j \in 1 .. i - 1 : dispatched'[p][j] = o
    BY <1>b DEF QueueCovers, Owed, Settled
  <2>1. CASE p # q
    BY <2>1, <1>d DEF IInv, QueueCovers
  <2>2. CASE p = q /\ i = Len(queue) + 1
    BY <2>2, <1>a, <1>e, <1>f DEF IInv, ReadCovers
  <2>3. CASE p = q /\ i \in 1 .. Len(queue)
    <3>1. Settled(p, o) \/ \E j \in 1 .. i - 1 : queue[j] = o
      BY <2>3, <1>f DEF IInv, QueueCovers
    <3> QED BY <2>3, <3>1, <1>e, <1>f
  <2> QED BY <2>1, <2>2, <2>3, <1>e, <1>f
<1>4. ReadCovers'
  <2> SUFFICES ASSUME NEW p \in Partitions, NEW o \in Offsets,
                      loop[TopicOf(p)], Owed(p, o), o < position'[p]
               PROVE  Settled(p, o) \/ \E j \in 1 .. Len(dispatched'[p]) : dispatched'[p][j] = o
    BY <1>b DEF ReadCovers, Owed, Settled
  <2>1. CASE p # q
    BY <2>1, <1>d DEF IInv, ReadCovers
  <2>2. CASE p = q /\ o = new
    BY <2>2, <1>e, <1>f
  <2>3. CASE p = q /\ o < new
    BY <2>3, <1>e, <1>f DEF IInv, ReadCovers
  <2> QED BY <2>1, <2>2, <2>3, <1>a, <1>d, OffsetsAreNat
<1>5. QueueWorking'
  <2> SUFFICES ASSUME NEW p \in Partitions, NEW i \in 1 .. Len(dispatched'[p])
               PROVE  \/ Settled(p, dispatched'[p][i])
                      \/ \E e \in Epochs : WorkingNext(<<p, dispatched'[p][i], e>>)
    BY <1>b DEF QueueWorking, Settled, Working, WorkingNext
  <2>1. CASE p = q /\ i = Len(queue) + 1
    BY <2>1, <1>a, <1>c, <1>f DEF WorkingNext
  <2>2. CASE ~(p = q /\ i = Len(queue) + 1)
    <3>1. i \in 1 .. Len(dispatched[p]) /\ dispatched'[p][i] = dispatched[p][i]
      BY <2>2, <1>d, <1>e, <1>f
    <3>2. dispatched[p][i] \in Offsets
      BY <3>1 DEF IInv, TypeOK
    <3>3. \/ Settled(p, dispatched[p][i])
          \/ \E e \in Epochs : Working(<<p, dispatched[p][i], e>>)
      BY <3>1 DEF IInv, QueueWorking
    <3>4. \A e \in Epochs : Working(<<p, dispatched[p][i], e>>) =>
                               WorkingNext(<<p, dispatched[p][i], e>>)
      BY <3>2, <1>c DEF Working, WorkingNext
    <3> QED BY <3>1, <3>3, <3>4
  <2> QED BY <2>1, <2>2
<1>6. Idle'
  BY <1>a, <1>b, <1>c, <1>d DEF IInv, Idle
<1> QED BY <1>1, <1>2, <1>3, <1>4, <1>5, <1>6 DEF IInv

\* The group rebalances: the loop goes back to the committed offset.
LEMMA RebalanceStep ==
    ASSUME IInv, TypeOK', NEW t \in Topics, Rebalance(t)
    PROVE  IInv'
<1>a. UNCHANGED <<committed, outcome, first, loop, task, dispatched, finished>>
  BY DEF Rebalance, brokerVars, lastVars, history, memory, trackerVars
<1>1. Anchored' /\ CommittedSettled' /\ FinishedSettled' /\ ReportSettled' /\ CommitsSettled'
  BY <1>a DEF IInv, Anchored, CommittedSettled, FinishedSettled, ReportSettled,
              CommitsSettled, SettledBelow, Owed, Settled
<1>2. QueueCovers' /\ Idle'
  BY <1>a DEF IInv, QueueCovers, Idle, Owed, Settled
<1>3. QueueWorking'
  BY <1>a DEF IInv, QueueWorking, Settled, Working
<1>4. ReadCovers'
  <2> SUFFICES ASSUME NEW p \in Partitions, NEW o \in Offsets,
                      loop[TopicOf(p)], Owed(p, o), o < position'[p]
               PROVE  Settled(p, o) \/ \E j \in 1 .. Len(dispatched[p]) : dispatched[p][j] = o
    BY <1>a DEF ReadCovers, Owed, Settled
  <2>1. CASE TopicOf(p) = t
    <3>1. committed[p] # NoOffset /\ position'[p] = committed[p]
      BY <2>1 DEF Rebalance, IInv, Anchored
    <3> QED BY <3>1 DEF IInv, CommittedSettled, SettledBelow
  <2>2. CASE TopicOf(p) # t
    BY <2>2 DEF Rebalance, IInv, ReadCovers
  <2> QED BY <2>1, <2>2
<1> QED BY <1>1, <1>2, <1>3, <1>4 DEF IInv

\* A loop starts: at the committed offset, or at the retired group's.
LEMMA StartLoopStep ==
    ASSUME IInv, TypeOK', NEW t \in Topics, StartLoop(t)
    PROVE  IInv'
<1>a. UNCHANGED <<outcome, task, dispatched, finished>>
  BY DEF StartLoop, trackerVars
<1>b. /\ \A p \in Partitions : TopicOf(p) # t =>
            /\ loop'[TopicOf(p)] = loop[TopicOf(p)]
            /\ position'[p] = position[p] /\ first'[p] = first[p]
            /\ committed'[p] = committed[p]
      /\ \A p \in Partitions : TopicOf(p) = t =>
            /\ ~loop[TopicOf(p)] /\ loop'[TopicOf(p)]
            /\ committed'[p] # NoOffset /\ position'[p] = committed'[p]
            /\ committed[p] # NoOffset => committed'[p] = committed[p]
            /\ first'[p] = first[p] \/ first'[p] = committed'[p]
            /\ first'[p] # NoOffset
  <2> SUFFICES ASSUME NEW p \in Partitions
               PROVE  /\ TopicOf(p) # t =>
                            /\ loop'[TopicOf(p)] = loop[TopicOf(p)]
                            /\ position'[p] = position[p] /\ first'[p] = first[p]
                            /\ committed'[p] = committed[p]
                      /\ TopicOf(p) = t =>
                            /\ ~loop[TopicOf(p)] /\ loop'[TopicOf(p)]
                            /\ committed'[p] # NoOffset /\ position'[p] = committed'[p]
                            /\ committed[p] # NoOffset => committed'[p] = committed[p]
                            /\ first'[p] = first[p] \/ first'[p] = committed'[p]
                            /\ first'[p] # NoOffset
    OBVIOUS
  <2>1. committed[p] = NoOffset => Legacy[p] # NoOffset
    BY DEF IInv, Anchored
  <2>2. TopicOf(p) \in Topics
    BY DEF TopicOf, Topics
  <2> QED BY <2>1, <2>2 DEF StartLoop, ResumeAt, IInv, TypeOK
<1>c. \A p \in Partitions : TopicOf(p) = t =>
          /\ dispatched[p] = <<>> /\ finished[p] = {}
          /\ \A o \in Offsets, e \in Epochs : task[<<p, o, e>>].st = "none"
  BY <1>b DEF IInv, Idle
<1>d. \A p \in Partitions, o \in Offsets :
          (TopicOf(p) = t /\ Owed(p, o)' /\ o < committed'[p]) => Settled(p, o)
  <2> SUFFICES ASSUME NEW p \in Partitions, NEW o \in Offsets,
                      TopicOf(p) = t, Owed(p, o)', o < committed'[p]
               PROVE  Settled(p, o)
    OBVIOUS
  <2>1. first'[p] # committed'[p]
    <3>1. committed'[p] \in Nat /\ o \in Nat
      BY <1>b, OffsetsAreNat DEF TypeOK
    <3> QED BY <3>1 DEF Owed
  <2>2. first'[p] = first[p] /\ committed'[p] = committed[p] /\ committed[p] # NoOffset
    BY <1>b, <2>1 DEF IInv, Anchored
  <2> QED BY <2>2 DEF IInv, CommittedSettled, SettledBelow, Owed
<1>1. Anchored'
  BY <1>b DEF IInv, Anchored
<1>2. CommittedSettled'
  BY <1>a, <1>b, <1>d DEF IInv, CommittedSettled, SettledBelow, Owed, Settled
<1>3. ReportSettled' /\ FinishedSettled'
  BY <1>a DEF IInv, ReportSettled, FinishedSettled, Settled
<1>4. CommitsSettled'
  BY <1>a, <1>b, <1>c DEF IInv, CommitsSettled, SettledBelow, Owed, Settled
<1>5. QueueCovers'
  BY <1>a, <1>b, <1>c DEF IInv, QueueCovers, Owed, Settled
<1>6. ReadCovers'
  BY <1>a, <1>b, <1>d DEF IInv, ReadCovers, Owed, Settled
<1>7. QueueWorking'
  BY <1>a DEF IInv, QueueWorking, Settled, Working
<1>8. Idle'
  BY <1>a, <1>b DEF IInv, Idle
<1> QED BY <1>1, <1>2, <1>3, <1>4, <1>5, <1>6, <1>7, <1>8 DEF IInv

\* The process ends and forgets everything.
LEMMA EndStep ==
    ASSUME IInv, TypeOK', NEW status, EndProcess(status), UNCHANGED <<brokerVars, lastVars>>
    PROVE  IInv'
<1>a. UNCHANGED <<committed, outcome, first>>
  BY DEF brokerVars, lastVars, history, memory
<1>b. \A p \in Partitions :
          /\ ~loop'[TopicOf(p)] /\ dispatched'[p] = <<>> /\ finished'[p] = {}
          /\ \A o \in Offsets, e \in Epochs : task'[<<p, o, e>>].st = "none"
  BY DeliveryOf DEF EndProcess, TopicOf, Topics, NoTask
<1>1. Anchored' /\ CommittedSettled'
  BY <1>a, <1>b DEF IInv, Anchored, CommittedSettled, SettledBelow, Owed, Settled
<1>2. ReportSettled' /\ FinishedSettled' /\ CommitsSettled'
  BY <1>b DEF ReportSettled, FinishedSettled, CommitsSettled
<1>3. QueueCovers' /\ ReadCovers' /\ QueueWorking' /\ Idle'
  BY <1>b DEF QueueCovers, ReadCovers, QueueWorking, Idle
<1> QED BY <1>1, <1>2, <1>3 DEF IInv

\* QuietStep for the task of one delivery.
LEMMA QuietTask ==
    ASSUME IInv, TypeOK', NEW d \in Deliveries, Working(d), WorkingNext(d),
           UNCHANGED <<committed, first, loop, position, dispatched, finished>>,
           \A e \in Deliveries \ {d} : task'[e] = task[e],
           \A p \in Partitions, o \in Offsets : Settled(p, o) => SettledNext(p, o),
           task'[d].st = "report" => task[d].st = "report" \/ SettledNext(d[1], d[2])
    PROVE  IInv'
<1>1. ASSUME NEW p \in Partitions, NEW o \in Offsets, NEW e \in Epochs
      PROVE  \/ task'[<<p, o, e>>] = task[<<p, o, e>>]
             \/ /\ Working(<<p, o, e>>) /\ Working(<<p, o, e>>)'
                /\ task'[<<p, o, e>>].st = "report" => Settled(p, o)'
  <2>1. /\ <<p, o, e>> \in Deliveries
        /\ <<p, o, e>> = d => d[1] = p /\ d[2] = o
    BY DeliveryOf
  <2>2. CASE <<p, o, e>> # d
    BY <2>1, <2>2
  <2>3. CASE <<p, o, e>> = d
    <3>1. task[d].st = "report" => Settled(p, o)
      BY <2>3 DEF IInv, ReportSettled
    <3> QED BY <2>1, <2>3, <3>1 DEF Working, WorkingNext, Settled, SettledNext
  <2> QED BY <2>2, <2>3
<1>2. \A p \in Partitions, o \in Offsets : Settled(p, o) => Settled(p, o)'
  BY DEF Settled, SettledNext
<1> QED BY <1>1, <1>2, QuietStep

\* Each step of a task is one of the four kinds above.
LEMMA TaskStepIInv ==
    ASSUME IInv, TypeOK', NEW d \in Deliveries, TaskStep(d)
    PROVE  IInv'
<1> USE DEF WorkingNext
<1>a. d[1] \in Partitions /\ d[2] \in Offsets /\ d[3] \in Epochs /\ d = <<d[1], d[2], d[3]>>
  BY DeliveryParts, DeliveryIs
<1>b. ASSUME NEW st, GoTo(d, st)
      PROVE  task'[d].st = st /\ \A e \in Deliveries \ {d} : task'[e] = task[e]
  BY <1>b DEF IInv, TypeOK, GoTo, Tasks
<1>c. ASSUME NEW exc, Fail(d, exc)
      PROVE  /\ task'[d].st \in {"letter", "sleep"}
             /\ \A e \in Deliveries \ {d} : task'[e] = task[e]
             /\ UNCHANGED <<dispatched, finished>>
  BY <1>c DEF IInv, TypeOK, Fail, Tasks, trackerVars
<1>d. ASSUME NEW out, HasOutcome(d, out)
      PROVE  /\ SettledNext(d[1], d[2])
             /\ \A p \in Partitions, o \in Offsets : Settled(p, o) => SettledNext(p, o)
  BY <1>a, <1>d DEF IInv, TypeOK, HasOutcome, Settled, SettledNext
<1>e. UNCHANGED outcome =>
          \A p \in Partitions, o \in Offsets : Settled(p, o) => SettledNext(p, o)
  BY DEF Settled, SettledNext
<1>1. CASE Acquire(d)
  <2>1. UNCHANGED <<committed, outcome, first, loop, position, dispatched, finished>>
    BY <1>1 DEF Acquire, brokerVars, lastVars, history, memory, loopVars, trackerVars
  <2>2. Working(d) /\ GoTo(d, "lookup")
    BY <1>1 DEF Acquire, Working
  <2> QED BY <2>1, <2>2, <1>b, <1>e, QuietTask
<1>2. CASE Lookup(d)
  <2>1. UNCHANGED <<committed, first, loop, position>> /\ Working(d)
    BY <1>2, LookupIs DEF brokerVars, loopVars, Working
  <2>2. CASE UNCHANGED outcome /\ \E exc \in Faults : Fail(d, exc)
    BY <2>1, <2>2, <1>c, <1>e, QuietTask
  <2>3. CASE Return(d, "dropped")
    BY <2>1, <2>3, <1>d, TrackStep DEF Return
  <2>4. CASE GoTo(d, "write") /\ UNCHANGED <<outcome, trackerVars>>
    BY <2>1, <2>4, <1>b, <1>e, QuietTask DEF trackerVars
  <2> QED BY <1>2, <2>2, <2>3, <2>4, LookupIs
<1>3. CASE Write(d)
  <2>1. UNCHANGED <<committed, first, loop, position>> /\ Working(d)
    BY <1>3 DEF Write, brokerVars, loopVars, history, Working
  <2>2. CASE Return(d, "kept")
    BY <2>1, <2>2, <1>d, TrackStep DEF Return
  <2>3. CASE Fail(d, "infra") /\ UNCHANGED outcome
    BY <2>1, <2>3, <1>c, <1>e, QuietTask
  <2> QED BY <1>3, <2>2, <2>3 DEF Write
<1>4. CASE WakeUp(d)
  <2>1. UNCHANGED <<committed, outcome, first, loop, position, dispatched, finished>>
    BY <1>4 DEF WakeUp, brokerVars, lastVars, history, memory, loopVars, trackerVars
  <2>2. /\ Working(d) /\ task'[d].st = "wait"
        /\ \A e \in Deliveries \ {d} : task'[e] = task[e]
    BY <1>4 DEF WakeUp, Working, IInv, TypeOK, Tasks
  <2> QED BY <2>1, <2>2, <1>e, QuietTask
<1>5. CASE DeadLetter(d)
  <2>1. /\ UNCHANGED <<committed, first, loop, position, dispatched, finished>> /\ Working(d)
        /\ HasOutcome(d, "dead") /\ GoTo(d, "report")
    BY <1>5 DEF DeadLetter, brokerVars, loopVars, trackerVars, history, Working
  <2> QED BY <2>1, <1>b, <1>d, QuietTask
<1>6. CASE Report(d)
  <2>1. UNCHANGED <<committed, outcome, first, loop, position>> /\ Working(d) /\ TrackFinished(d)
    BY <1>6 DEF Report, brokerVars, lastVars, history, memory, loopVars, Working
  <2>2. SettledNext(d[1], d[2])
    BY <1>6, <1>a, <2>1 DEF Report, IInv, ReportSettled, Settled, SettledNext
  <2> QED BY <2>1, <2>2, <1>e, TrackStep
<1>7. CASE Commit(d)
  BY <1>7, CommitStep
<1> QED BY <1>1, <1>2, <1>3, <1>4, <1>5, <1>6, <1>7 DEF TaskStep

\* The invariant is inductive: one case per action of the specification.
LEMMA NextIInv == IInv /\ [Next]_vars => IInv'
<1> SUFFICES ASSUME IInv, [Next]_vars PROVE IInv'
  OBVIOUS
<1>a. TypeOK'
  BY NextTyped DEF IInv
<1>b. ASSUME UNCHANGED <<committed, outcome, first, loop, position, task, dispatched, finished>>
      PROVE  IInv'
  BY <1>a, <1>b, QuietStep DEF Settled
<1>1. ASSUME NEW p \in Partitions, Produce(p) PROVE IInv'
  BY <1>1, <1>b DEF Produce, lastVars, history, memory, procVars, loopVars, trackerVars
<1>2. ASSUME NEW p \in Partitions, Dispatch(p) PROVE IInv'
  BY <1>2, <1>a, DispatchStep
<1>3. ASSUME NEW p \in Partitions, DecodeError(p) PROVE IInv'
  BY <1>3, <1>a, EndStep DEF DecodeError
<1>4. ASSUME NEW t \in Topics, StartLoop(t) PROVE IInv'
  BY <1>4, <1>a, StartLoopStep
<1>5. ASSUME NEW t \in Topics, Rebalance(t) PROVE IInv'
  BY <1>5, <1>a, RebalanceStep
<1>6. ASSUME NEW d \in Deliveries, TaskStep(d) PROVE IInv'
  BY <1>6, <1>a, TaskStepIInv
<1>7. ASSUME NEW x \in Posts, MemoExpires(x) PROVE IInv'
  BY <1>7, <1>b DEF MemoExpires, brokerVars, lastVars, history, memory, loopVars, trackerVars
<1>8. CASE Crash \/ BrokerError
  BY <1>8, <1>a, EndStep DEF Crash, BrokerError
<1>9. CASE Restart
  BY <1>9, <1>b DEF Restart, brokerVars, lastVars, history, memory, loopVars, trackerVars
<1>10. CASE UNCHANGED vars
  BY <1>10, <1>b DEF vars, brokerVars, lastVars, history, memory, procVars, loopVars, trackerVars
<1> QED
  BY <1>1, <1>2, <1>3, <1>4, <1>5, <1>6, <1>7, <1>8, <1>9, <1>10 DEF Next

(* The inductive invariant: what the tracker, the tasks and the reader hold  *)
(* between them accounts for every record below the committed offset.      *)
THEOREM Invariance == Seeded => (Spec => []IInv)
<1>1. Seeded /\ Init => IInv
  BY InitIInv
<1> QED BY <1>1, NextIInv, PTL DEF Spec

(* No committed offset passes a record without an outcome, whatever the    *)
(* number of crashes, rebalances, retries and lost or reordered commits.   *)
THEOREM CommittedIsSettled == Seeded => (Spec => []CommittedSettled)
<1>1. IInv => CommittedSettled
  BY DEF IInv
<1> QED BY <1>1, Invariance, PTL

(* No owed record is lost between the reader, the tasks, the tracker and   *)
(* the committed offset.                                                   *)
THEOREM NothingIsLost == Seeded => (Spec => []NothingLost)
<1>1. IInv => NothingLost
  <2> SUFFICES ASSUME IInv, NEW p \in Partitions, NEW o \in Offsets, Owed(p, o),
                      o < (IF loop[TopicOf(p)] THEN position[p] ELSE ResumeAt(p))
               PROVE  Settled(p, o) \/ \E e \in Epochs : Working(<<p, o, e>>)
    BY DEF NothingLost
  <2>1. CASE loop[TopicOf(p)]
    <3>1. Settled(p, o) \/ \E j \in 1 .. Len(dispatched[p]) : dispatched[p][j] = o
      BY <2>1 DEF IInv, ReadCovers
    <3> QED BY <3>1 DEF IInv, QueueWorking
  <2>2. CASE ~loop[TopicOf(p)]
    <3>1. committed[p] # NoOffset
      BY DEF IInv, Anchored, Owed
    <3> QED BY <2>2, <3>1 DEF IInv, CommittedSettled, SettledBelow, ResumeAt
  <2> QED BY <2>1, <2>2
<1> QED BY <1>1, Invariance, PTL

-----------------------------------------------------------------------------
(* The consumer implements IngestPromise.                                  *)

LEMMA PromiseInit == Init => Promise!Init
<1> SUFFICES ASSUME Init PROVE Promise!Init
  OBVIOUS
<1>1. {r \in Partitions \X Offsets : Settled(r[1], r[2])} = {}
  BY DEF Init, Settled
<1>2. committed \in [Partitions -> Nat \cup {NoOffset}]
  BY InitTyped DEF TypeOK
<1> QED BY <1>1, <1>2 DEF Init, Promise!Init, Promise!Cursors

\* A step of IngestPromise that settles one record, or none.
LEMMA SettleRefines ==
    ASSUME TypeOK, NEW d \in Deliveries, NEW out,
           HasOutcome(d, out), UNCHANGED <<first, committed>>
    PROVE  Promise!Next
<1>a. d[1] \in Partitions /\ d[2] \in Offsets
  BY DeliveryParts
<1>1. {r \in Partitions \X Offsets : Settled(r[1], r[2])'}
          = {r \in Partitions \X Offsets : Settled(r[1], r[2])} \cup {<<d[1], d[2]>>}
  <2>1. ASSUME NEW p \in Partitions, NEW o \in Offsets
        PROVE  Settled(p, o)' <=> Settled(p, o) \/ (p = d[1] /\ o = d[2])
    BY <1>a DEF TypeOK, HasOutcome, Settled
  <2>2. ASSUME NEW r \in Partitions \X Offsets
        PROVE  /\ r[1] \in Partitions /\ r[2] \in Offsets
               /\ r = <<d[1], d[2]>> <=> (r[1] = d[1] /\ r[2] = d[2])
    OBVIOUS
  <2>3. <<d[1], d[2]>> \in Partitions \X Offsets
    BY <1>a
  <2> QED BY <2>1, <2>2, <2>3
<1>2. Promise!Settle(d[1], d[2])
  BY <1>1 DEF Promise!Settle
<1> QED BY <1>a, <1>2 DEF Promise!Next

\* Every step of the consumer is one of the promise, or a stutter of it.
LEMMA PromiseNext == IInv /\ [Next]_vars => [Promise!Next]_(Promise!vars)
<1> SUFFICES ASSUME IInv, [Next]_vars PROVE [Promise!Next]_(Promise!vars)
  OBVIOUS
<1>a. TypeOK /\ TypeOK'
  BY NextTyped DEF IInv
<1>b. ASSUME UNCHANGED <<first, outcome, committed>>
      PROVE  UNCHANGED Promise!vars
  BY <1>b DEF Promise!vars, Settled
<1>1. ASSUME NEW p \in Partitions, Produce(p) \/ Dispatch(p) \/ DecodeError(p)
      PROVE  UNCHANGED Promise!vars
  BY <1>1, <1>b DEF Produce, Dispatch, DecodeError, brokerVars, lastVars, history, memory
<1>2. ASSUME NEW t \in Topics, StartLoop(t)
      PROVE  Promise!Join
  <2>1. ASSUME NEW p \in Partitions
        PROVE  \/ first'[p] = first[p] /\ committed'[p] = committed[p]
               \/ /\ first[p] = NoOffset
                  /\ first'[p] # NoOffset
                  /\ committed'[p] \in {committed[p], first'[p]}
    <3>1. committed[p] = NoOffset => first[p] = NoOffset /\ Legacy[p] # NoOffset
      BY DEF IInv, Anchored
    <3>2. ResumeAt(p) # NoOffset
      BY <1>a, ResumeTyped, ConsumerAssumption
    <3> QED BY <1>2, <3>1, <3>2 DEF StartLoop, ResumeAt
  <2>2. UNCHANGED {r \in Partitions \X Offsets : Settled(r[1], r[2])}
    BY <1>2 DEF StartLoop, Settled
  <2> QED BY <1>a, <2>1, <2>2 DEF Promise!Join, Promise!Cursors, TypeOK
<1>3. ASSUME NEW t \in Topics, Rebalance(t)
      PROVE  UNCHANGED Promise!vars
  BY <1>3, <1>b DEF Rebalance, brokerVars, lastVars, history, memory
<1>4. ASSUME NEW d \in Deliveries, TaskStep(d)
      PROVE  [Promise!Next]_(Promise!vars)
  <2>1. CASE Acquire(d) \/ WakeUp(d) \/ Report(d)
    BY <2>1, <1>b DEF Acquire, WakeUp, Report, brokerVars, lastVars, history, memory
  <2>2. CASE Lookup(d) \/ Write(d)
    <3>1. UNCHANGED <<first, committed>>
      BY <2>2, LookupIs DEF Write, brokerVars, history
    <3>2. UNCHANGED outcome \/ \E out \in {"kept", "dropped"} : HasOutcome(d, out)
      BY <2>2, LookupIs DEF Write, Return
    <3> QED BY <3>1, <3>2, <1>a, <1>b, SettleRefines
  <2>3. CASE DeadLetter(d)
    BY <2>3, <1>a, SettleRefines DEF DeadLetter, brokerVars, history
  <2>4. CASE Commit(d)
    <3>a. d[1] \in Partitions /\ d[2] \in Offsets /\ d[3] \in Epochs /\ d = <<d[1], d[2], d[3]>>
      BY DeliveryParts, DeliveryIs
    <3>b. task[d].st = "commit" /\ task[d].next \in Nat
      BY <2>4, <1>a DEF Commit, TypeOK, Tasks
    <3>1. UNCHANGED <<first, outcome>>
      BY <2>4 DEF Commit, lastVars, history, memory
    <3>2. CASE committed' = committed
      BY <3>1, <3>2, <1>b
    <3>3. CASE committed' = [committed EXCEPT ![d[1]] = task[d].next]
      <4>1. committed'[d[1]] = task[d].next
        BY <3>3, <3>a, <1>a DEF TypeOK
      <4>2. \A o \in Offsets : (Owed(d[1], o) /\ o < task[d].next) => Settled(d[1], o)
        BY <3>a, <3>b DEF IInv, CommitsSettled, SettledBelow
      <4>3. Promise!Covered(d[1], task[d].next)
        BY <4>2, <3>a DEF Promise!Covered, Owed
      <4>4. Promise!MoveCursor(d[1])
        BY <3>1, <3>3, <3>b, <4>1, <4>3 DEF Promise!MoveCursor, Settled
      <4> QED BY <4>4, <3>a DEF Promise!Next
    <3> QED BY <2>4, <3>2, <3>3 DEF Commit, CommitOffset
  <2> QED BY <1>4, <2>1, <2>2, <2>3, <2>4 DEF TaskStep
<1>5. ASSUME NEW x \in Posts, MemoExpires(x)
      PROVE  UNCHANGED Promise!vars
  BY <1>5, <1>b DEF MemoExpires, brokerVars, lastVars, history, memory
<1>6. CASE Crash \/ BrokerError \/ Restart
  BY <1>6, <1>b DEF Crash, BrokerError, Restart, brokerVars, lastVars, history, memory
<1>7. CASE UNCHANGED vars
  BY <1>7, <1>b DEF vars, brokerVars, lastVars, history, memory
<1> QED
  BY <1>1, <1>2, <1>3, <1>4, <1>5, <1>6, <1>7 DEF Next, Promise!Next

(* Each step of the consumer is a step of IngestPromise or changes nothing *)
(* that it speaks of: offsets are committed over settled records only.     *)
THEOREM PromiseIsKept == Seeded => (Spec => KeepsPromise)
<1>1. Init => Promise!Init
  BY PromiseInit
<1> QED BY <1>1, PromiseNext, Invariance, PTL DEF Spec, KeepsPromise, Promise!Spec

-----------------------------------------------------------------------------
(* What each task carries from one await to the next.                      *)

\* A task that writes is of a record the gates let in, and a task that looks
\* its parent up has forgotten the exception of its last attempt.
TasksFollow ==
    \A d \in Deliveries :
        /\ task[d].st = "write" => Kind(d) \in {"keep", "norow", "listed"}
        /\ task[d].st \in {"wait", "lookup"} => task[d].exc = "no"

\* Lists that are short were read short.
ListsFollow == lists = "short" => shortages > 0

DropsInv == TypeOK /\ TasksFollow /\ ListsFollow /\ DeliberateDrops

\* No failed read is forgotten.
FailuresKept == (refusals > 0 => refusals' > 0) /\ (shortages > 0 => shortages' > 0)

\* A task that reports is through with its attempt.
LEMMA TrackEnds ==
    ASSUME TypeOK, NEW d \in Deliveries, TrackFinished(d)
    PROVE  /\ \A e \in Deliveries \ {d} : task'[e] = task[e]
           /\ task'[d].st \in {"none", "commit"}
           /\ task'[d].exc = "no"
<1>1. PICK n \in 0 .. Len(dispatched[d[1]]) :
          task' = [task EXCEPT ![d] =
                      IF n = 0 THEN NoTask ELSE CommitTask(dispatched[d[1]][n] + 1)]
  BY DEF TrackFinished
<1>2. task'[d] = NoTask \/ \E m : task'[d] = CommitTask(m)
  BY <1>1 DEF TypeOK
<1> QED BY <1>1, <1>2 DEF TypeOK, NoTask, CommitTask

\* The next state of a task, from the reads and the writes of its handler.
LEMMA TaskMoves ==
    ASSUME TypeOK, TasksFollow, NEW d \in Deliveries, TaskStep(d)
    PROVE  /\ \A e \in Deliveries \ {d} : task'[e] = task[e]
           /\ task'[d].st = "write" => Kind(d) \in {"keep", "norow", "listed"}
           /\ task'[d].st \in {"wait", "lookup"} => task'[d].exc = "no"
           /\ (task[d].st = "lookup" /\ Post(d) \in posts /\ refusals' = refusals) => task'[d].exc # "parent"
<1>a. task[d] \in Tasks
  BY DEF TypeOK
<1>b. ASSUME NEW st, GoTo(d, st)
      PROVE  /\ task'[d].st = st /\ task'[d].exc = task[d].exc
             /\ \A e \in Deliveries \ {d} : task'[e] = task[e]
  BY <1>a, <1>b DEF TypeOK, GoTo, Tasks
<1>c. ASSUME NEW exc, Fail(d, exc)
      PROVE  /\ task'[d].st \in {"letter", "sleep"} /\ task'[d].exc = exc
             /\ \A e \in Deliveries \ {d} : task'[e] = task[e]
  BY <1>a, <1>c DEF TypeOK, Fail, Tasks
<1>1. CASE Acquire(d)
  BY <1>1, <1>b DEF Acquire, TasksFollow
<1>2. CASE Lookup(d)
  <2>1. CASE \E exc \in {"other", "infra"} : Fail(d, exc)
    BY <2>1, <1>c
  <2>2. CASE ParentMissing(d) /\ Fail(d, "parent")
    BY <2>2, <1>c DEF ParentMissing
  <2>3. CASE Return(d, "dropped")
    BY <2>3, TrackEnds DEF Return
  <2>4. CASE GoTo(d, "write") /\ Kind(d) \in {"keep", "norow", "listed"}
    BY <2>4, <1>2, <1>b DEF Lookup, TasksFollow
  <2>5. CASE refusals' = refusals + 1 /\ Fail(d, "parent")
    <3>1. refusals' # refusals
      BY <2>5 DEF TypeOK
    <3> QED BY <2>5, <3>1, <1>c
  <2> QED BY <1>2, <2>1, <2>2, <2>3, <2>4, <2>5 DEF Lookup, Answered, Refused, NoAnswer
<1>3. CASE Write(d)
  BY <1>3, <1>c, TrackEnds DEF Write, Return
<1>4. CASE WakeUp(d)
  BY <1>4, <1>a DEF WakeUp, TypeOK, Tasks
<1>5. CASE DeadLetter(d)
  BY <1>5, <1>b DEF DeadLetter
<1>6. CASE Report(d)
  BY <1>6, TrackEnds DEF Report
<1>7. CASE Commit(d)
  BY <1>7 DEF Commit, TypeOK, NoTask
<1> QED BY <1>1, <1>2, <1>3, <1>4, <1>5, <1>6, <1>7 DEF TaskStep

\* What may be said of an outcome, given the failed reads so far.
Deliberate(d, out) ==
    /\ out = "dropped" => \/ Kind(d) \in {"drop", "nokey"}
                          \/ IsPost(d) /\ (refusals > 0 \/ (Kind(d) = "listed" /\ shortages > 0))
    /\ out = "kept" => Kind(d) \in {"keep", "norow", "listed"}

\* A step that reaches no outcome, or one that may be reached, and forgets no failed read.
LEMMA OutcomesKept ==
    ASSUME DropsInv, FailuresKept, NEW d \in Deliveries,
           UNCHANGED outcome \/ \E out \in {"kept", "dropped", "dead"} : HasOutcome(d, out) /\ Deliberate(d, out)'
    PROVE  DeliberateDrops'
<1> SUFFICES ASSUME NEW p \in Partitions, NEW o \in Offsets
             PROVE  /\ "dropped" \in outcome'[p][o] =>
                          \/ KindOf[p][o] \in {"drop", "nokey"}
                          \/ p \in PostPartitions /\ (refusals' > 0 \/ (KindOf[p][o] = "listed" /\ shortages' > 0))
                    /\ "kept" \in outcome'[p][o] => KindOf[p][o] \in {"keep", "norow", "listed"}
  BY DEF DeliberateDrops
<1>1. (refusals > 0 => refusals' > 0) /\ (shortages > 0 => shortages' > 0)
  BY DEF FailuresKept
<1>2. d[1] \in Partitions /\ d[2] \in Offsets
  BY DeliveryParts
<1>3. outcome'[p][o] = outcome[p][o] \/
      \E out \in {"kept", "dropped", "dead"} :
         p = d[1] /\ o = d[2] /\ outcome'[p][o] = outcome[p][o] \cup {out} /\ Deliberate(d, out)'
  BY <1>2 DEF HasOutcome, DropsInv, TypeOK
<1> QED BY <1>1, <1>3 DEF DropsInv, DeliberateDrops, Deliberate, Kind, IsPost

\* Outcomes are reached in the attempt of a task that may reach them.
LEMMA TaskDecides ==
    ASSUME DropsInv, NEW d \in Deliveries, TaskStep(d)
    PROVE  DeliberateDrops' /\ ListsFollow'
<1>a. refusals \in Nat /\ shortages \in Nat /\ lists \in {"whole", "short"}
  BY ConsumerAssumption DEF DropsInv, TypeOK
<1>b. ASSUME UNCHANGED <<refusals, shortages, lists>> PROVE FailuresKept /\ ListsFollow'
  BY <1>a, <1>b DEF FailuresKept, DropsInv, ListsFollow
<1>1. CASE Acquire(d) \/ WakeUp(d) \/ Report(d) \/ Commit(d)
  <2>1. UNCHANGED <<outcome, refusals, shortages, lists>>
    BY <1>1 DEF Acquire, WakeUp, Report, Commit, lastVars, history, memory
  <2> QED BY <2>1, <1>b, OutcomesKept
<1>2. CASE Lookup(d)
  <2>1. FailuresKept /\ ListsFollow'
    <3>1. FailuresKept /\ (lists' = "short" => lists = "short" \/ shortages' > 0)
      BY <1>2, ReadsTyped DEF DropsInv, FailuresKept
    <3>2. shortages > 0 => shortages' > 0
      BY <1>2, <1>a, ReadsTyped DEF DropsInv, TypeOK
    <3> QED BY <3>1, <3>2 DEF DropsInv, ListsFollow
  <2>2. UNCHANGED outcome \/ (HasOutcome(d, "dropped") /\ Deliberate(d, "dropped")')
    <3>1. CASE refusals' = refusals + 1 /\ IsPost(d) /\ HasOutcome(d, "dropped")
      <4>1. refusals' > 0
        BY <1>a, <3>1
      <4> QED BY <3>1, <4>1 DEF Deliberate, Kind, IsPost
    <3>2. CASE Kind(d) \in {"drop", "nokey"} /\ HasOutcome(d, "dropped")
      BY <3>2 DEF Deliberate, Kind
    <3>3. CASE Kind(d) = "listed" /\ lists' = "short" /\ HasOutcome(d, "dropped")
      <4>1. IsPost(d)
        BY <3>3, DeliveryParts, ConsumerAssumption DEF Kind, IsPost
      <4>2. shortages' > 0
        BY <2>1, <3>3 DEF ListsFollow
      <4> QED BY <3>3, <4>1, <4>2 DEF Deliberate, Kind, IsPost
    <3>4. Kind(d) = "listed" => IsPost(d)
      BY DeliveryParts, ConsumerAssumption DEF Kind, IsPost
    <3> QED BY <1>2, <3>1, <3>2, <3>3, <3>4 DEF Lookup, Answered, Refused, NoAnswer, Return, ConsultLists
  <2> QED BY <2>1, <2>2, OutcomesKept
<1>3. CASE Write(d)
  <2>1. UNCHANGED outcome \/ HasOutcome(d, "kept")
    BY <1>3 DEF Write, Return
  <2>2. Kind(d) \in {"keep", "norow", "listed"} /\ UNCHANGED <<refusals, shortages, lists>>
    BY <1>3 DEF Write, DropsInv, TasksFollow, history, memory
  <2>3. Deliberate(d, "kept")'
    BY <2>2 DEF Deliberate, Kind
  <2> QED BY <2>1, <2>2, <2>3, <1>b, OutcomesKept
<1>4. CASE DeadLetter(d)
  <2>1. HasOutcome(d, "dead") /\ UNCHANGED <<refusals, shortages, lists>>
    BY <1>4 DEF DeadLetter, history
  <2>2. Deliberate(d, "dead")'
    BY DEF Deliberate
  <2> QED BY <2>1, <2>2, <1>b, OutcomesKept
<1> QED BY <1>1, <1>2, <1>3, <1>4 DEF TaskStep

\* A process that ends or starts again decides nothing, and its tasks are new.
LEMMA FreshTasks ==
    ASSUME DropsInv,
           \A d \in Deliveries : \/ task'[d] = task[d]
                                 \/ task'[d] \in {NoTask, NewTask},
           UNCHANGED <<outcome, refusals, shortages>>, lists' \in {lists, "whole"}
    PROVE  TasksFollow' /\ ListsFollow' /\ DeliberateDrops'
<1>1. DeliberateDrops' /\ ListsFollow'
  BY DEF DropsInv, DeliberateDrops, ListsFollow
<1>2. TasksFollow'
  BY DEF DropsInv, TasksFollow, NoTask, NewTask, Kind
<1> QED BY <1>1, <1>2

\* A task outlives every step but its own and the end of the process.
LEMMA NextTasks ==
    ASSUME TypeOK, [Next]_vars
    PROVE  \/ \E d \in Deliveries : TaskStep(d)
           \/ /\ UNCHANGED <<outcome, refusals, shortages>> /\ lists' \in {lists, "whole"}
              /\ \A d \in Deliveries : task'[d] = task[d] \/ task'[d] \in {NoTask, NewTask}
<1>1. ASSUME NEW p \in Partitions, Produce(p)
      PROVE  UNCHANGED <<task, outcome, refusals, shortages, lists>>
  BY <1>1 DEF Produce, lastVars, history, memory, procVars
<1>2. ASSUME NEW p \in Partitions, Dispatch(p)
      PROVE  /\ UNCHANGED <<outcome, refusals, shortages, lists>>
             /\ \A d \in Deliveries : task'[d] = task[d] \/ task'[d] = NewTask
  BY <1>2 DEF Dispatch, lastVars, history, memory, TypeOK
<1>3. ASSUME NEW status, EndProcess(status), UNCHANGED lastVars
      PROVE  UNCHANGED <<outcome, refusals, shortages>> /\ lists' = "whole" /\ \A d \in Deliveries : task'[d] = NoTask
  BY <1>3 DEF EndProcess, lastVars, history, memory
<1>4. ASSUME NEW t \in Topics, StartLoop(t) \/ Rebalance(t)
      PROVE  UNCHANGED <<task, outcome, refusals, shortages, lists>>
  BY <1>4 DEF StartLoop, Rebalance, lastVars, history, memory
<1>5. ASSUME NEW x \in Posts, MemoExpires(x)
      PROVE  UNCHANGED <<task, outcome, refusals, shortages, lists>>
  BY <1>5 DEF MemoExpires, lastVars, history, memory
<1>6. CASE Restart \/ UNCHANGED vars
  BY <1>6 DEF Restart, vars, lastVars, history, memory, procVars
<1> QED BY <1>1, <1>2, <1>3, <1>4, <1>5, <1>6 DEF Next, DecodeError, Crash, BrokerError

LEMMA DropsStart == Init => DropsInv
<1>1. Init => TasksFollow
  BY DEF Init, TasksFollow, NoTask
<1>2. Init => DeliberateDrops /\ ListsFollow
  BY DEF Init, DeliberateDrops, ListsFollow
<1> QED BY <1>1, <1>2, InitTyped DEF DropsInv

LEMMA DropsKept == DropsInv /\ [Next]_vars => DropsInv'
<1> SUFFICES ASSUME DropsInv, [Next]_vars PROVE DropsInv'
  OBVIOUS
<1>1. TypeOK /\ TasksFollow /\ TypeOK'
  BY NextTyped DEF DropsInv
<1>2. ASSUME NEW d \in Deliveries, TaskStep(d)
      PROVE  TasksFollow' /\ ListsFollow' /\ DeliberateDrops'
  <2>1. TasksFollow'
    BY <1>1, <1>2, TaskMoves DEF TasksFollow, Kind
  <2> QED BY <2>1, <1>2, TaskDecides
<1> QED BY <1>1, <1>2, NextTasks, FreshTasks DEF DropsInv

(* handle_post and handle_comment drop what a gate refuses and keep what   *)
(* it lets in, through every failure of D1 and every retry.  A post is     *)
(* dropped against the gates only where D1 has refused a read for good, or *)
(* where a list alone names it and the lists have been read short; a       *)
(* comment never is.                                                       *)
THEOREM DropsAreDeliberate == Spec => []DeliberateDrops
<1>1. DropsInv => DeliberateDrops
  BY DEF DropsInv
<1> QED BY <1>1, DropsStart, DropsKept, PTL DEF Spec

(* The memo of missing parents is asked after D1, never in its place: a    *)
(* task whose parent is stored does not fail for want of it, whatever the  *)
(* memo holds and however many attempts the task has behind it, unless D1  *)
(* refuses that very read for good.                                        *)
THEOREM MemoIsHarmless == Spec => StaleMemoHarmless
<1>1. ASSUME DropsInv, [Next]_vars,
             NEW d \in Deliveries, Post(d) \in posts, task[d].st = "lookup", refusals' = refusals
      PROVE  task'[d].exc # "parent"
  <2>1. task[d].exc = "no" /\ TypeOK /\ TasksFollow
    BY <1>1 DEF DropsInv, TasksFollow
  <2>2. NoTask.exc = "no" /\ NewTask.exc = "no"
    BY DEF NoTask, NewTask
  <2>3. ASSUME NEW e \in Deliveries, TaskStep(e)
        PROVE  task'[d].exc # "parent"
    <3>1. CASE e = d
      BY <1>1, <2>1, <2>3, <3>1, TaskMoves
    <3>2. CASE e # d
      BY <2>1, <2>3, <3>2, TaskMoves
    <3> QED BY <3>1, <3>2
  <2> QED BY <1>1, <2>1, <2>2, <2>3, NextTasks
<1>2. DropsInv /\ [Next]_vars =>
          [\A d \in Deliveries :
              (Post(d) \in posts /\ task[d].st = "lookup" /\ refusals' = refusals) => task'[d].exc # "parent"]_vars
  BY <1>1
<1> QED BY <1>2, DropsStart, DropsKept, PTL DEF Spec, StaleMemoHarmless

-----------------------------------------------------------------------------
(* The tracker of a process whose consumer is never rebalanced.            *)

\* The one delivery of a record when there is one epoch.
Only(p, o) == <<p, o, 0>>

\* The queue is in the order of the log, behind the reader, and so is what
\* is finished or being worked on: a record is queued once.
QueueInOrder ==
    \A p \in Partitions :
        /\ \A i \in 1 .. Len(dispatched[p]) : dispatched[p][i] < position[p]
        /\ \A i, j \in 1 .. Len(dispatched[p]) :
              i # j => dispatched[p][i] # dispatched[p][j]
        /\ \A o \in finished[p] : o < position[p]
        /\ \A o \in Offsets : Working(Only(p, o)) => o < position[p]

\* What is queued is finished or being worked on, and its head is not finished.
QueueAlive ==
    \A p \in Partitions :
        /\ \A i \in 1 .. Len(dispatched[p]) :
              dispatched[p][i] \in finished[p] \/ Working(Only(p, dispatched[p][i]))
        /\ Len(dispatched[p]) > 0 => dispatched[p][1] \notin finished[p]

TrackerInv == TypeOK /\ Idle /\ QueueInOrder /\ QueueAlive

\* A task that moves on without reporting leaves the tracker as it is.
LEMMA TrackerRests ==
    ASSUME TrackerInv, UNCHANGED <<loop, position, dispatched, finished>>,
           \A d \in Deliveries : \/ task'[d] = task[d]
                                 \/ Working(d) /\ WorkingNext(d)
                                 \/ task[d].st = "commit" /\ task'[d].st = "none"
    PROVE  Idle' /\ QueueInOrder' /\ QueueAlive'
<1>a. 0 \in Epochs
  BY OffsetsAreNat DEF Epochs
<1>b. \A p \in Partitions, o \in Offsets : Working(Only(p, o)) <=> Working(Only(p, o))'
  BY <1>a, DeliveryOf DEF Only, Working, WorkingNext
<1>c. \A p \in Partitions : \A i \in 1 .. Len(dispatched[p]) : dispatched[p][i] \in Offsets
  BY DEF TrackerInv, TypeOK
<1>1. Idle'
  BY DeliveryOf DEF TrackerInv, Idle, Working, WorkingNext
<1>2. QueueInOrder'
  BY <1>b DEF TrackerInv, QueueInOrder
<1>3. QueueAlive'
  BY <1>b, <1>c DEF TrackerInv, QueueAlive
<1> QED BY <1>1, <1>2, <1>3

\* _OffsetTracker.finished stops at a head that is not finished.
LEMMA TrackerPops ==
    ASSUME TrackerInv, MaxRebalances = 0, NEW d \in Deliveries, Working(d),
           TrackFinished(d), UNCHANGED <<loop, position>>
    PROVE  Idle' /\ QueueInOrder' /\ QueueAlive'
<1> DEFINE q == d[1]
           queue == dispatched[q]
           done == finished[q] \cup {d[2]}
<1>a. q \in Partitions /\ d[2] \in Offsets /\ d = Only(q, d[2]) /\ 0 \in Epochs /\ Offsets \subseteq Nat
  BY DeliveryParts, DeliveryIs, OffsetsAreNat DEF Only, Epochs
<1>b. PICK n \in 0 .. Len(queue) :
          /\ Drainable(queue, done, n)
          /\ n < Len(queue) => ~Drainable(queue, done, n + 1)
          /\ dispatched' = [dispatched EXCEPT ![q] = SubSeq(queue, n + 1, Len(queue))]
          /\ finished' = [finished EXCEPT ![q] = done \ {queue[i] : i \in 1 .. n}]
          /\ task' = [task EXCEPT ![d] =
                         IF n = 0 THEN NoTask ELSE CommitTask(queue[n] + 1)]
  BY DEF TrackFinished
<1>c. /\ queue \in Seq(Offsets) /\ n \in Nat /\ Len(queue) \in Nat /\ n <= Len(queue)
      /\ \A i \in 1 .. Len(queue) : queue[i] \in Offsets
  BY <1>a, ElementOfSeq, LenProperties DEF TrackerInv, TypeOK
<1>d. /\ \A e \in Deliveries \ {d} : task'[e] = task[e]
      /\ ~WorkingNext(d)
  BY TrackEnds DEF TrackerInv, WorkingNext
<1>e. /\ \A p \in Partitions \ {q} : dispatched'[p] = dispatched[p] /\ finished'[p] = finished[p]
      /\ dispatched'[q] = SubSeq(queue, n + 1, Len(queue))
      /\ finished'[q] = done \ {queue[i] : i \in 1 .. n}
  BY <1>a, <1>b DEF TrackerInv, TypeOK
<1>f. /\ Len(dispatched'[q]) = Len(queue) - n
      /\ \A i \in 1 .. Len(queue) - n : dispatched'[q][i] = queue[n + i]
  <2> HIDE DEF queue
  <2>1. \A i \in n + 1 .. Len(queue) : queue[i] \in Offsets
    BY <1>c
  <2>2. /\ Len(SubSeq(queue, n + 1, Len(queue))) = Len(queue) - n
        /\ \A i \in 1 .. Len(queue) - n : SubSeq(queue, n + 1, Len(queue))[i] = queue[n + i]
    BY <1>c
  <2> QED BY <1>e, <2>2
<1>g. \A i, j \in 1 .. Len(queue) : i # j => queue[i] # queue[j]
  BY <1>a DEF TrackerInv, QueueInOrder
<1>h. n < Len(queue) => queue[n + 1] \notin done
  <2> HIDE DEF queue, done
  <2>1. ASSUME n < Len(queue), queue[n + 1] \in done
        PROVE  Drainable(queue, done, n + 1)
    <3> SUFFICES ASSUME NEW i \in 1 .. n + 1
                 PROVE  queue[i] \in done /\ \A j \in 1 .. i - 1 : queue[j] # queue[i]
      BY DEF Drainable
    <3>1. CASE i \in 1 .. n
      BY <1>b, <3>1 DEF Drainable
    <3>2. CASE i = n + 1
      BY <1>c, <1>g, <2>1, <3>2
    <3> QED BY <1>c, <3>1, <3>2
  <2> QED BY <2>1, <1>b
<1>i. \A p \in Partitions, o \in Offsets :
          /\ Only(p, o) \in Deliveries
          /\ Only(p, o) = d <=> (p = q /\ o = d[2])
  BY <1>a, DeliveryOf DEF Only
<1>1. Idle'
  <2>1. loop[TopicOf(q)]
    BY <1>a DEF TrackerInv, Idle, Only, Working
  <2> QED BY <2>1, <1>d, <1>e, <1>a, DeliveryOf DEF TrackerInv, Idle
<1>2. QueueInOrder'
  <2> SUFFICES ASSUME NEW p \in Partitions
               PROVE  /\ \A i \in 1 .. Len(dispatched'[p]) : dispatched'[p][i] < position[p]
                      /\ \A i, j \in 1 .. Len(dispatched'[p]) :
                            i # j => dispatched'[p][i] # dispatched'[p][j]
                      /\ \A o \in finished'[p] : o < position[p]
                      /\ \A o \in Offsets : WorkingNext(Only(p, o)) => o < position[p]
    BY DEF QueueInOrder, Working, WorkingNext
  <2>1. \A o \in Offsets : WorkingNext(Only(p, o)) => o < position[p]
    BY <1>d, <1>i DEF TrackerInv, QueueInOrder, Working, WorkingNext
  <2>2. CASE p # q
    BY <2>1, <2>2, <1>e DEF TrackerInv, QueueInOrder
  <2>3. CASE p = q
    <3>1. d[2] < position[q]
      BY <1>a DEF TrackerInv, QueueInOrder
    <3>2. \A o \in done : o < position[q]
      BY <1>a, <3>1 DEF TrackerInv, QueueInOrder
    <3>3. \A i \in 1 .. Len(queue) : queue[i] < position[q]
      BY <1>a DEF TrackerInv, QueueInOrder
    <3> HIDE DEF queue, done
    <3>4. \A i \in 1 .. Len(queue) - n :
             n + i \in 1 .. Len(queue) /\ \A j \in 1 .. Len(queue) - n : i # j => n + i # n + j
      BY <1>c
    <3>5. \A i \in 1 .. Len(dispatched'[q]) : dispatched'[q][i] < position[q]
      BY <1>f, <3>3, <3>4
    <3>6. \A i, j \in 1 .. Len(dispatched'[q]) : i # j => dispatched'[q][i] # dispatched'[q][j]
      BY <1>f, <1>g, <3>4
    <3> QED BY <2>1, <2>3, <1>e, <3>2, <3>5, <3>6
  <2> QED BY <2>2, <2>3
<1>3. QueueAlive'
  <2> SUFFICES ASSUME NEW p \in Partitions
               PROVE  /\ \A i \in 1 .. Len(dispatched'[p]) :
                            \/ dispatched'[p][i] \in finished'[p]
                            \/ WorkingNext(Only(p, dispatched'[p][i]))
                      /\ Len(dispatched'[p]) > 0 => dispatched'[p][1] \notin finished'[p]
    BY DEF QueueAlive, Working, WorkingNext
  <2>1. CASE p # q
    <3>1. \A i \in 1 .. Len(dispatched[p]) : dispatched[p][i] \in Offsets
      BY DEF TrackerInv, TypeOK
    <3> QED BY <2>1, <3>1, <1>d, <1>e, <1>i DEF TrackerInv, QueueAlive, Working, WorkingNext
  <2>2. CASE p = q
    <3>1. \A i \in 1 .. Len(queue) : queue[i] \in finished[q] \/ Working(Only(q, queue[i]))
      BY <1>a DEF TrackerInv, QueueAlive
    <3>2. \A i \in 1 .. Len(queue) : queue[i] \in done \/ WorkingNext(Only(q, queue[i]))
      BY <3>1, <1>a, <1>c, <1>d, <1>i DEF Working, WorkingNext
    <3> HIDE DEF queue, done
    <3>3. \A i \in 1 .. Len(queue) - n : n + i \in 1 .. Len(queue) /\ \A k \in 1 .. n : n + i # k
      BY <1>c
    <3>4. ASSUME NEW i \in 1 .. Len(queue) - n, queue[n + i] \in done
          PROVE  queue[n + i] \in finished'[q]
      <4>1. \A k \in 1 .. n : k \in 1 .. Len(queue)
        BY <1>c
      <4> QED BY <1>e, <1>g, <3>3, <3>4, <4>1
    <3>5. \A i \in 1 .. Len(dispatched'[q]) :
             dispatched'[q][i] \in finished'[q] \/ WorkingNext(Only(q, dispatched'[q][i]))
      BY <1>f, <3>2, <3>3, <3>4
    <3>6. Len(dispatched'[q]) > 0 => dispatched'[q][1] \notin finished'[q]
      <4>1. Len(dispatched'[q]) > 0 => n < Len(queue) /\ dispatched'[q][1] = queue[n + 1]
        BY <1>c, <1>f
      <4> QED BY <4>1, <1>e, <1>h
    <3> QED BY <2>2, <3>5, <3>6
  <2> QED BY <2>1, <2>2
<1> QED BY <1>1, <1>2, <1>3

\* A record is queued once, behind all that is queued.
LEMMA TrackerQueues ==
    ASSUME TrackerInv, TypeOK', MaxRebalances = 0, NEW q \in Partitions, Dispatch(q)
    PROVE  Idle' /\ QueueInOrder' /\ QueueAlive'
<1> DEFINE o == position[q]
           queue == dispatched[q]
<1>a. /\ o \in Offsets /\ Offsets \subseteq Nat /\ loop[TopicOf(q)]
      /\ TopicOf(q) \in Topics /\ 0 \in Epochs /\ epoch[TopicOf(q)] = 0
  BY OffsetsAreNat DEF Dispatch, CanRead, TrackerInv, TypeOK, Offsets, TopicOf, Topics, Epochs
<1>b. /\ dispatched' = [dispatched EXCEPT ![q] = Append(queue, o)]
      /\ task' = [task EXCEPT ![Only(q, o)] = NewTask]
      /\ position' = [position EXCEPT ![q] = o + 1]
      /\ UNCHANGED <<loop, finished>>
  BY <1>a DEF Dispatch, Only
<1>c. /\ queue \in Seq(Offsets) /\ Len(queue) \in Nat /\ o + 1 \in Nat
      /\ \A i \in 1 .. Len(queue) : queue[i] \in Offsets
  BY <1>a, ElementOfSeq, LenProperties DEF TrackerInv, TypeOK
<1>d. /\ \A p \in Partitions \ {q} : dispatched'[p] = dispatched[p] /\ position'[p] = position[p]
      /\ dispatched'[q] = Append(queue, o) /\ position'[q] = o + 1
  BY <1>b DEF TrackerInv, TypeOK
<1>e. /\ Len(dispatched'[q]) = Len(queue) + 1
      /\ \A i \in 1 .. Len(queue) : dispatched'[q][i] = queue[i]
      /\ dispatched'[q][Len(queue) + 1] = o
  <2> HIDE DEF queue, o
  <2> QED BY <1>a, <1>c, <1>d, AppendProperties
<1>f. \A p \in Partitions, k \in Offsets :
          /\ Only(p, k) \in Deliveries
          /\ Only(p, k) = Only(q, o) <=> (p = q /\ k = o)
  BY <1>a, DeliveryOf DEF Only
<1>g. /\ \A d \in Deliveries : d # Only(q, o) => task'[d] = task[d]
      /\ WorkingNext(Only(q, o))
  BY <1>a, <1>b, <1>f DEF TrackerInv, TypeOK, WorkingNext, NewTask, NoTask
<1>h. /\ \A i \in 1 .. Len(queue) : queue[i] < o
      /\ \A k \in Offsets : Working(Only(q, k)) => k < o
  BY DEF TrackerInv, QueueInOrder
<1>i. \A j, k \in Offsets : k = j \/ k < j => k < j + 1
  <2>1. \A j, k \in Nat : k = j \/ k < j => k < j + 1
    OBVIOUS
  <2> QED BY <2>1, OffsetsAreNat
<1>1. Idle'
  <2>1. \A p \in Partitions : ~loop[TopicOf(p)] => p # q
    BY <1>a
  <2>2. \A p \in Partitions, k \in Offsets, e \in Epochs :
            p # q => <<p, k, e>> \in Deliveries /\ <<p, k, e>> # Only(q, o)
    BY DeliveryOf DEF Only
  <2> QED BY <1>b, <1>d, <1>g, <2>1, <2>2 DEF TrackerInv, Idle
<1>2. QueueInOrder'
  <2> SUFFICES ASSUME NEW p \in Partitions
               PROVE  /\ \A i \in 1 .. Len(dispatched'[p]) : dispatched'[p][i] < position'[p]
                      /\ \A i, j \in 1 .. Len(dispatched'[p]) :
                            i # j => dispatched'[p][i] # dispatched'[p][j]
                      /\ \A k \in finished[p] : k < position'[p]
                      /\ \A k \in Offsets : WorkingNext(Only(p, k)) => k < position'[p]
    BY <1>b DEF QueueInOrder, Working, WorkingNext
  <2>1. CASE p # q
    BY <2>1, <1>d, <1>f, <1>g DEF TrackerInv, QueueInOrder, Working, WorkingNext
  <2>2. CASE p = q
    <3>1. \A i \in 1 .. Len(queue) : queue[i] < o /\ queue[i] < o + 1
      <4>1. \A i \in 1 .. Len(queue) : queue[i] < o
        BY <1>h
      <4>2. \A k \in Offsets : k < o => k < o + 1
        BY <1>a, <1>i
      <4> QED BY <1>c, <4>1, <4>2
    <3>2. \A i, j \in 1 .. Len(queue) : i # j => queue[i] # queue[j]
      BY DEF TrackerInv, QueueInOrder
    <3>3. \A k \in finished[q] : k < o + 1
      BY <1>a DEF TrackerInv, QueueInOrder, TypeOK
    <3>4. \A k \in Offsets : WorkingNext(Only(q, k)) => k < o + 1
      <4>1. ASSUME NEW k \in Offsets, k # o, WorkingNext(Only(q, k))
            PROVE  k < o
        <5>1. Working(Only(q, k))
          BY <1>f, <1>g, <4>1 DEF Working, WorkingNext
        <5> QED BY <4>1, <5>1, <1>h
      <4>2. \A k \in Offsets : k = o \/ k < o => k < o + 1
        BY <1>a, <1>i
      <4> QED BY <4>1, <4>2
    <3> HIDE DEF queue, o
    <3>5. \A i \in 1 .. Len(queue) + 1 : i \in 1 .. Len(queue) \/ i = Len(queue) + 1
      BY <1>c
    <3>6. o < o + 1
      BY <1>a
    <3>7. \A i \in 1 .. Len(dispatched'[q]) : dispatched'[q][i] < o + 1
      BY <1>e, <3>1, <3>5, <3>6
    <3>8. \A i, j \in 1 .. Len(dispatched'[q]) : i # j => dispatched'[q][i] # dispatched'[q][j]
      <4>1. \A i \in 1 .. Len(queue) : queue[i] # o
        BY <1>a, <1>c, <3>1
      <4> QED BY <1>e, <3>2, <3>5, <4>1
    <3> QED BY <2>2, <1>d, <3>3, <3>4, <3>7, <3>8
  <2> QED BY <2>1, <2>2
<1>3. QueueAlive'
  <2> SUFFICES ASSUME NEW p \in Partitions
               PROVE  /\ \A i \in 1 .. Len(dispatched'[p]) :
                            \/ dispatched'[p][i] \in finished[p]
                            \/ WorkingNext(Only(p, dispatched'[p][i]))
                      /\ Len(dispatched'[p]) > 0 => dispatched'[p][1] \notin finished[p]
    BY <1>b DEF QueueAlive, Working, WorkingNext
  <2>1. \A i \in 1 .. Len(dispatched[p]) :
            \/ dispatched[p][i] \in finished[p]
            \/ WorkingNext(Only(p, dispatched[p][i]))
    <3>1. \A i \in 1 .. Len(dispatched[p]) : dispatched[p][i] \in Offsets
      BY DEF TrackerInv, TypeOK
    <3> QED BY <3>1, <1>f, <1>g DEF TrackerInv, QueueAlive, Working, WorkingNext
  <2>2. CASE p # q
    BY <2>1, <2>2, <1>d DEF TrackerInv, QueueAlive
  <2>3. CASE p = q
    <3>1. o \notin finished[q]
      BY <1>a DEF TrackerInv, QueueInOrder, TypeOK
    <3>2. Len(queue) > 0 => queue[1] \notin finished[q]
      BY DEF TrackerInv, QueueAlive
    <3> HIDE DEF queue, o
    <3>3. \A i \in 1 .. Len(queue) + 1 : i \in 1 .. Len(queue) \/ i = Len(queue) + 1
      BY <1>c
    <3>4. dispatched'[q][1] \notin finished[q]
      <4>1. CASE Len(queue) > 0
        BY <4>1, <1>c, <1>e, <3>2
      <4>2. CASE Len(queue) = 0
        BY <4>2, <1>e, <3>1
      <4> QED BY <4>1, <4>2, <1>c
    <3>5. \A i \in 1 .. Len(queue) : queue[i] \in finished[q] \/ WorkingNext(Only(q, queue[i]))
      BY <2>1, <2>3 DEF queue
    <3> QED BY <2>3, <1>e, <1>g, <3>3, <3>4, <3>5
  <2> QED BY <2>2, <2>3
<1> QED BY <1>1, <1>2, <1>3

\* A loop that starts, and a process that ends, finds or leaves nothing.
LEMMA TrackerEmpty ==
    ASSUME TrackerInv,
           \A p \in Partitions :
              \/ /\ loop'[TopicOf(p)] = loop[TopicOf(p)] /\ position'[p] = position[p]
                 /\ dispatched'[p] = dispatched[p] /\ finished'[p] = finished[p]
                 /\ \A o \in Offsets, e \in Epochs : task'[<<p, o, e>>] = task[<<p, o, e>>]
              \/ /\ dispatched'[p] = <<>> /\ finished'[p] = {}
                 /\ \A o \in Offsets, e \in Epochs : task'[<<p, o, e>>].st = "none"
    PROVE  Idle' /\ QueueInOrder' /\ QueueAlive'
<1>a. 0 \in Epochs
  BY OffsetsAreNat DEF Epochs
<1>b. \A p \in Partitions : \A i \in 1 .. Len(dispatched[p]) : dispatched[p][i] \in Offsets
  BY DEF TrackerInv, TypeOK
<1>1. Idle'
  BY DEF TrackerInv, Idle
<1>2. QueueInOrder'
  <2> SUFFICES ASSUME NEW p \in Partitions
               PROVE  /\ \A i \in 1 .. Len(dispatched'[p]) : dispatched'[p][i] < position'[p]
                      /\ \A i, j \in 1 .. Len(dispatched'[p]) :
                            i # j => dispatched'[p][i] # dispatched'[p][j]
                      /\ \A o \in finished'[p] : o < position'[p]
                      /\ \A o \in Offsets : WorkingNext(Only(p, o)) => o < position'[p]
    BY DEF QueueInOrder, Working, WorkingNext
  <2> QED BY <1>a DEF TrackerInv, QueueInOrder, Working, WorkingNext, Only
<1>3. QueueAlive'
  <2> SUFFICES ASSUME NEW p \in Partitions
               PROVE  /\ \A i \in 1 .. Len(dispatched'[p]) :
                            \/ dispatched'[p][i] \in finished'[p]
                            \/ WorkingNext(Only(p, dispatched'[p][i]))
                      /\ Len(dispatched'[p]) > 0 => dispatched'[p][1] \notin finished'[p]
    BY DEF QueueAlive, Working, WorkingNext
  <2> QED BY <1>a, <1>b DEF TrackerInv, QueueAlive, Working, WorkingNext, Only
<1> QED BY <1>1, <1>2, <1>3

LEMMA TrackerStart == Init => TrackerInv
<1> SUFFICES ASSUME Init PROVE TrackerInv
  OBVIOUS
<1>1. \A p \in Partitions, o \in Offsets, e \in Epochs : task[<<p, o, e>>].st = "none"
  BY DeliveryOf DEF Init, NoTask
<1>2. 0 \in Epochs
  BY OffsetsAreNat DEF Epochs
<1>3. Idle
  BY <1>1 DEF Init, Idle
<1>4. QueueInOrder /\ QueueAlive
  BY <1>1, <1>2 DEF Init, QueueInOrder, QueueAlive, Only, Working
<1> QED BY <1>3, <1>4, InitTyped DEF TrackerInv

\* Each step of a task moves it on, reports it, or ends it.
LEMMA TrackerTask ==
    ASSUME TrackerInv, MaxRebalances = 0, NEW d \in Deliveries, TaskStep(d)
    PROVE  Idle' /\ QueueInOrder' /\ QueueAlive'
<1>a. task[d] \in Tasks
  BY DEF TrackerInv, TypeOK
<1>b. ASSUME NEW st \in States \ {"none", "commit"}, GoTo(d, st)
      PROVE  WorkingNext(d) /\ \A e \in Deliveries \ {d} : task'[e] = task[e]
  BY <1>a, <1>b DEF TrackerInv, TypeOK, GoTo, Tasks, WorkingNext
<1>c. ASSUME NEW exc, Fail(d, exc)
      PROVE  /\ WorkingNext(d) /\ \A e \in Deliveries \ {d} : task'[e] = task[e]
             /\ UNCHANGED <<dispatched, finished>>
  BY <1>a, <1>c DEF TrackerInv, TypeOK, Fail, Tasks, WorkingNext, trackerVars
<1>d. {"lookup", "write", "report"} \subseteq States \ {"none", "commit"}
  BY DEF States
<1>1. CASE Acquire(d)
  <2>1. UNCHANGED <<loop, position, dispatched, finished>> /\ Working(d) /\ GoTo(d, "lookup")
    BY <1>1 DEF Acquire, Working, loopVars, trackerVars
  <2> QED BY <2>1, <1>b, <1>d, TrackerRests
<1>2. CASE Lookup(d)
  <2>1. UNCHANGED <<loop, position>> /\ Working(d)
    BY <1>2, LookupIs DEF loopVars, Working
  <2>2. CASE \E exc \in Faults : Fail(d, exc)
    BY <2>1, <2>2, <1>c, TrackerRests
  <2>3. CASE Return(d, "dropped")
    BY <2>1, <2>3, TrackerPops DEF Return
  <2>4. CASE GoTo(d, "write") /\ UNCHANGED trackerVars
    BY <2>1, <2>4, <1>b, <1>d, TrackerRests DEF trackerVars
  <2> QED BY <1>2, <2>2, <2>3, <2>4, LookupIs
<1>3. CASE Write(d)
  <2>1. UNCHANGED <<loop, position>> /\ Working(d)
    BY <1>3 DEF Write, loopVars, Working
  <2>2. CASE Return(d, "kept")
    BY <2>1, <2>2, TrackerPops DEF Return
  <2>3. CASE Fail(d, "infra")
    BY <2>1, <2>3, <1>c, TrackerRests
  <2> QED BY <1>3, <2>2, <2>3 DEF Write
<1>4. CASE WakeUp(d)
  <2>1. UNCHANGED <<loop, position, dispatched, finished>> /\ Working(d)
    BY <1>4 DEF WakeUp, Working, loopVars, trackerVars
  <2>2. WorkingNext(d) /\ \A e \in Deliveries \ {d} : task'[e] = task[e]
    BY <1>4, <1>a DEF WakeUp, WorkingNext, TrackerInv, TypeOK, Tasks
  <2> QED BY <2>1, <2>2, TrackerRests
<1>5. CASE DeadLetter(d)
  <2>1. UNCHANGED <<loop, position, dispatched, finished>> /\ Working(d) /\ GoTo(d, "report")
    BY <1>5 DEF DeadLetter, Working, loopVars, trackerVars
  <2> QED BY <2>1, <1>b, <1>d, TrackerRests
<1>6. CASE Report(d)
  <2>1. UNCHANGED <<loop, position>> /\ Working(d) /\ TrackFinished(d)
    BY <1>6 DEF Report, loopVars, Working
  <2> QED BY <2>1, TrackerPops
<1>7. CASE Commit(d)
  <2>1. UNCHANGED <<loop, position, dispatched, finished>>
    BY <1>7 DEF Commit, loopVars, trackerVars
  <2>2. /\ task[d].st = "commit" /\ task'[d].st = "none"
        /\ \A e \in Deliveries \ {d} : task'[e] = task[e]
    BY <1>7 DEF Commit, TrackerInv, TypeOK, NoTask
  <2> QED BY <2>1, <2>2, TrackerRests
<1> QED BY <1>1, <1>2, <1>3, <1>4, <1>5, <1>6, <1>7 DEF TaskStep

LEMMA TrackerKept == MaxRebalances = 0 /\ TrackerInv /\ [Next]_vars => TrackerInv'
<1> SUFFICES ASSUME MaxRebalances = 0, TrackerInv, [Next]_vars PROVE TrackerInv'
  OBVIOUS
<1>a. TypeOK'
  BY NextTyped DEF TrackerInv
<1> SUFFICES Idle' /\ QueueInOrder' /\ QueueAlive'
  BY <1>a DEF TrackerInv
<1>b. ASSUME UNCHANGED <<loop, position, task, dispatched, finished>>
      PROVE  Idle' /\ QueueInOrder' /\ QueueAlive'
  BY <1>b, TrackerRests
<1>c. ASSUME NEW status, EndProcess(status)
      PROVE  Idle' /\ QueueInOrder' /\ QueueAlive'
  <2>1. \A p \in Partitions :
            /\ dispatched'[p] = <<>> /\ finished'[p] = {}
            /\ \A o \in Offsets, e \in Epochs : task'[<<p, o, e>>].st = "none"
    BY <1>c, DeliveryOf DEF EndProcess, NoTask
  <2> QED BY <2>1, TrackerEmpty
<1>1. ASSUME NEW p \in Partitions, Produce(p) PROVE Idle' /\ QueueInOrder' /\ QueueAlive'
  BY <1>1, <1>b DEF Produce, procVars, loopVars, trackerVars
<1>2. ASSUME NEW p \in Partitions, Dispatch(p) PROVE Idle' /\ QueueInOrder' /\ QueueAlive'
  BY <1>2, <1>a, TrackerQueues
<1>3. ASSUME NEW t \in Topics, StartLoop(t) PROVE Idle' /\ QueueInOrder' /\ QueueAlive'
  <2>1. UNCHANGED <<task, dispatched, finished>> /\ ~loop[t]
    BY <1>3 DEF StartLoop, trackerVars
  <2>2. ASSUME NEW p \in Partitions, TopicOf(p) # t
        PROVE  loop'[TopicOf(p)] = loop[TopicOf(p)] /\ position'[p] = position[p]
    BY <1>3, <2>2 DEF StartLoop, TrackerInv, TypeOK, TopicOf, Topics
  <2>3. ASSUME NEW p \in Partitions, TopicOf(p) = t
        PROVE  /\ dispatched[p] = <<>> /\ finished[p] = {}
               /\ \A o \in Offsets, e \in Epochs : task[<<p, o, e>>].st = "none"
    BY <2>1, <2>3 DEF TrackerInv, Idle
  <2> QED BY <2>1, <2>2, <2>3, TrackerEmpty
<1>4. ASSUME NEW t \in Topics, Rebalance(t) PROVE FALSE
  BY <1>4 DEF Rebalance, TrackerInv, TypeOK, Epochs
<1>5. ASSUME NEW d \in Deliveries, TaskStep(d) PROVE Idle' /\ QueueInOrder' /\ QueueAlive'
  BY <1>5, TrackerTask
<1>6. ASSUME NEW x \in Posts, MemoExpires(x) PROVE Idle' /\ QueueInOrder' /\ QueueAlive'
  BY <1>6, <1>b DEF MemoExpires, loopVars, trackerVars
<1>7. CASE Restart \/ UNCHANGED vars
  BY <1>7, <1>b DEF Restart, vars, procVars, loopVars, trackerVars
<1> QED
  BY <1>1, <1>2, <1>3, <1>4, <1>5, <1>6, <1>7, <1>c DEF Next, DecodeError, Crash, BrokerError

(* As long as the group is not rebalanced under the process, _OffsetTracker*)
(* holds nothing back: once no task of a partition is at work, its queue   *)
(* is empty, and everything finished was offered for commit.  A rebalance  *)
(* breaks it, by queueing an offset twice.                                 *)
THEOREM TrackerIsDrained == MaxRebalances = 0 => (Spec => []TrackerDrains)
<1>1. ASSUME TrackerInv, NEW p \in Partitions,
             \A o \in Offsets, e \in Epochs : ~Working(<<p, o, e>>)
      PROVE  dispatched[p] = <<>>
  <2>1. dispatched[p] \in Seq(Offsets) /\ 0 \in Epochs
    BY <1>1, OffsetsAreNat DEF TrackerInv, TypeOK, Epochs
  <2>2. CASE Len(dispatched[p]) > 0
    <3>1. 1 \in 1 .. Len(dispatched[p]) /\ dispatched[p][1] \in Offsets
      BY <2>1, <2>2, ElementOfSeq, LenProperties
    <3>2. dispatched[p][1] \notin finished[p] /\ Working(Only(p, dispatched[p][1]))
      BY <1>1, <2>2, <3>1 DEF TrackerInv, QueueAlive
    <3> QED BY <1>1, <2>1, <3>1, <3>2 DEF Only
  <2>3. CASE Len(dispatched[p]) = 0
    BY <2>1, <2>3, EmptySeq
  <2> QED BY <2>1, <2>2, <2>3, LenProperties
<1>2. TrackerInv => TrackerDrains
  BY <1>1 DEF TrackerDrains
<1> SUFFICES ASSUME MaxRebalances = 0 PROVE Spec => []TrackerDrains
  OBVIOUS
<1>3. TrackerInv /\ [Next]_vars => TrackerInv'
  BY TrackerKept
<1> QED BY <1>2, <1>3, TrackerStart, PTL DEF Spec
=============================================================================
