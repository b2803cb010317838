--------------------------- MODULE CrawlSlot_proofs ---------------------------
(***************************************************************************)
(* Proofs about CrawlSlot: its types, that a slot that is over has been    *)
(* delivered, and that a message is sent once, and once more per loss at   *)
(* most; for any number of slots, keywords, pages and failures.            *)
(***************************************************************************)
EXTENDS CrawlSlot, TLAPS

------------------------------------------------------------------------------
(* Type correctness.                                                       *)

\* What an item can be told apart from.
LEMMA ItemsApart ==
    /\ After \in Messages => After \in Nurture
    /\ Messages \cap Pages = {}
    /\ SourcePages \notin Messages /\ Nothing \notin Items
    /\ Nurture \cap {Before} \subseteq Messages /\ Nurture \cap {After} \subseteq Messages
BY SlotAssumption DEF Messages, Items, Before, After, SourcePages, Nothing

LEMMA NoTaskTyped == NoTask \in Attempts
BY DEF NoTask, Attempts, Places

\* A record with fields of these types is an attempt.
LEMMA AttemptTyped ==
    ASSUME NEW place \in Places, NEW items \in SUBSET Messages, NEW known \in SUBSET Items,
           NEW i \in Items \cup {Nothing}, NEW b \in BOOLEAN
    PROVE  [at |-> place, left |-> items, done |-> known, item |-> i, complete |-> b]
               \in Attempts
BY DEF Attempts

\* The parts of the attempt at a slot.
LEMMA TaskParts ==
    ASSUME TypeOK, NEW s \in Slots
    PROVE  /\ task[s] \in Attempts
           /\ task[s].at \in Places /\ task[s].left \in SUBSET Messages
           /\ task[s].done \in SUBSET Items /\ task[s].item \in Items \cup {Nothing}
           /\ task[s].complete \in BOOLEAN
BY DEF TypeOK, Attempts

\* An attempt that changes keeps the types of all.
LEMMA BecomeTyped ==
    ASSUME TypeOK, NEW s \in Slots, NEW t \in Attempts, t.at = "none" => t = NoTask,
           Become(s, t)
    PROVE  /\ task' \in [Slots -> Attempts]
           /\ \A r \in Slots : ~Running(r)' => task'[r] = NoTask
BY DEF TypeOK, Become, Running

\* Going on in one of the four ways keeps the types of the attempts.
LEMMA GoTyped ==
    ASSUME TypeOK, NEW s \in Slots
    PROVE  /\ \A place \in Places \ {"none"}, items \in SUBSET Messages :
                 GoTo(s, place, items) \/ GoOnWithout(s, place, items) =>
                     /\ task' \in [Slots -> Attempts]
                     /\ \A r \in Slots : ~Running(r)' => task'[r] = NoTask
           /\ Abandon(s) =>
                 /\ task' \in [Slots -> Attempts]
                 /\ \A r \in Slots : ~Running(r)' => task'[r] = NoTask
           /\ \A i \in Items : Running(s) /\ Accepted(s, i) =>
                 /\ task' \in [Slots -> Attempts]
                 /\ \A r \in Slots : ~Running(r)' => task'[r] = NoTask
<1>1. ASSUME NEW place \in Places \ {"none"}, NEW items \in SUBSET Messages,
             GoTo(s, place, items) \/ GoOnWithout(s, place, items)
      PROVE  /\ task' \in [Slots -> Attempts]
             /\ \A r \in Slots : ~Running(r)' => task'[r] = NoTask
  <2>1. PICK b \in BOOLEAN :
            Become(s, [at |-> place, left |-> items, done |-> task[s].done, item |-> Nothing,
                       complete |-> b])
    BY <1>1, TaskParts DEF GoTo, GoOnWithout
  <2>2. [at |-> place, left |-> items, done |-> task[s].done, item |-> Nothing,
         complete |-> b] \in Attempts
    BY AttemptTyped, TaskParts
  <2> QED BY <2>1, <2>2, BecomeTyped
<1>2. Abandon(s) => /\ task' \in [Slots -> Attempts]
                    /\ \A r \in Slots : ~Running(r)' => task'[r] = NoTask
  BY <1>1 DEF Abandon, Places
<1>3. ASSUME NEW i \in Items, Running(s), Accepted(s, i)
      PROVE  /\ task' \in [Slots -> Attempts]
             /\ \A r \in Slots : ~Running(r)' => task'[r] = NoTask
  <2>1. [at |-> task[s].at, left |-> task[s].left, done |-> task[s].done, item |-> i,
         complete |-> task[s].complete] \in Attempts
    BY AttemptTyped, TaskParts
  <2> QED BY <1>3, <2>1, BecomeTyped DEF Accepted, Running
<1> QED BY <1>1, <1>2, <1>3

\* What is sent is counted.
LEMMA SentTyped ==
    ASSUME TypeOK, NEW s \in Slots, NEW items, Sent(s, items)
    PROVE  sends' \in [Slots -> [Messages \cup Pages -> Nat]]
BY DEF TypeOK, Sent

\* The bounds hold.
LEMMA BoundsTyped ==
    ASSUME TypeOK, Loses \/ Fails \/ Works
    PROVE  losses' \in 0 .. MaxLosses /\ outages' \in 0 .. MaxOutages
BY SlotAssumption DEF TypeOK, Loses, Fails, Works, boundVars

LEMMA InitTyped == Init => TypeOK
<1> SUFFICES ASSUME Init PROVE TypeOK
  OBVIOUS
<1>1. task \in [Slots -> Attempts] /\ \A s \in Slots : ~Running(s) => task[s] = NoTask
  BY NoTaskTyped DEF Init
<1> QED BY <1>1, SlotAssumption DEF Init, TypeOK

LEMMA StepTyped == ASSUME TypeOK, NEW s \in Slots, Step(s) PROVE TypeOK'
<1> USE SlotAssumption
<1>a. CASE Load(s)
  <2>1. PICK found \in {Loaded(s), {}} :
            /\ Become(s, [at |-> "before", left |-> Nurture \cap {Before}, done |-> found,
                          item |-> Nothing, complete |-> TRUE])
            /\ Loses \/ Works
    BY <1>a DEF Load
  <2>2. found \in SUBSET Items
    BY DEF TypeOK, Loaded
  <2>3. [at |-> "before", left |-> Nurture \cap {Before}, done |-> found, item |-> Nothing,
         complete |-> TRUE] \in Attempts
    BY <2>2, AttemptTyped, ItemsApart DEF Places
  <2>4. /\ task' \in [Slots -> Attempts]
        /\ \A r \in Slots : ~Running(r)' => task'[r] = NoTask
    BY <2>1, <2>3, BecomeTyped
  <2> QED BY <1>a, <2>1, <2>4, BoundsTyped DEF Load, TypeOK, redisVars, historyVars
<1>b. CASE Skip(s)
  <2>1. PICK i \in task[s].left \cap task[s].done : GoTo(s, task[s].at, task[s].left \ {i})
    BY <1>b DEF Skip
  <2>2. task[s].at \in Places \ {"none"} /\ task[s].left \ {i} \in SUBSET Messages
    BY <1>b, TaskParts DEF Skip, Delivering
  <2>3. /\ task' \in [Slots -> Attempts]
        /\ \A r \in Slots : ~Running(r)' => task'[r] = NoTask
    BY <2>1, <2>2, GoTyped
  <2> QED BY <1>b, <2>3 DEF Skip, TypeOK, redisVars, historyVars, boundVars
<1>c. CASE Send(s)
  <2>1. PICK i \in task[s].left \ task[s].done :
            /\ Sent(s, {i}) \/ Sent(s, {})
            /\ \/ GoOnWithout(s, task[s].at, task[s].left \ {i})
               \/ Accepted(s, i) \/ Abandon(s)
            /\ Works \/ Fails \/ Loses
    BY <1>c DEF Send
  <2>2. /\ task[s].at \in Places \ {"none"} /\ task[s].left \ {i} \in SUBSET Messages
        /\ i \in Items /\ Running(s)
    BY <1>c, TaskParts DEF Send, Delivering, Running, Items
  <2>3. /\ task' \in [Slots -> Attempts]
        /\ \A r \in Slots : ~Running(r)' => task'[r] = NoTask
    BY <2>1, <2>2, GoTyped
  <2>4. sends' \in [Slots -> [Messages \cup Pages -> Nat]]
    BY <2>1, SentTyped
  <2>5. losses' \in 0 .. MaxLosses /\ outages' \in 0 .. MaxOutages
    BY <2>1, BoundsTyped
  <2> QED BY <1>c, <2>3, <2>4, <2>5 DEF Send, TypeOK, redisVars
<1>d. CASE Record(s)
  <2> DEFINE i == task[s].item
  <2>1. /\ i \in Items /\ task[s].at \in Places \ {"none"}
        /\ task[s].left \ {i} \in SUBSET Messages /\ task[s].done \cup {i} \in SUBSET Items
    <3>1. i # Nothing
      BY <1>d DEF Record
    <3>2. task[s].at # "none"
      BY <3>1 DEF TypeOK, Running, NoTask
    <3> QED BY <3>1, <3>2, TaskParts
  <2>2. [at |-> task[s].at, left |-> task[s].left \ {i}, done |-> task[s].done \cup {i},
         item |-> Nothing, complete |-> task[s].complete] \in Attempts
    BY <2>1, AttemptTyped, TaskParts
  <2>3. /\ task' \in [Slots -> Attempts]
        /\ \A r \in Slots : ~Running(r)' => task'[r] = NoTask
    BY <1>d, <2>1, <2>2, BecomeTyped DEF Record
  <2>4. saved' \in [Slots -> SUBSET Items]
    BY <1>d, <2>1 DEF Record, TypeOK
  <2>5. losses' \in 0 .. MaxLosses /\ outages' \in 0 .. MaxOutages
    BY <1>d, BoundsTyped DEF Record
  <2> QED BY <1>d, <2>3, <2>4, <2>5 DEF Record, TypeOK, historyVars
<1>e. CASE Advance(s)
  <2>1. Following(task[s].at) \in Places \ {"none"}
    BY <1>e DEF Advance, Following, Delivering, Places
  <2>2. /\ task' \in [Slots -> Attempts]
        /\ \A r \in Slots : ~Running(r)' => task'[r] = NoTask
    BY <1>e, <2>1, GoTyped DEF Advance
  <2> QED BY <1>e, <2>2 DEF Advance, TypeOK, redisVars, historyVars, boundVars
<1>f. CASE ReadKeywords(s)
  <2>1. PICK asked \in SUBSET Keywords :
            /\ owed' = [owed EXCEPT ![s] = Nurture \cup asked]
            /\ \/ GoTo(s, "keywords", asked) \/ GoTo(s, "after", Nurture \cap {After})
               \/ Abandon(s)
            /\ Works \/ Fails
    BY <1>f DEF ReadKeywords, Outage
  <2>2. /\ asked \in SUBSET Messages /\ Nurture \cap {After} \in SUBSET Messages
        /\ Nurture \cup asked \in SUBSET (Messages \cup Pages)
        /\ {"keywords", "after"} \subseteq Places \ {"none"}
    BY DEF Messages, Places
  <2>3. /\ task' \in [Slots -> Attempts]
        /\ \A r \in Slots : ~Running(r)' => task'[r] = NoTask
    BY <2>1, <2>2, GoTyped
  <2>4. owed' \in [Slots -> SUBSET (Messages \cup Pages)]
    BY <2>1, <2>2 DEF TypeOK
  <2>5. losses' \in 0 .. MaxLosses /\ outages' \in 0 .. MaxOutages
    BY <2>1, BoundsTyped
  <2> QED BY <1>f, <2>3, <2>4, <2>5 DEF ReadKeywords, TypeOK, redisVars
<1>g. CASE QueueSources(s)
  <2>1. Nurture \cap {After} \in SUBSET Messages /\ "after" \in Places \ {"none"}
        /\ SourcePages \in Items
    BY ItemsApart DEF Places, Items
  <2>2. Running(s)
    BY <1>g DEF QueueSources, Running
  <2>3. \/ GoTo(s, "after", Nurture \cap {After}) \/ Accepted(s, SourcePages)
        \/ GoOnWithout(s, "after", Nurture \cap {After})
    BY <1>g DEF QueueSources
  <2>4. /\ task' \in [Slots -> Attempts]
        /\ \A r \in Slots : ~Running(r)' => task'[r] = NoTask
    BY <2>1, <2>2, <2>3, GoTyped
  <2>5. losses' \in 0 .. MaxLosses /\ outages' \in 0 .. MaxOutages
    BY <1>g, BoundsTyped DEF QueueSources
  <2>6. /\ sends' \in [Slots -> [Messages \cup Pages -> Nat]]
        /\ owed' \in [Slots -> SUBSET (Messages \cup Pages)]
    <3>1. CASE UNCHANGED <<sends, owed>>
      BY <3>1 DEF TypeOK
    <3>2. CASE \E due \in SUBSET PagesOf(s) : \E accepted \in SUBSET due :
                  Sent(s, accepted) /\ owed' = [owed EXCEPT ![s] = @ \cup due]
      <4>1. PICK due \in SUBSET PagesOf(s), accepted \in SUBSET PagesOf(s) :
                Sent(s, accepted) /\ owed' = [owed EXCEPT ![s] = owed[s] \cup due]
        BY <3>2
      <4>2. owed[s] \cup due \in SUBSET (Messages \cup Pages)
        BY DEF TypeOK, PagesOf
      <4>3. sends' \in [Slots -> [Messages \cup Pages -> Nat]]
        BY <4>1, SentTyped
      <4> QED BY <4>1, <4>2, <4>3 DEF TypeOK
    <3> QED BY <1>g, <3>1, <3>2 DEF QueueSources
  <2> QED BY <1>g, <2>4, <2>5, <2>6 DEF QueueSources, TypeOK, redisVars
<1>h. CASE Finish(s)
  <2>1. /\ task' \in [Slots -> Attempts]
        /\ \A r \in Slots : ~Running(r)' => task'[r] = NoTask
    BY <1>h, NoTaskTyped, BecomeTyped DEF Finish, Ended
  <2>2. losses' \in 0 .. MaxLosses /\ outages' \in 0 .. MaxOutages
    BY <1>h, BoundsTyped DEF Finish
  <2>3. memFired' \subseteq Slots /\ fired' \subseteq Slots /\ lease' \subseteq Slots
    BY <1>h DEF Finish, TypeOK
  <2>4. saved' \in [Slots -> SUBSET Items]
    BY <1>h DEF Finish, TypeOK
  <2>5. granted' \in [Slots -> SUBSET (Messages \cup Pages)]
    BY <1>h DEF Finish, TypeOK
  <2> QED BY <1>h, <2>1, <2>2, <2>3, <2>4, <2>5 DEF Finish, TypeOK
<1> QED BY <1>a, <1>b, <1>c, <1>d, <1>e, <1>f, <1>g, <1>h DEF Step

LEMMA NextTyped == TypeOK /\ [Next]_vars => TypeOK'
<1> SUFFICES ASSUME TypeOK, [Next]_vars PROVE TypeOK'
  OBVIOUS
<1>a. ASSUME NEW s \in Slots, Open(s) PROVE TypeOK'
  BY <1>a DEF Open, TypeOK, redisVars, memoryVars, historyVars, boundVars, Running
<1>b. ASSUME NEW s \in Slots, Close(s) PROVE TypeOK'
  BY <1>b DEF Close, TypeOK, redisVars, memoryVars, historyVars, boundVars, Running
<1>c. ASSUME NEW s \in Slots, LeaseRunsOut(s) PROVE TypeOK'
  BY <1>c DEF LeaseRunsOut, TypeOK, memoryVars, historyVars, boundVars, Running
<1>d. ASSUME NEW s \in Slots, Claim(s) PROVE TypeOK'
  <2>1. [at |-> "load", left |-> {}, done |-> {}, item |-> Nothing, complete |-> TRUE]
            \in Attempts
    BY AttemptTyped DEF Places
  <2>2. /\ task' \in [Slots -> Attempts]
        /\ \A r \in Slots : ~Running(r)' => task'[r] = NoTask
    <3>1. CASE UNCHANGED task
      BY <3>1 DEF TypeOK, Running
    <3>2. CASE Begin(s)
      BY <3>2, <2>1, BecomeTyped DEF Begin
    <3> QED BY <1>d, <3>1, <3>2 DEF Claim
  <2>3. lease' \subseteq Slots
    BY <1>d DEF Claim, TypeOK
  <2>4. losses' \in 0 .. MaxLosses /\ outages' \in 0 .. MaxOutages
    BY <1>d, BoundsTyped DEF Claim
  <2> QED BY <1>d, <2>2, <2>3, <2>4 DEF Claim, TypeOK, historyVars
<1>e. ASSUME Restart PROVE TypeOK'
  <2>1. task' \in [Slots -> Attempts] /\ \A r \in Slots : ~Running(r)' => task'[r] = NoTask
    BY <1>e, NoTaskTyped DEF Restart
  <2>2. losses' \in 0 .. MaxLosses /\ outages' \in 0 .. MaxOutages
    BY <1>e, BoundsTyped DEF Restart
  <2> QED BY <1>e, <2>1, <2>2 DEF Restart, TypeOK, redisVars, historyVars
<1>f. CASE UNCHANGED vars
  BY <1>f DEF vars, TypeOK, redisVars, memoryVars, historyVars, boundVars, Running
<1> QED BY <1>a, <1>b, <1>c, <1>d, <1>e, <1>f, StepTyped DEF Next

(* Slots, attempts and records keep their types in every reachable state:  *)
(* an attempt that has ended leaves nothing behind.                        *)
THEOREM SlotTypes == Spec => []TypeOK
<1>1. Init => TypeOK
  BY InitTyped
<1>2. TypeOK /\ [Next]_vars => TypeOK'
  BY NextTyped
<1> QED BY <1>1, <1>2, PTL DEF Spec

------------------------------------------------------------------------------
(* The inductive invariant, slot by slot.  Good is what it says of slot s  *)
(* with attempt t, saved items v, messages m, request w, grant g, when the *)
(* slots in F have a flag in Redis, those in K are over, and there have    *)
(* been n losses.                                                          *)

Good(s, t, v, m, w, g, F, K, n) ==
    /\ t.at \in Delivering \/ t.left = {}
    /\ t.item = Nothing \/ t.at \in Delivering \cup {"sources"}
    /\ \A i \in Messages : i \in v \cup t.done \cup {t.item} => m[i] > 0
    /\ t.complete => \A i \in AskedAt(t.at, w) \cap Messages : m[i] > 0 \/ i \in t.left
    /\ \A i \in Messages \ {t.item} :
          /\ (i \notin v /\ (s \notin F \/ t.at = "load")) => m[i] <= n
          /\ (i \notin t.done /\ t.at \notin {"none", "load"}) => m[i] <= n
    /\ s \in K => \A i \in g \ Pages : m[i] > 0
    /\ \A i \in Messages : m[i] <= 1 + n

SlotGood(s) ==
    Good(s, task[s], saved[s], sends[s], owed[s], granted[s], fired, fired \cup memFired,
         losses)

\* The same in the next state.
SlotGoodNext(s) ==
    Good(s, task'[s], saved'[s], sends'[s], owed'[s], granted'[s], fired',
         fired' \cup memFired', losses')

\* The invariant holds when it holds of each slot.
LEMMA SlotBySlot == IInv <=> TypeOK /\ \A s \in Slots : SlotGood(s)
BY DEF IInv, SlotGood, Good, AttemptShape, RecordedAreSent, CompleteSoFar, UnknownAreLosses,
       FiredMeansDelivered, OnceAndOncePerLoss, Marked

LEMMA SlotBySlotNext == TypeOK' /\ (\A s \in Slots : SlotGoodNext(s)) => IInv'
BY DEF IInv, SlotGoodNext, Good, AttemptShape, RecordedAreSent, CompleteSoFar,
       UnknownAreLosses, FiredMeansDelivered, OnceAndOncePerLoss, Marked

\* The types of what Good is about.
LEMMA SlotParts ==
    ASSUME TypeOK, NEW s \in Slots
    PROVE  /\ task[s] \in Attempts /\ saved[s] \in SUBSET Items
           /\ sends[s] \in [Messages \cup Pages -> Nat]
           /\ owed[s] \in SUBSET (Messages \cup Pages)
           /\ granted[s] \in SUBSET (Messages \cup Pages)
           /\ losses \in Nat /\ (~Running(s) => task[s] = NoTask)
<1>1. losses \in Nat
  BY SlotAssumption DEF TypeOK
<1>2. ~Running(s) => task[s] = NoTask
  BY DEF TypeOK
<1> QED BY <1>1, <1>2 DEF TypeOK

\* Losses are counted.
LEMMA LossesCount ==
    ASSUME TypeOK
    PROVE  (Loses => losses' = losses + 1) /\ (Fails \/ Works => losses' = losses)
BY DEF Loses, Fails, Works, boundVars

\* A slot that no action touches stays good, whatever is lost elsewhere.
LEMMA Elsewhere ==
    ASSUME TypeOK, NEW s \in Slots, SlotGood(s), losses' \in Nat, losses <= losses',
           task'[s] = task[s], saved'[s] = saved[s], sends'[s] = sends[s], owed'[s] = owed[s],
           granted'[s] = granted[s], s \in fired' <=> s \in fired,
           s \in memFired' => s \in memFired
    PROVE  SlotGoodNext(s)
<1> DEFINE t == task[s]  v == saved[s]  m == sends[s]  w == owed[s]  g == granted[s]
<1>1. \A i \in Messages : m[i] \in Nat
  BY SlotParts
<1>2. losses \in Nat
  BY SlotParts
<1>3. \A i \in Messages : /\ m[i] <= losses => m[i] <= losses'
                         /\ m[i] <= 1 + losses => m[i] <= 1 + losses'
  BY <1>1, <1>2
<1>4. Good(s, t, v, m, w, g, fired, fired \cup memFired, losses)
  BY DEF SlotGood
<1> HIDE DEF t, v, m, w, g
<1>5. \A i \in Messages \ {t.item} :
          /\ (i \notin v /\ (s \notin fired' \/ t.at = "load")) => m[i] <= losses'
          /\ (i \notin t.done /\ t.at \notin {"none", "load"}) => m[i] <= losses'
  BY <1>1, <1>2, <1>3, <1>4 DEF Good
<1>6. /\ s \in fired' \cup memFired' => \A i \in g \ Pages : m[i] > 0
      /\ \A i \in Messages : m[i] <= 1 + losses'
  BY <1>1, <1>2, <1>3, <1>4 DEF Good
<1>7. Good(s, t, v, m, w, g, fired', fired' \cup memFired', losses')
  BY <1>4, <1>5, <1>6 DEF Good
<1> QED BY <1>7 DEF SlotGoodNext, t, v, m, w, g

\* What an attempt should have asked for, place by place.
LEMMA AskedPlaces ==
    ASSUME NEW asked
    PROVE  /\ AskedAt("none", asked) = {} /\ AskedAt("load", asked) = {}
           /\ AskedAt("before", asked) = Nurture \cap {Before}
           /\ AskedAt("read", asked) = Nurture \cap {Before}
           /\ AskedAt("keywords", asked) = asked \ {After}
           /\ AskedAt("sources", asked) = asked \ {After}
           /\ AskedAt("after", asked) = asked /\ AskedAt("finish", asked) = asked
BY DEF AskedAt

LEMMA InitIInv == Init => IInv
<1> SUFFICES ASSUME Init PROVE IInv
  OBVIOUS
<1>1. TypeOK
  BY InitTyped
<1>2. ASSUME NEW s \in Slots PROVE SlotGood(s)
  <2>1. /\ task[s] = NoTask /\ saved[s] = {} /\ losses = 0
        /\ s \notin fired \cup memFired /\ s \notin fired
        /\ \A i \in Messages : sends[s][i] = 0
    BY DEF Init
  <2>2. Nothing \notin Messages
    BY ItemsApart DEF Items
  <2> QED BY <2>1, <2>2 DEF SlotGood, Good, NoTask
<1> QED BY <1>1, <1>2, SlotBySlot

------------------------------------------------------------------------------
(* Every step of a slot keeps it good.                                     *)

\* The attempt a slot is left with.
LEMMA AttemptIs ==
    ASSUME TypeOK, NEW s \in Slots
    PROVE  /\ \A t : Become(s, t) => task'[s] = t
           /\ \A place, items : GoTo(s, place, items) =>
                 task'[s] = [at |-> place, left |-> items, done |-> task[s].done,
                             item |-> Nothing, complete |-> task[s].complete]
           /\ \A place, items : GoOnWithout(s, place, items) =>
                 task'[s] = [at |-> place, left |-> items, done |-> task[s].done,
                             item |-> Nothing, complete |-> FALSE]
           /\ \A i : Accepted(s, i) =>
                 task'[s] = [at |-> task[s].at, left |-> task[s].left, done |-> task[s].done,
                             item |-> i, complete |-> task[s].complete]
<1>1. \A t : Become(s, t) => task'[s] = t
  BY DEF TypeOK, Become
<1> QED BY <1>1 DEF GoTo, GoOnWithout, Accepted

\* What is sent for a slot.
LEMMA SentIs ==
    ASSUME TypeOK, NEW s \in Slots, NEW items, Sent(s, items), NEW j \in Messages \cup Pages
    PROVE  /\ j \in items => sends'[s][j] = sends[s][j] + 1
           /\ j \notin items => sends'[s][j] = sends[s][j]
<1>1. sends[s][j] \in Nat
  BY DEF TypeOK
<1>2. sends'[s] = [i \in Messages \cup Pages |->
                      sends[s][i] + IF i \in items THEN 1 ELSE 0]
  BY DEF TypeOK, Sent
<1>3. sends'[s][j] = sends[s][j] + IF j \in items THEN 1 ELSE 0
  BY <1>2
<1> QED BY <1>1, <1>3

LEMMA ClaimGood ==
    ASSUME TypeOK, NEW s \in Slots, SlotGood(s), Claim(s)
    PROVE  SlotGoodNext(s)
<1> DEFINE v == saved[s]  m == sends[s]  w == owed[s]  g == granted[s]  K == fired \cup memFired
<1>1. /\ losses \in Nat /\ \A i \in Messages : m[i] \in Nat
      /\ Nothing \notin Messages
  BY SlotParts, ItemsApart DEF Items
<1>2. /\ task[s] = NoTask
      /\ saved'[s] = v /\ sends'[s] = m /\ owed'[s] = w /\ granted'[s] = g /\ fired' = fired
      /\ fired' \cup memFired' = K
  BY SlotParts DEF Claim, historyVars
<1>3. Good(s, NoTask, v, m, w, g, fired, K, losses)
  BY <1>2 DEF SlotGood
<1>4. CASE UNCHANGED task /\ Fails
  BY <1>1, <1>2, <1>4, Elsewhere, LossesCount DEF Claim
<1>5. CASE Begin(s) /\ ((s \notin fired /\ losses' = losses) \/ losses' = losses + 1)
  <2> DEFINE u == [at |-> "load", left |-> {}, done |-> {}, item |-> Nothing, complete |-> TRUE]
  <2>1. task'[s] = u
    BY <1>5, AttemptIs DEF Begin
  <2>2. /\ u.at = "load" /\ u.left = {} /\ u.done = {} /\ u.item = Nothing
        /\ AskedAt(u.at, w) = {}
    BY AskedPlaces
  <2> HIDE DEF u, v, m, w, g, K
  <2>3. \A i \in Messages : /\ i \in v => m[i] > 0
                            /\ i \notin v /\ s \notin fired => m[i] <= losses
                            /\ m[i] <= 1 + losses
    BY <1>1, <1>3 DEF Good, NoTask
  <2>4. \A i \in Messages : (i \notin v => m[i] <= losses') /\ m[i] <= 1 + losses'
    BY <1>1, <1>5, <2>3
  <2>5. s \in K => \A i \in g \ Pages : m[i] > 0
    BY <1>3 DEF Good
  <2>6. Good(s, u, v, m, w, g, fired, K, losses')
    BY <1>1, <2>2, <2>3, <2>4, <2>5 DEF Good
  <2> QED BY <1>2, <2>1, <2>6 DEF SlotGoodNext
<1> QED BY <1>4, <1>5, LossesCount DEF Claim

LEMMA LoadGood ==
    ASSUME TypeOK, NEW s \in Slots, SlotGood(s), Load(s)
    PROVE  SlotGoodNext(s)
<1> DEFINE t == task[s]  v == saved[s]  m == sends[s]  w == owed[s]  g == granted[s]
           K == fired \cup memFired
<1>1. /\ losses \in Nat /\ \A i \in Messages : m[i] \in Nat
      /\ Nothing \notin Messages
  BY SlotParts, ItemsApart DEF Items
<1>2. /\ t.at = "load" /\ saved'[s] = v /\ sends'[s] = m /\ owed'[s] = w /\ granted'[s] = g
      /\ fired' = fired /\ fired' \cup memFired' = K
  BY DEF Load, redisVars, historyVars
<1>3. Good(s, t, v, m, w, g, fired, K, losses)
  BY DEF SlotGood
<1>4. PICK found \in {v, {}} :
          /\ task'[s] = [at |-> "before", left |-> Nurture \cap {Before}, done |-> found,
                         item |-> Nothing, complete |-> TRUE]
          /\ (found = v /\ losses' = losses) \/ losses' = losses + 1
  BY AttemptIs, LossesCount DEF Load, Loaded
<1> DEFINE u == [at |-> "before", left |-> Nurture \cap {Before}, done |-> found,
                 item |-> Nothing, complete |-> TRUE]
<1>5. /\ u.at = "before" /\ u.left = AskedAt(u.at, w) /\ u.done = found /\ u.item = Nothing
      /\ u.at \in Delivering
  BY AskedPlaces DEF Delivering
<1>6. task'[s] = u
  BY <1>4
<1> HIDE DEF u, t, v, m, w, g, K
<1>7. t.item \notin Messages
  BY <1>1, <1>2, <1>3 DEF Good, Delivering
<1>8. \A i \in Messages : /\ i \in v => m[i] > 0
                          /\ i \notin v => m[i] <= losses
                          /\ m[i] <= 1 + losses
  BY <1>1, <1>2, <1>3, <1>7 DEF Good
<1>9. \A i \in Messages : /\ i \notin v \/ i \notin found => m[i] <= losses'
                          /\ m[i] <= 1 + losses'
  BY <1>1, <1>4, <1>8
<1>10. s \in K => \A i \in g \ Pages : m[i] > 0
  BY <1>3 DEF Good
<1>11. Good(s, u, v, m, w, g, fired, K, losses')
  BY <1>1, <1>4, <1>5, <1>8, <1>9, <1>10 DEF Good
<1> QED BY <1>2, <1>6, <1>11 DEF SlotGoodNext

LEMMA SkipGood ==
    ASSUME TypeOK, NEW s \in Slots, SlotGood(s), Skip(s)
    PROVE  SlotGoodNext(s)
<1> DEFINE t == task[s]  v == saved[s]  m == sends[s]  w == owed[s]  g == granted[s]
           K == fired \cup memFired
<1>1. /\ t.at \in Delivering /\ t.item = Nothing
      /\ saved'[s] = v /\ sends'[s] = m /\ owed'[s] = w /\ granted'[s] = g
      /\ fired' = fired /\ fired' \cup memFired' = K /\ losses' = losses
  BY DEF Skip, redisVars, historyVars, boundVars
<1>2. Good(s, t, v, m, w, g, fired, K, losses)
  BY DEF SlotGood
<1>3. PICK i \in t.left \cap t.done :
          task'[s] = [at |-> t.at, left |-> t.left \ {i}, done |-> t.done, item |-> Nothing,
                      complete |-> t.complete]
  BY AttemptIs DEF Skip
<1> DEFINE u == [at |-> t.at, left |-> t.left \ {i}, done |-> t.done, item |-> Nothing,
                 complete |-> t.complete]
<1>4. /\ u.at = t.at /\ u.left = t.left \ {i} /\ u.done = t.done /\ u.item = t.item
      /\ u.complete = t.complete
  BY <1>1
<1>5. task'[s] = u
  BY <1>3
<1> HIDE DEF u, t, v, m, w, g, K
<1>6. i \in Messages => m[i] > 0
  BY <1>2, <1>3 DEF Good
<1>7. Good(s, u, v, m, w, g, fired, K, losses)
  BY <1>1, <1>2, <1>4, <1>6 DEF Good
<1> QED BY <1>1, <1>5, <1>7 DEF SlotGoodNext

LEMMA SendGood ==
    ASSUME TypeOK, NEW s \in Slots, SlotGood(s), Send(s)
    PROVE  SlotGoodNext(s)
<1> DEFINE t == task[s]  v == saved[s]  m == sends[s]  w == owed[s]  g == granted[s]
           K == fired \cup memFired  p == sends'[s]
<1>1. /\ t.at \in Delivering /\ t.item = Nothing
      /\ saved'[s] = v /\ owed'[s] = w /\ granted'[s] = g
      /\ fired' = fired /\ fired' \cup memFired' = K
  BY DEF Send, redisVars
<1>2. /\ losses \in Nat /\ \A j \in Messages \cup Pages : m[j] \in Nat
      /\ Nothing \notin Messages /\ g \subseteq Messages \cup Pages
  BY SlotParts, ItemsApart DEF Items
<1>3. Good(s, t, v, m, w, g, fired, K, losses)
  BY DEF SlotGood
<1>4. PICK i \in t.left \ t.done :
          LET refused == GoOnWithout(s, t.at, t.left \ {i})
          IN  \/ Sent(s, {i}) /\ Accepted(s, i) /\ Works
              \/ Sent(s, {}) /\ refused /\ Fails
              \/ Sent(s, {i}) /\ refused /\ Loses
              \/ Sent(s, {i}) /\ Abandon(s) /\ Loses
  BY DEF Send
<1>5. i \in Messages
  BY TaskParts
<1> DEFINE was == [at |-> t.at, left |-> t.left, done |-> t.done, item |-> i,
                   complete |-> t.complete]
           on(place, items) == [at |-> place, left |-> items, done |-> t.done,
                                item |-> Nothing, complete |-> FALSE]
<1>6. \/ Sent(s, {i}) /\ task'[s] = was /\ losses' = losses
      \/ Sent(s, {}) /\ task'[s] = on(t.at, t.left \ {i}) /\ losses' = losses
      \/ Sent(s, {i}) /\ task'[s] = on(t.at, t.left \ {i}) /\ losses' = losses + 1
      \/ Sent(s, {i}) /\ task'[s] = on("finish", {}) /\ losses' = losses + 1
  BY <1>4, AttemptIs, LossesCount DEF Abandon
<1>7. ASSUME Sent(s, {i})
      PROVE  p[i] = m[i] + 1 /\ \A j \in (Messages \cup Pages) \ {i} : p[j] = m[j]
  BY <1>5, <1>7, SentIs
<1>8. ASSUME Sent(s, {}) PROVE \A j \in Messages \cup Pages : p[j] = m[j]
  BY <1>8, SentIs
<1>9. PICK u : u = task'[s]
  OBVIOUS
<1>10. /\ u = was => /\ u.at = t.at /\ u.left = t.left /\ u.done = t.done /\ u.item = i
                      /\ u.complete = t.complete
       /\ \A place, items : u = on(place, items) =>
             /\ u.at = place /\ u.left = items /\ u.done = t.done /\ u.item = Nothing
             /\ ~u.complete
  OBVIOUS
<1> HIDE DEF t, v, m, w, g, K, p, was, on
<1>11. m[i] <= losses
  BY <1>1, <1>2, <1>3, <1>4, <1>5 DEF Good, Delivering
<1>12. \A j \in Messages \cup Pages : p[j] \in Nat /\ m[j] <= p[j]
  BY <1>2, <1>5, <1>6, <1>7, <1>8
<1>13. \A j \in (Messages \cup Pages) \ {i} : p[j] = m[j]
  BY <1>2, <1>6, <1>7, <1>8
<1>14. \A j \in Messages \cup Pages : m[j] > 0 => p[j] > 0
  BY <1>2, <1>12
<1>15. losses' \in Nat /\ losses <= losses'
  BY <1>2, <1>6
<1>16. CASE u = was /\ Sent(s, {i}) /\ losses' = losses
  <2>1. p[i] > 0 /\ p[i] <= 1 + losses
    BY <1>2, <1>5, <1>7, <1>11, <1>16
  <2>2. \A j \in Messages : j \in v \cup u.done \cup {u.item} => p[j] > 0
    BY <1>3, <1>10, <1>14, <1>16, <2>1 DEF Good
  <2>3. u.complete => \A j \in AskedAt(u.at, w) \cap Messages : p[j] > 0 \/ j \in u.left
    BY <1>3, <1>10, <1>14, <1>16 DEF Good
  <2>4. \A j \in Messages \ {i} : m[j] = p[j] /\ j # t.item
    BY <1>1, <1>2, <1>13
  <2>5. \A j \in Messages \ {u.item} :
          /\ (j \notin v /\ (s \notin fired \/ u.at = "load")) => p[j] <= losses
          /\ (j \notin u.done /\ u.at \notin {"none", "load"}) => p[j] <= losses
    BY <1>3, <1>10, <1>16, <2>4 DEF Good
  <2>6. s \in K => \A j \in g \ Pages : p[j] > 0
    BY <1>2, <1>3, <1>14 DEF Good
  <2>7. \A j \in Messages : p[j] <= 1 + losses
    BY <1>3, <2>1, <2>4 DEF Good
  <2>8. /\ u.at \in Delivering \/ u.left = {}
        /\ u.item = Nothing \/ u.at \in Delivering \cup {"sources"}
    BY <1>1, <1>10, <1>16
  <2>9. Good(s, u, v, p, w, g, fired, K, losses')
    BY <1>16, <2>2, <2>3, <2>5, <2>6, <2>7, <2>8 DEF Good
  <2> QED BY <1>1, <1>9, <2>9 DEF SlotGoodNext, p
<1>17. CASE /\ u = on("finish", {}) \/ \E items : u = on(t.at, items)
            /\ p[i] <= losses'
  <2>1. /\ u.at \in Delivering \/ u.left = {}
        /\ u.done = t.done /\ u.item = Nothing /\ ~u.complete
    BY <1>1, <1>10, <1>17
  <2>2. \A j \in Messages : j \in v \cup u.done \cup {u.item} => p[j] > 0
    BY <1>2, <1>3, <1>14, <2>1 DEF Good
  <2>3. \A j \in Messages \ {i} : m[j] = p[j] /\ j # t.item
    BY <1>1, <1>2, <1>13
  <2>4. t.at \notin {"none", "load"}
    BY <1>1 DEF Delivering
  <2>5. \A j \in Messages \ {i} :
          /\ (j \notin v /\ s \notin fired => p[j] <= losses)
          /\ j \notin u.done => p[j] <= losses
          /\ p[j] <= 1 + losses
    BY <1>3, <2>1, <2>3, <2>4 DEF Good
  <2>6. \A j \in Messages : (p[j] <= losses => p[j] <= losses')
                            /\ (p[j] <= 1 + losses => p[j] <= 1 + losses')
                            /\ (p[j] <= losses' => p[j] <= 1 + losses')
    BY <1>2, <1>12, <1>15
  <2>7. u.at # "load"
    BY <1>10, <1>17, <2>4
  <2>8. \A j \in Messages \ {u.item} :
          /\ (j \notin v /\ (s \notin fired \/ u.at = "load")) => p[j] <= losses'
          /\ (j \notin u.done /\ u.at \notin {"none", "load"}) => p[j] <= losses'
    BY <1>17, <2>5, <2>6, <2>7
  <2>9. \A j \in Messages : p[j] <= 1 + losses'
    BY <1>17, <2>5, <2>6
  <2>10. s \in K => \A j \in g \ Pages : p[j] > 0
    BY <1>2, <1>3, <1>14 DEF Good
  <2>11. Good(s, u, v, p, w, g, fired, K, losses')
    BY <2>1, <2>2, <2>8, <2>9, <2>10 DEF Good
  <2> QED BY <1>1, <1>9, <2>11 DEF SlotGoodNext, p
<1>18. /\ Sent(s, {}) /\ losses' = losses => p[i] <= losses'
       /\ Sent(s, {i}) /\ losses' = losses + 1 => p[i] <= losses'
  BY <1>2, <1>5, <1>7, <1>8, <1>11
<1> QED BY <1>6, <1>9, <1>16, <1>17, <1>18

LEMMA RecordGood ==
    ASSUME TypeOK, NEW s \in Slots, SlotGood(s), Record(s)
    PROVE  SlotGoodNext(s)
<1> DEFINE t == task[s]  v == saved[s]  m == sends[s]  w == owed[s]  g == granted[s]
           K == fired \cup memFired  i == t.item  z == saved'[s]
           u == [at |-> t.at, left |-> t.left \ {i}, done |-> t.done \cup {i},
                 item |-> Nothing, complete |-> t.complete]
<1>1. /\ i # Nothing /\ task'[s] = u
      /\ sends'[s] = m /\ owed'[s] = w /\ granted'[s] = g
      /\ fired' = fired /\ fired' \cup memFired' = K
  BY AttemptIs DEF Record, historyVars
<1>2. \/ z = v \cup {i} /\ losses' = losses
      \/ z = v /\ losses' = losses + 1
  BY LossesCount DEF Record, TypeOK
<1>3. /\ losses \in Nat /\ \A j \in Messages : m[j] \in Nat
      /\ Nothing \notin Messages
  BY SlotParts, ItemsApart DEF Items
<1>4. Good(s, t, v, m, w, g, fired, K, losses)
  BY DEF SlotGood
<1>5. /\ u.at = t.at /\ u.left = t.left \ {i} /\ u.done = t.done \cup {i} /\ u.item = Nothing
      /\ u.complete = t.complete
  OBVIOUS
<1> HIDE DEF u, t, v, m, w, g, K, z
<1>6. t.at # "load" /\ (u.at \in Delivering \/ u.left = {})
  BY <1>1, <1>4, <1>5 DEF Good, Delivering
<1>7. \A j \in Messages : j \in z \cup u.done \cup {u.item} => m[j] > 0
  BY <1>2, <1>3, <1>4, <1>5 DEF Good
<1>8. u.complete => \A j \in AskedAt(u.at, w) \cap Messages : m[j] > 0 \/ j \in u.left
  BY <1>4, <1>5 DEF Good
<1>9. \A j \in Messages : /\ j \notin v \cup {i} /\ s \notin fired => m[j] <= losses
                          /\ j \notin u.done /\ u.at \notin {"none", "load"} => m[j] <= losses
                          /\ m[j] <= 1 + losses
  BY <1>4, <1>5 DEF Good
<1>10. \A j \in Messages : /\ j \notin z /\ s \notin fired => m[j] <= losses'
                           /\ j \notin u.done /\ u.at \notin {"none", "load"} => m[j] <= losses'
                           /\ m[j] <= 1 + losses'
  BY <1>2, <1>3, <1>9
<1>11. s \in K => \A j \in g \ Pages : m[j] > 0
  BY <1>4 DEF Good
<1>12. Good(s, u, z, m, w, g, fired, K, losses')
  BY <1>5, <1>6, <1>7, <1>8, <1>10, <1>11 DEF Good
<1> QED BY <1>1, <1>12 DEF SlotGoodNext, z

LEMMA AdvanceGood ==
    ASSUME TypeOK, NEW s \in Slots, SlotGood(s), Advance(s)
    PROVE  SlotGoodNext(s)
<1> DEFINE t == task[s]  v == saved[s]  m == sends[s]  w == owed[s]  g == granted[s]
           K == fired \cup memFired
           u == [at |-> Following(t.at), left |-> {}, done |-> t.done, item |-> Nothing,
                 complete |-> t.complete]
<1>1. /\ t.at \in Delivering /\ t.item = Nothing /\ t.left = {} /\ task'[s] = u
      /\ saved'[s] = v /\ sends'[s] = m /\ owed'[s] = w /\ granted'[s] = g
      /\ fired' = fired /\ fired' \cup memFired' = K /\ losses' = losses
  BY AttemptIs DEF Advance, redisVars, historyVars, boundVars
<1>2. Good(s, t, v, m, w, g, fired, K, losses)
  BY DEF SlotGood
<1>3. AskedAt(Following(t.at), w) = AskedAt(t.at, w)
  <2>1. \/ t.at = "before" /\ Following(t.at) = "read"
        \/ t.at = "keywords" /\ Following(t.at) = "sources"
        \/ t.at = "after" /\ Following(t.at) = "finish"
    BY <1>1 DEF Following, Delivering
  <2>2. /\ AskedAt("before", w) = AskedAt("read", w)
        /\ AskedAt("keywords", w) = AskedAt("sources", w)
        /\ AskedAt("after", w) = AskedAt("finish", w)
    BY AskedPlaces
  <2> QED BY <2>1, <2>2
<1>4. Following(t.at) \notin {"none", "load"} /\ t.at \notin {"none", "load"}
  BY <1>1 DEF Following, Delivering
<1>5. /\ u.at = Following(t.at) /\ u.left = {} /\ u.done = t.done /\ u.item = Nothing
      /\ u.complete = t.complete
  OBVIOUS
<1> HIDE DEF u, t, v, m, w, g, K
<1>6. Good(s, u, v, m, w, g, fired, K, losses)
  BY <1>1, <1>2, <1>3, <1>4, <1>5 DEF Good
<1> QED BY <1>1, <1>6 DEF SlotGoodNext

LEMMA ReadKeywordsGood ==
    ASSUME TypeOK, NEW s \in Slots, SlotGood(s), ReadKeywords(s)
    PROVE  SlotGoodNext(s)
<1> DEFINE t == task[s]  v == saved[s]  m == sends[s]  g == granted[s]
           K == fired \cup memFired
<1>1. /\ t.at = "read"
      /\ saved'[s] = v /\ sends'[s] = m /\ granted'[s] = g
      /\ fired' = fired /\ fired' \cup memFired' = K /\ losses' = losses
  BY LossesCount DEF ReadKeywords, redisVars
<1>2. Good(s, t, v, m, owed[s], g, fired, K, losses)
  BY DEF SlotGood
<1> DEFINE on(place, items, b) == [at |-> place, left |-> items, done |-> t.done,
                                   item |-> Nothing, complete |-> b]
<1>3. PICK asked \in SUBSET Keywords :
          /\ owed'[s] = Nurture \cup asked
          /\ \/ task'[s] = on("keywords", asked, t.complete)
             \/ asked = {} /\ task'[s] = on("after", Nurture \cap {After}, t.complete)
             \/ task'[s] = on("finish", {}, FALSE)
  <2>1. PICK asked \in SUBSET Keywords :
            /\ owed' = [owed EXCEPT ![s] = Nurture \cup asked]
            /\ \/ GoTo(s, "keywords", asked)
               \/ asked = {} /\ GoTo(s, "after", Nurture \cap {After})
               \/ GoOnWithout(s, "finish", {})
    BY DEF ReadKeywords, Outage, Abandon
  <2>2. owed'[s] = Nurture \cup asked
    BY <2>1 DEF TypeOK
  <2> QED BY <2>1, <2>2, AttemptIs
<1> DEFINE w == Nurture \cup asked
<1>4. PICK u : u = task'[s]
  OBVIOUS
<1>5. /\ u.done = t.done /\ u.item = Nothing
      /\ \/ u.at = "keywords" /\ u.left = asked /\ u.complete = t.complete
         \/ /\ asked = {}
            /\ u.at = "after" /\ u.left = Nurture \cap {After} /\ u.complete = t.complete
         \/ u.at = "finish" /\ u.left = {} /\ ~u.complete
  BY <1>3, <1>4
<1>6. /\ AskedAt("keywords", w) = w \ {After} /\ AskedAt("after", w) = w
      /\ AskedAt("read", owed[s]) = Nurture \cap {Before} /\ Nurture \subseteq {Before, After}
  BY AskedPlaces, SlotAssumption
<1> HIDE DEF t, v, m, g, K, on
<1>7. t.item = Nothing /\ t.left = {}
  BY <1>1, <1>2 DEF Good, Delivering
<1>8. /\ u.done = t.done /\ u.item = Nothing
      /\ u.at \in {"keywords", "after", "finish"} /\ (u.at = "finish" => u.left = {})
  BY <1>5
<1>9. u.complete => \A j \in AskedAt(u.at, w) \cap Messages : m[j] > 0 \/ j \in u.left
  <2>1. t.complete => \A j \in (Nurture \cap {Before}) \cap Messages : m[j] > 0
    BY <1>1, <1>2, <1>6, <1>7 DEF Good
  <2>2. ASSUME u.complete, NEW j \in AskedAt(u.at, w) \cap Messages, j \notin u.left
        PROVE  m[j] > 0
    <3>1. t.complete /\ j \in w \ u.left /\ (u.at = "keywords" => j # After)
      BY <1>5, <1>6, <2>2
    <3>2. j \in Nurture \cap {Before}
      BY <1>5, <1>6, <2>2, <3>1
    <3> QED BY <2>1, <3>1, <3>2
  <2> QED BY <2>2
<1> HIDE DEF w
<1>10. Good(s, u, v, m, w, g, fired, K, losses)
  BY <1>1, <1>2, <1>7, <1>8, <1>9 DEF Good, Delivering
<1> QED BY <1>1, <1>3, <1>4, <1>10 DEF SlotGoodNext, w

LEMMA QueueSourcesGood ==
    ASSUME TypeOK, NEW s \in Slots, SlotGood(s), QueueSources(s)
    PROVE  SlotGoodNext(s)
<1> DEFINE t == task[s]  v == saved[s]  m == sends[s]  g == granted[s]
           K == fired \cup memFired  p == sends'[s]  w == owed'[s]
           was == [at |-> t.at, left |-> t.left, done |-> t.done, item |-> SourcePages,
                   complete |-> t.complete]
           on(b) == [at |-> "after", left |-> Nurture \cap {After}, done |-> t.done,
                     item |-> Nothing, complete |-> b]
<1>1. /\ t.at = "sources" /\ t.item = Nothing
      /\ saved'[s] = v /\ granted'[s] = g
      /\ fired' = fired /\ fired' \cup memFired' = K /\ losses' = losses
  BY LossesCount DEF QueueSources, redisVars
<1>2. /\ losses \in Nat /\ \A j \in Messages \cup Pages : m[j] \in Nat
      /\ Nothing \notin Messages /\ g \subseteq Messages \cup Pages
      /\ SourcePages \notin Messages /\ Messages \cap Pages = {}
      /\ After \in Messages => After \in Nurture \cap {After}
  BY SlotParts, ItemsApart DEF Items
<1>3. Good(s, t, v, m, owed[s], g, fired, K, losses)
  BY DEF SlotGood
<1>4. /\ task'[s] = was \/ task'[s] = on(t.complete) \/ task'[s] = on(FALSE)
      /\ \/ UNCHANGED <<sends, owed>>
         \/ \E due \in SUBSET PagesOf(s) : \E accepted \in SUBSET due :
                Sent(s, accepted) /\ owed' = [owed EXCEPT ![s] = @ \cup due]
  BY AttemptIs DEF QueueSources
<1>5. /\ \A j \in Messages : p[j] = m[j]
      /\ w \cap Messages = owed[s] \cap Messages
  <2>1. CASE UNCHANGED <<sends, owed>>
    BY <2>1
  <2>2. CASE \E due \in SUBSET PagesOf(s) : \E accepted \in SUBSET due :
                Sent(s, accepted) /\ owed' = [owed EXCEPT ![s] = @ \cup due]
    <3>1. PICK due \in SUBSET PagesOf(s), accepted \in SUBSET PagesOf(s) :
              Sent(s, accepted) /\ owed' = [owed EXCEPT ![s] = owed[s] \cup due]
      BY <2>2
    <3>2. due \subseteq Pages /\ accepted \subseteq Pages
      BY DEF PagesOf
    <3>3. w = owed[s] \cup due
      BY <3>1 DEF TypeOK
    <3>4. \A j \in Messages : p[j] = m[j]
      BY <1>2, <3>1, <3>2, SentIs
    <3> QED BY <1>2, <3>2, <3>3, <3>4
  <2> QED BY <1>4, <2>1, <2>2
<1>6. \A j \in g \ Pages : j \in Messages
  BY <1>2
<1>7. PICK u : u = task'[s]
  OBVIOUS
<1>8. /\ u.done = t.done /\ (u.complete => t.complete)
      /\ \/ u.at = t.at /\ u.left = t.left /\ u.item = SourcePages
         \/ u.at = "after" /\ u.left = Nurture \cap {After} /\ u.item = Nothing
  BY <1>4, <1>7
<1>9. /\ AskedAt("sources", w) = w \ {After} /\ AskedAt("after", w) = w
      /\ AskedAt("sources", owed[s]) = owed[s] \ {After}
  BY AskedPlaces
<1> HIDE DEF t, v, m, g, K, p, w, was, on
<1>10. t.left = {} /\ (u.at = "after" \/ (u.at = "sources" /\ u.left = {}))
  <2>1. t.at \notin Delivering
    BY <1>1 DEF Delivering
  <2>2. t.left = {}
    BY <1>3, <2>1 DEF Good
  <2> QED BY <1>1, <1>8, <2>2
<1>11. u.item \in {SourcePages, Nothing} /\ (u.item = Nothing \/ u.at = "sources")
  BY <1>1, <1>8
<1>12. \A j \in Messages : j \in v \cup u.done \cup {u.item} => p[j] > 0
  BY <1>1, <1>2, <1>3, <1>5, <1>8, <1>11 DEF Good
<1>13. ASSUME u.complete, NEW j \in AskedAt(u.at, w) \cap Messages, j \notin u.left
       PROVE  p[j] > 0
  <2>1. t.complete /\ j \in owed[s] /\ j # After
    BY <1>1, <1>2, <1>5, <1>8, <1>9, <1>13
  <2>2. m[j] > 0
    BY <1>1, <1>3, <1>9, <1>10, <2>1 DEF Good
  <2> QED BY <1>5, <2>2
<1>14. \A j \in Messages :
          /\ j \notin v /\ s \notin fired => m[j] <= losses
          /\ j \notin t.done => m[j] <= losses
          /\ m[j] <= 1 + losses
  BY <1>1, <1>2, <1>3 DEF Good
<1>15. \A j \in Messages \ {u.item} :
          /\ (j \notin v /\ (s \notin fired \/ u.at = "load")) => p[j] <= losses
          /\ (j \notin u.done /\ u.at \notin {"none", "load"}) => p[j] <= losses
  BY <1>5, <1>8, <1>10, <1>14
<1>16. s \in K => \A j \in g \ Pages : p[j] > 0
  BY <1>3, <1>5, <1>6 DEF Good
<1>17. Good(s, u, v, p, w, g, fired, K, losses)
  BY <1>5, <1>10, <1>11, <1>12, <1>13, <1>14, <1>15, <1>16 DEF Good, Delivering
<1> QED BY <1>1, <1>7, <1>17 DEF SlotGoodNext, p, w

LEMMA FinishGood ==
    ASSUME TypeOK, NEW s \in Slots, SlotGood(s), Finish(s)
    PROVE  SlotGoodNext(s)
<1> DEFINE t == task[s]  v == saved[s]  m == sends[s]  w == owed[s]  g == granted[s]
           K == fired \cup memFired  z == saved'[s]  h == granted'[s]
           L == fired' \cup memFired'
<1>1. /\ t.at = "finish" /\ task'[s] = NoTask /\ sends'[s] = m /\ owed'[s] = w
  BY AttemptIs DEF Finish, Ended
<1>2. /\ losses \in Nat /\ \A j \in Messages : m[j] \in Nat
      /\ Nothing \notin Messages /\ w \subseteq Messages \cup Pages
  BY SlotParts, ItemsApart DEF Items
<1>3. Good(s, t, v, m, w, g, fired, K, losses)
  BY DEF SlotGood
<1>4. \/ /\ t.complete /\ h = w
         /\ \/ z = {} /\ s \in fired' /\ losses' = losses
            \/ z = v /\ losses' = losses + 1
      \/ /\ h = g /\ z = v /\ fired' = fired /\ L = K
         /\ losses' = losses \/ losses' = losses + 1
  BY LossesCount DEF Finish, TypeOK
<1>5. AskedAt("finish", w) = w
  BY AskedPlaces
<1>6. /\ NoTask.at = "none" /\ NoTask.left = {} /\ NoTask.done = {} /\ NoTask.item = Nothing
      /\ ~NoTask.complete
  BY DEF NoTask
<1> HIDE DEF t, v, m, w, g, K, z, h, L
<1>7. t.item = Nothing /\ t.left = {}
  BY <1>1, <1>3 DEF Good, Delivering
<1>8. t.complete => \A j \in w \cap Messages : m[j] > 0
  BY <1>1, <1>3, <1>5, <1>7 DEF Good
<1>9. s \in L => \A j \in h \ Pages : m[j] > 0
  BY <1>2, <1>3, <1>4, <1>8 DEF Good
<1>10. \A j \in Messages : j \in z => m[j] > 0
  BY <1>3, <1>4 DEF Good
<1>11. \A j \in Messages : /\ j \notin v /\ s \notin fired => m[j] <= losses
                           /\ m[j] <= 1 + losses
  BY <1>2, <1>3, <1>7 DEF Good
<1>12. \A j \in Messages : /\ j \notin z /\ s \notin fired' => m[j] <= losses'
                           /\ m[j] <= 1 + losses'
  BY <1>2, <1>4, <1>11
<1>13. Good(s, NoTask, z, m, w, h, fired', L, losses')
  BY <1>2, <1>6, <1>9, <1>10, <1>12 DEF Good
<1> QED BY <1>1, <1>13 DEF SlotGoodNext, z, h, L

LEMMA RestartGood ==
    ASSUME TypeOK, NEW s \in Slots, SlotGood(s), Restart
    PROVE  SlotGoodNext(s)
<1> DEFINE t == task[s]  v == saved[s]  m == sends[s]  w == owed[s]  g == granted[s]
           K == fired \cup memFired
<1>1. /\ task'[s] = NoTask /\ saved'[s] = v /\ sends'[s] = m /\ owed'[s] = w
      /\ granted'[s] = g /\ fired' = fired /\ memFired' = {} /\ losses' = losses + 1
  BY LossesCount DEF Restart, redisVars, historyVars
<1>2. /\ losses \in Nat /\ \A j \in Messages : m[j] \in Nat
      /\ Nothing \notin Messages
  BY SlotParts, ItemsApart DEF Items
<1>3. Good(s, t, v, m, w, g, fired, K, losses)
  BY DEF SlotGood
<1>4. /\ NoTask.at = "none" /\ NoTask.left = {} /\ NoTask.done = {} /\ NoTask.item = Nothing
      /\ ~NoTask.complete
  BY DEF NoTask
<1>5. s \in fired' \cup memFired' => s \in K
  BY <1>1
<1> HIDE DEF t, v, m, w, g, K
<1>6. \A j \in Messages : m[j] <= losses' /\ m[j] <= 1 + losses'
  <2>1. \A j \in Messages : m[j] <= 1 + losses
    BY <1>3 DEF Good
  <2> QED BY <1>1, <1>2, <2>1
<1>7. s \in K => \A j \in g \ Pages : m[j] > 0
  BY <1>3 DEF Good
<1>8. \A j \in Messages : j \in v => m[j] > 0
  BY <1>3 DEF Good
<1>9. Good(s, NoTask, v, m, w, g, fired', fired' \cup memFired', losses')
  BY <1>2, <1>4, <1>5, <1>6, <1>7, <1>8 DEF Good
<1> QED BY <1>1, <1>9 DEF SlotGoodNext

\* What a step of one slot leaves alone in every other.
LEMMA OthersAlone ==
    ASSUME TypeOK, NEW s \in Slots, Claim(s) \/ Step(s), NEW r \in Slots, r # s
    PROVE  /\ task'[r] = task[r] /\ saved'[r] = saved[r] /\ sends'[r] = sends[r]
           /\ owed'[r] = owed[r] /\ granted'[r] = granted[r]
           /\ r \in fired' <=> r \in fired
           /\ r \in memFired' => r \in memFired
           /\ losses' \in Nat /\ losses <= losses'
<1>1. losses \in Nat
  BY SlotParts
<1>2. losses' = losses \/ losses' = losses + 1
  BY LossesCount DEF Step, Claim, Load, Skip, Send, Record, Advance, ReadKeywords,
                     QueueSources, Finish, boundVars
<1>3. task'[r] = task[r]
  <2>1. UNCHANGED task \/ \E t : Become(s, t)
    BY DEF Step, Claim, Begin, Load, Skip, Send, Record, Advance, ReadKeywords,
           QueueSources, Finish, GoTo, GoOnWithout, Accepted, Abandon, Outage
  <2> QED BY <2>1 DEF Become, TypeOK
<1>4. saved'[r] = saved[r]
  BY DEF TypeOK, Step, Claim, Load, Skip, Send, Record, Advance, ReadKeywords, QueueSources,
         Finish, redisVars
<1>5. sends'[r] = sends[r]
  <2>1. UNCHANGED sends \/ \E items : Sent(s, items)
    BY DEF Step, Claim, Load, Skip, Send, Record, Advance, ReadKeywords, QueueSources,
           Finish, historyVars
  <2> QED BY <2>1 DEF Sent, TypeOK
<1>6. owed'[r] = owed[r]
  BY DEF TypeOK, Step, Claim, Load, Skip, Send, Record, Advance, ReadKeywords, QueueSources,
         Finish, historyVars
<1>7. granted'[r] = granted[r]
  BY DEF TypeOK, Step, Claim, Load, Skip, Send, Record, Advance, ReadKeywords, QueueSources,
         Finish, historyVars
<1>8. /\ r \in fired' <=> r \in fired
      /\ r \in memFired' => r \in memFired
  BY DEF Step, Claim, Load, Skip, Send, Record, Advance, ReadKeywords, QueueSources,
         Finish, redisVars
<1> QED BY <1>1, <1>2, <1>3, <1>4, <1>5, <1>6, <1>7, <1>8

LEMMA NextIInv == IInv /\ [Next]_vars => IInv'
<1> SUFFICES ASSUME IInv, [Next]_vars PROVE IInv'
  OBVIOUS
<1>1. TypeOK /\ TypeOK' /\ \A s \in Slots : SlotGood(s)
  BY SlotBySlot, NextTyped
<1>2. losses \in Nat /\ losses <= losses
  BY <1>1, SlotParts, SlotAssumption DEF TypeOK
<1> SUFFICES ASSUME NEW r \in Slots PROVE SlotGoodNext(r)
  BY <1>1, SlotBySlotNext
<1>3. ASSUME NEW s \in Slots, Claim(s) \/ Step(s) PROVE SlotGoodNext(r)
  <2>1. CASE r = s
    BY <1>1, <1>3, <2>1, ClaimGood, LoadGood, SkipGood, SendGood, RecordGood, AdvanceGood,
       ReadKeywordsGood, QueueSourcesGood, FinishGood DEF Step
  <2>2. CASE r # s
    BY <1>1, <1>3, <2>2, OthersAlone, Elsewhere
  <2> QED BY <2>1, <2>2
<1>4. CASE UNCHANGED <<redisVars, memoryVars, historyVars, boundVars>>
  BY <1>1, <1>2, <1>4, Elsewhere DEF redisVars, memoryVars, historyVars, boundVars
<1>5. CASE UNCHANGED <<fired, saved, memoryVars, historyVars, boundVars>>
  BY <1>1, <1>2, <1>5, Elsewhere DEF memoryVars, historyVars, boundVars
<1>6. CASE Restart
  BY <1>1, <1>6, RestartGood
<1>7. CASE UNCHANGED vars
  BY <1>4, <1>7 DEF vars
<1> QED BY <1>3, <1>4, <1>5, <1>6, <1>7 DEF Next, Open, Close, LeaseRunsOut

------------------------------------------------------------------------------
(* The theorems.                                                           *)

\* The invariant of the attempts, which the properties below are part of.
THEOREM SlotInvariance == Spec => []IInv
<1>1. Init => IInv
  BY InitIInv
<1>2. IInv /\ [Next]_vars => IInv'
  BY NextIInv
<1> QED BY <1>1, <1>2, PTL DEF Spec

(* A slot whose flag is in Redis, or in the memory of the process, has its *)
(* keywords and its nurture requests with Kafka: through kills, D1 outages *)
(* and attempts that add up (_finish_crawl_slot sets the flag last).       *)
THEOREM FiredIsDelivered == Spec => []FiredMeansDelivered
<1>1. IInv => FiredMeansDelivered
  BY DEF IInv
<1> QED BY <1>1, SlotInvariance, PTL

(* A message of a slot goes to Kafka once, and once more for each kill,    *)
(* Redis failure or lost answer at most (_deliver_once, _SlotProgress).    *)
THEOREM OnceInASlot == Spec => []OnceAndOncePerLoss
<1>1. IInv => OnceAndOncePerLoss
  BY DEF IInv
<1> QED BY <1>1, SlotInvariance, PTL
=============================================================================
