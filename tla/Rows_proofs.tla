---------------------------- MODULE Rows_proofs ----------------------------
(***************************************************************************)
(* Proofs about the rows of D1: what a purge deletes and what the          *)
(* statistics count (PostPurge), and what a post keeps from one crawl to   *)
(* the next (PostRow); for any number of processes, posts, comments and    *)
(* kills.                                                                  *)
(***************************************************************************)
EXTENDS PostPurge, PostRow, FiniteSetTheorems, TLAPS

-----------------------------------------------------------------------------
(* The purge and the statistics (PostPurge).                               *)

PurgeStates ==
    [at : {"idle", "select", "batch", "backup", "delete", "posts", "subtract", "release"},
     ids : SUBSET Posts, batch : SUBSET Posts, copy : SUBSET (Posts \cup Comments), owns : BOOLEAN]

\* The posts that are stored are finitely many, so that they can be counted.
LEMMA PostsCounted ==
    ASSUME NEW R PROVE IsFiniteSet(R \cap Posts) /\ Cardinality(R \cap Posts) \in Nat
BY PurgeAssumption, FS_Subset, FS_CardinalityType

LEMMA PurgeInitTyped == PurgeInit => PurgeTypeOK
<1> SUFFICES ASSUME PurgeInit PROVE PurgeTypeOK
  OBVIOUS
<1>1. Cardinality(rows) \in Nat
  BY PurgeAssumption, FS_Subset, FS_CardinalityType DEF PurgeInit
<1>2. Resting \in PurgeStates
  BY DEF Resting, PurgeStates
<1> QED BY <1>1, <1>2 DEF PurgeInit, PurgeTypeOK, PurgeStates

\* A process goes on in a state of the right type.
LEMMA GoesOnTyped ==
    ASSUME PurgeTypeOK, NEW w \in Purgers, NEW s \in PurgeStates, PurgeGoesOn(w, s)
    PROVE  purge' \in [Purgers -> PurgeStates] /\ purge'[w] = s /\ \A v \in Purgers \ {w} : purge'[v] = purge[v]
BY DEF PurgeTypeOK, PurgeGoesOn, PurgeStates

LEMMA PurgeStepTyped ==
    ASSUME PurgeTypeOK, NEW w \in Purgers,
           \/ AcquirePurge(w) \/ SelectCandidates(w) \/ NextBatch(w) \/ BackUp(w)
           \/ DeleteChildren(w) \/ DeletePosts(w) \/ SubtractDeleted(w)
           \/ ReadToken(w) \/ ReleasePurge(w) \/ PurgeBreaks(w)
    PROVE  PurgeTypeOK'
<1> USE DEF purgeData, purgeHistory
<1>0. /\ purge[w] \in PurgeStates /\ Resting \in PurgeStates /\ purge \in [Purgers -> PurgeStates]
      /\ Children(purge[w].batch) \subseteq Comments
  BY DEF PurgeTypeOK, PurgeStates, Resting, Children
<1>1. CASE AcquirePurge(w)
  <2>1. [Resting EXCEPT !.at = "select"] \in PurgeStates
    BY DEF Resting, PurgeStates
  <2> QED BY <1>1, <2>1, GoesOnTyped DEF AcquirePurge, PurgeTypeOK, PurgeStates
<1>2. CASE SelectCandidates(w)
  <2>1. PICK named \in SUBSET Posts :
           /\ label' = [p \in Posts |-> IF p \in named THEN "uncertain" ELSE label[p]]
           /\ PurgeGoesOn(w, [purge[w] EXCEPT !.at = "batch", !.ids = Eligible \ named])
    BY <1>2 DEF SelectCandidates, Eligible
  <2>2. [purge[w] EXCEPT !.at = "batch", !.ids = Eligible \ named] \in PurgeStates
    BY <1>0 DEF PurgeStates, Eligible
  <2>3. label' \in [Posts -> {"not_related", "uncertain", "related"}]
    BY <2>1 DEF PurgeTypeOK
  <2>4. purge' \in [Purgers -> PurgeStates]
    BY <2>1, <2>2, GoesOnTyped
  <2> QED BY <1>2, <2>3, <2>4 DEF SelectCandidates, PurgeTypeOK, PurgeStates
<1>3. CASE NextBatch(w)
  <2>1. PICK p \in purge[w].ids :
           PurgeGoesOn(w, [purge[w] EXCEPT !.at = AfterChoice, !.ids = @ \ {p}, !.batch = {p}, !.copy = {}])
    BY <1>3 DEF NextBatch
  <2>2. [purge[w] EXCEPT !.at = AfterChoice, !.ids = @ \ {p}, !.batch = {p}, !.copy = {}] \in PurgeStates
    BY <1>0 DEF PurgeStates, AfterChoice
  <2> QED BY <1>3, <2>1, <2>2, GoesOnTyped DEF NextBatch, PurgeTypeOK, PurgeStates
<1>4. CASE BackUp(w)
  <2> DEFINE copy == rows \cap (purge[w].batch \cup Children(purge[w].batch))
  <2>1. copy \subseteq Posts \cup Comments
    BY DEF PurgeTypeOK
  <2>2. lake' = lake \cup copy /\ PurgeGoesOn(w, [purge[w] EXCEPT !.at = "delete", !.copy = copy])
    BY <1>4 DEF BackUp
  <2> HIDE DEF copy
  <2>3. [purge[w] EXCEPT !.at = "delete", !.copy = copy] \in PurgeStates
    BY <1>0, <2>1 DEF PurgeStates
  <2> QED BY <1>4, <2>1, <2>2, <2>3, GoesOnTyped DEF BackUp, PurgeTypeOK, PurgeStates
<1>5. CASE DeleteChildren(w)
  <2>1. [purge[w] EXCEPT !.at = "posts"] \in PurgeStates
    BY <1>0 DEF PurgeStates
  <2> QED BY <1>0, <1>5, <2>1, GoesOnTyped DEF DeleteChildren, PurgeTypeOK, PurgeStates
<1>6. CASE DeletePosts(w)
  <2>1. [purge[w] EXCEPT !.at = "subtract"] \in PurgeStates
    BY <1>0 DEF PurgeStates
  <2> QED BY <1>0, <1>6, <2>1, GoesOnTyped DEF DeletePosts, PurgeTypeOK, PurgeStates
<1>7. CASE SubtractDeleted(w)
  <2>1. [purge[w] EXCEPT !.at = "batch", !.batch = {}, !.copy = {}] \in PurgeStates
    BY <1>0 DEF PurgeStates
  <2>2. purge' \in [Purgers -> PurgeStates]
    BY <1>7, <2>1, GoesOnTyped DEF SubtractDeleted
  <2>3. Cardinality(purge[w].copy \cap Posts) \in Nat
    BY PostsCounted
  <2>4. TakeOff(w) \in Nat
    BY <2>3 DEF TakeOff, PurgeTypeOK
  <2>5. CASE counted' = TakeOff(w) /\ UNCHANGED <<cutShort, accidents>>
    BY <1>7, <2>2, <2>4, <2>5 DEF SubtractDeleted, PurgeTypeOK, PurgeStates
  <2>6. CASE accidents' = accidents + 1 /\ cutShort' = TRUE /\ UNCHANGED counted
    BY <1>7, <2>2, <2>6 DEF SubtractDeleted, PurgeTypeOK, PurgeStates
  <2> QED BY <1>7, <2>5, <2>6 DEF SubtractDeleted
<1>8. CASE ReadToken(w)
  <2>1. [Resting EXCEPT !.at = "release", !.owns = (lock = w)] \in PurgeStates
    BY DEF Resting, PurgeStates
  <2> QED BY <1>8, <2>1, GoesOnTyped DEF ReadToken, PurgeTypeOK, PurgeStates
<1>9. CASE ReleasePurge(w)
  BY <1>0, <1>9, GoesOnTyped DEF ReleasePurge, PurgeTypeOK, PurgeStates
<1>10. CASE PurgeBreaks(w)
  <2>1. purge' \in [Purgers -> PurgeStates]
    BY <1>0, <1>10, GoesOnTyped DEF PurgeBreaks
  <2> QED BY <1>10, <2>1 DEF PurgeBreaks, PurgeTypeOK, PurgeStates
<1> QED BY <1>1, <1>2, <1>3, <1>4, <1>5, <1>6, <1>7, <1>8, <1>9, <1>10

LEMMA OthersTyped ==
    ASSUME PurgeTypeOK,
           \/ PurgeLockRunsOut \/ Reconcile \/ UNCHANGED purgeVars
           \/ \E c \in Comments : StoreComment(c)
           \/ \E p \in Posts : StorePost(p) \/ RelabelPost(p)
    PROVE  PurgeTypeOK'
<1> USE DEF PurgeTypeOK, purgeData, purgeHistory
<1>1. CASE PurgeLockRunsOut
  BY <1>1 DEF PurgeLockRunsOut, Purging
<1>2. CASE Reconcile
  <2>1. counted' \in Nat
    BY <1>2, PostsCounted DEF Reconcile, Stored
  <2>2. overlapped' \in BOOLEAN
    BY <1>2 DEF Reconcile
  <2> QED BY <1>2, <2>1, <2>2 DEF Reconcile
<1>3. CASE UNCHANGED purgeVars
  BY <1>3 DEF purgeVars
<1>4. ASSUME NEW c \in Comments, StoreComment(c) PROVE PurgeTypeOK'
  BY <1>4 DEF StoreComment
<1>5. ASSUME NEW p \in Posts, RelabelPost(p) PROVE PurgeTypeOK'
  BY <1>5 DEF RelabelPost
<1>6. ASSUME NEW p \in Posts, StorePost(p) PROVE PurgeTypeOK'
  BY <1>6 DEF StorePost
<1> QED BY <1>1, <1>2, <1>3, <1>4, <1>5, <1>6

\* The variables of a purge have their types, for any number of processes, posts and comments.
THEOREM PurgeTypes == PurgeSpec => []PurgeTypeOK
<1>1. PurgeTypeOK /\ [PurgeNext]_purgeVars => PurgeTypeOK'
  BY PurgeStepTyped, OthersTyped DEF PurgeNext
<1> QED BY <1>1, PurgeInitTyped, PTL DEF PurgeSpec

------------------------------------------------------------------------------
(* What a purge has chosen was stored, so that a post that is stored now   *)
(* is not of a batch.                                                      *)

ChosenWas(w) == purge[w].ids \cup purge[w].batch \subseteq rows \cup removed
ChosenInv    == \A w \in Purgers : ChosenWas(w)

LEMMA ChosenGoesOn ==
    ASSUME PurgeTypeOK, ChosenInv, NEW w \in Purgers, NEW s, PurgeGoesOn(w, s),
           rows \cup removed \subseteq rows' \cup removed', s.ids \cup s.batch \subseteq rows \cup removed
    PROVE  ChosenInv'
<1>1. purge'[w] = s /\ \A v \in Purgers \ {w} : purge'[v] = purge[v]
  BY DEF PurgeGoesOn, PurgeTypeOK
<1> QED BY <1>1 DEF ChosenInv, ChosenWas

LEMMA ChosenStep ==
    ASSUME PurgeTypeOK, ChosenInv, NEW w \in Purgers,
           \/ AcquirePurge(w) \/ SelectCandidates(w) \/ NextBatch(w) \/ BackUp(w)
           \/ DeleteChildren(w) \/ DeletePosts(w) \/ SubtractDeleted(w)
           \/ ReadToken(w) \/ ReleasePurge(w) \/ PurgeBreaks(w)
    PROVE  ChosenInv'
<1> USE DEF purgeData, purgeHistory
<1>0. purge[w] \in PurgeStates /\ ChosenWas(w)
  BY DEF PurgeTypeOK, PurgeStates, ChosenInv
<1>1. CASE AcquirePurge(w) \/ ReadToken(w) \/ ReleasePurge(w) \/ PurgeBreaks(w)
  <2>1. PICK s : PurgeGoesOn(w, s) /\ s.ids = {} /\ s.batch = {} /\ UNCHANGED <<rows, removed>>
    BY <1>1 DEF AcquirePurge, ReadToken, ReleasePurge, PurgeBreaks, Resting
  <2> QED BY <2>1, ChosenGoesOn
<1>2. CASE SelectCandidates(w)
  <2> DEFINE X == Eligible \ (Eligible \cap NamesCast)
             s == [purge[w] EXCEPT !.at = "batch", !.ids = X]
  <2>1. PurgeGoesOn(w, s) /\ UNCHANGED <<rows, removed>> /\ X \subseteq rows
    BY <1>2 DEF SelectCandidates, Eligible
  <2> HIDE DEF X
  <2>2. s.ids = X /\ s.batch = purge[w].batch
    BY <1>0 DEF PurgeStates
  <2> HIDE DEF s
  <2> QED BY <1>0, <2>1, <2>2, ChosenGoesOn DEF ChosenWas
<1>3. CASE NextBatch(w)
  <2>1. PICK p \in purge[w].ids :
           PurgeGoesOn(w, [purge[w] EXCEPT !.at = AfterChoice, !.ids = @ \ {p}, !.batch = {p}, !.copy = {}])
    BY <1>3 DEF NextBatch
  <2> DEFINE s == [purge[w] EXCEPT !.at = AfterChoice, !.ids = purge[w].ids \ {p}, !.batch = {p}, !.copy = {}]
  <2>2. s.ids \subseteq purge[w].ids /\ s.batch \subseteq purge[w].ids
    BY <1>0 DEF PurgeStates
  <2>3. PurgeGoesOn(w, s) /\ UNCHANGED <<rows, removed>>
    BY <1>0, <1>3, <2>1 DEF NextBatch, PurgeStates
  <2> HIDE DEF s
  <2> QED BY <1>0, <2>2, <2>3, ChosenGoesOn DEF ChosenWas
<1>4. CASE BackUp(w) \/ DeleteChildren(w) \/ DeletePosts(w) \/ SubtractDeleted(w)
  <2>1. PICK s : /\ PurgeGoesOn(w, s) /\ rows \cup removed \subseteq rows' \cup removed'
                 /\ s.ids = purge[w].ids /\ s.batch \subseteq purge[w].batch
    <3>1. CASE BackUp(w)
      <4> DEFINE s(C) == [purge[w] EXCEPT !.at = "delete", !.copy = C]
      <4>1. \A C : s(C).ids = purge[w].ids /\ s(C).batch = purge[w].batch
        BY <1>0 DEF PurgeStates
      <4>2. (\E C : PurgeGoesOn(w, s(C))) /\ UNCHANGED <<rows, removed>>
        BY <3>1 DEF BackUp
      <4> HIDE DEF s
      <4> QED BY <4>1, <4>2
    <3>2. CASE DeleteChildren(w)
      BY <1>0, <3>2 DEF DeleteChildren, PurgeStates
    <3>3. CASE DeletePosts(w)
      BY <1>0, <3>3 DEF DeletePosts, PurgeStates
    <3>4. CASE SubtractDeleted(w)
      <4> DEFINE s == [purge[w] EXCEPT !.at = "batch", !.batch = {}, !.copy = {}]
      <4>1. s.ids = purge[w].ids /\ s.batch = {}
        BY <1>0 DEF PurgeStates
      <4>2. PurgeGoesOn(w, s) /\ UNCHANGED <<rows, removed>>
        BY <3>4 DEF SubtractDeleted
      <4> HIDE DEF s
      <4> QED BY <4>1, <4>2
    <3> QED BY <1>4, <3>1, <3>2, <3>3, <3>4
  <2> QED BY <1>0, <2>1, ChosenGoesOn DEF ChosenWas
<1> QED BY <1>1, <1>2, <1>3, <1>4

LEMMA ChosenNext == PurgeTypeOK /\ ChosenInv /\ [PurgeNext]_purgeVars => ChosenInv'
<1> SUFFICES ASSUME PurgeTypeOK, ChosenInv, [PurgeNext]_purgeVars PROVE ChosenInv'
  OBVIOUS
<1>1. ASSUME UNCHANGED <<purge, removed>>, rows \subseteq rows' PROVE ChosenInv'
  BY <1>1 DEF ChosenInv, ChosenWas
<1>2. ASSUME \/ PurgeLockRunsOut \/ Reconcile \/ UNCHANGED purgeVars
             \/ \E c \in Comments : StoreComment(c)
             \/ \E p \in Posts : StorePost(p) \/ RelabelPost(p)
      PROVE  ChosenInv'
  BY <1>1, <1>2 DEF PurgeLockRunsOut, Reconcile, StoreComment, StorePost, RelabelPost, purgeVars, purgeData, purgeHistory
<1> QED BY <1>2, ChosenStep DEF PurgeNext

------------------------------------------------------------------------------
(* What is deleted is in the lake.  A process is about to delete only what *)
(* it has copied, or what came under a copied post after the copy.         *)

\* What process w may delete has been copied, or came later.
Copied(w) ==
    /\ purge[w].copy \subseteq lake
    /\ purge[w].at \in {"delete", "posts"} =>
        /\ rows \cap purge[w].batch \subseteq purge[w].copy
        /\ rows \cap (purge[w].batch \cup Children(purge[w].batch)) \subseteq lake \cup late

BackupInv ==
    /\ PurgeTypeOK
    /\ \A w \in Purgers : Copied(w)
    /\ DeletedIsBackedUp

\* In a state without a batch there is nothing that w may delete.
LEMMA NothingToDelete ==
    ASSUME NEW w \in Purgers, purge'[w].at \notin {"delete", "posts"}, purge'[w].copy \subseteq lake'
    PROVE  Copied(w)'
BY DEF Copied

\* A step after which there are no more rows, and no less in the lake, leaves the others as safe.
LEMMA OthersCopied ==
    ASSUME BackupInv, NEW v \in Purgers, purge'[v] = purge[v],
           rows' \subseteq rows, lake \subseteq lake', late \subseteq late'
    PROVE  Copied(v)'
<1>1. Copied(v)
  BY DEF BackupInv
<1> QED BY <1>1 DEF Copied, Children

LEMMA BackupInit == PurgeInit => BackupInv /\ ChosenInv
<1> SUFFICES ASSUME PurgeInit PROVE BackupInv /\ ChosenInv
  OBVIOUS
<1>1. \A w \in Purgers : Copied(w)
  BY DEF PurgeInit, Copied, Resting
<1>2. ChosenInv
  BY DEF PurgeInit, ChosenInv, ChosenWas, Resting
<1> QED BY <1>1, <1>2, PurgeInitTyped DEF BackupInv, PurgeInit, DeletedIsBackedUp

LEMMA BackupStep ==
    ASSUME BackupInv, NEW w \in Purgers, PurgeTypeOK',
           \/ AcquirePurge(w) \/ SelectCandidates(w) \/ NextBatch(w) \/ BackUp(w)
           \/ DeleteChildren(w) \/ DeletePosts(w) \/ SubtractDeleted(w)
           \/ ReadToken(w) \/ ReleasePurge(w) \/ PurgeBreaks(w)
    PROVE  BackupInv'
<1> USE DEF purgeData, purgeHistory
<1>0. /\ purge[w] \in PurgeStates /\ Resting \in PurgeStates /\ Copied(w)
      /\ purge \in [Purgers -> PurgeStates] /\ PurgeTypeOK
  BY DEF BackupInv, PurgeTypeOK, PurgeStates, Resting
<1>1. ASSUME NEW s, PurgeGoesOn(w, s) PROVE purge'[w] = s /\ \A v \in Purgers \ {w} : purge'[v] = purge[v]
  BY <1>0, <1>1 DEF PurgeGoesOn
<1>2. ASSUME UNCHANGED <<rows, lake, removed, late>>, NEW s, PurgeGoesOn(w, s),
             s.at \notin {"delete", "posts"}, s.copy \subseteq lake
      PROVE BackupInv'
  <2>1. \A v \in Purgers \ {w} : Copied(v)'
    BY <1>1, <1>2, OthersCopied
  <2>2. Copied(w)'
    BY <1>1, <1>2, NothingToDelete
  <2> QED BY <1>2, <2>1, <2>2 DEF BackupInv, DeletedIsBackedUp
<1>3. CASE AcquirePurge(w)
  <2>1. [Resting EXCEPT !.at = "select"].at = "select" /\ [Resting EXCEPT !.at = "select"].copy = {}
    BY DEF Resting
  <2> QED BY <1>2, <1>3, <2>1 DEF AcquirePurge
<1>4. CASE SelectCandidates(w)
  <2> DEFINE s(X) == [purge[w] EXCEPT !.at = "batch", !.ids = X]
  <2>1. \A X : s(X).at = "batch" /\ s(X).copy \subseteq lake
    BY <1>0 DEF PurgeStates, Copied
  <2>2. PurgeGoesOn(w, s(Eligible \ (Eligible \cap NamesCast)))
    BY <1>4 DEF SelectCandidates
  <2> HIDE DEF s
  <2> QED BY <1>2, <1>4, <2>1, <2>2 DEF SelectCandidates
<1>5. CASE NextBatch(w)
  <2>1. PICK p \in purge[w].ids :
           PurgeGoesOn(w, [purge[w] EXCEPT !.at = AfterChoice, !.ids = @ \ {p}, !.batch = {p}, !.copy = {}])
    BY <1>5 DEF NextBatch
  <2> DEFINE s == [purge[w] EXCEPT !.at = AfterChoice, !.ids = @ \ {p}, !.batch = {p}, !.copy = {}]
  <2>2. s.at = "backup" /\ s.copy = {}
    BY <1>0 DEF PurgeStates, AfterChoice
  <2> HIDE DEF s
  <2> QED BY <1>2, <1>5, <2>1, <2>2 DEF NextBatch, s
<1>6. CASE BackUp(w)
  <2> DEFINE copy == rows \cap (purge[w].batch \cup Children(purge[w].batch))
             s    == [purge[w] EXCEPT !.at = "delete", !.copy = copy]
  <2>1. lake' = lake \cup copy /\ PurgeGoesOn(w, s) /\ UNCHANGED <<rows, removed, late>>
    BY <1>6 DEF BackUp
  <2>2. s.copy = copy /\ s.batch = purge[w].batch
    BY <1>0 DEF PurgeStates
  <2>3. purge'[w] = s /\ \A v \in Purgers \ {w} : purge'[v] = purge[v]
    BY <1>1, <2>1
  <2> HIDE DEF s
  <2>4. \A v \in Purgers \ {w} : Copied(v)'
    BY <2>1, <2>3, OthersCopied
  <2>5. Copied(w)'
    BY <2>1, <2>2, <2>3 DEF Copied, Children
  <2> QED BY <2>1, <2>4, <2>5 DEF BackupInv, DeletedIsBackedUp
<1>7. CASE DeleteChildren(w)
  <2> DEFINE s == [purge[w] EXCEPT !.at = "posts"]
  <2>1. s.copy = purge[w].copy /\ s.batch = purge[w].batch
    BY <1>0 DEF PurgeStates
  <2>2. purge'[w] = s /\ \A v \in Purgers \ {w} : purge'[v] = purge[v]
    BY <1>1, <1>7 DEF DeleteChildren
  <2> HIDE DEF s
  <2>3. \A v \in Purgers \ {w} : Copied(v)'
    BY <1>7, <2>2, OthersCopied DEF DeleteChildren
  <2>4. Copied(w)'
    BY <1>0, <1>7, <2>1, <2>2 DEF DeleteChildren, Copied, Children
  <2>5. DeletedIsBackedUp'
    BY <1>0, <1>7 DEF DeleteChildren, Copied, BackupInv, DeletedIsBackedUp
  <2> QED BY <2>3, <2>4, <2>5 DEF BackupInv
<1>8. CASE DeletePosts(w)
  <2> DEFINE s == [purge[w] EXCEPT !.at = "subtract"]
  <2>1. s.copy = purge[w].copy /\ s.at = "subtract"
    BY <1>0 DEF PurgeStates
  <2>2. purge'[w] = s /\ \A v \in Purgers \ {w} : purge'[v] = purge[v]
    BY <1>1, <1>8 DEF DeletePosts
  <2> HIDE DEF s
  <2>3. \A v \in Purgers \ {w} : Copied(v)'
    BY <1>8, <2>2, OthersCopied DEF DeletePosts
  <2>4. Copied(w)'
    BY <1>0, <1>8, <2>1, <2>2 DEF DeletePosts, Copied
  <2>5. DeletedIsBackedUp'
    BY <1>0, <1>8 DEF DeletePosts, Copied, BackupInv, DeletedIsBackedUp
  <2> QED BY <2>3, <2>4, <2>5 DEF BackupInv
<1>9. CASE SubtractDeleted(w)
  <2> DEFINE s == [purge[w] EXCEPT !.at = "batch", !.batch = {}, !.copy = {}]
  <2>1. s.copy = {} /\ s.at = "batch"
    BY <1>0 DEF PurgeStates
  <2>2. PurgeGoesOn(w, s)
    BY <1>9 DEF SubtractDeleted
  <2> HIDE DEF s
  <2> QED BY <1>2, <1>9, <2>1, <2>2 DEF SubtractDeleted
<1>10. CASE ReadToken(w)
  <2> DEFINE s == [Resting EXCEPT !.at = "release", !.owns = (lock = w)]
  <2>1. s.copy = {} /\ s.at = "release"
    BY DEF Resting
  <2>2. PurgeGoesOn(w, s)
    BY <1>10 DEF ReadToken
  <2> HIDE DEF s
  <2> QED BY <1>2, <1>10, <2>1, <2>2 DEF ReadToken
<1>11. CASE ReleasePurge(w) \/ PurgeBreaks(w)
  <2>1. Resting.copy = {} /\ Resting.at = "idle"
    BY DEF Resting
  <2> QED BY <1>2, <1>11, <2>1 DEF ReleasePurge, PurgeBreaks
<1> QED BY <1>3, <1>4, <1>5, <1>6, <1>7, <1>8, <1>9, <1>10, <1>11

\* A comment comes under a post that is stored; if the post has been copied, the comment is late.
LEMMA StoreCopied == ASSUME BackupInv, PurgeTypeOK', NEW c \in Comments, StoreComment(c) PROVE BackupInv'
<1>1. c \notin Posts
  BY PurgeAssumption
<1>2. ASSUME NEW w \in Purgers PROVE Copied(w)'
  <2>1. Copied(w) /\ purge'[w] = purge[w] /\ rows' = rows \cup {c} /\ UNCHANGED lake /\ late \subseteq late'
    BY DEF StoreComment, BackupInv
  <2>2. purge[w].batch \subseteq Posts
    BY DEF BackupInv, PurgeTypeOK
  <2>3. ASSUME purge[w].at \in {"delete", "posts"}, c \in Children(purge[w].batch) PROVE c \in late'
    BY <2>1, <2>3 DEF StoreComment, Copied, Children
  <2> QED BY <1>1, <2>1, <2>2, <2>3 DEF Copied, Children
<1> QED BY <1>2 DEF BackupInv, StoreComment, DeletedIsBackedUp

\* A post that is stored now is not of a batch.
LEMMA StorePostCopied ==
    ASSUME BackupInv, ChosenInv, PurgeTypeOK', NEW p \in Posts, StorePost(p)
    PROVE  BackupInv'
<1>1. ASSUME NEW w \in Purgers PROVE Copied(w)'
  <2>1. /\ Copied(w) /\ purge'[w] = purge[w] /\ rows' = rows \cup {p} /\ UNCHANGED <<lake, late>>
        /\ p \notin purge[w].batch
    BY DEF StorePost, BackupInv, ChosenInv, ChosenWas
  <2>2. p \notin Children(purge[w].batch)
    BY PurgeAssumption DEF Children
  <2> QED BY <2>1, <2>2 DEF Copied, Children
<1> QED BY <1>1 DEF BackupInv, StorePost, DeletedIsBackedUp

LEMMA BackupNext == BackupInv /\ ChosenInv /\ [PurgeNext]_purgeVars => BackupInv' /\ ChosenInv'
<1> SUFFICES ASSUME BackupInv, ChosenInv, [PurgeNext]_purgeVars PROVE BackupInv' /\ ChosenInv'
  OBVIOUS
<1>1. PurgeTypeOK'
  BY PurgeStepTyped, OthersTyped DEF PurgeNext, BackupInv
<1>2. ASSUME UNCHANGED <<rows, lake, removed, late, purge>> PROVE BackupInv'
  <2>1. \A v \in Purgers : Copied(v)'
    BY <1>2, OthersCopied
  <2> QED BY <1>1, <1>2, <2>1 DEF BackupInv, DeletedIsBackedUp
<1>3. ASSUME \/ PurgeLockRunsOut \/ Reconcile \/ UNCHANGED purgeVars
             \/ \E p \in Posts : RelabelPost(p)
      PROVE BackupInv'
  BY <1>2, <1>3 DEF PurgeLockRunsOut, Reconcile, RelabelPost, purgeVars, purgeData, purgeHistory
<1>4. BackupInv'
  BY <1>1, <1>3, BackupStep, StoreCopied, StorePostCopied DEF PurgeNext
<1> QED BY <1>4, ChosenNext DEF BackupInv

\* Whatever a purge deletes is in the lake, or came after its post had been copied: for any
\* number of processes, posts and comments, with kills, failed statements and locks that run out.
THEOREM PurgedIsBackedUp == PurgeSpec => []DeletedIsBackedUp
<1>1. BackupInv => DeletedIsBackedUp
  BY DEF BackupInv
<1> QED BY <1>1, BackupInit, BackupNext, PTL DEF PurgeSpec

------------------------------------------------------------------------------
(* The statistics.  K(n, m) is what they say of n posts of which they do   *)
(* not know m.                                                             *)

K(n, m) == IF n > m THEN n - m ELSE 0
M       == Cardinality(missed)

LEMMA KFacts ==
    /\ \A n \in Nat, m \in Nat :
        /\ K(n, m) \in Nat /\ K(n + 1, m + 1) = K(n, m) /\ K(n, 0) = n
        /\ \A d \in Nat :
            /\ K(n + d, m) <= K(n, m) + d
            /\ (IF d < K(n + d, m) THEN K(n + d, m) - d ELSE 0) = K(n, m)
BY DEF K

LEMMA NumbersAre == PurgeTypeOK => Stored \in Nat /\ M \in Nat /\ counted \in Nat /\ Known(Stored) = K(Stored, M)
<1> SUFFICES ASSUME PurgeTypeOK PROVE Stored \in Nat /\ M \in Nat /\ counted \in Nat /\ Known(Stored) = K(Stored, M)
  OBVIOUS
<1>1. missed \cap Posts = missed
  BY DEF PurgeTypeOK
<1> QED BY <1>1, PostsCounted DEF Stored, M, Known, K, PurgeTypeOK

\* Deleting a batch of posts leaves those that are not of the batch.
LEMMA BatchLeaves ==
    ASSUME NEW R, NEW B \in SUBSET Posts
    PROVE  Cardinality(R \cap Posts) = Cardinality((R \ B) \cap Posts) + Cardinality(R \cap B)
<1>1. (R \cap Posts) \ B = (R \ B) \cap Posts /\ (R \cap Posts) \cap B = R \cap B
  OBVIOUS
<1>2. Cardinality((R \cap Posts) \ B) = Cardinality(R \cap Posts) - Cardinality((R \cap Posts) \cap B)
  BY PostsCounted, FS_Difference
<1>3. (R \cap B) \cap Posts = R \cap B
  OBVIOUS
<1>4. Cardinality(R \cap Posts) \in Nat /\ Cardinality(R \cap B) \in Nat
  BY <1>3, PostsCounted, Zenon
<1>5. Cardinality((R \ B) \cap Posts) = Cardinality(R \cap Posts) - Cardinality(R \cap B)
  BY <1>1, <1>2, Zenon
<1> QED BY <1>4, <1>5

\* A post that is stored is one more, and one more that the statistics do not know.
LEMMA StoredIsMissed ==
    ASSUME PurgeTypeOK, missed \subseteq rows \cup removed, NEW p \in Posts, StorePost(p)
    PROVE  Stored' = Stored + 1 /\ M' = M + 1
<1>1. rows' \cap Posts = (rows \cap Posts) \cup {p} /\ p \notin rows \cap Posts
      /\ missed' = missed \cup {p} /\ p \notin missed
  BY DEF StorePost
<1>2. IsFiniteSet(rows \cap Posts) /\ IsFiniteSet(missed)
  <2>1. missed = missed \cap Posts
    BY DEF PurgeTypeOK
  <2> QED BY <2>1, PostsCounted
<1> QED BY <1>1, <1>2, FS_AddElement DEF Stored, M

------------------------------------------------------------------------------
(* No deleted post stays counted.  What is counted and not stored is about *)
(* to be taken off, by the purges that have deleted posts.                 *)

Pending == {q \in Purgers \X Posts : purge[q[1]].at = "subtract" /\ q[2] \in purge[q[1]].copy}
Takes(w) == Cardinality(purge[w].copy \cap Posts)

MostInv ==
    /\ missed \subseteq rows \cup removed
    /\ ~cutShort => counted <= K(Stored, M) + Cardinality(Pending)

LEMMA PairsAre == ASSUME NEW R \in SUBSET (Purgers \X Posts) PROVE IsFiniteSet(R) /\ Cardinality(R) \in Nat
<1>1. IsFiniteSet(Purgers \X Posts)
  BY PurgeAssumption, FS_Product
<1> QED BY <1>1, FS_Subset, FS_CardinalityType

LEMMA PairsJoin ==
    ASSUME NEW R \in SUBSET (Purgers \X Posts), NEW w \in Purgers, NEW C, \A q \in R : q[1] # w
    PROVE  Cardinality(R \cup ({w} \X (C \cap Posts))) = Cardinality(R) + Cardinality(C \cap Posts)
<1> DEFINE T == {w} \X (C \cap Posts)
           c == Cardinality(C \cap Posts)
<1>1. IsFiniteSet(T) /\ Cardinality(T) = 1 * c /\ c \in Nat
  <2>1. IsFiniteSet(C \cap Posts) /\ c \in Nat
    BY PostsCounted
  <2>2. IsFiniteSet({w}) /\ Cardinality({w}) = 1
    BY FS_Singleton
  <2> QED BY <2>1, <2>2, FS_Product
<1>2. R \cap T = {}
  OBVIOUS
<1> HIDE DEF T, c
<1>3. Cardinality(R \cup T) = Cardinality(R) + Cardinality(T) - Cardinality(R \cap T)
  BY <1>1, PairsAre, FS_Union
<1>4. Cardinality(R \cap T) = 0
  BY <1>2, FS_EmptySet
<1>5. Cardinality(R \cup T) = Cardinality(R) + c
  BY <1>1, <1>3, <1>4, PairsAre
<1> QED BY <1>5 DEF T, c

\* The purges that are about to take posts off.
LEMMA PendingMoves ==
    ASSUME PurgeTypeOK, NEW w \in Purgers, NEW s, PurgeGoesOn(w, s)
    PROVE  /\ Cardinality(Pending) \in Nat
           /\ purge[w].at # "subtract" /\ s.at # "subtract" => Pending' = Pending
           /\ purge[w].at # "subtract" /\ s.at = "subtract" =>
                Cardinality(Pending') = Cardinality(Pending) + Cardinality(s.copy \cap Posts)
           /\ purge[w].at = "subtract" /\ s.at # "subtract" =>
                /\ Cardinality(Pending') \in Nat
                /\ Cardinality(Pending) = Cardinality(Pending') + Takes(w)
<1>1. purge'[w] = s /\ \A v \in Purgers \ {w} : purge'[v] = purge[v]
  BY DEF PurgeTypeOK, PurgeGoesOn
<1>2. Pending \in SUBSET (Purgers \X Posts) /\ Pending' \in SUBSET (Purgers \X Posts)
  BY DEF Pending
<1>3. ASSUME purge[w].at # "subtract", s.at # "subtract" PROVE Pending' = Pending
  BY <1>1, <1>3 DEF Pending
<1>4. ASSUME purge[w].at # "subtract", s.at = "subtract"
      PROVE  /\ Pending' = Pending \cup ({w} \X (s.copy \cap Posts))
             /\ \A q \in Pending : q[1] # w
  BY <1>1, <1>4 DEF Pending
<1>5. ASSUME purge[w].at = "subtract", s.at # "subtract"
      PROVE  /\ Pending = Pending' \cup ({w} \X (purge[w].copy \cap Posts))
             /\ \A q \in Pending' : q[1] # w
  BY <1>1, <1>5 DEF Pending
<1>6. Cardinality(Pending) \in Nat /\ Cardinality(Pending') \in Nat
  BY <1>2, PairsAre
<1>7. ASSUME purge[w].at # "subtract", s.at = "subtract"
      PROVE  Cardinality(Pending') = Cardinality(Pending) + Cardinality(s.copy \cap Posts)
  <2>1. Cardinality(Pending \cup ({w} \X (s.copy \cap Posts))) = Cardinality(Pending) + Cardinality(s.copy \cap Posts)
    BY <1>2, <1>4, <1>7, PairsJoin
  <2> QED BY <1>4, <1>7, <2>1
<1>8. ASSUME purge[w].at = "subtract", s.at # "subtract"
      PROVE  Cardinality(Pending) = Cardinality(Pending') + Takes(w)
  <2> DEFINE R == Pending'
             C == purge[w].copy
  <2>1. R \in SUBSET (Purgers \X Posts) /\ (\A q \in R : q[1] # w) /\ Pending = R \cup ({w} \X (C \cap Posts))
    BY <1>2, <1>5, <1>8
  <2> HIDE DEF R, C
  <2>2. Cardinality(R \cup ({w} \X (C \cap Posts))) = Cardinality(R) + Cardinality(C \cap Posts)
    BY <2>1, PairsJoin
  <2>3. Cardinality(Pending) = Cardinality(R) + Cardinality(C \cap Posts)
    BY <2>1, <2>2
  <2> QED BY <2>3 DEF Takes, R, C
<1> QED BY <1>3, <1>6, <1>7, <1>8

LEMMA MostStep ==
    ASSUME PurgeTypeOK, PurgeTypeOK', BackupInv, MostInv, NEW w \in Purgers,
           \/ AcquirePurge(w) \/ SelectCandidates(w) \/ NextBatch(w) \/ BackUp(w)
           \/ DeleteChildren(w) \/ DeletePosts(w) \/ SubtractDeleted(w)
           \/ ReadToken(w) \/ ReleasePurge(w) \/ PurgeBreaks(w)
    PROVE  MostInv'
<1> USE DEF purgeData, purgeHistory
<1>0. /\ purge[w] \in PurgeStates /\ purge[w].batch \subseteq Posts
      /\ Children(purge[w].batch) \cap Posts = {}
  BY PurgeAssumption DEF PurgeTypeOK, PurgeStates, Children
<1>n. Stored \in Nat /\ M \in Nat /\ counted \in Nat /\ Stored' \in Nat /\ Cardinality(Pending) \in Nat
  <2>1. Pending \in SUBSET (Purgers \X Posts)
    BY DEF Pending
  <2> QED BY <2>1, NumbersAre, PairsAre, PostsCounted DEF Stored
\* Steps that touch neither posts nor statistics.
<1>a. ASSUME NEW s, PurgeGoesOn(w, s), purge[w].at # "subtract", s.at # "subtract",
             UNCHANGED <<counted, missed, cutShort>>, rows' \cap Posts = rows \cap Posts,
             rows \cup removed \subseteq rows' \cup removed'
      PROVE  MostInv'
  <2>1. Pending' = Pending /\ Stored' = Stored /\ M' = M
    BY <1>a, PendingMoves DEF Stored, M
  <2> QED BY <1>a, <2>1 DEF MostInv
<1>1. CASE AcquirePurge(w) \/ SelectCandidates(w) \/ NextBatch(w) \/ BackUp(w)
  <2>1. /\ purge[w].at # "subtract" /\ UNCHANGED <<rows, removed, counted, missed, cutShort>>
        /\ \E s : PurgeGoesOn(w, s) /\ s.at # "subtract"
    <3>1. CASE AcquirePurge(w)
      BY <1>0, <3>1 DEF AcquirePurge, Purging, Resting
    <3>2. CASE SelectCandidates(w)
      <4> DEFINE s(X) == [purge[w] EXCEPT !.at = "batch", !.ids = X]
      <4>1. \A X : s(X).at = "batch"
        BY <1>0 DEF PurgeStates
      <4>2. \E X : PurgeGoesOn(w, s(X))
        BY <3>2 DEF SelectCandidates
      <4> HIDE DEF s
      <4> QED BY <3>2, <4>1, <4>2 DEF SelectCandidates
    <3>3. CASE NextBatch(w)
      <4>1. PICK p \in purge[w].ids :
               PurgeGoesOn(w, [purge[w] EXCEPT !.at = AfterChoice, !.ids = @ \ {p}, !.batch = {p}, !.copy = {}])
        BY <3>3 DEF NextBatch
      <4> DEFINE s == [purge[w] EXCEPT !.at = AfterChoice, !.ids = @ \ {p}, !.batch = {p}, !.copy = {}]
      <4>2. s.at = "backup"
        BY <1>0 DEF PurgeStates, AfterChoice
      <4> HIDE DEF s
      <4> QED BY <3>3, <4>1, <4>2 DEF NextBatch, s
    <3>4. CASE BackUp(w)
      <4> DEFINE s(C) == [purge[w] EXCEPT !.at = "delete", !.copy = C]
      <4>1. \A C : s(C).at = "delete"
        BY <1>0 DEF PurgeStates
      <4>2. \E C : PurgeGoesOn(w, s(C))
        BY <3>4 DEF BackUp
      <4> HIDE DEF s
      <4> QED BY <3>4, <4>1, <4>2 DEF BackUp
    <3> QED BY <1>1, <3>1, <3>2, <3>3, <3>4
  <2> QED BY <1>a, <2>1
<1>2. CASE DeleteChildren(w)
  <2> DEFINE s == [purge[w] EXCEPT !.at = "posts"]
  <2>1. s.at = "posts"
    BY <1>0 DEF PurgeStates
  <2>2. /\ PurgeGoesOn(w, s) /\ purge[w].at = "delete" /\ UNCHANGED <<counted, missed, cutShort>>
        /\ rows' = rows \ Children(purge[w].batch) /\ removed' = removed \cup (rows \cap Children(purge[w].batch))
    BY <1>2 DEF DeleteChildren
  <2> HIDE DEF s
  <2> QED BY <1>0, <1>a, <2>1, <2>2
<1>3. CASE DeletePosts(w)
  <2> DEFINE s == [purge[w] EXCEPT !.at = "subtract"]
             d == Cardinality(rows \cap purge[w].batch)
  <2>1. s.at = "subtract" /\ s.copy = purge[w].copy
    BY <1>0 DEF PurgeStates
  <2>2. /\ PurgeGoesOn(w, s) /\ purge[w].at = "posts" /\ UNCHANGED <<counted, missed, cutShort>>
        /\ rows' = rows \ purge[w].batch /\ removed' = removed \cup (rows \cap purge[w].batch)
    BY <1>3 DEF DeletePosts
  <2> HIDE DEF s
  <2>3. Cardinality(Pending') = Cardinality(Pending) + Takes(w)
    BY <2>1, <2>2, PendingMoves DEF Takes
  <2>4. d \in Nat /\ Takes(w) \in Nat /\ d <= Takes(w)
    <3>1. rows \cap purge[w].batch \subseteq purge[w].copy \cap Posts
      BY <1>0, <2>2 DEF BackupInv, Copied
    <3> QED BY <3>1, PostsCounted, FS_Subset, FS_CardinalityType DEF Takes
  <2>5. Stored = Stored' + d /\ M' = M
    BY <1>0, <2>2, BatchLeaves DEF Stored, M
  <2> HIDE DEF d
  <2>6. K(Stored, M) <= K(Stored', M) + d /\ K(Stored, M) \in Nat /\ K(Stored', M) \in Nat
    BY <1>n, <2>4, <2>5, KFacts
  <2>7. ~cutShort => counted <= K(Stored, M) + Cardinality(Pending)
    BY DEF MostInv
  <2>8. ~cutShort' => counted' <= K(Stored', M') + Cardinality(Pending')
    BY <1>n, <2>2, <2>3, <2>4, <2>5, <2>6, <2>7
  <2> QED BY <2>2, <2>8 DEF MostInv
<1>4. CASE SubtractDeleted(w)
  <2> DEFINE s == [purge[w] EXCEPT !.at = "batch", !.batch = {}, !.copy = {}]
  <2>1. s.at = "batch"
    BY <1>0 DEF PurgeStates
  <2>2. PurgeGoesOn(w, s) /\ purge[w].at = "subtract" /\ UNCHANGED <<rows, removed, missed>>
    BY <1>4 DEF SubtractDeleted
  <2> HIDE DEF s
  <2>3. Cardinality(Pending') \in Nat /\ Cardinality(Pending) = Cardinality(Pending') + Takes(w)
    BY <2>1, <2>2, PendingMoves
  <2>4. Takes(w) \in Nat
    BY PostsCounted DEF Takes
  <2>5. ASSUME ~cutShort' PROVE counted' <= K(Stored', M') + Cardinality(Pending')
    <3>1. ~cutShort /\ counted' = TakeOff(w)
      BY <1>4, <2>5 DEF SubtractDeleted, PurgeTypeOK
    <3>2. TakeOff(w) = IF Takes(w) < counted THEN counted - Takes(w) ELSE 0
      BY DEF TakeOff, Takes
    <3>3. Stored' = Stored /\ M' = M /\ K(Stored, M) \in Nat
      BY <1>n, <2>2, KFacts DEF Stored, M
    <3>4. counted <= K(Stored, M) + Cardinality(Pending)
      BY <3>1 DEF MostInv
    <3> QED BY <1>n, <2>3, <2>4, <3>1, <3>2, <3>3, <3>4
  <2> QED BY <2>2, <2>5 DEF MostInv
<1>5. CASE ReadToken(w) \/ ReleasePurge(w)
  <2>1. /\ purge[w].at # "subtract" /\ UNCHANGED <<rows, removed, counted, missed, cutShort>>
        /\ \E s : PurgeGoesOn(w, s) /\ s.at # "subtract"
    <3>1. CASE ReadToken(w)
      <4> DEFINE s == [Resting EXCEPT !.at = "release", !.owns = (lock = w)]
      <4>1. s.at = "release"
        BY DEF Resting
      <4>2. PurgeGoesOn(w, s)
        BY <3>1 DEF ReadToken
      <4> HIDE DEF s
      <4> QED BY <3>1, <4>1, <4>2 DEF ReadToken
    <3>2. CASE ReleasePurge(w)
      <4>1. PurgeGoesOn(w, Resting) /\ Resting.at = "idle"
        BY <3>2 DEF ReleasePurge, Resting
      <4> QED BY <3>2, <4>1 DEF ReleasePurge
    <3> QED BY <1>5, <3>1, <3>2
  <2> QED BY <1>a, <2>1
<1>6. CASE PurgeBreaks(w)
  <2>1. PurgeGoesOn(w, Resting) /\ Resting.at = "idle" /\ UNCHANGED <<rows, removed, counted, missed>>
    BY <1>6 DEF PurgeBreaks, Resting
  <2>2. CASE purge[w].at = "subtract"
    <3>1. cutShort'
      BY <1>6, <2>2 DEF PurgeBreaks
    <3> QED BY <2>1, <3>1 DEF MostInv
  <2>3. CASE purge[w].at # "subtract"
    <3>1. UNCHANGED cutShort
      BY <1>6, <2>3 DEF PurgeBreaks, PurgeTypeOK
    <3> QED BY <1>a, <2>1, <2>3, <3>1
  <2> QED BY <2>2, <2>3
<1> QED BY <1>1, <1>2, <1>3, <1>4, <1>5, <1>6

LEMMA MostNext == BackupInv /\ PurgeTypeOK' /\ MostInv /\ [PurgeNext]_purgeVars => MostInv'
<1> SUFFICES ASSUME BackupInv, PurgeTypeOK', MostInv, [PurgeNext]_purgeVars PROVE MostInv'
  OBVIOUS
<1> USE DEF purgeData, purgeHistory
<1>0. PurgeTypeOK
  BY DEF BackupInv
<1>n. Stored \in Nat /\ M \in Nat /\ counted \in Nat /\ Cardinality(Pending) \in Nat
  <2>1. Pending \in SUBSET (Purgers \X Posts)
    BY DEF Pending
  <2> QED BY <1>0, <2>1, NumbersAre, PairsAre
<1>1. ASSUME rows' \cap Posts = rows \cap Posts, rows \subseteq rows',
             UNCHANGED <<purge, counted, missed, removed, cutShort>>
      PROVE  MostInv'
  <2>1. Stored' = Stored /\ M' = M /\ Pending' = Pending
    BY <1>1 DEF Stored, M, Pending
  <2> QED BY <1>1, <2>1 DEF MostInv
<1>2. CASE UNCHANGED purgeVars
  BY <1>1, <1>2 DEF purgeVars
<1>3. ASSUME NEW c \in Comments, StoreComment(c) PROVE MostInv'
  BY <1>1, <1>3, PurgeAssumption DEF StoreComment
<1>4. CASE PurgeLockRunsOut \/ \E p \in Posts : RelabelPost(p)
  BY <1>1, <1>4 DEF PurgeLockRunsOut, RelabelPost
<1>5. ASSUME NEW p \in Posts, StorePost(p) PROVE MostInv'
  <2>1. Stored' = Stored + 1 /\ M' = M + 1
    BY <1>0, <1>5, StoredIsMissed DEF MostInv
  <2>2. K(Stored', M') = K(Stored, M)
    BY <1>n, <2>1, KFacts
  <2>3. Pending' = Pending /\ UNCHANGED <<counted, cutShort, removed>>
        /\ rows' = rows \cup {p} /\ missed' = missed \cup {p}
    BY <1>5 DEF StorePost, Pending
  <2> QED BY <2>2, <2>3 DEF MostInv
<1>6. CASE Reconcile
  <2>1. counted' = Stored' /\ missed' = {} /\ Pending' = Pending
    BY <1>6 DEF Reconcile, Stored, Pending
  <2>2. M' = 0 /\ Stored' \in Nat
    BY <2>1, FS_EmptySet, PostsCounted DEF M, Stored
  <2>3. counted' <= K(Stored', M') + Cardinality(Pending')
    BY <1>n, <2>1, <2>2, KFacts
  <2> QED BY <2>1, <2>3 DEF MostInv
<1> QED BY <1>0, <1>2, <1>3, <1>4, <1>5, <1>6, MostStep DEF PurgeNext

LEMMA MostInit == PurgeInit => MostInv
<1> SUFFICES ASSUME PurgeInit PROVE MostInv
  OBVIOUS
<1>1. missed = {} /\ counted = Cardinality(rows) /\ rows = rows \cap Posts
  BY DEF PurgeInit
<1>2. Pending = {} /\ Cardinality(Pending) = 0 /\ M = 0
  BY <1>1, FS_EmptySet DEF PurgeInit, Resting, Pending, M
<1>3. Stored = counted /\ Stored \in Nat
  BY <1>1, PostsCounted DEF Stored
<1> QED BY <1>1, <1>2, <1>3, KFacts DEF MostInv

------------------------------------------------------------------------------
(* No post is taken off twice.  While no purge is overlapped, the process  *)
(* that purges holds the lock, and what it has copied of the posts is what *)
(* it deletes; so that what is counted and not stored is what it is about  *)
(* to take off.                                                            *)

CopyIsExact(w) ==
    purge[w].at \in {"delete", "posts"} => purge[w].copy \cap Posts = rows \cap purge[w].batch

OwnsLock(w) == Purging(w) => lock = w

Counted ==
    /\ (\A w \in Purgers : purge[w].at # "subtract") => counted = K(Stored, M)
    /\ \A w \in Purgers : purge[w].at = "subtract" => counted = K(Stored + Takes(w), M)

CountInv ==
    ~overlapped =>
        /\ \A w \in Purgers : OwnsLock(w) /\ CopyIsExact(w)
        /\ ~cutShort => Counted

LEMMA CountInit == PurgeInit => CountInv
<1> SUFFICES ASSUME PurgeInit PROVE CountInv
  OBVIOUS
<1>1. \A w \in Purgers : OwnsLock(w) /\ CopyIsExact(w) /\ purge[w].at # "subtract"
  BY DEF PurgeInit, OwnsLock, CopyIsExact, Resting, Purging
<1>2. counted = K(Stored, M)
  <2>1. rows \cap Posts = rows /\ missed = {} /\ counted = Cardinality(rows)
    BY DEF PurgeInit
  <2>2. Stored = counted /\ Stored \in Nat /\ M = 0
    BY <2>1, PostsCounted, FS_EmptySet DEF Stored, M
  <2> QED BY <2>2, KFacts
<1> QED BY <1>1, <1>2 DEF CountInv, Counted

\* The process that purges goes on in s.  Nobody else purges, so that the others keep what they have.
LEMMA AloneGoesOn ==
    ASSUME CountInv, PurgeTypeOK, NEW w \in Purgers, NEW s, PurgeGoesOn(w, s), UNCHANGED missed,
           ~overlapped' => ~overlapped /\ (lock = w \/ lock = NoOne),
           ~overlapped' /\ s.at # "idle" => lock' = w,
           ~overlapped' /\ s.at \in {"delete", "posts"} => s.copy \cap Posts = rows' \cap s.batch,
           ~overlapped' /\ ~cutShort' /\ s.at # "subtract" => counted' = K(Stored', M),
           ~overlapped' /\ ~cutShort' /\ s.at = "subtract" =>
                counted' = K(Stored' + Cardinality(s.copy \cap Posts), M)
    PROVE  CountInv'
<1> SUFFICES ASSUME ~overlapped'
             PROVE  /\ \A v \in Purgers : (OwnsLock(v) /\ CopyIsExact(v))'
                    /\ ~cutShort' => Counted'
  BY DEF CountInv
<1>1. purge'[w] = s /\ \A v \in Purgers \ {w} : purge'[v] = purge[v]
  BY DEF PurgeGoesOn, PurgeTypeOK
<1>2. \A v \in Purgers \ {w} : purge[v].at = "idle"
  BY PurgeAssumption DEF CountInv, OwnsLock, Purging
<1>3. \A v \in Purgers : (OwnsLock(v) /\ CopyIsExact(v))'
  BY <1>1, <1>2 DEF OwnsLock, CopyIsExact, Purging
<1>4. ~cutShort' => Counted'
  <2>1. M' = M
    BY DEF M
  <2> QED BY <1>1, <1>2, <2>1 DEF Counted, Takes
<1> QED BY <1>3, <1>4

LEMMA CountStep ==
    ASSUME CountInv, NEW w \in Purgers, PurgeTypeOK,
           \/ AcquirePurge(w) \/ SelectCandidates(w) \/ NextBatch(w) \/ BackUp(w)
           \/ DeleteChildren(w) \/ DeletePosts(w) \/ SubtractDeleted(w)
           \/ ReadToken(w) \/ ReleasePurge(w) \/ PurgeBreaks(w)
    PROVE  CountInv'
<1> USE DEF purgeData, purgeHistory
<1>0. /\ purge[w] \in PurgeStates /\ purge[w].batch \subseteq Posts
      /\ Children(purge[w].batch) \cap Posts = {} /\ overlapped \in BOOLEAN /\ cutShort \in BOOLEAN
  BY PurgeAssumption DEF PurgeTypeOK, PurgeStates, Children
<1>n. Stored \in Nat /\ M \in Nat /\ Stored' \in Nat
  BY NumbersAre, PostsCounted DEF Stored
<1>a. ASSUME ~overlapped, Purging(w)
      PROVE  /\ lock = w /\ CopyIsExact(w)
             /\ ~cutShort /\ purge[w].at # "subtract" => counted = K(Stored, M)
             /\ ~cutShort /\ purge[w].at = "subtract" => counted = K(Stored + Takes(w), M)
  BY <1>a DEF CountInv, OwnsLock, Counted, Purging
\* Steps that touch neither posts nor statistics.
<1>b. ASSUME NEW s, PurgeGoesOn(w, s), Purging(w), UNCHANGED <<rows, counted, missed, overlapped, cutShort>>,
             purge[w].at # "subtract", s.at \notin {"delete", "posts", "subtract"}, s.at # "idle" => lock' = lock
      PROVE CountInv'
  <2>1. Stored' = Stored
    BY <1>b DEF Stored
  <2> QED BY <1>a, <1>b, <2>1, AloneGoesOn
<1>1. CASE AcquirePurge(w)
  <2> DEFINE s == [Resting EXCEPT !.at = "select"]
  <2>1. /\ s.at = "select" /\ PurgeGoesOn(w, s) /\ lock = NoOne /\ lock' = w
        /\ UNCHANGED <<rows, counted, missed, overlapped, cutShort>>
    BY <1>1 DEF AcquirePurge, LockFree, Resting
  <2>2. ASSUME ~overlapped PROVE \A v \in Purgers : purge[v].at = "idle"
    BY <2>1, <2>2, PurgeAssumption DEF CountInv, OwnsLock, Purging
  <2>3. ~overlapped /\ ~cutShort => counted' = K(Stored', M)
    BY <2>1, <2>2 DEF CountInv, Counted, Stored
  <2> HIDE DEF s
  <2> QED BY <2>1, <2>3, AloneGoesOn
<1>2. CASE SelectCandidates(w)
  <2> DEFINE s(X) == [purge[w] EXCEPT !.at = "batch", !.ids = X]
  <2>1. \A X : s(X).at = "batch"
    BY <1>0 DEF PurgeStates
  <2>2. /\ PurgeGoesOn(w, s(Eligible \ (Eligible \cap NamesCast))) /\ purge[w].at = "select"
        /\ UNCHANGED <<rows, counted, missed, overlapped, cutShort, lock>>
    BY <1>2 DEF SelectCandidates
  <2> HIDE DEF s
  <2> QED BY <1>b, <2>1, <2>2 DEF Purging
<1>3. CASE NextBatch(w)
  <2>1. PICK p \in purge[w].ids :
           PurgeGoesOn(w, [purge[w] EXCEPT !.at = AfterChoice, !.ids = @ \ {p}, !.batch = {p}, !.copy = {}])
    BY <1>3 DEF NextBatch
  <2> DEFINE s == [purge[w] EXCEPT !.at = AfterChoice, !.ids = @ \ {p}, !.batch = {p}, !.copy = {}]
  <2>2. s.at = "backup"
    BY <1>0 DEF PurgeStates, AfterChoice
  <2>3. /\ PurgeGoesOn(w, s) /\ purge[w].at = "batch"
        /\ UNCHANGED <<rows, counted, missed, overlapped, cutShort, lock>>
    BY <1>3, <2>1 DEF NextBatch
  <2> HIDE DEF s
  <2> QED BY <1>b, <2>2, <2>3 DEF Purging
<1>4. CASE BackUp(w)
  <2> DEFINE copy == rows \cap (purge[w].batch \cup Children(purge[w].batch))
             s    == [purge[w] EXCEPT !.at = "delete", !.copy = copy]
  <2>1. /\ PurgeGoesOn(w, s) /\ purge[w].at = "backup"
        /\ UNCHANGED <<rows, counted, missed, overlapped, cutShort, lock>>
    BY <1>4 DEF BackUp
  <2>2. s.at = "delete" /\ s.copy = copy /\ s.batch = purge[w].batch
    BY <1>0 DEF PurgeStates
  <2>3. copy \cap Posts = rows \cap purge[w].batch
    BY <1>0
  <2>4. Stored' = Stored
    BY <2>1 DEF Stored
  <2> HIDE DEF s, copy
  <2> QED BY <1>a, <2>1, <2>2, <2>3, <2>4, AloneGoesOn DEF Purging
<1>5. CASE DeleteChildren(w)
  <2> DEFINE s == [purge[w] EXCEPT !.at = "posts"]
  <2>1. /\ PurgeGoesOn(w, s) /\ purge[w].at = "delete"
        /\ UNCHANGED <<counted, missed, overlapped, cutShort, lock>>
        /\ rows' = rows \ Children(purge[w].batch)
    BY <1>5 DEF DeleteChildren
  <2>2. s.at = "posts" /\ s.copy = purge[w].copy /\ s.batch = purge[w].batch
    BY <1>0 DEF PurgeStates
  <2>3. rows' \cap Posts = rows \cap Posts /\ rows' \cap purge[w].batch = rows \cap purge[w].batch
    BY <1>0, <2>1
  <2>4. Stored' = Stored
    BY <2>3 DEF Stored
  <2> HIDE DEF s
  <2> QED BY <1>a, <2>1, <2>2, <2>3, <2>4, AloneGoesOn DEF Purging, CopyIsExact
<1>6. CASE DeletePosts(w)
  <2> DEFINE s == [purge[w] EXCEPT !.at = "subtract"]
  <2>1. /\ PurgeGoesOn(w, s) /\ purge[w].at = "posts"
        /\ UNCHANGED <<counted, missed, overlapped, cutShort, lock>>
        /\ rows' = rows \ purge[w].batch
    BY <1>6 DEF DeletePosts
  <2>2. s.at = "subtract" /\ s.copy = purge[w].copy
    BY <1>0 DEF PurgeStates
  <2>3. Stored = Stored' + Cardinality(rows \cap purge[w].batch)
    BY <1>0, <2>1, BatchLeaves DEF Stored
  <2>4. ASSUME ~overlapped
        PROVE  /\ lock = w
               /\ ~cutShort => counted' = K(Stored' + Cardinality(purge[w].copy \cap Posts), M)
    BY <1>a, <2>1, <2>3, <2>4 DEF Purging, CopyIsExact
  <2> HIDE DEF s
  <2> QED BY <2>1, <2>2, <2>4, AloneGoesOn
<1>7. CASE SubtractDeleted(w)
  <2> DEFINE s == [purge[w] EXCEPT !.at = "batch", !.batch = {}, !.copy = {}]
             n == Takes(w)
  <2>1. PurgeGoesOn(w, s) /\ purge[w].at = "subtract" /\ UNCHANGED <<rows, missed, overlapped, lock>>
    BY <1>7 DEF SubtractDeleted
  <2>2. s.at = "batch"
    BY <1>0 DEF PurgeStates
  <2>3. Stored' = Stored /\ n \in Nat
    BY <2>1, PostsCounted DEF Stored, Takes
  <2>4. ASSUME ~overlapped' PROVE ~overlapped /\ lock = w
    BY <1>a, <2>1, <2>4 DEF Purging
  <2>5. ASSUME ~overlapped', ~cutShort' PROVE counted' = K(Stored', M)
    <3>1. ~cutShort /\ counted' = TakeOff(w)
      BY <1>0, <1>7, <2>5 DEF SubtractDeleted
    <3>2. counted = K(Stored + n, M)
      BY <1>a, <2>1, <2>5, <3>1 DEF Purging
    <3>3. TakeOff(w) = IF n < counted THEN counted - n ELSE 0
      BY DEF TakeOff, Takes
    <3> HIDE DEF n
    <3> QED BY <1>n, <2>3, <3>1, <3>2, <3>3, KFacts
  <2> HIDE DEF s, n
  <2> QED BY <2>1, <2>2, <2>4, <2>5, AloneGoesOn
<1>8. CASE ReadToken(w)
  <2> DEFINE s == [Resting EXCEPT !.at = "release", !.owns = (lock = w)]
  <2>1. /\ s.at = "release" /\ PurgeGoesOn(w, s) /\ purge[w].at = "batch"
        /\ UNCHANGED <<rows, counted, missed, overlapped, cutShort, lock>>
    BY <1>8 DEF ReadToken, Resting
  <2> HIDE DEF s
  <2> QED BY <1>b, <2>1 DEF Purging
<1>9. CASE ReleasePurge(w)
  <2>1. /\ Resting.at = "idle" /\ PurgeGoesOn(w, Resting) /\ purge[w].at = "release"
        /\ UNCHANGED <<rows, counted, missed, overlapped, cutShort>>
    BY <1>9 DEF ReleasePurge, Resting
  <2> QED BY <1>b, <2>1 DEF Purging
<1>10. CASE PurgeBreaks(w)
  <2>1. /\ Resting.at = "idle" /\ PurgeGoesOn(w, Resting) /\ Purging(w)
        /\ UNCHANGED <<rows, counted, missed, overlapped>>
        /\ (~cutShort' => ~cutShort /\ purge[w].at # "subtract")
    BY <1>0, <1>10 DEF PurgeBreaks, Resting
  <2>2. Stored' = Stored
    BY <2>1 DEF Stored
  <2> QED BY <1>a, <2>1, <2>2, AloneGoesOn
<1> QED BY <1>1, <1>2, <1>3, <1>4, <1>5, <1>6, <1>7, <1>8, <1>9, <1>10

LEMMA CountNext == BackupInv /\ ChosenInv /\ MostInv /\ CountInv /\ [PurgeNext]_purgeVars => CountInv'
<1> SUFFICES ASSUME BackupInv, ChosenInv, MostInv, CountInv, [PurgeNext]_purgeVars PROVE CountInv'
  OBVIOUS
<1> USE DEF purgeData, purgeHistory
<1>0. PurgeTypeOK
  BY DEF BackupInv
\* A step that is not of a purge, leaves the posts of the batches, and what the statistics should say.
<1>2. ASSUME \A w \in Purgers : rows' \cap purge[w].batch = rows \cap purge[w].batch,
             UNCHANGED <<purge, lock, counted, overlapped, cutShort>>,
             K(Stored', M') = K(Stored, M),
             \A w \in Purgers : K(Stored' + Takes(w), M') = K(Stored + Takes(w), M)
      PROVE CountInv'
  <2>1. \A w \in Purgers : (OwnsLock(w) <=> OwnsLock(w)') /\ (CopyIsExact(w) <=> CopyIsExact(w)')
    BY <1>2 DEF OwnsLock, CopyIsExact, Purging
  <2>2. Counted => Counted'
    BY <1>2 DEF Counted, Takes
  <2> QED BY <1>2, <2>1, <2>2 DEF CountInv
<1>3. ASSUME rows' \cap Posts = rows \cap Posts, UNCHANGED <<purge, lock, counted, missed, overlapped, cutShort>>
      PROVE  CountInv'
  <2>1. \A w \in Purgers : rows' \cap purge[w].batch = rows \cap purge[w].batch
    BY <1>0, <1>3 DEF PurgeTypeOK
  <2>2. Stored' = Stored /\ M' = M
    BY <1>3 DEF Stored, M
  <2> QED BY <1>2, <1>3, <2>1, <2>2
<1>4. CASE UNCHANGED purgeVars \/ \E p \in Posts : RelabelPost(p)
  BY <1>3, <1>4 DEF purgeVars, RelabelPost
<1>5. ASSUME NEW c \in Comments, StoreComment(c) PROVE CountInv'
  BY <1>3, <1>5, PurgeAssumption DEF StoreComment
<1>6. ASSUME NEW p \in Posts, StorePost(p) PROVE CountInv'
  <2>1. Stored' = Stored + 1 /\ M' = M + 1 /\ Stored \in Nat /\ M \in Nat
    BY <1>0, <1>6, StoredIsMissed, NumbersAre DEF MostInv
  <2>2. K(Stored', M') = K(Stored, M)
    BY <2>1, KFacts
  <2>3. ASSUME NEW w \in Purgers PROVE K(Stored' + Takes(w), M') = K(Stored + Takes(w), M)
    <3>1. Takes(w) \in Nat
      BY PostsCounted DEF Takes
    <3>2. Stored' + Takes(w) = (Stored + Takes(w)) + 1 /\ Stored + Takes(w) \in Nat
      BY <2>1, <3>1
    <3> QED BY <2>1, <3>2, KFacts
  <2>4. \A w \in Purgers : rows' \cap purge[w].batch = rows \cap purge[w].batch
    BY <1>6 DEF StorePost, ChosenInv, ChosenWas
  <2>5. UNCHANGED <<purge, lock, counted, overlapped, cutShort>>
    BY <1>6 DEF StorePost
  <2> QED BY <1>2, <2>2, <2>3, <2>4, <2>5
<1>7. CASE PurgeLockRunsOut
  <2>1. ASSUME ~overlapped' PROVE ~overlapped /\ \A w \in Purgers : ~Purging(w)
    BY <1>7, <2>1 DEF PurgeLockRunsOut, CountInv, OwnsLock
  <2>2. UNCHANGED <<rows, counted, purge, missed, cutShort>> /\ Stored' = Stored /\ M' = M
    BY <1>7 DEF PurgeLockRunsOut, Stored, M
  <2>3. ASSUME ~overlapped' PROVE \A w \in Purgers : (OwnsLock(w) /\ CopyIsExact(w))'
    BY <2>1, <2>2, <2>3 DEF OwnsLock, CopyIsExact, Purging
  <2>4. ASSUME ~overlapped', ~cutShort' PROVE Counted'
    BY <2>1, <2>2, <2>4 DEF CountInv, Counted, Takes, Purging
  <2> QED BY <2>3, <2>4 DEF CountInv
<1>8. CASE Reconcile
  <2>1. UNCHANGED <<rows, purge, lock>> /\ counted' = Stored' /\ missed' = {}
    BY <1>8 DEF Reconcile, Stored
  <2>2. ASSUME ~overlapped'
        PROVE  /\ \A w \in Purgers : purge[w].at # "subtract"
               /\ ~overlapped \/ \A w \in Purgers : ~Purging(w)
    BY <1>8, <2>2 DEF Reconcile
  <2>3. counted' = K(Stored', M')
    <3>1. M' = 0 /\ Stored' \in Nat
      BY <2>1, FS_EmptySet, PostsCounted DEF M, Stored
    <3> QED BY <2>1, <3>1, KFacts
  <2>4. ASSUME ~overlapped' PROVE Counted' /\ \A w \in Purgers : (OwnsLock(w) /\ CopyIsExact(w))'
    BY <2>1, <2>2, <2>3, <2>4 DEF CountInv, Counted, OwnsLock, CopyIsExact, Purging
  <2> QED BY <2>4 DEF CountInv
<1> QED BY <1>0, <1>4, <1>5, <1>6, <1>7, <1>8, CountStep DEF PurgeNext

\* Between purges the statistics are behind by the posts they do not know of yet; overlapping purges
\* take too much off and never too little: for any number of processes and posts.
THEOREM StatisticsFollow == PurgeSpec => []CountsFollowRows
<1>1. BackupInv /\ MostInv /\ CountInv => CountsFollowRows
  <2> SUFFICES ASSUME BackupInv, MostInv, CountInv, ~cutShort, \A w \in Purgers : purge[w].at # "subtract"
               PROVE  counted <= Known(Stored) /\ (~overlapped => counted = Known(Stored))
    BY DEF CountsFollowRows
  <2>1. Pending = {} /\ Cardinality(Pending) = 0
    BY FS_EmptySet DEF Pending
  <2>2. Stored \in Nat /\ M \in Nat /\ counted \in Nat /\ Known(Stored) = K(Stored, M)
    BY NumbersAre DEF BackupInv
  <2>3. counted <= K(Stored, M)
    BY <2>1, <2>2, KFacts DEF MostInv
  <2>4. ~overlapped => counted = K(Stored, M)
    BY DEF CountInv, Counted
  <2> QED BY <2>2, <2>3, <2>4
<1>2. PurgeInit => BackupInv /\ ChosenInv /\ MostInv /\ CountInv
  BY BackupInit, MostInit, CountInit
<1>3. BackupInv /\ ChosenInv /\ MostInv /\ CountInv /\ [PurgeNext]_purgeVars
        => (BackupInv /\ ChosenInv /\ MostInv /\ CountInv)'
  <2> SUFFICES ASSUME BackupInv, ChosenInv, MostInv, CountInv, [PurgeNext]_purgeVars
               PROVE  BackupInv' /\ ChosenInv' /\ MostInv' /\ CountInv'
    OBVIOUS
  <2>1. BackupInv' /\ ChosenInv'
    BY BackupNext
  <2>2. PurgeTypeOK'
    BY <2>1 DEF BackupInv
  <2> QED BY <2>1, <2>2, MostNext, CountNext
<1> QED BY <1>1, <1>2, <1>3, PTL DEF PurgeSpec

-----------------------------------------------------------------------------
(* The row of one post (PostRow).                                          *)

HandlerStates == [at : {"away", "read", "write", "snapshot"}, kind : {"post", "counts", "views"}, draft : Row, seen : SUBSET Row]

\* A reading of the views of a post has some.
ViewsAreSome == \A t \in Handlers : handler[t].kind = "views" => handler[t].draft.views > 0

RowInv == PostRowTypeOK /\ ViewsAreSome

LEMMA RowInvInit == PostRowInit => RowInv
<1> SUFFICES ASSUME PostRowInit PROVE RowInv
  OBVIOUS
<1>1. Blank \in Row
  BY DEF Blank, Row
<1>2. Away \in HandlerStates /\ Away.kind = "post"
  BY <1>1 DEF Away, HandlerStates
<1> HIDE DEF Away
<1>3. handler \in [Handlers -> HandlerStates] /\ \A t \in Handlers : handler[t].kind = "post"
  BY <1>2 DEF PostRowInit
<1>4. records \in 0 .. MaxRecords /\ faults \in 0 .. MaxFaults
  BY PostRowAssumption DEF PostRowInit
<1> QED BY <1>3, <1>4 DEF PostRowInit, RowInv, PostRowTypeOK, ViewsAreSome, HandlerStates

LEMMA AgainIs ==
    ASSUME RowInv, NEW t \in Handlers
    PROVE  LET h == [handler[t] EXCEPT !.at = Begins(handler[t].kind), !.seen = {}] IN
           h \in HandlerStates /\ h.kind = handler[t].kind /\ h.draft = handler[t].draft /\ h.at = Begins(handler[t].kind)
<1> DEFINE a == [handler[t] EXCEPT !.at = Begins(handler[t].kind)]
           h == [a EXCEPT !.seen = {}]
<1>1. handler[t] \in HandlerStates
  BY DEF RowInv, PostRowTypeOK, HandlerStates
<1>2. Begins(handler[t].kind) \in {"away", "read", "write", "snapshot"}
  BY DEF Begins
<1>3. a \in HandlerStates /\ a.kind = handler[t].kind /\ a.draft = handler[t].draft /\ a.at = Begins(handler[t].kind)
  BY <1>1, <1>2 DEF HandlerStates
<1> HIDE DEF a
<1>4. h \in HandlerStates /\ h.kind = a.kind /\ h.draft = a.draft /\ h.at = a.at
  BY <1>3 DEF HandlerStates
<1> QED BY <1>3, <1>4 DEF a

\* What a handler may become.
GoodState(s) == s \in HandlerStates /\ (s.kind = "views" => s.draft.views > 0)

LEMMA HandlesKeeps ==
    ASSUME RowInv, NEW t \in Handlers, NEW s, GoodState(s), Handles(t, s)
    PROVE  handler' \in [Handlers -> HandlerStates] /\ ViewsAreSome' /\ handler'[t] = s
BY DEF RowInv, PostRowTypeOK, HandlerStates, ViewsAreSome, GoodState, Handles

LEMMA AgainGood ==
    ASSUME RowInv, NEW t \in Handlers, Again(t)
    PROVE  handler' \in [Handlers -> HandlerStates] /\ ViewsAreSome' /\ handler'[t].at = Begins(handler[t].kind)
<1> DEFINE h == [handler[t] EXCEPT !.at = Begins(handler[t].kind), !.seen = {}]
<1>1. h \in HandlerStates /\ h.kind = handler[t].kind /\ h.draft = handler[t].draft /\ h.at = Begins(handler[t].kind)
  BY AgainIs
<1>2. Handles(t, h)
  BY DEF Again
<1> HIDE DEF h
<1> QED BY <1>1, <1>2, HandlesKeeps DEF GoodState, RowInv, ViewsAreSome

LEMMA LandedKeeps ==
    ASSUME RowInv, NEW t \in Handlers, NEW s, GoodState(s), LandedThen(t, s)
    PROVE  /\ handler' \in [Handlers -> HandlerStates] /\ ViewsAreSome' /\ faults' \in 0 .. MaxFaults
           /\ handler'[t] = s \/ handler'[t].at = Begins(handler[t].kind)
<1>1. faults' \in 0 .. MaxFaults
  BY PostRowAssumption DEF LandedThen, Fault, RowInv, PostRowTypeOK
<1> QED BY <1>1, HandlesKeeps, AgainGood DEF LandedThen

LEMMA StatesGood ==
    ASSUME RowInv, NEW t \in Handlers
    PROVE  /\ GoodState(Away) /\ GoodState(handler[t]) /\ Away.at = "away"
           /\ \A a \in {"read", "write", "snapshot"} :
                GoodState([handler[t] EXCEPT !.at = a]) /\ [handler[t] EXCEPT !.at = a].at = a
           /\ handler[t].draft \in Row /\ handler[t].seen \subseteq Row
<1>1. Blank \in Row
  BY DEF Blank, Row
<1>2. Away \in HandlerStates /\ Away.kind = "post" /\ Away.at = "away"
  BY <1>1 DEF Away, HandlerStates
<1>3. handler[t] \in HandlerStates /\ GoodState(handler[t])
  BY DEF RowInv, PostRowTypeOK, HandlerStates, ViewsAreSome, GoodState
<1>4. \A a \in {"read", "write", "snapshot"} : GoodState([handler[t] EXCEPT !.at = a]) /\ [handler[t] EXCEPT !.at = a].at = a
  BY <1>3 DEF GoodState, HandlerStates
<1> QED BY <1>2, <1>3, <1>4 DEF GoodState, HandlerStates

\* The row as a step leaves it: at most one, as typed, with its label, and its views unless the handler
\* that writes had read it without them.
RowKept(t) ==
    /\ post' \subseteq Row /\ \A p, q \in post' : p = q
    /\ \A p \in post :
        /\ post' # {}
        /\ \A q \in post' :
            /\ p.tag # "null" => q.tag # "null"
            /\ p.views > 0 => q.views > 0 \/ (ReadTooEarly(t) /\ handler'[t] # handler[t])

LEMMA SameRow == ASSUME RowInv, NEW t \in Handlers, UNCHANGED post PROVE RowKept(t)
BY DEF RowInv, PostRowTypeOK, RowKept, Row

LEMMA ReceiveKeeps ==
    ASSUME RowInv, NEW t \in Handlers, NEW kind \in {"post", "counts", "views"}, NEW draft \in Row, Receive(t, kind, draft)
    PROVE  RowInv' /\ RowKept(t)
<1> DEFINE s == [at |-> Begins(kind), kind |-> kind, draft |-> draft, seen |-> {}]
<1>1. s \in HandlerStates /\ s.kind = kind /\ s.draft = draft
  BY DEF HandlerStates, Begins
<1>2. Handles(t, s) /\ (kind = "views" => draft.views > 0) /\ UNCHANGED <<post, recorded, faults>>
  BY DEF Receive
<1> HIDE DEF s
<1>3. handler' \in [Handlers -> HandlerStates] /\ ViewsAreSome'
  BY <1>1, <1>2, HandlesKeeps DEF GoodState
<1>4. records' \in 0 .. MaxRecords
  BY PostRowAssumption DEF Receive, RowInv, PostRowTypeOK
<1> QED BY <1>2, <1>3, <1>4, SameRow DEF RowInv, PostRowTypeOK, HandlerStates

LEMMA ReadKeeps == ASSUME RowInv, NEW t \in Handlers, ReadPost(t) PROVE RowInv' /\ RowKept(t)
<1>1. handler' \in [Handlers -> HandlerStates] /\ ViewsAreSome'
  <2>1. CASE Handles(t, Away)
    BY <2>1, StatesGood, HandlesKeeps
  <2>2. CASE Handles(t, [handler[t] EXCEPT !.at = "write", !.seen = post])
    <3> DEFINE a == [handler[t] EXCEPT !.at = "write"]
               b == [a EXCEPT !.seen = post]
    <3>1. a \in HandlerStates /\ (a.kind = "views" => a.draft.views > 0)
      BY StatesGood DEF GoodState
    <3>2. Handles(t, b)
      BY <2>2
    <3> HIDE DEF a
    <3>3. post \subseteq Row
      BY DEF RowInv, PostRowTypeOK
    <3>4. b \in HandlerStates /\ b.kind = a.kind /\ b.draft = a.draft
      BY <3>1, <3>3 DEF HandlerStates
    <3> HIDE DEF b
    <3> QED BY <3>1, <3>2, <3>4, HandlesKeeps DEF GoodState
  <2> QED BY <2>1, <2>2 DEF ReadPost
<1> QED BY <1>1, SameRow DEF ReadPost, RowInv, PostRowTypeOK, HandlerStates

LEMMA InsertKeeps == ASSUME RowInv, NEW t \in Handlers, InsertPost(t) PROVE RowInv' /\ RowKept(t)
<1>1. CASE post = {}
  <2>1. post' = {handler[t].draft} /\ LandedThen(t, [handler[t] EXCEPT !.at = "snapshot"])
    BY <1>1 DEF InsertPost
  <2>2. handler' \in [Handlers -> HandlerStates] /\ ViewsAreSome' /\ faults' \in 0 .. MaxFaults
    <3> DEFINE s == [handler[t] EXCEPT !.at = "snapshot"]
    <3>1. GoodState(s)
      BY StatesGood
    <3>2. LandedThen(t, s)
      BY <2>1
    <3> HIDE DEF s
    <3> QED BY <3>1, <3>2, LandedKeeps
  <2>3. post' \subseteq Row /\ (\A p, q \in post' : p = q) /\ RowKept(t)
    BY <1>1, <2>1, StatesGood DEF RowKept
  <2> QED BY <2>2, <2>3 DEF InsertPost, RowInv, PostRowTypeOK, HandlerStates
<1>2. CASE Again(t) /\ UNCHANGED <<post, faults>>
  <2>1. handler' \in [Handlers -> HandlerStates] /\ ViewsAreSome'
    BY <1>2, AgainGood
  <2> QED BY <1>2, <2>1, SameRow DEF InsertPost, RowInv, PostRowTypeOK, HandlerStates
<1> QED BY <1>1, <1>2 DEF InsertPost

LEMMA ViewsKeep == ASSUME RowInv, NEW t \in Handlers, UpdateViews(t) PROVE RowInv' /\ RowKept(t)
<1>1. handler' \in [Handlers -> HandlerStates] /\ ViewsAreSome' /\ faults' \in 0 .. MaxFaults
  BY StatesGood, LandedKeeps DEF UpdateViews
<1>2. handler[t].draft.views \in {0, 1} /\ handler[t].draft.views > 0
  BY StatesGood DEF UpdateViews, RowInv, ViewsAreSome, Row
<1>3. post' = {[p EXCEPT !.views = handler[t].draft.views] : p \in post}
  BY DEF UpdateViews
<1>4. \A p \in post : [p EXCEPT !.views = handler[t].draft.views] \in Row
                     /\ [p EXCEPT !.views = handler[t].draft.views].tag = p.tag
                     /\ [p EXCEPT !.views = handler[t].draft.views].views = handler[t].draft.views
  BY <1>2 DEF RowInv, PostRowTypeOK, Row
<1>5. RowKept(t)
  <2>1. post' \subseteq Row
    BY <1>3, <1>4
  <2>2. \A p, q \in post' : p = q
    BY <1>3 DEF RowInv, PostRowTypeOK
  <2>3. \A p, q \in post : p = q
    BY DEF RowInv, PostRowTypeOK
  <2> QED BY <1>2, <1>3, <1>4, <2>1, <2>2, <2>3 DEF RowKept
<1> QED BY <1>1, <1>5 DEF UpdateViews, RowInv, PostRowTypeOK, HandlerStates, RowKept

LEMMA UpdateKeeps == ASSUME RowInv, NEW t \in Handlers, UpdatePost(t) PROVE RowInv' /\ RowKept(t)
<1>1. PICK r \in handler[t].seen :
        /\ post' = {[views |-> IF handler[t].kind = "post" THEN Sent(t, r).views ELSE p.views,
                     likes |-> Sent(t, r).likes, tag |-> Labelled(p, Sent(t, r).tag)] : p \in post}
        /\ LandedThen(t, IF FiguresOf(Sent(t, r)) = FiguresOf(r) THEN Away
                         ELSE [handler[t] EXCEPT !.at = "snapshot", !.draft = Sent(t, r)])
  BY DEF UpdatePost
<1>2. handler[t].at = "write" /\ handler[t].kind # "views" /\ handler[t].kind \in {"post", "counts", "views"}
  BY DEF UpdatePost, RowInv, PostRowTypeOK
<1>3. r \in Row /\ handler[t].draft \in Row
  BY StatesGood
<1>4. Sent(t, r) \in Row /\ (handler[t].kind = "post" /\ r.views > 0 => Sent(t, r).views > 0)
  BY <1>3 DEF Sent, KeptViews, Row
<1> DEFINE sent == Sent(t, r)
           a == [handler[t] EXCEPT !.at = "snapshot"]
           b == [a EXCEPT !.draft = sent]
<1>5. a \in HandlerStates /\ a.kind = handler[t].kind /\ a.at = "snapshot"
  BY DEF RowInv, PostRowTypeOK, HandlerStates
<1>6. LandedThen(t, IF FiguresOf(sent) = FiguresOf(r) THEN Away ELSE b)
  BY <1>1
<1> HIDE DEF sent, a
<1>7. b \in HandlerStates /\ b.kind = a.kind /\ b.at = "snapshot"
  BY <1>4, <1>5 DEF HandlerStates, sent
<1> HIDE DEF b
<1>8. PICK s : GoodState(s) /\ s.at # "write" /\ LandedThen(t, s)
  BY <1>2, <1>5, <1>6, <1>7, StatesGood DEF GoodState
<1>9. /\ handler' \in [Handlers -> HandlerStates] /\ ViewsAreSome' /\ faults' \in 0 .. MaxFaults
      /\ handler'[t] = s \/ handler'[t].at = Begins(handler[t].kind)
  BY <1>8, LandedKeeps
<1>10. handler'[t] # handler[t]
  BY <1>2, <1>8, <1>9 DEF Begins
<1>11. \A q \in post' : \E p \in post :
         /\ q \in Row /\ (p.tag # "null" => q.tag # "null")
         /\ q.views = IF handler[t].kind = "post" THEN sent.views ELSE p.views
  <2>1. \A p \in post : p \in Row
    BY DEF RowInv, PostRowTypeOK
  <2>2. \A p \in post : Labelled(p, sent.tag) \in {"null", "related", "not_related"} /\ (p.tag # "null" => Labelled(p, sent.tag) # "null")
    BY <1>4, <2>1 DEF Labelled, Row, sent
  <2>3. sent.views \in {0, 1} /\ sent.likes \in {0, 1}
    BY <1>4 DEF Row, sent
  <2>4. post' = {[views |-> IF handler[t].kind = "post" THEN sent.views ELSE p.views,
                  likes |-> sent.likes, tag |-> Labelled(p, sent.tag)] : p \in post}
    BY <1>1 DEF sent
  <2>5. \A p \in post : p.views \in {0, 1}
    BY <2>1 DEF Row
  <2> QED BY <2>2, <2>3, <2>4, <2>5 DEF Row
<1>12. (\A p, q \in post' : p = q) /\ (post # {} => post' # {})
  <2>1. \A p, q \in post : p = q
    BY DEF RowInv, PostRowTypeOK
  <2> QED BY <1>1, <2>1
<1>13. \A p, q \in post : p = q /\ p.views \in {0, 1}
  BY DEF RowInv, PostRowTypeOK, Row
<1>14. sent.views > 0 \/ handler[t].kind # "post" \/ ReadTooEarly(t)
  BY <1>2, <1>3, <1>4 DEF ReadTooEarly, Row, sent
<1>15. RowKept(t)
  <2>1. post' \subseteq Row
    BY <1>11
  <2>2. \A p \in post, q \in post' :
          /\ p.tag # "null" => q.tag # "null"
          /\ p.views > 0 => q.views > 0 \/ (ReadTooEarly(t) /\ handler'[t] # handler[t])
    BY <1>10, <1>11, <1>13, <1>14
  <2> QED BY <1>12, <2>1, <2>2 DEF RowKept
<1> QED BY <1>9, <1>15 DEF UpdatePost, RowInv, PostRowTypeOK, HandlerStates, RowKept

LEMMA SnapshotKeeps == ASSUME RowInv, NEW t \in Handlers, RecordSnapshot(t) \/ StatementFails(t) PROVE RowInv' /\ RowKept(t)
<1>1. handler' \in [Handlers -> HandlerStates] /\ ViewsAreSome' /\ faults' \in 0 .. MaxFaults
  <2>1. CASE RecordSnapshot(t)
    BY <2>1, StatesGood, LandedKeeps DEF RecordSnapshot
  <2>2. CASE StatementFails(t)
    BY <2>2, AgainGood, PostRowAssumption DEF StatementFails, Fault, RowInv, PostRowTypeOK
  <2> QED BY <2>1, <2>2
<1>2. FiguresOf(handler[t].draft) \in Figures
  BY StatesGood DEF FiguresOf, Figures, Row
<1>3. recorded' \subseteq Figures
  BY <1>2 DEF RecordSnapshot, StatementFails, RowInv, PostRowTypeOK
<1>4. UNCHANGED <<post, records>>
  BY DEF RecordSnapshot, StatementFails
<1> QED BY <1>1, <1>3, <1>4, SameRow DEF RowInv, PostRowTypeOK, HandlerStates

LEMMA RowStep ==
    ASSUME RowInv, PostRowNext
    PROVE  RowInv' /\ \E t \in Handlers : RowKept(t)
BY ReceiveKeeps, ReadKeeps, InsertKeeps, ViewsKeep, UpdateKeeps, SnapshotKeeps DEF PostRowNext

LEMMA RowInvStep == RowInv /\ [PostRowNext]_postVars => RowInv'
<1>1. RowInv /\ UNCHANGED postVars => RowInv'
  BY DEF postVars, RowInv, PostRowTypeOK, ViewsAreSome
<1> QED BY <1>1, RowStep

\* The row, the tasks at it and the records have their types, for any number of tasks and records.
THEOREM RowTypes == PostRowSpec => []PostRowTypeOK
<1>1. RowInv => PostRowTypeOK
  BY DEF RowInv
<1> QED BY <1>1, RowInvInit, RowInvStep, PTL DEF PostRowSpec

\* However the tasks at a post cross, it keeps its label, and its views but for a task that read the
\* row before they came: for any number of tasks, records and failures.
THEOREM RecrawlsKeepTheRow == PostRowSpec => RecrawlKeeps
<1>1. RowInv /\ [PostRowNext]_postVars =>
        [\A p \in post :
            /\ post' # {}
            /\ \A q \in post' :
                /\ p.tag # "null" => q.tag # "null"
                /\ p.views > 0 => q.views > 0 \/ \E t \in Handlers : ReadTooEarly(t) /\ handler'[t] # handler[t]]_postVars
  BY RowStep DEF RowKept
<1> QED BY <1>1, RowInvInit, RowInvStep, PTL DEF PostRowSpec, RecrawlKeeps

=============================================================================
