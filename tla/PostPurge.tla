------------------------------ MODULE PostPurge ------------------------------
(***************************************************************************)
(* The purge of irrelevant posts (app/services/relevance/cleanup.py).  The *)
(* scheduler, the Run-now button and a script may all start one; a lock in *)
(* Redis with a token and a time to live keeps them apart.  A purge reads  *)
(* its candidates once and then, batch by batch, copies the rows of a      *)
(* batch to the R2 lake, deletes them from D1 and takes what it has copied *)
(* off the daily statistics.  Meanwhile ingestion stores posts and         *)
(* comments, operators label posts again, and the statistics of the day    *)
(* are counted again from the rows (reconcile_recent_days): until then the *)
(* posts that have been stored are not in them.                            *)
(***************************************************************************)
EXTENDS Naturals, FiniteSets

CONSTANTS
    Purgers,       \* processes that may run run_purge
    Posts,         \* posts and comments that are stored, or may be in the course of a
    Comments,      \* behavior; a post that comes back after a purge is another one
    PostOf,        \* PostOf[c]: the post comment c is under
    NamesCast,     \* posts that name an actor or the director of their film
    MaxPurges,     \* bound: purges begun
    MaxAccidents,  \* bound: kills, statements that fail, locks that run out
    NoOne          \* the lock is free

ASSUME PurgeAssumption ==
    /\ PostOf \in [Comments -> Posts] /\ NamesCast \subseteq Posts
    /\ IsFiniteSet(Posts) /\ IsFiniteSet(Purgers) /\ Posts \cap Comments = {}
    /\ MaxPurges \in Nat /\ MaxAccidents \in Nat /\ NoOne \notin Purgers

VARIABLES
    label,      \* label[p]: relevance_label of the row
    rows,       \* posts and comments in D1
    lake,       \* posts and comments copied under backups/purge
    counted,    \* the number of posts in the statistics of the day
    lock,       \* whose token the lock holds
    purge,      \* purge[w]: where run_purge is in process w
    \* history
    removed,    \* rows deleted
    late,       \* rows stored after their post had been copied
    missed,     \* posts stored since the day was last counted, deleted or not
    overlapped, \* since then a purge may have been overlapped, by another or by that count
    cutShort,   \* since then a purge has deleted posts and not taken them off
    purges, accidents

purgeData    == <<label, rows, lake, counted>>
purgeHistory == <<removed, late, missed, overlapped, cutShort, purges, accidents>>
purgeVars    == <<purgeData, lock, purge, purgeHistory>>

Resting == [at |-> "idle", ids |-> {}, batch |-> {}, copy |-> {}, owns |-> FALSE]

PurgeInit ==
    /\ label = [p \in Posts |-> "not_related"] /\ rows \in SUBSET Posts /\ lake = {}
    /\ counted = Cardinality(rows) /\ lock = NoOne
    /\ purge = [w \in Purgers |-> Resting]
    /\ removed = {} /\ late = {} /\ missed = {} /\ overlapped = FALSE /\ cutShort = FALSE
    /\ purges = 0 /\ accidents = 0

Stored       == Cardinality(rows \cap Posts)
Children(ps) == {c \in Comments : PostOf[c] \in ps}
Purging(w)   == purge[w].at # "idle"

PurgeGoesOn(w, s) == purge' = [purge EXCEPT ![w] = s]

-----------------------------------------------------------------------------
(* run_purge and purge_irrelevant_posts                                    *)

\* Mutant: the lock is set whether or not there is one.
LockTaken == TRUE

\* SET NX
LockFree == lock = NoOne

AcquirePurge(w) ==
    /\ ~Purging(w) /\ purges < MaxPurges /\ LockFree
    /\ lock' = w /\ purges' = purges + 1
    /\ PurgeGoesOn(w, [Resting EXCEPT !.at = "select"])
    /\ UNCHANGED <<purgeData, removed, late, missed, overlapped, cutShort, accidents>>

\* The grace period is over for every post labelled not_related: the operator may have set it to
\* 0 hours, and posts stored this day are eligible too.
Eligible == {p \in rows \cap Posts : label[p] = "not_related"}

\* The candidates; those that name the cast become uncertain.
SelectCandidates(w) ==
    /\ purge[w].at = "select"
    /\ LET named == Eligible \cap NamesCast IN
        /\ label' = [p \in Posts |-> IF p \in named THEN "uncertain" ELSE label[p]]
        /\ PurgeGoesOn(w, [purge[w] EXCEPT !.at = "batch", !.ids = Eligible \ named])
    /\ UNCHANGED <<rows, lake, counted, lock, purgeHistory>>

\* Mutant: the rows of a batch are deleted without a copy.
DeleteFirst == "delete"

\* A batch is copied before it is deleted.
AfterChoice == "backup"

NextBatch(w) ==
    /\ purge[w].at = "batch" /\ purge[w].ids # {}
    /\ \E p \in purge[w].ids :
        PurgeGoesOn(w, [purge[w] EXCEPT !.at = AfterChoice, !.ids = @ \ {p}, !.batch = {p}, !.copy = {}])
    /\ UNCHANGED <<purgeData, lock, purgeHistory>>

\* SELECT * of the posts and of their comments, each put into the lake.
BackUp(w) ==
    /\ purge[w].at = "backup"
    /\ LET copy == rows \cap (purge[w].batch \cup Children(purge[w].batch)) IN
        /\ lake' = lake \cup copy
        /\ PurgeGoesOn(w, [purge[w] EXCEPT !.at = "delete", !.copy = copy])
    /\ UNCHANGED <<label, rows, counted, lock, purgeHistory>>

\* DELETE FROM comments and the other tables below a post
DeleteChildren(w) ==
    /\ purge[w].at = "delete"
    /\ rows' = rows \ Children(purge[w].batch)
    /\ removed' = removed \cup (rows \cap Children(purge[w].batch))
    /\ PurgeGoesOn(w, [purge[w] EXCEPT !.at = "posts"])
    /\ UNCHANGED <<label, lake, counted, lock, late, missed, overlapped, cutShort, purges, accidents>>

DeletePosts(w) ==
    /\ purge[w].at = "posts"
    /\ rows' = rows \ purge[w].batch
    /\ removed' = removed \cup (rows \cap purge[w].batch)
    /\ PurgeGoesOn(w, [purge[w] EXCEPT !.at = "subtract"])
    /\ UNCHANGED <<label, lake, counted, lock, late, missed, overlapped, cutShort, purges, accidents>>

\* subtract_deleted(backup): what was copied is taken off, and no count goes below 0.
TakeOff(w) ==
    LET n == Cardinality(purge[w].copy \cap Posts) IN IF n < counted THEN counted - n ELSE 0

SubtractDeleted(w) ==
    /\ purge[w].at = "subtract"
    /\ \/ counted' = TakeOff(w) /\ UNCHANGED <<cutShort, accidents>>
       \/ /\ accidents < MaxAccidents /\ accidents' = accidents + 1
          /\ cutShort' = TRUE /\ UNCHANGED counted
    /\ PurgeGoesOn(w, [purge[w] EXCEPT !.at = "batch", !.batch = {}, !.copy = {}])
    /\ UNCHANGED <<label, rows, lake, lock, removed, late, missed, overlapped, purges>>

\* The finally clause: the lock is read, and deleted in a call of its own.
ReadToken(w) ==
    /\ purge[w].at = "batch" /\ purge[w].ids = {}
    /\ PurgeGoesOn(w, [Resting EXCEPT !.at = "release", !.owns = (lock = w)])
    /\ UNCHANGED <<purgeData, lock, purgeHistory>>

ReleasePurge(w) ==
    /\ purge[w].at = "release"
    /\ lock' = IF purge[w].owns THEN NoOne ELSE lock
    /\ PurgeGoesOn(w, Resting)
    /\ UNCHANGED <<purgeData, purgeHistory>>

-----------------------------------------------------------------------------
(* What may go wrong                                                       *)

\* A statement fails and the purge ends, through the finally clause; or the process is killed.
PurgeBreaks(w) ==
    /\ Purging(w) /\ purge[w].at # "release" /\ accidents < MaxAccidents
    /\ PurgeGoesOn(w, Resting) /\ lock' \in {lock, IF lock = w THEN NoOne ELSE lock}
    /\ accidents' = accidents + 1
    /\ cutShort' = (cutShort \/ purge[w].at = "subtract")
    /\ UNCHANGED <<purgeData, removed, late, missed, overlapped, purges>>

\* The lock lives two hours.
PurgeLockRunsOut ==
    /\ lock # NoOne /\ accidents < MaxAccidents
    /\ lock' = NoOne /\ accidents' = accidents + 1
    /\ overlapped' = (overlapped \/ Purging(lock))
    /\ UNCHANGED <<purgeData, purge, removed, late, missed, cutShort, purges>>

\* persist_post.  The statistics know nothing of it.
StorePost(p) ==
    /\ p \notin rows \cup removed
    /\ rows' = rows \cup {p} /\ missed' = missed \cup {p}
    /\ UNCHANGED <<label, lake, counted, lock, purge, removed, late, overlapped, cutShort, purges, accidents>>

\* persist_comment: the parent has been read, and is there.
StoreComment(c) ==
    /\ c \notin rows \cup removed /\ PostOf[c] \in rows
    /\ rows' = rows \cup {c}
    /\ late' = IF \E w \in Purgers : PostOf[c] \in purge[w].copy THEN late \cup {c} ELSE late
    /\ UNCHANGED <<label, lake, counted, lock, purge, removed, missed, overlapped, cutShort, purges, accidents>>

\* The dashboard: a post is related after all.
RelabelPost(p) ==
    /\ p \in rows /\ label[p] # "related"
    /\ label' = [label EXCEPT ![p] = "related"]
    /\ UNCHANGED <<rows, lake, counted, lock, purge, purgeHistory>>

\* reconcile_recent_days: the day is counted again, unless none of its posts is left to count.
\* A purge that has deleted posts then takes them off once more.
Reconcile ==
    /\ rows \cap Posts # {}
    /\ counted' = Stored /\ missed' = {} /\ cutShort' = FALSE
    /\ overlapped' = IF \E w \in Purgers : purge[w].at = "subtract" THEN TRUE
                  ELSE overlapped /\ \E w \in Purgers : Purging(w)
    /\ UNCHANGED <<label, rows, lake, lock, purge, removed, late, purges, accidents>>

PurgeNext ==
    \/ \E w \in Purgers :
        \/ AcquirePurge(w) \/ SelectCandidates(w) \/ NextBatch(w) \/ BackUp(w)
        \/ DeleteChildren(w) \/ DeletePosts(w) \/ SubtractDeleted(w)
        \/ ReadToken(w) \/ ReleasePurge(w) \/ PurgeBreaks(w)
    \/ PurgeLockRunsOut \/ Reconcile
    \/ \E c \in Comments : StoreComment(c)
    \/ \E p \in Posts : StorePost(p) \/ RelabelPost(p)

PurgeSpec == PurgeInit /\ [][PurgeNext]_purgeVars

-----------------------------------------------------------------------------
(* Properties                                                              *)

PurgeTypeOK ==
    /\ label \in [Posts -> {"not_related", "uncertain", "related"}]
    /\ rows \subseteq Posts \cup Comments /\ lake \subseteq Posts \cup Comments
    /\ counted \in Nat /\ lock \in Purgers \cup {NoOne}
    /\ purge \in [Purgers ->
         [at : {"idle", "select", "batch", "backup", "delete", "posts", "subtract", "release"},
          ids : SUBSET Posts, batch : SUBSET Posts, copy : SUBSET (Posts \cup Comments), owns : BOOLEAN]]
    /\ removed \subseteq Posts \cup Comments /\ late \subseteq Comments /\ missed \subseteq Posts
    /\ overlapped \in BOOLEAN /\ cutShort \in BOOLEAN /\ purges \in Nat /\ accidents \in Nat

\* What a purge deletes can be had back from the lake, even when two purges overlap, one is killed
\* or a statement fails: all but a comment that ingestion stored after its post had been copied.
DeletedIsBackedUp == removed \subseteq lake \cup late

\* n posts, without those that the statistics do not know of.
Known(n) == LET m == Cardinality(missed) IN IF n > m THEN n - m ELSE 0

\* Between purges the statistics are behind the rows by the posts that were stored since the day
\* was last counted, those the purges have deleted meanwhile included, and by nothing else: no post
\* is taken off twice, and none stays counted that is gone.  If purges overlapped, because one has
\* outlived its lock or let go of the lock of the next, or if the day was counted between a
\* deletion and its subtraction, posts may be taken off twice; still none stays that is gone.
\* Excepted is the day of a purge that deleted and did not subtract, until it is counted again.
CountsFollowRows ==
    ~cutShort /\ (\A w \in Purgers : purge[w].at # "subtract") =>
        /\ counted <= Known(Stored)
        /\ ~overlapped => counted = Known(Stored)
=============================================================================
