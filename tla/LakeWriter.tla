------------------------------ MODULE LakeWriter ------------------------------
(***************************************************************************)
(* The lake writer (app/workers/lake_writer/main.py), for one partition of *)
(* one topic.  A writer keeps the records it reads in memory, and from     *)
(* time to time writes them to the lake, one object per platform and day,  *)
(* named after the first and the last offset of the batch; then it commits *)
(* and forgets them.  Another writer, or the next life of this one, begins *)
(* at what is committed.  Nothing is done when the group rebalances: the   *)
(* memory keeps records of a partition that is gone.                       *)
(***************************************************************************)
EXTENDS Naturals, Sequences, FiniteSets

CONSTANTS
    Writers,       \* processes of the group
    LastOffset,    \* bound: the records of the partition are 0 .. LastOffset
    Platforms,
    PlatformOf,    \* PlatformOf[o]: the platform, and day, of record o
    BatchMax,      \* BATCH_MAX_RECORDS
    MaxChanges     \* bound: rebalances and kills

Offsets == 0 .. LastOffset

ASSUME LakeAssumption ==
    /\ Writers # {} /\ LastOffset \in Nat /\ PlatformOf \in [Offsets -> Platforms]
    /\ BatchMax \in Nat \ {0} /\ MaxChanges \in Nat

VARIABLES
    end,         \* next offset a producer writes
    committed,   \* offset the broker holds for the group
    owner,       \* writer the partition is assigned to
    position,    \* position[w]: next offset it would fetch
    buffer,      \* buffer[w]: offsets in its memory, in the order read
    flush,       \* flush[w]: platforms _flush has not written yet
    flushing,    \* writers in _flush
    objects,     \* objects of the lake: key and the offsets it holds
    changes

lakeVars == <<end, committed, owner, position, buffer, flush, flushing, objects, changes>>

LakeInit ==
    /\ end = 0 /\ committed = 0 /\ owner = CHOOSE w \in Writers : TRUE
    /\ position = [w \in Writers |-> 0] /\ buffer = [w \in Writers |-> << >>]
    /\ flush = [w \in Writers |-> {}] /\ flushing = {} /\ objects = {} /\ changes = 0

Buffered(w) == {buffer[w][i] : i \in 1 .. Len(buffer[w])}

Produce ==
    /\ end <= LastOffset /\ end' = end + 1
    /\ UNCHANGED <<committed, owner, position, buffer, flush, flushing, objects, changes>>

\* getmany
Fetch(w) ==
    /\ w = owner /\ w \notin flushing /\ position[w] < end /\ Len(buffer[w]) < 2 * BatchMax
    /\ buffer' = [buffer EXCEPT ![w] = Append(@, position[w])]
    /\ position' = [position EXCEPT ![w] = @ + 1]
    /\ UNCHANGED <<end, committed, owner, flush, flushing, objects, changes>>

\* Mutant: only a full batch is written.
FullBatch(w) == Len(buffer[w]) >= BatchMax

\* A full batch, or FLUSH_EVERY_SECONDS since the last, which may have passed at any time.
FlushDue(w) == buffer[w] # << >>

BeginFlush(w) ==
    /\ w \notin flushing /\ FlushDue(w)
    /\ flushing' = flushing \cup {w}
    /\ flush' = [flush EXCEPT ![w] = {PlatformOf[o] : o \in Buffered(w)}]
    /\ UNCHANGED <<end, committed, owner, position, buffer, objects, changes>>

First(w) == buffer[w][1]
Last(w)  == buffer[w][Len(buffer[w])]

\* put_object replaces the object of that name.
PutObject(w, p) ==
    /\ p \in flush[w] /\ flush' = [flush EXCEPT ![w] = @ \ {p}]
    /\ LET new == [platform |-> p, first |-> First(w), last |-> Last(w),
                   holds |-> {o \in Buffered(w) : PlatformOf[o] = p}] IN
        objects' = {x \in objects : <<x.platform, x.first, x.last>> # <<p, new.first, new.last>>} \cup {new}
    /\ UNCHANGED <<end, committed, owner, position, buffer, flushing, changes>>

\* Mutant: the commit does not wait for the objects.
CommitsEarly(w) == w \in flushing

\* consumer.commit comes after the last put.
AllWritten(w) == w \in flushing /\ flush[w] = {}

Forget(w) ==
    /\ buffer' = [buffer EXCEPT ![w] = << >>] /\ flush' = [flush EXCEPT ![w] = {}]
    /\ flushing' = flushing \ {w}

\* last + 1; then buffers.clear().
Commit(w) ==
    /\ AllWritten(w) /\ w = owner
    /\ committed' = Last(w) + 1 /\ Forget(w)
    /\ UNCHANGED <<end, owner, position, objects, changes>>

\* The broker refuses the commit of a member that has lost the partition; run() ends, and the
\* service is started again.
CommitRefused(w) ==
    /\ AllWritten(w) /\ w # owner /\ Forget(w)
    /\ UNCHANGED <<end, committed, owner, position, objects, changes>>

\* The group rebalances; the partition may come back to the writer that had it.
LakeRebalance(w) ==
    /\ changes < MaxChanges /\ changes' = changes + 1
    /\ owner' = w /\ position' = [position EXCEPT ![w] = committed]
    /\ UNCHANGED <<end, committed, buffer, flush, flushing, objects>>

\* A kill, or a put or commit that fails; the commit may have landed.  The restarted process joins.
KillWriter(w) ==
    /\ changes < MaxChanges /\ changes' = changes + 1
    /\ committed' \in {committed, IF AllWritten(w) /\ w = owner THEN Last(w) + 1 ELSE committed}
    /\ Forget(w) /\ owner' \in Writers
    /\ position' = [position EXCEPT ![owner'] = committed']
    /\ UNCHANGED <<end, objects>>

LakeStep(w) ==
    \/ Fetch(w) \/ BeginFlush(w) \/ Commit(w) \/ CommitRefused(w)
    \/ \E p \in Platforms : PutObject(w, p)

LakeNext ==
    \/ Produce
    \/ \E w \in Writers : LakeStep(w) \/ LakeRebalance(w) \/ KillWriter(w)

\* The loop of a running writer goes on, and the lake takes its objects.
LakeFairness == \A w \in Writers : WF_lakeVars(LakeStep(w))

LakeSpec == LakeInit /\ [][LakeNext]_lakeVars /\ LakeFairness

-----------------------------------------------------------------------------
(* Properties                                                              *)

InLake == UNION {x.holds : x \in objects}

LakeTypeOK ==
    /\ end \in 0 .. LastOffset + 1 /\ committed \in 0 .. LastOffset + 1 /\ owner \in Writers
    /\ position \in [Writers -> 0 .. LastOffset + 1] /\ buffer \in [Writers -> Seq(Offsets)]
    /\ flush \in [Writers -> SUBSET Platforms] /\ flushing \subseteq Writers
    /\ objects \subseteq [platform : Platforms, first : Offsets, last : Offsets, holds : SUBSET Offsets]
    /\ changes \in 0 .. MaxChanges

\* What the group has committed is in the lake and stays there: no kill between two objects, no
\* batch of a writer that has lost the partition, and no object written over another of the same
\* name takes a record away that nobody will read again.
CommittedInLake == \A o \in Offsets : o < committed => o \in InLake

\* Every record comes to the lake in the end, the last few of a quiet topic as well.
AllReachLake == \A o \in Offsets : o < end ~> o \in InLake
=============================================================================
