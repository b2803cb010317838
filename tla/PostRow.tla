-------------------------------- MODULE PostRow --------------------------------
(***************************************************************************)
(* One post in D1 and the tasks of the ingest consumer that write it       *)
(* (app/repositories/d1/posts.py: persist_post, update_post_views and      *)
(* update_post_engagement).  Several crawls and readings of its figures    *)
(* may be handled at once.  D1 has no transaction over two statements:     *)
(* what was read may be old when the row is written.  Under d1_strict a    *)
(* statement that fails raises, whether or not it has landed, and the      *)
(* record is handled again from its beginning.                             *)
(***************************************************************************)
EXTENDS Naturals

CONSTANTS
    Handlers,    \* tasks that may be at this post together
    MaxRecords,  \* bound: records handled
    MaxFaults    \* bound: statements that fail, and kills

ASSUME PostRowAssumption == MaxRecords \in Nat /\ MaxFaults \in Nat

VARIABLES
    post,      \* the row, in a set of at most one
    recorded,  \* the last row of post_engagement_snapshots, in a set of at most one
    handler,   \* handler[t]: where task t is, its record, and the row it has read
    records, faults

postVars == <<post, recorded, handler, records, faults>>

\* views, likes: none, or some.  tag: relevance_label.
Figures == [views : {0, 1}, likes : {0, 1}]
Row     == [views : {0, 1}, likes : {0, 1}, tag : {"null", "related", "not_related"}]
Blank   == [views |-> 0, likes |-> 0, tag |-> "null"]
Away    == [at |-> "away", kind |-> "post", draft |-> Blank, seen |-> {}]

FiguresOf(r) == [views |-> r.views, likes |-> r.likes]

PostRowInit ==
    /\ post = {} /\ recorded = {} /\ handler = [t \in Handlers |-> Away] /\ records = 0 /\ faults = 0

Handles(t, s) == handler' = [handler EXCEPT ![t] = s]

\* A record of each kind begins with the statement that its handler begins with.
Begins(kind) == IF kind = "views" THEN "write" ELSE "read"
Again(t)     == Handles(t, [handler[t] EXCEPT !.at = Begins(handler[t].kind), !.seen = {}])
Fault        == faults < MaxFaults /\ faults' = faults + 1

\* A statement of task t has landed; its answer may be lost all the same.
LandedThen(t, s) == \/ Handles(t, s) /\ UNCHANGED faults
                    \/ Fault /\ Again(t)

-----------------------------------------------------------------------------
(* handle_post: a crawl of the post, or a metrics record                   *)

\* A metrics record without views, or without reactions, sets none.
Receive(t, kind, draft) ==
    /\ handler[t].at = "away" /\ records < MaxRecords /\ records' = records + 1
    /\ kind = "views" => draft.views > 0
    /\ kind # "post" => draft.tag = "null"
    /\ Handles(t, [at |-> Begins(kind), kind |-> kind, draft |-> draft, seen |-> {}])
    /\ UNCHANGED <<post, recorded, faults>>

\* The SELECT of the row.  Figures of a post that is not there are dropped.
ReadPost(t) ==
    /\ handler[t].at = "read"
    /\ IF post = {} /\ handler[t].kind = "counts" THEN Handles(t, Away)
       ELSE Handles(t, [handler[t] EXCEPT !.at = "write", !.seen = post])
    /\ UNCHANGED <<post, recorded, records, faults>>

\* INSERT INTO posts.  Where another task was first, the unique index refuses the row
\* (IngestWriteFailed): the handler begins again, and finds the one that is there.
InsertPost(t) ==
    /\ handler[t].at = "write" /\ handler[t].kind = "post" /\ handler[t].seen = {}
    /\ IF post = {}
       THEN post' = {handler[t].draft} /\ LandedThen(t, [handler[t] EXCEPT !.at = "snapshot"])
       ELSE Again(t) /\ UNCHANGED <<post, faults>>
    /\ UNCHANGED <<recorded, records>>

\* Mutant: the views of the record are written as they are.
ViewsAsSent(draft, r) == draft.views

\* A crawl that has no views keeps those that were read.
KeptViews(draft, r) == IF draft.views = 0 THEN r.views ELSE draft.views

\* The figures that the task sends, having read r.
Sent(t, r) ==
    IF handler[t].kind = "post"
    THEN [handler[t].draft EXCEPT !.views = KeptViews(handler[t].draft, r)]
    ELSE [handler[t].draft EXCEPT !.views = r.views]

\* COALESCE(?, relevance_label)
Labelled(r, tag) == IF tag = "null" THEN r.tag ELSE tag

\* UPDATE posts SET ... of a crawl, or of likes and comments; a snapshot when a figure has changed.
UpdatePost(t) ==
    /\ handler[t].at = "write" /\ handler[t].kind # "views"
    /\ \E r \in handler[t].seen :
        LET sent == Sent(t, r) IN
        /\ post' = {[views |-> IF handler[t].kind = "post" THEN sent.views ELSE p.views,
                     likes |-> sent.likes, tag |-> Labelled(p, sent.tag)] : p \in post}
        /\ LandedThen(t, IF FiguresOf(sent) = FiguresOf(r) THEN Away
                         ELSE [handler[t] EXCEPT !.at = "snapshot", !.draft = sent])
    /\ UNCHANGED <<recorded, records>>

\* update_post_views: one statement, and no snapshot.
UpdateViews(t) ==
    /\ handler[t].at = "write" /\ handler[t].kind = "views"
    /\ post' = {[p EXCEPT !.views = handler[t].draft.views] : p \in post}
    /\ LandedThen(t, Away)
    /\ UNCHANGED <<recorded, records>>

\* INSERT INTO post_engagement_snapshots
RecordSnapshot(t) ==
    /\ handler[t].at = "snapshot"
    /\ recorded' = {FiguresOf(handler[t].draft)} /\ LandedThen(t, Away)
    /\ UNCHANGED <<post, records>>

\* The statement does not land, or the process is killed: the record is handled again.
StatementFails(t) ==
    /\ handler[t].at # "away" /\ Fault /\ Again(t)
    /\ UNCHANGED <<post, recorded, records>>

PostRowNext ==
    \E t \in Handlers :
        \/ ReadPost(t) \/ InsertPost(t) \/ UpdatePost(t) \/ UpdateViews(t) \/ RecordSnapshot(t)
        \/ StatementFails(t)
        \/ \E kind \in {"post", "counts", "views"}, draft \in Row : Receive(t, kind, draft)

PostRowSpec == PostRowInit /\ [][PostRowNext]_postVars

-----------------------------------------------------------------------------
(* Properties                                                              *)

PostRowTypeOK ==
    /\ post \subseteq Row /\ \A p, q \in post : p = q
    /\ recorded \subseteq Figures
    /\ handler \in [Handlers -> [at : {"away", "read", "write", "snapshot"},
                                 kind : {"post", "counts", "views"}, draft : Row, seen : SUBSET Row]]
    /\ records \in 0 .. MaxRecords /\ faults \in 0 .. MaxFaults

\* Task t read the row before it had views, and will write it now.
ReadTooEarly(t) == handler[t].at = "write" /\ \E r \in handler[t].seen : r.views = 0

\* However the tasks at a post cross, and however often a record is handled again, its label is
\* never lost, nor are its views, which only the Reels tab has: but for a crawl that had read the
\* row before the views came.
RecrawlKeeps ==
    [][\A p \in post :
        /\ post' # {}
        /\ \A q \in post' :
            /\ p.tag # "null" => q.tag # "null"
            /\ p.views > 0 => q.views > 0 \/ \E t \in Handlers : ReadTooEarly(t) /\ handler'[t] # handler[t]]_postVars
=============================================================================
