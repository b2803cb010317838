--------------------------- MODULE IngestPromise ---------------------------
(***************************************************************************)
(* What the ingest consumer promises to the producers of raw_posts and     *)
(* raw_comments, with no word about tasks, retries, semaphores, crashes or *)
(* rebalances: a record the group owes gets an outcome, and the offset the *)
(* group has committed only ever covers records that already have one.    *)
(*                                                                         *)
(* The cursor may move backwards: records are then handled again, which    *)
(* the upserts of the handlers make harmless.                              *)
(***************************************************************************)
EXTENDS Naturals

CONSTANTS
    Partitions,     \* the topic-partitions of the group
    Offsets,        \* the offsets of their records, natural numbers
    NoOffset        \* "the group has no committed offset"

VARIABLES
    first,          \* first[p]: where the group began reading p
    settled,        \* the <<partition, offset>> pairs that have an outcome
    cursor          \* cursor[p]: the committed offset

vars == <<first, settled, cursor>>

Cursors == Nat \cup {NoOffset}

\* Every record of p from the group's first one up to n (excluded) is settled.
Covered(p, n) ==
    \A o \in Offsets :
        (first[p] # NoOffset /\ first[p] <= o /\ o < n) => <<p, o>> \in settled

Init ==
    /\ first = [p \in Partitions |-> NoOffset]
    /\ settled = {}
    /\ cursor \in [Partitions -> Cursors]

(* The group joins some partitions for the first time; a partition without *)
(* a cursor may be given one, at the place where the group begins.         *)
Join ==
    /\ first' \in [Partitions -> Cursors]
    /\ cursor' \in [Partitions -> Cursors]
    /\ \A p \in Partitions :
          \/ first'[p] = first[p] /\ cursor'[p] = cursor[p]
          \/ /\ first[p] = NoOffset
             /\ first'[p] # NoOffset
             /\ cursor'[p] \in {cursor[p], first'[p]}
    /\ UNCHANGED settled

\* A record is stored, deliberately dropped, or kept in the dead-letter topic.
Settle(p, o) ==
    /\ settled' = settled \cup {<<p, o>>}
    /\ UNCHANGED <<first, cursor>>

\* The cursor moves, in either direction, over settled records only.
MoveCursor(p) ==
    /\ cursor'[p] \in Nat
    /\ Covered(p, cursor'[p])
    /\ cursor' = [cursor EXCEPT ![p] = cursor'[p]]
    /\ UNCHANGED <<first, settled>>

Next ==
    \/ Join
    \/ \E p \in Partitions :
          \/ \E o \in Offsets : Settle(p, o)
          \/ MoveCursor(p)

Spec == Init /\ [][Next]_vars
=============================================================================
