------------------------------ MODULE MCIngest ------------------------------
(* Instances of IngestConsumer for TLC.                                    *)
EXTENDS IngestConsumer

CONSTANTS P, C, x1, x2

(* One booking to come and two comments under it, the second without an id *)
(* of its own; the posts before it are already committed.                  *)
MCComments == [p \in Partitions |->
                  [o \in Offsets |-> IF p = P THEN "listed" ELSE IF o = 1 THEN "nokey" ELSE "keep"]]
MCSame == [p \in Partitions |-> [o \in Offsets |-> x1]]
MCStarted == [p \in Partitions |-> IF p = P THEN LogLen - 1 ELSE 0]

(* One partition of posts; LogLen says how many of these it holds.         *)
MCKinds == <<"poison", "drop", "drop", "undecodable">>
MCPosts == [p \in Partitions |-> [o \in Offsets |-> MCKinds[o + 1]]]
MCEach == [p \in Partitions |-> [o \in Offsets |-> IF o = 1 THEN x2 ELSE x1]]

MCOne == [t \in Topics |-> 1]
MCFour == [t \in Topics |-> 4]
MCZeroes == [p \in Partitions |-> 0]
MCFull == [p \in Partitions |-> LogLen]
MCGrowing == [p \in Partitions |-> IF p = C THEN LogLen - 1 ELSE LogLen]
MCNoOffsets == [p \in Partitions |-> NoOffset]
=============================================================================
