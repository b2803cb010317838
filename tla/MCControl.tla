------------------------------ MODULE MCControl -------------------------------
(***************************************************************************)
(* Small instances of the parts in which operators, tasks and processes    *)
(* cross.  They share nothing, so a behavior follows one of them, its      *)
(* focus, and the others stay as they began.                               *)
(***************************************************************************)
EXTENDS TaskStop, PostPurge, ReportJobs, AccountPool, PostRow, OmarChannels, OmarSearch, TLC

VARIABLE focus

\* The first comment is under the first post; one post names the cast.
MCPostOf == [c \in Comments |-> CHOOSE p \in Posts \ NamesCast : TRUE]

\* Films and calls are alike; no CHOOSE is over them.
Alike == Permutations(Films) \cup Permutations(Servers)

parts == <<focus, stopVars, purgeVars, reportVars, accountVars, postVars, channelVars, searchVars>>

Init ==
    /\ focus \in {"stop", "purge", "report", "account", "post", "channel", "search"}
    /\ StopInit /\ PurgeInit /\ ReportInit /\ AccountInit /\ PostRowInit /\ OmarChannelsInit /\ OmarSearchInit
    /\ focus # "purge" => rows = Posts
    /\ focus # "account" => \A p \in Proxies : address[p] = (CHOOSE x \in Addresses : TRUE) /\ ipType[p] = "static"

Next ==
    /\ UNCHANGED focus
    /\ IF focus = "stop" THEN StopNext ELSE UNCHANGED stopVars
    /\ IF focus = "purge" THEN PurgeNext ELSE UNCHANGED purgeVars
    /\ IF focus = "report" THEN ReportNext ELSE UNCHANGED reportVars
    /\ IF focus = "account" THEN AccountNext ELSE UNCHANGED accountVars
    /\ IF focus = "post" THEN PostRowNext ELSE UNCHANGED postVars
    /\ IF focus = "channel" THEN OmarChannelsNext ELSE UNCHANGED channelVars
    /\ IF focus = "search" THEN OmarSearchNext ELSE UNCHANGED searchVars

Spec == Init /\ [][Next]_parts
=============================================================================
