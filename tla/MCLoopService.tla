--------------------------- MODULE MCLoopService ---------------------------
EXTENDS LoopService, TLC

CONSTANTS c1, c2, d1, d2, team, actor, self, issue, session, key1, key2

MCRunners == {c1, c2}
MCDeliveries == {d1, d2}

MCOptions ==
    [teams |-> {team}, projects |-> Unset, states |-> Unset, labels |-> {"bug", "ui"},
     actions |-> {"create"}, excludeActors |-> {}, selfActor |-> self]

Event(key) ==
    [path |-> TRUE, json |-> TRUE, signature |-> "right", stamp |-> "recent",
     type |-> "Issue", action |-> "create", issue |-> issue, session |-> session, team |-> team,
     project |-> Absent, state |-> Absent, labels |-> {"bug"}, actor |-> actor,
     keys |-> <<key, Absent, Absent, Absent>>, sent |-> 1]

(* Two events, one of them without any identity but its own, and one       *)
(* request for each way of being turned away.                              *)
MCRequests ==
    {Event(key1), Event(Absent),
     [Event(key1) EXCEPT !.path = FALSE], [Event(key1) EXCEPT !.json = FALSE],
     [Event(key1) EXCEPT !.stamp = "outside"], [Event(key2) EXCEPT !.team = Absent, !.session = Absent],
     [Event(key2) EXCEPT !.labels = {}, !.actor = self]}

Served(source, incarnations, checkpoints) ==
    [source |-> source, incarnations |-> incarnations, checkpoints |-> checkpoints,
     fans |-> FALSE, backed |-> FALSE, width |-> 0]
Fanned(backed, width) ==
    [source |-> "run", incarnations |-> 1, checkpoints |-> 1, fans |-> TRUE, backed |-> backed, width |-> width]

MCSetups ==
    {Served("manual", 2, 2), Served("linear-issue", 1, 1), Served("linear-issue", 2, 0),
     Served("linear-agent", 1, 0), Served("webhook", 1, 1),
     Fanned(TRUE, 2), Fanned(FALSE, 2), Fanned(FALSE, 0)}

MCBranches == 1 .. 3

Asking(policy, quorums, tolerances) ==
    [policy : {policy}, quorum : quorums, onPartialFailure : tolerances]

MCJoinRequests ==
    LET given == {{}, {FailFast}, {Tolerate(2)}}
    IN Asking("barrier", {NoQuorum}, given) \cup Asking("race", {NoQuorum}, given)
         \cup Asking("reduce", {NoQuorum}, given) \cup Asking("quorum", 0 .. 2, given)
=============================================================================
