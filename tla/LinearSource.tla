---------------------------- MODULE LinearSource ----------------------------
(***************************************************************************)
(* What the Linear webhook source, src/src/loop/io/linear.ts, makes of one *)
(* request: whether it is authentic, which event it carries, whether the   *)
(* options want that event, and the key it is deduplicated by.             *)
(*                                                                         *)
(* A request is a record.  Of the wire only what decides is kept:          *)
(*   path       it names the configured path                               *)
(*   json       its body parses                                            *)
(*   signature  "missing", "wrong" or "right"; right covers the timestamp  *)
(*   stamp      "missing", "unreadable", "outside" the replay tolerance,   *)
(*              or "recent"                                                *)
(*   type, action, issue, session, team, project, state, labels, actor     *)
(*              what normalisation finds; Absent where it finds nothing    *)
(*   keys       its Linear-Delivery and Linear-Event-Id headers, and the   *)
(*              webhookId and id of the payload, in this order             *)
(*   sent       its timestamp                                              *)
(* An option that is not given is Unset: it accepts everything.            *)
(***************************************************************************)
EXTENDS Naturals, Sequences

CONSTANTS Absent,       \* a field the payload does not have
          Unset,        \* an option that is not given
          Options       \* of linearIssueSource and linearAgentSource

Verified(request) ==
    /\ request.signature = "right"
    /\ request.stamp = "recent"

MatchesOne(value, accepted) == accepted # Unset => value \in accepted
MatchesLabels(labels, required) == required # Unset => labels \cap required # {}

ActorExcluded(actor) ==
    actor # Absent /\ (actor = Options.selfActor \/ actor \in Options.excludeActors)

WantedIssue(request) ==
    /\ request.type \in {"Issue", "Comment"}
    /\ request.issue # Absent
    /\ MatchesOne(request.team, Options.teams)
    /\ MatchesOne(request.project, Options.projects)
    /\ MatchesOne(request.state, Options.states)
    /\ MatchesLabels(request.labels, Options.labels)
    /\ MatchesOne(request.action, Options.actions)
    /\ ~ActorExcluded(request.actor)

WantedAgentEvent(request) ==
    request.session # Absent /\ ~ActorExcluded(request.actor)

Wanted(kind, request) ==
    IF kind = "linear-issue" THEN WantedIssue(request) ELSE WantedAgentEvent(request)

(* The first of the four identities there is, or a key made of the event   *)
(* itself and its timestamp.                                               *)
DedupeKey(kind, request) ==
    LET given == SelectSeq(request.keys, LAMBDA key : key # Absent)
        about == IF kind = "linear-issue" THEN <<request.type, request.issue>>
                                          ELSE <<"Agent", request.session>>
    IN IF given # <<>> THEN <<Head(given)>> ELSE about \o <<request.action, request.sent>>

Passes(kind, request) ==
    request.path /\ request.json /\ Verified(request) /\ Wanted(kind, request)
=============================================================================
