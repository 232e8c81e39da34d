---------------------------- MODULE LoopService ----------------------------
(***************************************************************************)
(* orcats serve: a supervisor (serve of src/src/loop/serve.ts) that owns a *)
(* trigger and spawns one process per firing, and the processes, each of   *)
(* which runs the loop once: it opens the shared store, resumes, works in  *)
(* steps, closes the store, and hands its output to the sink (defineLoop). *)
(*                                                                         *)
(* Processes run, crash and are killed on their own; the supervisor may    *)
(* itself crash and be started again, and knows nothing of what an earlier *)
(* one left running.  What a loop does with the store is its author's: the *)
(* one here keeps to docs/loops.md (load, a checkpoint per step, close).   *)
(*                                                                         *)
(*   setup       fixed for a behaviour: the source, how the loop fans out, *)
(*               and two bounds, supervisors started and checkpoints; a    *)
(*               loop of no checkpoints keeps no store                     *)
(*   supervisor  "none" (orcats run), "serving", "closing" (stop() waits   *)
(*               for the listener), "stopped" or "gone"                    *)
(*   incarnation  which supervisor it is                                   *)
(*   request     each delivery: on its way in, or answered                 *)
(*   seen        the dedupe keys the source remembers                      *)
(*   tracked     the processes in serve's set of children                  *)
(*   child       each process: its stage, whether its loop failed, its     *)
(*               event, the supervisor that spawned it, whether that was   *)
(*               already stopping, and whether it was sent SIGKILL         *)
(*   acked, threw  (history) the wanted keys answered with 200, and those  *)
(*               for which spawning threw                                  *)
(***************************************************************************)
EXTENDS StateStore, FanOut, LinearSource

CONSTANTS Setups,           \* the setups to start from
          Deliveries,       \* bound: requests at one time or over a behaviour
          Requests,         \* what a request may be
          JoinRequests,     \* what a loop may ask of a fan-in
          Launched          \* the process of a loop that orcats run starts, without a supervisor

ASSUME JoinRequestsTyped == JoinRequests \subseteq Asks

VARIABLES setup, supervisor, incarnation, request, seen, tracked, child, acked, threw
serveVars == <<supervisor, incarnation, request, seen, tracked, acked, threw>>
vars == <<setup, serveVars, child, storeVars, fanVars>>

Idle == [at |-> "idle", what |-> Absent]
Unborn == [at |-> "unborn", failed |-> FALSE, event |-> <<>>, by |-> 0, late |-> FALSE, killed |-> FALSE]

Http == setup.source \in {"linear-issue", "linear-agent", "webhook"}
Linear == setup.source \in {"linear-issue", "linear-agent"}
Running(c) == child[c].at \notin {"unborn", "exited"}

Init ==
    /\ setup \in Setups
    /\ supervisor = IF setup.source = "run" THEN "none" ELSE "serving"
    /\ incarnation = 1
    /\ request = [d \in Deliveries |-> Idle]
    /\ seen = {} /\ tracked = {} /\ acked = {} /\ threw = {}
    /\ child = [c \in Runners |->
                  IF setup.source = "run" /\ c = Launched THEN [Unborn EXCEPT !.at = "opening"] ELSE Unborn]
    /\ StoreInit /\ FanInit

-----------------------------------------------------------------------------
(* The supervisor and its trigger.                                         *)

Born(c, event) ==
    [Unborn EXCEPT !.at = "opening", !.event = event, !.by = incarnation,
                   !.late = supervisor # "serving"]

(* The handler given to the source: spawn a process and track it.          *)
Fire(event) == \E c \in Runners :
    /\ child[c].at = "unborn"
    /\ child' = [child EXCEPT ![c] = Born(c, event)]
    /\ tracked' = tracked \cup {c}

(* manual, cron, watch and queue call the handler until they are stopped.  *)
Trigger ==
    /\ supervisor = "serving" /\ ~Http
    /\ Fire(<<setup.source>>)
    /\ UNCHANGED <<setup, supervisor, incarnation, request, seen, acked, threw, storeVars, fanVars>>

Arrive(d) == \E what \in Requests :
    /\ supervisor = "serving" /\ Http
    /\ request[d] = Idle
    /\ request' = [request EXCEPT ![d] = [at |-> "receiving", what |-> what]]
    /\ UNCHANGED <<setup, supervisor, incarnation, seen, tracked, child, acked, threw, storeVars, fanVars>>

Listening == supervisor \in {"serving", "closing"}
Answered(d) == request' = [request EXCEPT ![d] = [at |-> "answered", what |-> Absent]]
Unanswered(d) == request' = [request EXCEPT ![d] = [at |-> "unanswered", what |-> Absent]]

(* The body is in: the plain webhook fires for every request to its path.  *)
ReceiveWebhook(d) ==
    /\ Listening /\ setup.source = "webhook" /\ request[d].at = "receiving"
    /\ Answered(d)
    /\ IF request[d].what.path THEN Fire(<<d>>) ELSE UNCHANGED <<tracked, child>>
    /\ UNCHANGED <<setup, supervisor, incarnation, seen, acked, threw, storeVars, fanVars>>

Key(d) == DedupeKey(setup.source, request[d].what)

ReceiveLinear_MarksFirst(d) ==   \* mutant: the key is noted before it is looked up
    /\ Listening /\ Linear /\ request[d].at = "receiving"
    /\ Passes(setup.source, request[d].what)
    /\ seen' = seen \cup {Key(d)}
    /\ IF Key(d) \in seen' THEN UNCHANGED <<tracked, child>> ELSE Fire(Key(d))
    /\ acked' = acked \cup {Key(d)}
    /\ Answered(d)
    /\ UNCHANGED <<setup, supervisor, incarnation, threw, storeVars, fanVars>>

(* A wanted event: it fires unless its key has been seen, and is answered  *)
(* with 200 in either case.                                                *)
ReceiveLinear(d) ==
    /\ Listening /\ Linear /\ request[d].at = "receiving"
    /\ Passes(setup.source, request[d].what)
    /\ seen' = seen \cup {Key(d)}
    /\ IF Key(d) \in seen THEN UNCHANGED <<tracked, child>> ELSE Fire(Key(d))
    /\ acked' = acked \cup {Key(d)}
    /\ Answered(d)
    /\ UNCHANGED <<setup, supervisor, incarnation, threw, storeVars, fanVars>>

(* Anything else is answered (404, 400, 401 or 200) and forgotten.         *)
TurnAway(d) ==
    /\ Listening /\ Linear /\ request[d].at = "receiving"
    /\ ~Passes(setup.source, request[d].what)
    /\ Answered(d)
    /\ UNCHANGED <<setup, supervisor, incarnation, seen, tracked, child, acked, threw, storeVars, fanVars>>

(* Spawning throws inside the listener: the key is remembered, no answer   *)
(* is sent, and the error ends the supervisor or only its handler.  Where  *)
(* another source's handler throws, the supervisor dies (SupervisorDies).  *)
SpawnThrows(d) ==
    /\ Listening /\ Linear /\ request[d].at = "receiving"
    /\ Passes(setup.source, request[d].what) /\ Key(d) \notin seen
    /\ seen' = seen \cup {Key(d)} /\ threw' = threw \cup {Key(d)}
    /\ Unanswered(d)
    /\ supervisor' \in {supervisor, "gone"}
    /\ UNCHANGED <<setup, incarnation, tracked, child, acked, storeVars, fanVars>>

(* The sender closes its connection.                                       *)
SenderLeaves(d) ==
    /\ request[d].at \in {"receiving", "unanswered"}
    /\ Answered(d)
    /\ UNCHANGED <<setup, supervisor, incarnation, seen, tracked, child, acked, threw, storeVars, fanVars>>

Killed(cs) == child' = [c \in Runners |-> IF c \in cs THEN [child[c] EXCEPT !.killed = TRUE] ELSE child[c]]

Stop_ClearsFirst ==   \* mutant: the set is cleared before it is gone through
    /\ supervisor = "serving"
    /\ tracked' = {}
    /\ Killed(tracked')
    /\ supervisor' = IF Http THEN "closing" ELSE "stopped"
    /\ UNCHANGED <<setup, incarnation, request, seen, acked, threw, storeVars, fanVars>>

(* stop(): kill the children, forget them, and stop the source.  A direct  *)
(* source stops at once; a listener first answers what it is receiving.    *)
Stop ==
    /\ supervisor = "serving"
    /\ Killed(tracked)
    /\ tracked' = {}
    /\ supervisor' = IF Http THEN "closing" ELSE "stopped"
    /\ UNCHANGED <<setup, incarnation, request, seen, acked, threw, storeVars, fanVars>>

ListenerCloses ==
    /\ supervisor = "closing"
    /\ \A d \in Deliveries : request[d].at \in {"idle", "answered"}
    /\ supervisor' = "stopped"
    /\ UNCHANGED <<setup, incarnation, request, seen, tracked, child, acked, threw, storeVars, fanVars>>

Forget(c) ==
    /\ c \in tracked /\ child[c].at = "exited" /\ supervisor # "gone"
    /\ tracked' = tracked \ {c}
    /\ UNCHANGED <<setup, supervisor, incarnation, request, seen, child, acked, threw, storeVars, fanVars>>

(* The supervisor crashes or is killed; its connections go with it, its    *)
(* children do not.                                                        *)
SupervisorDies ==
    /\ Listening
    /\ supervisor' = "gone"
    /\ UNCHANGED <<setup, incarnation, request, seen, tracked, child, acked, threw, storeVars, fanVars>>

Restart ==
    /\ supervisor \in {"gone", "stopped"} /\ incarnation < setup.incarnations
    /\ supervisor' = "serving" /\ incarnation' = incarnation + 1
    /\ request' = [d \in Deliveries |-> Idle]
    /\ seen' = {} /\ tracked' = {} /\ acked' = {} /\ threw' = {}
    /\ UNCHANGED <<setup, child, storeVars, fanVars>>

-----------------------------------------------------------------------------
(* One process: orcats run of the loop, with its store and its sink.       *)

At(c, stage) == child[c].at = stage
Goes(c, stage) == child' = [child EXCEPT ![c].at = stage]
Exits(c) == child' = [child EXCEPT ![c] = [Unborn EXCEPT !.at = "exited", !.event = child[c].event, !.by = child[c].by]]
Ends(c, failed) == child' = [child EXCEPT ![c].at = "closing", ![c].failed = failed]

(* The process cannot be spawned, or its loop cannot be loaded.            *)
StartFails(c) ==
    /\ At(c, "opening")
    /\ Exits(c)
    /\ UNCHANGED <<setup, serveVars, storeVars, fanVars>>

(* A loop that keeps no durable state.                                     *)
StartsBare(c) ==
    /\ At(c, "opening") /\ setup.checkpoints = 0
    /\ Goes(c, "working")
    /\ UNCHANGED <<setup, serveVars, storeVars, fanVars>>

Opens(c) ==
    /\ At(c, "opening") /\ setup.checkpoints > 0
    /\ Goes(c, "leasing")
    /\ ReadLease(c)
    /\ UNCHANGED <<setup, serveVars, fanVars>>

Leased(c) ==
    /\ At(c, "leasing")
    /\ Goes(c, "resuming")
    /\ InsertLease(c) \/ ReclaimLease(c)
    /\ UNCHANGED <<setup, serveVars, fanVars>>

Refused(c) ==
    /\ At(c, "leasing")
    /\ Exits(c)
    /\ OpenRefused(c)
    /\ UNCHANGED <<setup, serveVars, fanVars>>

Resumes(c) ==
    /\ At(c, "resuming")
    /\ Goes(c, "working")
    /\ Load(c)
    /\ UNCHANGED <<setup, serveVars, fanVars>>

Saves(c) ==
    /\ At(c, "working") /\ Len(history) < setup.checkpoints
    /\ Checkpoint(c)
    /\ UNCHANGED <<setup, serveVars, child, fanVars>>

Beats(c) ==
    /\ At(c, "working")
    /\ Heartbeat(c)
    /\ UNCHANGED <<setup, serveVars, child, fanVars>>

(* The loop stops, for whatever reason it reports; or a step, a checkpoint *)
(* or the heartbeat fails, and the loop is given up.                       *)
Stops(c) ==
    /\ At(c, "working")
    /\ Ends(c, FALSE)
    /\ UNCHANGED <<setup, serveVars, storeVars, fanVars>>

GivesUp(c) ==
    /\ At(c, "working")
    /\ Ends(c, TRUE)
    /\ UNCHANGED <<setup, serveVars, storeVars, fanVars>>

LosesLease(c) ==
    /\ At(c, "working")
    /\ Ends(c, TRUE)
    /\ HeartbeatFails(c)
    /\ UNCHANGED <<setup, serveVars, fanVars>>

Closes(c) ==
    /\ At(c, "closing")
    /\ CloseStore(c) \/ (handle[c] = Closed /\ UNCHANGED storeVars)
    /\ IF child[c].failed THEN Exits(c) ELSE Goes(c, "emitting")
    /\ UNCHANGED <<setup, serveVars, fanVars>>

(* The sink makes up to two remote calls: the comment or the activity, and *)
(* the update.  A failure of the second leaves the first where it is.      *)
EmitsFirst(c) ==
    /\ At(c, "emitting")
    /\ Goes(c, "updating")
    /\ UNCHANGED <<setup, serveVars, storeVars, fanVars>>

EmitsSecond(c) ==
    /\ At(c, "updating")
    /\ Exits(c)
    /\ UNCHANGED <<setup, serveVars, storeVars, fanVars>>

EmitFails(c) ==
    /\ At(c, "emitting") \/ At(c, "updating")
    /\ Exits(c)
    /\ UNCHANGED <<setup, serveVars, storeVars, fanVars>>

(* Killed, or crashed: the lease stays behind.                             *)
Dies(c) ==
    /\ Running(c)
    /\ Exits(c)
    /\ Vanish(c)
    /\ UNCHANGED <<setup, serveVars, fanVars>>

Ages == LeaseAges /\ UNCHANGED <<setup, serveVars, child, fanVars>>

-----------------------------------------------------------------------------
(* A loop that fans out, once.                                             *)

FansOut(c) ==
    /\ At(c, "working") /\ setup.fans /\ joined = Unjoined
    /\ Goes(c, "fanning")
    /\ UNCHANGED <<setup, serveVars, storeVars, fanVars>>

Branching ==
    \/ StartBranch(setup.width, setup.backed)
    \/ Copied
    \/ BranchReturns(setup.backed)
    \/ Saved
    \/ BranchFails

Fans(c) ==
    /\ At(c, "fanning")
    /\ \/ Branching
       \/ Misconfigured(setup.width)
       \/ Abort
       \/ \E asked \in JoinRequests : FanIn(asked, setup.backed)
    /\ UNCHANGED <<setup, serveVars, child, storeVars>>

(* Branches that an abort left behind end while the loop goes on.          *)
BranchLeftBehind(c) ==
    /\ joined.verdict = "cancelled" /\ Running(c) /\ ~At(c, "fanning")
    /\ Branching
    /\ UNCHANGED <<setup, serveVars, child, storeVars>>

Joins(c) ==
    /\ At(c, "fanning") /\ joined # Unjoined
    /\ IF joined.verdict = "merged" THEN Goes(c, "working") ELSE Ends(c, TRUE)
    /\ UNCHANGED <<setup, serveVars, storeVars, fanVars>>

-----------------------------------------------------------------------------
Serving ==
    \/ Trigger
    \/ \E d \in Deliveries :
         \/ Arrive(d) \/ ReceiveWebhook(d) \/ ReceiveLinear(d) \/ TurnAway(d)
         \/ SpawnThrows(d) \/ SenderLeaves(d)
    \/ Stop \/ ListenerCloses \/ SupervisorDies \/ Restart
    \/ \E c \in Runners : Forget(c)

Process(c) ==
    \/ StartFails(c) \/ StartsBare(c) \/ Opens(c) \/ Leased(c) \/ Refused(c) \/ Resumes(c)
    \/ Saves(c) \/ Beats(c) \/ Stops(c) \/ GivesUp(c) \/ LosesLease(c)
    \/ Closes(c) \/ EmitsFirst(c) \/ EmitsSecond(c) \/ EmitFails(c) \/ Dies(c)
    \/ FansOut(c) \/ Fans(c) \/ BranchLeftBehind(c) \/ Joins(c)

Next == Serving \/ (\E c \in Runners : Process(c)) \/ Ages

Spec == Init /\ [][Next]_vars

-----------------------------------------------------------------------------
(* When stop() has answered, every process this supervisor spawned has     *)
(* exited or was sent SIGKILL (docs/loops.md:256-257, "stopping the        *)
(* supervisor stops the children"), except those a request that was still  *)
(* being received fired after the children had been gone through.          *)
StoppedIsQuiet ==
    supervisor = "stopped" =>
        \A c \in Runners : (Running(c) /\ child[c].by = incarnation /\ ~child[c].late) => child[c].killed

(* Within one supervisor, a wanted event that was answered with 200 was    *)
(* fired, once, however often it was delivered (docs/linear.md:68), unless *)
(* spawning its process threw the first time: then no redelivery fires it. *)
OneFiringPerEvent ==
    Linear =>
        LET fired == {c \in Runners : child[c].at # "unborn" /\ child[c].by = incarnation}
        IN /\ acked \subseteq threw \cup {child[c].event : c \in fired}
           /\ \A c, d \in fired : c # d => child[c].event # child[d].event
=============================================================================
