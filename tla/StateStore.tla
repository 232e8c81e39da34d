----------------------------- MODULE StateStore -----------------------------
(***************************************************************************)
(* The durable store of a loop's state, src/src/loop/state/sqlite.ts: one  *)
(* database file that several processes may open.  The lease is a row that *)
(* says who works on it; it is advisory, and refreshed only by a           *)
(* checkpoint or a heartbeat, so a holder whose step takes longer than the *)
(* time to live looks like one that crashed.                               *)
(*                                                                         *)
(*   lease    the row: its owner, and whether its heartbeat is recent      *)
(*   history  the checkpoints: who committed each, the entry it continues  *)
(*   handle   a runner's connection: how far its opening has come, the     *)
(*            row it read, the last entry its state is built on            *)
(*   lapsed   (history) the runners whose heartbeat was once not recent    *)
(*   robbed   (history) the runners whose row was overwritten by one that  *)
(*            had read another's, or that took a row that was gone         *)
(*                                                                         *)
(* Opening is two statements, a SELECT and an INSERT or UPDATE, outside a  *)
(* transaction: anything may happen between them.                          *)
(***************************************************************************)
EXTENDS Naturals, Sequences

CONSTANTS Runners,      \* processes that open the store, each under an id of its own
          NoLease,      \* the lease table is empty
          MaxHistory    \* bound: checkpoints in a behaviour

ASSUME StoreConstants == NoLease \notin [owner : Runners, fresh : BOOLEAN] /\ MaxHistory \in Nat

VARIABLES lease, history, handle, lapsed, robbed
marks == <<lapsed, robbed>>
storeVars == <<lease, history, handle, marks>>

Leases == [owner : Runners, fresh : BOOLEAN] \cup {NoLease}
Closed == [at |-> "closed", saw |-> NoLease, base |-> 0]

(* Every value is one the store can hold, and a state is built on an entry *)
(* that exists.                                                            *)
StoreTypeOK ==
    /\ lease \in Leases
    /\ history \in Seq([by : Runners, base : Nat])
    /\ handle \in [Runners -> [at : {"closed", "read", "taken", "open"}, saw : Leases, base : Nat]]
    /\ lapsed \subseteq Runners /\ robbed \subseteq Runners
    /\ \A r \in Runners : handle[r].base <= Len(history)

StoreInit ==
    /\ lease = NoLease /\ history = <<>> /\ lapsed = {} /\ robbed = {}
    /\ handle = [r \in Runners |-> Closed]

Owns(r) == lease # NoLease /\ lease.owner = r
Fresh(r) == [owner |-> r, fresh |-> TRUE]
Moves(r, at) == handle' = [handle EXCEPT ![r].at = at]
Lets(r) == handle' = [handle EXCEPT ![r] = Closed]

-----------------------------------------------------------------------------
ReadLease(r) ==
    /\ handle[r].at = "closed"
    /\ handle' = [handle EXCEPT ![r].at = "read", ![r].saw = lease]
    /\ UNCHANGED <<lease, history, marks>>

SawLive_Never(r) == FALSE   \* mutant: a recent heartbeat is not looked at

(* The row belongs to another runner whose heartbeat is recent.            *)
SawLive(r) ==
    LET saw == handle[r].saw IN saw # NoLease /\ saw.owner # r /\ saw.fresh

InsertLease(r) ==
    /\ handle[r].at = "read" /\ handle[r].saw = NoLease /\ lease = NoLease
    /\ lease' = Fresh(r)
    /\ Moves(r, "taken")
    /\ UNCHANGED <<history, marks>>

(* A live holder was read, or the INSERT meets a row that was not there.   *)
OpenRefused(r) ==
    /\ handle[r].at = "read"
    /\ SawLive(r) \/ (handle[r].saw = NoLease /\ lease # NoLease)
    /\ Lets(r)
    /\ UNCHANGED <<lease, history, marks>>

(* The UPDATE takes whatever row there is now; where it was deleted since, *)
(* no row changes and the runner goes on without a lease.                  *)
ReclaimLease(r) ==
    /\ handle[r].at = "read" /\ handle[r].saw # NoLease /\ ~SawLive(r)
    /\ lease' = IF lease = NoLease THEN NoLease ELSE Fresh(r)
    /\ robbed' = robbed \cup (IF lease = NoLease THEN {r} ELSE {lease.owner} \ {r, handle[r].saw.owner})
    /\ Moves(r, "taken")
    /\ UNCHANGED <<history, lapsed>>

(* load(): the newest entry, or nothing when there is none.                *)
Load(r) ==
    /\ handle[r].at = "taken"
    /\ handle' = [handle EXCEPT ![r].at = "open", ![r].base = Len(history)]
    /\ UNCHANGED <<lease, history, marks>>

Refreshed(r) == IF Owns(r) THEN Fresh(r) ELSE lease

(* One transaction; whether the UPDATE of the heartbeat changed a row is   *)
(* not looked at.                                                          *)
Checkpoint(r) ==
    /\ handle[r].at = "open" /\ Len(history) < MaxHistory
    /\ history' = Append(history, [by |-> r, base |-> handle[r].base])
    /\ handle' = [handle EXCEPT ![r].base = Len(history) + 1]
    /\ lease' = Refreshed(r)
    /\ UNCHANGED marks

Heartbeat(r) ==
    /\ handle[r].at = "open" /\ Owns(r)
    /\ lease' = Fresh(r)
    /\ UNCHANGED <<history, handle, marks>>

HeartbeatFails(r) ==
    /\ handle[r].at = "open" /\ ~Owns(r)
    /\ UNCHANGED storeVars

CloseStore(r) ==
    /\ handle[r].at \in {"taken", "open"}
    /\ lease' = IF Owns(r) THEN NoLease ELSE lease
    /\ Lets(r)
    /\ UNCHANGED <<history, marks>>

(* The process ends without closing: the row stays.                        *)
Vanish(r) ==
    /\ Lets(r)
    /\ UNCHANGED <<lease, history, marks>>

(* The time to live passes.                                                *)
LeaseAges ==
    /\ lease # NoLease /\ lease.fresh
    /\ lease' = [lease EXCEPT !.fresh = FALSE]
    /\ lapsed' = lapsed \cup {lease.owner}
    /\ UNCHANGED <<history, handle, robbed>>

StoreNext ==
    \/ \E r \in Runners :
         \/ ReadLease(r) \/ InsertLease(r) \/ OpenRefused(r) \/ ReclaimLease(r)
         \/ Load(r) \/ Checkpoint(r) \/ Heartbeat(r) \/ HeartbeatFails(r)
         \/ CloseStore(r) \/ Vanish(r)
    \/ LeaseAges

StoreSpec == StoreInit /\ [][StoreNext]_storeVars

-----------------------------------------------------------------------------
(* The history is one chain: every checkpoint continues the one before it, *)
(* unless it, or one it does not know of, comes from a runner whose        *)
(* heartbeat was late once, or that was robbed: the UPDATE of a runner     *)
(* that had read an older row overwrote its good one -- the comment at     *)
(* sqlite.ts:22-25, "A live foreign lease is refused at open", is not true *)
(* then -- or found none to overwrite, and left it without.  But somebody's*)
(* heartbeat must have been late for that: runners that all keep theirs up *)
(* refuse one another, and make one chain.                                 *)
Exempt == lapsed \cup robbed

HistoryIsOneChain ==
    /\ \A i \in DOMAIN history :
          history[i].base # i - 1 => \E j \in history[i].base + 1 .. i : history[j].by \in Exempt
    /\ lapsed = {} => robbed = {}

(* "No two active runners on one store": of two runners with the store     *)
(* open, the heartbeat of one at least was late once.                      *)
OneActiveRunner ==
    \A r, s \in {runner \in Runners : handle[runner].at \in {"taken", "open"}} \ lapsed : r = s
=============================================================================
