------------------------- MODULE LoopServiceProofs -------------------------
(***************************************************************************)
(* What holds of the store, of the supervisor, of its source and of its    *)
(* fan-in for every set of processes, deliveries, requests, branches,      *)
(* options and set-ups.  The store's invariant says what a lease is worth  *)
(* that has neither lapsed nor been overwritten by one who read an older   *)
(* row: its runner still owns the row, and whatever was committed since it *)
(* loaded comes from runners that have lost theirs in one of these ways.   *)
(***************************************************************************)
EXTENDS LoopService, SequenceTheorems, FiniteSetTheorems, WellFoundedInduction, TLAPS

-----------------------------------------------------------------------------
(* The store.                                                              *)

(* A row without a recent heartbeat belongs to a runner that lapsed, in    *)
(* the table as in what an opening runner has read.                        *)
StaleIsLapsed ==
    /\ (lease # NoLease /\ ~lease.fresh) => lease.owner \in lapsed
    /\ \A r \in Runners :
         (/\ handle[r].at = "read"
          /\ handle[r].saw # NoLease
          /\ ~handle[r].saw.fresh)  =>  handle[r].saw.owner \in lapsed

(* A runner past its opening that has kept its lease owns the row.         *)
HolderOwns ==
    \A r \in Runners :
        (handle[r].at \in {"taken", "open"} /\ r \notin Exempt) => Owns(r)

(* Nobody whose lease is good has committed since it loaded.               *)
OthersExempt ==
    \A r \in Runners :
        (handle[r].at = "open" /\ r \notin Exempt) =>
            \A j \in handle[r].base + 1 .. Len(history) : history[j].by \in Exempt

(* While no heartbeat was ever late, a runner that comes back to its own   *)
(* row still finds it there.                                               *)
OwnRowStays ==
    lapsed = {} => \A r \in Runners :
        (handle[r].at = "read" /\ handle[r].saw # NoLease /\ handle[r].saw.owner = r)
            => lease = handle[r].saw

StoreInv ==
    StoreTypeOK /\ StaleIsLapsed /\ HolderOwns /\ OthersExempt /\ OwnRowStays /\ HistoryIsOneChain

Handles == [at : {"closed", "read", "taken", "open"}, saw : Leases, base : Nat]

(* What an assignment to one field of a handle does.                       *)
LEMMA HandleUpdates ==
  ASSUME handle \in [Runners -> Handles], NEW r \in Runners
  PROVE  /\ \A at \in {"closed", "read", "taken", "open"} : Moves(r, at) =>
              /\ handle' \in [Runners -> Handles]
              /\ handle'[r].at = at /\ handle'[r].saw = handle[r].saw
              /\ handle'[r].base = handle[r].base
              /\ \A s \in Runners \ {r} : handle'[s] = handle[s]
         /\ Lets(r) =>
              /\ handle' \in [Runners -> Handles]
              /\ handle'[r].at = "closed" /\ handle'[r].base = 0
              /\ \A s \in Runners \ {r} : handle'[s] = handle[s]
  BY DEF Moves, Lets, Closed, Handles, Leases

LEMMA LeaseFields ==
  /\ \A r \in Runners : Fresh(r) \in Leases /\ Fresh(r) # NoLease
                        /\ Fresh(r).owner = r /\ Fresh(r).fresh
  /\ \A l \in Leases \ {NoLease} : l.owner \in Runners /\ l.fresh \in BOOLEAN
  <1>1. ASSUME NEW r \in Runners
        PROVE  Fresh(r) \in [owner : Runners, fresh : BOOLEAN] /\ Fresh(r).owner = r /\ Fresh(r).fresh
    BY DEF Fresh
  <1>2. \A l \in Leases \ {NoLease} : l \in [owner : Runners, fresh : BOOLEAN]
    BY DEF Leases
  <1> QED
    BY <1>1, <1>2, StoreConstants DEF Leases

(* What is committed stays one chain while nobody commits and nobody is    *)
(* robbed before a heartbeat was late.                                     *)
LEMMA ChainStays ==
  ASSUME StoreInv, history' = history, Exempt \subseteq Exempt', lapsed' = {} => robbed' = {}
  PROVE  HistoryIsOneChain'
  BY DEF StoreInv, HistoryIsOneChain

(* The invariant holds of the empty table and no opened store.             *)
LEMMA StoreInitial == StoreInit => StoreInv
  <1> SUFFICES ASSUME StoreInit PROVE StoreInv
    OBVIOUS
  <1>1. handle \in [Runners -> Handles] /\ \A r \in Runners : handle[r] = Closed
    BY DEF StoreInit, Closed, Handles, Leases
  <1>2. history \in Seq([by : Runners, base : Nat]) /\ Len(history) = 0 /\ DOMAIN history = {}
    BY EmptySeq DEF StoreInit
  <1>3. StoreTypeOK
    BY <1>1, <1>2 DEF StoreInit, StoreTypeOK, Handles, Closed, Leases
  <1>4. StaleIsLapsed /\ HolderOwns /\ OthersExempt /\ OwnRowStays /\ HistoryIsOneChain
    BY <1>1, <1>2 DEF StoreInit, StaleIsLapsed, HolderOwns, OthersExempt, OwnRowStays, HistoryIsOneChain, Closed
  <1> QED
    BY <1>3, <1>4 DEF StoreInv

(* While no heartbeat was late, refreshing it changes nothing.             *)
LEMMA FreshRowStays ==
  ASSUME lease \in Leases, StaleIsLapsed, lapsed = {}
  PROVE  \A r \in Runners : Owns(r) => lease = Fresh(r)
  <1> SUFFICES ASSUME NEW r \in Runners, Owns(r) PROVE lease = Fresh(r)
    OBVIOUS
  <1>1. lease \in [owner : Runners, fresh : BOOLEAN] /\ lease.owner = r /\ lease.fresh
    BY DEF Leases, Owns, StaleIsLapsed
  <1> QED
    BY <1>1 DEF Fresh

(* Each step of the store preserves the invariant.                         *)
LEMMA StoreStep == StoreInv /\ [StoreNext]_storeVars => StoreInv'
  <1> SUFFICES ASSUME StoreInv, [StoreNext]_storeVars
               PROVE  StoreInv'
    OBVIOUS
  <1> USE DEF StoreInv
  <1>1. /\ lease \in Leases /\ lapsed \subseteq Runners /\ robbed \subseteq Runners
        /\ history \in Seq([by : Runners, base : Nat]) /\ Len(history) \in Nat
        /\ handle \in [Runners -> Handles]
        /\ \A r \in Runners : handle[r].base \in Nat /\ handle[r].base <= Len(history)
                              /\ handle[r].saw \in Leases
    BY LenProperties DEF StoreTypeOK, Handles
  <1>2. CASE UNCHANGED storeVars
    BY <1>2 DEF storeVars, marks, StoreTypeOK, StaleIsLapsed, HolderOwns, Owns, OthersExempt,
                OwnRowStays, HistoryIsOneChain, Exempt
  <1>3. ASSUME NEW r \in Runners, ReadLease(r)
        PROVE  StoreInv'
    <2>1. /\ UNCHANGED <<lease, history, lapsed, robbed>> /\ handle' \in [Runners -> Handles]
          /\ handle'[r].at = "read" /\ handle'[r].saw = lease /\ handle'[r].base = handle[r].base
          /\ \A s \in Runners \ {r} : handle'[s] = handle[s]
      BY <1>1, <1>3 DEF ReadLease, Handles, marks
    <2>2. StoreTypeOK'
      BY <1>1, <2>1 DEF StoreTypeOK, Handles
    <2>3. StaleIsLapsed' /\ HolderOwns' /\ OthersExempt'
      BY <1>1, <2>1 DEF StaleIsLapsed, HolderOwns, Owns, OthersExempt, Exempt
    <2>9. OwnRowStays'
      BY <1>1, <2>1 DEF OwnRowStays
    <2> QED
      BY <2>9, <2>1, <2>2, <2>3, ChainStays DEF Exempt, HistoryIsOneChain
  <1>4. ASSUME NEW r \in Runners, InsertLease(r)
        PROVE  StoreInv'
    <2>1. /\ lease = NoLease /\ lease' = Fresh(r) /\ UNCHANGED <<history, lapsed, robbed>>
          /\ handle' \in [Runners -> Handles]
          /\ handle'[r].at = "taken" /\ handle'[r].base = handle[r].base
          /\ \A s \in Runners \ {r} : handle'[s] = handle[s]
      BY <1>1, <1>4, HandleUpdates DEF InsertLease, marks
    <2>2. StoreTypeOK'
      BY <1>1, <2>1, LeaseFields DEF StoreTypeOK, Handles
    <2>3. StaleIsLapsed' /\ HolderOwns' /\ OthersExempt'
      BY <1>1, <2>1, LeaseFields DEF StaleIsLapsed, HolderOwns, Owns, OthersExempt, Exempt
    <2>9. OwnRowStays'
      BY <1>1, <2>1 DEF OwnRowStays
    <2> QED
      BY <2>9, <2>1, <2>2, <2>3, ChainStays DEF Exempt, HistoryIsOneChain
  <1>5. ASSUME NEW r \in Runners, Lets(r), UNCHANGED <<history, lapsed, robbed>>,
               lease' = lease \/ (Owns(r) /\ lease' = NoLease)
        PROVE  StoreInv'
    <2>1. /\ handle' \in [Runners -> Handles]
          /\ handle'[r].at = "closed" /\ handle'[r].base = 0
          /\ \A s \in Runners \ {r} : handle'[s] = handle[s]
      BY <1>1, <1>5, HandleUpdates
    <2>2. StoreTypeOK'
      <3>1. lease' \in Leases
        BY <1>1, <1>5 DEF Leases
      <3>2. \A s \in Runners : handle'[s].base <= Len(history')
        BY <1>1, <1>5, <2>1
      <3> QED
        BY <1>1, <1>5, <2>1, <3>1, <3>2 DEF StoreTypeOK, Handles
    <2>3. StaleIsLapsed' /\ HolderOwns' /\ OthersExempt'
      BY <1>1, <1>5, <2>1 DEF StaleIsLapsed, HolderOwns, Owns, OthersExempt, Exempt
    <2>9. OwnRowStays'
      BY <1>1, <1>5, <2>1 DEF OwnRowStays, Owns
    <2> QED
      BY <2>9, <1>5, <2>2, <2>3, ChainStays DEF Exempt, HistoryIsOneChain
  <1>6. ASSUME NEW r \in Runners, ReclaimLease(r)
        PROVE  StoreInv'
    <2>1. /\ handle[r].at = "read" /\ handle[r].saw # NoLease /\ ~SawLive(r)
          /\ lease' = IF lease = NoLease THEN NoLease ELSE Fresh(r)
          /\ UNCHANGED history
          /\ handle' \in [Runners -> Handles]
          /\ handle'[r].at = "taken" /\ handle'[r].base = handle[r].base
          /\ \A s \in Runners \ {r} : handle'[s] = handle[s]
      BY <1>1, <1>6, HandleUpdates DEF ReclaimLease
    <2>2. /\ lapsed' = lapsed /\ robbed' \subseteq Runners /\ Exempt \subseteq Exempt'
          /\ lease = NoLease => r \in Exempt'
          /\ (lease # NoLease /\ lease.owner # r) => lease.owner \in Exempt'
      <3>1. /\ lapsed' = lapsed
            /\ robbed' = robbed \cup (IF lease = NoLease THEN {r} ELSE {lease.owner} \ {r, handle[r].saw.owner})
        BY <1>6 DEF ReclaimLease
      <3>2. handle[r].saw.owner = r \/ handle[r].saw.owner \in lapsed
        BY <1>1, <2>1, LeaseFields DEF SawLive, StaleIsLapsed
      <3> QED
        BY <1>1, <3>1, <3>2, LeaseFields DEF Exempt
    <2>7. lapsed = {} => lease # NoLease /\ lease.owner = r /\ robbed' = robbed
      <3>1. lapsed = {} => handle[r].saw.owner = r
        BY <1>1, <2>1, LeaseFields DEF SawLive, StaleIsLapsed
      <3>2. lapsed = {} => lease = handle[r].saw
        BY <2>1, <3>1 DEF OwnRowStays
      <3> QED
        BY <1>6, <2>1, <3>1, <3>2 DEF ReclaimLease
    <2>8. OwnRowStays'
      BY <1>1, <2>1, <2>2, <2>7 DEF OwnRowStays
    <2>3. StoreTypeOK'
      BY <1>1, <2>1, <2>2, LeaseFields DEF StoreTypeOK, Handles, Leases
    <2>4. StaleIsLapsed'
      BY <1>1, <2>1, <2>2, LeaseFields DEF StaleIsLapsed
    <2>5. HolderOwns'
      BY <1>1, <2>1, <2>2, LeaseFields DEF HolderOwns, Owns
    <2>6. OthersExempt'
      BY <1>1, <2>1, <2>2 DEF OthersExempt
    <2>9. lapsed' = {} => robbed' = {}
      BY <2>2, <2>7 DEF HistoryIsOneChain
    <2> QED
      BY <2>1, <2>2, <2>3, <2>4, <2>5, <2>6, <2>8, <2>9, ChainStays
  <1>7. ASSUME NEW r \in Runners, Load(r)
        PROVE  StoreInv'
    <2>1. /\ handle[r].at = "taken" /\ UNCHANGED <<lease, history, lapsed, robbed>>
          /\ handle' \in [Runners -> Handles]
          /\ handle'[r].at = "open" /\ handle'[r].base = Len(history)
          /\ \A s \in Runners \ {r} : handle'[s] = handle[s]
      BY <1>1, <1>7 DEF Load, Handles, marks
    <2>2. StoreTypeOK'
      <3>1. \A s \in Runners : handle'[s].base <= Len(history')
        BY <1>1, <2>1
      <3> QED
        BY <1>1, <2>1, <3>1 DEF StoreTypeOK, Handles
    <2>0. Exempt' = Exempt
      BY <2>1 DEF Exempt
    <2>3. StaleIsLapsed' /\ HolderOwns' /\ OthersExempt'
      <3>1. StaleIsLapsed' /\ HolderOwns'
        BY <1>1, <2>0, <2>1 DEF StaleIsLapsed, HolderOwns, Owns
      <3>2. OthersExempt'
        BY <1>1, <2>0, <2>1 DEF OthersExempt
      <3> QED
        BY <3>1, <3>2
    <2>9. OwnRowStays'
      BY <1>1, <2>1 DEF OwnRowStays
    <2> QED
      BY <2>9, <2>1, <2>2, <2>3, ChainStays DEF Exempt, HistoryIsOneChain
  <1>8. ASSUME NEW r \in Runners, Checkpoint(r)
        PROVE  StoreInv'
    <2> DEFINE n == Len(history)
               entry == [by |-> r, base |-> handle[r].base]
    <2>1. /\ handle[r].at = "open" /\ UNCHANGED marks /\ Exempt' = Exempt /\ lease' = Refreshed(r)
          /\ history' = Append(history, entry)
          /\ handle' \in [Runners -> Handles]
          /\ handle'[r].at = "open" /\ handle'[r].base = n + 1
          /\ handle'[r].saw = handle[r].saw
          /\ \A s \in Runners \ {r} : handle'[s] = handle[s]
      <3>1. /\ handle[r].at = "open" /\ UNCHANGED marks /\ Exempt' = Exempt /\ lease' = Refreshed(r)
            /\ history' = Append(history, entry)
            /\ handle' = [handle EXCEPT ![r].base = n + 1]
        BY <1>8 DEF Checkpoint, marks, Exempt
      <3>2. n + 1 \in Nat
        BY <1>1
      <3> HIDE DEF n
      <3> QED
        BY <1>1, <3>1, <3>2 DEF Handles
    <2>2. /\ history' \in Seq([by : Runners, base : Nat]) /\ Len(history') = n + 1
          /\ DOMAIN history = 1 .. n /\ DOMAIN history' = 1 .. n + 1
          /\ history'[n + 1] = entry /\ \A i \in 1 .. n : history'[i] = history[i]
      <3>1. entry \in [by : Runners, base : Nat]
        BY <1>1
      <3> QED
        BY <1>1, <2>1, <3>1, AppendProperties, LenProperties
    <2>3. StoreTypeOK'
      BY <1>1, <2>1, <2>2, LeaseFields DEF StoreTypeOK, Handles, Refreshed, marks
    <2>4. StaleIsLapsed' /\ HolderOwns'
      BY <1>1, <2>1, LeaseFields DEF StaleIsLapsed, HolderOwns, Owns, Refreshed, Exempt, marks
    <2>5. \A s \in Runners \ {r} : (handle[s].at = "open" /\ s \notin Exempt) => r \in Exempt
      BY <2>1 DEF HolderOwns, Owns
    <2>6. OthersExempt'
      <3> SUFFICES ASSUME NEW s \in Runners, handle'[s].at = "open", s \notin Exempt,
                          NEW j \in handle'[s].base + 1 .. n + 1
                   PROVE  history'[j].by \in Exempt
        BY <2>1, <2>2 DEF OthersExempt
      <3>1. s # r
        BY <1>1, <2>1
      <3>2. handle[s].at = "open" /\ handle'[s].base = handle[s].base /\ r \in Exempt
        BY <2>1, <2>5, <3>1
      <3>3. CASE j = n + 1
        BY <2>2, <3>2, <3>3
      <3>4. CASE j # n + 1
        <4>1. j \in handle[s].base + 1 .. n /\ j \in 1 .. n
          BY <1>1, <3>2, <3>4
        <4> QED
          BY <2>2, <3>2, <4>1 DEF OthersExempt
      <3> QED
        BY <3>3, <3>4
    <2>7. HistoryIsOneChain'
      <3>0. lapsed' = {} => robbed' = {}
        BY <2>1 DEF marks, HistoryIsOneChain
      <3> SUFFICES ASSUME NEW i \in 1 .. n + 1, history'[i].base # i - 1
                   PROVE  \E j \in history'[i].base + 1 .. i : history'[j].by \in Exempt
        BY <2>1, <2>2, <3>0 DEF HistoryIsOneChain
      <3>1. CASE i \in 1 .. n
        <4>1. PICK j \in history[i].base + 1 .. i : history[j].by \in Exempt
          BY <2>2, <3>1 DEF HistoryIsOneChain
        <4>2. history[i] \in [by : Runners, base : Nat]
          BY <1>1, <3>1, ElementOfSeq
        <4>3. j \in 1 .. n
          BY <1>1, <3>1, <4>1, <4>2
        <4> QED
          BY <2>2, <3>1, <4>1, <4>3
      <3>2. CASE i = n + 1 /\ r \in Exempt
        <4>1. history'[i] = entry /\ i \in entry.base + 1 .. i
          BY <1>1, <2>2, <3>2
        <4> QED
          BY <3>2, <4>1
      <3>3. CASE i = n + 1 /\ r \notin Exempt
        <4>1. history'[i] = entry /\ entry.base # n
          BY <1>1, <2>2, <3>3
        <4>2. n \in entry.base + 1 .. n /\ n \in entry.base + 1 .. i /\ n \in 1 .. n
          BY <1>1, <3>3, <4>1
        <4>3. history'[n].by \in Exempt
          BY <2>1, <2>2, <3>3, <4>2 DEF OthersExempt
        <4> QED
          BY <4>1, <4>2, <4>3
      <3> QED
        BY <1>1, <3>1, <3>2, <3>3
    <2>9. OwnRowStays'
      BY <1>1, <2>1, FreshRowStays DEF OwnRowStays, Refreshed, marks
    <2> QED
      BY <2>9, <2>3, <2>4, <2>6, <2>7
  <1>9. ASSUME NEW r \in Runners, Heartbeat(r)
        PROVE  StoreInv'
    <2>1. Owns(r) /\ lease' = Fresh(r) /\ UNCHANGED <<history, handle, lapsed, robbed>>
      BY <1>9 DEF Heartbeat, marks
    <2>2. StoreTypeOK'
      BY <1>1, <2>1, LeaseFields DEF StoreTypeOK, Handles
    <2>3. StaleIsLapsed' /\ HolderOwns' /\ OthersExempt'
      BY <1>1, <2>1, LeaseFields DEF StaleIsLapsed, HolderOwns, Owns, OthersExempt, Exempt
    <2>9. OwnRowStays'
      BY <1>1, <2>1, FreshRowStays DEF OwnRowStays
    <2> QED
      BY <2>9, <2>1, <2>2, <2>3, ChainStays DEF Exempt, HistoryIsOneChain
  <1>10. ASSUME LeaseAges
         PROVE  StoreInv'
    <2>1. /\ lease # NoLease /\ lease' = [lease EXCEPT !.fresh = FALSE]
          /\ lapsed' = lapsed \cup {lease.owner} /\ UNCHANGED <<history, handle, robbed>>
      BY <1>10 DEF LeaseAges
    <2>2. lease' \in Leases /\ lease' # NoLease /\ lease'.owner = lease.owner
          /\ lease.owner \in Runners
      BY <1>1, <2>1, StoreConstants DEF Leases
    <2>3. StoreTypeOK'
      BY <1>1, <2>1, <2>2 DEF StoreTypeOK, Handles
    <2>4. StaleIsLapsed' /\ HolderOwns' /\ OthersExempt'
      BY <1>1, <2>1, <2>2 DEF StaleIsLapsed, HolderOwns, Owns, OthersExempt, Exempt
    <2>9. OwnRowStays'
      BY <1>1, <2>1, <2>2 DEF OwnRowStays
    <2> QED
      BY <2>9, <2>1, <2>3, <2>4, ChainStays DEF Exempt, HistoryIsOneChain
  <1> QED
    <2>1. ASSUME NEW r \in Runners,
                 OpenRefused(r) \/ CloseStore(r) \/ Vanish(r)
          PROVE  /\ Lets(r) /\ UNCHANGED <<history, lapsed, robbed>>
                 /\ lease' = lease \/ (Owns(r) /\ lease' = NoLease)
      BY <2>1 DEF OpenRefused, CloseStore, Vanish, marks
    <2>2. ASSUME NEW r \in Runners, HeartbeatFails(r)
          PROVE  StoreInv'
      BY <1>2, <2>2 DEF HeartbeatFails
    <2> QED
      BY <1>2, <1>3, <1>4, <1>5, <1>6, <1>7, <1>8, <1>9, <1>10, <2>1, <2>2 DEF StoreNext

(* However many runners open, lose, take over and close a store, its       *)
(* history is one chain but for what runners commit that have lost their   *)
(* lease: to the time to live, or to one that read an older row; and as    *)
(* long as no heartbeat is late nobody loses it.                           *)
THEOREM StoreHistoryIsOneChain == StoreSpec => []HistoryIsOneChain
  <1>1. StoreInv => HistoryIsOneChain
    BY DEF StoreInv
  <1> QED
    BY <1>1, StoreInitial, StoreStep, PTL DEF StoreSpec

-----------------------------------------------------------------------------
(* The supervisor and its source.                                          *)

(* Whatever an event may be that a process is spawned for.                 *)
Events ==
    {<<>>} \cup {<<s.source>> : s \in Setups} \cup {<<d>> : d \in Deliveries}
           \cup {DedupeKey(s.source, what) : s \in Setups, what \in Requests}

Stages == {"unborn", "opening", "leasing", "resuming", "working", "fanning", "closing",
           "emitting", "updating", "exited"}
Processes == [at : Stages, failed : BOOLEAN, event : Events, by : Nat, late : BOOLEAN, killed : BOOLEAN]

ServeTypeOK ==
    /\ setup \in Setups
    /\ supervisor \in {"none", "serving", "closing", "stopped", "gone"}
    /\ incarnation \in Nat
    /\ request \in [Deliveries -> [at : {"idle", "receiving", "answered", "unanswered"},
                                   what : Requests \cup {Absent}]]
    /\ \A d \in Deliveries : request[d].at = "receiving" => request[d].what \in Requests
    /\ tracked \subseteq Runners
    /\ child \in [Runners -> Processes]
    /\ \A c \in Runners : child[c].by <= incarnation

(* While it serves, a supervisor tracks every process of its own that runs.*)
RunningTracked ==
    supervisor = "serving" =>
        \A c \in Runners : (Running(c) /\ child[c].by = incarnation) => c \in tracked

(* Stopping has killed what it had spawned before.                         *)
ClosingIsQuiet ==
    supervisor \in {"closing", "stopped"} =>
        \A c \in Runners : (Running(c) /\ child[c].by = incarnation /\ ~child[c].late) => child[c].killed

(* The processes of this supervisor, and the keys it remembers: those it   *)
(* fired and those whose process could not be spawned.                     *)
Fired == {c \in Runners : child[c].at # "unborn" /\ child[c].by = incarnation}
FiredOnce == \A c, d \in Fired : c # d => child[c].event # child[d].event
SeenIsFired == seen = threw \cup {child[c].event : c \in Fired} /\ acked \subseteq seen

ServeInv ==
    /\ ServeTypeOK
    /\ RunningTracked
    /\ ClosingIsQuiet
    /\ Linear => (SeenIsFired /\ FiredOnce)

(* A process goes on, or ends: what it was spawned for and by whom stays.  *)
GoesOn ==
    /\ child' \in [Runners -> Processes]
    /\ \A c \in Runners :
         /\ child'[c].event = child[c].event /\ child'[c].by = child[c].by
         /\ child'[c].at = "unborn" <=> child[c].at = "unborn"
         /\ Running(c)' => /\ Running(c)
                           /\ child'[c].late = child[c].late
                           /\ child[c].killed => child'[c].killed

LEMMA ProcessFields ==
  ASSUME child \in [Runners -> Processes]
  PROVE  \A c \in Runners :
           /\ child[c] \in Processes
           /\ child[c].at \in Stages /\ child[c].event \in Events /\ child[c].by \in Nat
           /\ child[c].failed \in BOOLEAN /\ child[c].late \in BOOLEAN /\ child[c].killed \in BOOLEAN
  BY DEF Processes

(* The three ways a running process moves.                                 *)
LEMMA ProcessGoesOn ==
  ASSUME child \in [Runners -> Processes], NEW c \in Runners, Running(c)
  PROVE  /\ \A stage \in Stages \ {"unborn"} : Goes(c, stage) => GoesOn
         /\ \A failed \in BOOLEAN : Ends(c, failed) => GoesOn
         /\ Exits(c) => GoesOn
  <1>1. ASSUME NEW stage \in Stages \ {"unborn"}, Goes(c, stage) PROVE GoesOn
    <2>1. child' = [child EXCEPT ![c].at = stage]
      BY <1>1 DEF Goes
    <2>2. child' \in [Runners -> Processes]
      BY <1>1, <2>1 DEF Processes
    <2> QED
      BY <1>1, <2>1, <2>2 DEF GoesOn, Running, Processes
  <1>2. ASSUME NEW failed \in BOOLEAN, Ends(c, failed) PROVE GoesOn
    <2>1. child' = [child EXCEPT ![c].at = "closing", ![c].failed = failed]
      BY <1>2 DEF Ends
    <2>2. child' \in [Runners -> Processes]
      BY <1>2, <2>1 DEF Processes, Stages
    <2> QED
      BY <2>1, <2>2 DEF GoesOn, Running, Processes
  <1>3. ASSUME Exits(c) PROVE GoesOn
    <2> DEFINE gone == [Unborn EXCEPT !.at = "exited", !.event = child[c].event, !.by = child[c].by]
    <2>1. child' = [child EXCEPT ![c] = gone]
      BY <1>3 DEF Exits
    <2>2. /\ gone \in Processes /\ gone.at = "exited"
          /\ gone.event = child[c].event /\ gone.by = child[c].by
      BY ProcessFields DEF Unborn, Processes, Stages
    <2> HIDE DEF gone
    <2>3. child' \in [Runners -> Processes]
      BY <2>1, <2>2
    <2> QED
      BY <2>1, <2>2, <2>3 DEF GoesOn, Running
  <1> QED
    BY <1>1, <1>2, <1>3

LEMMA StageNames ==
  /\ {"leasing", "resuming", "working", "fanning", "emitting", "updating"} \subseteq Stages \ {"unborn"}
  /\ \A c \in Runners, stage \in Stages \ {"unborn", "exited"} : At(c, stage) => Running(c)
  BY DEF Stages, At, Running

(* A step of a process leaves the supervisor alone and lets it go on.      *)
LEMMA ProcessStep ==
  ASSUME child \in [Runners -> Processes], NEW c \in Runners, Process(c)
  PROVE  UNCHANGED <<setup, serveVars>> /\ (GoesOn \/ UNCHANGED child)
  <1> USE StageNames, ProcessGoesOn
  <1>1. CASE StartFails(c)
    BY <1>1 DEF StartFails, Stages
  <1>2. CASE StartsBare(c)
    BY <1>2 DEF StartsBare, Stages
  <1>3. CASE Opens(c)
    BY <1>3 DEF Opens, Stages
  <1>4. CASE Leased(c)
    BY <1>4 DEF Leased, Stages
  <1>5. CASE Refused(c)
    BY <1>5 DEF Refused, Stages
  <1>6. CASE Resumes(c)
    BY <1>6 DEF Resumes, Stages
  <1>7. CASE Saves(c) \/ Beats(c)
    BY <1>7 DEF Saves, Beats
  <1>8. CASE Stops(c) \/ GivesUp(c) \/ LosesLease(c)
    BY <1>8 DEF Stops, GivesUp, LosesLease, Stages
  <1>9. CASE Closes(c)
    BY <1>9 DEF Closes, Stages
  <1>10. CASE EmitsFirst(c)
    BY <1>10 DEF EmitsFirst, Stages
  <1>11. CASE EmitsSecond(c) \/ EmitFails(c)
    BY <1>11 DEF EmitsSecond, EmitFails, Stages
  <1>12. CASE Dies(c)
    BY <1>12 DEF Dies
  <1>13. CASE FansOut(c)
    BY <1>13 DEF FansOut, Stages
  <1>14. CASE Fans(c) \/ BranchLeftBehind(c)
    BY <1>14 DEF Fans, BranchLeftBehind
  <1>15. CASE Joins(c)
    BY <1>15 DEF Joins, Stages
  <1> QED
    BY <1>1, <1>2, <1>3, <1>4, <1>5, <1>6, <1>7, <1>8, <1>9, <1>10, <1>11, <1>12, <1>13, <1>14, <1>15
       DEF Process

(* Spawning a process for an event: one that was unborn is this            *)
(* supervisor's, and no other process changes.                             *)
LEMMA Spawning ==
  ASSUME ServeTypeOK, NEW event \in Events, Fire(event)
  PROVE  \E c \in Runners :
           /\ child[c].at = "unborn" /\ tracked' = tracked \cup {c}
           /\ child' \in [Runners -> Processes]
           /\ child'[c].at = "opening" /\ child'[c].event = event /\ child'[c].by = incarnation
           /\ child'[c].late = (supervisor # "serving")
           /\ \A d \in Runners \ {c} : child'[d] = child[d]
  <1>1. PICK c \in Runners : /\ child[c].at = "unborn"
                             /\ child' = [child EXCEPT ![c] = Born(c, event)]
                             /\ tracked' = tracked \cup {c}
    BY DEF Fire
  <1> DEFINE born(late) == [Unborn EXCEPT !.at = "opening", !.event = event, !.by = incarnation,
                                          !.late = late]
  <1>2. ASSUME NEW late \in BOOLEAN
        PROVE  /\ born(late) \in Processes
               /\ born(late).at = "opening" /\ born(late).event = event
               /\ born(late).by = incarnation /\ born(late).late = late
    BY DEF Unborn, Processes, Stages, ServeTypeOK
  <1>3. (supervisor # "serving") \in BOOLEAN
    OBVIOUS
  <1>4. Born(c, event) = born(supervisor # "serving")
    BY Zenon DEF Born
  <1> HIDE DEF born
  <1>5. /\ Born(c, event) \in Processes
        /\ Born(c, event).at = "opening" /\ Born(c, event).event = event
        /\ Born(c, event).by = incarnation
        /\ Born(c, event).late = (supervisor # "serving")
    BY <1>2, <1>3, <1>4, Zenon
  <1> QED
    BY <1>1, <1>5 DEF ServeTypeOK

(* What a spawned process does to the invariant, whatever else the step    *)
(* that spawns it changes.                                                 *)
LEMMA SpawningKeeps ==
  ASSUME ServeInv, NEW event \in Events, Fire(event), UNCHANGED <<incarnation, supervisor>>
  PROVE  /\ child' \in [Runners -> Processes] /\ tracked' \subseteq Runners
         /\ \A c \in Runners : child'[c].by <= incarnation
         /\ RunningTracked' /\ ClosingIsQuiet'
         /\ {child[c].event : c \in Fired}' = {child[c].event : c \in Fired} \cup {event}
         /\ (FiredOnce /\ event \notin {child[c].event : c \in Fired}) => FiredOnce'
  <1>1. PICK c \in Runners :
           /\ child[c].at = "unborn" /\ tracked' = tracked \cup {c}
           /\ child' \in [Runners -> Processes]
           /\ child'[c].at = "opening" /\ child'[c].event = event /\ child'[c].by = incarnation
           /\ child'[c].late = (supervisor # "serving")
           /\ \A d \in Runners \ {c} : child'[d] = child[d]
    BY Spawning DEF ServeInv
  <1>2. incarnation \in Nat /\ tracked' \subseteq Runners
    BY <1>1 DEF ServeInv, ServeTypeOK
  <1>3. \A d \in Runners : child'[d].by <= incarnation
    BY <1>1, <1>2 DEF ServeInv, ServeTypeOK
  <1>4. RunningTracked'
    BY <1>1 DEF ServeInv, RunningTracked, Running
  <1>5. ClosingIsQuiet'
    BY <1>1 DEF ServeInv, ClosingIsQuiet, Running
  <1>6. Fired' = Fired \cup {c} /\ c \notin Fired
    BY <1>1 DEF Fired
  <1>7. {child[d].event : d \in Fired}' = {child[d].event : d \in Fired} \cup {event}
    BY <1>1, <1>6 DEF Fired
  <1>8. ASSUME FiredOnce, event \notin {child[d].event : d \in Fired}
        PROVE  FiredOnce'
    BY <1>1, <1>6, <1>8 DEF FiredOnce, Fired
  <1> QED
    BY <1>1, <1>2, <1>3, <1>4, <1>5, <1>7, <1>8

LEMMA EventTyping ==
  ASSUME ServeTypeOK
  PROVE  /\ <<setup.source>> \in Events
         /\ \A d \in Deliveries : <<d>> \in Events
         /\ \A d \in Deliveries : request[d].at = "receiving" => Key(d) \in Events
  BY DEF ServeTypeOK, Events, Key

(* The invariant holds of a supervisor that has received nothing, and of   *)
(* a loop that was started without one.                                    *)
LEMMA ServeInitial == Init => ServeInv
  <1> SUFFICES ASSUME Init PROVE ServeInv
    OBVIOUS
  <1>1. Unborn \in Processes /\ Unborn.at = "unborn" /\ Unborn.by = 0
    BY DEF Unborn, Processes, Stages, Events
  <1>2. [Unborn EXCEPT !.at = "opening"] \in Processes /\ [Unborn EXCEPT !.at = "opening"].by = 0
    <2>1. "opening" \in Stages
      BY DEF Stages
    <2> QED
      BY <1>1, <2>1 DEF Processes
  <1>3. /\ incarnation = 1
        /\ child \in [Runners -> Processes] /\ \A c \in Runners : child[c].by = 0
        /\ setup.source # "run" => \A c \in Runners : child[c].at = "unborn"
    BY <1>1, <1>2 DEF Init
  <1>4. ServeTypeOK
    BY <1>3 DEF Init, ServeTypeOK, Idle
  <1>5. RunningTracked /\ ClosingIsQuiet
    BY <1>3 DEF Init, RunningTracked, ClosingIsQuiet, Running
  <1>6. Fired = {}
    BY <1>3 DEF Fired
  <1>7. SeenIsFired /\ FiredOnce
    BY <1>6 DEF Init, SeenIsFired, FiredOnce
  <1> QED
    BY <1>4, <1>5, <1>7 DEF ServeInv

(* Each step of the supervisor, of a delivery and of a process preserves   *)
(* the invariant.                                                          *)
LEMMA ServeStep == ServeInv /\ [Next]_vars => ServeInv'
  <1> SUFFICES ASSUME ServeInv, [Next]_vars
               PROVE  ServeInv'
    OBVIOUS
  <1>1. CASE UNCHANGED <<setup, serveVars, child>>
    BY <1>1 DEF serveVars, ServeInv, ServeTypeOK, RunningTracked, ClosingIsQuiet, Running, Linear,
                SeenIsFired, FiredOnce, Fired
  <1>2. CASE UNCHANGED <<setup, serveVars>> /\ GoesOn
    <2>1. ServeTypeOK'
      BY <1>2 DEF ServeInv, ServeTypeOK, serveVars, GoesOn
    <2>2. RunningTracked' /\ ClosingIsQuiet'
      BY <1>2 DEF ServeInv, RunningTracked, ClosingIsQuiet, serveVars, GoesOn, Running
    <2>3. Fired' = Fired /\ \A c \in Fired : c \in Runners /\ child'[c].event = child[c].event
      BY <1>2 DEF Fired, serveVars, GoesOn
    <2>4. {child[c].event : c \in Fired}' = {child[c].event : c \in Fired}
      BY <2>3
    <2>5. Linear' => (SeenIsFired' /\ FiredOnce')
      BY <1>2, <2>3, <2>4 DEF ServeInv, Linear, SeenIsFired, FiredOnce, serveVars
    <2> QED
      BY <2>1, <2>2, <2>5 DEF ServeInv
  <1>3. CASE Trigger
    <2>1. <<setup.source>> \in Events /\ Fire(<<setup.source>>)
      BY <1>3, EventTyping DEF Trigger, ServeInv
    <2>2. ~Linear'
      BY <1>3 DEF Trigger, Http, Linear
    <2>3. ServeTypeOK' /\ RunningTracked' /\ ClosingIsQuiet'
      BY <1>3, <2>1, SpawningKeeps DEF Trigger, ServeInv, ServeTypeOK
    <2> QED
      BY <2>2, <2>3 DEF ServeInv
  <1>4. ASSUME NEW d \in Deliveries, Arrive(d) \/ TurnAway(d) \/ SenderLeaves(d)
        PROVE  ServeInv'
    <2>1. UNCHANGED <<setup, supervisor, incarnation, seen, tracked, child, acked, threw>>
      BY <1>4 DEF Arrive, TurnAway, SenderLeaves
    <2>2. \E at \in {"receiving", "answered"}, what \in Requests \cup {Absent} :
             /\ at = "receiving" => what \in Requests
             /\ request' = [request EXCEPT ![d] = [at |-> at, what |-> what]]
      BY <1>4 DEF Arrive, TurnAway, SenderLeaves, Answered
    <2>3. ServeTypeOK'
      BY <2>1, <2>2 DEF ServeInv, ServeTypeOK
    <2>4. RunningTracked' /\ ClosingIsQuiet' /\ (Linear' => (SeenIsFired' /\ FiredOnce'))
      BY <2>1 DEF ServeInv, RunningTracked, ClosingIsQuiet, Running, Linear, SeenIsFired, FiredOnce, Fired
    <2> QED
      BY <2>3, <2>4 DEF ServeInv
  <1>5. ASSUME NEW d \in Deliveries, ReceiveWebhook(d)
        PROVE  ServeInv'
    <2>1. /\ ~Linear' /\ request' = [request EXCEPT ![d] = [at |-> "answered", what |-> Absent]]
          /\ UNCHANGED <<setup, supervisor, incarnation>>
          /\ Fire(<<d>>) \/ UNCHANGED <<tracked, child>>
      BY <1>5 DEF ReceiveWebhook, Answered, Linear
    <2>2. /\ child' \in [Runners -> Processes] /\ tracked' \subseteq Runners
          /\ \A c \in Runners : child'[c].by <= incarnation
          /\ RunningTracked' /\ ClosingIsQuiet'
      <3>1. CASE Fire(<<d>>)
        BY <2>1, <3>1, EventTyping, SpawningKeeps DEF ServeInv
      <3>2. CASE UNCHANGED <<tracked, child>>
        BY <2>1, <3>2 DEF ServeInv, ServeTypeOK, RunningTracked, ClosingIsQuiet, Running
      <3> QED
        BY <2>1, <3>1, <3>2
    <2>3. ServeTypeOK'
      BY <2>1, <2>2 DEF ServeInv, ServeTypeOK
    <2> QED
      BY <2>1, <2>2, <2>3 DEF ServeInv
  <1>6. ASSUME NEW d \in Deliveries, ReceiveLinear(d)
        PROVE  ServeInv'
    <2>1. /\ Linear /\ Key(d) \in Events
          /\ request' = [request EXCEPT ![d] = [at |-> "answered", what |-> Absent]]
          /\ seen' = seen \cup {Key(d)} /\ acked' = acked \cup {Key(d)}
          /\ UNCHANGED <<setup, supervisor, incarnation, threw>>
          /\ Key(d) \in seen => UNCHANGED <<tracked, child>>
          /\ Key(d) \notin seen => Fire(Key(d))
      BY <1>6, EventTyping DEF ReceiveLinear, Answered, ServeInv
    <2>2. /\ child' \in [Runners -> Processes] /\ tracked' \subseteq Runners
          /\ \A c \in Runners : child'[c].by <= incarnation
          /\ RunningTracked' /\ ClosingIsQuiet' /\ SeenIsFired' /\ FiredOnce'
      <3>1. SeenIsFired /\ FiredOnce
        BY <2>1 DEF ServeInv
      <3>2. CASE Key(d) \in seen
        BY <2>1, <3>1, <3>2 DEF ServeInv, ServeTypeOK, RunningTracked, ClosingIsQuiet, Running,
                                SeenIsFired, FiredOnce, Fired
      <3>3. CASE Key(d) \notin seen
        <4>1. Key(d) \notin {child[c].event : c \in Fired}
          BY <3>1, <3>3 DEF SeenIsFired
        <4>2. /\ child' \in [Runners -> Processes] /\ tracked' \subseteq Runners
              /\ \A c \in Runners : child'[c].by <= incarnation
              /\ RunningTracked' /\ ClosingIsQuiet' /\ FiredOnce'
              /\ {child[c].event : c \in Fired}' = {child[c].event : c \in Fired} \cup {Key(d)}
          BY <2>1, <3>1, <3>3, <4>1, SpawningKeeps
        <4>3. SeenIsFired'
          BY <2>1, <3>1, <4>2 DEF SeenIsFired
        <4> QED
          BY <4>2, <4>3
      <3> QED
        BY <3>2, <3>3
    <2>3. ServeTypeOK'
      BY <2>1, <2>2 DEF ServeInv, ServeTypeOK
    <2> QED
      BY <2>2, <2>3 DEF ServeInv
  <1>7. ASSUME NEW d \in Deliveries, SpawnThrows(d)
        PROVE  ServeInv'
    <2>1. /\ Linear /\ supervisor \in {"serving", "closing"} /\ supervisor' \in {supervisor, "gone"}
          /\ request' = [request EXCEPT ![d] = [at |-> "unanswered", what |-> Absent]]
          /\ seen' = seen \cup {Key(d)} /\ threw' = threw \cup {Key(d)}
          /\ UNCHANGED <<setup, incarnation, tracked, child, acked>>
      BY <1>7 DEF SpawnThrows, Unanswered, Listening
    <2>2. ServeTypeOK'
      BY <2>1 DEF ServeInv, ServeTypeOK
    <2>3. RunningTracked' /\ ClosingIsQuiet' /\ SeenIsFired' /\ FiredOnce'
      BY <2>1 DEF ServeInv, RunningTracked, ClosingIsQuiet, Running, SeenIsFired, FiredOnce, Fired
    <2> QED
      BY <2>2, <2>3 DEF ServeInv
  <1>8. CASE Stop
    <2>1. /\ supervisor = "serving" /\ supervisor' \in {"closing", "stopped"} /\ tracked' = {}
          /\ child' = [c \in Runners |-> IF c \in tracked THEN [child[c] EXCEPT !.killed = TRUE] ELSE child[c]]
          /\ UNCHANGED <<setup, incarnation, request, seen, acked, threw>>
      BY <1>8 DEF Stop, Killed
    <2>2. /\ child' \in [Runners -> Processes]
          /\ \A c \in Runners : /\ child'[c].at = child[c].at /\ child'[c].by = child[c].by
                                /\ child'[c].event = child[c].event
                                /\ c \in tracked => child'[c].killed
      BY <2>1 DEF ServeInv, ServeTypeOK, Processes
    <2>3. ServeTypeOK'
      BY <2>1, <2>2 DEF ServeInv, ServeTypeOK
    <2>4. RunningTracked' /\ ClosingIsQuiet'
      BY <2>1, <2>2 DEF ServeInv, RunningTracked, ClosingIsQuiet, Running
    <2>5. Fired' = Fired /\ \A c \in Fired : c \in Runners /\ child'[c].event = child[c].event
      BY <2>1, <2>2 DEF Fired
    <2>6. {child[c].event : c \in Fired}' = {child[c].event : c \in Fired}
      BY <2>5
    <2>7. Linear' => (SeenIsFired' /\ FiredOnce')
      <3>1. SeenIsFired => SeenIsFired'
        BY <2>1, <2>6 DEF SeenIsFired
      <3>2. FiredOnce => FiredOnce'
        BY <2>5 DEF FiredOnce
      <3> QED
        BY <2>1, <3>1, <3>2 DEF ServeInv, Linear
    <2> QED
      BY <2>3, <2>4, <2>7 DEF ServeInv
  <1>9. CASE ListenerCloses \/ SupervisorDies
    <2>1. /\ \/ supervisor = "closing" /\ supervisor' = "stopped"
             \/ supervisor' = "gone"
          /\ UNCHANGED <<setup, incarnation, request, seen, tracked, child, acked, threw>>
      BY <1>9 DEF ListenerCloses, SupervisorDies
    <2>2. ServeTypeOK'
      BY <2>1 DEF ServeInv, ServeTypeOK
    <2>3. RunningTracked' /\ ClosingIsQuiet' /\ (Linear' => (SeenIsFired' /\ FiredOnce'))
      BY <2>1 DEF ServeInv, RunningTracked, ClosingIsQuiet, Running, Linear, SeenIsFired, FiredOnce, Fired
    <2> QED
      BY <2>2, <2>3 DEF ServeInv
  <1>10. CASE Restart
    <2>1. /\ supervisor' = "serving" /\ incarnation' = incarnation + 1
          /\ request' = [d \in Deliveries |-> Idle]
          /\ seen' = {} /\ tracked' = {} /\ acked' = {} /\ threw' = {}
          /\ UNCHANGED <<setup, child>>
      BY <1>10 DEF Restart
    <2>2. \A c \in Runners : child'[c].by \in Nat /\ child'[c].by < incarnation'
      BY <2>1, ProcessFields DEF ServeInv, ServeTypeOK
    <2>3. ServeTypeOK'
      <3>1. incarnation' \in Nat /\ \A c \in Runners : child'[c].by <= incarnation'
        BY <2>1, <2>2 DEF ServeInv, ServeTypeOK
      <3> QED
        BY <2>1, <3>1 DEF ServeInv, ServeTypeOK, Idle
    <2>4. Fired' = {} /\ RunningTracked' /\ ClosingIsQuiet'
      BY <2>1, <2>2 DEF Fired, RunningTracked, ClosingIsQuiet, ServeInv, ServeTypeOK
    <2>5. SeenIsFired' /\ FiredOnce'
      BY <2>1, <2>4 DEF SeenIsFired, FiredOnce
    <2> QED
      BY <2>3, <2>4, <2>5 DEF ServeInv
  <1>11. ASSUME NEW c \in Runners, Forget(c)
         PROVE  ServeInv'
    <2>1. /\ child[c].at = "exited" /\ tracked' = tracked \ {c}
          /\ UNCHANGED <<setup, supervisor, incarnation, request, seen, child, acked, threw>>
      BY <1>11 DEF Forget
    <2>2. ServeTypeOK'
      BY <2>1 DEF ServeInv, ServeTypeOK
    <2>3. RunningTracked' /\ ClosingIsQuiet' /\ (Linear' => (SeenIsFired' /\ FiredOnce'))
      BY <2>1 DEF ServeInv, RunningTracked, ClosingIsQuiet, Running, Linear, SeenIsFired, FiredOnce, Fired
    <2> QED
      BY <2>2, <2>3 DEF ServeInv
  <1>12. ASSUME NEW c \in Runners, Process(c)
         PROVE  ServeInv'
    BY <1>1, <1>2, <1>12, ProcessStep DEF ServeInv, ServeTypeOK
  <1>13. CASE Ages \/ UNCHANGED vars
    BY <1>1, <1>13 DEF Ages, vars
  <1> QED
    BY <1>3, <1>4, <1>5, <1>6, <1>7, <1>8, <1>9, <1>10, <1>11, <1>12, <1>13 DEF Next, Serving

(* The keys a supervisor answers for and the processes it fired are the    *)
(* property that the source promises.                                      *)
LEMMA ServeInvImplies == ServeInv => StoppedIsQuiet /\ OneFiringPerEvent
  <1> SUFFICES ASSUME ServeInv PROVE StoppedIsQuiet /\ OneFiringPerEvent
    OBVIOUS
  <1>1. StoppedIsQuiet
    BY DEF ServeInv, ClosingIsQuiet, StoppedIsQuiet
  <1>2. ASSUME Linear
        PROVE  /\ acked \subseteq threw \cup {child[c].event : c \in Fired}
               /\ \A c, d \in Fired : c # d => child[c].event # child[d].event
    BY <1>2 DEF ServeInv, SeenIsFired, FiredOnce
  <1> QED
    BY <1>1, <1>2 DEF OneFiringPerEvent, Fired

(* Every step of the service is a step of the store or leaves it alone.    *)
LEMMA StepOfTheStore == [Next]_vars => [StoreNext]_storeVars
  <1> SUFFICES ASSUME [Next]_vars PROVE [StoreNext]_storeVars
    OBVIOUS
  <1>1. CASE Serving
    <2>1. UNCHANGED storeVars
      BY <1>1 DEF Serving, Trigger, Arrive, ReceiveWebhook, ReceiveLinear, TurnAway, SpawnThrows,
                  SenderLeaves, Stop, ListenerCloses, SupervisorDies, Restart, Forget
    <2> QED
      BY <2>1
  <1>2. ASSUME NEW c \in Runners, Process(c)
        PROVE  [StoreNext]_storeVars
    <2>1. CASE Opens(c) \/ Leased(c) \/ Refused(c) \/ Resumes(c) \/ Saves(c) \/ Beats(c)
                \/ LosesLease(c) \/ Dies(c)
      BY <2>1 DEF Opens, Leased, Refused, Resumes, Saves, Beats, LosesLease, Dies, StoreNext
    <2>2. CASE Closes(c)
      BY <2>2 DEF Closes, StoreNext
    <2>3. CASE \/ StartFails(c) \/ StartsBare(c) \/ Stops(c) \/ GivesUp(c) \/ EmitsFirst(c)
               \/ EmitsSecond(c) \/ EmitFails(c) \/ FansOut(c) \/ Fans(c)
               \/ BranchLeftBehind(c) \/ Joins(c)
      BY <2>3 DEF StartFails, StartsBare, Stops, GivesUp, EmitsFirst, EmitsSecond, EmitFails,
                  FansOut, Fans, BranchLeftBehind, Joins
    <2> QED
      BY <1>2, <2>1, <2>2, <2>3 DEF Process
  <1>3. CASE Ages \/ UNCHANGED vars
    BY <1>3 DEF Ages, StoreNext, vars
  <1> QED
    BY <1>1, <1>2, <1>3 DEF Next

(* Loops that load, checkpoint, beat and close as they do here, spawned,   *)
(* killed and restarted by supervisors, use the store as it is specified.  *)
THEOREM ServiceUsesTheStore == Spec => StoreSpec
  <1>1. Init => StoreInit
    BY DEF Init
  <1> QED
    BY <1>1, StepOfTheStore, PTL DEF Spec, StoreSpec

(* Whatever supervisors and processes do, the history of their store is    *)
(* one chain but for what runners commit that have lost their lease, which *)
(* nobody does while every heartbeat is in time.                           *)
THEOREM ServiceHistoryIsOneChain == Spec => []HistoryIsOneChain
  BY ServiceUsesTheStore, StoreHistoryIsOneChain, PTL

(* The supervisor's variables have their types, and no process is from a   *)
(* supervisor that is yet to start.                                        *)
THEOREM ServeTypeCorrect == Spec => []ServeTypeOK
  <1>1. ServeInv => ServeTypeOK
    BY DEF ServeInv
  <1> QED
    BY <1>1, ServeInitial, ServeStep, PTL DEF Spec

(* A supervisor that has stopped leaves no process of its own running that *)
(* it did not send SIGKILL, except those fired while it was stopping.      *)
THEOREM ServiceStoppedIsQuiet == Spec => []StoppedIsQuiet
  BY ServeInitial, ServeStep, ServeInvImplies, PTL DEF Spec

(* However often an event is delivered to a supervisor, it fires once.     *)
THEOREM ServiceOneFiringPerEvent == Spec => []OneFiringPerEvent
  BY ServeInitial, ServeStep, ServeInvImplies, PTL DEF Spec

-----------------------------------------------------------------------------
(* Recursion over the naturals.  Of the library, the theorems that take a  *)
(* set are of use to the provers: a set of naturals has a least element.   *)

(* A set with zero that is closed under the successor has every natural.   *)
LEMMA NaturalsAreInductive ==
  ASSUME NEW T, 0 \in T, \A n \in Nat : n \in T => n + 1 \in T
  PROVE  Nat \subseteq T
  <1> SUFFICES ASSUME NEW k \in Nat, k \notin T
               PROVE  FALSE
    OBVIOUS
  <1> DEFINE U == Nat \ T
  <1>1. U \subseteq Nat /\ U # {}
    OBVIOUS
  <1>2. \E n \in U : \A m \in U : <<m, n>> \notin OpToRel(<, Nat)
    <2> HIDE DEF U
    <2> QED
      BY <1>1, NatLessThanWellFounded, WFMin
  <1>3. PICK n \in U : \A m \in U : ~(m < n)
    BY <1>1, <1>2 DEF OpToRel
  <1>4. n \in Nat /\ n \notin T /\ n # 0
    BY <1>3
  <1>5. n - 1 \in Nat /\ n - 1 < n /\ (n - 1) + 1 = n
    BY <1>4
  <1> QED
    BY <1>3, <1>4, <1>5

(* A value and a step for each number up to n determine a function.        *)
Follows(g, n, x, step) == g[0] = x /\ \A i \in 1 .. n : g[i] = step[i][g[i - 1]]

(* A recursion step by step over 0 .. n defines a function.                *)
LEMMA Recursion ==
  ASSUME NEW X, NEW n \in Nat, NEW x \in X, NEW step \in [1 .. n -> [X -> X]]
  PROVE  \E g \in [0 .. n -> X] : Follows(g, n, x, step)
  <1> DEFINE Good(k, g) == g[0] = x /\ \A i \in 1 .. k : g[i] = step[i][g[i - 1]]
             T == {k \in Nat : k <= n => \E g \in [0 .. k -> X] : Good(k, g)}
  <1>1. 0 \in T
    <2>1. [i \in 0 .. 0 |-> x] \in [0 .. 0 -> X] /\ Good(0, [i \in 0 .. 0 |-> x])
      OBVIOUS
    <2> QED
      BY <2>1
  <1>2. ASSUME NEW k \in Nat, k \in T
        PROVE  k + 1 \in T
    <2> SUFFICES ASSUME k + 1 <= n
                 PROVE  \E g \in [0 .. k + 1 -> X] : Good(k + 1, g)
      OBVIOUS
    <2>1. PICK g \in [0 .. k -> X] : Good(k, g)
      BY <1>2
    <2> DEFINE h == [i \in 0 .. k + 1 |-> IF i = k + 1 THEN step[k + 1][g[k]] ELSE g[i]]
    <2>2. step[k + 1][g[k]] \in X
      <3>1. step[k + 1] \in [X -> X] /\ g[k] \in X
        OBVIOUS
      <3> QED
        BY <3>1
    <2>3. h \in [0 .. k + 1 -> X]
      BY <2>2
    <2>4. h[0] = x /\ h[k + 1] = step[k + 1][g[k]] /\ h[k] = g[k]
          /\ \A i \in 0 .. k : h[i] = g[i]
      BY <2>1
    <2>5. Good(k + 1, h)
      <3> HIDE DEF h
      <3> SUFFICES ASSUME NEW i \in 1 .. k + 1
                   PROVE  h[i] = step[i][h[i - 1]]
        BY <2>4
      <3>1. CASE i = k + 1
        BY <2>4, <3>1
      <3>2. CASE i # k + 1
        <4>1. i \in 1 .. k /\ i \in 0 .. k /\ i - 1 \in 0 .. k
          BY <3>2
        <4> QED
          BY <2>1, <2>4, <4>1
      <3> QED
        BY <3>1, <3>2
    <2> QED
      BY <2>3, <2>5
  <1>3. Nat \subseteq T
    <2> HIDE DEF T
    <2> QED
      BY <1>1, <1>2, NaturalsAreInductive
  <1> QED
    BY <1>3 DEF Follows
-----------------------------------------------------------------------------
(* The fan-in.                                                             *)

Outcomes ==
    [at : {"waiting", "copying", "running", "saving", "ok", "failed"},
     answer : Answers \cup {"none"}, elapsed : Nat]

(* A branch that has returned has an answer.                               *)
BranchesOK ==
    /\ branch \in [Branches -> Outcomes]
    /\ \A b \in Branches : branch[b].at \in {"saving", "ok"} => branch[b].answer \in Answers

Width == Cardinality(Branches)

(* The branches are 1 up to their number.                                  *)
LEMMA Numbered == Width \in Nat /\ Branches = 1 .. Width
  BY FanOutConstants, FS_CardinalityType DEF Width

(* Whoever leads after branch b has been looked at.                        *)
Leads(b, best) ==
    IF /\ b \in Successes
       /\ best = 0 \/ branch[b].elapsed < branch[IF best = 0 THEN b ELSE best].elapsed
    THEN b ELSE best

LEMMA FastestUnfolds ==
  ASSUME BranchesOK
  PROVE  /\ Fastest \in [0 .. Width -> 0 .. Width]
         /\ Fastest[0] = 0
         /\ \A b \in 1 .. Width : Fastest[b] = Leads(b, Fastest[b - 1])
  <1> DEFINE IsFastest(g) ==
                 g = [b \in Branches \cup {0} |-> IF b = 0 THEN 0 ELSE Leads(b, g[b - 1])]
             step == [b \in 1 .. Width |-> [best \in 0 .. Width |-> Leads(b, best)]]
  <1>1. Width \in Nat /\ Branches = 1 .. Width /\ Branches \cup {0} = 0 .. Width
    BY Numbered
  <1>2. \A b \in 1 .. Width, best \in 0 .. Width : Leads(b, best) \in 0 .. Width
    BY <1>1 DEF Leads
  <1>3. step \in [1 .. Width -> [0 .. Width -> 0 .. Width]]
    BY <1>2
  <1>4. PICK g \in [0 .. Width -> 0 .. Width] :
               g[0] = 0 /\ \A i \in 1 .. Width : g[i] = step[i][g[i - 1]]
    <2> DEFINE X == 0 .. Width
               nobody == 0
    <2>1. nobody \in X /\ Width \in Nat /\ step \in [1 .. Width -> [X -> X]]
      BY <1>1, <1>3
    <2> HIDE DEF X, step, nobody
    <2>2. \E g \in [0 .. Width -> X] : Follows(g, Width, nobody, step)
      BY <2>1, Recursion
    <2> QED
      BY <2>2 DEF X, nobody, Follows
  <1>5. \A i \in 1 .. Width : i - 1 \in 0 .. Width /\ g[i] = Leads(i, g[i - 1])
    <2> SUFFICES ASSUME NEW i \in 1 .. Width
                 PROVE  i - 1 \in 0 .. Width /\ g[i] = Leads(i, g[i - 1])
      OBVIOUS
    <2>1. i - 1 \in 0 .. Width
      BY <1>1
    <2>2. g[i - 1] \in 0 .. Width
      BY <1>4, <2>1
    <2>3. step[i][g[i - 1]] = Leads(i, g[i - 1])
      BY <2>2
    <2> QED
      BY <1>4, <2>1, <2>3
  <1>6. IsFastest(g)
    BY <1>1, <1>4, <1>5
  <1>7. Fastest = CHOOSE h : IsFastest(h)
    BY DEF Fastest, Leads
  <1>8. IsFastest(Fastest)
    <2> HIDE DEF IsFastest
    <2> QED
      BY <1>6, <1>7, Zenon
  <1>9. /\ DOMAIN Fastest = 0 .. Width /\ Fastest[0] = 0
        /\ \A b \in 1 .. Width : Fastest[b] = Leads(b, Fastest[b - 1])
    <2>1. Fastest = [b \in 0 .. Width |-> IF b = 0 THEN 0 ELSE Leads(b, Fastest[b - 1])]
      BY <1>1, <1>8
    <2>2. \A b \in 0 .. Width : Fastest[b] = IF b = 0 THEN 0 ELSE Leads(b, Fastest[b - 1])
      BY <2>1
    <2>3. DOMAIN Fastest = 0 .. Width
      BY <2>1
    <2>4. Fastest[0] = 0
      BY <1>1, <2>2
    <2>5. ASSUME NEW b \in 1 .. Width
          PROVE  Fastest[b] = Leads(b, Fastest[b - 1])
      <3>1. b \in 0 .. Width /\ b # 0
        BY <1>1
      <3> QED
        BY <2>2, <3>1, Zenon
    <2> QED
      BY <2>3, <2>4, <2>5
  <1>10. \A k \in 0 .. Width : Fastest[k] \in 0 .. Width
    <2> DEFINE T == {k \in Nat : k <= Width => Fastest[k] \in 0 .. Width}
    <2>1. 0 \in T
      BY <1>1, <1>9
    <2>2. ASSUME NEW k \in Nat, k \in T
          PROVE  k + 1 \in T
      <3> SUFFICES ASSUME k + 1 <= Width
                   PROVE  Fastest[k + 1] \in 0 .. Width
        OBVIOUS
      <3>1. Fastest[k] \in 0 .. Width /\ k + 1 \in 1 .. Width /\ (k + 1) - 1 = k
        BY <1>1, <2>2
      <3> QED
        BY <1>2, <1>9, <3>1
    <2>3. Nat \subseteq T
      <3> HIDE DEF T
      <3> QED
        BY <2>1, <2>2, NaturalsAreInductive
    <2> QED
      BY <1>1, <2>3
  <1>11. Fastest = [b \in 0 .. Width |-> Fastest[b]]
    BY <1>1, <1>8
  <1> QED
    BY <1>9, <1>10, <1>11

(* The race's winner among the branches looked at so far.                  *)
Wins(b, k) ==
    /\ b \in Successes /\ b <= k
    /\ \A c \in Successes \ {b} :
         c <= k => \/ branch[b].elapsed < branch[c].elapsed
                   \/ branch[b].elapsed = branch[c].elapsed /\ b < c

(* Fastest, so far: none has succeeded, or it is the earliest-listed of    *)
(* the quickest.                                                           *)
LEMMA FastestWins ==
  ASSUME BranchesOK, NEW k \in 0 .. Width
  PROVE  \/ Fastest[k] = 0 /\ \A c \in Successes : ~(c <= k)
         \/ Wins(Fastest[k], k)
  <1> DEFINE Holds(j) == \/ Fastest[j] = 0 /\ \A c \in Successes : ~(c <= j)
                         \/ Wins(Fastest[j], j)
             T == {j \in Nat : j <= Width => Holds(j)}
  <1>1. /\ Width \in Nat /\ Branches = 1 .. Width /\ Successes \subseteq 1 .. Width
        /\ \A b \in Branches : branch[b].elapsed \in Nat
    BY Numbered DEF BranchesOK, Outcomes, Successes
  <1>2. 0 \in T
    BY <1>1, FastestUnfolds
  <1>3. ASSUME NEW j \in Nat, j \in T
        PROVE  j + 1 \in T
    <2> SUFFICES ASSUME j + 1 <= Width
                 PROVE  Holds(j + 1)
      OBVIOUS
    <2>1. Holds(j) /\ j + 1 \in 1 .. Width /\ (j + 1) - 1 = j
      BY <1>1, <1>3
    <2>2. Fastest[j + 1] = Leads(j + 1, Fastest[j])
      BY <2>1, FastestUnfolds
    <2>3. CASE j + 1 \notin Successes
      <3>1. Fastest[j + 1] = Fastest[j]
        BY <2>2, <2>3 DEF Leads
      <3>2. \A c \in Successes : c <= j + 1 <=> c <= j
        BY <1>1, <2>3
      <3> QED
        BY <1>1, <2>1, <3>1, <3>2 DEF Wins
    <2>4. CASE j + 1 \in Successes
      <3>1. CASE Fastest[j] = 0 /\ \A c \in Successes : ~(c <= j)
        <4>1. Fastest[j + 1] = j + 1
          BY <2>2, <2>4, <3>1 DEF Leads
        <4>2. \A c \in Successes \ {j + 1} : ~(c <= j + 1)
          BY <1>1, <3>1
        <4> QED
          BY <2>4, <4>1, <4>2 DEF Wins
      <3>2. CASE Wins(Fastest[j], j)
        <4> DEFINE f == Fastest[j]
        <4>0. f \in Successes /\ f <= j
          BY <3>2 DEF Wins
        <4> HIDE DEF f
        <4>1. f \in Successes /\ f \in 1 .. Width /\ f # 0 /\ f <= j
          BY <1>1, <4>0
        <4> USE DEF f
        <4>2. branch[f].elapsed \in Nat /\ branch[j + 1].elapsed \in Nat
          BY <1>1, <2>1, <4>1
        <4>3. \A c \in Successes : c \in 1 .. Width /\ branch[c].elapsed \in Nat
          BY <1>1
        <4>4. CASE branch[j + 1].elapsed < branch[f].elapsed
          <5>1. Fastest[j + 1] = j + 1
            BY <2>2, <2>4, <4>1, <4>4 DEF Leads
          <5>2. \A c \in Successes \ {j + 1} :
                   c <= j + 1 => branch[j + 1].elapsed < branch[c].elapsed
            <6> SUFFICES ASSUME NEW c \in Successes, c # j + 1, c <= j + 1
                         PROVE  branch[j + 1].elapsed < branch[c].elapsed
              OBVIOUS
            <6>1. c <= j
              BY <4>3
            <6>2. c = f \/ branch[f].elapsed <= branch[c].elapsed
              BY <3>2, <4>2, <4>3, <6>1 DEF Wins
            <6> QED
              BY <4>2, <4>3, <4>4, <6>2
          <5> QED
            BY <2>4, <5>1, <5>2 DEF Wins
        <4>5. CASE ~(branch[j + 1].elapsed < branch[f].elapsed)
          <5>1. Fastest[j + 1] = f
            BY <2>2, <2>4, <4>1, <4>5 DEF Leads
          <5>2. \A c \in Successes \ {f} :
                   c <= j + 1 => \/ branch[f].elapsed < branch[c].elapsed
                                 \/ branch[f].elapsed = branch[c].elapsed /\ f < c
            <6> SUFFICES ASSUME NEW c \in Successes \ {f}, c <= j + 1
                         PROVE  \/ branch[f].elapsed < branch[c].elapsed
                                \/ branch[f].elapsed = branch[c].elapsed /\ f < c
              OBVIOUS
            <6>1. CASE c = j + 1
              BY <4>1, <4>2, <4>5, <6>1
            <6>2. CASE c # j + 1
              BY <3>2, <4>3, <6>2 DEF Wins
            <6> QED
              BY <6>1, <6>2
          <5>3. f <= j + 1
            BY <4>1
          <5> QED
            BY <4>1, <5>1, <5>2, <5>3 DEF Wins
        <4> QED
          BY <4>4, <4>5
      <3> QED
        BY <2>1, <3>1, <3>2
    <2> QED
      BY <2>3, <2>4
  <1>4. Nat \subseteq T
    <2> HIDE DEF T
    <2> QED
      BY <1>2, <1>3, NaturalsAreInductive
  <1> QED
    BY <1>1, <1>4

(* The vote: what is counted, before and after a branch.                   *)
Ballots == [groups : [Answers -> SUBSET Branches], largest : Nat, folded : SUBSET Branches]

Blank == [groups |-> [a \in Answers |-> {}], largest |-> 0, folded |-> {}]

Ballot(b, before, quorum) ==
    IF b \notin Successes \/ before.folded # {} THEN before
    ELSE LET group == before.groups[branch[b].answer] \cup {b}
             size  == Cardinality(group)
         IN [groups  |-> [before.groups EXCEPT ![branch[b].answer] = group],
             largest |-> IF size > before.largest THEN size ELSE before.largest,
             folded  |-> IF size >= quorum THEN group ELSE {}]

LEMMA FewBranches ==
  ASSUME NEW S \in SUBSET Branches
  PROVE  IsFiniteSet(S) /\ Cardinality(S) \in Nat
  BY FanOutConstants, FS_Subset, FS_CardinalityType

LEMMA BallotTyped ==
  ASSUME BranchesOK, NEW b \in Branches, NEW before \in Ballots, NEW quorum \in Nat
  PROVE  Ballot(b, before, quorum) \in Ballots
  <1>1. CASE b \notin Successes \/ before.folded # {}
    BY <1>1 DEF Ballot
  <1>2. CASE ~(b \notin Successes \/ before.folded # {})
    <2> DEFINE group == before.groups[branch[b].answer] \cup {b}
    <2>1. /\ branch[b].answer \in Answers /\ before.groups \in [Answers -> SUBSET Branches]
          /\ before.largest \in Nat
      BY <1>2 DEF BranchesOK, Successes, Ballots
    <2>2. group \in SUBSET Branches
      BY <2>1
    <2>3. Cardinality(group) \in Nat
      BY <2>2, FewBranches
    <2> HIDE DEF group
    <2>4. [before.groups EXCEPT ![branch[b].answer] = group] \in [Answers -> SUBSET Branches]
      BY <2>1, <2>2
    <2>5. Ballot(b, before, quorum) =
             [groups  |-> [before.groups EXCEPT ![branch[b].answer] = group],
              largest |-> IF Cardinality(group) > before.largest THEN Cardinality(group)
                                                                 ELSE before.largest,
              folded  |-> IF Cardinality(group) >= quorum THEN group ELSE {}]
      BY <1>2 DEF Ballot, group
    <2> QED
      BY <2>1, <2>2, <2>3, <2>4, <2>5 DEF Ballots
  <1> QED
    BY <1>1, <1>2

Counts(g, quorum) ==
    g = [b \in Branches \cup {0} |-> IF b = 0 THEN Blank ELSE Ballot(b, g[b - 1], quorum)]

LEMMA VoteUnfolds ==
  ASSUME BranchesOK, NEW quorum \in Nat
  PROVE  \E g \in [0 .. Width -> Ballots] :
            /\ g[0] = Blank
            /\ \A b \in 1 .. Width : g[b] = Ballot(b, g[b - 1], quorum)
            /\ Vote(quorum) = g[Width]
  <1> DEFINE step == [b \in 1 .. Width |-> [v \in Ballots |-> Ballot(b, v, quorum)]]
             c == CHOOSE g : Counts(g, quorum)
  <1>1. Width \in Nat /\ Branches = 1 .. Width /\ Branches \cup {0} = 0 .. Width
    BY Numbered
  <1>2. step \in [1 .. Width -> [Ballots -> Ballots]]
    BY <1>1, BallotTyped
  <1>3. Blank \in Ballots
    BY DEF Blank, Ballots
  <1>4. PICK g \in [0 .. Width -> Ballots] : Follows(g, Width, Blank, step)
    <2> HIDE DEF step
    <2> QED
      BY <1>1, <1>2, <1>3, Recursion
  <1>5. \A i \in 1 .. Width : g[i] = Ballot(i, g[i - 1], quorum)
    <2> SUFFICES ASSUME NEW i \in 1 .. Width
                 PROVE  g[i] = Ballot(i, g[i - 1], quorum)
      OBVIOUS
    <2>1. i - 1 \in 0 .. Width
      BY <1>1
    <2>2. g[i - 1] \in Ballots
      BY <2>1
    <2> QED
      BY <1>4, <2>2 DEF Follows
  <1>6. g[0] = Blank
    BY <1>4 DEF Follows
  <1>7. Counts(g, quorum)
    <2>1. \A b \in 0 .. Width : g[b] = IF b = 0 THEN Blank ELSE Ballot(b, g[b - 1], quorum)
      BY <1>1, <1>5, <1>6
    <2> QED
      BY <1>1, <2>1 DEF Counts
  <1>8. Counts(c, quorum)
    BY <1>7, Zenon
  <1>9. Vote(quorum) = c[Width]
    BY DEF Vote, Counts, Blank, Ballot, Width
  <1> HIDE DEF c
  <1>10. c = [b \in 0 .. Width |-> IF b = 0 THEN Blank ELSE Ballot(b, c[b - 1], quorum)]
    BY <1>1, <1>8 DEF Counts
  <1>11. \A b \in 0 .. Width : c[b] = IF b = 0 THEN Blank ELSE Ballot(b, c[b - 1], quorum)
    BY <1>10
  <1>12. c[0] = Blank
    BY <1>1, <1>11
  <1>13. ASSUME NEW b \in 1 .. Width
         PROVE  c[b] = Ballot(b, c[b - 1], quorum)
    <2>1. b \in 0 .. Width /\ b # 0
      BY <1>1
    <2> QED
      BY <1>11, <2>1, Zenon
  <1>14. \A k \in 0 .. Width : c[k] \in Ballots
    <2> DEFINE T == {k \in Nat : k <= Width => c[k] \in Ballots}
    <2>1. 0 \in T
      BY <1>3, <1>12
    <2>2. ASSUME NEW k \in Nat, k \in T
          PROVE  k + 1 \in T
      <3> SUFFICES ASSUME k + 1 <= Width
                   PROVE  c[k + 1] \in Ballots
        OBVIOUS
      <3>1. c[k] \in Ballots /\ k + 1 \in 1 .. Width /\ (k + 1) - 1 = k
        BY <1>1, <2>2
      <3>2. c[k + 1] = Ballot(k + 1, c[k], quorum)
        BY <1>13, <3>1
      <3> QED
        BY <1>1, <3>1, <3>2, BallotTyped
    <2>3. Nat \subseteq T
      <3> HIDE DEF T
      <3> QED
        BY <2>1, <2>2, NaturalsAreInductive
    <2> QED
      BY <1>1, <2>3
  <1>15. c \in [0 .. Width -> Ballots]
    BY <1>10, <1>14
  <1> QED
    BY <1>9, <1>12, <1>13, <1>15

(* The group that is complete first: of these branches, with this last.    *)
CompleteFirst(folded, quorum) ==
    \E a \in Answers, last \in Successes :
        /\ folded = {b \in Agreeing(a) : b <= last} /\ last \in folded
        /\ Cardinality(folded) = quorum
        /\ \A other \in Answers \ {a} : Cardinality({b \in Agreeing(other) : b < last}) < quorum

(* What the votes say after the first k branches.                          *)
Counting(v, k, quorum) ==
    /\ \A a \in Answers : /\ v.groups[a] = {b \in Agreeing(a) : b <= k}
                          /\ Cardinality(v.groups[a]) < quorum
                          /\ Cardinality(v.groups[a]) <= v.largest
    /\ \/ \E a \in Answers : Cardinality(v.groups[a]) = v.largest
       \/ v.largest = 0 /\ \A b \in Successes : ~(b <= k)

Tallied(v, k, quorum) ==
    IF v.folded = {} THEN Counting(v, k, quorum) ELSE CompleteFirst(v.folded, quorum)

LEMMA BallotTallied ==
  ASSUME BranchesOK, NEW k \in Nat, k + 1 \in Branches, NEW v \in Ballots,
         NEW quorum \in Nat \ {0}, Tallied(v, k, quorum)
  PROVE  Tallied(Ballot(k + 1, v, quorum), k + 1, quorum)
  <1> DEFINE w == Ballot(k + 1, v, quorum)
  <1>0. /\ Branches \subseteq Nat /\ Successes \subseteq Branches
        /\ \A a : Agreeing(a) \subseteq Successes
    BY Numbered DEF Successes, Agreeing
  <1>1. CASE v.folded # {}
    <2>1. w = v
      BY <1>1 DEF Ballot
    <2> QED
      BY <1>1, <2>1 DEF Tallied
  <1>2. CASE v.folded = {} /\ k + 1 \notin Successes
    <2>1. w = v
      BY <1>2 DEF Ballot
    <2>2. \A b \in Successes : b <= k + 1 <=> b <= k
      BY <1>0, <1>2
    <2>3. \A a : {b \in Agreeing(a) : b <= k + 1} = {b \in Agreeing(a) : b <= k}
      BY <1>0, <2>2
    <2>4. Counting(v, k, quorum)
      BY <1>2 DEF Tallied
    <2>5. Counting(v, k + 1, quorum)
      BY <2>2, <2>3, <2>4 DEF Counting
    <2> QED
      BY <1>2, <2>1, <2>5 DEF Tallied
  <1>3. CASE v.folded = {} /\ k + 1 \in Successes
    <2> DEFINE a0 == branch[k + 1].answer
               group == v.groups[a0] \cup {k + 1}
               size == Cardinality(group)
    <2>1. /\ a0 \in Answers /\ k + 1 \in Agreeing(a0)
          /\ \A a \in Answers \ {a0} : k + 1 \notin Agreeing(a)
      BY <1>3 DEF BranchesOK, Successes, Agreeing
    <2>2. Counting(v, k, quorum)
      BY <1>3 DEF Tallied
    <2>3. /\ v.groups \in [Answers -> SUBSET Branches] /\ v.largest \in Nat
      BY DEF Ballots
    <2>4. /\ v.groups[a0] \in SUBSET Branches
          /\ v.groups[a0] = {b \in Agreeing(a0) : b <= k}
          /\ Cardinality(v.groups[a0]) < quorum /\ Cardinality(v.groups[a0]) <= v.largest
      BY <2>1, <2>2, <2>3 DEF Counting
    <2>5. group = {b \in Agreeing(a0) : b <= k + 1}
      <3>0. \A b \in Agreeing(a0) : b \in Nat
        BY <1>0
      <3> HIDE DEF a0
      <3>1. \A b \in Agreeing(a0) : b <= k + 1 <=> (b <= k \/ b = k + 1)
        BY <3>0
      <3> USE DEF a0
      <3> QED
        BY <2>1, <2>4, <3>1
    <2>6. size = Cardinality(v.groups[a0]) + 1 /\ Cardinality(v.groups[a0]) \in Nat
      <3>1. IsFiniteSet(v.groups[a0]) /\ Cardinality(v.groups[a0]) \in Nat
        BY <2>4, FewBranches
      <3>2. k + 1 \notin v.groups[a0]
        BY <2>4
      <3> QED
        BY <3>1, <3>2, FS_AddElement
    <2>7. \A a \in Answers \ {a0} : /\ v.groups[a] = {b \in Agreeing(a) : b <= k + 1}
                                    /\ v.groups[a] = {b \in Agreeing(a) : b < k + 1}
      <3> SUFFICES ASSUME NEW a \in Answers \ {a0}
                   PROVE  /\ v.groups[a] = {b \in Agreeing(a) : b <= k + 1}
                          /\ v.groups[a] = {b \in Agreeing(a) : b < k + 1}
        OBVIOUS
      <3>1. v.groups[a] = {b \in Agreeing(a) : b <= k}
        BY <2>2 DEF Counting
      <3>2. \A b \in Agreeing(a) : b \in Nat /\ b # k + 1
        BY <1>0, <2>1
      <3>3. \A b \in Agreeing(a) : (b <= k <=> b <= k + 1) /\ (b <= k <=> b < k + 1)
        BY <3>2
      <3> QED
        BY <3>1, <3>3
    <2>8. w = [groups  |-> [v.groups EXCEPT ![a0] = group],
               largest |-> IF size > v.largest THEN size ELSE v.largest,
               folded  |-> IF size >= quorum THEN group ELSE {}]
      BY <1>3 DEF Ballot
    <2>9. CASE size >= quorum
      <3>1. w.folded = group /\ group # {}
        BY <2>8, <2>9
      <3>2. size = quorum
        BY <2>4, <2>6, <2>9
      <3>3. \A other \in Answers \ {a0} : Cardinality({b \in Agreeing(other) : b < k + 1}) < quorum
        BY <2>2, <2>7 DEF Counting
      <3>4. k + 1 \in group
        OBVIOUS
      <3> HIDE DEF group, w, a0
      <3>5. CompleteFirst(group, quorum)
        BY <1>3, <2>1, <2>5, <3>2, <3>3, <3>4 DEF CompleteFirst, size
      <3> USE DEF w
      <3> QED
        BY <3>1, <3>5 DEF Tallied
    <2>10. CASE ~(size >= quorum)
      <3> DEFINE most == IF size > v.largest THEN size ELSE v.largest
      <3>1. w.folded = {} /\ w.groups = [v.groups EXCEPT ![a0] = group] /\ w.largest = most
        <4> HIDE DEF w, group, size, a0
        <4> QED
          BY <2>8, <2>10
      <3>2. w.groups[a0] = group /\ \A a \in Answers \ {a0} : w.groups[a] = v.groups[a]
        BY <2>1, <2>3, <3>1
      <3>3. size < quorum /\ size <= most /\ v.largest <= most /\ (most = size \/ most = v.largest)
            /\ most \in Nat
        BY <2>3, <2>6, <2>10
      <3> HIDE DEF w, most, group, size, a0
      <3>4. ASSUME NEW a \in Answers
            PROVE  /\ w.groups[a] = {b \in Agreeing(a) : b <= k + 1}
                   /\ Cardinality(w.groups[a]) < quorum
                   /\ Cardinality(w.groups[a]) <= w.largest
        <4>1. CASE a = a0
          <5>1. w.groups[a] = group /\ Cardinality(group) = size
            BY <3>2, <4>1 DEF size
          <5>2. w.groups[a] = {b \in Agreeing(a) : b <= k + 1}
            BY <2>5, <4>1, <5>1
          <5>3. Cardinality(w.groups[a]) < quorum /\ Cardinality(w.groups[a]) <= w.largest
            BY <3>1, <3>3, <5>1
          <5> QED
            BY <5>2, <5>3
        <4>2. CASE a # a0
          <5>1. w.groups[a] = v.groups[a] /\ v.groups[a] = {b \in Agreeing(a) : b <= k + 1}
            BY <2>7, <3>2, <4>2
          <5>2. /\ Cardinality(v.groups[a]) < quorum /\ Cardinality(v.groups[a]) <= v.largest
                /\ Cardinality(v.groups[a]) \in Nat
            BY <2>2, <2>3, FewBranches DEF Counting
          <5>3. Cardinality(v.groups[a]) <= most
            BY <2>3, <3>3, <5>2
          <5>4. w.groups[a] = {b \in Agreeing(a) : b <= k + 1} /\ w.largest = most
            BY <3>1, <5>1
          <5> QED
            BY <5>1, <5>2, <5>3, <5>4
        <4> QED
          BY <4>1, <4>2
      <3>5. \E a \in Answers : Cardinality(w.groups[a]) = w.largest
        <4>1. CASE most = size
          BY <2>1, <3>1, <3>2, <4>1 DEF size
        <4>2. CASE most = v.largest /\ most # size
          <5>1. v.largest # 0
            BY <2>3, <2>6, <3>3, <4>2
          <5>2. PICK a \in Answers : Cardinality(v.groups[a]) = v.largest
            BY <2>2, <5>1 DEF Counting
          <5>3. a # a0
            BY <2>3, <2>6, <3>3, <4>2, <5>2
          <5> QED
            BY <3>1, <3>2, <4>2, <5>2, <5>3
        <4> QED
          BY <3>3, <4>1, <4>2
      <3>6. Counting(w, k + 1, quorum)
        BY <3>4, <3>5 DEF Counting
      <3> USE DEF w
      <3> QED
        BY <3>1, <3>6 DEF Tallied
    <2> QED
      BY <2>9, <2>10
  <1> QED
    BY <1>1, <1>2, <1>3

(* What the count has come to after the last branch.                       *)
LEMMA VoteTallied ==
  ASSUME BranchesOK, NEW quorum \in Nat \ {0}
  PROVE  Vote(quorum) \in Ballots /\ Tallied(Vote(quorum), Width, quorum)
  <1>1. PICK g \in [0 .. Width -> Ballots] :
            /\ g[0] = Blank
            /\ \A b \in 1 .. Width : g[b] = Ballot(b, g[b - 1], quorum)
            /\ Vote(quorum) = g[Width]
    BY VoteUnfolds
  <1> DEFINE T == {k \in Nat : k <= Width => Tallied(g[k], k, quorum)}
  <1>2. Width \in Nat /\ Branches = 1 .. Width /\ Successes \subseteq Branches
    BY Numbered DEF Successes
  <1>3. 0 \in T
    <2>1. Blank.folded = {} /\ Blank.largest = 0 /\ \A a \in Answers : Blank.groups[a] = {}
      BY DEF Blank
    <2>2. \A a : {b \in Agreeing(a) : b <= 0} = {}
      <3>1. \A a : \A b \in Agreeing(a) : b \in 1 .. Width
        BY <1>2 DEF Agreeing
      <3>2. \A b \in 1 .. Width : ~(b <= 0)
        BY <1>2
      <3> QED
        BY <3>1, <3>2
    <2>3. \A b \in Successes : ~(b <= 0)
      BY <1>2
    <2>4. Cardinality({}) = 0
      BY FS_EmptySet
    <2>5. Counting(Blank, 0, quorum)
      <3>1. \A a \in Answers : /\ Blank.groups[a] = {b \in Agreeing(a) : b <= 0}
                               /\ Cardinality(Blank.groups[a]) = 0
        BY <2>1, <2>2, <2>4
      <3> QED
        BY <2>1, <2>3, <3>1 DEF Counting
    <2> QED
      BY <1>1, <2>1, <2>5 DEF Tallied
  <1>4. ASSUME NEW k \in Nat, k \in T
        PROVE  k + 1 \in T
    <2> SUFFICES ASSUME k + 1 <= Width
                 PROVE  Tallied(g[k + 1], k + 1, quorum)
      OBVIOUS
    <2>1. Tallied(g[k], k, quorum) /\ k + 1 \in 1 .. Width /\ k \in 0 .. Width /\ (k + 1) - 1 = k
      BY <1>2, <1>4
    <2>2. g[k] \in Ballots /\ g[k + 1] = Ballot(k + 1, g[k], quorum)
      BY <1>1, <2>1
    <2> QED
      BY <1>2, <2>1, <2>2, BallotTallied
  <1>5. Nat \subseteq T
    <2> HIDE DEF T
    <2> QED
      BY <1>3, <1>4, NaturalsAreInductive
  <1> QED
    BY <1>1, <1>2, <1>5

(* A verdict, against the outcomes of the branches alone: JoinIsSound for  *)
(* one answer.                                                             *)
SoundFor(asked, j) ==
    LET enough == Enough(ToleranceOf(asked))
    IN CASE j.verdict = "merged" -> enough /\ FoldsItsPolicy(asked, j.folded)
         [] j.verdict = "no-quorum" ->
              /\ enough /\ ~HasQuorum(asked.quorum)
              /\ \E a \in Answers : Cardinality(Agreeing(a)) = j.agreeing
              /\ \A a \in Answers : Cardinality(Agreeing(a)) <= j.agreeing
         [] j.verdict = "misconfigured" ->
              enough /\ asked.policy = "quorum" /\ asked.quorum = NoQuorum
         [] j.verdict = "no-success" -> Successes = {}
         [] OTHER -> Successes # {} /\ ~enough

LEMMA ToleranceTyped == ASSUME NEW asked \in Asks PROVE ToleranceOf(asked) \in Tolerances
  <1>1. asked.policy \in Policies /\ asked.quorum \in Nat /\ asked.onPartialFailure \subseteq Tolerances
    BY DEF Asks
  <1>2. DefaultPartialFailure(asked.policy, asked.quorum) \in Tolerances
    BY <1>1 DEF DefaultPartialFailure, FailFast, Tolerate, Tolerances, Policies, NoQuorum
  <1>3. CASE asked.onPartialFailure = {}
    BY <1>2, <1>3 DEF ToleranceOf
  <1>4. CASE asked.onPartialFailure # {}
    <2>1. (CHOOSE t \in asked.onPartialFailure : TRUE) \in asked.onPartialFailure
      BY <1>4
    <2> QED
      BY <1>1, <1>4, <2>1 DEF ToleranceOf
  <1> QED
    BY <1>3, <1>4

(* The gate is open when enough branches have succeeded, and only then.    *)
LEMMA GateIsEnough ==
  ASSUME BranchesOK, NEW t \in Tolerances
  PROVE  \/ Gate(t) = "open" /\ Enough(t)
         \/ Gate(t) = "no-success" /\ Successes = {}
         \/ Gate(t) = "partial-failure" /\ Successes # {} /\ ~Enough(t)
  <1>1. Cardinality(Successes) \in Nat
    BY FewBranches DEF Successes
  <1>2. t.kind \in {"fail-fast", "tolerate"} /\ t.minSuccess \in Nat
    BY DEF Tolerances
  <1>3. CASE Successes = {}
    BY <1>3 DEF Gate
  <1>4. CASE Successes # {} /\ t.kind = "fail-fast" /\ Failures # {}
    BY <1>4 DEF Gate, Enough
  <1>5. CASE Successes # {} /\ t.kind = "tolerate" /\ Cardinality(Successes) < t.minSuccess
    <2>1. Gate(t) = "partial-failure"
      BY <1>5 DEF Gate, TooFew
    <2>2. ~Enough(t)
      BY <1>1, <1>2, <1>5 DEF Enough
    <2> QED
      BY <1>5, <2>1, <2>2
  <1>6. CASE /\ Successes # {}
             /\ t.kind = "fail-fast" => Failures = {}
             /\ t.kind = "tolerate" => ~(Cardinality(Successes) < t.minSuccess)
    <2>1. Gate(t) = "open"
      BY <1>6 DEF Gate, TooFew
    <2>2. Enough(t)
      BY <1>1, <1>2, <1>6 DEF Enough
    <2> QED
      BY <2>1, <2>2
  <1> QED
    BY <1>2, <1>3, <1>4, <1>5, <1>6

LEMMA VerdictFields ==
  ASSUME NEW v
  PROVE  /\ Verdict(v).verdict = v
         /\ \A s : /\ [Verdict(v) EXCEPT !.folded = s].folded = s
                   /\ [Verdict(v) EXCEPT !.folded = s].verdict = v
                   /\ [Verdict(v) EXCEPT !.agreeing = s].agreeing = s
                   /\ [Verdict(v) EXCEPT !.agreeing = s].verdict = v
  BY DEF Verdict, Unjoined

LEMMA RaceIsSound ==
  ASSUME BranchesOK, NEW asked, asked.policy = "race", Successes # {}
  PROVE  FoldsItsPolicy(asked, {Fastest[Width]})
  <1>1. Width \in 0 .. Width /\ \A c \in Successes : c \in Nat /\ c <= Width
    BY Numbered DEF Successes
  <1>2. Wins(Fastest[Width], Width)
    BY <1>1, FastestWins
  <1> QED
    BY <1>1, <1>2 DEF Wins, FoldsItsPolicy

LEMMA QuorumIsSound ==
  ASSUME BranchesOK, NEW asked \in Asks, asked.policy = "quorum", Enough(ToleranceOf(asked))
  PROVE  SoundFor(asked, SelectQuorum(asked.quorum))
  <1> DEFINE q == asked.quorum
             v == Vote(q)
  <1>1. q \in Nat /\ Successes # {}
    BY DEF Asks, Enough
  <1>2. CASE q = NoQuorum
    <2>1. SelectQuorum(q) = Verdict("misconfigured")
      BY <1>2 DEF SelectQuorum
    <2> QED
      BY <1>2, <2>1, VerdictFields DEF SoundFor
  <1>3. CASE q # NoQuorum /\ v.folded = {}
    <2>1. q \in Nat \ {0} /\ v \in Ballots /\ Counting(v, Width, q)
      BY <1>1, <1>3, VoteTallied DEF NoQuorum, Tallied
    <2>2. \A a : {b \in Agreeing(a) : b <= Width} = Agreeing(a)
      <3>1. \A a : Agreeing(a) \subseteq 1 .. Width
        BY Numbered DEF Agreeing, Successes
      <3> QED
        BY Numbered, <3>1
    <2>3. \E c \in Successes : c <= Width
      BY Numbered, <1>1 DEF Successes
    <2>4. /\ \A a \in Answers : /\ Cardinality(Agreeing(a)) < q
                                /\ Cardinality(Agreeing(a)) <= v.largest
          /\ \E a \in Answers : Cardinality(Agreeing(a)) = v.largest
      BY <2>1, <2>2, <2>3 DEF Counting
    <2>5. \A a \in Answers : Cardinality(Agreeing(a)) \in Nat
      BY FewBranches DEF Agreeing, Successes
    <2>6. ~HasQuorum(q)
      BY <1>1, <2>4, <2>5 DEF HasQuorum
    <2>7. SelectQuorum(q) = [Verdict("no-quorum") EXCEPT !.agreeing = v.largest]
      BY <1>3 DEF SelectQuorum
    <2>8. SelectQuorum(q).verdict = "no-quorum" /\ SelectQuorum(q).agreeing = v.largest
      BY <2>7, VerdictFields
    <2> QED
      BY <2>4, <2>6, <2>8 DEF SoundFor
  <1>4. CASE q # NoQuorum /\ v.folded # {}
    <2>1. q \in Nat \ {0} /\ CompleteFirst(v.folded, q)
      BY <1>1, <1>4, VoteTallied DEF NoQuorum, Tallied
    <2>2. SelectQuorum(q) = [Verdict("merged") EXCEPT !.folded = v.folded]
      BY <1>4 DEF SelectQuorum
    <2>3. SelectQuorum(q).verdict = "merged" /\ SelectQuorum(q).folded = v.folded
      BY <2>2, VerdictFields
    <2>4. FoldsItsPolicy(asked, v.folded)
      BY <2>1 DEF FoldsItsPolicy, CompleteFirst
    <2> QED
      BY <2>3, <2>4 DEF SoundFor
  <1> QED
    BY <1>2, <1>3, <1>4

LEMMA ChosenIsSound ==
  ASSUME BranchesOK, NEW asked \in Asks
  PROVE  SoundFor(asked, Chosen(asked))
  <1> DEFINE t == ToleranceOf(asked)
  <1>1. \/ Gate(t) = "open" /\ Enough(t)
        \/ Gate(t) = "no-success" /\ Successes = {}
        \/ Gate(t) = "partial-failure" /\ Successes # {} /\ ~Enough(t)
    BY ToleranceTyped, GateIsEnough
  <1>2. CASE Gate(t) # "open"
    <2>1. Chosen(asked).verdict = Gate(t)
      BY <1>2, VerdictFields DEF Chosen
    <2> QED
      BY <1>1, <1>2, <2>1 DEF SoundFor
  <1>3. CASE Gate(t) = "open"
    <2>1. Enough(t) /\ Successes # {}
      BY <1>1, <1>3 DEF Enough
    <2>2. Chosen(asked) = SelectByPolicy(asked.policy, asked.quorum)
      BY <1>3 DEF Chosen
    <2>3. CASE asked.policy = "quorum"
      BY <2>1, <2>2, <2>3, QuorumIsSound DEF SelectByPolicy
    <2>4. CASE asked.policy = "race"
      <3>1. Chosen(asked) = [Verdict("merged") EXCEPT !.folded = {Fastest[Width]}]
        BY <2>2, <2>4 DEF SelectByPolicy, Width
      <3>2. Chosen(asked).verdict = "merged" /\ Chosen(asked).folded = {Fastest[Width]}
        BY <3>1, VerdictFields
      <3> QED
        BY <2>1, <2>4, <3>2, RaceIsSound DEF SoundFor
    <2>5. CASE asked.policy \notin {"quorum", "race"}
      <3>1. Chosen(asked) = [Verdict("merged") EXCEPT !.folded = Successes]
        BY <2>2, <2>5 DEF SelectByPolicy
      <3>2. Chosen(asked).verdict = "merged" /\ Chosen(asked).folded = Successes
        BY <3>1, VerdictFields
      <3>3. FoldsItsPolicy(asked, Successes)
        BY <2>5 DEF FoldsItsPolicy
      <3> QED
        BY <2>1, <3>2, <3>3 DEF SoundFor
    <2> QED
      BY <2>3, <2>4, <2>5
  <1> QED
    BY <1>2, <1>3

(* Branches are typed and have their answers; once a fan-in has answered,  *)
(* they are all done, and its verdict stays sound.                         *)
FanInv ==
    /\ BranchesOK
    /\ joined.asked # NotAsked => Collected
    /\ JoinIsSound

(* Nothing has been asked of the fan-in yet.                               *)
LEMMA FanInitial == FanInit => FanInv
  <1> SUFFICES ASSUME FanInit
               PROVE  FanInv
    OBVIOUS
  <1>1. branch = [b \in Branches |-> Waiting] /\ joined.asked = NotAsked
    BY DEF FanInit, Unjoined
  <1>2. BranchesOK
    BY <1>1 DEF BranchesOK, Outcomes, Waiting
  <1> QED
    BY <1>1, <1>2 DEF FanInv, JoinIsSound

(* What a verdict is worth depends on the branches only.                   *)
LEMMA SoundStays ==
  ASSUME branch' = branch, NEW asked, NEW j
  PROVE  SoundFor(asked, j)' <=> SoundFor(asked, j)
  <1>1. Successes' = Successes /\ Failures' = Failures
    BY DEF Successes, Failures
  <1>2. \A a : Agreeing(a)' = Agreeing(a)
    BY <1>1 DEF Agreeing
  <1>3. \A t : Enough(t)' <=> Enough(t)
    BY <1>1 DEF Enough
  <1>4. \A q : HasQuorum(q)' <=> HasQuorum(q)
    BY <1>1 DEF HasQuorum, Agreeing
  <1>5. \A f : FoldsItsPolicy(asked, f)' <=> FoldsItsPolicy(asked, f)
    BY <1>1 DEF FoldsItsPolicy, Agreeing
  <1> QED
    BY <1>1, <1>3, <1>4, <1>5 DEF SoundFor, Agreeing

(* What touches neither the branches nor the join keeps the invariant.     *)
LEMMA FanStays == ASSUME FanInv, UNCHANGED fanVars PROVE FanInv'
  <1>1. branch' = branch /\ joined' = joined
    BY DEF fanVars
  <1>2. Successes' = Successes /\ Failures' = Failures
        /\ \A a : Agreeing(a)' = Agreeing(a)
    BY <1>1 DEF Successes, Failures, Agreeing
  <1>3. BranchesOK' /\ (joined'.asked # NotAsked => Collected')
    BY <1>1, <1>2 DEF FanInv, BranchesOK, Collected
  <1>4. JoinIsSound'
    <2>1. PICK j : j = joined
      OBVIOUS
    <2>2. SoundFor(j.asked, j)' <=> SoundFor(j.asked, j)
      BY <1>1, SoundStays
    <2>3. j.asked # NotAsked => SoundFor(j.asked, j)
      BY <2>1 DEF FanInv, JoinIsSound, SoundFor
    <2>4. j = joined'
      BY <1>1, <2>1
    <2> QED
      BY <2>2, <2>3, <2>4 DEF JoinIsSound, SoundFor
  <1> QED
    BY <1>3, <1>4 DEF FanInv

(* A step of a branch: only before the join, or after an abort.            *)
LEMMA BranchingStep ==
  ASSUME FanInv, NEW width, NEW backed,
         StartBranch(width, backed) \/ Copied \/ BranchReturns(backed) \/ Saved \/ BranchFails
  PROVE  FanInv'
  <1>1. joined' = joined
    BY DEF StartBranch, Copied, BranchReturns, Saved, BranchFails
  <1>2. joined.asked = NotAsked
    <2> SUFFICES ASSUME joined.asked # NotAsked
                 PROVE  FALSE
      OBVIOUS
    <2>1. Collected /\ joined # Unjoined
      BY DEF FanInv, Unjoined
    <2>2. \A b \in Branches : branch[b].at \in {"ok", "failed"}
      BY <2>1 DEF Collected, Successes, Failures
    <2> QED
      BY <2>1, <2>2 DEF StartBranch, Copied, BranchReturns, Saved, BranchFails, InFlight
  <1>3. BranchesOK'
    <2>0. /\ branch \in [Branches -> Outcomes]
          /\ \A b \in Branches : branch[b].at \in {"saving", "ok"} => branch[b].answer \in Answers
      BY DEF FanInv, BranchesOK
    <2>1. ASSUME NEW b \in Branches, NEW at \in {"copying", "running"},
                 branch' = [branch EXCEPT ![b].at = at]
          PROVE  BranchesOK'
      BY <2>0, <2>1 DEF BranchesOK, Outcomes
    <2>2. ASSUME NEW b \in Branches, NEW at \in {"saving", "ok"}, NEW answer \in Answers,
                 NEW elapsed \in Elapsed, branch' = [branch EXCEPT ![b] = Outcome(at, answer, elapsed)]
          PROVE  BranchesOK'
      <3>1. Outcome(at, answer, elapsed) \in Outcomes /\ Outcome(at, answer, elapsed).answer \in Answers
        BY FanOutConstants DEF Outcome, Outcomes
      <3> QED
        BY <2>0, <2>2, <3>1 DEF BranchesOK
    <2>3. CASE StartBranch(width, backed)
      BY <2>1, <2>3 DEF StartBranch
    <2>4. CASE Copied
      BY <2>1, <2>4 DEF Copied
    <2>5. CASE BranchReturns(backed)
      BY <2>2, <2>5 DEF BranchReturns
    <2>6. CASE Saved
      <3>1. PICK b \in Branches : branch[b].at = "saving" /\ branch' = [branch EXCEPT ![b].at = "ok"]
        BY <2>6 DEF Saved
      <3> QED
        BY <2>0, <3>1 DEF BranchesOK, Outcomes
    <2>7. CASE BranchFails
      <3>1. PICK b \in Branches : branch' = [branch EXCEPT ![b] = Outcome("failed", "none", 0)]
        BY <2>7 DEF BranchFails, InFlight
      <3>2. Outcome("failed", "none", 0) \in Outcomes /\ Outcome("failed", "none", 0).at = "failed"
        BY DEF Outcome, Outcomes
      <3> QED
        BY <2>0, <3>1, <3>2 DEF BranchesOK
    <2> QED
      BY <2>3, <2>4, <2>5, <2>6, <2>7
  <1> QED
    BY <1>1, <1>2, <1>3 DEF FanInv, JoinIsSound

(* A fan-in answers by the outcomes it finds.                              *)
LEMMA FanInStep ==
  ASSUME FanInv, NEW asked \in Asks, NEW backed, FanIn(asked, backed)
  PROVE  FanInv'
  <1>1. joined = Unjoined /\ Collected /\ branch' = branch /\ BranchesOK
    BY DEF FanIn, FanInv
  <1>2. /\ Successes' = Successes /\ Failures' = Failures /\ BranchesOK' /\ Collected'
        /\ \A a : Agreeing(a)' = Agreeing(a)
    BY <1>1 DEF Successes, Failures, Agreeing, BranchesOK, Collected
  <1>3. CASE joined' = [Chosen(asked) EXCEPT !.asked = asked]
    <2> DEFINE c == Chosen(asked)
    <2>1. \E f, n, v, a : c = [verdict |-> v, folded |-> f, agreeing |-> n, asked |-> a]
      BY DEF Chosen, SelectByPolicy, SelectQuorum, Verdict, Unjoined
    <2>2. /\ joined'.verdict = c.verdict /\ joined'.folded = c.folded
          /\ joined'.agreeing = c.agreeing /\ joined'.asked = asked
      <3> HIDE DEF c
      <3> QED
        BY <1>3, <2>1 DEF c
    <2>3. SoundFor(asked, c)
      BY <1>1, ChosenIsSound
    <2> HIDE DEF c
    <2>4. JoinIsSound'
      <3>1. SoundFor(asked, joined')
        BY <2>2, <2>3 DEF SoundFor
      <3>2. PICK j : j = joined'
        OBVIOUS
      <3>3. SoundFor(asked, j)'
        BY <1>1, <3>1, <3>2, SoundStays
      <3> QED
        BY <2>2, <3>2, <3>3 DEF JoinIsSound, SoundFor
    <2> QED
      BY <1>2, <2>4 DEF FanInv
  <1>4. CASE joined' = Verdict("store-error")
    <2>1. joined'.asked = NotAsked
      BY <1>4 DEF Verdict, Unjoined
    <2> QED
      BY <1>2, <2>1 DEF FanInv, JoinIsSound
  <1> QED
    BY <1>3, <1>4 DEF FanIn

(* Every step of the processes, the source and the branches keeps the      *)
(* invariant.                                                              *)
LEMMA FanStep == FanInv /\ [Next]_vars => FanInv'
  <1> SUFFICES ASSUME FanInv, [Next]_vars
               PROVE  FanInv'
    OBVIOUS
  <1>1. ASSUME Branching
        PROVE  FanInv'
    BY <1>1, BranchingStep DEF Branching
  <1>2. ASSUME NEW c \in Runners, Fans(c)
        PROVE  FanInv'
    <2>1. CASE Branching
      BY <1>1, <2>1
    <2>2. CASE Misconfigured(setup.width) \/ Abort
      <3>1. branch' = branch /\ joined'.asked = NotAsked
        BY <2>2 DEF Misconfigured, Abort, Verdict, Unjoined
      <3>2. BranchesOK'
        BY <3>1 DEF FanInv, BranchesOK
      <3> QED
        BY <3>1, <3>2 DEF FanInv, JoinIsSound
    <2>3. CASE \E asked \in JoinRequests : FanIn(asked, setup.backed)
      BY <2>3, JoinRequestsTyped, FanInStep
    <2> QED
      BY <1>2, <2>1, <2>2, <2>3 DEF Fans
  <1>3. ASSUME NEW c \in Runners, BranchLeftBehind(c)
        PROVE  FanInv'
    BY <1>1, <1>3 DEF BranchLeftBehind
  <1>4. CASE UNCHANGED fanVars
    BY <1>4, FanStays
  <1>5. CASE Serving
    BY <1>4, <1>5 DEF Serving, Trigger, Arrive, ReceiveWebhook, ReceiveLinear, TurnAway, SpawnThrows,
                      SenderLeaves, Stop, ListenerCloses, SupervisorDies, Restart, Forget
  <1>6. ASSUME NEW c \in Runners,
               \/ StartFails(c) \/ StartsBare(c) \/ Opens(c) \/ Leased(c) \/ Refused(c) \/ Resumes(c)
               \/ Saves(c) \/ Beats(c) \/ Stops(c) \/ GivesUp(c) \/ LosesLease(c)
               \/ Closes(c) \/ EmitsFirst(c) \/ EmitsSecond(c) \/ EmitFails(c) \/ Dies(c)
               \/ FansOut(c) \/ Joins(c)
        PROVE  FanInv'
    BY <1>4, <1>6 DEF StartFails, StartsBare, Opens, Leased, Refused, Resumes, Saves, Beats, Stops,
                      GivesUp, LosesLease, Closes, EmitsFirst, EmitsSecond, EmitFails, Dies, FansOut,
                      Joins
  <1>7. CASE Ages \/ UNCHANGED vars
    BY <1>4, <1>7 DEF Ages, vars
  <1> QED
    BY <1>2, <1>3, <1>5, <1>6, <1>7 DEF Next, Process

(* Under every policy and tolerance, with any number of branches and       *)
(* answers, fanIn merges exactly when its policy allows it, and folds the  *)
(* branches that the policy names.                                         *)
THEOREM ServiceJoinIsSound == Spec => []JoinIsSound
  <1>1. Init => FanInv
    BY FanInitial DEF Init
  <1>2. FanInv => JoinIsSound
    BY DEF FanInv
  <1> QED
    BY <1>1, <1>2, FanStep, PTL DEF Spec
=============================================================================
