------------------------- MODULE ImprovementProofs -------------------------
(***************************************************************************)
(* What holds of the delivery continuations for every set of them, and of  *)
(* an improvement run, worker and continuations together, for every set of *)
(* candidates, quorum, number of bystanders' changes and set of            *)
(* continuations.                                                          *)
(*                                                                         *)
(* That a delivered record stands for a merged pull request needs no lock: *)
(* the verdict travels from the confirmed merge through local memory into  *)
(* the files, and a merged pull request stays merged.  What the lock is    *)
(* for, one continuation inside it at a time, an attempt for every pending *)
(* exit, a report that agrees with the record, is proved for any number of *)
(* continuations that contend for it and crash wherever they are, up to    *)
(* the first rename that takes another lock than the one it had judged     *)
(* stale: MCLockTheft shows how that comes about.                          *)
(*                                                                         *)
(* The worker's invariant follows the stages: what each check has          *)
(* established stays true of the manifest or the commit it was made of,    *)
(* whatever a bystander does, until the branch is on origin.  The worker   *)
(* disturbs the continuations' invariant only before the report is there,  *)
(* and until then no continuation gets past its reads of the files.        *)
(***************************************************************************)
EXTENDS ImprovementSystem, FiniteSetTheorems, SequenceTheorems, TLAPS

-----------------------------------------------------------------------------
(* Nothing is started before the pull request is there, and no             *)
(* continuation gets past its reads of the files unless the run passed.    *)
StartedInOrder ==
    /\ record # None => pr # None
    /\ \A r \in Runners :
         /\ pc[r] # "off" => record # None
         /\ pc[r] = "off" => exit[r] = "none" /\ r \notin sent
         /\ (pc[r] \in Inside \ {"read"} \/ exit[r] # "none") => report # None /\ report.passed
         /\ pc[r] = "replace" => base[r] # None

(* A merge is only asked for while main is protected.                      *)
AskedOfProtected ==
    \A r \in Runners :
        (pc[r] \in {"freshChecks", "freshReady", "merge"} \/ r \in sent) => pr.protected

Merged == pr # None /\ pr.merged # "no"

(* Nobody holds the word "delivered" of a pull request that is not merged. *)
DeliveredIsMerged ==
    \A r \in Runners :
        /\ verdict[r] = "delivered" => Merged
        /\ (base[r] # None /\ base[r].status = "delivered") => Merged

MergeInv == DeliveryTypeOK /\ StartedInOrder /\ AskedOfProtected /\ DeliveredIsMerged /\ MergeIsSound

(* As long as nobody was robbed: whoever is inside is named by the lock,   *)
(* whoever has just made it waits to be named, and a lock that was found   *)
(* stale, or is about to be, is nobody's.                                  *)
HeldByNobody == \A q \in Runners : pc[q] \notin Holding

LockInv ==
    ~stolen =>
        /\ \A r \in Runners :
             /\ pc[r] \in Inside \cup {"unlock"} => lock # None /\ lock.owner = r
             /\ pc[r] = "publish" => lock # None /\ lock.owner = None /\ ~lock.old
             /\ \A q \in Runners : pc[q] = "publish" /\ pc[r] = "publish" => q = r
             /\ pc[r] = "stat" /\ lock # None /\ lock.old => HeldByNobody
        /\ (lock # None /\ lock.judged # {}) => HeldByNobody

(* What the continuation inside the lock knows of the files is still true. *)
FilesAsRead ==
    ~stolen => \A r \in Runners :
        /\ pc[r] = "mirror" => record.status = verdict[r]
        /\ pc[r] \in Asking \cup {"mirrorVerdict", "reread", "replace"} => record.status = "pending"
        /\ pc[r] = "replace" => base[r] = record
        /\ pc[r] \in {"reread", "replace"} => report.delivery = verdict[r]

AloneInv == MergeInv /\ LockInv /\ FilesAsRead /\ AttemptsRecorded

-----------------------------------------------------------------------------
Labels == {"off"} \cup Acquiring \cup Inside \cup {"unlock"} \cup Ended

(* A step of r leaves the memory of every other continuation alone.        *)
OnlyMoves(r) ==
    \A q \in Runners \ {r} :
        pc'[q] = pc[q] /\ exit'[q] = exit[q] /\ verdict'[q] = verdict[q] /\ base'[q] = base[q]

LocalTypeOK ==
    /\ pc \in [Runners -> Labels]
    /\ exit \in [Runners -> {"none"} \cup Statuses]
    /\ late \in [Runners -> BOOLEAN] /\ waited \in [Runners -> BOOLEAN]
    /\ verdict \in [Runners -> Statuses]
    /\ base \in [Runners -> {None} \cup Records]

(* The helpers that move one continuation.                                 *)
LEMMA Moves ==
  ASSUME LocalTypeOK, NEW r \in Runners
  PROVE  /\ \A l \in Labels : Goto(r, l) =>
              pc' \in [Runners -> Labels] /\ pc'[r] = l /\ \A q \in Runners \ {r} : pc'[q] = pc[q]
         /\ \A l \in Labels : Leave(r, l) /\ exit' \in [Runners -> {"none"} \cup Statuses]
                              /\ (\A q \in Runners \ {r} : exit'[q] = exit[q]) =>
              /\ LocalTypeOK' /\ OnlyMoves(r)
              /\ pc'[r] = l /\ verdict'[r] = "pending" /\ base'[r] = None
         /\ \A s \in {"none"} \cup Statuses : EndWith(r, s) =>
              /\ LocalTypeOK' /\ OnlyMoves(r)
              /\ pc'[r] = "unlock" /\ exit'[r] = s /\ verdict'[r] = "pending" /\ base'[r] = None
         /\ \A s \in Statuses : Finish(r, s) /\ UNCHANGED <<exit, late, waited, base>> =>
              /\ LocalTypeOK' /\ OnlyMoves(r)
              /\ pc'[r] = "mirrorVerdict" /\ verdict'[r] = s /\ exit'[r] = exit[r] /\ base'[r] = base[r]
  <1> USE DEF LocalTypeOK
  <1>1. \A l \in Labels : Goto(r, l) =>
           pc' \in [Runners -> Labels] /\ pc'[r] = l /\ \A q \in Runners \ {r} : pc'[q] = pc[q]
    BY DEF Goto
  <1>2. \A l \in Labels : Leave(r, l) =>
           /\ late' \in [Runners -> BOOLEAN] /\ waited' \in [Runners -> BOOLEAN]
           /\ verdict' \in [Runners -> Statuses] /\ base' \in [Runners -> {None} \cup Records]
           /\ verdict'[r] = "pending" /\ base'[r] = None
           /\ \A q \in Runners \ {r} : verdict'[q] = verdict[q] /\ base'[q] = base[q]
           /\ Goto(r, l)
    BY DEF Leave, Statuses
  <1>3. \A l \in Labels : Leave(r, l) /\ exit' \in [Runners -> {"none"} \cup Statuses]
                              /\ (\A q \in Runners \ {r} : exit'[q] = exit[q]) =>
              /\ LocalTypeOK' /\ OnlyMoves(r)
              /\ pc'[r] = l /\ verdict'[r] = "pending" /\ base'[r] = None
    BY <1>1, <1>2 DEF OnlyMoves
  <1>4. \A s \in {"none"} \cup Statuses : EndWith(r, s) =>
              /\ exit' \in [Runners -> {"none"} \cup Statuses] /\ exit'[r] = s
              /\ \A q \in Runners \ {r} : exit'[q] = exit[q]
              /\ Leave(r, "unlock")
    BY DEF EndWith
  <1>5. "unlock" \in Labels /\ "mirrorVerdict" \in Labels
    BY DEF Labels, Inside
  <1>6. \A s \in Statuses : Finish(r, s) /\ UNCHANGED <<exit, late, waited, base>> =>
              /\ LocalTypeOK' /\ OnlyMoves(r)
              /\ pc'[r] = "mirrorVerdict" /\ verdict'[r] = s /\ exit'[r] = exit[r] /\ base'[r] = base[r]
    BY <1>1, <1>5 DEF Finish, OnlyMoves
  <1> QED
    BY <1>1, <1>3, <1>4, <1>5, <1>6

LEMMA Typed ==
  DeliveryTypeOK <=> /\ record \in {None} \cup Records /\ report \in {None} \cup Reports
                     /\ lock \in {None} \cup Locks /\ stolen \in BOOLEAN /\ pr \in {None} \cup PullRequests
                     /\ sent \subseteq Runners /\ LocalTypeOK
  BY DEF DeliveryTypeOK, LocalTypeOK, Labels

(* A step of one continuation that leaves the files and GitHub alone.      *)
LEMMA LocalKeepsMergeInv ==
  ASSUME MergeInv, NEW r \in Runners, LocalTypeOK', OnlyMoves(r), UNCHANGED <<files, github>>,
         lock' \in {None} \cup Locks, stolen' \in BOOLEAN,
         record # None, pc'[r] # "off",
         (pc'[r] \in Inside \ {"read"} \/ exit'[r] # "none") => report # None /\ report.passed,
         pc'[r] = "replace" => base'[r] # None,
         pc'[r] \in {"freshChecks", "freshReady", "merge"} => pr.protected,
         verdict'[r] = "delivered" => Merged,
         (base'[r] # None /\ base'[r].status = "delivered") => Merged,
         exit'[r] = "delivered" => Merged
  PROVE  MergeInv'
  <1> USE DEF MergeInv
  <1>1. record' = record /\ report' = report /\ pr' = pr /\ sent' = sent
    BY DEF files, github
  <1>2. DeliveryTypeOK'
    <2>1. record' \in {None} \cup Records /\ report' \in {None} \cup Reports
          /\ pr' \in {None} \cup PullRequests /\ sent' \subseteq Runners
      BY <1>1, Typed
    <2> QED
      BY <2>1 DEF DeliveryTypeOK, LocalTypeOK, Labels
  <1>3. StartedInOrder'
    BY <1>1 DEF StartedInOrder, OnlyMoves
  <1>4. AskedOfProtected'
    BY <1>1 DEF AskedOfProtected, OnlyMoves
  <1>5. DeliveredIsMerged' /\ MergeIsSound'
    BY <1>1 DEF DeliveredIsMerged, MergeIsSound, Merged, OnlyMoves
  <1> QED
    BY <1>2, <1>3, <1>4, <1>5

(* Getting at the lock, and giving it up, a crash and the deadline.        *)
LockOrLife(r) ==
    \/ Start(r) \/ MakeLock(r) \/ PublishOwner(r) \/ ReadOwner(r) \/ StatLock(r)
    \/ TakeStaleLock(r) \/ WaitForLock(r) \/ Unlock(r) \/ Crash(r) \/ DeadlinePasses(r)

Outside == {"mkdir", "publish", "owner", "stat", "rename", "wait", "read", "done"}

LEMMA LockOrLifeEffect ==
  ASSUME DeliveryTypeOK, NEW r \in Runners, LockOrLife(r)
  PROVE  /\ UNCHANGED <<files, github>> /\ LocalTypeOK' /\ OnlyMoves(r)
         /\ lock' \in {None} \cup Locks /\ stolen' \in BOOLEAN
         /\ pc[r] # "off" \/ record # None
         /\ exit'[r] \in {exit[r], "none"}
         /\ \/ pc'[r] = pc[r] /\ pc[r] # "off" /\ verdict'[r] = verdict[r] /\ base'[r] = base[r]
            \/ /\ pc'[r] \in Outside
               /\ verdict'[r] \in {verdict[r], "pending"} /\ base'[r] \in {base[r], None}
  <1>1. /\ record \in {None} \cup Records /\ lock \in {None} \cup Locks /\ stolen \in BOOLEAN
        /\ LocalTypeOK /\ pc[r] \in Labels
    BY Typed DEF LocalTypeOK
  <1>2. pc[r] # "off" \/ record # None
    BY DEF LockOrLife, Start, MakeLock, PublishOwner, ReadOwner, StatLock, TakeStaleLock, WaitForLock,
           Unlock, Crash, DeadlinePasses, Alive
  <1>3. Outside \subseteq Labels
    BY DEF Outside, Labels, Acquiring, Inside, Ended, Asking
  <1>4. [owner |-> None, old |-> FALSE, judged |-> {}] \in Locks
        /\ (lock # None => [lock EXCEPT !.owner = r] \in Locks)
        /\ (lock # None => [lock EXCEPT !.judged = @ \cup {r}] \in Locks)
    BY <1>1 DEF Locks
  <1>5. UNCHANGED <<files, github>> /\ lock' \in {None} \cup Locks /\ stolen' \in BOOLEAN
    BY <1>1, <1>4 DEF LockOrLife, Start, MakeLock, PublishOwner, ReadOwner, StatLock, TakeStaleLock, WaitForLock,
           Unlock, Crash, DeadlinePasses, SetLock, locks
  <1>6. CASE DeadlinePasses(r)
    <2>1. LocalTypeOK' /\ OnlyMoves(r) /\ pc'[r] = pc[r] /\ exit'[r] = exit[r] /\ verdict'[r] = verdict[r]
          /\ base'[r] = base[r] /\ pc[r] # "off"
      BY <1>1, <1>6 DEF DeadlinePasses, Alive, LocalTypeOK, OnlyMoves
    <2> QED
      BY <1>2, <1>5, <2>1
  <1>7. CASE \E l \in Outside :
                  Goto(r, l) /\ UNCHANGED <<exit, verdict, base, late>>
                  /\ (waited' = waited \/ \E b \in BOOLEAN : waited' = [waited EXCEPT ![r] = b])
    BY <1>1, <1>2, <1>3, <1>5, <1>7, Moves DEF LocalTypeOK, OnlyMoves
  <1>8. CASE Leave(r, "done") /\ (UNCHANGED exit \/ exit' = [exit EXCEPT ![r] = "none"])
    <2>1. exit' \in [Runners -> {"none"} \cup Statuses] /\ (\A q \in Runners \ {r} : exit'[q] = exit[q])
          /\ exit'[r] \in {exit[r], "none"} /\ "done" \in Outside
      BY <1>1, <1>8 DEF LocalTypeOK, Outside
    <2> QED
      BY <1>1, <1>2, <1>3, <1>5, <1>8, <2>1, Moves
  <1> QED
    BY <1>6, <1>7, <1>8 DEF LockOrLife, Start, MakeLock, PublishOwner, ReadOwner, StatLock, TakeStaleLock,
       WaitForLock, Unlock, Crash, Outside, local

LEMMA LockOrLifeKeepsMergeInv ==
  ASSUME MergeInv, NEW r \in Runners, LockOrLife(r)
  PROVE  MergeInv'
  <1> USE DEF MergeInv
  <1>1. /\ UNCHANGED <<files, github>> /\ LocalTypeOK' /\ OnlyMoves(r)
        /\ lock' \in {None} \cup Locks /\ stolen' \in BOOLEAN
        /\ pc[r] # "off" \/ record # None
        /\ exit'[r] \in {exit[r], "none"}
        /\ \/ pc'[r] = pc[r] /\ pc[r] # "off" /\ verdict'[r] = verdict[r] /\ base'[r] = base[r]
           \/ /\ pc'[r] \in Outside
              /\ verdict'[r] \in {verdict[r], "pending"} /\ base'[r] \in {base[r], None}
    BY LockOrLifeEffect
  <1>2. record # None
    BY <1>1 DEF StartedInOrder
  <1>3. Outside \cap ((Inside \ {"read"}) \cup {"freshChecks", "freshReady", "merge", "replace", "off"}) = {}
    BY DEF Outside, Inside, Asking
  <1>4. "none" # "delivered"
    OBVIOUS
  <1> QED
    BY <1>1, <1>2, <1>3, <1>4, LocalKeepsMergeInv
       DEF StartedInOrder, AskedOfProtected, DeliveredIsMerged, MergeIsSound, Merged

(* Reading the files and asking GitHub.                                    *)
LEMMA AskingKeepsMergeInv ==
  ASSUME MergeInv, NEW r \in Runners,
         \/ ReadFiles(r) \/ RereadRecord(r)
         \/ ReadReady(r, "ready", "checks") \/ ReadChecks(r, "checks", "protection")
         \/ ReadProtection(r) \/ ReadChecks(r, "freshChecks", "freshReady")
         \/ ReadReady(r, "freshReady", "merge") \/ ConfirmMerge(r)
  PROVE  MergeInv'
  <1> USE DEF MergeInv
  <1>1. /\ record \in {None} \cup Records /\ report \in {None} \cup Reports
        /\ lock \in {None} \cup Locks /\ stolen \in BOOLEAN /\ LocalTypeOK /\ pc[r] \in Labels
    BY Typed DEF LocalTypeOK
  <1>2. UNCHANGED <<files, github>> /\ lock' \in {None} \cup Locks /\ stolen' \in BOOLEAN /\ pc[r] \in Inside
    BY <1>1 DEF ReadFiles, RereadRecord, ReadReady, ReadChecks, ReadProtection, ConfirmMerge, Ask, Inside, Asking,
                files, github, locks
  <1>3. record # None /\ record \in Records /\ record.status \in Statuses
    BY <1>1, <1>2 DEF StartedInOrder, Inside, Asking, Records
  <1>4. /\ {"mirror", "checks", "protection", "freshChecks", "freshReady", "merge", "replace",
            "mirrorVerdict"} \subseteq Labels \cap Inside
        /\ "read" \notin Asking \cup {"mirror", "mirrorVerdict", "replace", "unlock"}
        /\ "unlock" \notin Inside
    BY DEF Labels, Inside, Asking
  <1>5. CASE ReadFiles(r)
    <2>1. CASE report = None \/ (report # None /\ report.passed = FALSE)
      <3>1. EndWith(r, "none")
        BY <1>5, <2>1 DEF ReadFiles
      <3>2. LocalTypeOK' /\ OnlyMoves(r) /\ pc'[r] = "unlock" /\ exit'[r] = "none" /\ verdict'[r] = "pending"
            /\ base'[r] = None
        BY <1>1, <3>1, Moves
      <3> QED
        BY <1>2, <1>3, <1>4, <3>2, LocalKeepsMergeInv
    <2>2. CASE ~(report = None \/ (report # None /\ report.passed = FALSE))
      <3>1. report # None /\ report.passed
        BY <1>1, <2>2 DEF Reports
      <3>2. Goto(r, "mirror") /\ verdict' = [verdict EXCEPT ![r] = record.status]
            /\ UNCHANGED <<exit, late, waited, base>>
        BY <1>5, <2>2 DEF ReadFiles
      <3>3. LocalTypeOK' /\ OnlyMoves(r) /\ pc'[r] = "mirror" /\ exit'[r] = exit[r]
            /\ verdict'[r] = record.status /\ base'[r] = base[r]
        BY <1>1, <1>3, <1>4, <3>2, Moves DEF LocalTypeOK, OnlyMoves
      <3>4. (record.status = "delivered" \/ exit[r] = "delivered") => Merged
        BY <1>3 DEF MergeIsSound, Merged
      <3> QED
        BY <1>2, <1>3, <3>1, <3>3, <3>4, LocalKeepsMergeInv DEF DeliveredIsMerged
    <2> QED
      BY <2>1, <2>2
  <1>6. CASE RereadRecord(r)
    <2>1. pc[r] = "reread" /\ Goto(r, "replace") /\ base' = [base EXCEPT ![r] = record]
          /\ UNCHANGED <<exit, late, waited, verdict>>
      BY <1>6 DEF RereadRecord
    <2>2. LocalTypeOK' /\ OnlyMoves(r) /\ pc'[r] = "replace" /\ exit'[r] = exit[r]
          /\ verdict'[r] = verdict[r] /\ base'[r] = record
      BY <1>1, <1>4, <2>1, Moves DEF LocalTypeOK, OnlyMoves
    <2>3. report # None /\ report.passed
      BY <2>1 DEF StartedInOrder, Inside
    <2>4. (record.status = "delivered" \/ exit[r] = "delivered") => Merged
      BY <1>3 DEF MergeIsSound, Merged
    <2> QED
      BY <1>2, <1>3, <2>2, <2>3, <2>4, LocalKeepsMergeInv DEF DeliveredIsMerged
  <1>7. CASE ~ReadFiles(r) /\ ~RereadRecord(r)
    <2>1. report # None /\ report.passed
      BY <1>2, <1>7 DEF StartedInOrder, ReadReady, ReadChecks, ReadProtection, ConfirmMerge, Inside, Asking
    <2>2. UNCHANGED <<exit, late, waited, base>>
      BY <1>7 DEF ReadReady, ReadChecks, ReadProtection, ConfirmMerge, Ask
    <2>3. \/ \E s \in Statuses : Finish(r, s) /\ (s = "delivered" => MergedHead)
          \/ \E l \in {"checks", "protection", "freshChecks", "freshReady", "merge"} :
               /\ Goto(r, l) /\ UNCHANGED verdict
               /\ l \in {"freshChecks", "freshReady", "merge"} => pr.protected
      <3>1. {"pending", "blocked", "delivered"} \subseteq Statuses
        BY DEF Statuses
      <3>2. CASE ReadReady(r, "ready", "checks") \/ ReadChecks(r, "checks", "protection")
        BY <3>1, <3>2 DEF ReadReady, ReadChecks, Ask, GoOn
      <3>3. CASE ReadProtection(r)
        BY <3>1, <3>3 DEF ReadProtection, Ask, GoOn, Protected
      <3>4. CASE ReadChecks(r, "freshChecks", "freshReady") \/ ReadReady(r, "freshReady", "merge")
        <4>1. pr.protected
          BY <3>4 DEF ReadReady, ReadChecks, AskedOfProtected
        <4> QED
          BY <3>1, <3>4, <4>1 DEF ReadReady, ReadChecks, Ask, GoOn
      <3>5. CASE ConfirmMerge(r)
        BY <3>1, <3>5 DEF ConfirmMerge, Ask
      <3> QED
        BY <1>7, <3>2, <3>3, <3>4, <3>5
    <2>4. exit[r] = "delivered" => Merged
      BY DEF MergeIsSound, Merged
    <2>5. ASSUME NEW s \in Statuses, Finish(r, s), s = "delivered" => MergedHead
          PROVE  MergeInv'
      <3>1. LocalTypeOK' /\ OnlyMoves(r) /\ pc'[r] = "mirrorVerdict" /\ verdict'[r] = s /\ exit'[r] = exit[r]
            /\ base'[r] = base[r]
        BY <1>1, <2>2, <2>5, Moves
      <3>2. s = "delivered" => Merged
        BY <1>3, <2>5 DEF MergedHead, Merged, StartedInOrder
      <3> QED
        BY <1>2, <1>3, <2>1, <2>4, <3>1, <3>2, LocalKeepsMergeInv DEF DeliveredIsMerged
    <2>6. ASSUME NEW l \in {"checks", "protection", "freshChecks", "freshReady", "merge"},
                 Goto(r, l), UNCHANGED verdict, l \in {"freshChecks", "freshReady", "merge"} => pr.protected
          PROVE  MergeInv'
      <3>1. LocalTypeOK' /\ OnlyMoves(r) /\ pc'[r] = l /\ verdict'[r] = verdict[r] /\ exit'[r] = exit[r]
            /\ base'[r] = base[r]
        BY <1>1, <1>4, <2>2, <2>6, Moves DEF LocalTypeOK, OnlyMoves
      <3> QED
        BY <1>2, <1>3, <2>1, <2>4, <2>6, <3>1, LocalKeepsMergeInv DEF DeliveredIsMerged
    <2> QED
      BY <2>3, <2>5, <2>6
  <1> QED
    BY <1>5, <1>6, <1>7

(* What a failure to write leaves of r.                                    *)
LEMMA FailedWrite ==
  ASSUME LocalTypeOK, NEW r \in Runners, PersistFails(r)
  PROVE  /\ LocalTypeOK' /\ OnlyMoves(r)
         /\ pc'[r] \in {"mirrorVerdict", "unlock"}
         /\ pc'[r] = "mirrorVerdict" => exit'[r] = exit[r] /\ verdict'[r] = "blocked"
         /\ pc'[r] = "unlock" => exit'[r] = "none" /\ verdict'[r] = "pending"
         /\ base'[r] \in {base[r], None}
  BY Moves DEF PersistFails, Statuses

LEMMA Attempted ==
  ASSUME NEW current \in Records, NEW status \in Statuses
  PROVE  /\ MergeAttempt(current, status) \in Records
         /\ current.status \in Terminal => MergeAttempt(current, status) = current
         /\ current.status \notin Terminal =>
              /\ MergeAttempt(current, status).status = status
              /\ MergeAttempt(current, status).attempts = Append(current.attempts, status)
  BY DEF MergeAttempt, Records

(* Writing the report and the record.                                      *)
LEMMA WritingKeepsMergeInv ==
  ASSUME MergeInv, NEW r \in Runners, MirrorRecord(r) \/ MirrorVerdict(r) \/ ReplaceRecord(r)
  PROVE  MergeInv'
  <1> USE DEF MergeInv
  <1>1. /\ record \in {None} \cup Records /\ report \in {None} \cup Reports
        /\ pr \in {None} \cup PullRequests /\ sent \subseteq Runners
        /\ lock \in {None} \cup Locks /\ stolen \in BOOLEAN
        /\ LocalTypeOK /\ pc[r] \in Labels /\ verdict[r] \in Statuses
        /\ base[r] \in {None} \cup Records
    BY Typed DEF LocalTypeOK
  <1>2. UNCHANGED <<lock, stolen, pr, sent>> /\ pc[r] \in {"mirror", "mirrorVerdict", "replace"}
    BY DEF MirrorRecord, MirrorVerdict, ReplaceRecord, github, locks
  <1>3. record # None /\ report # None /\ report \in Reports /\ report.passed /\ pr # None
    BY <1>1, <1>2 DEF StartedInOrder, Inside, Asking
  <1>4. (verdict[r] = "delivered" \/ exit[r] = "delivered" \/ record.status = "delivered"
          \/ (base[r] # None /\ base[r].status = "delivered")) => Merged
    BY <1>3 DEF DeliveredIsMerged, MergeIsSound, Merged
  <1>5. /\ LocalTypeOK' /\ OnlyMoves(r)
        /\ pc'[r] \in {"ready", "unlock", "mirrorVerdict", "reread"}
        /\ verdict'[r] \in {verdict[r], "pending", "blocked"}
        /\ exit'[r] \in {exit[r], verdict[r], "none"}
        /\ base'[r] \in {base[r], None}
    <2>1. {"ready", "unlock", "mirrorVerdict", "reread"} \subseteq Labels
      BY DEF Labels, Inside, Asking
    <2>2. ASSUME NEW l \in Labels, Goto(r, l), UNCHANGED <<exit, local>>
          PROVE  /\ LocalTypeOK' /\ OnlyMoves(r) /\ pc'[r] = l /\ verdict'[r] = verdict[r]
                 /\ exit'[r] = exit[r] /\ base'[r] = base[r]
      BY <1>1, <2>2, Moves DEF LocalTypeOK, OnlyMoves, local
    <2>3. ASSUME NEW s \in {"none", verdict[r]}, EndWith(r, s)
          PROVE  /\ LocalTypeOK' /\ OnlyMoves(r) /\ pc'[r] = "unlock" /\ verdict'[r] = "pending"
                 /\ exit'[r] = s /\ base'[r] = None
      BY <1>1, <2>3, Moves
    <2>4. CASE PersistFails(r)
      BY <1>1, <2>4, FailedWrite
    <2>5. CASE ~PersistFails(r)
      BY <2>1, <2>2, <2>3, <2>5 DEF MirrorRecord, MirrorVerdict, ReplaceRecord
    <2> QED
      BY <2>4, <2>5
  <1>6. /\ report' \in Reports /\ report'.passed
        /\ record' \in Records /\ (record'.status = "delivered" => Merged)
    <2>1. \A s \in Statuses : [report EXCEPT !.delivery = s] \in Reports
                              /\ [report EXCEPT !.delivery = s].passed
      BY <1>3 DEF Reports
    <2>2. report' \in {report, [report EXCEPT !.delivery = verdict[r]]}
      BY DEF MirrorRecord, MirrorVerdict, ReplaceRecord
    <2>3. record' = record \/ (pc[r] = "replace" /\ record' = MergeAttempt(base[r], verdict[r]))
      BY DEF MirrorRecord, MirrorVerdict, ReplaceRecord
    <2>4. CASE pc[r] = "replace" /\ record' = MergeAttempt(base[r], verdict[r])
      <3>1. base[r] \in Records
        BY <1>1, <2>4 DEF StartedInOrder
      <3>2. base[r] # None
        BY <2>4 DEF StartedInOrder
      <3>3. record' \in Records /\ (record'.status = "delivered" => Merged)
        BY <1>1, <1>4, <2>4, <3>1, <3>2, Attempted
      <3> QED
        BY <1>1, <1>3, <2>1, <2>2, <3>3
    <2> QED
      BY <1>1, <1>3, <1>4, <2>1, <2>2, <2>3, <2>4
  <1>7. record' # None /\ report' # None
    BY <1>6, DeliveryConstants
  <1>8. DeliveryTypeOK'
    BY <1>1, <1>2, <1>5, <1>6 DEF DeliveryTypeOK, LocalTypeOK, Labels
  <1>9. StartedInOrder'
    BY <1>1, <1>2, <1>3, <1>5, <1>6, <1>7 DEF StartedInOrder, OnlyMoves
  <1>10. AskedOfProtected'
    BY <1>2, <1>5 DEF AskedOfProtected, OnlyMoves
  <1>11. Merged' = Merged
    BY <1>2 DEF Merged
  <1>12. DeliveredIsMerged'
    BY <1>2, <1>4, <1>5, <1>11 DEF DeliveredIsMerged, OnlyMoves
  <1>13. MergeIsSound'
    <2>1. \A q \in Runners : exit'[q] = "delivered" => Merged
      BY <1>3, <1>4, <1>5 DEF MergeIsSound, OnlyMoves, Merged
    <2> QED
      BY <1>2, <1>3, <1>6, <1>7, <2>1 DEF MergeIsSound, Merged
  <1> QED
    BY <1>8, <1>9, <1>10, <1>12, <1>13

(* A merge request, its answer, and what others do to the pull request.    *)
LEMMA GitHubKeepsMergeInv ==
  ASSUME MergeInv,
         \/ \E r \in Runners : SendMerge(r) \/ MergeAnswered(r)
         \/ LockAges \/ OthersAct
  PROVE  MergeInv'
  <1> USE DEF MergeInv
  <1>1. /\ record \in {None} \cup Records /\ report \in {None} \cup Reports
        /\ pr \in {None} \cup PullRequests /\ sent \subseteq Runners
        /\ lock \in {None} \cup Locks /\ stolen \in BOOLEAN /\ LocalTypeOK
    BY Typed
  <1>2. ASSUME NEW r \in Runners, SendMerge(r)
        PROVE  MergeInv'
    <2>1. UNCHANGED <<record, report, lock, stolen, exit, late, waited, base, pr>> /\ pc[r] = "merge"
      BY <1>2 DEF SendMerge, files, locks
    <2>2. record # None /\ report # None /\ report.passed /\ pr # None /\ pr.protected
      BY <2>1 DEF StartedInOrder, AskedOfProtected, Inside, Asking
    <2>3. /\ LocalTypeOK' /\ OnlyMoves(r)
          /\ \/ pc'[r] = "mirrorVerdict" /\ verdict'[r] = "pending" /\ sent' = sent
             \/ pc'[r] = "confirm" /\ verdict'[r] = verdict[r] /\ sent' = sent \cup {r}
      <3>1. CASE Finish(r, "pending") /\ UNCHANGED sent
        <4>1. "pending" \in Statuses /\ UNCHANGED <<exit, late, waited, base>>
          BY <2>1 DEF Statuses
        <4> QED
          BY <1>1, <3>1, <4>1, Moves
      <3>2. CASE Goto(r, "confirm") /\ sent' = sent \cup {r} /\ UNCHANGED verdict
        <4>1. "confirm" \in Labels
          BY DEF Labels, Inside, Asking
        <4> QED
          BY <1>1, <2>1, <3>2, <4>1, Moves DEF LocalTypeOK, OnlyMoves
      <3> QED
        BY <1>2, <3>1, <3>2 DEF SendMerge
    <2>4. DeliveryTypeOK'
      BY <1>1, <2>1, <2>3 DEF DeliveryTypeOK, LocalTypeOK, Labels
    <2>5. StartedInOrder' /\ AskedOfProtected'
      BY <2>1, <2>2, <2>3 DEF StartedInOrder, AskedOfProtected, OnlyMoves, Inside, Asking
    <2>6. DeliveredIsMerged' /\ MergeIsSound'
      BY <2>1, <2>3 DEF DeliveredIsMerged, MergeIsSound, OnlyMoves, Merged
    <2> QED
      BY <2>4, <2>5, <2>6
  <1>3. CASE LockAges
    <2>1. UNCHANGED <<record, report, stolen, pc, exit, late, waited, verdict, base, pr, sent>>
      BY <1>3 DEF LockAges, files, local, github
    <2>2. lock' \in Locks
      BY <1>1, <1>3 DEF LockAges, Locks
    <2>3. DeliveryTypeOK'
      BY <1>1, <2>1, <2>2 DEF DeliveryTypeOK, LocalTypeOK, Labels
    <2> QED
      BY <2>1, <2>3 DEF StartedInOrder, AskedOfProtected, DeliveredIsMerged, MergeIsSound, Merged
  <1>4. ASSUME UNCHANGED <<record, report, lock, stolen, pc, exit, late, waited, verdict, base>>,
               sent' \subseteq sent, pr # None, pr' \in PullRequests, pr'.protected = pr.protected,
               pr.merged # "no" => pr' = pr,
               pr'.merged = "continuation" => pr'.green /\ pr'.locked
        PROVE  MergeInv'
    <2>1. pr' # None
      BY <1>4, DeliveryConstants
    <2>2. DeliveryTypeOK'
      BY <1>1, <1>4 DEF DeliveryTypeOK
    <2>3. StartedInOrder' /\ AskedOfProtected'
      BY <1>4, <2>1 DEF StartedInOrder, AskedOfProtected
    <2>4. Merged => Merged'
      BY <1>4, <2>1 DEF Merged
    <2>5. DeliveredIsMerged'
      BY <1>4, <2>4 DEF DeliveredIsMerged
    <2>6. MergeIsSound'
      BY <1>4, <2>1, <2>4 DEF MergeIsSound, Merged
    <2> QED
      BY <2>2, <2>3, <2>5, <2>6
  <1>5. ASSUME NEW r \in Runners, MergeAnswered(r)
        PROVE  MergeInv'
    <2>1. /\ r \in sent /\ sent' = sent \ {r}
          /\ UNCHANGED <<record, report, lock, stolen, pc, exit, late, waited, verdict, base>>
      BY <1>5 DEF MergeAnswered, files, local, locks
    <2>2. pr # None /\ pr \in PullRequests /\ pr.protected
      BY <1>1, <2>1 DEF StartedInOrder, AskedOfProtected
    <2>3. CASE pr.merged = "no" /\ pr.locked /\ pr.green
      <3>1. pr' = [pr EXCEPT !.merged = "continuation"]
        BY <1>5, <2>3 DEF MergeAnswered
      <3>2. pr' \in PullRequests /\ pr'.protected = pr.protected /\ pr'.green = pr.green /\ pr'.locked = pr.locked
        BY <2>2, <3>1 DEF PullRequests
      <3> QED
        BY <1>4, <2>1, <2>2, <2>3, <3>2
    <2>4. CASE ~(pr.merged = "no" /\ pr.locked /\ pr.green)
      <3>1. pr' = pr
        BY <1>5, <2>2, <2>4 DEF MergeAnswered
      <3> QED
        BY <1>4, <2>1, <2>2, <3>1 DEF MergeIsSound
    <2> QED
      BY <2>3, <2>4
  <1>6. CASE OthersAct
    <2>1. UNCHANGED <<record, report, lock, stolen, pc, exit, late, waited, verdict, base, sent>>
      BY <1>6 DEF OthersAct, files, local, locks
    <2>2. pr # None /\ pr \in PullRequests /\ pr.merged = "no"
      <3>1. CASE sent # {}
        BY <1>1, <1>6, <3>1 DEF OthersAct, StartedInOrder
      <3>2. CASE \E r \in Runners : pc[r] \in Asking
        BY <1>1, <1>6, <3>2 DEF OthersAct, StartedInOrder, Asking
      <3> QED
        BY <1>6, <3>1, <3>2 DEF OthersAct
    <2>3. pr' \in PullRequests /\ pr'.protected = pr.protected /\ pr'.merged \in {"no", "other"}
      <3>1. CASE pr' = [pr EXCEPT !.green = ~pr.green]
        BY <2>2, <3>1 DEF PullRequests
      <3>2. CASE pr' = [pr EXCEPT !.locked = FALSE, !.green = FALSE]
        BY <2>2, <3>2 DEF PullRequests
      <3>3. CASE pr' = [pr EXCEPT !.merged = "other"]
        BY <2>2, <3>3 DEF PullRequests
      <3> QED
        BY <1>6, <3>1, <3>2, <3>3 DEF OthersAct
    <2> QED
      BY <1>4, <2>1, <2>2, <2>3
  <1> QED
    BY <1>2, <1>3, <1>5, <1>6

(* Every step of every contender keeps a merge tied to the checks that     *)
(* allowed it.                                                             *)
LEMMA MergeStep == MergeInv /\ [DeliveryNext]_deliveryVars => MergeInv'
  <1> SUFFICES ASSUME MergeInv, [DeliveryNext]_deliveryVars
               PROVE  MergeInv'
    OBVIOUS
  <1>1. CASE UNCHANGED deliveryVars
    BY <1>1 DEF deliveryVars, MergeInv, DeliveryTypeOK, StartedInOrder, AskedOfProtected, DeliveredIsMerged,
                MergeIsSound, Merged
  <1>2. CASE DeliveryNext
    BY <1>2, LockOrLifeKeepsMergeInv, AskingKeepsMergeInv, WritingKeepsMergeInv, GitHubKeepsMergeInv
       DEF DeliveryNext, RunnerStep, LockOrLife
  <1> QED
    BY <1>1, <1>2

LEMMA MergeInitial == DeliveryInit => MergeInv
  <1> SUFFICES ASSUME DeliveryInit PROVE MergeInv
    OBVIOUS
  <1> USE DEF DeliveryInit, ProcessesInit
  <1>1. pr \in PullRequests /\ pr.merged = "no"
    BY DEF OpenPullRequest, PullRequests
  <1>2. record \in Records /\ record.status = "pending" /\ report \in Reports
    BY DEF NewRecord, Records, Reports, Statuses
  <1>3. record # None /\ pr # None /\ report # None
    BY <1>1, <1>2, DeliveryConstants
  <1>4. DeliveryTypeOK
    BY <1>1, <1>2 DEF DeliveryTypeOK, Statuses
  <1>5. StartedInOrder /\ AskedOfProtected /\ DeliveredIsMerged /\ MergeIsSound
    BY <1>1, <1>2, <1>3 DEF StartedInOrder, AskedOfProtected, DeliveredIsMerged, MergeIsSound, Merged, Inside, Asking
  <1> QED
    BY <1>4, <1>5 DEF MergeInv

(* For every set of continuations, however many of them contend for the    *)
(* lock or take it from each other: what a continuation merges is the      *)
(* locked head with green checks, and "delivered" is only said of a merged *)
(* pull request.                                                           *)
THEOREM DeliveryMergeIsSound == DeliverySpec => []MergeIsSound
  <1>1. MergeInv => MergeIsSound
    BY DEF MergeInv
  <1> QED
    BY <1>1, MergeInitial, MergeStep, PTL DEF DeliverySpec

-----------------------------------------------------------------------------
(* The lock.                                                               *)

(* A continuation inside the lock stays there or goes on to give it up.    *)
InsideStep(r) ==
    \/ ReadFiles(r) \/ MirrorRecord(r)
    \/ ReadReady(r, "ready", "checks") \/ ReadChecks(r, "checks", "protection")
    \/ ReadProtection(r) \/ ReadChecks(r, "freshChecks", "freshReady")
    \/ ReadReady(r, "freshReady", "merge") \/ SendMerge(r) \/ ConfirmMerge(r)
    \/ MirrorVerdict(r) \/ RereadRecord(r) \/ ReplaceRecord(r)

LEMMA StaysInside ==
  ASSUME LocalTypeOK, NEW r \in Runners, InsideStep(r)
  PROVE  /\ pc[r] \in Inside /\ pc'[r] \in Inside \cup {"unlock"}
         /\ \A q \in Runners \ {r} : pc'[q] = pc[q]
         /\ lock' = lock /\ stolen' = stolen
  <1>1. pc[r] \in Inside /\ lock' = lock /\ stolen' = stolen
    BY DEF InsideStep, ReadFiles, MirrorRecord, ReadReady, ReadChecks, ReadProtection, SendMerge, ConfirmMerge,
           MirrorVerdict, RereadRecord, ReplaceRecord, Ask, Inside, Asking, locks
  <1>2. \/ \E l \in Inside : Goto(r, l)
        \/ \E s \in {"none"} \cup Statuses : EndWith(r, s)
    <2>1. {"mirror", "ready", "checks", "protection", "freshChecks", "freshReady", "merge", "confirm",
           "mirrorVerdict", "reread", "replace"} \subseteq Inside
      BY DEF Inside, Asking
    <2>2. verdict[r] \in Statuses
      BY DEF LocalTypeOK
    <2> QED
      BY <2>1, <2>2
         DEF InsideStep, ReadFiles, MirrorRecord, ReadReady, ReadChecks, ReadProtection, SendMerge, ConfirmMerge,
             MirrorVerdict, RereadRecord, ReplaceRecord, Ask, GoOn, Finish, PersistFails
  <1>3. Inside \subseteq Labels
    BY DEF Labels
  <1> QED
    BY <1>1, <1>2, <1>3, Moves DEF OnlyMoves

(* A theft is never forgotten.                                             *)
LEMMA TheftStays == DeliveryTypeOK /\ [DeliveryNext]_deliveryVars => (stolen => stolen')
  <1> SUFFICES ASSUME DeliveryTypeOK, [DeliveryNext]_deliveryVars PROVE stolen => stolen'
    OBVIOUS
  <1>1. LocalTypeOK
    BY Typed
  <1>2. ASSUME NEW r \in Runners, InsideStep(r)
        PROVE  stolen' = stolen
    BY <1>1, <1>2, StaysInside
  <1>3. ASSUME NEW r \in Runners, LockOrLife(r) \/ MergeAnswered(r)
        PROVE  stolen => stolen'
    BY <1>3 DEF LockOrLife, Start, MakeLock, PublishOwner, ReadOwner, StatLock, TakeStaleLock, WaitForLock,
                Unlock, Crash, DeadlinePasses, MergeAnswered, locks
  <1>4. LockAges \/ OthersAct \/ UNCHANGED deliveryVars => stolen' = stolen
    BY DEF LockAges, OthersAct, deliveryVars, locks
  <1> QED
    BY <1>2, <1>3, <1>4 DEF DeliveryNext, RunnerStep, LockOrLife, InsideStep

LEMMA LockInitial == DeliveryInit => LockInv
  BY DEF DeliveryInit, ProcessesInit, LockInv, Inside, Asking

(* One continuation moves; what it does to the lock is what it may.        *)
LEMMA OneMoves ==
  ASSUME DeliveryTypeOK, LockInv, ~stolen, NEW r \in Runners, NEW l, pc'[r] = l,
         \A q \in Runners \ {r} : pc'[q] = pc[q],
         l \in Holding => lock' # None /\ pc[r] \in Holding,
         l \in Inside \cup {"unlock"} => lock'.owner = r,
         l # "publish",
         l = "stat" /\ lock' # None /\ lock'.old => HeldByNobody,
         \/ lock' = lock
         \/ lock' = None /\ \A q \in Runners \ {r} : pc[q] \notin Holding
  PROVE  LockInv'
  <1> USE DEF LockInv
  <1>1. HeldByNobody => HeldByNobody'
    BY DEF HeldByNobody
  <1>2. CASE lock' = lock
    BY <1>1, <1>2 DEF Holding, HeldByNobody
  <1>3. CASE lock' = None /\ \A q \in Runners \ {r} : pc[q] \notin Holding
    BY <1>3 DEF Holding
  <1> QED
    BY <1>2, <1>3

(* Nobody enters a lock that another holds, or that was judged stale.      *)
LEMMA LockStep ==
  ASSUME DeliveryTypeOK, LockInv, [DeliveryNext]_deliveryVars
  PROVE  LockInv'
  <1> SUFFICES ASSUME ~stolen' PROVE LockInv'
    BY DEF LockInv
  <1>0. ~stolen
    BY TheftStays
  <1>1. LocalTypeOK /\ lock \in {None} \cup Locks /\ \A q \in Runners : pc[q] \in Labels
    BY Typed DEF LocalTypeOK
  <1>2. /\ lock # None => /\ lock.owner \in Runners \cup {None}
                          /\ lock.old \in BOOLEAN /\ lock.judged \subseteq Runners
        /\ \A q \in Runners : q # None
    BY <1>1, DeliveryConstants DEF Locks
  <1>3. CASE UNCHANGED <<pc, lock>>
    BY <1>0, <1>3 DEF LockInv, HeldByNobody
  <1>4. CASE LockAges
    <2>1. /\ pc' = pc /\ lock # None /\ lock' = [lock EXCEPT !.old = TRUE] /\ lock \in Locks
          /\ \A q \in Runners : pc[q] \notin {"publish", "stat"}
      BY <1>1, <1>4 DEF LockAges
    <2>2. lock' \in Locks /\ lock'.owner = lock.owner /\ lock'.judged = lock.judged
      BY <2>1 DEF Locks
    <2>3. lock' # None
      BY <2>2, DeliveryConstants
    <2> QED
      BY <1>0, <2>1, <2>2, <2>3 DEF LockInv, HeldByNobody
  <1>5. /\ Inside \cap (Acquiring \cup {"off", "done", "unlock"}) = {} /\ "unlock" \notin Acquiring
        /\ {"mkdir", "publish", "owner", "stat", "rename", "wait"} = Acquiring /\ "done" \notin Acquiring
        /\ {"mkdir", "publish", "owner", "stat", "rename", "wait", "read", "done", "unlock"} \subseteq Labels
        /\ "read" \in Inside
        /\ Holding = {"publish", "unlock"} \cup Inside
    BY DEF Acquiring, Inside, Asking, Labels, Ended, Holding
  <1>6. ASSUME NEW r \in Runners, InsideStep(r)
        PROVE  LockInv'
    <2>1. /\ pc[r] \in Inside /\ pc'[r] \in Inside \cup {"unlock"}
          /\ \A q \in Runners \ {r} : pc'[q] = pc[q]
          /\ lock' = lock
      BY <1>1, <1>6, StaysInside
    <2>2. lock # None /\ lock.owner = r
      BY <1>0, <2>1 DEF LockInv
    <2>3. pc'[r] \notin {"publish", "stat"}
      BY <1>5, <2>1
    <2> QED
      BY <1>0, <1>5, <2>1, <2>2, <2>3, OneMoves
  <1>7. ASSUME NEW r \in Runners, NEW l \in {"mkdir", "owner", "rename", "wait", "done"}, pc'[r] = l,
               \A q \in Runners \ {r} : pc'[q] = pc[q],
               \/ lock' = lock
               \/ lock' = None /\ \A q \in Runners \ {r} : pc[q] \notin Holding
        PROVE  LockInv'
    <2>1. l \notin Holding \cup {"publish", "stat"} \cup Inside \cup {"unlock"}
      BY <1>5
    <2> QED
      BY <1>0, <1>7, <2>1, OneMoves
  <1>8. ASSUME NEW r \in Runners, pc[r] \in Holding
        PROVE  lock # None /\ \A q \in Runners \ {r} : pc[q] \notin Holding
    BY <1>0, <1>2, <1>5, <1>8 DEF LockInv
  <1>9. \A r \in Runners, l \in Labels : Goto(r, l) => pc'[r] = l /\ \A q \in Runners \ {r} : pc'[q] = pc[q]
    BY <1>1, Moves
  <1>10. \A r \in Runners : Leave(r, "done") => Goto(r, "done")
    BY DEF Leave
  <1>11. ASSUME NEW r \in Runners, MakeLock(r)
         PROVE  LockInv'
    <2>1. CASE Leave(r, "done") /\ lock' = lock
      BY <1>5, <1>7, <1>9, <1>10, <2>1
    <2>2. CASE Goto(r, "owner") /\ lock' = lock
      BY <1>5, <1>7, <1>9, <2>2
    <2>3. CASE lock = None /\ SetLock([owner |-> None, old |-> FALSE, judged |-> {}]) /\ Goto(r, "publish")
      <3>1. lock' \in Locks /\ lock'.owner = None /\ ~lock'.old /\ lock'.judged = {}
        BY <2>3 DEF Locks, SetLock
      <3>2. lock' # None
        BY <3>1, DeliveryConstants
      <3>3. \A q \in Runners : pc[q] \notin Holding
        BY <1>0, <1>5, <2>3 DEF LockInv
      <3>4. pc'[r] = "publish" /\ \A q \in Runners \ {r} : pc'[q] = pc[q]
        BY <1>5, <1>9, <2>3
      <3> QED
        BY <1>5, <3>1, <3>2, <3>3, <3>4 DEF LockInv, Holding
    <2> QED
      BY <1>11, <2>1, <2>2, <2>3 DEF MakeLock
  <1>12. ASSUME NEW r \in Runners, PublishOwner(r)
         PROVE  LockInv'
    <2>1. pc[r] = "publish" /\ lock # None /\ lock.owner = None /\ ~lock.old /\ lock \in Locks
          /\ \A q \in Runners \ {r} : pc[q] \notin Holding
      BY <1>0, <1>1, <1>5, <1>8, <1>12 DEF PublishOwner, LockInv
    <2>2. CASE SetLock([lock EXCEPT !.owner = r]) /\ Goto(r, "read")
      <3>1. lock' \in Locks /\ lock'.owner = r /\ lock'.old = lock.old /\ lock'.judged = lock.judged
        BY <2>1, <2>2 DEF SetLock, Locks
      <3>2. lock' # None
        BY <3>1, DeliveryConstants
      <3>3. pc'[r] = "read" /\ \A q \in Runners \ {r} : pc'[q] = pc[q]
        BY <1>5, <1>9, <2>2
      <3>4. lock.judged = {}
        BY <1>0, <1>5, <2>1 DEF LockInv, HeldByNobody
      <3> QED
        BY <1>5, <2>1, <3>1, <3>2, <3>3, <3>4 DEF LockInv
    <2>3. CASE SetLock(None) /\ Leave(r, "done")
      BY <1>5, <1>7, <1>9, <1>10, <2>1, <2>3 DEF SetLock
    <2> QED
      BY <1>12, <2>2, <2>3 DEF PublishOwner
  <1>13. ASSUME NEW r \in Runners, ReadOwner(r)
         PROVE  LockInv'
    <2>1. lock' = lock
      BY <1>13 DEF ReadOwner, locks
    <2>2. CASE Goto(r, "wait")
      BY <1>5, <1>7, <1>9, <2>1, <2>2
    <2>3. CASE Goto(r, "stat") /\ ~(lock # None /\ lock.owner # None /\ Alive(lock.owner))
      <3>1. pc'[r] = "stat" /\ \A q \in Runners \ {r} : pc'[q] = pc[q]
        BY <1>5, <1>9, <2>3
      <3>2. lock # None /\ lock.old => HeldByNobody
        <4> SUFFICES ASSUME lock # None, lock.old, NEW q \in Runners, pc[q] \in Holding
                     PROVE  FALSE
          BY DEF HeldByNobody
        <4>1. pc[q] # "publish"
          BY <1>0 DEF LockInv
        <4>2. lock.owner = q /\ Alive(q)
          BY <1>0, <1>5, <4>1 DEF LockInv, Alive, Ended
        <4> QED
          BY <1>2, <2>3, <4>2
      <3>3. "stat" \notin Holding \cup Inside \cup {"unlock", "publish"}
        BY <1>5
      <3> QED
        BY <1>0, <2>1, <3>1, <3>2, <3>3, OneMoves
    <2> QED
      BY <1>13, <2>2, <2>3 DEF ReadOwner
  <1>14. ASSUME NEW r \in Runners, StatLock(r)
         PROVE  LockInv'
    <2>1. CASE lock # None /\ lock.old
      <3>1. HeldByNobody
        BY <1>0, <1>14, <2>1 DEF StatLock, LockInv
      <3>2. lock' = [lock EXCEPT !.judged = @ \cup {r}] /\ lock \in Locks
        BY <1>1, <1>14, <2>1 DEF StatLock
      <3>3. lock' \in Locks /\ lock'.owner = lock.owner /\ lock'.old = lock.old
        BY <3>2 DEF Locks
      <3>4. pc'[r] = "rename" /\ \A q \in Runners \ {r} : pc'[q] = pc[q]
        BY <1>5, <1>9, <1>14, <2>1 DEF StatLock
      <3>5. HeldByNobody' /\ \A q \in Runners : pc'[q] \notin Inside \cup {"unlock", "publish"}
        BY <1>5, <3>1, <3>4 DEF HeldByNobody
      <3> QED
        BY <3>3, <3>5 DEF LockInv
    <2>2. CASE ~(lock # None /\ lock.old)
      <3>1. lock' = lock /\ (Goto(r, "mkdir") \/ Goto(r, "wait"))
        BY <1>14, <2>2 DEF StatLock
      <3> QED
        BY <1>5, <1>7, <1>9, <3>1
    <2> QED
      BY <2>1, <2>2
  <1>15. ASSUME NEW r \in Runners, TakeStaleLock(r)
         PROVE  LockInv'
    <2>1. lock' = None /\ Goto(r, "mkdir") /\ (lock # None => r \in lock.judged)
      BY <1>15 DEF TakeStaleLock, SetLock
    <2>2. \A q \in Runners : pc[q] \notin Holding
      BY <1>0, <1>5, <2>1 DEF LockInv, HeldByNobody
    <2> QED
      BY <1>5, <1>7, <1>9, <2>1, <2>2
  <1>16. ASSUME NEW r \in Runners, Start(r) \/ WaitForLock(r) \/ Unlock(r) \/ Crash(r)
         PROVE  LockInv'
    <2>1. \E l \in {"mkdir", "done"} : Goto(r, l)
      BY <1>10, <1>16 DEF Start, WaitForLock, Unlock, Crash
    <2>2. lock' = lock \/ (pc[r] = "unlock" /\ lock' = None)
      BY <1>16 DEF Start, WaitForLock, Unlock, Crash, SetLock, locks
    <2> QED
      BY <1>5, <1>7, <1>8, <1>9, <2>1, <2>2
  <1>17. ASSUME NEW r \in Runners, DeadlinePasses(r) \/ MergeAnswered(r)
         PROVE  UNCHANGED <<pc, lock>>
    BY <1>17 DEF DeadlinePasses, MergeAnswered, locks
  <1>18. OthersAct \/ UNCHANGED deliveryVars => UNCHANGED <<pc, lock>>
    BY DEF OthersAct, deliveryVars, locks
  <1> QED
    BY <1>3, <1>4, <1>6, <1>11, <1>12, <1>13, <1>14, <1>15, <1>16, <1>17, <1>18
       DEF DeliveryNext, RunnerStep, InsideStep

(* Until a lock is stolen, one is inside it at most.                       *)
LEMMA OneInside == DeliveryTypeOK /\ LockInv => OneHolder
  <1> SUFFICES ASSUME DeliveryTypeOK, LockInv, ~stolen
               PROVE  Cardinality({r \in Runners : pc[r] \in Holding}) <= 1
    BY DEF OneHolder
  <1> DEFINE inside == {r \in Runners : pc[r] \in Holding}
  <1>1. \A q, r \in inside : q = r
    BY DeliveryConstants DEF LockInv, Holding
  <1>2. inside = {} \/ \E r \in Runners : inside = {r}
    BY <1>1
  <1>3. Cardinality(inside) = 0 \/ Cardinality(inside) = 1
    BY <1>2, FS_EmptySet, FS_Singleton
  <1>4. Cardinality(inside) <= 1
    <2> HIDE DEF inside
    <2> QED
      BY <1>3
  <1> QED
    BY <1>4

-----------------------------------------------------------------------------
(* The files, with one continuation inside the lock.                       *)

(* The kinds of step inside the lock, by what they do to the files and to  *)
(* what r remembers of them.                                               *)
GivesUp(r) == pc'[r] = "unlock" /\ exit'[r] = "none" /\ UNCHANGED files

Learns(r) == pc'[r] = "mirror" /\ verdict'[r] = record.status /\ exit'[r] = exit[r] /\ UNCHANGED files

GoesAsking(r) ==
    /\ pc[r] \in Asking \/ (pc[r] = "mirror" /\ verdict[r] \notin Terminal)
    /\ pc'[r] \in Asking \cup {"mirrorVerdict"}
    /\ exit'[r] = exit[r] /\ UNCHANGED record

TriesBlocked(r) ==
    /\ pc[r] \in {"mirrorVerdict", "replace"} /\ pc'[r] = "mirrorVerdict"
    /\ exit'[r] = exit[r] /\ UNCHANGED files

RepeatsVerdict(r) ==
    /\ pc[r] = "mirror" /\ verdict[r] \in Terminal /\ pc'[r] = "unlock" /\ exit'[r] = verdict[r]
    /\ report' = [report EXCEPT !.delivery = verdict[r]] /\ UNCHANGED record

Mirrors(r) ==
    /\ pc[r] = "mirrorVerdict" /\ pc'[r] = "reread" /\ verdict'[r] = verdict[r] /\ exit'[r] = exit[r]
    /\ report' = [report EXCEPT !.delivery = verdict[r]] /\ UNCHANGED record

Rereads(r) ==
    /\ pc[r] = "reread" /\ pc'[r] = "replace" /\ verdict'[r] = verdict[r] /\ exit'[r] = exit[r]
    /\ base'[r] = record /\ UNCHANGED files

RecordsVerdict(r) ==
    /\ pc[r] = "replace" /\ pc'[r] = "unlock" /\ exit'[r] = verdict[r]
    /\ record' = MergeAttempt(base[r], verdict[r]) /\ UNCHANGED report

LEMMA InsideEffect ==
  ASSUME LocalTypeOK, record # None => record.status \in Statuses, NEW r \in Runners, InsideStep(r), record # None
  PROVE  /\ OnlyMoves(r)
         /\ \/ GivesUp(r) \/ Learns(r) \/ GoesAsking(r) \/ TriesBlocked(r) \/ RepeatsVerdict(r)
            \/ Mirrors(r) \/ Rereads(r) \/ RecordsVerdict(r)
  <1>1. /\ {"mirror", "ready", "checks", "protection", "freshChecks", "freshReady", "merge", "confirm",
            "mirrorVerdict", "reread", "replace"} \subseteq Labels
        /\ {"ready", "checks", "protection", "freshChecks", "freshReady", "merge", "confirm"} = Asking
    BY DEF Labels, Inside, Asking
  <1>2. verdict[r] \in Statuses /\ record.status \in Statuses /\ {"pending", "blocked", "delivered"} = Statuses
    BY DEF LocalTypeOK, Statuses
  <1>3. ASSUME NEW l \in Labels, Goto(r, l), UNCHANGED <<exit, base>>, verdict' = verdict
        PROVE  OnlyMoves(r) /\ pc'[r] = l /\ exit'[r] = exit[r] /\ verdict'[r] = verdict[r] /\ base'[r] = base[r]
    BY <1>3, Moves DEF OnlyMoves
  <1>4. ASSUME NEW s \in {"none"} \cup Statuses, EndWith(r, s)
        PROVE  OnlyMoves(r) /\ pc'[r] = "unlock" /\ exit'[r] = s
    BY <1>4, Moves
  <1>5. ASSUME NEW s \in Statuses, Finish(r, s), UNCHANGED <<exit, late, waited, base>>
        PROVE  OnlyMoves(r) /\ pc'[r] = "mirrorVerdict" /\ exit'[r] = exit[r]
    BY <1>5, Moves
  <1>6. PersistFails(r) =>
          /\ OnlyMoves(r)
          /\ \/ pc'[r] = "unlock" /\ exit'[r] = "none"
             \/ pc'[r] = "mirrorVerdict" /\ exit'[r] = exit[r]
    BY <1>2, <1>4, <1>5 DEF PersistFails
  <1>7. CASE ReadFiles(r)
    <2>1. CASE EndWith(r, "none")
      BY <1>4, <1>7, <2>1 DEF ReadFiles, GivesUp
    <2>2. CASE Goto(r, "mirror") /\ verdict' = [verdict EXCEPT ![r] = record.status]
               /\ UNCHANGED <<exit, late, waited, base>>
      <3>1. pc'[r] = "mirror" /\ verdict'[r] = record.status /\ OnlyMoves(r) /\ exit'[r] = exit[r]
        BY <1>1, <2>2, Moves DEF LocalTypeOK, OnlyMoves
      <3> QED
        BY <1>7, <3>1 DEF ReadFiles, Learns
    <2> QED
      BY <1>7, <2>1, <2>2 DEF ReadFiles
  <1>8. CASE MirrorRecord(r)
    <2>1. CASE late[r]
      BY <1>4, <1>8, <2>1 DEF MirrorRecord, GivesUp, files
    <2>2. CASE ~late[r] /\ verdict[r] \in Terminal
      BY <1>2, <1>4, <1>8, <2>2 DEF MirrorRecord, RepeatsVerdict
    <2>3. CASE ~late[r] /\ verdict[r] \notin Terminal
      BY <1>1, <1>3, <1>8, <2>3 DEF MirrorRecord, GoesAsking, local
    <2> QED
      BY <2>1, <2>2, <2>3
  <1>9. CASE \/ ReadReady(r, "ready", "checks") \/ ReadChecks(r, "checks", "protection")
             \/ ReadProtection(r) \/ ReadChecks(r, "freshChecks", "freshReady")
             \/ ReadReady(r, "freshReady", "merge") \/ ConfirmMerge(r)
    BY <1>1, <1>2, <1>3, <1>5, <1>9
       DEF ReadReady, ReadChecks, ReadProtection, ConfirmMerge, Ask, GoOn, GoesAsking, files
  <1>10. CASE SendMerge(r)
    BY <1>1, <1>2, <1>3, <1>5, <1>10 DEF SendMerge, GoesAsking, files
  <1>11. CASE MirrorVerdict(r)
    BY <1>1, <1>2, <1>3, <1>6, <1>11 DEF MirrorVerdict, GivesUp, TriesBlocked, Mirrors, files, local
  <1>12. CASE RereadRecord(r)
    <2>1. pc[r] = "reread" /\ Goto(r, "replace") /\ base' = [base EXCEPT ![r] = record]
          /\ UNCHANGED <<files, exit, verdict>>
      BY <1>12 DEF RereadRecord
    <2>2. pc'[r] = "replace" /\ base'[r] = record /\ OnlyMoves(r)
      BY <1>1, <2>1, Moves DEF LocalTypeOK, OnlyMoves
    <2> QED
      BY <2>1, <2>2 DEF Rereads
  <1>13. CASE ReplaceRecord(r)
    BY <1>2, <1>4, <1>6, <1>13 DEF ReplaceRecord, GivesUp, TriesBlocked, RecordsVerdict, files
  <1> QED
    BY <1>7, <1>8, <1>9, <1>10, <1>11, <1>12, <1>13 DEF InsideStep

LEMMA FiniteAttempts ==
  ASSUME NEW current \in Records
  PROVE  /\ IsFiniteSet({i \in DOMAIN current.attempts : current.attempts[i] = "pending"})
         /\ Cardinality({i \in DOMAIN current.attempts : current.attempts[i] = "pending"}) \in Nat
  <1> DEFINE n == Len(current.attempts)
             recorded == {i \in DOMAIN current.attempts : current.attempts[i] = "pending"}
  <1>1. DOMAIN current.attempts = 1 .. n /\ n \in Nat
    BY LenProperties DEF Records
  <1>2. IsFiniteSet(1 .. n)
    <2> HIDE DEF n
    <2> QED
      BY <1>1, FS_Interval
  <1>3. recorded \subseteq 1 .. n
    BY <1>1
  <1>4. IsFiniteSet(recorded)
    <2> HIDE DEF n, recorded
    <2> QED
      BY <1>2, <1>3, FS_Subset
  <1> QED
    BY <1>4, FS_CardinalityType

LEMMA NoAttemptsYet ==
  ASSUME NEW current \in Records, NEW ends, \A r \in Runners : ends[r] # "pending"
  PROVE  Cardinality({r \in Runners : ends[r] = "pending"})
           <= Cardinality({i \in DOMAIN current.attempts : current.attempts[i] = "pending"})
  <1> DEFINE m == Cardinality({i \in DOMAIN current.attempts : current.attempts[i] = "pending"})
  <1>1. {r \in Runners : ends[r] = "pending"} = {}
    OBVIOUS
  <1>2. m \in Nat
    BY FiniteAttempts
  <1>3. 0 <= m
    <2> HIDE DEF m
    <2> QED
      BY <1>2
  <1> QED
    BY <1>1, <1>3, FS_EmptySet

(* Nobody exits with a verdict that was not there before.                  *)
LEMMA AttemptsKept ==
  ASSUME DeliveryTypeOK, AttemptsRecorded, UNCHANGED record, stolen => stolen',
         \A q \in Runners : exit'[q] \in {exit[q], "none"} \/ (exit'[q] \in Terminal /\ exit'[q] = record.status)
  PROVE  AttemptsRecorded'
  <1> SUFFICES ASSUME record # None, ~stolen' PROVE AttemptsRecorded'
    BY DEF AttemptsRecorded
  <1> DEFINE pending == {r \in Runners : exit[r] = "pending"}
             recorded == {i \in DOMAIN record.attempts : record.attempts[i] = "pending"}
  <1>1. IsFiniteSet(pending) /\ Cardinality(pending) \in Nat
    BY DeliveryConstants, FS_Subset, FS_CardinalityType
  <1>2. pending' \subseteq pending
    BY DEF Terminal
  <1>3. IsFiniteSet(pending') /\ Cardinality(pending') \in Nat /\ Cardinality(pending') <= Cardinality(pending)
    BY <1>1, <1>2, FS_Subset, FS_CardinalityType
  <1>4. recorded' = recorded
    OBVIOUS
  <1>5. IsFiniteSet(recorded) /\ Cardinality(recorded) \in Nat
    BY FiniteAttempts DEF DeliveryTypeOK
  <1>6. Cardinality(pending) <= Cardinality(recorded)
    BY DEF AttemptsRecorded
  <1>7. Cardinality(pending') <= Cardinality(recorded')
    <2> HIDE DEF pending, recorded
    <2> QED
      BY <1>1, <1>3, <1>4, <1>5, <1>6
  <1>8. \A r \in Runners : exit'[r] \in Terminal => exit'[r] = record'.status
    BY DEF AttemptsRecorded, Terminal
  <1> QED
    BY <1>7, <1>8 DEF AttemptsRecorded

(* A verdict is recorded: a pending one gains an attempt and an exit.      *)
LEMMA AttemptRecorded ==
  ASSUME DeliveryTypeOK, AttemptsRecorded, ~stolen, record # None, record.status = "pending",
         NEW r \in Runners, NEW status \in Statuses,
         record' = MergeAttempt(record, status), exit'[r] = status,
         \A q \in Runners \ {r} : exit'[q] = exit[q]
  PROVE  AttemptsRecorded' /\ record'.status = status
  <1> DEFINE pending == {q \in Runners : exit[q] = "pending"}
             recorded == {i \in DOMAIN record.attempts : record.attempts[i] = "pending"}
             n == Len(record.attempts)
  <1>1. record \in Records /\ record.attempts \in Seq(Statuses) /\ n \in Nat
        /\ DOMAIN record.attempts = 1 .. n
    BY LenProperties DEF DeliveryTypeOK, Records
  <1>2. /\ record'.status = status /\ record'.attempts = Append(record.attempts, status)
    BY <1>1, Attempted DEF Terminal
  <1>3. /\ DOMAIN record'.attempts = 1 .. n + 1
        /\ \A i \in 1 .. n : record'.attempts[i] = record.attempts[i]
        /\ record'.attempts[n + 1] = status
    BY <1>1, <1>2, AppendProperties
  <1>4. IsFiniteSet(pending) /\ Cardinality(pending) \in Nat
    BY DeliveryConstants, FS_Subset, FS_CardinalityType
  <1>5. IsFiniteSet(recorded) /\ Cardinality(recorded) \in Nat
    BY <1>1, FiniteAttempts
  <1>6. Cardinality(pending) <= Cardinality(recorded)
    BY DEF AttemptsRecorded
  <1>7. \A q \in Runners : exit[q] \notin Terminal
    BY DEF AttemptsRecorded, Terminal
  <1>8. Cardinality(pending') <= Cardinality(recorded')
    <2>1. CASE status = "pending"
      <3>1. pending' = pending \cup {r}
        BY <2>1
      <3>2. recorded' = recorded \cup {n + 1} /\ n + 1 \notin recorded
        <4> HIDE DEF n
        <4> QED
          BY <1>1, <1>3, <2>1
      <3>3. Cardinality(pending') <= Cardinality(pending) + 1
        <4>1. Cardinality(pending \cup {r}) = IF r \in pending THEN Cardinality(pending) ELSE Cardinality(pending) + 1
          <5> HIDE DEF pending
          <5> QED
            BY <1>4, FS_AddElement
        <4> HIDE DEF pending
        <4> QED
          BY <1>4, <3>1, <4>1
      <3>4. Cardinality(recorded') = Cardinality(recorded) + 1
        <4> HIDE DEF recorded, n
        <4> QED
          BY <1>5, <3>2, FS_AddElement
      <3> HIDE DEF pending, recorded
      <3> QED
        BY <1>4, <1>5, <1>6, <3>3, <3>4, FS_AddElement, <3>1, <3>2, FS_CardinalityType
    <2>2. CASE status # "pending"
      <3>1. pending' \subseteq pending
        BY <2>2
      <3>2. recorded' = recorded
        <4> HIDE DEF n
        <4> QED
          BY <1>1, <1>3, <2>2
      <3>3. Cardinality(pending') \in Nat /\ Cardinality(pending') <= Cardinality(pending)
        BY <1>4, <3>1, FS_Subset, FS_CardinalityType
      <3> HIDE DEF pending, recorded
      <3> QED
        BY <1>4, <1>5, <1>6, <3>2, <3>3
    <2> QED
      BY <2>1, <2>2
  <1>9. \A q \in Runners : exit'[q] \in Terminal => exit'[q] = record'.status
    BY <1>2, <1>7
  <1> QED
    BY <1>2, <1>8, <1>9 DEF AttemptsRecorded

(* While r is inside the lock nobody else is.                              *)
LEMMA AloneInside ==
  ASSUME DeliveryTypeOK, LockInv, ~stolen, NEW r \in Runners, pc[r] \in Inside
  PROVE  \A q \in Runners \ {r} : pc[q] \notin Inside
  BY DEF LockInv

(* What a step of r inside the lock has to show for itself.                *)
LEMMA StepInside ==
  ASSUME DeliveryTypeOK, LockInv, FilesAsRead, AttemptsRecorded, StartedInOrder, ~stolen,
         NEW r \in Runners, InsideStep(r)
  PROVE  /\ FilesAsRead' /\ AttemptsRecorded'
         /\ (pc'[r] = "unlock" /\ exit'[r] \in Statuses) => report'.delivery = record'.status
  <1>1. LocalTypeOK /\ report \in {None} \cup Reports /\ record \in {None} \cup Records
        /\ verdict[r] \in Statuses
    BY Typed DEF LocalTypeOK
  <1>2. /\ pc[r] \in Inside /\ \A q \in Runners \ {r} : pc[q] \notin Inside
        /\ ~stolen'
    BY <1>1, StaysInside, AloneInside
  <1>3. record # None /\ record \in Records /\ record.status \in Statuses
    BY <1>1, <1>2 DEF StartedInOrder, Inside, Asking, Records
  <1>4. /\ OnlyMoves(r)
        /\ \/ GivesUp(r) \/ Learns(r) \/ GoesAsking(r) \/ TriesBlocked(r) \/ RepeatsVerdict(r)
           \/ Mirrors(r) \/ Rereads(r) \/ RecordsVerdict(r)
    BY <1>1, <1>3, InsideEffect
  <1>5. \A q \in Runners \ {r} : pc'[q] \notin Inside
    BY <1>2, <1>4 DEF OnlyMoves
  <1>6. "none" \notin Statuses /\ "unlock" \notin Inside
        /\ {"mirror", "mirrorVerdict", "reread", "replace"} \subseteq Inside /\ Asking \subseteq Inside
        /\ Asking \cap {"mirror", "reread", "replace", "mirrorVerdict", "unlock"} = {}
    BY DEF Statuses, Inside, Asking
  <1>7. ASSUME UNCHANGED record, exit'[r] \in {exit[r], "none"}
        PROVE  AttemptsRecorded'
    BY <1>2, <1>4, <1>7, AttemptsKept DEF OnlyMoves
  <1>8. pc[r] # "read" => report # None /\ report \in Reports
    BY <1>1, <1>2 DEF StartedInOrder
  <1>9. FilesAsRead' <=>
          /\ pc'[r] = "mirror" => record'.status = verdict'[r]
          /\ pc'[r] \in Asking \cup {"mirrorVerdict", "reread", "replace"} => record'.status = "pending"
          /\ pc'[r] = "replace" => base'[r] = record'
          /\ pc'[r] \in {"reread", "replace"} => report'.delivery = verdict'[r]
    BY <1>2, <1>5, <1>6 DEF FilesAsRead
  <1>10. CASE GivesUp(r)
    BY <1>6, <1>7, <1>9, <1>10 DEF GivesUp, files
  <1>11. CASE Learns(r)
    BY <1>6, <1>7, <1>9, <1>11 DEF Learns, files
  <1>12. CASE GoesAsking(r)
    <2>1. record.status = "pending"
      BY <1>3, <1>12 DEF GoesAsking, FilesAsRead, Statuses, Terminal
    <2> QED
      BY <1>6, <1>7, <1>9, <1>12, <2>1 DEF GoesAsking
  <1>13. CASE TriesBlocked(r)
    <2>1. record.status = "pending"
      BY <1>13 DEF TriesBlocked, FilesAsRead
    <2> QED
      BY <1>6, <1>7, <1>9, <1>13, <2>1 DEF TriesBlocked, files
  <1>14. CASE RepeatsVerdict(r)
    <2>1. record.status = verdict[r]
      BY <1>14 DEF RepeatsVerdict, FilesAsRead
    <2>2. report'.delivery = verdict[r]
      BY <1>8, <1>14 DEF RepeatsVerdict, Reports
    <2>3. AttemptsRecorded'
      BY <1>2, <1>4, <1>14, <2>1, AttemptsKept DEF RepeatsVerdict, OnlyMoves
    <2> QED
      BY <1>6, <1>9, <1>14, <2>1, <2>2, <2>3 DEF RepeatsVerdict
  <1>15. CASE Mirrors(r)
    <2>1. record.status = "pending"
      BY <1>15 DEF Mirrors, FilesAsRead
    <2>2. report'.delivery = verdict[r]
      BY <1>8, <1>15 DEF Mirrors, Reports
    <2> QED
      BY <1>6, <1>7, <1>9, <1>15, <2>1, <2>2 DEF Mirrors
  <1>16. CASE Rereads(r)
    <2>1. record.status = "pending" /\ report.delivery = verdict[r]
      BY <1>16 DEF Rereads, FilesAsRead
    <2> QED
      BY <1>6, <1>7, <1>9, <1>16, <2>1 DEF Rereads, files
  <1>17. CASE RecordsVerdict(r)
    <2>1. record.status = "pending" /\ base[r] = record /\ report.delivery = verdict[r]
      BY <1>17 DEF RecordsVerdict, FilesAsRead
    <2>2. AttemptsRecorded' /\ record'.status = verdict[r]
      BY <1>1, <1>3, <1>4, <1>17, <2>1, AttemptRecorded DEF RecordsVerdict, OnlyMoves
    <2> QED
      BY <1>6, <1>9, <1>17, <2>1, <2>2 DEF RecordsVerdict
  <1> QED
    BY <1>4, <1>10, <1>11, <1>12, <1>13, <1>14, <1>15, <1>16, <1>17

LEMMA FilesStep ==
  ASSUME DeliveryTypeOK, LockInv, FilesAsRead, AttemptsRecorded, StartedInOrder, [DeliveryNext]_deliveryVars
  PROVE  FilesAsRead' /\ AttemptsRecorded'
  <1> SUFFICES ASSUME ~stolen' PROVE FilesAsRead' /\ AttemptsRecorded'
    BY DEF FilesAsRead, AttemptsRecorded
  <1>0. ~stolen
    BY TheftStays
  <1>1. ASSUME NEW r \in Runners, LockOrLife(r)
        PROVE  FilesAsRead' /\ AttemptsRecorded'
    <2>1. /\ UNCHANGED <<record, report>> /\ OnlyMoves(r) /\ exit'[r] \in {exit[r], "none"}
          /\ \/ pc'[r] = pc[r] /\ verdict'[r] = verdict[r] /\ base'[r] = base[r]
             \/ pc'[r] \in Outside
      BY <1>1, LockOrLifeEffect DEF files
    <2>2. Outside \cap (Asking \cup {"mirror", "mirrorVerdict", "reread", "replace"}) = {}
      BY DEF Outside, Asking
    <2>3. FilesAsRead'
      BY <1>0, <2>1, <2>2 DEF FilesAsRead, OnlyMoves
    <2>4. AttemptsRecorded'
      BY <1>0, <2>1, AttemptsKept DEF OnlyMoves
    <2> QED
      BY <2>3, <2>4
  <1>2. CASE UNCHANGED <<record, report, pc, exit, verdict, base>>
    BY <1>0, <1>2 DEF FilesAsRead, AttemptsRecorded
  <1>3. ASSUME NEW r \in Runners, MergeAnswered(r)
        PROVE  UNCHANGED <<record, report, pc, exit, verdict, base>>
    BY <1>3 DEF MergeAnswered, files, local
  <1>4. LockAges \/ OthersAct \/ UNCHANGED deliveryVars => UNCHANGED <<record, report, pc, exit, verdict, base>>
    BY DEF LockAges, OthersAct, deliveryVars, files, local
  <1> QED
    BY <1>0, <1>1, <1>2, <1>3, <1>4, StepInside DEF DeliveryNext, RunnerStep, LockOrLife, InsideStep

(* Only a step of its own takes a continuation out of the lock.            *)
LEMMA RepairStep ==
  ASSUME DeliveryTypeOK, LockInv, FilesAsRead, AttemptsRecorded, StartedInOrder, ~stolen,
         [DeliveryNext]_deliveryVars, NEW r \in Runners, pc[r] \in Inside, pc'[r] = "unlock", exit'[r] \in Statuses
  PROVE  report'.delivery = record'.status
  <1>1. LocalTypeOK /\ "unlock" \notin Inside \cup Outside
    BY Typed DEF Inside, Asking, Outside
  <1>2. ASSUME NEW q \in Runners, LockOrLife(q)
        PROVE  FALSE
    BY <1>1, <1>2, LockOrLifeEffect DEF OnlyMoves
  <1>3. ASSUME NEW q \in Runners, InsideStep(q)
        PROVE  q = r
    BY <1>1, <1>3, StaysInside
  <1>4. ASSUME NEW q \in Runners, MergeAnswered(q)
        PROVE  pc' = pc
    BY <1>4 DEF MergeAnswered
  <1>5. LockAges \/ OthersAct \/ UNCHANGED deliveryVars => pc' = pc
    BY DEF LockAges, OthersAct, deliveryVars
  <1>6. InsideStep(r)
    BY <1>1, <1>2, <1>3, <1>4, <1>5 DEF DeliveryNext, RunnerStep, LockOrLife, InsideStep
  <1> QED
    BY <1>6, StepInside

LEMMA AloneInitial == DeliveryInit => AloneInv
  <1> SUFFICES ASSUME DeliveryInit PROVE AloneInv
    OBVIOUS
  <1>1. FilesAsRead
    BY DEF DeliveryInit, ProcessesInit, FilesAsRead, Asking
  <1>2. \A r \in Runners : exit[r] # "pending" /\ exit[r] \notin Terminal
    BY DEF DeliveryInit, ProcessesInit, Terminal
  <1>3. record \in Records
    BY DEF DeliveryInit, NewRecord, Records, Statuses
  <1>4. AttemptsRecorded
    BY <1>2, <1>3, NoAttemptsYet DEF AttemptsRecorded
  <1> QED
    BY <1>1, <1>4, MergeInitial, LockInitial DEF AloneInv

(* Every step keeps the lock, while it is not stolen, with whoever holds   *)
(* it.                                                                     *)
LEMMA AloneStep == AloneInv /\ [DeliveryNext]_deliveryVars => AloneInv'
  <1> SUFFICES ASSUME AloneInv, [DeliveryNext]_deliveryVars PROVE AloneInv'
    OBVIOUS
  <1>1. MergeInv'
    BY MergeStep DEF AloneInv
  <1>2. LockInv'
    BY LockStep DEF AloneInv, MergeInv
  <1>3. FilesAsRead' /\ AttemptsRecorded'
    BY FilesStep DEF AloneInv, MergeInv
  <1> QED
    BY <1>1, <1>2, <1>3 DEF AloneInv

(* A lock whose owner is a live continuation inside it is its own when it  *)
(* goes on, unless a rename has taken another lock than the one it judged. *)
KeptUntilStolen ==
    [][\A r \in Runners :
         (/\ ~stolen'
          /\ lock # None /\ lock.owner = r /\ pc[r] \in Inside /\ pc'[r] \in Inside \cup {"unlock"})
            => lock' # None /\ lock'.owner = r]_deliveryVars

(* For every set of continuations that contend for the lock and crash      *)
(* wherever they are: until a rename takes another lock than the one it    *)
(* has judged stale, at most one continuation is inside, and a lock whose  *)
(* owner is alive inside it is taken by nobody.                            *)
THEOREM DeliveryLockHolds == DeliverySpec => []OneHolder /\ KeptUntilStolen
  <1>1. AloneInv => OneHolder
    BY OneInside DEF AloneInv, MergeInv
  <1>2. AloneInv' =>
          [\A r \in Runners :
             (/\ ~stolen'
              /\ lock # None /\ lock.owner = r /\ pc[r] \in Inside /\ pc'[r] \in Inside \cup {"unlock"})
                => lock' # None /\ lock'.owner = r]_deliveryVars
    BY DEF AloneInv, LockInv
  <1>3. AloneInv /\ [DeliveryNext]_deliveryVars => AloneInv'
    BY AloneStep
  <1>4. DeliveryInit => AloneInv
    BY AloneInitial
  <1> QED
    BY <1>1, <1>2, <1>3, <1>4, PTL DEF DeliverySpec, KeptUntilStolen

-----------------------------------------------------------------------------
(* The worker, and the run as a whole.                                     *)

(* Once the quorum is reached, before the deadline, every scope that is    *)
(* left was told to stop; a candidate is never from a scope that used a    *)
(* tool.                                                                   *)
QuorumStopsTheRace ==
    /\ fanout = "racing" /\ Cardinality(Accepted) = Quorum => Pending \subseteq asked
    /\ \A s \in Scopes : answer[s] = "candidate" => s \notin tooled

ScoutInv == ScoutTypeOK /\ AcceptedAreSound /\ QuorumStopsTheRace

(* Where a worktree, a candidate and the worktree before it are in hand.   *)
InHand ==
    /\ stage \in BodyStages => tree \in Trees /\ index \in Trees /\ head \in Commits
    /\ stage \in BodyStages \ {"preflight", "gather", "scout", "reproduce"} => chosen \in Scopes
    /\ stage \in {"redGate", "restore"} => snapshot \in Trees

AfterManifest == {"preStage", "staged", "commit", "committed", "range", "contents", "push", "pullRequest",
                  "readyProof"}

Compared == {"contents", "push", "pullRequest", "readyProof"}

Validated == {"range"} \cup Compared

(* The manifest keeps what was verified; the commit that was named has the *)
(* base for its parent and the candidate's paths for its change; HEAD is   *)
(* that commit until somebody moves it, and when it still was as its       *)
(* contents were read, that commit has the contents of the manifest.       *)
VerifiedIsKept ==
    /\ stage \in AfterManifest => manifest \in Trees /\ manifest.test[chosen] = "red"
    /\ stage \in Validated => validated \in Commits /\ validated.on = "child" /\ OwnPaths(validated.tree, Base)
    /\ stage = "range" /\ ~moved => head = validated
    /\ stage \in Compared /\ ~moved => Unchanged(validated.tree)
    /\ pushed # None => stage \in {"pullRequest", "readyProof"} /\ pushed = validated

(* What exists outside the worker by the time it is where it is.           *)
WrittenInOrder ==
    /\ stage \in BodyStages => record = None /\ ~built /\ ~published
    /\ stage \in BodyStages \ {"readyProof"} => pr = None
    /\ stage = "readyProof" \/ built => pr # None
    /\ published => record # None
    /\ report # None => stage = "gone"
    /\ PassedReportIsBacked

WorkerInv == WorkTypeOK /\ FinalTypeOK /\ ScoutInv /\ InHand /\ VerifiedIsKept /\ WrittenInOrder

SystemInv == WorkerInv /\ MergeInv

(* The race of the scouts.                                                 *)
LEMMA ScoutReset ==
  ASSUME EndScout
  PROVE  ScoutInv'
  <1>1. Accepted' = {} /\ fanout' = "idle" /\ \A s \in Scopes : answer'[s] = "running"
    BY DEF EndScout, Accepted
  <1>2. ScoutTypeOK'
    BY DEF EndScout, ScoutTypeOK, Answers
  <1>3. AcceptedAreSound'
    BY <1>1, ScoutConstants, FS_EmptySet DEF AcceptedAreSound
  <1>4. QuorumStopsTheRace'
    BY <1>1 DEF QuorumStopsTheRace
  <1> QED
    BY <1>2, <1>3, <1>4 DEF ScoutInv

LEMMA AcceptedCount ==
  /\ IsFiniteSet(Accepted) /\ Cardinality(Accepted) \in Nat
  /\ Accepted \subseteq Scopes
  <1>1. Accepted \subseteq Scopes
    BY DEF Accepted
  <1> QED
    BY <1>1, ScoutConstants, FS_Subset, FS_CardinalityType

(* The end of one scope: an accepted one is the last, or leaves room.      *)
LEMMA HandlingKeepsScoutInv ==
  ASSUME ScoutInv, NEW s \in Scopes, HandleScope(s)
  PROVE  ScoutInv'
  <1> USE DEF ScoutInv
  <1>1. /\ fanout = "racing" /\ scope[s] = "pending" /\ answer[s] \in Answers \cup {"late"}
        /\ scope' = [scope EXCEPT ![s] = Verdict(s)]
        /\ answer' = [answer EXCEPT ![s] = IF Verdict(s) = "accepted" THEN @ ELSE "late"]
        /\ tooled' = IF Verdict(s) = "accepted" THEN tooled ELSE tooled \ {s}
        /\ asked' = IF Verdict(s) = "accepted" /\ Cardinality(Accepted) + 1 = Quorum /\ ~modelOver
                    THEN Pending \ {s} ELSE asked
        /\ fanout' = IF Pending = {s} \/ modelOver THEN "settling" ELSE "racing"
        /\ modelOver' = modelOver
    BY DEF HandleScope
  <1>2. /\ Verdict(s) \in {"accepted", "no_candidate", "failed", "cancelled", "timed_out"}
        /\ Verdict(s) = "accepted" => answer[s] = "candidate" /\ s \notin asked
    <2>1. answer[s] \in {"candidate", "none", "rejected", "late"}
      BY <1>1 DEF Answers
    <2> QED
      BY <2>1 DEF Verdict
  <1>3. ScoutTypeOK'
    <2>1. scope' \in [Scopes -> {"unstarted", "pending", "accepted", "no_candidate", "failed", "cancelled",
                                 "timed_out"}]
      BY <1>1, <1>2 DEF ScoutTypeOK
    <2>2. answer' \in [Scopes -> Answers \cup {"running", "overdue", "late"}]
      BY <1>1 DEF ScoutTypeOK, Answers
    <2>3. tooled' \subseteq Scopes /\ asked' \subseteq Scopes /\ modelOver' \in BOOLEAN
          /\ fanout' \in {"idle", "racing", "settling", "done"}
      BY <1>1 DEF ScoutTypeOK, Pending
    <2> QED
      BY <2>1, <2>2, <2>3 DEF ScoutTypeOK
  <1>4. s \notin Accepted /\ s \in Pending
    BY <1>1 DEF Accepted, Pending
  <1>5. /\ Accepted' = IF Verdict(s) = "accepted" THEN Accepted \cup {s} ELSE Accepted
        /\ Pending' = Pending \ {s}
    BY <1>1, <1>2, <1>3 DEF Accepted, Pending, ScoutTypeOK
  <1>6. \A q \in Scopes : answer'[q] = "candidate" => q \notin tooled'
    BY <1>1, <1>2 DEF QuorumStopsTheRace, ScoutTypeOK
  <1>7. CASE Verdict(s) # "accepted"
    <2>1. AcceptedAreSound'
      <3>1. \A q \in Accepted : q # s /\ answer'[q] = answer[q]
        BY <1>1, <1>4, AcceptedCount DEF ScoutTypeOK
      <3> QED
        BY <1>1, <1>5, <1>7, <3>1 DEF AcceptedAreSound
    <2>2. QuorumStopsTheRace'
      BY <1>1, <1>5, <1>6, <1>7 DEF QuorumStopsTheRace
    <2> QED
      BY <1>3, <2>1, <2>2
  <1>8. CASE Verdict(s) = "accepted"
    <2>1. Cardinality(Accepted') = Cardinality(Accepted) + 1
      BY <1>4, <1>5, <1>8, AcceptedCount, FS_AddElement
    <2>2. Cardinality(Accepted) < Quorum
      <3>1. Cardinality(Accepted) <= Quorum
        BY DEF AcceptedAreSound
      <3>2. Cardinality(Accepted) # Quorum
        BY <1>1, <1>2, <1>4, <1>8 DEF QuorumStopsTheRace
      <3> QED
        BY <3>1, <3>2, AcceptedCount, ScoutConstants
    <2>3. Cardinality(Accepted') <= Quorum
      BY <2>1, <2>2, AcceptedCount, ScoutConstants
    <2>4. \A q \in Accepted' : q \notin asked' /\ q \notin tooled' /\ answer'[q] = "candidate"
      <3>1. \A q \in Accepted : q \notin Pending
        BY DEF Accepted, Pending
      <3>2. answer' = answer /\ tooled' = tooled
        BY <1>1, <1>8 DEF ScoutTypeOK
      <3> QED
        BY <1>1, <1>2, <1>5, <1>8, <3>1, <3>2 DEF AcceptedAreSound, QuorumStopsTheRace
    <2>5. QuorumStopsTheRace'
      BY <1>1, <1>5, <1>6, <1>8, <2>1 DEF QuorumStopsTheRace
    <2> QED
      BY <1>3, <2>3, <2>4, <2>5 DEF AcceptedAreSound
  <1> QED
    BY <1>7, <1>8

LEMMA ScoutStep == ScoutInv /\ ScoutNext => ScoutInv'
  <1> SUFFICES ASSUME ScoutInv, ScoutNext PROVE ScoutInv'
    OBVIOUS
  <1> USE DEF ScoutInv
  <1>1. CASE StartScopes
    <2>1. Accepted' = {}
      BY <1>1 DEF StartScopes, Accepted
    <2>2. ScoutTypeOK'
      BY <1>1 DEF StartScopes, ScoutTypeOK
    <2>3. Cardinality(Accepted') # Quorum /\ AcceptedAreSound'
      BY <2>1, ScoutConstants, FS_EmptySet DEF AcceptedAreSound
    <2> QED
      BY <1>1, <2>2, <2>3 DEF StartScopes, QuorumStopsTheRace
  <1>2. CASE DeadlineWins \/ ModelDeadline
    BY <1>2 DEF DeadlineWins, ModelDeadline, ScoutTypeOK, AcceptedAreSound, QuorumStopsTheRace, Accepted, Pending
  <1>3. CASE SettleScopes
    <2>1. Accepted' = Accepted
      BY <1>3 DEF SettleScopes, Accepted, ScoutTypeOK
    <2>2. ScoutTypeOK'
      BY <1>3 DEF SettleScopes, ScoutTypeOK
    <2> QED
      BY <1>3, <2>1, <2>2 DEF SettleScopes, AcceptedAreSound, QuorumStopsTheRace
  <1>4. ASSUME NEW s \in Scopes, UseTool(s) \/ Overdue(s) \/ ScopeEnds(s)
        PROVE  ScoutInv'
    <2>1. Runs(s) /\ UNCHANGED <<fanout, scope, asked, modelOver>>
      BY <1>4 DEF UseTool, Overdue, ScopeEnds, Runs
    <2>2. Accepted' = Accepted /\ Pending' = Pending /\ s \notin Accepted
      BY <2>1 DEF Accepted, Pending, Runs
    <2>3. ScoutTypeOK'
      BY <1>4 DEF UseTool, Overdue, ScopeEnds, ScoutTypeOK, MayAnswer, Answers
    <2>4. /\ tooled' \in {tooled, tooled \cup {s}}
          /\ answer'[s] = "candidate" => s \notin tooled'
          /\ \A q \in Scopes \ {s} : answer'[q] = answer[q]
      BY <1>4 DEF UseTool, Overdue, ScopeEnds, ScoutTypeOK, MayAnswer, Answers, Runs
    <2>5. AcceptedAreSound' /\ QuorumStopsTheRace'
      BY <2>1, <2>2, <2>4, AcceptedCount DEF AcceptedAreSound, QuorumStopsTheRace
    <2> QED
      BY <2>3, <2>5
  <1> QED
    BY <1>1, <1>2, <1>3, <1>4, HandlingKeepsScoutInv DEF ScoutNext

-----------------------------------------------------------------------------
(* The worktree, the commit and the branch.                                *)

LEMMA TreeUpdates ==
  ASSUME NEW t \in Trees
  PROVE  /\ t.test \in [Scopes -> {"base", "red", "other"}] /\ t.prod \in {"base", "fix", "other"}
         /\ t.stray \in BOOLEAN
         /\ \A p \in {"base", "fix", "other"} : [t EXCEPT !.prod = p] \in Trees
         /\ \A s \in Scopes, v \in {"base", "red", "other"} : [t EXCEPT !.test[s] = v] \in Trees
         /\ [t EXCEPT !.stray = TRUE] \in Trees
         /\ \A s \in Scopes, v \in {"base", "red", "other"}, p \in {"base", "fix", "other"} :
              /\ [t EXCEPT !.test[s] = v, !.prod = p] \in Trees
              /\ \A b \in BOOLEAN : [t EXCEPT !.test[s] = v, !.prod = p, !.stray = b] \in Trees
  BY DEF Trees

LEMMA CommitFields ==
  ASSUME NEW c \in Commits
  PROVE  c.tree \in Trees /\ c.on \in {"base", "child", "other"}
  BY DEF Commits

LEMMA BaseIsCommit == Base \in Trees /\ BaseCommit \in Commits
  <1>1. Base \in Trees
    BY DEF Base, Trees
  <1> QED
    BY <1>1 DEF BaseCommit, Commits

WorkInv == WorkTypeOK /\ InHand /\ VerifiedIsKept

(* After the body nothing of the worktree is kept.                         *)
LEMMA LeavingKeepsWorkInv ==
  ASSUME LeaveWorktree, stage' \in FinalStages \cup {"gone"},
         clock' \in Clocks, failed' \in BOOLEAN, built' \in BOOLEAN
  PROVE  WorkInv'
  <1>1. /\ stage' \notin BodyStages \cup AfterManifest \cup Validated \cup Compared
        /\ stage' \notin {"redGate", "restore"}
    BY DEF FinalStages, BodyStages, AfterManifest, Validated, Compared
  <1>2. WorkTypeOK'
    <2>1. drifts' \in 0 .. MaxDrifts
      BY WorkConstants DEF LeaveWorktree
    <2>2. /\ \A t \in {tree', index', snapshot', manifest'} : t = None
          /\ \A c \in {head', validated', pushed'} : c = None
      BY DEF LeaveWorktree
    <2>3. ranked' \subseteq Scopes /\ chosen' \in Scopes \cup {None} /\ moved' \in BOOLEAN
      BY DEF LeaveWorktree
    <2> QED
      BY <2>1, <2>2, <2>3 DEF WorkTypeOK
  <1>3. InHand' /\ VerifiedIsKept'
    BY <1>1 DEF InHand, VerifiedIsKept, LeaveWorktree, Validated
  <1> QED
    BY <1>2, <1>3 DEF WorkInv

(* A step before the manifest is captured: nothing is verified yet.        *)
LEMMA EarlyKeepsWorkInv ==
  ASSUME WorkInv, stage \in BodyStages, stage \notin AfterManifest,
         stage' \in BodyStages, stage' \notin AfterManifest,
         UNCHANGED <<head, validated, pushed, moved, manifest, drifts, clock, failed, built>>,
         tree' \in Trees, index' \in Trees,
         ranked' \subseteq Scopes, chosen' \in Scopes \cup {None},
         snapshot' = None \/ snapshot' \in Trees,
         stage' \in {"preflight", "gather", "scout", "reproduce"} \/ chosen' \in Scopes,
         stage' \in {"redGate", "restore"} => snapshot' \in Trees
  PROVE  WorkInv'
  <1>1. /\ UNCHANGED <<head, validated, pushed, moved, manifest, drifts, clock, failed, built>>
        /\ WorkTypeOK /\ VerifiedIsKept
    BY DEF WorkInv
  <1>2. WorkTypeOK'
    <2>1. \A c \in {head, validated, pushed} : c = None \/ c \in Commits
      BY <1>1 DEF WorkTypeOK
    <2>2. /\ \A t \in {tree', index', snapshot', manifest'} : t = None \/ t \in Trees
          /\ \A c \in {head', validated', pushed'} : c = None \/ c \in Commits
      BY <1>1, <2>1 DEF WorkTypeOK
    <2>3. /\ clock' \in Clocks /\ drifts' \in 0 .. MaxDrifts
          /\ \A flag \in {moved', failed', built'} : flag \in BOOLEAN
      BY <1>1 DEF WorkTypeOK
    <2> QED
      BY <2>2, <2>3 DEF WorkTypeOK
  <1>3. InHand'
    BY <1>1 DEF InHand, WorkInv
  <1>4. VerifiedIsKept'
    <2>1. Validated \cup Compared \cup {"range", "pullRequest", "readyProof"} \subseteq AfterManifest
      BY DEF AfterManifest, Validated, Compared
    <2>2. pushed = None
      BY <1>1, <2>1 DEF VerifiedIsKept
    <2> QED
      BY <1>1, <2>1, <2>2 DEF VerifiedIsKept
  <1> QED
    BY <1>2, <1>3, <1>4 DEF WorkInv

LEMMA BeforeManifestKeepsWorkInv ==
  ASSUME WorkInv,
         \/ Preflight \/ GatherEvidence \/ RankCandidates \/ Reproduce \/ RedGate \/ Restore \/ SelectPlan
         \/ Implement \/ TargetedPasses \/ TargetedRepair \/ Review \/ ReviewRepair \/ Verify
  PROVE  WorkInv'
  <1> DEFINE early == {"preflight", "gather", "scout", "reproduce", "redGate", "restore", "select", "implement",
                       "targeted", "targetedAgain", "review", "reviewRepair", "verify", "manifest"}
  <1>1. early \subseteq BodyStages /\ early \cap AfterManifest = {}
    BY DEF BodyStages, AfterManifest
  <1>2. stage \in early /\ stage' \in early
    BY DEF Preflight, GatherEvidence, RankCandidates, Reproduce, RedGate, Restore, SelectPlan, Implement,
           TargetedPasses, TargetedRepair, Review, ReviewRepair, Verify, Edits, Passes
  <1>3. tree \in Trees /\ index \in Trees /\ ranked \subseteq Scopes /\ chosen \in Scopes \cup {None}
        /\ (snapshot = None \/ snapshot \in Trees)
        /\ (stage \notin {"preflight", "gather", "scout", "reproduce"} => chosen \in Scopes)
        /\ (stage \in {"redGate", "restore"} => snapshot \in Trees)
    BY <1>1, <1>2 DEF WorkInv, WorkTypeOK, InHand
  <1>4. UNCHANGED <<head, validated, pushed, moved, manifest, drifts, clock, failed, built, index>>
    BY DEF Preflight, GatherEvidence, RankCandidates, Reproduce, RedGate, Restore, SelectPlan, Implement,
           TargetedPasses, TargetedRepair, Review, ReviewRepair, Verify, Edits, Unfailed, contents,
           commits
  <1>5. CASE Preflight
    <2>1. tree' \in Trees
      BY <1>3, <1>5, TreeUpdates DEF Preflight
    <2> QED
      BY <1>1, <1>2, <1>3, <1>4, <1>5, <2>1, EarlyKeepsWorkInv DEF Preflight, Passes
  <1>6. CASE GatherEvidence
    BY <1>1, <1>2, <1>3, <1>4, <1>6, EarlyKeepsWorkInv DEF GatherEvidence, Passes, contents
  <1>7. CASE RankCandidates
    BY <1>1, <1>2, <1>3, <1>4, <1>7, EarlyKeepsWorkInv, AcceptedCount DEF RankCandidates, Passes, contents
  <1>8. CASE Reproduce
    <2>1. PICK c \in Scopes : NextCandidate(c) /\ tree' \in Reproduced(c)
      BY <1>8 DEF Reproduce
    <2>2. tree' \in Trees
      <3>1. tree.prod \in {"base", "fix", "other"}
        BY <1>3, TreeUpdates
      <3>2. PICK v \in {"base", "red", "other"}, p \in {tree.prod, "other"} :
                   tree' = [tree EXCEPT !.test[c] = v, !.prod = p]
        BY <2>1 DEF Reproduced
      <3>3. p \in {"base", "fix", "other"}
        BY <3>1
      <3> QED
        BY <1>3, <3>2, <3>3, TreeUpdates
    <2> QED
      BY <1>1, <1>2, <1>3, <1>4, <1>8, <2>1, <2>2, EarlyKeepsWorkInv DEF Reproduce, Passes, NextCandidate
  <1>9. CASE RedGate \/ SelectPlan \/ TargetedPasses \/ Review \/ Verify
    BY <1>1, <1>2, <1>3, <1>4, <1>9, EarlyKeepsWorkInv
       DEF RedGate, SelectPlan, TargetedPasses, Review, Verify, Passes, contents
  <1>10. CASE Restore
    <2>1. tree' \in Trees
      <3>1. snapshot \in Trees /\ chosen \in Scopes /\ tree' = [tree EXCEPT !.test[chosen] = snapshot.test[chosen]]
        BY <1>3, <1>10 DEF Restore, Passes, PutBack
      <3>2. snapshot.test[chosen] \in {"base", "red", "other"}
        BY <3>1, TreeUpdates
      <3> QED
        BY <1>3, <3>1, <3>2, TreeUpdates
    <2> QED
      BY <1>1, <1>2, <1>3, <1>4, <1>10, <2>1, EarlyKeepsWorkInv DEF Restore, Passes
  <1>11. CASE Implement \/ TargetedRepair \/ ReviewRepair
    <2>1. tree' \in AgentEdits /\ stage \in {"implement", "targeted", "reviewRepair"}
          /\ stage' \notin {"redGate", "restore"} /\ UNCHANGED <<ranked, chosen, snapshot>>
      BY <1>11 DEF Implement, TargetedRepair, ReviewRepair, Edits, Passes
    <2>2. tree' \in Trees
      <3>1. PICK v \in {"base", "red", "other"}, p \in {"base", "fix", "other"}, b \in {tree.stray, TRUE} :
                   tree' = [tree EXCEPT !.test[chosen] = v, !.prod = p, !.stray = b]
        BY <2>1 DEF AgentEdits
      <3>2. b \in BOOLEAN /\ chosen \in Scopes
        BY <1>3, <2>1, TreeUpdates
      <3> QED
        BY <1>3, <3>1, <3>2, TreeUpdates
    <2> QED
      BY <1>1, <1>2, <1>3, <1>4, <2>1, <2>2, EarlyKeepsWorkInv
  <1> QED
    BY <1>5, <1>6, <1>7, <1>8, <1>9, <1>10, <1>11

(* From the manifest to the pull request: every check hands its finding on.*)
LEMMA AfterManifestKeepsWorkInv ==
  ASSUME WorkInv,
         \/ CaptureManifest \/ Stage \/ CheckStaged \/ Commit \/ ValidateCommit \/ CheckContents \/ CheckWorktree
         \/ Push \/ CreatePullRequest
  PROVE  WorkInv'
  <1> USE DEF WorkInv
  <1>1. /\ stage \in BodyStages /\ stage' \in AfterManifest /\ stage' \in BodyStages
        /\ stage' \notin {"preflight", "gather", "scout", "reproduce", "redGate", "restore"}
        /\ stage \notin {"preflight", "gather", "scout", "reproduce", "redGate", "restore"}
    BY DEF CaptureManifest, Stage, CheckStaged, Commit, ValidateCommit, CheckContents, CheckWorktree, Push,
           CreatePullRequest, Passes, BodyStages, AfterManifest
  <1>2. /\ tree \in Trees /\ index \in Trees /\ head \in Commits /\ chosen \in Scopes
        /\ tree' = tree /\ chosen' = chosen /\ ranked' = ranked /\ snapshot' = snapshot
        /\ drifts' = drifts /\ moved' = moved /\ clock' = clock /\ failed' = failed /\ built' = built
    BY <1>1 DEF CaptureManifest, Stage, CheckStaged, Commit, ValidateCommit, CheckContents, CheckWorktree, Push,
                CreatePullRequest, InHand, contents, commits, Unfailed
  <1>3. index' \in Trees
    <2>1. CASE Stage
      <3>1. tree.test[chosen] \in {"base", "red", "other"} /\ tree.prod \in {"base", "fix", "other"}
        BY <1>2, TreeUpdates
      <3> QED
        BY <1>2, <2>1, <3>1, TreeUpdates DEF Stage
    <2> QED
      BY <1>2, <2>1 DEF CaptureManifest, CheckStaged, Commit, ValidateCommit, CheckContents, CheckWorktree, Push,
                        CreatePullRequest, contents
  <1>4. head' \in Commits
    <2>1. CASE Commit
      BY <1>2, <2>1 DEF Commit, Commits
    <2> QED
      BY <1>2, <2>1 DEF CaptureManifest, Stage, CheckStaged, ValidateCommit, CheckContents, CheckWorktree, Push,
                        CreatePullRequest, contents, commits
  <1>5. /\ manifest' = None \/ manifest' \in Trees
        /\ \A c \in {validated', pushed'} : c = None \/ c \in Commits
    BY <1>2 DEF CaptureManifest, Stage, CheckStaged, Commit, ValidateCommit, CheckContents, CheckWorktree, Push,
                CreatePullRequest, WorkTypeOK, contents, commits
  <1>6. WorkTypeOK'
    <2>1. \A t \in {tree', index', snapshot', manifest'} : t = None \/ t \in Trees
      BY <1>2, <1>3, <1>5 DEF WorkTypeOK
    <2>2. \A c \in {head', validated', pushed'} : c = None \/ c \in Commits
      BY <1>4, <1>5
    <2> QED
      BY <1>1, <1>2, <2>1, <2>2 DEF WorkTypeOK
  <1>7. InHand'
    BY <1>1, <1>2, <1>3, <1>4 DEF InHand
  <1>8. VerifiedIsKept'
    <2> USE DEF AfterManifest, Validated, Compared
    <2>1. CASE CaptureManifest
      BY <1>2, <2>1 DEF CaptureManifest, Passes, VerifiedIsKept, TestKept, commits
    <2>2. CASE Stage \/ CheckStaged \/ Commit
      <3>1. /\ stage \in {"preStage", "staged", "commit"} /\ stage' \in {"staged", "commit", "committed"}
            /\ UNCHANGED <<manifest, pushed>>
        BY <2>2 DEF Stage, CheckStaged, Commit, Passes, contents, commits
      <3> QED
        BY <1>2, <3>1 DEF VerifiedIsKept
    <2>3. CASE ValidateCommit
      <3>1. /\ stage = "committed" /\ stage' = "range" /\ UNCHANGED <<manifest, head, pushed>>
            /\ validated' = head /\ head.on = "child" /\ OwnPaths(head.tree, Base)
        BY <2>3 DEF ValidateCommit, Passes
      <3>2. OwnPaths(validated.tree, Base)'
        BY <1>2, <3>1 DEF OwnPaths, ChangedTests
      <3> QED
        BY <1>2, <3>1, <3>2 DEF VerifiedIsKept
    <2>4. ASSUME stage \in Validated, stage' \in Compared, UNCHANGED <<manifest, validated>>,
                 stage = "range" => Unchanged(head.tree),
                 pushed' = pushed \/ pushed' = validated,
                 pushed' # None => stage' \in {"pullRequest", "readyProof"}
          PROVE  VerifiedIsKept'
      <3>1. /\ validated \in Commits /\ validated.on = "child" /\ OwnPaths(validated.tree, Base)
            /\ manifest \in Trees /\ manifest.test[chosen] = "red"
            /\ ~moved => Unchanged(validated.tree)
        BY <2>4 DEF VerifiedIsKept
      <3>2. OwnPaths(validated.tree, Base)'
        BY <1>2, <2>4, <3>1 DEF OwnPaths, ChangedTests
      <3>3. (~moved => Unchanged(validated.tree))'
        BY <1>2, <2>4, <3>1 DEF Unchanged
      <3>4. pushed' # None => pushed' = validated'
        BY <2>4 DEF VerifiedIsKept
      <3> QED
        BY <1>2, <2>4, <3>1, <3>2, <3>3, <3>4 DEF VerifiedIsKept
    <2>5. CASE CheckContents \/ CheckWorktree \/ Push \/ CreatePullRequest
      <3>1. /\ stage \in Validated /\ stage' \in Compared /\ UNCHANGED <<manifest, validated>>
            /\ stage = "range" => Unchanged(head.tree)
            /\ pushed' = pushed \/ pushed' = validated
            /\ (stage' \notin {"pullRequest", "readyProof"}) => pushed' = pushed
            /\ stage' = "readyProof" \/ stage \notin {"pullRequest", "readyProof"}
        BY <2>5 DEF CheckContents, CheckWorktree, Push, CreatePullRequest, Passes, contents, commits
      <3>2. pushed' # None => stage' \in {"pullRequest", "readyProof"}
        BY <3>1 DEF VerifiedIsKept
      <3> QED
        BY <2>4, <3>1, <3>2
    <2> QED
      BY <2>1, <2>2, <2>3, <2>5
  <1> QED
    BY <1>6, <1>7, <1>8

(* A bystander reaches worktree, index and HEAD, never the commit that was *)
(* named or the manifest.                                                  *)
LEMMA DriftKeepsWorkInv ==
  ASSUME WorkInv, Drift
  PROVE  WorkInv'
  <1> USE DEF WorkInv
  <1>1. /\ tree \in Trees /\ index \in Trees /\ head \in Commits /\ moved \in BOOLEAN
        /\ stage \in BodyStages /\ drifts \in 0 .. MaxDrifts /\ drifts < MaxDrifts
    BY DEF Drift, InHand, WorkTypeOK
  <1>2. ASSUME NEW t \in Trees
        PROVE  Touched(t) \subseteq Trees
    <2>1. [t EXCEPT !.prod = "other"] \in Trees /\ [t EXCEPT !.stray = TRUE] \in Trees
      BY TreeUpdates
    <2>2. \A s \in Scopes : [t EXCEPT !.test[s] = "other"] \in Trees
      BY TreeUpdates
    <2> QED
      BY <2>1, <2>2 DEF Touched
  <1>3. ASSUME NEW t \in Trees
        PROVE  [tree : {t}, on : {"child", "other"}] \subseteq Commits
    BY DEF Commits
  <1>4. tree' \in {tree} \cup Touched(tree) /\ index' \in {index, tree} \cup Touched(index)
    BY DEF Drift
  <1>5. /\ tree' \in Trees /\ index' \in Trees /\ head' \in Commits /\ moved' \in BOOLEAN
        /\ head' = head \/ (stage = "range" => moved')
        /\ moved => moved'
    <2>1. tree' \in Trees /\ index' \in Trees
      BY <1>1, <1>2, <1>4
    <2>2. CASE UNCHANGED <<head, moved>>
      BY <1>1, <2>1, <2>2
    <2>3. CASE moved' = (moved \/ stage = "range")
      <3>1. \/ head' \in {head, BaseCommit}
            \/ \E t \in {tree, index} : head' \in [tree : {t}, on : {"child", "other"}]
        BY DEF Drift
      <3>2. head' \in Commits
        BY <1>1, <1>3, <3>1, BaseIsCommit
      <3>3. (moved \/ stage = "range") \in BOOLEAN
        BY <1>1
      <3> QED
        BY <2>1, <2>3, <3>2, <3>3
    <2> QED
      BY <2>2, <2>3 DEF Drift
  <1>6. UNCHANGED <<stage, ranked, chosen, validated, pushed, snapshot, manifest, clock, failed, built>>
        /\ drifts' \in 0 .. MaxDrifts
    BY <1>1, WorkConstants DEF Drift, Unfailed
  <1>7. WorkTypeOK'
    BY <1>5, <1>6 DEF WorkTypeOK
  <1>8. InHand'
    BY <1>5, <1>6 DEF InHand
  <1>9. VerifiedIsKept'
    <2>1. OwnPaths(validated.tree, Base)' <=> OwnPaths(validated.tree, Base)
      BY <1>6 DEF OwnPaths, ChangedTests
    <2>2. Unchanged(validated.tree)' <=> Unchanged(validated.tree)
      BY <1>6 DEF Unchanged
    <2> QED
      BY <1>5, <1>6, <2>1, <2>2 DEF VerifiedIsKept
  <1> QED
    BY <1>7, <1>8, <1>9

(* What the invariant looks at has not changed.                            *)
LEMMA WorkUnchanged ==
  ASSUME WorkInv, UNCHANGED workVars
  PROVE  WorkInv'
  <1>1. UNCHANGED <<stage, clock, ranked, chosen, tree, index, head, validated, pushed, moved, snapshot, manifest,
                    drifts, failed, built>>
    BY DEF workVars, contents, commits
  <1>2. WorkTypeOK' /\ InHand'
    BY <1>1 DEF WorkInv, WorkTypeOK, InHand
  <1>3. VerifiedIsKept'
    BY <1>1 DEF WorkInv, VerifiedIsKept, OwnPaths, ChangedTests, Unchanged
  <1> QED
    BY <1>2, <1>3 DEF WorkInv

LEMMA FinishingKeepsWorkInv ==
  ASSUME WorkInv, stage \in FinalStages, stage' \in FinalStages, clock' \in Clocks,
         UNCHANGED <<ranked, chosen, contents, failed, built>>
  PROVE  WorkInv'
  <1> USE DEF WorkInv
  <1>1. /\ stage' \notin BodyStages \cup AfterManifest \cup Validated \cup Compared
        /\ \A st \in {stage, stage'} : st \notin {"redGate", "restore", "range", "pullRequest", "readyProof"}
    BY DEF FinalStages, BodyStages, AfterManifest, Validated, Compared
  <1>2. WorkTypeOK'
    BY DEF WorkTypeOK, contents, commits
  <1>3. InHand' /\ VerifiedIsKept'
    BY <1>1 DEF InHand, VerifiedIsKept, contents, commits
  <1> QED
    BY <1>2, <1>3

LEMMA BodyKeepsWorkInv ==
  ASSUME WorkInv, BodyStep
  PROVE  WorkInv'
  <1>1. CASE Scouting
    BY <1>1, WorkUnchanged DEF Scouting
  <1>2. CASE BodyFails
    BY <1>2, LeavingKeepsWorkInv DEF BodyFails, FinalStages, WorkInv, WorkTypeOK
  <1>3. CASE ReadyProof
    BY <1>3, LeavingKeepsWorkInv DEF ReadyProof, Passes, FinalStages, WorkInv, WorkTypeOK
  <1> QED
    BY <1>1, <1>2, <1>3, BeforeManifestKeepsWorkInv, AfterManifestKeepsWorkInv DEF BodyStep

(* The finalizer goes on with the same memory, or the process ends.        *)
LEMMA FinalMoves ==
  ASSUME FinalStep \/ ClockMoves \/ WorkerKilled
  PROVE  /\ UNCHANGED <<locks, pc, exit, local, pr, sent>>
         /\ \/ /\ stage \in FinalStages /\ stage' \in FinalStages
               /\ UNCHANGED <<ranked, chosen, contents, failed, built, scoutVars>>
               /\ clock' = clock \/ ClockMoves
            \/ Gone
  <1>1. {"shutdown", "artifacts", "report"} = FinalStages
    BY DEF FinalStages
  <1>2. Gone => UNCHANGED <<locks, pc, exit, local, pr, sent>>
    BY DEF Gone
  <1>3. CASE Shutdown
    BY <1>1, <1>2, <1>3 DEF Shutdown, WorkerLeaves, FinalizerUnchanged
  <1>4. CASE PublishArtifacts
    BY <1>1, <1>2, <1>4 DEF PublishArtifacts, Repeat, FinalizerUnchanged
  <1>5. CASE PublishReport \/ WorkerKilled
    BY <1>2, <1>5 DEF PublishReport, WorkerKilled, WorkerLeaves
  <1>6. CASE ReportFails
    BY <1>1, <1>2, <1>6 DEF ReportFails, WorkerLeaves, Repeat, FinalizerUnchanged
  <1>7. CASE ClockMoves
    BY <1>7 DEF ClockMoves, deliveryVars, local, locks
  <1> QED
    BY <1>3, <1>4, <1>5, <1>6, <1>7 DEF FinalStep

(* Every step of the workflow keeps what ties the tree to the manifest.    *)
LEMMA WorkStep ==
  ASSUME WorkInv, [Next]_systemVars
  PROVE  WorkInv'
  <1>1. CASE FinalStep \/ ClockMoves \/ WorkerKilled
    <2>1. CASE Gone
      BY <2>1, LeavingKeepsWorkInv DEF Gone, Clocks
    <2>2. CASE ~Gone
      <3>1. stage \in FinalStages /\ stage' \in FinalStages
            /\ UNCHANGED <<ranked, chosen, contents, failed, built>>
            /\ (clock' = clock \/ ClockMoves)
        BY <1>1, <2>2, FinalMoves
      <3>2. clock \in Clocks
        BY DEF WorkInv, WorkTypeOK
      <3>3. clock' \in Clocks
        BY <3>1, <3>2 DEF ClockMoves, Clocks
      <3> QED
        BY <3>1, <3>3, FinishingKeepsWorkInv
    <2> QED
      BY <2>1, <2>2
  <1>2. CASE UNCHANGED workVars
    BY <1>2, WorkUnchanged
  <1>3. CASE Delivery \/ UNCHANGED systemVars
    BY <1>2, <1>3 DEF Delivery, systemVars
  <1> QED
    BY <1>1, <1>3, BodyKeepsWorkInv, DriftKeepsWorkInv DEF Next, WorkerStep

-----------------------------------------------------------------------------
(* The scouts, the finalizer's memory and the files.                       *)

LEMMA ScoutUnchanged ==
  ASSUME ScoutInv, UNCHANGED scoutVars
  PROVE  ScoutInv'
  BY DEF scoutVars, ScoutInv, ScoutTypeOK, AcceptedAreSound, QuorumStopsTheRace, Accepted, Pending

LEMMA SystemScoutStep ==
  ASSUME ScoutInv, [Next]_systemVars
  PROVE  ScoutInv'
  <1>1. CASE FinalStep \/ ClockMoves \/ WorkerKilled
    BY <1>1, FinalMoves, ScoutUnchanged, ScoutReset DEF Gone
  <1>2. CASE BodyStep
    <2>1. CASE Scouting
      BY <2>1, ScoutStep DEF Scouting
    <2>2. CASE BodyFails \/ RankCandidates
      BY <2>2, ScoutReset DEF BodyFails, RankCandidates
    <2>3. CASE ~(Scouting \/ BodyFails \/ RankCandidates)
      <3>1. UNCHANGED scoutVars
        BY <1>2, <2>3
           DEF BodyStep, Preflight, GatherEvidence, Reproduce, RedGate, Restore, SelectPlan, Implement, TargetedPasses,
               TargetedRepair, Review, ReviewRepair, Verify, Edits, CaptureManifest, Stage, CheckStaged, Commit,
               ValidateCommit, CheckContents, CheckWorktree, Push, CreatePullRequest, ReadyProof, Unscouted
      <3> QED
        BY <3>1, ScoutUnchanged
    <2> QED
      BY <2>1, <2>2, <2>3
  <1>3. CASE Drift \/ Delivery \/ UNCHANGED systemVars
    <2>1. UNCHANGED scoutVars
      BY <1>3 DEF Drift, Unscouted, Delivery, systemVars
    <2> QED
      BY <2>1, ScoutUnchanged
  <1> QED
    BY <1>1, <1>2, <1>3 DEF Next, WorkerStep

LEMMA FinalTypes ==
  ASSUME FinalTypeOK, [Next]_systemVars
  PROVE  FinalTypeOK'
  <1>1. CASE UNCHANGED finalVars
    BY <1>1 DEF finalVars, FinalTypeOK
  <1>2. Gone => FinalTypeOK'
    BY DEF Gone, FinalTypeOK
  <1>3. EnterFailure => failState' \in BOOLEAN
    BY DEF EnterFailure
  <1>4. CASE Shutdown
    BY <1>2, <1>3, <1>4 DEF Shutdown, WorkerLeaves, FinalTypeOK
  <1>5. CASE PublishArtifacts
    <2>1. CASE Gone
      BY <1>2, <2>1
    <2>2. CASE ~Gone
      BY <1>3, <1>5, <2>2 DEF PublishArtifacts, Repeat, FinalTypeOK
    <2> QED
      BY <2>1, <2>2
  <1>6. CASE PublishReport \/ WorkerKilled
    BY <1>2, <1>6 DEF PublishReport, WorkerKilled, WorkerLeaves
  <1>7. CASE ReportFails
    BY <1>2, <1>3, <1>7 DEF ReportFails, WorkerLeaves, Repeat, FinalTypeOK
  <1> QED
    BY <1>1, <1>4, <1>5, <1>6, <1>7 DEF Next, WorkerStep, FinalStep, ClockMoves, Delivery, systemVars

(* What a worker's step does to the files and to the pull request.         *)
LEMMA WorkerWrites ==
  ASSUME WrittenInOrder, WorkTypeOK,
         BodyStep \/ FinalStep \/ Drift \/ ClockMoves \/ WorkerKilled
  PROVE  /\ UNCHANGED <<locks, pc, exit, local, sent>>
         /\ \/ UNCHANGED <<record, report, pr>>
            \/ pr = None /\ record = None /\ report = None /\ pr' \in OpenPullRequest /\ UNCHANGED files
            \/ pr # None /\ report = None /\ record' = NewRecord /\ UNCHANGED <<report, pr>>
            \/ /\ report = None /\ report' \in Reports /\ (report'.passed => record # None)
               /\ stage' = "gone" /\ UNCHANGED <<record, pr>>
  <1>1. CASE (BodyStep /\ ~CreatePullRequest) \/ Drift
    <2>1. UNCHANGED deliveryVars
      BY <1>1
         DEF BodyStep, Preflight, GatherEvidence, Scouting, RankCandidates, Reproduce, RedGate, Restore, SelectPlan,
             Implement, TargetedPasses, TargetedRepair, Review, ReviewRepair, Verify, Edits, CaptureManifest, Stage,
             CheckStaged, Commit, ValidateCommit, CheckContents, CheckWorktree, Push, ReadyProof, BodyFails, Drift,
             Unscouted
    <2> QED
      BY <2>1 DEF deliveryVars, local, locks
  <1>2. "gone" \notin BodyStages \cup FinalStages
    BY DEF BodyStages, FinalStages
  <1>3. CASE CreatePullRequest
    <2>1. stage \in BodyStages \ {"readyProof"} /\ stage # "gone"
      BY <1>2, <1>3 DEF CreatePullRequest, Passes, BodyStages
    <2> QED
      BY <1>3, <2>1 DEF CreatePullRequest, WrittenInOrder
  <1>4. CASE FinalStep \/ ClockMoves \/ WorkerKilled
    <2>1. UNCHANGED <<locks, pc, exit, local, pr, sent>>
      BY <1>4, FinalMoves
    <2>2. CASE Shutdown \/ ReportFails \/ ClockMoves \/ WorkerKilled
      <3>1. UNCHANGED files
        BY <2>2 DEF Shutdown, ReportFails, WorkerLeaves, ClockMoves, WorkerKilled, deliveryVars, files
      <3> QED
        BY <2>1, <3>1 DEF files
    <2>3. CASE PublishArtifacts
      <3>1. UNCHANGED report /\ stage = "artifacts"
        BY <2>3 DEF PublishArtifacts
      <3>2. report = None
        BY <3>1 DEF WrittenInOrder
      <3>3. record' = record \/ (record' = NewRecord /\ built)
        BY <2>3 DEF PublishArtifacts
      <3> QED
        BY <2>1, <3>1, <3>2, <3>3 DEF WrittenInOrder
    <2>4. CASE PublishReport
      <3>1. report' = [passed |-> Passed, delivery |-> "pending"] /\ UNCHANGED record /\ stage = "report"
            /\ stage' = "gone"
        BY <2>4 DEF PublishReport, Gone
      <3>2. report = None
        BY <3>1 DEF WrittenInOrder
      <3>3. Passed \in BOOLEAN /\ (Passed => record # None)
        BY DEF Passed, Healthy, WrittenInOrder
      <3>4. report' \in Reports /\ report'.passed = Passed
        <4> HIDE DEF Passed
        <4> QED
          BY <3>1, <3>3 DEF Reports, Statuses
      <3> QED
        BY <2>1, <3>1, <3>2, <3>3, <3>4
    <2> QED
      BY <1>4, <2>2, <2>3, <2>4 DEF FinalStep
  <1> QED
    BY <1>1, <1>3, <1>4

MergesOrOthers == (\E r \in Runners : MergeAnswered(r)) \/ OthersAct

(* The continuations only rewrite files that are there.                    *)
LEMMA ContinuationsRewrite ==
  ASSUME MergeInv, DeliveryNext
  PROVE  /\ record # None <=> record' # None
         /\ report # None <=> report' # None
         /\ report # None => report'.passed = report.passed
         /\ pr # None <=> pr' # None
  <1>1. MergeInv' /\ record \in {None} \cup Records /\ report \in {None} \cup Reports
    BY MergeStep, Typed DEF MergeInv
  <1>2. CASE \E r \in Runners : MirrorRecord(r) \/ MirrorVerdict(r) \/ ReplaceRecord(r)
    <2>1. PICK r \in Runners : MirrorRecord(r) \/ MirrorVerdict(r) \/ ReplaceRecord(r)
      BY <1>2
    <2>2. pc[r] \in {"mirror", "mirrorVerdict", "replace"} /\ verdict[r] \in Statuses
          /\ base[r] \in {None} \cup Records /\ pr' = pr
      BY <2>1 DEF MirrorRecord, MirrorVerdict, ReplaceRecord, MergeInv, DeliveryTypeOK, github
    <2>3. record # None /\ report # None /\ report \in Reports
      BY <1>1, <2>2 DEF MergeInv, StartedInOrder, Inside, Asking
    <2>4. report' \in {report, [report EXCEPT !.delivery = verdict[r]]}
      BY <2>1 DEF MirrorRecord, MirrorVerdict, ReplaceRecord
    <2>5. [report EXCEPT !.delivery = verdict[r]] \in Reports
          /\ [report EXCEPT !.delivery = verdict[r]].passed = report.passed
      BY <2>2, <2>3 DEF Reports
    <2>6. report' # None /\ report'.passed = report.passed
      BY <2>3, <2>4, <2>5, DeliveryConstants
    <2>7. record' = record \/ (pc[r] = "replace" /\ record' = MergeAttempt(base[r], verdict[r]))
      BY <2>1 DEF MirrorRecord, MirrorVerdict, ReplaceRecord
    <2>8. pc[r] = "replace" => base[r] \in Records
      BY <2>2 DEF MergeInv, StartedInOrder
    <2>9. record' # None
      BY <2>2, <2>3, <2>7, <2>8, Attempted, DeliveryConstants
    <2> QED
      BY <2>2, <2>3, <2>6, <2>9
  <1>3. CASE MergesOrOthers
    <2>1. UNCHANGED files
      BY <1>3 DEF MergesOrOthers, MergeAnswered, OthersAct
    <2>2. pr # None /\ pr \in PullRequests
      <3>1. sent # {} \/ \E r \in Runners : pc[r] \in Asking
        BY <1>3 DEF MergesOrOthers, MergeAnswered, OthersAct
      <3>2. \A r \in Runners : pc[r] \in Asking => record # None
        BY DEF MergeInv, StartedInOrder, Asking
      <3>3. sent # {} => record # None
        BY DEF MergeInv, StartedInOrder, DeliveryTypeOK
      <3>4. record # None
        BY <3>1, <3>2, <3>3
      <3> QED
        BY <3>4 DEF MergeInv, StartedInOrder, DeliveryTypeOK
    <2>3. pr' \in PullRequests
      BY <1>3, <2>2 DEF MergesOrOthers, MergeAnswered, OthersAct, PullRequests
    <2> QED
      BY <2>1, <2>2, <2>3, DeliveryConstants DEF files
  <1>4. CASE LockAges \/ \E r \in Runners : LockOrLife(r)
    BY <1>1, <1>4, LockOrLifeEffect DEF LockAges, files, github, MergeInv
  <1>5. CASE \E r \in Runners : \/ ReadFiles(r) \/ RereadRecord(r)
         \/ ReadReady(r, "ready", "checks") \/ ReadChecks(r, "checks", "protection")
         \/ ReadProtection(r) \/ ReadChecks(r, "freshChecks", "freshReady")
         \/ ReadReady(r, "freshReady", "merge") \/ SendMerge(r) \/ ConfirmMerge(r)
    BY <1>5 DEF ReadFiles, RereadRecord, ReadReady, ReadChecks, ReadProtection, SendMerge, ConfirmMerge, Ask, files,
                github
  <1> QED
    BY <1>2, <1>3, <1>4, <1>5 DEF DeliveryNext, RunnerStep, LockOrLife, MergesOrOthers

(* A worker's step leaves what the continuations rely on.                  *)
LEMMA WorkerKeepsMergeInv ==
  ASSUME MergeInv, WrittenInOrder, WorkTypeOK,
         BodyStep \/ FinalStep \/ Drift \/ ClockMoves \/ WorkerKilled
  PROVE  MergeInv'
  <1> USE DEF MergeInv
  <1>1. UNCHANGED <<lock, stolen, pc, exit, late, waited, verdict, base, sent>>
    BY WorkerWrites DEF local, locks
  <1>2. CASE UNCHANGED <<record, report, pr>>
    BY <1>1, <1>2 DEF DeliveryTypeOK, StartedInOrder, AskedOfProtected, DeliveredIsMerged, MergeIsSound, Merged
  <1>3. report = None => \A r \in Runners : pc[r] \notin Inside \ {"read"} /\ exit[r] = "none"
    BY DEF StartedInOrder
  <1>4. NewRecord \in Records /\ NewRecord.status = "pending" /\ NewRecord # None
    <2>1. NewRecord \in Records /\ NewRecord.status = "pending"
      BY DEF NewRecord, Records, Statuses
    <2> QED
      BY <2>1, DeliveryConstants
  <1>5. CASE pr = None /\ record = None /\ report = None /\ pr' \in OpenPullRequest /\ UNCHANGED files
    <2>1. pr' \in PullRequests /\ pr'.merged = "no"
      BY <1>5 DEF OpenPullRequest, PullRequests
    <2>2. pr' # None
      BY <2>1, DeliveryConstants
    <2>3. \A r \in Runners : pc[r] = "off" /\ exit[r] = "none" /\ r \notin sent
      BY <1>5 DEF StartedInOrder
    <2>4. DeliveryTypeOK'
      BY <1>1, <1>5, <2>1 DEF DeliveryTypeOK, files
    <2>5. StartedInOrder' /\ AskedOfProtected' /\ MergeIsSound'
      BY <1>1, <1>5, <2>1, <2>2, <2>3 DEF StartedInOrder, AskedOfProtected, MergeIsSound, files, Inside, Asking
    <2>6. DeliveredIsMerged'
      BY <1>1, <1>5 DEF DeliveredIsMerged, Merged
    <2> QED
      BY <2>4, <2>5, <2>6
  <1>6. CASE pr # None /\ report = None /\ record' = NewRecord /\ UNCHANGED <<report, pr>>
    <2>1. DeliveryTypeOK'
      BY <1>1, <1>4, <1>6 DEF DeliveryTypeOK
    <2>2. StartedInOrder' /\ AskedOfProtected'
      BY <1>1, <1>3, <1>4, <1>6 DEF StartedInOrder, AskedOfProtected
    <2>3. DeliveredIsMerged' /\ MergeIsSound'
      BY <1>1, <1>3, <1>4, <1>6 DEF DeliveredIsMerged, MergeIsSound, Merged
    <2> QED
      BY <2>1, <2>2, <2>3
  <1>7. CASE report = None /\ report' \in Reports /\ UNCHANGED <<record, pr>>
    <2>1. DeliveryTypeOK'
      BY <1>1, <1>7 DEF DeliveryTypeOK
    <2>2. StartedInOrder' /\ AskedOfProtected'
      BY <1>1, <1>3, <1>7 DEF StartedInOrder, AskedOfProtected
    <2>3. DeliveredIsMerged' /\ MergeIsSound'
      BY <1>1, <1>7 DEF DeliveredIsMerged, MergeIsSound, Merged
    <2> QED
      BY <2>1, <2>2, <2>3
  <1> QED
    BY <1>2, <1>5, <1>6, <1>7, WorkerWrites

(* The order in which things come to exist is kept by everyone.            *)
LEMMA WrittenStep ==
  ASSUME MergeInv, WrittenInOrder, WorkTypeOK, [Next]_systemVars
  PROVE  WrittenInOrder'
  <1> USE DEF WrittenInOrder
  <1>1. "gone" \notin BodyStages \cup FinalStages /\ BodyStages \cap FinalStages = {}
        /\ "readyProof" \in BodyStages /\ {"shutdown", "artifacts", "report"} = FinalStages
    BY DEF BodyStages, FinalStages
  <1>2. CASE Delivery
    <2>1. UNCHANGED <<stage, built, published>> /\ DeliveryNext
      BY <1>2 DEF Delivery, workVars, finalVars
    <2>2. /\ record # None <=> record' # None
          /\ report # None <=> report' # None
          /\ report # None => report'.passed = report.passed
          /\ pr # None <=> pr' # None
      BY <2>1, ContinuationsRewrite
    <2> QED
      BY <2>1, <2>2 DEF PassedReportIsBacked
  <1>3. CASE UNCHANGED <<stage, built, published, record, report, pr>>
    BY <1>3 DEF PassedReportIsBacked
  <1>4. CASE (Drift /\ UNCHANGED finalVars) \/ UNCHANGED systemVars
    BY <1>3, <1>4 DEF Drift, Unfailed, Unscouted, finalVars, systemVars, workVars, deliveryVars
  <1>5. CASE BodyStep /\ UNCHANGED finalVars
    <2>1. stage \in BodyStages /\ published' = published
      BY <1>5, <1>1
         DEF BodyStep, Preflight, GatherEvidence, Scouting, RankCandidates, Reproduce, RedGate, Restore, SelectPlan,
             Implement, TargetedPasses, TargetedRepair, Review, ReviewRepair, Verify, Edits, CaptureManifest, Stage,
             CheckStaged, Commit, ValidateCommit, CheckContents, CheckWorktree, Push, ReadyProof, BodyFails,
             CreatePullRequest, Passes, BodyStages, finalVars
    <2>2. record = None /\ report = None /\ ~built /\ ~published
      BY <1>1, <2>1
    <2>3. CASE ReadyProof
      BY <1>1, <2>1, <2>2, <2>3 DEF ReadyProof, Passes, Unscouted, deliveryVars, PassedReportIsBacked
    <2>4. CASE BodyFails
      BY <1>1, <2>1, <2>2, <2>4 DEF BodyFails, deliveryVars, PassedReportIsBacked
    <2>5. CASE CreatePullRequest
      <3>1. pr' \in PullRequests
        BY <2>5 DEF CreatePullRequest, OpenPullRequest, PullRequests
      <3> QED
        BY <1>1, <2>1, <2>2, <2>5, <3>1, DeliveryConstants
           DEF CreatePullRequest, Passes, files, Unfailed, PassedReportIsBacked
    <2>6. CASE BodyStep /\ ~ReadyProof /\ ~BodyFails /\ ~CreatePullRequest
      <3>1. stage # "readyProof" /\ stage' \in BodyStages \ {"readyProof"}
        BY <2>6
           DEF BodyStep, Preflight, GatherEvidence, Scouting, RankCandidates, Reproduce, RedGate, Restore, SelectPlan,
               Implement, TargetedPasses, TargetedRepair, Review, ReviewRepair, Verify, Edits, CaptureManifest, Stage,
               CheckStaged, Commit, ValidateCommit, CheckContents, CheckWorktree, Push, Passes, BodyStages, workVars
      <3>2. UNCHANGED <<built, record, report, pr>>
        BY <2>6
           DEF BodyStep, Preflight, GatherEvidence, Scouting, RankCandidates, Reproduce, RedGate, Restore, SelectPlan,
               Implement, TargetedPasses, TargetedRepair, Review, ReviewRepair, Verify, Edits, CaptureManifest, Stage,
               CheckStaged, Commit, ValidateCommit, CheckContents, CheckWorktree, Push, Unfailed, Unscouted, workVars,
               deliveryVars
      <3> QED
        BY <1>1, <2>1, <2>2, <3>1, <3>2 DEF PassedReportIsBacked
    <2> QED
      BY <1>5, <2>3, <2>4, <2>5, <2>6
  <1>6. CASE FinalStep \/ ClockMoves \/ WorkerKilled
    <2>1. UNCHANGED pr /\ (Gone \/ (stage \in FinalStages /\ stage' \in FinalStages /\ UNCHANGED built))
      BY <1>6, FinalMoves
    <2>2. Gone => stage' = "gone" /\ built' = FALSE /\ published' = FALSE
      BY DEF Gone
    <2>3. NewRecord # None
      <3>1. NewRecord \in Records
        BY DEF NewRecord, Records, Statuses
      <3> QED
        BY <3>1, DeliveryConstants
    <2>4. /\ \/ UNCHANGED <<record, report>>
             \/ report = None /\ record' = NewRecord /\ UNCHANGED report
             \/ stage' = "gone" /\ (report'.passed => record # None) /\ UNCHANGED record
      BY <1>6, <2>1, WorkerWrites DEF OpenPullRequest, files
    <2>5. ~Gone => (published' => published \/ record' = NewRecord)
      BY <1>6
         DEF FinalStep, Shutdown, PublishArtifacts, PublishReport, ReportFails, ClockMoves, WorkerKilled, WorkerLeaves,
             finalVars
    <2>6. report # None => stage' = "gone"
      BY <1>1, <2>1, <2>2
    <2>7. PassedReportIsBacked'
      BY <2>3, <2>4, <2>6 DEF PassedReportIsBacked
    <2>8. record # None => record' # None
      BY <2>3, <2>4
    <2>9. /\ built' => pr' # None
          /\ published' => record' # None
      BY <2>1, <2>2, <2>3, <2>5, <2>8
    <2>10. stage' \notin BodyStages /\ (report' # None => stage' = "gone")
      BY <1>1, <2>1, <2>2, <2>4, <2>6
    <2> QED
      BY <1>1, <2>7, <2>9, <2>10
  <1> QED
    BY <1>2, <1>4, <1>5, <1>6 DEF Next, WorkerStep

-----------------------------------------------------------------------------
(* The whole system.                                                       *)

LEMMA SystemInitial == Init => SystemInv
  <1> SUFFICES ASSUME Init PROVE SystemInv
    OBVIOUS
  <1> USE DEF Init, WorkInit, FinalInit, ScoutInit, ProcessesInit
  <1>1. Base \in Trees /\ BaseCommit \in Commits
    BY BaseIsCommit
  <1>2. WorkTypeOK
    <2>1. stage \in BodyStages /\ clock \in Clocks /\ drifts \in 0 .. MaxDrifts
      BY WorkConstants DEF BodyStages, Clocks
    <2> QED
      BY <1>1, <2>1 DEF WorkTypeOK
  <1>3. FinalTypeOK
    BY DEF FinalTypeOK
  <1>4. ScoutInv
    <2>1. Accepted = {}
      BY DEF Accepted
    <2>2. AcceptedAreSound
      BY <2>1, ScoutConstants, FS_EmptySet DEF AcceptedAreSound
    <2> QED
      BY <2>2 DEF ScoutInv, ScoutTypeOK, QuorumStopsTheRace, Answers
  <1>5. InHand /\ VerifiedIsKept
    BY <1>1 DEF InHand, VerifiedIsKept, AfterManifest, Validated, Compared
  <1>6. WrittenInOrder
    BY DEF WrittenInOrder, PassedReportIsBacked
  <1>7. MergeInv
    <2>1. DeliveryTypeOK
      BY DEF DeliveryTypeOK, Statuses
    <2> QED
      BY <2>1 DEF MergeInv, StartedInOrder, AskedOfProtected, DeliveredIsMerged, MergeIsSound, Inside, Asking
  <1> QED
    BY <1>2, <1>3, <1>4, <1>5, <1>6, <1>7 DEF SystemInv, WorkerInv

(* Every step of the workflow keeps the invariant.                         *)
LEMMA SystemStep == SystemInv /\ [Next]_systemVars => SystemInv'
  <1> SUFFICES ASSUME SystemInv, [Next]_systemVars PROVE SystemInv'
    OBVIOUS
  <1> USE DEF SystemInv, WorkerInv
  <1>1. WorkInv'
    BY WorkStep DEF WorkInv
  <1>2. ScoutInv' /\ FinalTypeOK' /\ WrittenInOrder'
    BY SystemScoutStep, FinalTypes, WrittenStep
  <1>3. MergeInv'
    <2>1. CASE Delivery \/ UNCHANGED systemVars
      BY <2>1, MergeStep DEF Delivery, systemVars
    <2>2. CASE ~(Delivery \/ UNCHANGED systemVars)
      BY <2>2, WorkerKeepsMergeInv DEF Next, WorkerStep
    <2> QED
      BY <2>1, <2>2
  <1> QED
    BY <1>1, <1>2, <1>3 DEF WorkInv

(* What was pushed is what was verified, read off the invariant.           *)
LEMMA PushedFollows == SystemInv => PushedIsVerified
  BY DEF SystemInv, WorkerInv, VerifiedIsKept, PushedIsVerified, AfterManifest, Validated, Compared, Unchanged

(* Every variable of the workflow keeps its type, whatever the sizes of    *)
(* its pools.                                                              *)
THEOREM ImprovementTypeCorrect == Spec => []TypeOK
  <1>1. SystemInv => TypeOK
    BY DEF SystemInv, WorkerInv, ScoutInv, MergeInv, TypeOK
  <1> QED
    BY <1>1, SystemInitial, SystemStep, PTL DEF Spec

(* For every set of scopes and every quorum: no more candidates than asked *)
(* for, each in time, without a tool, and never from a cancelled scope.    *)
THEOREM ImprovementScoutsAreSound == Spec => []AcceptedAreSound
  <1>1. SystemInv => AcceptedAreSound
    BY DEF SystemInv, WorkerInv, ScoutInv
  <1> QED
    BY <1>1, SystemInitial, SystemStep, PTL DEF Spec

(* However often a bystander changes worktree, index or HEAD: origin has a *)
(* commit on top of the base that changes the candidate's paths alone, and *)
(* its contents are those that passed the full gate unless HEAD was moved  *)
(* between the two looks the run takes at its commit.                      *)
THEOREM ImprovementPushesWhatWasVerified == Spec => []PushedIsVerified
  BY PushedFollows, SystemInitial, SystemStep, PTL DEF Spec

(* Wherever the worker fails, runs out of time or is killed: a report that *)
(* says passed comes last, and the record it stands for is there.          *)
THEOREM ImprovementReportIsBacked == Spec => []PassedReportIsBacked
  <1>1. SystemInv => PassedReportIsBacked
    BY DEF SystemInv, WorkerInv, WrittenInOrder
  <1> QED
    BY <1>1, SystemInitial, SystemStep, PTL DEF Spec

(* The same of the whole system as DeliveryMergeIsSound says of the        *)
(* continuations alone, while the worker is still publishing the record.   *)
THEOREM ImprovementMergeIsSound == Spec => []MergeIsSound
  <1>1. SystemInv => MergeIsSound
    BY DEF SystemInv, MergeInv
  <1> QED
    BY <1>1, SystemInitial, SystemStep, PTL DEF Spec

-----------------------------------------------------------------------------
(* The lock, while the run that is continued is still being finalized.     *)

RecordedInv == SystemInv /\ AloneInv

LEMMA RecordedInitial == Init => RecordedInv
  <1> SUFFICES ASSUME Init PROVE RecordedInv
    OBVIOUS
  <1>1. LockInv /\ FilesAsRead /\ AttemptsRecorded
    BY DEF Init, ProcessesInit, LockInv, FilesAsRead, AttemptsRecorded, Acquiring, Inside, Asking
  <1> QED
    BY <1>1, SystemInitial DEF RecordedInv, AloneInv, SystemInv

(* Every step keeps every attempt on record, while no lock is stolen.      *)
LEMMA RecordedStep == RecordedInv /\ [Next]_systemVars => RecordedInv'
  <1> SUFFICES ASSUME RecordedInv, [Next]_systemVars PROVE RecordedInv'
    OBVIOUS
  <1>1. SystemInv' /\ MergeInv'
    BY SystemStep DEF RecordedInv, SystemInv
  <1>2. CASE Delivery \/ UNCHANGED systemVars
    BY <1>1, <1>2, AloneStep DEF RecordedInv, Delivery, systemVars
  <1>3. CASE ~(Delivery \/ UNCHANGED systemVars)
    <2>1. /\ UNCHANGED <<lock, stolen, pc, exit, local, sent>>
          /\ \/ UNCHANGED <<record, report>>
             \/ report = None /\ UNCHANGED record
             \/ report = None /\ record' = NewRecord
      BY <1>3, WorkerWrites DEF Next, WorkerStep, RecordedInv, SystemInv, WorkerInv, files, locks
    <2>2. report = None => \A r \in Runners : pc[r] \notin Inside \ {"read"} /\ exit[r] = "none"
      BY DEF RecordedInv, SystemInv, MergeInv, StartedInOrder
    <2>3. LockInv'
      BY <2>1 DEF RecordedInv, AloneInv, LockInv, HeldByNobody
    <2>4. FilesAsRead'
      <3>1. {"mirror", "mirrorVerdict", "reread", "replace"} \cup Asking \subseteq Inside \ {"read"}
        BY DEF Inside, Asking
      <3>2. CASE UNCHANGED <<record, report>>
        BY <2>1, <3>2 DEF RecordedInv, AloneInv, FilesAsRead, local
      <3>3. CASE report = None
        BY <2>1, <2>2, <3>1, <3>3 DEF FilesAsRead
      <3> QED
        BY <2>1, <3>2, <3>3
    <2>5. AttemptsRecorded'
      <3>1. CASE UNCHANGED record
        BY <2>1, <3>1 DEF RecordedInv, AloneInv, AttemptsRecorded
      <3>2. CASE report = None /\ record' = NewRecord
        <4>1. record' \in Records /\ \A r \in Runners : exit'[r] = "none"
          BY <2>1, <2>2, <3>2 DEF NewRecord, Records, Statuses
        <4>2. Cardinality({r \in Runners : exit'[r] = "pending"})
                 <= Cardinality({i \in DOMAIN record'.attempts : record'.attempts[i] = "pending"})
          BY <4>1, NoAttemptsYet
        <4> QED
          BY <4>1, <4>2 DEF AttemptsRecorded, Terminal
      <3> QED
        BY <2>1, <3>1, <3>2
    <2> QED
      BY <1>1, <2>3, <2>4, <2>5 DEF RecordedInv, AloneInv
  <1> QED
    BY <1>2, <1>3

(* Of any number of continuations that contend and crash wherever they     *)
(* are, while the worker is still writing too: one holder, until a rename  *)
(* takes another lock than the one it had judged stale.                    *)
THEOREM ImprovementOneHolder == Spec => []OneHolder
  <1>1. RecordedInv => OneHolder
    BY OneInside DEF RecordedInv, AloneInv, MergeInv
  <1> QED
    BY <1>1, RecordedInitial, RecordedStep, PTL DEF Spec

(* Every pending exit of a continuation is an attempt in the record, and a *)
(* terminal one is the record's status, until a lock is stolen.            *)
THEOREM ImprovementAttemptsRecorded == Spec => []AttemptsRecorded
  <1>1. RecordedInv => AttemptsRecorded
    BY DEF RecordedInv, AloneInv
  <1> QED
    BY <1>1, RecordedInitial, RecordedStep, PTL DEF Spec

(* A continuation that leaves with a verdict before any lock is stolen     *)
(* leaves report and record agreed, whatever the ones before it left.      *)
THEOREM ImprovementReportRepaired == Spec => ReportRepaired
  <1>1. RecordedInv /\ [Next]_systemVars =>
          [\A r \in Runners :
             (~stolen /\ pc[r] \in Inside /\ pc'[r] = "unlock" /\ exit'[r] \in Statuses)
                => report'.delivery = record'.status]_deliveryVars
    <2> SUFFICES ASSUME RecordedInv, [Next]_systemVars, ~stolen,
                        NEW r \in Runners, pc[r] \in Inside, pc'[r] = "unlock", exit'[r] \in Statuses
                 PROVE  report'.delivery = record'.status
      OBVIOUS
    <2>1. pc' # pc
      BY DEF Inside, Asking
    <2>2. [DeliveryNext]_deliveryVars
      <3>1. ~(BodyStep \/ FinalStep \/ Drift \/ ClockMoves \/ WorkerKilled)
        BY <2>1, WorkerWrites DEF RecordedInv, SystemInv, WorkerInv
      <3> QED
        BY <3>1 DEF Next, WorkerStep, Delivery, systemVars
    <2> QED
      BY <2>2, RepairStep DEF RecordedInv, AloneInv, MergeInv
  <1> QED
    BY <1>1, RecordedInitial, RecordedStep, PTL DEF Spec, ReportRepaired
=============================================================================
