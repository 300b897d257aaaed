----------------------- MODULE KubernetesRunProofs -------------------------
(***************************************************************************)
(* The ownership guarantees of KubernetesRun, for all names, for every     *)
(* lesson and every number of runs and of steps other actors take.         *)
(*                                                                         *)
(* KubeInv adds two facts to the types.  The server never names a UID it   *)
(* has not given out (ServerKeepsUids), and the executor's position points *)
(* into its receipts while it deletes (PositionInReceipts).  Together with *)
(* OwnsOnlyItsOwn they are inductive: a receipt is written only from the   *)
(* answer to a create, or from an object that carries the run's nonce, and *)
(* what a UID stands for never changes.                                    *)
(*                                                                         *)
(* CleanupInv follows every object of the newest run to the place where    *)
(* its finally will look for it: under a name still to be reconciled, or   *)
(* under a receipt still to be cleaned up. MadeInv follows the receipts of *)
(* its documents, and with both runs implement the abstract OwnedObjects.  *)
(***************************************************************************)
EXTENDS KubernetesRun, TLAPS

ServerKeepsUids ==
  \A t \in Target : object[t].uid \in 0 .. Len(creator) /\ (object[t].uid = 0 => object[t] = NoObject)

PositionInReceipts ==
  /\ phase = "cleaning" => at \in 0 .. Len(owned)
  /\ phase \in {"deleting", "waiting"} => at \in 1 .. Len(owned)

PositionInNames ==
  /\ phase = "checking" => at \in 1 .. Len(Checked)
  /\ phase = "creating" => at \in 1 .. Len(Documents)
  /\ phase = "reconciling" => at \in 1 .. Len(intended) + 1
  /\ phase \in {"probing", "verifying"} => Probe \in Target

KubeInv ==
  KubeTypeOK /\ ServerKeepsUids /\ PositionInReceipts /\ PositionInNames /\ OwnsOnlyItsOwn

\* Committing an object gives it a UID of its own and keeps what every other
\* UID stands for: every receipt still names an object of its run.
LEMMA CommitKeeps ==
  ASSUME KubeInv, NEW t \in Target, NEW n \in Nat, Commit(t, n)
  PROVE  /\ object' \in [Target -> [uid : Nat, dying : BOOLEAN]]
         /\ creator' \in Seq(Nat)
         /\ Len(creator') = Len(creator) + 1
         /\ creator'[Len(creator) + 1] = n
         /\ \A u \in DOMAIN creator : u \in DOMAIN creator' /\ creator'[u] = creator[u]
         /\ ServerKeepsUids'
<1>1. creator \in Seq(Nat) /\ object \in [Target -> [uid : Nat, dying : BOOLEAN]]
  BY DEF KubeInv, KubeTypeOK
<1>2. /\ creator' = Append(creator, n)
      /\ object' = [object EXCEPT ![t] = [uid |-> Len(creator) + 1, dying |-> FALSE]]
  BY DEF Commit
<1>3. Len(creator) \in Nat
  BY <1>1
<1>4. /\ creator' \in Seq(Nat)
      /\ Len(creator') = Len(creator) + 1
      /\ creator'[Len(creator) + 1] = n
      /\ \A u \in DOMAIN creator : u \in DOMAIN creator' /\ creator'[u] = creator[u]
  BY <1>1, <1>2
<1>5. object' \in [Target -> [uid : Nat, dying : BOOLEAN]]
  BY <1>1, <1>2, <1>3
<1>6. ServerKeepsUids'
  <2> SUFFICES ASSUME NEW s \in Target
               PROVE  /\ object'[s].uid \in 0 .. Len(creator')
                      /\ object'[s].uid = 0 => object'[s] = NoObject
    BY DEF ServerKeepsUids
  <2>1. CASE s = t
    BY <2>1, <1>1, <1>2, <1>3, <1>4
  <2>2. CASE s # t
    BY <2>2, <1>1, <1>2, <1>3, <1>4 DEF KubeInv, ServerKeepsUids
  <2> QED
    BY <2>1, <2>2
<1> QED
  BY <1>4, <1>5, <1>6

\* An object keeps its UID while it dies, and a name that becomes free has
\* none: the server still names only UIDs it has given out.
LEMMA RemovalKeeps ==
  ASSUME KubeInv, NEW t \in Target, UNCHANGED creator,
         \/ object' = [object EXCEPT ![t] = NoObject]
         \/ Exists(t) /\ object' = [object EXCEPT ![t].dying = TRUE]
  PROVE  object' \in [Target -> [uid : Nat, dying : BOOLEAN]] /\ ServerKeepsUids'
<1>1. /\ creator \in Seq(Nat)
      /\ object \in [Target -> [uid : Nat, dying : BOOLEAN]]
      /\ ServerKeepsUids
  BY DEF KubeInv, KubeTypeOK
<1>2. Len(creator) \in Nat
  BY <1>1
<1>3. CASE object' = [object EXCEPT ![t] = NoObject]
  BY <1>1, <1>2, <1>3 DEF NoObject, ServerKeepsUids
<1>4. CASE Exists(t) /\ object' = [object EXCEPT ![t].dying = TRUE]
  BY <1>1, <1>2, <1>4 DEF Exists, NoObject, ServerKeepsUids
<1> QED
  BY <1>3, <1>4

\* What the executor's control changes together: the phase it goes to, and the
\* position it starts there.
LEMMA StopKeeps ==
  ASSUME KubeInv, NEW status \in {"succeeded", "failed", "cancelled", "timed_out"},
         Stop(status), intended' \in Seq(Target)
  PROVE  /\ phase' = "reconciling" /\ at' = 1
         /\ verdict' \in {"succeeded", "failed", "cancelled", "timed_out"}
         /\ overdue' \in BOOLEAN /\ cancel' \in BOOLEAN /\ cleanupOk' \in BOOLEAN
         /\ result' = result
         /\ PositionInReceipts' /\ PositionInNames'
<1>1. Len(intended') \in Nat
  OBVIOUS
<1>2. phase' = "reconciling" /\ at' = 1 /\ verdict' = status /\ result' = result
  BY DEF Stop
<1>3. overdue' \in BOOLEAN
  BY DEF Stop
<1>4. cancel' \in BOOLEAN /\ cleanupOk' \in BOOLEAN
  BY DEF Stop, KubeInv, KubeTypeOK
<1>5. PositionInReceipts' /\ PositionInNames'
  BY <1>1, <1>2 DEF PositionInReceipts, PositionInNames
<1> QED BY <1>2, <1>3, <1>4, <1>5

LEMMA AdvanceKeeps ==
  ASSUME KubeInv, NEW s \in Seq(Target), s # << >>, NEW following \in WorkPhases,
         at \in 1 .. Len(s), Advance(s, following)
  PROVE  /\ at' \in Nat
         /\ \/ phase' = phase /\ at' \in 1 .. Len(s)
            \/ phase' = following /\ at' = 1
BY DEF Advance, KubeInv, KubeTypeOK

LEMMA InitInv == Init => KubeInv
<1> SUFFICES ASSUME Init PROVE KubeInv
  OBVIOUS
<1>1. creator \in Seq(Nat) /\ intended \in Seq(Target) /\ owned \in Seq(Entry)
  BY DEF Init
<1>2. /\ NoObject \in [uid : Nat, dying : BOOLEAN]
      /\ \A t \in Target : object[t] = NoObject
  BY DEF Init, NoObject
<1>3. KubeTypeOK
  <2>1. cancel \in BOOLEAN /\ overdue \in BOOLEAN /\ cleanupOk \in BOOLEAN
    BY DEF Init
  <2>2. object \in [Target -> [uid : Nat, dying : BOOLEAN]]
    BY <1>2 DEF Init
  <2>3. outside \in 0 .. MaxOutside
    BY KubernetesAssumption DEF Init
  <2> QED BY <1>1, <2>1, <2>2, <2>3 DEF Init, KubeTypeOK
<1>4. ServerKeepsUids
  <2>1. NoObject.uid = 0 /\ Len(creator) = 0
    BY DEF NoObject, Init
  <2>2. \A t \in Target : object[t].uid = 0
    BY <1>2, <2>1
  <2>3. 0 \in 0 .. Len(creator)
    BY <2>1
  <2> QED BY <1>2, <2>2, <2>3, Zenon DEF ServerKeepsUids
<1>5. OwnsOnlyItsOwn
  BY DEF Init, OwnsOnlyItsOwn
<1> QED BY <1>3, <1>4, <1>5 DEF Init, KubeInv, PositionInReceipts, PositionInNames

\* Steps that leave the server alone: the documents are read, never written.
LEMMA ReadingKeeps ==
  ASSUME KubeInv,
         \/ CheckFree \/ ObserveReady \/ VerifyComplete \/ ReconcileFails \/ ReconcileEnds
         \/ CleanupLooks \/ WaitEnds \/ Report \/ CancelArrives \/ DeadlinePasses
         \/ \E status \in Interruptions \cup {"failed"} : WorkStops(status)
         \/ \E cause \in {"deadline", "call"} : CleanupFails(cause)
  PROVE  KubeInv'
<1> USE DEF KubeInv
<1>1. /\ KubeTypeOK
      /\ Checked \in Seq(Target) /\ Documents \in Seq(Target) /\ Checked # << >>
      /\ Documents # << >> /\ Len(Documents) \in Nat \ {0} /\ Len(intended) \in Nat
      /\ Len(owned) \in Nat
  BY KubernetesAssumption DEF KubeTypeOK
<1>2. UNCHANGED <<serverVars, run, intended, owned>>
  BY DEF CheckFree, ObserveReady, VerifyComplete, ReconcileFails, ReconcileEnds, CleanupLooks,
         WaitEnds, Report, CancelArrives, DeadlinePasses, WorkStops, CleanupFails, recordVars
<1>3. ServerKeepsUids' /\ OwnsOnlyItsOwn'
  BY <1>2 DEF serverVars, ServerKeepsUids, OwnsOnlyItsOwn, CreatedBy
<1>4. CASE CheckFree
  <2>1. at \in 1 .. Len(Checked) /\ "creating" \in WorkPhases
    BY <1>4 DEF CheckFree, PositionInNames, WorkPhases
  <2>2. \/ phase' = "checking" /\ at' \in 1 .. Len(Checked)
        \/ phase' = "creating" /\ at' = 1
    BY <1>1, <1>4, <2>1, AdvanceKeeps DEF CheckFree
  <2>3. KubeTypeOK'
    BY SMTT(30), <1>1, <1>2, <1>4, <2>2
       DEF CheckFree, KubeTypeOK, serverVars, recordVars, clockVars, reportVars, WorkPhases
  <2> QED BY <1>1, <1>3, <2>2, <2>3 DEF PositionInReceipts, PositionInNames
<1>5. ASSUME NEW status \in {"succeeded", "failed", "cancelled", "timed_out"}, Stop(status)
      PROVE  KubeInv'
  <2>1. KubeTypeOK'
    BY <1>1, <1>2, <1>5, StopKeeps DEF KubeTypeOK, serverVars, CleanupPhases, Stop
  <2>2. intended' \in Seq(Target)
    BY <1>1, <1>2 DEF KubeTypeOK
  <2>3. PositionInReceipts' /\ PositionInNames'
    BY <1>5, <2>2, StopKeeps
  <2> QED BY <1>3, <2>1, <2>3
<1>6. CASE ObserveReady
  <2>1. CASE Probe = NoTarget
    BY <1>5, <1>6, <2>1 DEF ObserveReady
  <2>2. CASE Probe # NoTarget
    <3>1. /\ phase' = "probing" /\ UNCHANGED <<at, clockVars, reportVars>>
          /\ Probe \in Target
      BY <1>6, <2>2, KubernetesAssumption DEF ObserveReady
    <3>2. KubeTypeOK'
      BY <1>1, <1>2, <3>1 DEF KubeTypeOK, serverVars, clockVars, reportVars, WorkPhases
    <3> QED BY <1>3, <3>1, <3>2 DEF PositionInReceipts, PositionInNames
  <2> QED BY <2>1, <2>2
<1>7. CASE VerifyComplete
  BY <1>5, <1>7 DEF VerifyComplete
<1>8. CASE \E status \in Interruptions \cup {"failed"} : WorkStops(status)
  BY <1>5, <1>8 DEF WorkStops, Interruptions
<1>9. CASE ReconcileFails
  <2>1. at' \in 1 .. Len(intended) + 1 /\ phase' = "reconciling"
    BY <1>1, <1>9 DEF ReconcileFails, PositionInNames
  <2>2. KubeTypeOK'
    <3>1. cleanupOk' \in BOOLEAN
      BY <1>9 DEF ReconcileFails
    <3>2. at' \in Nat
      BY <1>1, <2>1
    <3> QED BY <1>1, <1>2, <1>9, <3>1, <3>2
            DEF ReconcileFails, KubeTypeOK, serverVars, clockVars
  <2> QED BY <1>2, <1>3, <2>1, <2>2 DEF PositionInReceipts, PositionInNames
<1>10. CASE ReconcileEnds
  <2>1. KubeTypeOK'
    BY <1>1, <1>2, <1>10
       DEF ReconcileEnds, KubeTypeOK, serverVars, clockVars, reportVars, CleanupPhases
  <2> QED BY <1>1, <1>2, <1>3, <1>10, <2>1 DEF ReconcileEnds, PositionInReceipts, PositionInNames
<1>11. ASSUME phase \in {"cleaning", "waiting"}, at > 0, NextObject, cleanupOk' \in BOOLEAN,
              UNCHANGED <<clockVars, verdict, result>>
       PROVE  KubeInv'
  <2>1. phase' = "cleaning" /\ at' \in 0 .. Len(owned)
    BY <1>1, <1>11 DEF NextObject, PositionInReceipts
  <2>2. KubeTypeOK'
    BY <1>1, <1>2, <1>11, <2>1 DEF KubeTypeOK, serverVars, clockVars, CleanupPhases
  <2> QED BY <1>2, <1>3, <2>1, <2>2 DEF PositionInReceipts, PositionInNames
<1>12. CASE CleanupLooks
  <2>1. CASE phase' = "deleting" /\ UNCHANGED <<at, cleanupOk>>
    <3>1. KubeTypeOK'
      BY <1>1, <1>2, <1>12, <2>1 DEF CleanupLooks, KubeTypeOK, serverVars, clockVars, CleanupPhases
    <3> QED BY <1>1, <1>2, <1>3, <1>12, <2>1, <3>1
            DEF CleanupLooks, PositionInReceipts, PositionInNames
  <2>2. CASE NextObject /\ cleanupOk' \in BOOLEAN
    BY <1>1, <1>11, <1>12, <2>2 DEF CleanupLooks
  <2> QED BY <1>1, <1>12, <2>1, <2>2 DEF CleanupLooks, KubeTypeOK
<1>13. CASE WaitEnds
  <2>1. cleanupOk' \in BOOLEAN /\ at > 0
    BY <1>1, <1>13 DEF WaitEnds, KubeTypeOK, PositionInReceipts
  <2> QED BY <1>11, <1>13, <2>1 DEF WaitEnds
<1>14. CASE \E cause \in {"deadline", "call"} : CleanupFails(cause)
  BY <1>11, <1>14 DEF CleanupFails
<1>15. CASE Report
  <2>1. KubeTypeOK'
    BY <1>1, <1>2, <1>15 DEF Report, KubeTypeOK, serverVars, clockVars
  <2> QED BY <1>3, <1>15, <2>1 DEF Report, PositionInReceipts, PositionInNames
<1>16. CASE CancelArrives \/ DeadlinePasses
  <2>1. KubeTypeOK'
    BY <1>1, <1>2, <1>16 DEF CancelArrives, DeadlinePasses, KubeTypeOK, serverVars, reportVars
  <2> QED BY <1>2, <1>3, <1>16, <2>1
          DEF CancelArrives, DeadlinePasses, PositionInReceipts, PositionInNames
<1> QED BY <1>4, <1>6, <1>7, <1>8, <1>9, <1>10, <1>12, <1>13, <1>14, <1>15, <1>16

\* The steps of a create: what the run holds afterwards it created.
LEMMA CreatingKeeps ==
  ASSUME KubeInv,
         \/ CreateConfirmed
         \/ \E status \in Interruptions \cup {"failed"} : CreateUnconfirmed(status)
  PROVE  KubeInv'
<1> USE DEF KubeInv
<1> DEFINE t == Creating
<1>1. /\ KubeTypeOK
      /\ Documents \in Seq(Target) /\ Documents # << >>
      /\ run \in Nat
  BY KubernetesAssumption DEF KubeTypeOK
<1>2. t \in Target
  <2>1. CASE phase = "creating"
    BY <1>1, <2>1 DEF PositionInNames, Creating
  <2>2. CASE phase = "probing"
    BY <2>2 DEF PositionInNames, Creating
  <2> QED BY <2>1, <2>2 DEF CreateConfirmed, CreateUnconfirmed
<1>3. intended' \in Seq(Target)
  <2>1. intended' = Append(intended, t)
    BY Zenon DEF CreateConfirmed, CreateUnconfirmed
  <2> HIDE DEF t
  <2> QED BY <1>1, <1>2, <2>1 DEF KubeTypeOK
<1> HIDE DEF t
<1>4. CASE CreateConfirmed
  <2>1. /\ object' \in [Target -> [uid : Nat, dying : BOOLEAN]]
        /\ creator' \in Seq(Nat)
        /\ Len(creator') = Len(creator) + 1
        /\ creator'[Len(creator) + 1] = run
        /\ \A u \in DOMAIN creator : u \in DOMAIN creator' /\ creator'[u] = creator[u]
        /\ ServerKeepsUids'
    <3>1. Commit(t, run)
      BY <1>4 DEF CreateConfirmed, t
    <3> QED BY <1>1, <1>2, <3>1, CommitKeeps
  <2> DEFINE e == [name |-> t, uid |-> Len(creator) + 1]
  <2>2. Len(creator) \in Nat /\ e \in Entry
    BY <1>1, <1>2 DEF KubeTypeOK, Entry
  <2>3. owned' = Append(owned, e)
    BY <1>4 DEF CreateConfirmed, t
  <2>4. owned \in Seq(Entry)
    BY <1>1 DEF KubeTypeOK
  <2>5. /\ owned' \in Seq(Entry)
        /\ \A i \in DOMAIN owned' :
             \/ i \in DOMAIN owned /\ owned'[i] = owned[i]
             \/ owned'[i] = e
    <3> HIDE DEF e
    <3> QED BY <2>2, <2>3, <2>4
  <2>6. OwnsOnlyItsOwn'
    <3>1. run' = run
      BY <1>4 DEF CreateConfirmed
    <3>2. Len(creator) + 1 \in DOMAIN creator'
      BY <2>1, <2>2
    <3>3. e.uid = Len(creator) + 1
      OBVIOUS
    <3> HIDE DEF e
    <3>4. ASSUME NEW i \in DOMAIN owned'
          PROVE  owned'[i].uid \in DOMAIN creator' /\ creator'[owned'[i].uid] = run
      <4>1. CASE owned'[i] = e
        BY <2>1, <3>2, <3>3, <4>1
      <4>2. CASE i \in DOMAIN owned /\ owned'[i] = owned[i]
        BY <2>1, <4>2 DEF OwnsOnlyItsOwn, CreatedBy
      <4> QED BY <2>5, <4>1, <4>2
    <3> QED BY <3>1, <3>4 DEF OwnsOnlyItsOwn, CreatedBy
  <2>7. /\ at' \in Nat
        /\ \/ phase' = "creating" /\ at' \in 1 .. Len(Documents)
           \/ phase' \in {"observing", "verifying"} /\ at' = 1
        /\ phase' = "verifying" => Probe \in Target
    <3>1. CASE phase = "creating"
      <4>1. Advance(Documents, "observing") /\ "observing" \in WorkPhases
        BY <1>4, <3>1 DEF CreateConfirmed, WorkPhases
      <4>2. at \in 1 .. Len(Documents)
        BY <3>1 DEF PositionInNames
      <4> QED BY <1>1, <3>1, <4>1, <4>2, AdvanceKeeps
    <3>2. CASE phase = "probing"
      BY <1>4, <3>2 DEF CreateConfirmed, PositionInNames
    <3> QED BY <1>4, <3>1, <3>2 DEF CreateConfirmed
  <2>8. KubeTypeOK'
    BY <1>1, <1>3, <1>4, <2>1, <2>5, <2>7
       DEF CreateConfirmed, KubeTypeOK, clockVars, reportVars, WorkPhases
  <2> QED BY <2>1, <2>6, <2>7, <2>8 DEF PositionInReceipts, PositionInNames
<1>5. CASE \E status \in Interruptions \cup {"failed"} : CreateUnconfirmed(status)
  <2>1. PICK status \in Interruptions \cup {"failed"} : CreateUnconfirmed(status)
    BY <1>5
  <2>2. /\ Stop(status)
        /\ UNCHANGED <<late, outside, run, owned>>
        /\ \/ UNCHANGED <<object, creator, flight>>
           \/ Commit(t, run) /\ UNCHANGED flight
           \/ flight' = flight \cup {<<t, run>>} /\ UNCHANGED <<object, creator>>
    BY <2>1 DEF CreateUnconfirmed, t
  <2>3. status \in {"succeeded", "failed", "cancelled", "timed_out"}
    BY DEF Interruptions
  <2>4. /\ object' \in [Target -> [uid : Nat, dying : BOOLEAN]]
        /\ creator' \in Seq(Nat)
        /\ \A u \in DOMAIN creator : u \in DOMAIN creator' /\ creator'[u] = creator[u]
        /\ ServerKeepsUids'
    <3>1. CASE UNCHANGED <<object, creator>>
      BY <1>1, <3>1 DEF KubeTypeOK, ServerKeepsUids
    <3>2. CASE Commit(t, run)
      BY <1>1, <1>2, <3>2, CommitKeeps
    <3> QED BY <2>2, <3>1, <3>2
  <2>5. flight' \subseteq Target \X Nat
    BY <1>1, <1>2, <2>2 DEF KubeTypeOK
  <2>6. OwnsOnlyItsOwn'
    BY <2>2, <2>4 DEF OwnsOnlyItsOwn, CreatedBy
  <2>7. KubeTypeOK'
    <3>1. /\ phase' = "reconciling" /\ at' = 1 /\ result' = result
          /\ verdict' \in {"succeeded", "failed", "cancelled", "timed_out"}
          /\ overdue' \in BOOLEAN /\ cancel' \in BOOLEAN /\ cleanupOk' \in BOOLEAN
      BY <1>3, <2>2, <2>3, StopKeeps
    <3>2. late' = late /\ outside' = outside /\ run' = run /\ owned' = owned
      BY <2>2
    <3> QED BY <1>1, <1>3, <2>4, <2>5, <3>1, <3>2 DEF KubeTypeOK, CleanupPhases
  <2>8. PositionInReceipts' /\ PositionInNames'
    BY <1>3, <2>2, <2>3, StopKeeps
  <2> QED BY <2>4, <2>6, <2>7, <2>8
<1> QED BY <1>4, <1>5

\* Reconciliation takes over only what carries the run's nonce.
LEMMA ReconcileKeeps ==
  ASSUME KubeInv, Reconcile
  PROVE  KubeInv'
<1> USE DEF KubeInv
<1> DEFINE t == intended[at]
           e == [name |-> t, uid |-> object[t].uid]
<1>1. /\ KubeTypeOK
      /\ at \in 1 .. Len(intended) /\ Len(intended) \in Nat
      /\ intended \in Seq(Target)
  BY DEF KubeTypeOK, Reconcile, PositionInNames
<1>2. t \in Target
  BY <1>1
<1>3. /\ owned' = IF ~Confirmed(t) /\ OfRun(t, run) THEN Append(owned, e) ELSE owned
      /\ UNCHANGED <<serverVars, run, phase, intended, clockVars, verdict, result>>
      /\ phase = "reconciling" /\ at' = at + 1
  BY DEF Reconcile
<1>4. cleanupOk' \in BOOLEAN
  BY DEF Reconcile
<1>5. e \in Entry /\ e.uid = object[t].uid
  BY <1>1, <1>2 DEF KubeTypeOK, Entry
<1>6. OfRun(t, run) => object[t].uid \in DOMAIN creator /\ creator[object[t].uid] = run
  BY <1>1, <1>2 DEF KubeTypeOK, ServerKeepsUids, OfRun, Exists, CreatedBy
<1> HIDE DEF t, e
<1>7. CASE ~Confirmed(t) /\ OfRun(t, run)
  <2>1. /\ owned' \in Seq(Entry)
        /\ \A i \in DOMAIN owned' :
             \/ i \in DOMAIN owned /\ owned'[i] = owned[i]
             \/ owned'[i] = e
    <3>1. owned' = Append(owned, e) /\ owned \in Seq(Entry)
      BY <1>1, <1>3, <1>7 DEF KubeTypeOK
    <3> QED BY <1>5, <3>1
  <2>2. creator' = creator /\ run' = run
    BY <1>3 DEF serverVars
  <2>3. OwnsOnlyItsOwn'
    BY <1>5, <1>6, <1>7, <2>1, <2>2 DEF OwnsOnlyItsOwn, CreatedBy
  <2>4. KubeTypeOK'
    BY <1>1, <1>3, <1>4, <2>1 DEF KubeTypeOK, serverVars, clockVars
  <2> QED BY <1>1, <1>3, <2>3, <2>4
          DEF serverVars, ServerKeepsUids, PositionInReceipts, PositionInNames
<1>8. CASE ~(~Confirmed(t) /\ OfRun(t, run))
  <2>1. owned' = owned
    BY <1>3, <1>8
  <2>2. OwnsOnlyItsOwn'
    BY <1>3, <2>1 DEF serverVars, OwnsOnlyItsOwn, CreatedBy
  <2>3. KubeTypeOK'
    BY <1>1, <1>3, <1>4, <2>1 DEF KubeTypeOK, serverVars, clockVars
  <2> QED BY <1>1, <1>3, <2>2, <2>3
          DEF serverVars, ServerKeepsUids, PositionInReceipts, PositionInNames
<1> QED BY <1>7, <1>8

\* A deletion the server accepts marks one object the run has a receipt for.
LEMMA DeletionIsOwned ==
  ASSUME KubeInv, Delete \/ DeleteFails, NEW s \in Target, object'[s] # object[s]
  PROVE  OfRun(s, run) /\ s = owned[at].name
<1> USE DEF KubeInv
<1>1. /\ KubeTypeOK /\ Len(owned) \in Nat
      /\ at \in 1 .. Len(owned)
      /\ at \in DOMAIN owned
  BY DEF KubeTypeOK, Delete, DeleteFails, PositionInReceipts
<1>2. /\ Unchanged(owned[at])
      /\ object' = [object EXCEPT ![owned[at].name].dying = TRUE]
  BY DEF Delete, DeleteFails
<1>3. s = owned[at].name
  BY <1>1, <1>2 DEF KubeTypeOK
<1>4. owned[at].uid \in DOMAIN creator /\ creator[owned[at].uid] = run
  BY <1>1 DEF OwnsOnlyItsOwn, CreatedBy
<1>5. object[s].uid # 0
  BY <1>1, <1>2, <1>3, <1>4 DEF KubeTypeOK, Unchanged
<1>6. Exists(s)
  BY <1>5 DEF Exists, NoObject
<1> QED BY <1>2, <1>3, <1>4, <1>6 DEF OfRun, Unchanged, CreatedBy

LEMMA DeletingKeeps ==
  ASSUME KubeInv, Delete \/ DeleteFails
  PROVE  KubeInv'
<1> USE DEF KubeInv
<1>1. /\ KubeTypeOK /\ Len(owned) \in Nat /\ at \in 1 .. Len(owned)
      /\ owned \in Seq(Entry)
  BY DEF KubeTypeOK, Delete, DeleteFails, PositionInReceipts
<1>2. /\ UNCHANGED <<creator, flight, late, outside, run, recordVars, clockVars, verdict,
                     result>>
      /\ \/ UNCHANGED object
         \/ /\ Unchanged(owned[at])
            /\ object' = [object EXCEPT ![owned[at].name].dying = TRUE]
  BY DEF Delete, DeleteFails, reportVars
<1>3. cleanupOk' \in BOOLEAN
  BY <1>1 DEF KubeTypeOK, Delete, DeleteFails, reportVars
<1>4. \/ phase' = "waiting" /\ at' = at
      \/ phase' = "cleaning" /\ at' \in 0 .. Len(owned)
  BY <1>1 DEF Delete, DeleteFails, NextObject
<1>5. object' \in [Target -> [uid : Nat, dying : BOOLEAN]] /\ ServerKeepsUids'
  <2>1. CASE UNCHANGED object
    BY <1>1, <1>2, <2>1 DEF KubeTypeOK, ServerKeepsUids
  <2>2. CASE /\ Unchanged(owned[at])
             /\ object' = [object EXCEPT ![owned[at].name].dying = TRUE]
    <3>1. owned[at].name \in Target /\ owned[at].uid \in Nat \ {0}
      <4>1. at \in DOMAIN owned /\ owned[at] \in Entry
        BY <1>1
      <4>2. owned[at].uid \in DOMAIN creator /\ DOMAIN creator = 1 .. Len(creator)
        BY <1>1, <4>1 DEF KubeTypeOK, OwnsOnlyItsOwn
      <4>3. owned[at].name \in Target /\ owned[at].uid \in Nat
        BY <4>1 DEF Entry
      <4> QED BY <4>2, <4>3
    <3>2. Exists(owned[at].name)
      BY <2>2, <3>1 DEF Unchanged, Exists, NoObject
    <3> QED BY <1>2, <2>2, <3>1, <3>2, RemovalKeeps
  <2> QED BY <1>2, <2>1, <2>2
<1>6. OwnsOnlyItsOwn'
  BY <1>2 DEF recordVars, OwnsOnlyItsOwn, CreatedBy
<1>7. KubeTypeOK'
  BY <1>1, <1>2, <1>3, <1>4, <1>5 DEF KubeTypeOK, recordVars, clockVars, CleanupPhases
<1> QED BY <1>1, <1>2, <1>4, <1>5, <1>6, <1>7
        DEF recordVars, PositionInReceipts, PositionInNames

\* The server's own steps and other actors' change no receipt.
LEMMA ServerKeeps ==
  ASSUME KubeInv, LateCommit \/ \E t \in Target : Vanish(t) \/ OutsideStep(t)
  PROVE  KubeInv'
<1> USE DEF KubeInv
<1>1. KubeTypeOK
  OBVIOUS
<1>2. UNCHANGED <<run, phase, at, intended, owned, cancel, overdue, verdict, cleanupOk, result>>
  BY DEF LateCommit, Vanish, OutsideStep, recordVars, clockVars, reportVars
<1> DEFINE Kept == /\ object' \in [Target -> [uid : Nat, dying : BOOLEAN]]
                   /\ creator' \in Seq(Nat)
                   /\ \A u \in DOMAIN creator : u \in DOMAIN creator' /\ creator'[u] = creator[u]
                   /\ ServerKeepsUids'
<1>3. Kept
  <2>1. CASE UNCHANGED <<object, creator>>
    BY <1>1, <2>1 DEF KubeTypeOK, ServerKeepsUids
  <2>2. ASSUME NEW t \in Target, NEW n \in Nat, Commit(t, n) PROVE Kept
    BY <2>2, CommitKeeps
  <2>3. ASSUME NEW t \in Target, object' = [object EXCEPT ![t] = NoObject], UNCHANGED creator
        PROVE  Kept
    BY <1>1, <2>3, RemovalKeeps DEF KubeTypeOK
  <2>4. CASE LateCommit
    <3>1. PICK c \in flight : \/ Commit(c[1], c[2])
                              \/ UNCHANGED <<object, creator>>
      BY <2>4 DEF LateCommit
    <3>2. c[1] \in Target /\ c[2] \in Nat
      BY <1>1 DEF KubeTypeOK
    <3> QED BY <2>1, <2>2, <3>1, <3>2
  <2>5. CASE \E t \in Target : Vanish(t)
    BY <2>3, <2>5 DEF Vanish
  <2>6. CASE \E t \in Target : OutsideStep(t)
    BY <2>2, <2>3, <2>6 DEF OutsideStep
  <2> QED BY <2>4, <2>5, <2>6
<1>4. OwnsOnlyItsOwn'
  BY <1>2, <1>3 DEF OwnsOnlyItsOwn, CreatedBy
<1>5. flight' \subseteq Target \X Nat /\ late' \subseteq Nat /\ outside' \in 0 .. MaxOutside
  <2>1. CASE LateCommit
    <3>1. PICK c \in flight : /\ flight' = flight \ {c}
                              /\ late' \in {late, late \cup {c[2]}}
      BY <2>1 DEF LateCommit
    <3>2. c[2] \in Nat
      BY <1>1 DEF KubeTypeOK
    <3>3. outside' = outside
      BY <2>1 DEF LateCommit
    <3> QED BY <1>1, <3>1, <3>2, <3>3 DEF KubeTypeOK
  <2>2. CASE \E t \in Target : Vanish(t) \/ OutsideStep(t)
    <3>1. flight' = flight /\ late' = late
      BY <2>2 DEF Vanish, OutsideStep
    <3>2. outside' = outside \/ (outside > 0 /\ outside' = outside - 1)
      BY <2>2 DEF Vanish, OutsideStep
    <3> QED BY SMTT(30), <1>1, <3>1, <3>2, KubernetesAssumption DEF KubeTypeOK
  <2> QED BY <2>1, <2>2
<1>6. KubeTypeOK'
  BY <1>1, <1>2, <1>3, <1>5 DEF KubeTypeOK
<1> QED BY <1>2, <1>3, <1>4, <1>6 DEF PositionInReceipts, PositionInNames

LEMMA BeginKeeps ==
  ASSUME KubeInv, Begin
  PROVE  KubeInv'
<1> USE DEF KubeInv
<1>1. KubeTypeOK /\ Checked \in Seq(Target) /\ Checked # << >> /\ Len(Checked) \in Nat \ {0}
  BY KubernetesAssumption
<1>2. /\ owned' = << >> /\ intended' = << >> /\ phase' = "checking" /\ at' = 1
      /\ run' = run + 1 /\ UNCHANGED serverVars
  BY DEF Begin
<1>3. owned' \in Seq(Entry) /\ intended' \in Seq(Target) /\ DOMAIN owned' = {}
  BY <1>2
<1>4. cancel' \in BOOLEAN /\ overdue' \in BOOLEAN /\ cleanupOk' \in BOOLEAN
  BY DEF Begin
<1>5. KubeTypeOK'
  <2>1. verdict' = "failed" /\ result' = "none"
    BY DEF Begin
  <2> QED BY <1>1, <1>2, <1>3, <1>4, <2>1 DEF KubeTypeOK, serverVars, WorkPhases
<1> QED BY <1>1, <1>2, <1>3, <1>5
        DEF serverVars, ServerKeepsUids, PositionInReceipts, PositionInNames, OwnsOnlyItsOwn

LEMMA DyingKeeps ==
  ASSUME KubeInv, WorkerDies
  PROVE  KubeInv'
<1> USE DEF KubeInv
<1>1. KubeTypeOK /\ Documents \in Seq(Target)
  BY KubernetesAssumption
<1>2. /\ phase' = "idle" /\ result' = "none"
      /\ UNCHANGED <<object, creator, late, outside, run, at, recordVars, clockVars, verdict>>
  BY DEF WorkerDies
<1>3. flight' \subseteq Target \X Nat
  <2>1. phase \in {"creating", "probing"} => Creating \in Target
    BY <1>1 DEF PositionInNames, Creating
  <2>2. run \in Nat
    BY <1>1 DEF KubeTypeOK
  <2> QED BY <1>1, <2>1, <2>2 DEF KubeTypeOK, WorkerDies
<1>4. cleanupOk' \in BOOLEAN
  BY DEF WorkerDies
<1>5. KubeTypeOK'
  BY <1>1, <1>2, <1>3, <1>4 DEF KubeTypeOK, recordVars, clockVars
<1> QED BY <1>2, <1>5
        DEF recordVars, ServerKeepsUids, PositionInReceipts, PositionInNames, OwnsOnlyItsOwn,
            CreatedBy

LEMMA StepKeepsInv == KubeInv /\ [Next]_vars => KubeInv'
<1> SUFFICES ASSUME KubeInv, [Next]_vars PROVE KubeInv'
  OBVIOUS
<1>1. CASE UNCHANGED vars
  BY <1>1
     DEF vars, serverVars, recordVars, clockVars, reportVars, KubeInv, KubeTypeOK,
         ServerKeepsUids, PositionInReceipts, PositionInNames, OwnsOnlyItsOwn, CreatedBy
<1>2. CASE Begin
  BY <1>2, BeginKeeps
<1>3. CASE Progress \/ Failure
  BY <1>3, ReadingKeeps, CreatingKeeps, ReconcileKeeps, DeletingKeeps DEF Progress, Failure
<1>4. CASE CancelArrives \/ DeadlinePasses
  BY <1>4, ReadingKeeps
<1>5. CASE WorkerDies
  BY <1>5, DyingKeeps
<1>6. CASE LateCommit \/ \E t \in Target : Vanish(t) \/ OutsideStep(t)
  BY <1>6, ServerKeeps
<1> QED BY <1>1, <1>2, <1>3, <1>4, <1>5, <1>6 DEF Next

THEOREM KubernetesInvariant == Spec => []KubeInv
BY InitInv, StepKeepsInv, PTL DEF Spec

\* The types of the executor's and the server's state hold in every run.
THEOREM KubernetesTypeCorrect == Spec => []KubeTypeOK
<1>1. KubeInv => KubeTypeOK
  BY DEF KubeInv
<1> QED BY <1>1, KubernetesInvariant, PTL

\* kubernetes_executor never adopts an old or a foreign object: whatever it
\* has a receipt for, it created in this run.
THEOREM ReceiptsAreOwn == Spec => []OwnsOnlyItsOwn
<1>1. KubeInv => OwnsOnlyItsOwn
  BY DEF KubeInv
<1> QED BY <1>1, KubernetesInvariant, PTL

\* KubectlClient.cleanup never deletes a replacement or an unrelated object.
THEOREM DeletionsAreOwn == Spec => DeletesOnlyItsOwn
<1>1. KubeInv =>
        [\A t \in Target : (Delete \/ DeleteFails) /\ object'[t] # object[t] =>
           OfRun(t, run)]_vars
  BY DeletionIsOwned
<1> QED BY <1>1, KubernetesInvariant, PTL DEF DeletesOnlyItsOwn

-----------------------------------------------------------------------------
(* What a run leaves behind.                                               *)

\* Run numbers are nonces: nothing carries the number of a run to come.
NumbersInv ==
  /\ \A u \in DOMAIN creator : creator[u] <= run
  /\ \A c \in flight : c[2] <= run
  /\ \A n \in late : n <= run
  /\ phase # "idle" \/ result # "none" => run # 0
  /\ result # "none" => phase = "idle"

\* Where the finally still has to look for an object of the run under name t.
StillToDo(t) ==
  \/ phase \in WorkPhases \cup {"reconciling"} /\ Confirmed(t)
  \/ phase = "reconciling" /\ \E i \in DOMAIN intended : i >= at /\ intended[i] = t
  \/ phase \in {"cleaning", "deleting", "waiting"}
       /\ \E i \in DOMAIN owned : i <= at /\ owned[i].name = t

\* Unless something failed, whatever exists of the run will be looked at.
NothingForgotten ==
  (phase # "idle" \/ result # "none") /\ cleanupOk /\ run \notin late =>
    \A t \in Target : OfRun(t, run) => StillToDo(t)

AllConfirmed ==
  \/ phase \in WorkPhases
  \/ phase \in CleanupPhases /\ verdict = "succeeded"
  \/ result = "succeeded"

\* While every create of the run has been confirmed, none of them is on its way.
NothingUnderWay ==
  /\ AllConfirmed => run \notin late /\ \A t \in Target : <<t, run>> \notin flight
  /\ result = "succeeded" => cleanupOk

CleanupInv == NumbersInv /\ NothingForgotten /\ NothingUnderWay

LEMMA PhasesDiffer ==
  /\ "idle" \notin WorkPhases \cup CleanupPhases
  /\ WorkPhases \cap CleanupPhases = {}
  BY DEF WorkPhases, CleanupPhases

LEMMA InitCleanup == Init => CleanupInv
  BY PhasesDiffer
     DEF Init, CleanupInv, NumbersInv, NothingForgotten, NothingUnderWay, AllConfirmed

\* An object that appears is the one a create has committed.
LEMMA CommittedObject ==
  ASSUME KubeInv, NEW t \in Target, NEW n \in Nat, Commit(t, n), NEW s \in Target, NEW r \in Nat,
         OfRun(s, r)'
  PROVE  OfRun(s, r) \/ (s = t /\ n = r)
<1>1. /\ object \in [Target -> [uid : Nat, dying : BOOLEAN]]
      /\ creator' = Append(creator, n) /\ creator \in Seq(Nat) /\ Len(creator) \in Nat
      /\ object' = [object EXCEPT ![t] = [uid |-> Len(creator) + 1, dying |-> FALSE]]
  BY DEF KubeInv, KubeTypeOK, Commit
<1>2. object'[s] # NoObject /\ creator'[object'[s].uid] = r
  BY DEF OfRun, Exists, CreatedBy
<1>3. CASE s = t
  BY <1>1, <1>2, <1>3
<1>4. CASE s # t
  <2>1. object'[s] = object[s] /\ object[s].uid \in 1 .. Len(creator)
    BY <1>1, <1>2, <1>4 DEF KubeInv, ServerKeepsUids
  <2> QED BY <1>1, <1>2, <2>1 DEF OfRun, Exists, CreatedBy
<1> QED BY <1>3, <1>4

\* Nothing appears when objects are removed or marked for deletion.
LEMMA RemovedObject ==
  ASSUME KubeInv, NEW t \in Target, UNCHANGED creator,
         \/ UNCHANGED object
         \/ object' = [object EXCEPT ![t] = NoObject]
         \/ Exists(t) /\ object' = [object EXCEPT ![t].dying = TRUE],
         NEW s \in Target, NEW r \in Nat, OfRun(s, r)'
  PROVE  OfRun(s, r)
<1>1. object \in [Target -> [uid : Nat, dying : BOOLEAN]]
  BY DEF KubeInv, KubeTypeOK
<1>2. object'[s] # NoObject /\ creator[object'[s].uid] = r
  BY DEF OfRun, Exists, CreatedBy
<1>3. object[s] # NoObject /\ object'[s].uid = object[s].uid
  BY <1>1, <1>2 DEF Exists
<1> QED BY <1>2, <1>3 DEF OfRun, Exists, CreatedBy

\* What the server accepts carries a number already used.
LEMMA CommittedNumber ==
  ASSUME KubeInv, NumbersInv, NEW t \in Target, NEW n \in Nat, n <= run, Commit(t, n), run' = run
  PROVE  \A u \in DOMAIN creator' : creator'[u] <= run'
<1>1. creator \in Seq(Nat) /\ creator' = Append(creator, n)
  BY DEF KubeInv, KubeTypeOK, Commit
<1>2. \A u \in DOMAIN creator' :
        (u \in DOMAIN creator /\ creator'[u] = creator[u]) \/ creator'[u] = n
  BY <1>1
<1> QED BY <1>2 DEF NumbersInv

\* What a client of the run that creates something may do to the server.
LEMMA CreatesOf ==
  ASSUME KubeInv,
         \/ CreateConfirmed
         \/ \E status \in Interruptions \cup {"failed"} : CreateUnconfirmed(status)
  PROVE  /\ Creating \in Target
         /\ UNCHANGED <<late, run, cancel, result, cleanupOk>> /\ result' = result
         /\ phase \in {"creating", "probing"}
         /\ intended' = Append(intended, Creating)
         /\ \/ UNCHANGED <<object, creator>>
               /\ (flight' = flight \/ flight' = flight \cup {<<Creating, run>>})
            \/ Commit(Creating, run) /\ flight' = flight
<1>1. Documents \in Seq(Target)
  BY KubernetesAssumption
<1>2. phase \in {"creating", "probing"}
  BY DEF CreateConfirmed, CreateUnconfirmed
<1>3. Creating \in Target
  BY <1>1, <1>2 DEF Creating, KubeInv, PositionInNames
<1>4. UNCHANGED <<late, run, cancel, result, cleanupOk>>
  BY DEF CreateConfirmed, CreateUnconfirmed, clockVars, reportVars, Stop
<1>5. /\ intended' = Append(intended, Creating)
      /\ \/ UNCHANGED <<object, creator>>
            /\ (flight' = flight \/ flight' = flight \cup {<<Creating, run>>})
         \/ Commit(Creating, run) /\ flight' = flight
  BY Zenon DEF CreateConfirmed, CreateUnconfirmed
<1> QED BY <1>2, <1>3, <1>4, <1>5

\* Steps of the run that only read: they end with the same server and records.
Reads ==
  \/ CheckFree \/ ObserveReady \/ VerifyComplete \/ ReconcileFails \/ ReconcileEnds
  \/ CleanupLooks \/ WaitEnds \/ Report \/ CancelArrives \/ DeadlinePasses
  \/ \E status \in Interruptions \cup {"failed"} : WorkStops(status)
  \/ \E cause \in {"deadline", "call"} : CleanupFails(cause)

LEMMA ReadsOnly ==
  ASSUME KubeInv, Reads
  PROVE  /\ UNCHANGED <<object, creator, flight, late, run, intended, owned>>
         /\ phase # "idle"
         /\ result' = result \/ (Report /\ phase' = "idle")
  BY DEF Reads, CheckFree, ObserveReady, VerifyComplete, ReconcileFails, ReconcileEnds,
         CleanupLooks, WaitEnds, Report, CancelArrives, DeadlinePasses, WorkStops,
         CleanupFails, Stop, serverVars, recordVars, reportVars

LEMMA SameServer ==
  ASSUME UNCHANGED <<object, creator>>
  PROVE  \A s \in Target, r \in Nat : OfRun(s, r)' <=> OfRun(s, r)
  BY DEF OfRun, Exists, CreatedBy

\* The steps of the server and of other actors leave the run where it is.
LEMMA ServerActs ==
  ASSUME KubeInv, NumbersInv, LateCommit \/ \E t \in Target : Vanish(t) \/ OutsideStep(t)
  PROVE  /\ UNCHANGED <<run, phase, at, intended, owned, verdict, cleanupOk, result>>
         /\ \/ \E t \in Target : /\ UNCHANGED <<creator, late, flight>>
                                /\ object' = [object EXCEPT ![t] = NoObject]
            \/ \E t \in Target : Commit(t, 0) /\ UNCHANGED <<late, flight>>
            \/ \E c \in flight : /\ flight' = flight \ {c}
                               /\ UNCHANGED <<object, creator, late>>
            \/ \E c \in flight : /\ flight' = flight \ {c} /\ Commit(c[1], c[2])
                               /\ late' = late \cup (IF LooksUp(c[1], c[2]) THEN {} ELSE {c[2]})
  BY DEF LateCommit, Vanish, OutsideStep, recordVars, clockVars, reportVars

LEMMA Flying ==
  ASSUME KubeInv, NumbersInv, NEW c \in flight
  PROVE  c[1] \in Target /\ c[2] \in Nat /\ c[2] <= run /\ c = <<c[1], c[2]>>
  BY DEF KubeInv, KubeTypeOK, NumbersInv

LEMMA NumbersStep ==
  ASSUME KubeInv, NumbersInv, [Next]_vars
  PROVE  NumbersInv'
<1> USE DEF NumbersInv
<1>1. run \in Nat /\ creator \in Seq(Nat) /\ late \subseteq Nat /\ flight \subseteq Target \X Nat
  BY DEF KubeInv, KubeTypeOK
<1>2. ASSUME run' = run, creator' = creator, flight' = flight, late' = late,
             phase' # "idle" \/ result' # "none" => phase # "idle" \/ result # "none",
             result' # "none" => phase' = "idle"
      PROVE  NumbersInv'
  BY <1>2
<1>3. CASE UNCHANGED vars
  BY <1>2, <1>3 DEF vars, serverVars, reportVars
<1>4. CASE Begin
  <2>1. /\ run' = run + 1 /\ result' = "none" /\ UNCHANGED <<creator, flight, late>>
    BY <1>4 DEF Begin, serverVars
  <2>2. /\ \A u \in DOMAIN creator : creator[u] \in Nat
        /\ \A c \in flight : c[2] \in Nat
    BY <1>1
  <2> QED BY <1>1, <2>1, <2>2
<1>5. CASE Reads
  BY <1>2, <1>5, ReadsOnly
<1>6. CASE CreateConfirmed \/ \E status \in Interruptions \cup {"failed"} : CreateUnconfirmed(status)
  <2>1. \A u \in DOMAIN creator' : creator'[u] <= run'
    BY <1>1, <1>6, CreatesOf, CommittedNumber
  <2>2. /\ run' = run /\ late' = late /\ result' = "none" /\ run # 0
        /\ flight' = flight \/ flight' = flight \cup {<<Creating, run>>}
    BY <1>6, CreatesOf
  <2> QED BY <1>1, <2>1, <2>2
<1>7. CASE Reconcile \/ Delete \/ DeleteFails
  <2>1. /\ UNCHANGED <<creator, flight, late, run, result>> /\ phase # "idle"
    BY <1>7 DEF Reconcile, Delete, DeleteFails, serverVars, reportVars
  <2> QED BY <1>2, <2>1
<1>8. CASE WorkerDies
  <2>1. /\ UNCHANGED <<creator, late, run>> /\ result' = "none" /\ phase' = "idle"
        /\ flight' = flight \/ flight' = flight \cup {<<Creating, run>>}
    BY <1>8 DEF WorkerDies
  <2> QED BY <1>1, <2>1
<1>9. CASE LateCommit \/ \E t \in Target : Vanish(t) \/ OutsideStep(t)
  <2>1. UNCHANGED <<run, phase, result>> /\ flight' \subseteq flight
    BY <1>9, ServerActs
  <2>2. \A u \in DOMAIN creator' : creator'[u] <= run'
    BY <1>1, <1>9, <2>1, ServerActs, CommittedNumber, Flying
  <2>3. \A n \in late' : n <= run
    BY <1>9, ServerActs, Flying
  <2> QED BY <2>1, <2>2, <2>3
<1> QED BY <1>3, <1>4, <1>5, <1>6, <1>7, <1>8, <1>9 DEF Next, Progress, Failure, Reads

LEMMA UnderWayStep ==
  ASSUME KubeInv, CleanupInv, [Next]_vars
  PROVE  NothingUnderWay'
<1> USE DEF CleanupInv
<1>1. /\ AllConfirmed => run \notin late /\ \A t \in Target : <<t, run>> \notin flight
      /\ result = "succeeded" => cleanupOk
  BY DEF NothingUnderWay
<1>2. SUFFICES /\ AllConfirmed' => run' \notin late' /\ \A t \in Target : <<t, run'>> \notin flight'
               /\ result' = "succeeded" => cleanupOk'
  BY DEF NothingUnderWay
<1>3. phase # "idle" => result = "none"
  BY DEF NumbersInv
<1>4. ASSUME UNCHANGED <<run, late, flight>>, AllConfirmed' => AllConfirmed,
             result' = "succeeded" => cleanupOk'
      PROVE  /\ AllConfirmed' => run' \notin late' /\ \A t \in Target : <<t, run'>> \notin flight'
             /\ result' = "succeeded" => cleanupOk'
  BY <1>1, <1>4
<1>5. CASE UNCHANGED vars
  BY <1>1, <1>4, <1>5 DEF vars, serverVars, reportVars, AllConfirmed
<1>6. CASE Begin
  <2>1. run' = run + 1 /\ result' = "none" /\ UNCHANGED <<flight, late>>
    BY <1>6 DEF Begin, serverVars
  <2>2. run' \notin late /\ \A t \in Target : <<t, run'>> \notin flight
    <3>1. run \in Nat /\ ~(run + 1 <= run)
      BY DEF KubeInv, KubeTypeOK
    <3> QED BY <2>1, <3>1 DEF NumbersInv
  <2> QED BY <2>1, <2>2
<1>7. CASE Reads
  <2>1. UNCHANGED <<run, late, flight>> /\ phase # "idle"
    BY <1>7, ReadsOnly
  <2>2. AllConfirmed' => AllConfirmed
    <3>1. CASE Report
      BY <3>1, PhasesDiffer DEF Report, AllConfirmed, CleanupPhases
    <3>2. CASE \/ CheckFree \/ ObserveReady \/ VerifyComplete
      BY <3>2 DEF CheckFree, ObserveReady, VerifyComplete, AllConfirmed, WorkPhases
    <3>3. CASE \E status \in Interruptions \cup {"failed"} : WorkStops(status)
      BY <1>3, <3>3 DEF WorkStops, Stop, AllConfirmed, WorkPhases, Interruptions
    <3>4. CASE \/ ReconcileFails \/ ReconcileEnds \/ CleanupLooks \/ WaitEnds
               \/ \E cause \in {"deadline", "call"} : CleanupFails(cause)
      BY <1>3, <2>1, <3>4
         DEF ReconcileFails, ReconcileEnds, CleanupLooks, WaitEnds, CleanupFails, NextObject,
             AllConfirmed, WorkPhases, CleanupPhases, reportVars
    <3>5. CASE CancelArrives \/ DeadlinePasses
      BY <3>5 DEF CancelArrives, DeadlinePasses, AllConfirmed, reportVars
    <3> QED BY <1>7, <3>1, <3>2, <3>3, <3>4, <3>5 DEF Reads
  <2>3. result' = "succeeded" => cleanupOk'
    BY <1>3, <1>7, <2>1, ReadsOnly DEF Report
  <2> QED BY <1>4, <2>1, <2>2, <2>3
<1>8. CASE CreateConfirmed
  <2>1. AllConfirmed /\ UNCHANGED <<run, late, flight>> /\ result' = result /\ phase # "idle"
    BY <1>8 DEF CreateConfirmed, AllConfirmed, WorkPhases, reportVars
  <2> QED BY <1>3, <1>4, <2>1
<1>9. CASE \E status \in Interruptions \cup {"failed"} : CreateUnconfirmed(status)
  <2>1. /\ verdict' # "succeeded" /\ phase' = "reconciling" /\ result' = "none"
    BY <1>3, <1>9 DEF CreateUnconfirmed, Stop, Interruptions
  <2> QED BY <2>1, PhasesDiffer DEF AllConfirmed, WorkPhases
<1>10. CASE Reconcile \/ Delete \/ DeleteFails
  <2>1. /\ UNCHANGED <<flight, late, run, result, verdict>> /\ phase \in CleanupPhases
        /\ phase' \in CleanupPhases
    BY <1>10 DEF Reconcile, Delete, DeleteFails, NextObject, serverVars, reportVars, CleanupPhases
  <2>2. result' = "none" /\ (AllConfirmed' => AllConfirmed)
    BY <1>3, <2>1, PhasesDiffer DEF AllConfirmed
  <2> QED BY <1>4, <2>1, <2>2
<1>11. CASE WorkerDies
  BY <1>11, PhasesDiffer DEF WorkerDies, AllConfirmed
<1>12. CASE LateCommit \/ \E t \in Target : Vanish(t) \/ OutsideStep(t)
  <2>1. UNCHANGED <<run, phase, verdict, result, cleanupOk>> /\ flight' \subseteq flight
    BY <1>12, ServerActs
  <2>2. AllConfirmed' <=> AllConfirmed
    BY <2>1 DEF AllConfirmed
  <2>3. AllConfirmed => run \notin late'
    BY <1>1, <1>12, ServerActs, Flying DEF CleanupInv
  <2> QED BY <1>1, <2>1, <2>2, <2>3
<1> QED BY <1>5, <1>6, <1>7, <1>8, <1>9, <1>10, <1>11, <1>12 DEF Next, Progress, Failure, Reads

\* What the finally may still find it will still look at.
LEMMA ForgottenStep ==
  ASSUME KubeInv, CleanupInv, [Next]_vars
  PROVE  NothingForgotten'
<1> USE DEF CleanupInv
<1>1. /\ run \in Nat /\ Len(owned) \in Nat /\ DOMAIN owned = 1 .. Len(owned)
      /\ Len(intended) \in Nat /\ DOMAIN intended = 1 .. Len(intended)
      /\ owned \in Seq(Entry) /\ intended \in Seq(Target) /\ at \in Nat
  BY DEF KubeInv, KubeTypeOK
<1>2. SUFFICES ASSUME phase' # "idle" \/ result' # "none", cleanupOk', run' \notin late',
                      NEW t \in Target, OfRun(t, run)'
               PROVE  StillToDo(t)'
  BY DEF NothingForgotten
<1>3. ASSUME run' = run, late \subseteq late', cleanupOk, phase # "idle" \/ result # "none",
             OfRun(t, run)
      PROVE  StillToDo(t)
  BY <1>2, <1>3 DEF NothingForgotten
<1>4. phase # "idle" => result = "none"
  BY DEF NumbersInv
<1>5. ASSUME UNCHANGED <<object, creator, run>>
      PROVE  OfRun(t, run)
  BY <1>1, <1>2, <1>5, SameServer
<1>6. ASSUME UNCHANGED <<phase, at, intended, owned>>, StillToDo(t)
      PROVE  StillToDo(t)'
  BY <1>6 DEF StillToDo, Confirmed
<1>7. CASE UNCHANGED vars
  BY <1>2, <1>3, <1>5, <1>6, <1>7 DEF vars, serverVars, recordVars, reportVars
<1>8. CASE Begin
  <2>1. run' = run + 1 /\ UNCHANGED <<object, creator>>
    BY <1>8 DEF Begin, serverVars
  <2>2. run' \in Nat /\ OfRun(t, run')
    BY <1>1, <1>2, <2>1, SameServer DEF OfRun, Exists, CreatedBy
  <2>3. object[t].uid \in DOMAIN creator /\ creator[object[t].uid] = run + 1
    BY <2>1, <2>2 DEF OfRun, Exists, CreatedBy, KubeInv, KubeTypeOK, ServerKeepsUids
  <2> QED BY <1>1, <2>3 DEF NumbersInv
<1>9. CASE Reads
  <2>1. /\ UNCHANGED <<object, creator, late, run, intended, owned>>
        /\ phase # "idle" /\ OfRun(t, run) /\ Exists(t)
    BY <1>5, <1>9, ReadsOnly DEF OfRun
  <2>2. cleanupOk
    BY <1>2, <1>9
       DEF Reads, CheckFree, ObserveReady, VerifyComplete, ReconcileFails, ReconcileEnds,
           CleanupLooks, WaitEnds, Report, CancelArrives, DeadlinePasses, WorkStops,
           CleanupFails, Stop, reportVars
  <2>3. StillToDo(t)
    BY <1>3, <2>1, <2>2
  <2>4. CASE \/ CheckFree \/ ObserveReady \/ VerifyComplete
             \/ \E status \in Interruptions \cup {"failed"} : WorkStops(status)
    <3>1. phase \in WorkPhases /\ phase' \in WorkPhases \cup {"reconciling"}
      BY <2>4
         DEF CheckFree, ObserveReady, VerifyComplete, WorkStops, Stop, Advance, WorkPhases
    <3> QED BY <2>1, <2>3, <3>1, PhasesDiffer DEF StillToDo, Confirmed, WorkPhases
  <2>5. CASE ReconcileFails \/ \E cause \in {"deadline", "call"} : CleanupFails(cause)
    BY <1>2, <2>5 DEF ReconcileFails, CleanupFails
  <2>6. CASE ReconcileEnds
    BY <1>1, <2>1, <2>3, <2>6 DEF ReconcileEnds, StillToDo, Confirmed, WorkPhases
  <2>7. CASE CleanupLooks \/ WaitEnds
    <3>1. PICK i \in DOMAIN owned : i <= at /\ owned[i].name = t
      BY <2>3, <2>7 DEF CleanupLooks, WaitEnds, StillToDo, WorkPhases
    <3>2. \/ phase' = "deleting" /\ at' = at
          \/ phase' = "cleaning" /\ at' = at - 1 /\ ~Exists(owned[at].name)
      BY <1>2, <2>1, <2>7 DEF CleanupLooks, WaitEnds, NextObject, Exists
    <3>3. phase' = "cleaning" => i <= at - 1
      BY <1>1, <2>1, <3>1, <3>2
    <3>4. i \in DOMAIN owned' /\ i <= at' /\ owned'[i].name = t
      BY <2>1, <3>1, <3>2, <3>3
    <3> QED BY <3>2, <3>4 DEF StillToDo
  <2>8. CASE Report
    BY <1>1, <2>3, <2>8 DEF Report, StillToDo, WorkPhases
  <2>9. CASE CancelArrives \/ DeadlinePasses
    BY <1>6, <2>1, <2>3, <2>9 DEF CancelArrives, DeadlinePasses
  <2> QED BY <1>9, <2>4, <2>5, <2>6, <2>7, <2>8, <2>9 DEF Reads
<1>10. CASE CreateConfirmed \/ \E status \in Interruptions \cup {"failed"} : CreateUnconfirmed(status)
  <2>1. /\ UNCHANGED <<late, run, cleanupOk>> /\ phase \in {"creating", "probing"}
        /\ Creating \in Target /\ intended' = Append(intended, Creating)
    BY <1>10, CreatesOf
  <2>2. OfRun(t, run) \/ t = Creating
    BY <1>1, <1>2, <1>5, <1>10, CreatesOf, CommittedObject
  <2>3. OfRun(t, run) => Confirmed(t)
    BY <1>2, <1>3, <2>1 DEF StillToDo
  <2>4. CASE CreateConfirmed
    <3> DEFINE e == [name |-> Creating, uid |-> Len(creator) + 1]
    <3>1. e \in Entry /\ e.name = Creating /\ owned' = Append(owned, e)
      BY <2>1, <2>4 DEF Entry, CreateConfirmed, KubeInv, KubeTypeOK
    <3> HIDE DEF e
    <3>2. /\ \A i \in DOMAIN owned : i \in DOMAIN owned' /\ owned'[i] = owned[i]
          /\ \E i \in DOMAIN owned' : owned'[i] = e
      BY <1>1, <3>1
    <3>3. Confirmed(t)'
      BY <2>2, <2>3, <3>1, <3>2 DEF Confirmed
    <3>4. phase' \in WorkPhases
      BY <2>4 DEF CreateConfirmed, Advance, WorkPhases
    <3> QED BY <3>3, <3>4 DEF StillToDo
  <2>5. CASE \E status \in Interruptions \cup {"failed"} : CreateUnconfirmed(status)
    <3>1. phase' = "reconciling" /\ at' = 1 /\ owned' = owned
      BY <2>5 DEF CreateUnconfirmed, Stop
    <3>2. \E i \in DOMAIN intended' : i >= 1 /\ intended'[i] = Creating
      BY <1>1, <2>1
    <3> QED BY <2>2, <2>3, <3>1, <3>2 DEF StillToDo, Confirmed
  <2> QED BY <1>10, <2>4, <2>5
<1>11. CASE Reconcile
  <2> DEFINE s == intended[at]
             e == [name |-> s, uid |-> object[s].uid]
  <2>1. /\ UNCHANGED <<object, creator, late, run, phase, intended>> /\ phase = "reconciling"
        /\ at' = at + 1 /\ cleanupOk /\ at <= Len(intended) /\ OfRun(t, run)
    BY <1>2, <1>5, <1>11 DEF Reconcile, serverVars
  <2>2. owned' = IF ~Confirmed(s) /\ OfRun(s, run) THEN Append(owned, e) ELSE owned
    BY <1>11 DEF Reconcile
  <2>3. s \in Target /\ e \in Entry /\ e.name = s
    <3>1. at \in 1 .. Len(intended)
      BY <1>1, <2>1 DEF KubeInv, PositionInNames
    <3>2. s \in Target
      BY <1>1, <3>1
    <3> QED BY <3>2 DEF Entry, KubeInv, KubeTypeOK
  <2>4. StillToDo(t)
    BY <1>3, <2>1
  <2> HIDE DEF s, e
  <2>5. /\ \A i \in DOMAIN owned : i \in DOMAIN owned' /\ owned'[i] = owned[i]
        /\ ~Confirmed(s) /\ OfRun(s, run) => \E i \in DOMAIN owned' : owned'[i] = e
    BY <1>1, <2>2, <2>3
  <2>6. CASE Confirmed(t) \/ t = s
    <3>1. Confirmed(t)'
      BY <2>1, <2>3, <2>5, <2>6 DEF Confirmed
    <3> QED BY <2>1, <3>1 DEF StillToDo
  <2>7. CASE ~Confirmed(t) /\ t # s
    <3>1. PICK i \in DOMAIN intended : i >= at /\ intended[i] = t
      BY <2>1, <2>4, <2>7 DEF StillToDo
    <3>2. i # at
      BY <2>7, <3>1 DEF s
    <3>3. i \in DOMAIN intended' /\ i >= at' /\ intended'[i] = t
      BY <1>1, <2>1, <3>1, <3>2
    <3> QED BY <2>1, <3>3 DEF StillToDo
  <2> QED BY <2>6, <2>7
<1>12. CASE Delete
  <2>1. /\ UNCHANGED <<creator, late, run, intended, owned, at, cleanupOk>>
        /\ phase = "deleting" /\ phase' = "waiting"
    BY <1>12 DEF Delete, recordVars, reportVars
  <2>2. OfRun(t, run)
    <3>1. at \in DOMAIN owned
      BY <1>1, <2>1 DEF KubeInv, PositionInReceipts
    <3>2. object[t].uid # 0 \/ object'[t] = object[t]
      BY <1>1, <1>12, <3>1 DEF Delete, Unchanged, KubeInv, KubeTypeOK, OwnsOnlyItsOwn
    <3>3. object'[t].uid = object[t].uid
      BY <1>12 DEF Delete, KubeInv, KubeTypeOK
    <3> QED BY <1>2, <2>1, <3>2, <3>3 DEF OfRun, Exists, CreatedBy, NoObject
  <2>3. StillToDo(t)
    BY <1>2, <1>3, <2>1, <2>2
  <2> QED BY <2>1, <2>3 DEF StillToDo, WorkPhases
<1>13. CASE DeleteFails \/ WorkerDies
  BY <1>2, <1>13 DEF DeleteFails, WorkerDies
<1>14. CASE LateCommit \/ \E u \in Target : Vanish(u) \/ OutsideStep(u)
  <2>1. UNCHANGED <<run, phase, at, intended, owned, cleanupOk, result>> /\ late \subseteq late'
    BY <1>14, ServerActs
  <2>2. run # 0
    BY <1>2, <2>1 DEF NumbersInv
  <2>3. OfRun(t, run) \/ LooksUp(t, run)
    <3>1. ASSUME NEW u \in Target, NEW n \in Nat, Commit(u, n)
          PROVE  OfRun(t, run) \/ (t = u /\ n = run)
      BY <1>1, <1>2, <2>1, <3>1, CommittedObject
    <3>2. ASSUME NEW u \in Target, UNCHANGED creator, object' = [object EXCEPT ![u] = NoObject]
          PROVE  OfRun(t, run)
      BY <1>1, <1>2, <2>1, <3>2, RemovedObject
    <3>3. ASSUME NEW c \in flight, Commit(c[1], c[2]),
                 late' = late \cup (IF LooksUp(c[1], c[2]) THEN {} ELSE {c[2]})
          PROVE  OfRun(t, run) \/ LooksUp(t, run)
      BY <1>2, <2>1, <3>1, <3>3, Flying
    <3> QED BY <1>5, <1>14, <2>1, <2>2, <3>1, <3>2, <3>3, ServerActs
  <2>4. StillToDo(t)
    BY <1>2, <1>3, <2>1, <2>3 DEF LooksUp, StillToDo
  <2> QED BY <1>6, <2>1, <2>4
<1> QED BY <1>7, <1>8, <1>9, <1>10, <1>11, <1>12, <1>13, <1>14 DEF Next, Progress, Failure, Reads

\* The inductive invariant of a run's cleanup.
THEOREM CleanupInvariant == Spec => []CleanupInv
<1>1. KubeInv /\ CleanupInv /\ [Next]_vars => CleanupInv'
  BY NumbersStep, UnderWayStep, ForgottenStep DEF CleanupInv
<1> QED BY <1>1, KubernetesInvariant, InitCleanup, PTL DEF Spec

\* A cleanup that reports success has left nothing of its run behind, but for
\* creates that committed after their name had been looked up
\* (kubernetes_executor's finally and KubectlClient.cleanup), for every lesson
\* and whatever other actors create and delete.
THEOREM CleanupIsComplete == Spec => []CleanupLeavesOnlyLate
<1>1. CleanupInv => CleanupLeavesOnlyLate
  BY DEF CleanupInv, NothingForgotten, CleanupLeavesOnlyLate, StillToDo, WorkPhases
<1> QED BY <1>1, CleanupInvariant, PTL

\* A run that reports success leaves nothing of itself, not even a create that
\* is still on its way: all its creates were confirmed.
THEOREM SuccessIsClean == Spec => []SuccessLeavesNothing
<1>1. CleanupInv => SuccessLeavesNothing
  BY DEF CleanupInv, NumbersInv, NothingForgotten, NothingUnderWay, AllConfirmed,
         SuccessLeavesNothing, StillToDo, WorkPhases
<1> QED BY <1>1, CleanupInvariant, PTL

-----------------------------------------------------------------------------
(* What a run has made when it succeeds.                                   *)

AllMade == \A i \in DOMAIN Documents : Confirmed(Documents[i])
ProbeMade == Probe # NoTarget => Confirmed(Probe)

\* The receipts follow the documents, and nothing but the last look at them makes a
\* success of the run.
MadeInv ==
  /\ phase = "creating" => \A i \in DOMAIN Documents : i < at => Confirmed(Documents[i])
  /\ phase \in {"observing", "probing", "verifying"} => AllMade
  /\ phase = "verifying" => ProbeMade
  /\ phase \in CleanupPhases /\ verdict = "succeeded" => AllMade /\ ProbeMade

\* A receipt that is appended adds its name.
LEMMA ReceiptAdds ==
  ASSUME KubeInv, NEW e \in Entry, owned' = Append(owned, e)
  PROVE  \A t : Confirmed(t)' <=> Confirmed(t) \/ t = e.name
<1>1. owned \in Seq(Entry)
  BY DEF KubeInv, KubeTypeOK
<1>2. /\ Len(owned) \in Nat /\ DOMAIN owned = 1 .. Len(owned)
      /\ DOMAIN owned' = 1 .. Len(owned) + 1
      /\ \A i \in 1 .. Len(owned) : owned'[i] = owned[i]
      /\ owned'[Len(owned) + 1] = e
  BY <1>1
<1>3. \A i : i \in DOMAIN owned' <=> i \in DOMAIN owned \/ i = Len(owned) + 1
  BY <1>2
<1> QED BY <1>2, <1>3 DEF Confirmed

\* The receipt of a confirmed create, and of an object that is found.
LEMMA NewReceipt ==
  ASSUME KubeInv, NEW t \in Target, NEW u \in Nat
  PROVE  [name |-> t, uid |-> u] \in Entry /\ [name |-> t, uid |-> u].name = t
BY DEF Entry

LEMMA CreateAdds ==
  ASSUME KubeInv, CreateConfirmed
  PROVE  \A t : Confirmed(t)' <=> Confirmed(t) \/ t = Creating
<1>1. Creating \in Target /\ Len(creator) + 1 \in Nat
  BY CreatesOf DEF KubeInv, KubeTypeOK
<1>2. owned' = Append(owned, [name |-> Creating, uid |-> Len(creator) + 1])
  BY DEF CreateConfirmed
<1> QED BY <1>1, <1>2, NewReceipt, ReceiptAdds

LEMMA ReconcileAdds ==
  ASSUME KubeInv, Reconcile
  PROVE  \/ \A t : Confirmed(t)' <=> Confirmed(t)
         \/ /\ OfRun(intended[at], run) /\ intended[at] \in Target
            /\ \A t : Confirmed(t)' <=> Confirmed(t) \/ t = intended[at]
<1>1. intended[at] \in Target
  <2>1. at \in DOMAIN intended /\ intended \in Seq(Target)
    BY DEF Reconcile, KubeInv, KubeTypeOK, PositionInNames
  <2> QED BY <2>1
<1>2. object[intended[at]].uid \in Nat
  BY <1>1 DEF KubeInv, KubeTypeOK
<1>3. CASE owned' = owned
  BY <1>3 DEF Confirmed
<1>4. CASE /\ OfRun(intended[at], run)
           /\ owned' = Append(owned, [name |-> intended[at], uid |-> object[intended[at]].uid])
  BY <1>1, <1>2, <1>4, NewReceipt, ReceiptAdds
<1> QED BY <1>3, <1>4 DEF Reconcile

LEMMA MadeStep ==
  ASSUME KubeInv, MadeInv, [Next]_vars
  PROVE  MadeInv'
<1> USE DEF MadeInv, AllMade, ProbeMade
<1>1. ASSUME \A t : Confirmed(t) => Confirmed(t)', verdict' = verdict,
             \/ phase' = phase /\ at' = at
             \/ phase \in CleanupPhases /\ phase' \in CleanupPhases
      PROVE  MadeInv'
  BY <1>1, PhasesDiffer DEF CleanupPhases
<1>2. CASE UNCHANGED vars
  BY <1>1, <1>2 DEF vars, recordVars, reportVars, Confirmed
<1>3. CASE Begin
  BY <1>3 DEF Begin, CleanupPhases
<1>4. CASE CheckFree
  <2>1. phase' = "checking" \/ (phase' = "creating" /\ at' = 1)
    BY <1>4 DEF CheckFree, Advance
  <2>2. \A i \in DOMAIN Documents : ~(i < 1)
    BY KubernetesAssumption
  <2> QED BY <2>1, <2>2 DEF CleanupPhases
<1>5. CASE ObserveReady
  <2>1. \A t : Confirmed(t)' <=> Confirmed(t)
    BY <1>5 DEF ObserveReady, recordVars, Confirmed
  <2> QED BY <1>5, <2>1 DEF ObserveReady, Stop, CleanupPhases
<1>6. CASE VerifyComplete
  <2>1. \A t : Confirmed(t)' <=> Confirmed(t)
    BY <1>6 DEF VerifyComplete, recordVars, Confirmed
  <2> QED BY <1>6, <2>1 DEF VerifyComplete, Stop, CleanupPhases
<1>7. CASE \E status \in Interruptions \cup {"failed"} : WorkStops(status) \/ CreateUnconfirmed(status)
  BY <1>7 DEF WorkStops, CreateUnconfirmed, Stop, Interruptions, CleanupPhases
<1>8. CASE CreateConfirmed
  <2>1. \A t : Confirmed(t)' <=> Confirmed(t) \/ t = Creating
    BY <1>8, CreateAdds
  <2>2. CASE phase = "creating"
    <3>1. /\ at \in 1 .. Len(Documents) /\ Len(Documents) \in Nat
          /\ DOMAIN Documents = 1 .. Len(Documents)
      BY <2>2, KubernetesAssumption DEF KubeInv, PositionInNames
    <3>2. \/ at < Len(Documents) /\ at' = at + 1 /\ phase' = "creating"
          \/ at = Len(Documents) /\ phase' = "observing"
      <4>1. Advance(Documents, "observing")
        BY <1>8, <2>2 DEF CreateConfirmed
      <4>2. at < Len(Documents) \/ at = Len(Documents)
        <5>1. \A n \in Nat : at \in 1 .. n => at < n \/ at = n
          OBVIOUS
        <5> QED BY <3>1, <5>1
      <4> QED BY <2>2, <3>1, <4>1, <4>2 DEF Advance
    <3>3. \A i \in DOMAIN Documents : i < at \/ i = at => Confirmed(Documents[i])'
      BY <2>1, <2>2 DEF Creating
    <3>4. \A i \in DOMAIN Documents : (at' = at + 1 /\ i < at') => i < at \/ i = at
      BY <3>1
    <3>5. at = Len(Documents) => \A i \in DOMAIN Documents : i < at \/ i = at
      BY <3>1
    <3> QED BY <3>2, <3>3, <3>4, <3>5 DEF CleanupPhases
  <2>3. CASE phase = "probing"
    <3>1. phase' = "verifying" /\ Creating = Probe
      BY <1>8, <2>3 DEF CreateConfirmed, Creating
    <3> QED BY <2>1, <2>3, <3>1 DEF CleanupPhases
  <2> QED BY <1>8, <2>2, <2>3 DEF CreateConfirmed
<1>9. CASE Reconcile
  <2>1. \A t : Confirmed(t) => Confirmed(t)'
    BY <1>9, ReconcileAdds
  <2> QED BY <1>1, <1>9, <2>1 DEF Reconcile, CleanupPhases
<1>10. CASE \/ ReconcileFails \/ ReconcileEnds \/ CleanupLooks \/ WaitEnds
            \/ Delete \/ DeleteFails \/ \E cause \in {"deadline", "call"} : CleanupFails(cause)
  <2>1. /\ owned' = owned /\ verdict' = verdict
        /\ phase \in CleanupPhases /\ phase' \in CleanupPhases
    BY <1>10 DEF ReconcileFails, ReconcileEnds, CleanupLooks, WaitEnds, Delete, DeleteFails,
       CleanupFails, NextObject, CleanupPhases, recordVars, reportVars
  <2> QED BY <1>1, <2>1 DEF Confirmed
<1>11. CASE Report \/ WorkerDies
  BY <1>11, PhasesDiffer DEF Report, WorkerDies
<1>12. CASE CancelArrives \/ DeadlinePasses
  BY <1>1, <1>12 DEF CancelArrives, DeadlinePasses, recordVars, reportVars, Confirmed
<1>13. CASE LateCommit \/ \E t \in Target : Vanish(t) \/ OutsideStep(t)
  BY <1>1, <1>13 DEF LateCommit, Vanish, OutsideStep, recordVars, reportVars, Confirmed
<1> QED BY <1>2, <1>3, <1>4, <1>5, <1>6, <1>7, <1>8, <1>9, <1>10, <1>11, <1>12, <1>13
        DEF Next, Progress, Failure

\* A run that is to succeed has a receipt for each of its documents.
LEMMA MadeInvariant == Spec => []MadeInv
<1>1. Init => MadeInv
  BY DEF Init, MadeInv, CleanupPhases
<1> QED BY <1>1, MadeStep, KubernetesInvariant, PTL DEF Spec

-----------------------------------------------------------------------------
(* Runs implement OwnedObjects: each call of the executor is a create, a   *)
(* deletion of its own object or not seen, whatever the server and others  *)
(* do between two calls.                                                   *)

LEMMA SeenOwner ==
  ASSUME NEW t \in Target
  PROVE  /\ Owner[t] = {} <=> ~Exists(t)
         /\ \A n : Owner[t] = {n} <=> OfRun(t, n)
BY DEF Owner, OfRun

LEMMA SeenMade == \A t : t \in Made <=> Confirmed(t)
BY DEF Made, Confirmed

LEMMA SameCluster ==
  ASSUME UNCHANGED <<object, creator>> PROVE UNCHANGED <<Owner, Going>>
BY DEF Owner, Going, Exists, CreatedBy

\* What a commit, a removal and a mark change of what others see.
LEMMA CommitIsSeen ==
  ASSUME KubeInv, NEW t \in Target, NEW n \in Nat, Commit(t, n)
  PROVE  Cluster!Makes(t, n) /\ Going' = Going
<1>1. /\ object \in [Target -> [uid : Nat, dying : BOOLEAN]]
      /\ creator \in Seq(Nat) /\ Len(creator) \in Nat /\ object[t] = NoObject
      /\ creator' = Append(creator, n)
      /\ object' = [object EXCEPT ![t] = [uid |-> Len(creator) + 1, dying |-> FALSE]]
  BY DEF KubeInv, KubeTypeOK, Commit, Exists
<1>2. creator'[Len(creator) + 1] = n /\ \A u \in DOMAIN creator : creator'[u] = creator[u]
  BY <1>1
<1>3. /\ object'[t].uid = Len(creator) + 1 /\ object'[t].dying = FALSE /\ object[t].dying = FALSE
      /\ object'[t] # NoObject
      /\ \A s \in Target \ {t} : object'[s] = object[s]
  BY <1>1 DEF NoObject
<1>4. Owner[t] = {} /\ Owner'[t] = {n}
  BY <1>1, <1>2, <1>3 DEF Owner, Exists, CreatedBy
<1>5. ASSUME NEW s \in Target \ {t} PROVE Owner'[s] = Owner[s]
  <2>1. object[s] # NoObject => object[s].uid \in DOMAIN creator
    BY <1>1 DEF KubeInv, ServerKeepsUids
  <2> QED BY <1>2, <1>3, <2>1 DEF Owner, Exists, CreatedBy
<1>6. Owner' = [Owner EXCEPT ![t] = {n}]
  BY <1>4, <1>5 DEF Owner
<1>7. Going' = Going
  BY <1>3 DEF Going
<1> QED BY <1>4, <1>6, <1>7 DEF Cluster!Makes

LEMMA RemovalIsSeen ==
  ASSUME KubeInv, NEW t \in Target, UNCHANGED creator,
         object' = [object EXCEPT ![t] = NoObject]
  PROVE  Cluster!Goes(t)
<1>1. object \in [Target -> [uid : Nat, dying : BOOLEAN]]
  BY DEF KubeInv, KubeTypeOK
<1>2. object'[t] = NoObject /\ \A s \in Target \ {t} : object'[s] = object[s]
  BY <1>1
<1>3. Owner' = [Owner EXCEPT ![t] = {}]
  BY <1>2 DEF Owner, Exists, CreatedBy
<1>4. Going' = Going \ {t}
  BY <1>2 DEF Going, NoObject
<1> QED BY <1>3, <1>4 DEF Cluster!Goes

LEMMA MarkIsSeen ==
  ASSUME KubeInv, NEW t \in Target, Exists(t), UNCHANGED creator,
         object' = [object EXCEPT ![t].dying = TRUE]
  PROVE  Owner' = Owner /\ Going' = Going \cup {t}
<1>1. object \in [Target -> [uid : Nat, dying : BOOLEAN]]
  BY DEF KubeInv, KubeTypeOK
<1>2. /\ object'[t].uid = object[t].uid /\ object'[t].dying = TRUE
      /\ \A s \in Target \ {t} : object'[s] = object[s]
  BY <1>1
<1>3. object'[t] # NoObject
  BY <1>2 DEF NoObject
<1>4. Owner' = Owner
  BY <1>2, <1>3 DEF Owner, Exists, CreatedBy
<1>5. Going' = Going \cup {t}
  BY <1>2 DEF Going
<1> QED BY <1>4, <1>5

\* A create that is confirmed, one whose answer is lost and one that is still on its way.
LEMMA CreateIsSeen ==
  ASSUME KubeInv,
         \/ CreateConfirmed
         \/ \E status \in Interruptions \cup {"failed"} : CreateUnconfirmed(status)
  PROVE  Cluster!OwnedNext \/ UNCHANGED Cluster!ovars
<1>1. /\ Creating \in Target /\ run \in Nat
      /\ phase # "idle" /\ phase' # "idle" /\ UNCHANGED <<run, result>>
  BY CreatesOf
     DEF CreateConfirmed, CreateUnconfirmed, Stop, Advance, KubeInv, KubeTypeOK
<1>2. Made' = Made \/ (Commit(Creating, run) /\ Made' = Made \cup {Creating})
  <2>1. CASE owned' = owned
    BY <2>1 DEF Made
  <2>2. CASE CreateConfirmed
    <3>1. \A t : t \in Made' <=> t \in Made \/ t = Creating
      BY <2>2, CreateAdds DEF Made, Confirmed
    <3> QED BY <2>2, <3>1 DEF CreateConfirmed
  <2> QED BY <2>1, <2>2 DEF CreateUnconfirmed
<1>3. CASE Commit(Creating, run) /\ flight' = flight
  <2>1. Cluster!Create(Creating)
    BY <1>1, <1>2, <1>3, CommitIsSeen DEF Cluster!Create
  <2> QED BY <1>1, <2>1 DEF Cluster!OwnedNext
<1>4. CASE /\ UNCHANGED <<object, creator>> /\ Made' = Made
           /\ flight' = flight \/ flight' = flight \cup {<<Creating, run>>}
  <2>1. flight' = flight => UNCHANGED Cluster!ovars
    BY <1>1, <1>4, SameCluster DEF Cluster!ovars
  <2>2. flight' = flight \cup {<<Creating, run>>} => Cluster!Abandon(Creating)
    BY <1>1, <1>4, SameCluster DEF Cluster!Abandon, Cluster!runVars
  <2> QED BY <1>1, <1>4, <2>1, <2>2 DEF Cluster!OwnedNext
<1>5. UNCHANGED <<object, creator>> => ~Commit(Creating, run)
  <2>1. creator \in Seq(Nat) /\ Append(creator, run) # creator
    BY <1>1 DEF KubeInv, KubeTypeOK
  <2> QED BY <2>1 DEF Commit
<1> QED BY <1>2, <1>3, <1>4, <1>5, CreatesOf

\* A look at an uncertain name finds an object of the run or changes nothing.
LEMMA ReconcileIsSeen ==
  ASSUME KubeInv, Reconcile
  PROVE  Cluster!OwnedNext \/ UNCHANGED Cluster!ovars
<1> DEFINE t == intended[at]
<1>1. /\ phase # "idle" /\ phase' = phase /\ UNCHANGED <<object, creator, flight, run, result>>
  BY DEF Reconcile, serverVars
<1>2. UNCHANGED <<Owner, Going>>
  BY <1>1, SameCluster
<1>3. CASE \A s : Confirmed(s)' <=> Confirmed(s)
  <2>1. Made' = Made
    BY <1>3 DEF Made, Confirmed
  <2> QED BY <1>1, <1>2, <2>1 DEF Cluster!ovars
<1>4. CASE OfRun(t, run) /\ t \in Target /\ \A s : Confirmed(s)' <=> Confirmed(s) \/ s = t
  <2> HIDE DEF t
  <2>1. Made' = Made \cup {t}
    BY <1>4 DEF Made, Confirmed
  <2>2. Cluster!Find(t)
    BY <1>1, <1>2, <1>4, <2>1, SeenOwner DEF Cluster!Find, Cluster!clusterVars
  <2> QED BY <1>4, <2>2 DEF Cluster!OwnedNext
<1> QED BY <1>3, <1>4, ReconcileAdds

\* A deletion marks an object of the run, or nothing.
LEMMA DeleteIsSeen ==
  ASSUME KubeInv, Delete \/ DeleteFails
  PROVE  Cluster!OwnedNext \/ UNCHANGED Cluster!ovars
<1> DEFINE t == owned[at].name
<1>1. /\ phase # "idle" /\ phase' # "idle" /\ UNCHANGED <<creator, flight, run, owned, result>>
      /\ \/ UNCHANGED object
         \/ object' = [object EXCEPT ![t].dying = TRUE]
  BY DEF Delete, DeleteFails, NextObject, recordVars, reportVars
<1>2. Made' = Made
  BY <1>1 DEF Made
<1>3. CASE UNCHANGED object
  BY <1>1, <1>2, <1>3, SameCluster DEF Cluster!ovars
<1>4. CASE object' # object
  <2>1. PICK s \in Target : object'[s] # object[s]
    BY <1>1, <1>4 DEF KubeInv, KubeTypeOK
  <2>2. OfRun(s, run) /\ s = t
    BY <2>1, DeletionIsOwned
  <2> HIDE DEF t
  <2>3. Owner' = Owner /\ Going' = Going \cup {s}
    BY <1>1, <1>4, <2>2, MarkIsSeen DEF OfRun
  <2>4. Cluster!Delete(s)
    BY <1>1, <1>2, <2>2, <2>3, SeenOwner DEF Cluster!Delete, Cluster!runVars
  <2> QED BY <2>4 DEF Cluster!OwnedNext
<1> QED BY <1>3, <1>4

\* A run ends with success only with all its documents made and none left.
LEMMA ReportIsSeen ==
  ASSUME KubeInv, CleanupInv, CleanupInv', MadeInv, Report
  PROVE  Cluster!OwnedNext
<1>1. /\ phase = "cleaning" /\ phase' = "idle" /\ UNCHANGED <<serverVars, run, owned>>
      /\ result' = IF cleanupOk THEN verdict ELSE "failed"
  BY DEF Report, recordVars
<1>2. UNCHANGED <<Owner, Going, flight, Made>>
  BY <1>1, SameCluster DEF serverVars, Made
<1>3. result' \in {"succeeded", "failed", "cancelled", "timed_out"}
  BY <1>1 DEF KubeInv, KubeTypeOK
<1>4. ASSUME result' = "succeeded"
      PROVE  /\ Needed \subseteq Made
             /\ \A t \in Target : Owner[t] # {run} /\ <<t, run>> \notin flight
  <2>1. verdict = "succeeded"
    BY <1>1, <1>4
  <2>2. AllMade /\ ProbeMade
    BY <1>1, <2>1 DEF MadeInv, CleanupPhases
  <2>3. Needed \subseteq Made
    BY <2>2, SeenMade DEF Needed, AllMade, ProbeMade
  <2>4. \A t \in Target : ~OfRun(t, run)' /\ <<t, run'>> \notin flight'
    BY <1>1, <1>4 DEF CleanupInv, NumbersInv, NothingForgotten, NothingUnderWay, AllConfirmed,
       StillToDo, WorkPhases
  <2>5. \A t \in Target : ~OfRun(t, run) /\ <<t, run>> \notin flight
    BY <1>1, <2>4 DEF serverVars, OfRun, Exists, CreatedBy
  <2> QED BY <2>3, <2>5, SeenOwner
<1>5. Cluster!End
  BY <1>1, <1>2, <1>3, <1>4 DEF Cluster!End, Cluster!clusterVars
<1> QED BY <1>5 DEF Cluster!OwnedNext

\* The other reads of the run, with the clock and the cancellation, are not seen.
LEMMA ReadsAreUnseen ==
  ASSUME KubeInv, Reads, ~Report
  PROVE  UNCHANGED Cluster!ovars
<1>1. phase # "idle" /\ phase' # "idle"
  BY ReadsOnly DEF Reads, CheckFree, ObserveReady, VerifyComplete, ReconcileFails, ReconcileEnds,
     CleanupLooks, WaitEnds, CancelArrives, DeadlinePasses, WorkStops, CleanupFails, Stop, Advance,
     NextObject
<1>2. UNCHANGED <<object, creator, flight, run, owned, result>>
  BY ReadsOnly
     DEF Reads, CheckFree, ObserveReady, VerifyComplete, ReconcileFails, ReconcileEnds,
     CleanupLooks, WaitEnds, CancelArrives, DeadlinePasses, WorkStops, CleanupFails, serverVars
<1> QED BY <1>1, <1>2, SameCluster DEF Cluster!ovars, Made

\* A run begins, and a worker dies.
LEMMA BeginIsSeen ==
  ASSUME KubeInv, Begin PROVE Cluster!OwnedNext
<1>1. UNCHANGED <<Owner, Going, flight>> /\ Made' = {}
  BY SameCluster DEF Begin, serverVars, Made
<1>2. Cluster!Start
  BY <1>1 DEF Begin, Cluster!Start, Cluster!clusterVars
<1> QED BY <1>2 DEF Cluster!OwnedNext

LEMMA DeathIsSeen ==
  ASSUME KubeInv, WorkerDies PROVE Cluster!OwnedNext
<1>1. UNCHANGED <<Owner, Going, Made>>
  BY SameCluster DEF WorkerDies, recordVars, Made
<1>2. flight' = flight \/ (Creating \in Target /\ flight' = flight \cup {<<Creating, run>>})
  <2>1. phase \in {"creating", "probing"} => Creating \in Target
    BY KubernetesAssumption DEF Creating, KubeInv, PositionInNames
  <2> QED BY <2>1 DEF WorkerDies
<1>3. Cluster!Die
  BY <1>1, <1>2 DEF WorkerDies, Cluster!Die
<1> QED BY <1>3 DEF Cluster!OwnedNext

\* The server and other actors.
LEMMA ServerIsSeen ==
  ASSUME KubeInv, NumbersInv, LateCommit \/ \E t \in Target : Vanish(t) \/ OutsideStep(t)
  PROVE  Cluster!OwnedNext
<1>1. UNCHANGED <<run, phase, result, Made>>
  BY ServerActs DEF Made
<1>2. ASSUME NEW t \in Target, Vanish(t) PROVE Cluster!OwnedNext
  <2>1. t \in Going /\ Cluster!Goes(t) /\ flight' = flight
    BY <1>2, RemovalIsSeen DEF Vanish, Going
  <2>2. Cluster!Vanish(t)
    BY <1>1, <2>1 DEF Cluster!Vanish, Cluster!runVars
  <2> QED BY <2>2 DEF Cluster!OwnedNext
<1>3. ASSUME NEW t \in Target, OutsideStep(t) PROVE Cluster!OwnedNext
  <2>1. \/ Cluster!Makes(t, 0) /\ Going' = Going
        \/ Owner[t] # {} /\ Cluster!Goes(t)
    BY <1>3, CommitIsSeen, RemovalIsSeen, SeenOwner DEF OutsideStep
  <2>2. Cluster!Others(t)
    BY <1>1, <1>3, <2>1 DEF OutsideStep, Cluster!Others, Cluster!runVars
  <2> QED BY <2>2 DEF Cluster!OwnedNext
<1>4. CASE LateCommit
  <2>1. PICK c \in flight : /\ flight' = flight \ {c}
                            /\ Commit(c[1], c[2]) \/ UNCHANGED <<object, creator>>
    BY <1>4 DEF LateCommit
  <2>2. c[1] \in Target /\ c[2] \in Nat
    BY Flying
  <2>3. (Cluster!Makes(c[1], c[2]) \/ Owner' = Owner) /\ Going' = Going
    BY <2>1, <2>2, CommitIsSeen, SameCluster
  <2>4. Cluster!Arrive(c)
    BY <1>1, <2>1, <2>3 DEF Cluster!Arrive, Cluster!runVars
  <2> QED BY <2>4 DEF Cluster!OwnedNext
<1> QED BY <1>2, <1>3, <1>4

\* The executor, with its late creates, lost answers, failing calls and dead workers,
\* implements OwnedObjects for every lesson and number of runs: whatever others do to
\* the names meanwhile, a run deletes none but its own objects, and a success made every
\* document and left nothing (kubernetes_executor, KubectlClient).
THEOREM RunsKeepOwnership == Spec => RunsOwnTheirObjects
<1>1. Init => Cluster!OwnedInit
  BY DEF Init, Cluster!OwnedInit, Owner, Going, Made, Exists, NoObject
<1>2. ASSUME KubeInv, CleanupInv, CleanupInv', MadeInv, [Next]_vars
      PROVE  [Cluster!OwnedNext]_(Cluster!ovars)
  <2>1. CASE UNCHANGED vars
    BY <2>1, SameCluster
       DEF vars, serverVars, recordVars, reportVars, Cluster!ovars, Made
  <2>2. CASE Reads
    BY <1>2, <2>2, ReadsAreUnseen, ReportIsSeen
  <2>3. CASE Reconcile \/ Delete \/ DeleteFails
    BY <1>2, <2>3, ReconcileIsSeen, DeleteIsSeen
  <2>4. CASE CreateConfirmed \/ \E status \in Interruptions \cup {"failed"} : CreateUnconfirmed(status)
    BY <1>2, <2>4, CreateIsSeen
  <2>5. CASE Begin \/ WorkerDies \/ LateCommit \/ \E t \in Target : Vanish(t) \/ OutsideStep(t)
    BY <1>2, <2>5, BeginIsSeen, DeathIsSeen, ServerIsSeen DEF CleanupInv
  <2> QED BY <1>2, <2>1, <2>2, <2>3, <2>4, <2>5 DEF Next, Progress, Failure, Reads
<1>3. KubeInv /\ CleanupInv /\ CleanupInv' /\ MadeInv /\ [Next]_vars
        => [Cluster!OwnedNext]_(Cluster!ovars)
  BY <1>2
<1> QED BY <1>1, <1>3, KubernetesInvariant, CleanupInvariant, MadeInvariant, PTL
        DEF Spec, RunsOwnTheirObjects, Cluster!OwnedSpec

-----------------------------------------------------------------------------
(* Runs come to an end.                                                    *)
(*                                                                         *)
(* RunEnds rests on fairness and stays with TLC. What is proved is that no *)
(* run can go on for ever: each of its calls lowers CallsLeft, which no    *)
(* step of anybody else raises. The finally is counted from the names the  *)
(* run intended and the receipts it has, both of which may still grow.     *)

FinallyLeft == 4 * Len(intended) + 3 * Len(owned) + 2
CallsLeft ==
  CASE phase = "checking"    -> FinallyLeft + 8 * Len(Documents) + 11 + Len(Checked) - at
    [] phase = "creating"    -> FinallyLeft + 8 * (Len(Documents) - at) + 18
    [] phase = "observing"   -> FinallyLeft + 10
    [] phase = "probing"     -> FinallyLeft + 9
    [] phase = "verifying"   -> FinallyLeft + 1
    [] phase = "reconciling" -> FinallyLeft + 4 - 4 * at
    [] phase = "cleaning"    -> 3 * at + 1
    [] phase = "deleting"    -> 3 * at
    [] phase = "waiting"     -> 3 * at - 1
    [] phase = "idle"        -> 0
RunsComeDown ==
  /\ CallsLeft \in Nat
  /\ Begin => CallsLeft' = 8 * Len(Documents) + Len(Checked) + 12
  /\ Progress \/ Failure => CallsLeft' < CallsLeft
  /\ Next /\ ~Begin => UNCHANGED CallsLeft \/ CallsLeft' < CallsLeft

LEMMA Lengths ==
  ASSUME KubeInv
  PROVE  /\ Len(intended) \in Nat /\ Len(owned) \in Nat /\ at \in Nat
         /\ Len(Documents) \in Nat \ {0} /\ Len(Checked) \in Nat \ {0}
BY KubernetesAssumption DEF KubeInv, KubeTypeOK

\* Where the position may be, as plain bounds.
LEMMA Where ==
  ASSUME KubeInv
  PROVE  /\ phase = "checking" => 1 <= at /\ at <= Len(Checked)
         /\ phase = "creating" => 1 <= at /\ at <= Len(Documents)
         /\ phase = "reconciling" => 1 <= at /\ at <= Len(intended) + 1
         /\ phase = "cleaning" => at <= Len(owned)
         /\ phase \in {"deleting", "waiting"} => 1 <= at /\ at <= Len(owned)
<1>1. ASSUME NEW n \in Nat, at \in 1 .. n PROVE 1 <= at /\ at <= n
  BY <1>1
<1>2. ASSUME NEW n \in Nat, at \in 0 .. n PROVE at <= n
  BY <1>2
<1> QED BY <1>1, <1>2, Lengths DEF KubeInv, PositionInReceipts, PositionInNames

LEMMA Weights ==
  /\ phase = "checking" => CallsLeft = FinallyLeft + 8 * Len(Documents) + 11 + Len(Checked) - at
  /\ phase = "creating" => CallsLeft = FinallyLeft + 8 * (Len(Documents) - at) + 18
  /\ phase = "observing" => CallsLeft = FinallyLeft + 10
  /\ phase = "probing" => CallsLeft = FinallyLeft + 9
  /\ phase = "verifying" => CallsLeft = FinallyLeft + 1
  /\ phase = "reconciling" => CallsLeft = FinallyLeft + 4 - 4 * at
BY DEF CallsLeft

LEMMA CallsLeftIsNat == ASSUME KubeInv PROVE CallsLeft \in Nat
<1>1. phase \in WorkPhases \cup CleanupPhases \cup {"idle"}
  BY DEF KubeInv, KubeTypeOK
<1>2. FinallyLeft \in Nat
  BY Lengths DEF FinallyLeft
<1>3. CASE phase = "checking"
  BY <1>2, <1>3, Lengths, Where, Weights
<1>4. CASE phase = "creating"
  BY <1>2, <1>4, Lengths, Where, Weights
<1>5. CASE phase \in {"observing", "probing", "verifying"}
  BY <1>2, <1>5, Weights
<1>6. CASE phase = "reconciling"
  BY <1>6, Lengths, Where, Weights DEF FinallyLeft
<1>7. CASE phase \in {"cleaning", "deleting", "waiting", "idle"}
  BY <1>7, Lengths, Where DEF CallsLeft
<1> QED BY <1>1, <1>3, <1>4, <1>5, <1>6, <1>7 DEF WorkPhases, CleanupPhases

\* From any step of the work the finally is nearer than the rest of the work.
LEMMA StopsLower ==
  ASSUME KubeInv, KubeInv', phase \in WorkPhases, phase' = "reconciling", at' = 1,
         owned' = owned,
         \/ intended' = intended
         \/ phase \in {"creating", "probing"} /\ Len(intended') = Len(intended) + 1
  PROVE  CallsLeft' < CallsLeft
<1>1. FinallyLeft' = FinallyLeft \/ (phase \in {"creating", "probing"} /\ FinallyLeft' = FinallyLeft + 4)
  BY Lengths DEF FinallyLeft
<1>2. CallsLeft' = FinallyLeft'
  BY Lengths DEF CallsLeft, FinallyLeft
<1>3. FinallyLeft \in Nat
  BY Lengths DEF FinallyLeft
<1>4. CASE phase = "checking"
  BY <1>1, <1>2, <1>3, <1>4, Lengths, Where, Weights
<1>5. CASE phase = "creating"
  BY <1>1, <1>2, <1>3, <1>5, Lengths, Where, Weights
<1>6. CASE phase \in {"observing", "probing", "verifying"}
  BY <1>1, <1>2, <1>3, <1>6, Weights
<1> QED BY <1>4, <1>5, <1>6 DEF WorkPhases

LEMMA WorkLowers ==
  ASSUME KubeInv, KubeInv',
         \/ CheckFree \/ ObserveReady \/ VerifyComplete
         \/ \E status \in Interruptions \cup {"failed"} : WorkStops(status)
  PROVE  CallsLeft' < CallsLeft
<1>1. CASE CheckFree
  <2>1. /\ phase = "checking" /\ FinallyLeft' = FinallyLeft /\ FinallyLeft \in Nat
        /\ \/ phase' = "checking" /\ at' = at + 1
           \/ phase' = "creating" /\ at' = 1
    BY <1>1, Lengths DEF CheckFree, Advance, recordVars, FinallyLeft
  <2>2. CASE phase' = "checking" /\ at' = at + 1
    <3>1. CallsLeft' = FinallyLeft + 8 * Len(Documents) + 11 + Len(Checked) - (at + 1)
      BY <2>1, <2>2 DEF CallsLeft
    <3> QED BY <2>1, <3>1, Lengths, Where, Weights
  <2>3. CASE phase' = "creating" /\ at' = 1
    <3>1. CallsLeft' = FinallyLeft + 8 * (Len(Documents) - 1) + 18
      BY <2>1, <2>3 DEF CallsLeft
    <3> QED BY <2>1, <3>1, Lengths, Where, Weights
  <2> QED BY <2>1, <2>2, <2>3
<1>2. CASE phase' = "reconciling"
  <2>1. /\ phase \in WorkPhases /\ at' = 1 /\ owned' = owned /\ intended' = intended
    BY <1>2 DEF ObserveReady, VerifyComplete, WorkStops, Stop, CheckFree, Advance, recordVars,
       WorkPhases
  <2> QED BY <1>2, <2>1, StopsLower
<1>3. CASE ObserveReady /\ phase' # "reconciling"
  <2>1. /\ phase = "observing" /\ phase' = "probing"
        /\ FinallyLeft' = FinallyLeft /\ FinallyLeft \in Nat
    BY <1>3, Lengths DEF ObserveReady, Stop, recordVars, FinallyLeft
  <2> QED BY <2>1 DEF CallsLeft
<1> QED BY <1>1, <1>2, <1>3 DEF VerifyComplete, WorkStops, Stop

LEMMA CreateLowers ==
  ASSUME KubeInv, KubeInv',
         \/ CreateConfirmed
         \/ \E status \in Interruptions \cup {"failed"} : CreateUnconfirmed(status)
  PROVE  CallsLeft' < CallsLeft
<1>1. intended \in Seq(Target) /\ owned \in Seq(Entry) /\ Creating \in Target
  BY CreatesOf DEF KubeInv, KubeTypeOK
<1>2. Len(intended') = Len(intended) + 1
  BY <1>1 DEF CreateConfirmed, CreateUnconfirmed
<1>3. CASE CreateConfirmed
  <2>1. Len(owned') = Len(owned) + 1
    BY <1>1, <1>3 DEF CreateConfirmed
  <2>2. FinallyLeft' = FinallyLeft + 7 /\ FinallyLeft \in Nat
    BY <1>2, <2>1, Lengths DEF FinallyLeft
  <2>3. \/ phase = "creating" /\ phase' = "creating" /\ at' = at + 1
        \/ phase = "creating" /\ phase' = "observing"
        \/ phase = "probing" /\ phase' = "verifying"
    BY <1>3 DEF CreateConfirmed, Advance
  <2>4. CASE phase = "creating" /\ phase' = "creating" /\ at' = at + 1
    <3>1. CallsLeft' = FinallyLeft + 7 + 8 * (Len(Documents) - (at + 1)) + 18
      BY <2>2, <2>4 DEF CallsLeft
    <3>2. \A f, d, n \in Nat : f + 7 + 8 * (d - (n + 1)) + 18 < f + 8 * (d - n) + 18
      OBVIOUS
    <3>3. CallsLeft = FinallyLeft + 8 * (Len(Documents) - at) + 18
      BY <2>4, Weights
    <3> QED BY <2>2, <3>1, <3>2, <3>3, Lengths
  <2>5. CASE phase = "creating" /\ phase' = "observing"
    <3>1. CallsLeft' = FinallyLeft + 7 + 10
      BY <2>2, <2>5 DEF CallsLeft
    <3> QED BY <2>2, <2>5, <3>1, Lengths, Where, Weights
  <2>6. CASE phase = "probing" /\ phase' = "verifying"
    <3>1. CallsLeft' = FinallyLeft + 7 + 1
      BY <2>2, <2>6 DEF CallsLeft
    <3> QED BY <2>2, <2>6, <3>1, Weights
  <2> QED BY <2>3, <2>4, <2>5, <2>6
<1>4. CASE \E status \in Interruptions \cup {"failed"} : CreateUnconfirmed(status)
  <2>1. /\ phase \in {"creating", "probing"} /\ phase' = "reconciling" /\ at' = 1
        /\ owned' = owned
    BY <1>4 DEF CreateUnconfirmed, Stop
  <2> QED BY <1>2, <2>1, StopsLower DEF WorkPhases
<1> QED BY <1>3, <1>4

LEMMA ReconcileLowers ==
  ASSUME KubeInv, KubeInv', Reconcile \/ ReconcileFails \/ ReconcileEnds
  PROVE  CallsLeft' < CallsLeft
<1>1. /\ phase = "reconciling" /\ intended' = intended /\ at \in 1 .. Len(intended) + 1
  BY DEF Reconcile, ReconcileFails, ReconcileEnds, recordVars, KubeInv, PositionInNames
<1>2. CASE ReconcileEnds
  <2>1. phase' = "cleaning" /\ at' = Len(owned) /\ at = Len(intended) + 1
    BY <1>1, <1>2, Lengths DEF ReconcileEnds
  <2> QED BY <1>1, <2>1, Lengths DEF CallsLeft, FinallyLeft
<1>3. CASE Reconcile \/ ReconcileFails
  <2>1. phase' = "reconciling" /\ at' = at + 1
    BY <1>1, <1>3 DEF Reconcile, ReconcileFails
  <2>2. Len(owned') = Len(owned) \/ Len(owned') = Len(owned) + 1
    <3>1. owned \in Seq(Entry)
      BY DEF KubeInv, KubeTypeOK
    <3>2. owned' = owned \/ \E e : owned' = Append(owned, e)
      BY <1>3 DEF Reconcile, ReconcileFails, recordVars
    <3>3. ASSUME NEW e, owned' = Append(owned, e) PROVE Len(owned') = Len(owned) + 1
      BY <3>1, <3>3
    <3> QED BY <3>2, <3>3
  <2>3. FinallyLeft' <= FinallyLeft + 3 /\ FinallyLeft \in Nat /\ FinallyLeft' \in Nat
    BY <1>1, <2>2, Lengths DEF FinallyLeft
  <2>4. CallsLeft' = FinallyLeft' + 4 - 4 * (at + 1)
    BY <2>1 DEF CallsLeft
  <2>5. CallsLeft = FinallyLeft + 4 - 4 * at
    BY <1>1, Weights
  <2>6. \A f, g, n \in Nat : g <= f + 3 => g + 4 - 4 * (n + 1) < f + 4 - 4 * n
    OBVIOUS
  <2> QED BY <2>3, <2>4, <2>5, <2>6, Lengths
<1> QED BY <1>2, <1>3

LEMMA CleanupLowers ==
  ASSUME KubeInv, KubeInv',
         \/ CleanupLooks \/ Delete \/ DeleteFails \/ WaitEnds \/ Report
         \/ \E cause \in {"deadline", "call"} : CleanupFails(cause)
  PROVE  CallsLeft' < CallsLeft
<1>1. \/ phase = "cleaning" /\ phase' \in {"cleaning", "deleting", "idle"}
      \/ phase = "deleting" /\ phase' \in {"waiting", "cleaning"}
      \/ phase = "waiting" /\ phase' = "cleaning"
  BY DEF CleanupLooks, Delete, DeleteFails, WaitEnds, Report, CleanupFails, NextObject
<1>2. /\ phase' = "cleaning" => at' = at - 1
      /\ phase' \in {"deleting", "waiting"} => at' = at
  BY DEF CleanupLooks, Delete, DeleteFails, WaitEnds, Report, CleanupFails, NextObject
<1> QED BY <1>1, <1>2, Lengths DEF CallsLeft

LEMMA RunsComeDownNext ==
  ASSUME KubeInv, KubeInv', [Next]_vars
  PROVE  RunsComeDown
<1>1. Begin => CallsLeft' = 8 * Len(Documents) + Len(Checked) + 12
  <2> SUFFICES ASSUME Begin PROVE CallsLeft' = 8 * Len(Documents) + Len(Checked) + 12
    OBVIOUS
  <2>1. phase' = "checking" /\ at' = 1 /\ Len(intended') = 0 /\ Len(owned') = 0
    BY DEF Begin
  <2> QED BY <2>1, Lengths DEF CallsLeft, FinallyLeft
<1>2. Progress \/ Failure => CallsLeft' < CallsLeft
  BY WorkLowers, CreateLowers, ReconcileLowers, CleanupLowers DEF Progress, Failure
<1>3. Next /\ ~Begin => UNCHANGED CallsLeft \/ CallsLeft' < CallsLeft
  <2>1. CASE Progress \/ Failure
    BY <1>2, <2>1
  <2>2. CASE WorkerDies
    <3>1. CallsLeft' = 0
      BY <2>2 DEF WorkerDies, CallsLeft
    <3> QED BY <3>1, CallsLeftIsNat
  <2>3. CASE UNCHANGED <<phase, at, recordVars>>
    <3>1. CallsLeft' = CallsLeft
      BY <2>3 DEF CallsLeft, FinallyLeft, recordVars
    <3> QED BY <3>1
  <2>4. CASE CancelArrives \/ DeadlinePasses \/ LateCommit \/ \E t \in Target : Vanish(t) \/ OutsideStep(t)
    BY <2>3, <2>4 DEF CancelArrives, DeadlinePasses, LateCommit, Vanish, OutsideStep
  <2> QED BY <2>1, <2>2, <2>4 DEF Next
<1> QED BY <1>1, <1>2, <1>3, CallsLeftIsNat DEF RunsComeDown

\* Whatever its calls answer and others do, a run makes at most 8 * Len(Documents) +
\* Len(Checked) + 12 steps of its own, those of its finally included: neither the search
\* for uncertain creates nor the deletion of what is found starts anew (kubernetes_executor;
\* KubectlClient.cleanup).
THEOREM RunsAreBounded == Spec => [][RunsComeDown]_vars
<1>1. KubeInv /\ KubeInv' /\ [Next]_vars => [RunsComeDown]_vars
  BY RunsComeDownNext
<1> QED BY <1>1, KubernetesInvariant, PTL DEF Spec
=============================================================================
