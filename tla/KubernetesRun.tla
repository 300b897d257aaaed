--------------------------- MODULE KubernetesRun ---------------------------
(***************************************************************************)
(* One-shot runs of the Kubernetes lesson executor against the API server  *)
(* of its scoped cluster (kubernetes_module.py, kubernetes_executor and    *)
(* KubectlClient).  A run refuses to start over existing objects, creates  *)
(* its documents under fixed names, observes them, and in its finally      *)
(* reconciles creates it is unsure of and deletes what it owns by UID.     *)
(*                                                                         *)
(* Every kubectl call is one step: a read or a write of the API server and *)
(* the run's reaction.  The server is external.  A create whose client was *)
(* killed may still commit later; anybody may create or delete objects.    *)
(***************************************************************************)
EXTENDS Naturals, Sequences

CONSTANTS
  Target,      \* the fixed names (kind and name) a lesson may use
  Checked,     \* sequence: the names that must be free before a run
  Documents,   \* sequence: the submitted documents, in creation order
  Observed,    \* the documents whose identity an observation compares
  Probe,       \* the client Job created once a Service is ready
  NoTarget,    \* stands for Probe when the lesson has no Service
  MaxRuns,     \* bound: runs over one behaviour
  MaxOutside   \* bound: objects other actors create or delete

ASSUME KubernetesAssumption ==
  /\ Checked \in Seq(Target)
  /\ Documents \in Seq(Target)
  /\ Checked # << >>
  /\ Documents # << >>
  /\ Observed \subseteq Target
  /\ NoTarget \notin Target
  /\ Probe \in Target \cup {NoTarget}
  /\ MaxRuns \in Nat
  /\ MaxOutside \in Nat

VARIABLES
  object,    \* the API server: the object under each name
  creator,   \* history: the run that created each UID, 0 for other actors
  flight,    \* creates that may still commit after their client is gone
  late,      \* history: the runs with an abandoned create that committed too late
  outside,   \* steps other actors may still take
  run,       \* the nonce of the newest run
  phase,     \* where that run is
  at,        \* the position in the sequence the phase goes through
  intended,  \* names the run has tried to create
  owned,     \* objects the run has a receipt for, in creation order
  cancel,    \* the job's cancel event
  overdue,   \* the deadline of the current part, work or cleanup, has passed
  verdict,   \* the status so far
  cleanupOk, \* cleanup_ok
  result     \* the run's result, "none" before it and after a crash

serverVars == <<object, creator, flight, late, outside>>
clockVars == <<cancel, overdue>>
recordVars == <<intended, owned>>
reportVars == <<verdict, cleanupOk, result>>
vars == <<serverVars, run, phase, at, recordVars, clockVars, reportVars>>

NoObject == [uid |-> 0, dying |-> FALSE]
Entry == [name : Target, uid : Nat]

Exists(t) == object[t] # NoObject
CreatedBy(u) == creator[u]
OfRun(t, n) == Exists(t) /\ CreatedBy(object[t].uid) = n

WorkPhases == {"checking", "creating", "observing", "probing", "verifying"}
CleanupPhases == {"reconciling", "cleaning", "deleting", "waiting"}

KubeTypeOK ==
  /\ object \in [Target -> [uid : Nat, dying : BOOLEAN]]
  /\ creator \in Seq(Nat)
  /\ flight \subseteq Target \X Nat
  /\ late \subseteq Nat
  /\ outside \in 0 .. MaxOutside
  /\ run \in Nat
  /\ phase \in WorkPhases \cup CleanupPhases \cup {"idle"}
  /\ at \in Nat
  /\ intended \in Seq(Target)
  /\ owned \in Seq(Entry)
  /\ cancel \in BOOLEAN
  /\ overdue \in BOOLEAN
  /\ verdict \in {"succeeded", "failed", "cancelled", "timed_out"}
  /\ cleanupOk \in BOOLEAN
  /\ result \in {"none", "succeeded", "failed", "cancelled", "timed_out"}

Init ==
  /\ object = [t \in Target |-> NoObject]
  /\ creator = << >>
  /\ flight = {}
  /\ late = {}
  /\ outside = MaxOutside
  /\ run = 0
  /\ phase = "idle"
  /\ at = 1
  /\ intended = << >>
  /\ owned = << >>
  /\ cancel = FALSE
  /\ overdue = FALSE
  /\ verdict = "failed"
  /\ cleanupOk = TRUE
  /\ result = "none"

-----------------------------------------------------------------------------
(* The API server.                                                         *)

Commit(t, n) ==
  /\ ~Exists(t)
  /\ creator' = Append(creator, n)
  /\ object' = [object EXCEPT ![t] = [uid |-> Len(creator) + 1, dying |-> FALSE]]

\* The run has yet to look up the name of a create it is unsure of.
LooksUp(t, n) ==
  /\ run = n
  /\ phase = "reconciling"
  /\ \E i \in DOMAIN intended : i >= at /\ intended[i] = t

\* An abandoned create takes effect, or finds its name taken or is dropped.
LateCommit ==
  \E c \in flight :
    /\ flight' = flight \ {c}
    /\ \/ /\ Commit(c[1], c[2])
          /\ late' = late \cup (IF LooksUp(c[1], c[2]) THEN {} ELSE {c[2]})
       \/ UNCHANGED <<object, creator, late>>
    /\ UNCHANGED <<outside, run, phase, at, recordVars, clockVars, reportVars>>

\* Foreground deletion is complete.
Vanish(t) ==
  /\ object[t].dying
  /\ object' = [object EXCEPT ![t] = NoObject]
  /\ UNCHANGED <<creator, flight, late, outside, run, phase, at, recordVars, clockVars,
                 reportVars>>

OutsideStep(t) ==
  /\ outside > 0
  /\ outside' = outside - 1
  /\ \/ Commit(t, 0)
     \/ /\ Exists(t)
        /\ object' = [object EXCEPT ![t] = NoObject]
        /\ UNCHANGED creator
  /\ UNCHANGED <<flight, late, run, phase, at, recordVars, clockVars, reportVars>>

-----------------------------------------------------------------------------
(* The work of a run.                                                      *)

Begin ==
  /\ phase = "idle"
  /\ run < MaxRuns
  /\ run' = run + 1
  /\ phase' = "checking"
  /\ at' = 1
  /\ intended' = << >>
  /\ owned' = << >>
  /\ cancel' = FALSE
  /\ overdue' = FALSE
  /\ verdict' = "failed"
  /\ cleanupOk' = TRUE
  /\ result' = "none"
  /\ UNCHANGED serverVars

\* A call that completes does so before the run is interrupted: call and tick
\* ask the event and the deadline first.
Undisturbed == ~cancel /\ ~overdue

\* How a work call may end the work.
Breaks(status) ==
  \/ status = "cancelled" /\ cancel
  \/ status = "timed_out" /\ overdue
  \/ status = "failed"

\* The finally starts with a deadline of its own and ignores cancellation.
Stop(status) ==
  /\ verdict' = status
  /\ phase' = "reconciling"
  /\ at' = 1
  /\ overdue' = FALSE
  /\ UNCHANGED <<cancel, cleanupOk, result>>

Advance(s, following) ==
  IF at < Len(s)
    THEN at' = at + 1 /\ UNCHANGED phase
    ELSE at' = 1 /\ phase' = following

CheckFree ==
  /\ phase = "checking"
  /\ Undisturbed
  /\ ~Exists(Checked[at])
  /\ Advance(Checked, "creating")
  /\ UNCHANGED <<serverVars, run, recordVars, clockVars, reportVars>>

\* A call of the work fails, is interrupted or finds what it must refuse.
WorkStops(status) ==
  /\ phase \in {"checking", "observing", "verifying"}
  /\ Breaks(status)
  /\ Stop(status)
  /\ UNCHANGED <<serverVars, run, recordVars>>

\* The name the run creates next.
Creating == IF phase = "creating" THEN Documents[at] ELSE Probe

CreateConfirmed ==
  LET t == Creating
  IN /\ phase \in {"creating", "probing"}
     /\ Undisturbed
     /\ Commit(t, run)
     /\ intended' = Append(intended, t)
     /\ owned' = Append(owned, [name |-> t, uid |-> Len(creator) + 1])
     /\ IF phase = "creating"
          THEN Advance(Documents, "observing")
          ELSE at' = 1 /\ phase' = "verifying"
     /\ UNCHANGED <<flight, late, outside, run, clockVars, reportVars>>

\* Mutant: a name counts as intended only once its create returned.
CreateForgotten(status) ==
  LET t == Creating
  IN /\ phase \in {"creating", "probing"}
     /\ Breaks(status)
     /\ \/ UNCHANGED <<object, creator, flight>>
        \/ Commit(t, run) /\ UNCHANGED flight
        \/ flight' = flight \cup {<<t, run>>} /\ UNCHANGED <<object, creator>>
     /\ Stop(status)
     /\ UNCHANGED <<late, outside, run, recordVars>>

\* No receipt: the name is taken, the request never left, its answer is lost,
\* or the client was killed while the server still works on it.
CreateUnconfirmed(status) ==
  LET t == Creating
  IN /\ phase \in {"creating", "probing"}
     /\ Breaks(status)
     /\ intended' = Append(intended, t)
     /\ \/ UNCHANGED <<object, creator, flight>>
        \/ Commit(t, run) /\ UNCHANGED flight
        \/ flight' = flight \cup {<<t, run>>} /\ UNCHANGED <<object, creator>>
     /\ Stop(status)
     /\ UNCHANGED <<late, outside, run, owned>>

Unchanged(e) == object[e.name].uid = e.uid

\* The documents are healthy, and are still the ones the run created.
ObserveReady ==
  /\ phase = "observing"
  /\ Undisturbed
  /\ \A i \in DOMAIN owned : owned[i].name \in Observed => Unchanged(owned[i])
  /\ IF Probe = NoTarget
       THEN Stop("succeeded")
       ELSE phase' = "probing" /\ UNCHANGED <<at, clockVars, reportVars>>
  /\ UNCHANGED <<serverVars, run, recordVars>>

VerifyComplete ==
  /\ phase = "verifying"
  /\ Undisturbed
  /\ Unchanged(owned[Len(owned)])
  /\ Stop("succeeded")
  /\ UNCHANGED <<serverVars, run, recordVars>>

-----------------------------------------------------------------------------
(* The finally of a run: reconciliation, then deletion in reverse order.   *)

Confirmed(t) == \E i \in DOMAIN owned : owned[i].name = t

\* Mutant: an object found under an uncertain name counts as the run's own.
ReconcileAdopts ==
  LET t == intended[at]
  IN /\ phase = "reconciling"
     /\ at <= Len(intended)
     /\ Confirmed(t) \/ ~overdue
     /\ owned' = IF ~Confirmed(t) /\ Exists(t)
                   THEN Append(owned, [name |-> t, uid |-> object[t].uid])
                   ELSE owned
     /\ at' = at + 1
     /\ UNCHANGED <<serverVars, run, phase, intended, clockVars, reportVars>>

\* Only an object with this run's nonce is taken over; another is preserved.
Reconcile ==
  LET t == intended[at]
  IN /\ phase = "reconciling"
     /\ at <= Len(intended)
     /\ Confirmed(t) \/ ~overdue
     /\ owned' = IF ~Confirmed(t) /\ OfRun(t, run)
                   THEN Append(owned, [name |-> t, uid |-> object[t].uid])
                   ELSE owned
     /\ cleanupOk' = (cleanupOk /\ (Confirmed(t) \/ ~Exists(t) \/ OfRun(t, run)))
     /\ at' = at + 1
     /\ UNCHANGED <<serverVars, run, phase, intended, clockVars, verdict, result>>

ReconcileFails ==
  /\ phase = "reconciling"
  /\ at <= Len(intended)
  /\ ~Confirmed(intended[at])
  /\ cleanupOk' = FALSE
  /\ at' = at + 1
  /\ UNCHANGED <<serverVars, run, phase, recordVars, clockVars, verdict, result>>

ReconcileEnds ==
  /\ phase = "reconciling"
  /\ at > Len(intended)
  /\ phase' = "cleaning"
  /\ at' = Len(owned)
  /\ UNCHANGED <<serverVars, run, recordVars, clockVars, reportVars>>

\* cleanup is done with one object.
NextObject == phase' = "cleaning" /\ at' = at - 1

CleanupLooks ==
  LET t == owned[at].name
  IN /\ phase = "cleaning"
     /\ at > 0
     /\ ~overdue
     /\ \/ /\ ~Exists(t)
           /\ NextObject
           /\ UNCHANGED cleanupOk
        \/ /\ Exists(t)
           /\ ~Unchanged(owned[at])
           /\ NextObject
           /\ cleanupOk' = FALSE
        \/ /\ Unchanged(owned[at])
           /\ phase' = "deleting"
           /\ UNCHANGED <<at, cleanupOk>>
     /\ UNCHANGED <<serverVars, run, recordVars, clockVars, verdict, result>>

\* Mutant: the deletion carries no UID precondition.
DeleteByName ==
  LET t == owned[at].name
  IN /\ phase = "deleting"
     /\ ~overdue
     /\ Exists(t)
     /\ object' = [object EXCEPT ![t].dying = TRUE]
     /\ phase' = "waiting"
     /\ UNCHANGED <<creator, flight, late, outside, run, at, recordVars, clockVars,
                    reportVars>>

\* The UID precondition makes the comparison atomic with the deletion.
Delete ==
  LET t == owned[at].name
  IN /\ phase = "deleting"
     /\ ~overdue
     /\ Unchanged(owned[at])
     /\ object' = [object EXCEPT ![t].dying = TRUE]
     /\ phase' = "waiting"
     /\ UNCHANGED <<creator, flight, late, outside, run, at, recordVars, clockVars,
                    reportVars>>

\* The call fails; the server may have deleted the object nevertheless.
DeleteFails ==
  LET t == owned[at].name
  IN /\ phase = "deleting"
     /\ \/ UNCHANGED object
        \/ Unchanged(owned[at]) /\ object' = [object EXCEPT ![t].dying = TRUE]
     /\ NextObject
     /\ cleanupOk' = FALSE
     /\ UNCHANGED <<creator, flight, late, outside, run, recordVars, clockVars, verdict,
                    result>>

WaitEnds ==
  LET t == owned[at].name
  IN /\ phase = "waiting"
     /\ ~overdue
     /\ ~Unchanged(owned[at])
     /\ NextObject
     /\ cleanupOk' = (cleanupOk /\ ~Exists(t))
     /\ UNCHANGED <<serverVars, run, recordVars, clockVars, verdict, result>>

\* Mutant: the wait for an object to go has no deadline.
CleanupFailsLooking(cause) ==
  /\ phase = "cleaning"
  /\ at > 0
  /\ cause = "deadline" => overdue
  /\ NextObject
  /\ cleanupOk' = FALSE
  /\ UNCHANGED <<serverVars, run, recordVars, clockVars, verdict, result>>

CleanupFails(cause) ==
  /\ phase \in {"cleaning", "waiting"}
  /\ at > 0
  /\ cause = "deadline" => overdue
  /\ NextObject
  /\ cleanupOk' = FALSE
  /\ UNCHANGED <<serverVars, run, recordVars, clockVars, verdict, result>>

\* Mutant: what the cleanup could not do does not count against the run.
ReportVerdict ==
  /\ phase = "cleaning"
  /\ at = 0
  /\ result' = verdict
  /\ phase' = "idle"
  /\ UNCHANGED <<serverVars, run, at, recordVars, clockVars, verdict, cleanupOk>>

Report ==
  /\ phase = "cleaning"
  /\ at = 0
  /\ result' = IF cleanupOk THEN verdict ELSE "failed"
  /\ phase' = "idle"
  /\ UNCHANGED <<serverVars, run, at, recordVars, clockVars, verdict, cleanupOk>>

-----------------------------------------------------------------------------
(* Interruptions.                                                          *)

CancelArrives ==
  /\ phase # "idle"
  /\ ~cancel
  /\ cancel' = TRUE
  /\ UNCHANGED <<serverVars, run, phase, at, recordVars, overdue, reportVars>>

DeadlinePasses ==
  /\ phase # "idle"
  /\ ~overdue
  /\ overdue' = TRUE
  /\ UNCHANGED <<serverVars, run, phase, at, recordVars, cancel, reportVars>>

\* The worker process dies: the run ends without cleanup or result.
WorkerDies ==
  /\ phase # "idle"
  /\ \/ /\ phase \in {"creating", "probing"}
        /\ flight' = flight \cup {<<Creating, run>>}
     \/ UNCHANGED flight
  /\ phase' = "idle"
  /\ result' = "none"
  /\ cleanupOk' = FALSE
  /\ UNCHANGED <<object, creator, late, outside, run, at, recordVars, clockVars, verdict>>

Interruptions == {"cancelled", "timed_out"}

\* The steps of a run whose calls succeed or are interrupted.
Progress ==
  \/ CheckFree \/ CreateConfirmed \/ ObserveReady \/ VerifyComplete
  \/ \E status \in Interruptions : WorkStops(status) \/ CreateUnconfirmed(status)
  \/ Reconcile \/ ReconcileEnds \/ CleanupLooks \/ Delete \/ WaitEnds \/ Report
  \/ overdue /\ (ReconcileFails \/ DeleteFails)
  \/ CleanupFails("deadline")

\* A call fails without being interrupted.
Failure ==
  \/ WorkStops("failed") \/ CreateUnconfirmed("failed")
  \/ ReconcileFails \/ DeleteFails \/ CleanupFails("call")

Next ==
  \/ Begin
  \/ Progress
  \/ Failure
  \/ CancelArrives
  \/ DeadlinePasses
  \/ WorkerDies
  \/ LateCommit
  \/ \E t \in Target : Vanish(t) \/ OutsideStep(t)

Spec == Init /\ [][Next]_vars

\* Time passes, and a live worker's thread goes on.
FairSpec == Spec /\ WF_vars(Progress) /\ WF_vars(DeadlinePasses)

-----------------------------------------------------------------------------
(* Properties.                                                             *)

\* No old or foreign object is ever adopted, however creates, lost answers and
\* other actors interleave: the run's receipts name objects it created.
OwnsOnlyItsOwn ==
  \A i \in DOMAIN owned : owned[i].uid \in DOMAIN creator /\ CreatedBy(owned[i].uid) = run

\* The executor never deletes a replacement or an unrelated object, even one
\* that takes the name between its look and its deletion.
DeletesOnlyItsOwn ==
  [][\A t \in Target : (Delete \/ DeleteFails) /\ object'[t] # object[t] =>
       OfRun(t, run)]_vars

\* A cleanup that reports success leaves nothing of the run behind, but for a
\* create that committed after its name had been looked up.
CleanupLeavesOnlyLate ==
  phase = "idle" /\ result # "none" /\ cleanupOk /\ run \notin late =>
    \A t \in Target : ~OfRun(t, run)

\* A succeeded run leaves nothing of itself at all, not even on its way.
SuccessLeavesNothing ==
  result = "succeeded" =>
    \A t \in Target : ~OfRun(t, run) /\ <<t, run>> \notin flight

\* Every run comes to its end, whatever objects refuse to go away.
RunEnds == phase # "idle" ~> phase = "idle"

-----------------------------------------------------------------------------
(* What runs promise (OwnedObjects), and how they keep it.                 *)

Owner == [t \in Target |-> IF Exists(t) THEN {CreatedBy(object[t].uid)} ELSE {}]
Going == {t \in Target : object[t].dying}
Made  == {owned[i].name : i \in DOMAIN owned}
Needed == {Documents[i] : i \in DOMAIN Documents} \cup ({Probe} \ {NoTarget})

Cluster == INSTANCE OwnedObjects
  WITH owner <- Owner, going <- Going, sent <- flight, live <- (phase # "idle"), made <- Made

\* Every call of the executor, late creates, lost answers and dead workers included, is
\* one of these promises kept or is not seen in the cluster: no replacement and no object
\* of another run or actor is deleted, and a success made every document and left none.
RunsOwnTheirObjects == Cluster!OwnedSpec
=============================================================================
