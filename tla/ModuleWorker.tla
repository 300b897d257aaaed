---------------------------- MODULE ModuleWorker ----------------------------
(***************************************************************************)
(* The private runtime worker of one profile (module_worker.py): one       *)
(* process that serves /health, /jobs and /jobs/<id>/cancel on a single    *)
(* thread and runs one accepted operation on a background thread.  Its job *)
(* table lives in memory only; every process start draws a new instance    *)
(* identity.                                                               *)
(*                                                                         *)
(* The executor is abstracted to the terminal status it returns.  Its      *)
(* phases compiling, running and verifying are the one value "running".    *)
(***************************************************************************)
EXTENDS Naturals, FiniteSets

CONSTANTS
  Job,           \* job identities a controller may submit
  MaxTerminal,   \* MAX_TERMINAL_JOBS: terminal snapshots the worker retains
  MaxInstance,   \* bound: worker processes started over one behaviour
  Profile,       \* "plain", "gpu" or "k8s-kind"
  NoJob          \* stands for None where a job may be named

ASSUME WorkerAssumption ==
  /\ IsFiniteSet(Job)
  /\ MaxTerminal \in Nat \ {0}
  /\ MaxInstance \in Nat \ {0}
  /\ Profile \in {"plain", "gpu", "k8s-kind"}
  /\ NoJob \notin Job

VARIABLES
  wup,        \* the worker process exists
  winstance,  \* instance_id of the newest worker process
  wserving,   \* the main thread is in serve_forever
  wclosing,   \* WorkerState.closing
  wready,     \* WorkerState.ready
  wwatch,     \* the Kubernetes worker's expiry_watch thread
  wsuspect,   \* history: the worker asked to be inspected and restarted
  wlater,     \* for each job in the table, those inserted after it
  wstatus,    \* status of each job in the table, "absent" for the others
  wcancel,    \* the cancel event of an active job (nothing reads it afterwards)
  wrun,       \* how far _run has come for the job
  wthread     \* the job whose thread WorkerState.thread refers to

processVars == <<wup, winstance, wserving, wclosing>>
healthVars == <<wready, wwatch, wsuspect>>
tableVars == <<wlater, wstatus, wcancel, wrun, wthread>>
wvars == <<wup, winstance, wserving, wclosing, wready, wwatch, wsuspect,
           wlater, wstatus, wcancel, wrun, wthread>>

WorkerTerminal == {"succeeded", "failed", "cancelled", "timed_out"}
WorkerActive == {"queued", "preparing", "running"}

TypeOK ==
  /\ wup \in BOOLEAN
  /\ winstance \in Nat
  /\ wserving \in BOOLEAN
  /\ wclosing \in BOOLEAN
  /\ wready \in BOOLEAN
  /\ wwatch \in {"off", "waiting", "probing"}
  /\ wsuspect \in BOOLEAN
  /\ wlater \in [Job -> SUBSET Job]
  /\ wstatus \in [Job -> WorkerTerminal \cup WorkerActive \cup {"absent"}]
  /\ wcancel \in [Job -> BOOLEAN]
  /\ wrun \in [Job -> {"none", "spawned", "executing", "ended"}]
  /\ wthread \in Job \cup {NoJob}

Known(j) == wstatus[j] # "absent"
Active(j) == wstatus[j] \in WorkerActive
Executing(j) == wrun[j] \in {"spawned", "executing"}

\* Only the Kubernetes worker still serves once it is closing.
Serving == wup /\ wserving

EmptyTable ==
  /\ wlater = [j \in Job |-> {}]
  /\ wstatus = [j \in Job |-> "absent"]
  /\ wcancel = [j \in Job |-> FALSE]
  /\ wrun = [j \in Job |-> "none"]
  /\ wthread = NoJob

EmptyTableNext ==
  /\ wlater' = [j \in Job |-> {}]
  /\ wstatus' = [j \in Job |-> "absent"]
  /\ wcancel' = [j \in Job |-> FALSE]
  /\ wrun' = [j \in Job |-> "none"]
  /\ wthread' = NoJob

InitialWatch == IF Profile = "k8s-kind" THEN "waiting" ELSE "off"

WorkerInit ==
  /\ wup = TRUE
  /\ winstance = 1
  /\ wserving = TRUE
  /\ wclosing = FALSE
  /\ wready \in BOOLEAN
  /\ wwatch = InitialWatch
  /\ wsuspect = FALSE
  /\ EmptyTable

-----------------------------------------------------------------------------
(* Control requests, each served under WorkerState.lock.                   *)

\* Mutant: the busy check is dropped.
AdmitsWhileBusy(j) == ~wclosing /\ wready /\ ~Known(j)

\* Mutant: readiness is not asked for.
AdmitsUnready(j) == ~wclosing /\ ~Known(j) /\ ~ \E k \in Job : Active(k)

Admits(j) ==
  /\ ~wclosing
  /\ wready
  /\ ~Known(j)
  /\ ~ \E k \in Job : Active(k)

\* Mutant: only the first thread is kept for close() to join.
RegisterFirstThread(j, status) ==
  /\ wlater' = [k \in Job |-> IF Known(k) THEN wlater[k] \cup {j} ELSE {}]
  /\ wstatus' = [wstatus EXCEPT ![j] = status]
  /\ wcancel' = [wcancel EXCEPT ![j] = FALSE]
  /\ wthread' = IF wthread = NoJob THEN j ELSE wthread

Register(j, status) ==
  /\ wlater' = [k \in Job |-> IF Known(k) THEN wlater[k] \cup {j} ELSE {}]
  /\ wstatus' = [wstatus EXCEPT ![j] = status]
  /\ wcancel' = [wcancel EXCEPT ![j] = FALSE]
  /\ wthread' = j

SubmitAccepted(j) ==
  /\ Admits(j)
  /\ Register(j, "queued")
  /\ wrun' = [wrun EXCEPT ![j] = "spawned"]
  /\ UNCHANGED <<processVars, healthVars>>

\* The operating system refuses the execution thread.
SubmitThreadRefused(j) ==
  /\ Admits(j)
  /\ Register(j, "failed")
  /\ wready' = FALSE
  /\ wsuspect' = TRUE
  /\ UNCHANGED <<processVars, wwatch, wrun>>

\* SIGTERM strikes the serving thread between submit's checks and the job's
\* entry in the table; the lock is reentrant, so the handler does not wait.
\* The job starts although the worker is closing, and is not cancelled yet.
SubmitStopped(j) ==
  /\ Profile = "k8s-kind"
  /\ Admits(j)
  /\ Register(j, "queued")
  /\ wrun' = [wrun EXCEPT ![j] = "spawned"]
  /\ wclosing' = TRUE
  /\ wready' = FALSE
  /\ UNCHANGED <<wup, winstance, wserving, wwatch, wsuspect>>

\* Mutant: a cancellation records its own verdict.
CancelJobDecides(j) ==
  /\ Known(j)
  /\ wcancel' = [wcancel EXCEPT ![j] = @ \/ Active(j)]
  /\ wstatus' = [wstatus EXCEPT ![j] = "cancelled"]
  /\ UNCHANGED <<processVars, healthVars, wlater, wrun, wthread>>

CancelJob(j) ==
  /\ Known(j)
  /\ wcancel' = [wcancel EXCEPT ![j] = @ \/ Active(j)]
  /\ UNCHANGED <<processVars, healthVars, wlater, wstatus, wrun, wthread>>

-----------------------------------------------------------------------------
(* _run: the execution thread of one job.                                  *)

RunPrepare(j) ==
  /\ wup
  /\ wrun[j] = "spawned"
  /\ wrun' = [wrun EXCEPT ![j] = "executing"]
  /\ wstatus' = [wstatus EXCEPT ![j] = IF @ \in WorkerTerminal THEN @ ELSE "preparing"]
  /\ UNCHANGED <<processVars, healthVars, wlater, wcancel, wthread>>

RunProgress(j) ==
  /\ wup
  /\ wrun[j] = "executing"
  /\ wstatus[j] = "preparing"
  /\ wstatus' = [wstatus EXCEPT ![j] = "running"]
  /\ UNCHANGED <<processVars, healthVars, wlater, wcancel, wrun, wthread>>

\* What the executor may return: cancelled answers a cancel event, success
\* needs the run phase.
ExecutorReturns(j, status) ==
  /\ status = "cancelled" => wcancel[j]
  /\ status = "succeeded" => wstatus[j] = "running"

\* Device work that was cut short or failed may need owner review: the phase
\* it was in, its exit signal and its output decide.
NeedsDeviceReview(status) ==
  {review \in BOOLEAN : review => Profile = "gpu" /\ status # "succeeded"}

\* Mutant: the result of a cancelled run is thrown away.
RunPublishUnlessCancelled(j) ==
  /\ wup
  /\ wrun[j] = "executing"
  /\ \E status \in WorkerTerminal :
       /\ ExecutorReturns(j, status)
       /\ wstatus' = [wstatus EXCEPT ![j] = IF wcancel[j] THEN @ ELSE status]
       /\ \E review \in NeedsDeviceReview(status) :
            /\ wready' = (wready /\ ~review)
            /\ wsuspect' = (wsuspect \/ review)
  /\ wrun' = [wrun EXCEPT ![j] = "ended"]
  /\ wcancel' = [wcancel EXCEPT ![j] = FALSE]
  /\ UNCHANGED <<processVars, wwatch, wlater, wthread>>

RunPublish(j) ==
  /\ wup
  /\ wrun[j] = "executing"
  /\ \E status \in WorkerTerminal :
       /\ ExecutorReturns(j, status)
       /\ wstatus' = [wstatus EXCEPT ![j] = status]
       /\ \E review \in NeedsDeviceReview(status) :
            /\ wready' = (wready /\ ~review)
            /\ wsuspect' = (wsuspect \/ review)
  /\ wrun' = [wrun EXCEPT ![j] = "ended"]
  /\ wcancel' = [wcancel EXCEPT ![j] = FALSE]
  /\ UNCHANGED <<processVars, wwatch, wlater, wthread>>

\* Mutant: the worker uses the controller's word for an unconfirmed outcome.
RunInfrastructureInterrupts(j) ==
  /\ wup
  /\ wrun[j] \in {"spawned", "executing"}
  /\ wstatus' = [wstatus EXCEPT ![j] = "interrupted"]
  /\ wready' = FALSE
  /\ wsuspect' = TRUE
  /\ wrun' = [wrun EXCEPT ![j] = "ended"]
  /\ wcancel' = [wcancel EXCEPT ![j] = FALSE]
  /\ UNCHANGED <<processVars, wwatch, wlater, wthread>>

\* The executor or the scratch directory raised: cleanup is not confirmed.
RunInfrastructureFails(j) ==
  /\ wup
  /\ wrun[j] \in {"spawned", "executing"}
  /\ wstatus' = [wstatus EXCEPT ![j] = "failed"]
  /\ wready' = FALSE
  /\ wsuspect' = TRUE
  /\ wrun' = [wrun EXCEPT ![j] = "ended"]
  /\ wcancel' = [wcancel EXCEPT ![j] = FALSE]
  /\ UNCHANGED <<processVars, wwatch, wlater, wthread>>

Ended(j) == wstatus[j] \in WorkerTerminal

\* Mutant: one result too many is kept.
ExpiredLate == {j \in Job : Ended(j) /\ MaxTerminal < Cardinality({k \in wlater[j] : Ended(k)})}

\* All but the MaxTerminal terminal jobs that were inserted last.
Expired == {j \in Job : Ended(j) /\ MaxTerminal <= Cardinality({k \in wlater[j] : Ended(k)})}

RunRetire(j) ==
  /\ wup
  /\ wrun[j] = "ended"
  /\ wrun' = [wrun EXCEPT ![j] = "none"]
  /\ wlater' = [k \in Job |-> IF k \in Expired THEN {} ELSE wlater[k] \ Expired]
  /\ wstatus' = [k \in Job |-> IF k \in Expired THEN "absent" ELSE wstatus[k]]
  /\ UNCHANGED <<processVars, healthVars, wcancel, wthread>>

RunStep(j) ==
  RunPrepare(j) \/ RunProgress(j) \/ RunPublish(j) \/ RunInfrastructureFails(j)
    \/ RunRetire(j)

-----------------------------------------------------------------------------
(* The Kubernetes worker probes its namespace about every five seconds.     *)

WatchProbe ==
  /\ wup
  /\ wwatch = "waiting"
  /\ ~wclosing
  /\ wwatch' = "probing"
  /\ UNCHANGED <<processVars, wready, wsuspect, tableVars>>

\* The probe takes seconds and no lock; its verdict replaces ready.
WatchReports ==
  /\ wup
  /\ wwatch = "probing"
  /\ wready' \in BOOLEAN
  /\ wwatch' = "waiting"
  /\ UNCHANGED <<processVars, wsuspect, tableVars>>

\* The lease expires too soon for another job.
WatchExpires ==
  /\ wup
  /\ wwatch = "waiting"
  /\ ~wclosing
  /\ wready' = FALSE
  /\ wwatch' = "off"
  /\ UNCHANGED <<processVars, wsuspect, tableVars>>

WatchStep == WatchProbe \/ WatchReports \/ WatchExpires

-----------------------------------------------------------------------------
(* The process.                                                            *)

CancelActive == wcancel' = [j \in Job |-> wcancel[j] \/ Active(j)]

\* The Kubernetes worker's signal handler: begin_shutdown, while the serve
\* loop goes on until another thread has shut it down.
WorkerStopping ==
  /\ Serving
  /\ Profile = "k8s-kind"
  /\ ~wclosing
  /\ wclosing' = TRUE
  /\ wready' = FALSE
  /\ CancelActive
  /\ UNCHANGED <<wup, winstance, wserving, wwatch, wsuspect, wlater, wstatus, wrun, wthread>>

\* Mutant: a worker that is closing already cancels nothing more.
WorkerCloseOnce ==
  /\ Serving
  /\ Profile = "k8s-kind" => wclosing
  /\ wserving' = FALSE
  /\ wclosing' = TRUE
  /\ wready' = (wready /\ Profile # "k8s-kind")
  /\ IF wclosing THEN UNCHANGED wcancel ELSE CancelActive
  /\ UNCHANGED <<wup, winstance, wwatch, wsuspect, wlater, wstatus, wrun, wthread>>

\* The serve loop has ended (a plain worker's signal ends it at once) and
\* server_close calls close(), which cancels the active job.
WorkerClose ==
  /\ Serving
  /\ Profile = "k8s-kind" => wclosing
  /\ wserving' = FALSE
  /\ wclosing' = TRUE
  /\ wready' = (wready /\ Profile # "k8s-kind")
  /\ CancelActive
  /\ UNCHANGED <<wup, winstance, wwatch, wsuspect, wlater, wstatus, wrun, wthread>>

\* What a process that is gone leaves behind is fixed: its memory is lost.
Gone ==
  /\ wup' = FALSE
  /\ wserving' = FALSE
  /\ wclosing' = FALSE
  /\ wready' = FALSE
  /\ wwatch' = "off"
  /\ wsuspect' = FALSE
  /\ EmptyTableNext
  /\ UNCHANGED winstance

\* close() joins the thread it knows and the process ends.
WorkerJoined ==
  /\ wup
  /\ ~wserving
  /\ \A j \in Job : wthread = j => wrun[j] = "none"
  /\ Gone

\* The container is killed, or close() gives up waiting for its thread.
WorkerCrash == wup /\ Gone

\* A new process draws a new identity and probes its profile.
WorkerBoot ==
  /\ ~wup
  /\ winstance < MaxInstance
  /\ wup' = TRUE
  /\ winstance' = winstance + 1
  /\ wserving' = TRUE
  /\ wclosing' = FALSE
  /\ wready' \in BOOLEAN
  /\ wwatch' = InitialWatch
  /\ wsuspect' = FALSE
  /\ UNCHANGED tableVars

-----------------------------------------------------------------------------
(* The worker alone, with a client that may submit and cancel any job.     *)

Request(j) ==
  /\ Serving
  /\ SubmitAccepted(j) \/ SubmitThreadRefused(j) \/ SubmitStopped(j) \/ CancelJob(j)

WorkerNext ==
  \/ \E j \in Job : Request(j)
  \/ \E j \in Job : RunStep(j)
  \/ WatchStep
  \/ WorkerStopping
  \/ WorkerClose
  \/ WorkerJoined
  \/ WorkerCrash
  \/ WorkerBoot

WorkerSpec == WorkerInit /\ [][WorkerNext]_wvars

\* The executor returns within its total deadline and the thread that called
\* it runs on: the scheduling a live worker process has.
WorkerFairSpec == WorkerSpec /\ \A j \in Job : WF_wvars(RunStep(j))

-----------------------------------------------------------------------------
(* Properties.                                                             *)

\* One operation at a time, and never one that polling cannot see: at most
\* one executor is live, and its job is still in the table with an active
\* status (submit's busy check and the eviction at the end of _run).
OneVisibleOperation ==
  \A j \in Job : Executing(j) =>
    /\ Active(j)
    /\ \A k \in Job : Executing(k) => k = j

\* A result stays available to its controller until MaxTerminal jobs inserted
\* after it have ended and are still available: eviction takes the oldest
\* results, never an active job and never more than it must.
OldestResultGoesFirst ==
  [][\A j \in Job :
       (Known(j) /\ wstatus'[j] = "absent" /\ wup') =>
         /\ Ended(j)
         /\ MaxTerminal = Cardinality({k \in Job : Ended(k) /\ wstatus'[k] # "absent"})
         /\ \A k \in Job : Ended(k) /\ wstatus'[k] # "absent" => k \in wlater[j]]_wvars

\* A worker that lost confidence in its cleanup or its device ("inspect and
\* restart this profile") takes no further job while its process lives.
QuarantineHolds ==
  [][(wup /\ wup' /\ wsuspect) => \A j \in Job : Known(j)' => Known(j)]_wvars

\* A terminal status is the run's last word: nothing a later callback, cancel
\* or failure does to the table changes it (it may only be evicted).
ResultIsFinal ==
  [][\A j \in Job :
       (wstatus[j] \in WorkerTerminal /\ wup') =>
         wstatus'[j] \in {wstatus[j], "absent"}]_wvars

\* close() joins only the newest thread, and that is enough: when the join
\* returns no executor is still at work, so no learner process is abandoned.
CloseWaitsForExecutor ==
  [][WorkerJoined => \A j \in Job : ~Executing(j)]_wvars

\* A stop reaches every operation: once the worker serves no more, the active
\* job has been asked to cancel, even one that slipped into the table while
\* the first cancellation was under way.
StopReachesOperation ==
  \A j \in Job : wup /\ ~wserving /\ Active(j) => wcancel[j]

\* Every accepted operation ends, cancelled or not (or its process does).
OperationEnds == \A j \in Job : Active(j) ~> ~Active(j)
=============================================================================
