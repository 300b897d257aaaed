------------------------- MODULE ModuleWorkerProofs -------------------------
(***************************************************************************)
(* The worker's safety for any set of jobs, any retention limit and any    *)
(* number of restarts.  The inductive invariant ties the three places that *)
(* say a job is at work: its status, its run and the thread close() joins. *)
(***************************************************************************)
EXTENDS ModuleWorker, RetentionFacts

\* The table's status, the run and the thread that close() joins agree.
TableAgrees ==
  \A j \in Job :
    /\ Executing(j) => Active(j) /\ wthread = j
    /\ Active(j) => Executing(j)

\* A worker to be inspected is not ready; only expiry_watch may contradict.
SuspectIsNotReady == Profile # "k8s-kind" => wwatch = "off" /\ (wsuspect => ~wready)

\* Only a closing worker leaves its serve loop, and then every active job
\* has been asked to cancel.
ClosedIsCancelled ==
  wup /\ ~wserving => wclosing /\ \A j \in Job : Active(j) => wcancel[j]

WorkerInv == TypeOK /\ TableAgrees /\ SuspectIsNotReady /\ ClosedIsCancelled

LEMMA InitEstablishesWorkerInv == WorkerInit => WorkerInv
<1> SUFFICES ASSUME WorkerInit PROVE WorkerInv
  OBVIOUS
<1>1. TypeOK
  BY DEF WorkerInit, InitialWatch, EmptyTable, TypeOK
<1>2. TableAgrees
  BY DEF WorkerInit, EmptyTable, TableAgrees, Executing, Active, WorkerActive
<1>3. SuspectIsNotReady /\ ClosedIsCancelled
  BY DEF WorkerInit, InitialWatch, SuspectIsNotReady, ClosedIsCancelled
<1> QED BY <1>1, <1>2, <1>3 DEF WorkerInv

-----------------------------------------------------------------------------
(* One lemma per step of the worker.                                       *)

\* A job enters the table with no other job active.
LEMMA RegisterKeeps ==
  ASSUME WorkerInv, NEW j \in Job, Admits(j), NEW s \in {"queued", "failed"}, Register(j, s),
         wrun' = IF s = "queued" THEN [wrun EXCEPT ![j] = "spawned"] ELSE wrun
  PROVE  /\ TableAgrees'
         /\ wlater' \in [Job -> SUBSET Job]
         /\ wstatus' \in [Job -> WorkerTerminal \cup WorkerActive \cup {"absent"}]
         /\ wcancel' \in [Job -> BOOLEAN]
         /\ wrun' \in [Job -> {"none", "spawned", "executing", "ended"}]
         /\ wthread' \in Job \cup {NoJob}
<1> USE DEF WorkerInv, WorkerActive, WorkerTerminal, Register, TypeOK
<1>1. TableAgrees'
  BY DEF Admits, Known, TableAgrees, Executing, Active
<1>2. wlater' \in [Job -> SUBSET Job] /\ wcancel' \in [Job -> BOOLEAN]
  OBVIOUS
<1>3. wstatus' \in [Job -> WorkerTerminal \cup WorkerActive \cup {"absent"}]
  OBVIOUS
<1>4. wrun' \in [Job -> {"none", "spawned", "executing", "ended"}]
  OBVIOUS
<1> QED BY <1>1, <1>2, <1>3, <1>4

LEMMA SubmitAcceptedKeeps ==
  ASSUME WorkerInv, NEW j \in Job, SubmitAccepted(j)
  PROVE  WorkerInv'
<1> USE DEF WorkerInv, processVars, healthVars, SubmitAccepted
<1>1. TypeOK' /\ TableAgrees'
  BY RegisterKeeps DEF TypeOK
<1>2. SuspectIsNotReady'
  BY DEF SuspectIsNotReady
<1>3. ClosedIsCancelled'
  BY DEF Admits, ClosedIsCancelled
<1> QED BY <1>1, <1>2, <1>3

LEMMA SubmitThreadRefusedKeeps ==
  ASSUME WorkerInv, NEW j \in Job, SubmitThreadRefused(j)
  PROVE  WorkerInv'
<1> USE DEF WorkerInv, processVars, SubmitThreadRefused
<1>1. TypeOK' /\ TableAgrees'
  BY RegisterKeeps DEF TypeOK
<1>2. SuspectIsNotReady'
  BY DEF SuspectIsNotReady
<1>3. ClosedIsCancelled'
  BY DEF Admits, ClosedIsCancelled
<1> QED BY <1>1, <1>2, <1>3

LEMMA SubmitStoppedKeeps ==
  ASSUME WorkerInv, Serving, NEW j \in Job, SubmitStopped(j)
  PROVE  WorkerInv'
<1> USE DEF WorkerInv, SubmitStopped
<1>1. TypeOK' /\ TableAgrees'
  BY RegisterKeeps DEF TypeOK
<1>2. SuspectIsNotReady'
  BY DEF SuspectIsNotReady
<1>3. ClosedIsCancelled'
  BY DEF Serving, ClosedIsCancelled
<1> QED BY <1>1, <1>2, <1>3

LEMMA CancelJobKeeps ==
  ASSUME WorkerInv, NEW j \in Job, CancelJob(j)
  PROVE  WorkerInv'
<1> USE DEF WorkerInv, processVars, healthVars
<1>1. wcancel' \in [Job -> BOOLEAN] /\ \A k \in Job : wcancel[k] => wcancel'[k]
  <2>1. (wcancel[j] \/ Active(j)) \in BOOLEAN
    BY DEF Active
  <2> QED BY <2>1 DEF CancelJob, TypeOK
<1>2. TypeOK'
  BY <1>1 DEF CancelJob, TypeOK
<1>3. TableAgrees' /\ SuspectIsNotReady'
  BY DEF CancelJob, TableAgrees, Executing, Active, SuspectIsNotReady
<1>4. ClosedIsCancelled'
  BY <1>1 DEF CancelJob, ClosedIsCancelled, Active
<1> QED BY <1>2, <1>3, <1>4

LEMMA RunStepKeeps ==
  ASSUME WorkerInv, NEW j \in Job, RunStep(j)
  PROVE  WorkerInv'
<1> USE DEF WorkerInv, WorkerActive, WorkerTerminal, processVars, healthVars
<1>1. CASE RunPrepare(j)
  BY <1>1
     DEF RunPrepare, TypeOK, TableAgrees, Executing, Active, SuspectIsNotReady,
         ClosedIsCancelled
<1>2. CASE RunProgress(j)
  BY <1>2
     DEF RunProgress, TypeOK, TableAgrees, Executing, Active, SuspectIsNotReady,
         ClosedIsCancelled
<1>3. CASE RunPublish(j)
  <2>1. PICK status \in WorkerTerminal, review \in BOOLEAN :
          /\ wstatus' = [wstatus EXCEPT ![j] = status]
          /\ wready' = (wready /\ ~review)
          /\ wsuspect' = (wsuspect \/ review)
    BY <1>3 DEF RunPublish, NeedsDeviceReview
  <2>2. wready' \in BOOLEAN /\ wsuspect' \in BOOLEAN
    BY <2>1
  <2>3. TypeOK'
    BY <1>3, <2>1, <2>2 DEF RunPublish, TypeOK
  <2>4. TableAgrees' /\ ClosedIsCancelled'
    BY <1>3, <2>1
       DEF RunPublish, TypeOK, TableAgrees, Executing, Active, ClosedIsCancelled
  <2>5. wready' = (wready /\ ~review) /\ wsuspect' = (wsuspect \/ review) /\ wwatch' = wwatch
    BY <1>3, <2>1 DEF RunPublish
  <2>6. SuspectIsNotReady'
    BY <2>5, Zenon DEF SuspectIsNotReady
  <2> QED BY <2>3, <2>4, <2>6
<1>4. CASE RunInfrastructureFails(j)
  BY <1>4
     DEF RunInfrastructureFails, TypeOK, TableAgrees, Executing, Active, SuspectIsNotReady,
         ClosedIsCancelled
<1>5. CASE RunRetire(j)
  <2>1. TypeOK' /\ SuspectIsNotReady'
    BY <1>5 DEF RunRetire, TypeOK, SuspectIsNotReady
  <2>2. \A k \in Job : k \in Expired => ~Active(k)
    BY DEF Expired, Ended, Active
  <2>3. TableAgrees' /\ ClosedIsCancelled'
    BY <1>5, <2>2
       DEF RunRetire, TypeOK, TableAgrees, Executing, Active, ClosedIsCancelled
  <2> QED BY <2>1, <2>3
<1> QED BY <1>1, <1>2, <1>3, <1>4, <1>5 DEF RunStep

LEMMA WatchStepKeeps ==
  ASSUME WorkerInv, WatchStep
  PROVE  WorkerInv'
<1> USE DEF WorkerInv, WatchStep, WatchProbe, WatchReports, WatchExpires, processVars,
            tableVars
<1>1. TypeOK'
  BY DEF TypeOK
<1>2. TableAgrees' /\ ClosedIsCancelled'
  BY DEF TableAgrees, Executing, Active, ClosedIsCancelled
<1>3. SuspectIsNotReady'
  BY DEF SuspectIsNotReady
<1> QED BY <1>1, <1>2, <1>3

LEMMA CancelActiveCancels ==
  ASSUME WorkerInv, CancelActive
  PROVE  wcancel' \in [Job -> BOOLEAN] /\ \A j \in Job : Active(j) => wcancel'[j]
<1>1. \A j \in Job : (wcancel[j] \/ Active(j)) \in BOOLEAN
  BY DEF Active
<1> QED BY <1>1 DEF CancelActive

LEMMA ProcessStepKeeps ==
  ASSUME WorkerInv,
         WorkerStopping \/ WorkerClose \/ WorkerJoined \/ WorkerCrash \/ WorkerBoot
  PROVE  WorkerInv'
<1> USE DEF WorkerInv
<1>1. CASE WorkerStopping \/ WorkerClose
  <2> USE DEF WorkerStopping, WorkerClose
  <2>1. CancelActive
    BY <1>1
  <2>2. wready' \in BOOLEAN /\ (wready' => wready)
    BY <1>1
  <2>3. TypeOK'
    BY <1>1, <2>1, <2>2, CancelActiveCancels DEF TypeOK
  <2>4. TableAgrees'
    BY <1>1 DEF TableAgrees, Executing, Active
  <2>5. SuspectIsNotReady'
    BY <1>1, <2>2 DEF SuspectIsNotReady
  <2>6. ClosedIsCancelled'
    BY <1>1, <2>1, CancelActiveCancels DEF ClosedIsCancelled, Active
  <2> QED BY <2>3, <2>4, <2>5, <2>6
<1>2. CASE Gone
  <2>1. TypeOK'
    BY <1>2 DEF Gone, EmptyTableNext, TypeOK
  <2>2. TableAgrees'
    BY <1>2 DEF Gone, EmptyTableNext, TableAgrees, Executing, Active, WorkerActive
  <2>3. SuspectIsNotReady' /\ ClosedIsCancelled'
    BY <1>2 DEF Gone, SuspectIsNotReady, ClosedIsCancelled
  <2> QED BY <2>1, <2>2, <2>3
<1>3. CASE WorkerBoot
  <2>1. UNCHANGED <<wlater, wstatus, wcancel, wrun, wthread>>
    BY <1>3 DEF WorkerBoot, tableVars
  <2>2. TypeOK'
    <3>1. winstance' \in Nat /\ wready' \in BOOLEAN
      BY <1>3 DEF WorkerBoot, TypeOK
    <3>2. wwatch' \in {"off", "waiting", "probing"}
      BY <1>3 DEF WorkerBoot, InitialWatch
    <3>3. /\ wup' \in BOOLEAN /\ wserving' \in BOOLEAN
          /\ wclosing' \in BOOLEAN /\ wsuspect' \in BOOLEAN
      BY <1>3 DEF WorkerBoot
    <3> QED BY <2>1, <3>1, <3>2, <3>3 DEF TypeOK
  <2>3. TableAgrees'
    BY <2>1 DEF TableAgrees, Executing, Active
  <2>4. ClosedIsCancelled'
    BY <1>3 DEF WorkerBoot, ClosedIsCancelled
  <2>5. SuspectIsNotReady'
    BY <1>3 DEF WorkerBoot, InitialWatch, SuspectIsNotReady
  <2> QED BY <2>2, <2>3, <2>4, <2>5
<1> QED BY <1>1, <1>2, <1>3 DEF WorkerJoined, WorkerCrash

LEMMA WorkerStepKeeps ==
  ASSUME WorkerInv, [WorkerNext]_wvars
  PROVE  WorkerInv'
<1>1. CASE UNCHANGED wvars
  BY <1>1
     DEF wvars, WorkerInv, TypeOK, TableAgrees, SuspectIsNotReady, ClosedIsCancelled,
         Executing, Active, WorkerActive, WorkerTerminal
<1>2. CASE \E j \in Job : Request(j)
  BY <1>2, SubmitAcceptedKeeps, SubmitThreadRefusedKeeps, SubmitStoppedKeeps, CancelJobKeeps
     DEF Request
<1>3. CASE \E j \in Job : RunStep(j)
  BY <1>3, RunStepKeeps
<1>4. CASE WatchStep
  BY <1>4, WatchStepKeeps
<1>5. CASE WorkerStopping \/ WorkerClose \/ WorkerJoined \/ WorkerCrash \/ WorkerBoot
  BY <1>5, ProcessStepKeeps
<1> QED BY <1>1, <1>2, <1>3, <1>4, <1>5 DEF WorkerNext

\* The job table, the run of each job and the thread close() joins agree in
\* every reachable state of the worker.
THEOREM WorkerInvariant == WorkerSpec => []WorkerInv
<1>1. WorkerInv /\ [WorkerNext]_wvars => WorkerInv'
  BY WorkerStepKeeps
<1> QED BY <1>1, InitEstablishesWorkerInv, PTL DEF WorkerSpec

\* Type correctness of the worker's state.
THEOREM WorkerTypeCorrect == WorkerSpec => []TypeOK
<1>1. WorkerInv => TypeOK
  BY DEF WorkerInv
<1> QED BY <1>1, WorkerInvariant, PTL

\* At most one executor is live and its job is in the table with an active
\* status: submit's busy check relies on the status alone (module_worker.py,
\* submit and _run).
THEOREM OneOperationAtATime == WorkerSpec => []OneVisibleOperation
<1>1. WorkerInv => OneVisibleOperation
  BY DEF WorkerInv, TableAgrees, OneVisibleOperation
<1> QED BY <1>1, WorkerInvariant, PTL

-----------------------------------------------------------------------------
(* Action properties.                                                      *)

LEMMA TerminalIsNotActive == WorkerTerminal \cap WorkerActive = {}
  BY DEF WorkerTerminal, WorkerActive

LEMMA StepKeepsResult ==
  ASSUME WorkerInv, [WorkerNext]_wvars
  PROVE  \A j \in Job :
           (wstatus[j] \in WorkerTerminal /\ wup') =>
             wstatus'[j] \in {wstatus[j], "absent"}
<1> SUFFICES ASSUME NEW j \in Job, wstatus[j] \in WorkerTerminal, wup'
             PROVE  wstatus'[j] \in {wstatus[j], "absent"}
  OBVIOUS
<1> USE DEF WorkerInv
<1>1. ~Executing(j)
  BY TerminalIsNotActive DEF TableAgrees, Active
<1>2. Known(j)
  BY DEF Known, WorkerTerminal
<1>3. CASE UNCHANGED wvars
  BY <1>3 DEF wvars
<1>4. ASSUME NEW k \in Job, Request(k)
      PROVE  wstatus'[j] = wstatus[j]
  BY <1>2, <1>4
     DEF Request, SubmitAccepted, SubmitThreadRefused, SubmitStopped, CancelJob, Admits,
         Register, TypeOK
<1>5. ASSUME NEW k \in Job, RunStep(k)
      PROVE  wstatus'[j] \in {wstatus[j], "absent"}
  BY <1>1, <1>5
     DEF RunStep, RunPrepare, RunProgress, RunPublish, RunInfrastructureFails, RunRetire,
         TypeOK, Executing
<1>6. CASE \/ WatchStep \/ WorkerStopping \/ WorkerClose \/ WorkerJoined
           \/ WorkerCrash \/ WorkerBoot
  BY <1>6
     DEF WatchStep, WatchProbe, WatchReports, WatchExpires, WorkerStopping, WorkerClose,
         WorkerJoined, WorkerCrash, WorkerBoot, Gone, tableVars
<1> QED BY <1>3, <1>4, <1>5, <1>6 DEF WorkerNext

\* Nothing rewrites the terminal status of a job while the worker lives: not
\* the executor's late progress callbacks, a cancellation or a failing run.
THEOREM ResultsAreFinal == WorkerSpec => ResultIsFinal
<1>1. WorkerInv /\ [WorkerNext]_wvars =>
        [\A j \in Job :
           (wstatus[j] \in WorkerTerminal /\ wup') =>
             wstatus'[j] \in {wstatus[j], "absent"}]_wvars
  BY StepKeepsResult
<1> QED BY <1>1, WorkerInvariant, PTL DEF WorkerSpec, ResultIsFinal

LEMMA StepKeepsQuarantine ==
  ASSUME WorkerInv, [WorkerNext]_wvars, wup, wup', wsuspect, Profile # "k8s-kind"
  PROVE  \A j \in Job : Known(j)' => Known(j)
<1> USE DEF WorkerInv
<1>1. CASE UNCHANGED wvars
  BY <1>1 DEF wvars, Known
<1>2. ASSUME NEW k \in Job, Request(k)
      PROVE  \A j \in Job : Known(j)' => Known(j)
  <2>1. ~Admits(k)
    BY DEF SuspectIsNotReady, Admits
  <2> QED BY <1>2, <2>1
          DEF Request, SubmitAccepted, SubmitThreadRefused, SubmitStopped, CancelJob, Known
<1>3. ASSUME NEW k \in Job, RunStep(k)
      PROVE  \A j \in Job : Known(j)' => Known(j)
  <2>1. Executing(k) => Known(k)
    BY DEF TableAgrees, Active, WorkerActive, Known
  <2> QED BY <1>3, <2>1
          DEF RunStep, RunPrepare, RunProgress, RunPublish, RunInfrastructureFails,
              RunRetire, TypeOK, Executing, Known
<1>4. CASE \/ WatchStep \/ WorkerStopping \/ WorkerClose \/ WorkerJoined
           \/ WorkerCrash \/ WorkerBoot
  BY <1>4
     DEF WatchStep, WatchProbe, WatchReports, WatchExpires, WorkerStopping, WorkerClose,
         WorkerJoined, WorkerCrash, WorkerBoot, Gone, Known, tableVars
<1> QED BY <1>1, <1>2, <1>3, <1>4 DEF WorkerNext

\* A worker to be inspected takes no job until its process is replaced.  The
\* Kubernetes worker is left out: its expiry_watch makes it ready again.
THEOREM QuarantineLasts ==
  ASSUME Profile # "k8s-kind"
  PROVE  WorkerSpec => QuarantineHolds
<1>1. WorkerInv /\ [WorkerNext]_wvars =>
        [(wup /\ wup' /\ wsuspect) => \A j \in Job : Known(j)' => Known(j)]_wvars
  BY StepKeepsQuarantine
<1> QED BY <1>1, WorkerInvariant, PTL DEF WorkerSpec, QuarantineHolds

\* Once the worker serves no more, its active job has been asked to cancel,
\* even one that entered the table while the stop signal was handled
\* (kubernetes_module.py, begin_shutdown and close).
THEOREM StopReaches == WorkerSpec => []StopReachesOperation
<1>1. WorkerInv => StopReachesOperation
  BY DEF WorkerInv, ClosedIsCancelled, StopReachesOperation
<1> QED BY <1>1, WorkerInvariant, PTL

\* When close() has joined the one thread it knows, no executor is at work.
THEOREM CloseLeavesNoExecutor == WorkerSpec => CloseWaitsForExecutor
<1>1. WorkerInv => [WorkerJoined => \A j \in Job : ~Executing(j)]_wvars
  BY DEF WorkerInv, TableAgrees, WorkerJoined, Executing
<1> QED BY <1>1, WorkerInvariant, PTL DEF CloseWaitsForExecutor

-----------------------------------------------------------------------------
(* Eviction.                                                               *)

\* The table is a dictionary that remembers insertion: the jobs in it are in a
\* strict total order, and nothing of a job that is gone is left in it.
TableOrdered ==
  \A j \in Job :
    /\ j \notin wlater[j]
    /\ \A k \in wlater[j] : Known(j) /\ Known(k) /\ wlater[k] \subseteq wlater[j]
    /\ \A k \in Job : Known(j) /\ Known(k) /\ j # k => k \in wlater[j] \/ j \in wlater[k]

\* A job that enters the table is the newest in it.
LEMMA RegisterOrders ==
  ASSUME WorkerInv, TableOrdered, NEW j \in Job, Admits(j), NEW s \in {"queued", "failed"},
         Register(j, s)
  PROVE  TableOrdered'
<1> USE DEF WorkerInv, TypeOK, Register, Admits, Known
<1>1. wlater[j] = {} /\ \A k \in Job : j \notin wlater[k]
  BY DEF TableOrdered
<1>2. wlater'[j] = {} /\ \A k \in Job : wstatus[k] = "absent" => wlater'[k] = {}
  OBVIOUS
<1>3. \A k \in Job : wstatus[k] # "absent" => wlater'[k] = wlater[k] \cup {j}
  OBVIOUS
<1>4. wstatus'[j] # "absent" /\ \A k \in Job : k # j => wstatus'[k] = wstatus[k]
  OBVIOUS
<1>5. ASSUME NEW a \in Job PROVE a \notin wlater'[a]
  BY <1>1, <1>2, <1>3 DEF TableOrdered
<1>6. ASSUME NEW a \in Job, NEW b \in wlater'[a]
      PROVE  wstatus'[a] # "absent" /\ wstatus'[b] # "absent" /\ wlater'[b] \subseteq wlater'[a]
  <2>1. a # j /\ wstatus[a] # "absent" /\ wlater'[a] = wlater[a] \cup {j}
    BY <1>2, <1>3, <1>6
  <2>2. CASE b = j
    BY <1>2, <1>4, <2>1, <2>2
  <2>3. CASE b # j
    <3>1. b \in wlater[a] /\ b \in Job /\ wstatus[b] # "absent" /\ wlater[b] \subseteq wlater[a]
      BY <1>6, <2>1, <2>3 DEF TableOrdered
    <3> QED BY <1>3, <1>4, <2>1, <2>3, <3>1
  <2> QED BY <2>2, <2>3
<1>7. ASSUME NEW a \in Job, NEW b \in Job, a # b, wstatus'[a] # "absent", wstatus'[b] # "absent"
      PROVE  b \in wlater'[a] \/ a \in wlater'[b]
  <2>1. CASE a = j \/ b = j
    BY <1>3, <1>4, <1>7, <2>1
  <2>2. CASE a # j /\ b # j
    BY <1>3, <1>4, <1>7, <2>2 DEF TableOrdered
  <2> QED BY <2>1, <2>2
<1> QED BY <1>5, <1>6, <1>7 DEF TableOrdered

\* What leaves the table leaves the order of the others as it was.
LEMMA RetireOrders ==
  ASSUME WorkerInv, TableOrdered, NEW j \in Job, RunRetire(j)
  PROVE  TableOrdered'
<1> USE DEF WorkerInv, TypeOK, Known
<1>1. Expired \subseteq Job
  BY DEF Expired
<1>2. \A k \in Expired : wlater'[k] = {} /\ wstatus'[k] = "absent"
  BY <1>1 DEF RunRetire
<1>3. \A k \in Job \ Expired : wlater'[k] = wlater[k] \ Expired /\ wstatus'[k] = wstatus[k]
  BY DEF RunRetire
<1>4. \A k \in Job : wlater[k] \subseteq Job
  OBVIOUS
<1> HIDE DEF WorkerInv, TypeOK
<1>5. ASSUME NEW a \in Job PROVE a \notin wlater'[a]
  BY <1>2, <1>3 DEF TableOrdered
<1>6. ASSUME NEW a \in Job, NEW b \in wlater'[a]
      PROVE  wstatus'[a] # "absent" /\ wstatus'[b] # "absent" /\ wlater'[b] \subseteq wlater'[a]
  <2>1. a \notin Expired /\ b \in wlater[a] \ Expired /\ b \in Job
    BY <1>2, <1>3, <1>4, <1>6
  <2> QED BY <1>3, <2>1 DEF TableOrdered
<1>7. ASSUME NEW a \in Job, NEW b \in Job, a # b, wstatus'[a] # "absent", wstatus'[b] # "absent"
      PROVE  b \in wlater'[a] \/ a \in wlater'[b]
  BY <1>2, <1>3, <1>7 DEF TableOrdered
<1> QED BY <1>5, <1>6, <1>7 DEF TableOrdered

LEMMA StepOrders ==
  ASSUME WorkerInv, TableOrdered, [WorkerNext]_wvars
  PROVE  TableOrdered'
<1>1. ASSUME NEW k \in Job, Request(k)
      PROVE  TableOrdered'
  <2>1. CASE SubmitAccepted(k) \/ SubmitThreadRefused(k) \/ SubmitStopped(k)
    BY <2>1, RegisterOrders DEF SubmitAccepted, SubmitThreadRefused, SubmitStopped
  <2>2. CASE CancelJob(k)
    BY <2>2 DEF CancelJob, TableOrdered, Known
  <2> QED BY <1>1, <2>1, <2>2 DEF Request
<1>2. ASSUME NEW k \in Job, RunStep(k)
      PROVE  TableOrdered'
  <2>1. CASE RunRetire(k)
    BY <2>1, RetireOrders
  <2>2. CASE RunPrepare(k) \/ RunProgress(k) \/ RunPublish(k) \/ RunInfrastructureFails(k)
    <3>1. wlater' = wlater /\ Executing(k)
      BY <2>2 DEF RunPrepare, RunProgress, RunPublish, RunInfrastructureFails, Executing
    <3>2. Known(k)
      BY <3>1 DEF WorkerInv, TableAgrees, Active, WorkerActive, Known
    <3>3. \A i \in Job : Known(i)' = Known(i)
      BY <2>2, <3>2
         DEF RunPrepare, RunProgress, RunPublish, RunInfrastructureFails, WorkerInv, TypeOK,
             Known, WorkerTerminal
    <3> QED BY <3>1, <3>3 DEF TableOrdered, WorkerInv, TypeOK
  <2> QED BY <1>2, <2>1, <2>2 DEF RunStep
<1>3. CASE Gone
  BY <1>3 DEF Gone, EmptyTableNext, TableOrdered, Known
<1>4. CASE wlater' = wlater /\ wstatus' = wstatus
  BY <1>4 DEF TableOrdered, Known
<1> QED BY <1>1, <1>2, <1>3, <1>4
        DEF WorkerNext, WatchStep, WatchProbe, WatchReports, WatchExpires, WorkerStopping,
            WorkerClose, WorkerJoined, WorkerCrash, WorkerBoot, tableVars, wvars

\* Insertion order survives every step of the worker.
LEMMA TableStaysOrdered == WorkerSpec => []TableOrdered
<1>1. WorkerInit => TableOrdered
  BY DEF WorkerInit, EmptyTable, TableOrdered, Known
<1>2. WorkerInv /\ TableOrdered /\ [WorkerNext]_wvars => TableOrdered'
  BY StepOrders
<1> QED BY <1>1, <1>2, WorkerInvariant, PTL DEF WorkerSpec

\* What a worker's eviction leaves of the results.
LEMMA RetireKeepsNewest ==
  ASSUME WorkerInv, TableOrdered, NEW j \in Expired
  PROVE  /\ Cardinality({k \in Job : Ended(k) /\ k \notin Expired}) = MaxTerminal
         /\ \A k \in Job : Ended(k) /\ k \notin Expired => k \in wlater[j]
<1> USE WorkerAssumption
<1> DEFINE E == {k \in Job : Ended(k)}
           later == [k \in E |-> {i \in wlater[k] : Ended(i)}]
<1>1. IsFiniteSet(E)
  BY FS_Subset
<1>2. \A k \in E : wlater[k] \subseteq Job /\ Known(k)
  BY DEF WorkerInv, TypeOK, Ended, Known, WorkerTerminal
<1>3. later \in [E -> SUBSET E]
  BY <1>2
<1>4. Orders(later, E)
  BY <1>2, <1>3 DEF TableOrdered, Orders
<1>5. Expired = {k \in E : MaxTerminal <= Cardinality(later[k])}
  BY DEF Expired
<1>6. {k \in Job : Ended(k) /\ k \notin Expired} = {k \in E : Cardinality(later[k]) < MaxTerminal}
  <2>1. \A k \in E : Cardinality(later[k]) \in Nat
    BY <1>1, <1>4, AfterIsCounted
  <2> HIDE DEF later
  <2> QED BY <1>5, <2>1
<1>7. later[j] \subseteq wlater[j]
  BY <1>5
<1> HIDE DEF E, later
<1> QED BY <1>1, <1>4, <1>5, <1>6, <1>7, NewestRemain DEF E

LEMMA StepEvictsOldest ==
  ASSUME WorkerInv, TableOrdered, [WorkerNext]_wvars, NEW j \in Job, Known(j),
         wstatus'[j] = "absent", wup'
  PROVE  /\ Ended(j)
         /\ MaxTerminal = Cardinality({k \in Job : Ended(k) /\ wstatus'[k] # "absent"})
         /\ \A k \in Job : Ended(k) /\ wstatus'[k] # "absent" => k \in wlater[j]
<1>1. PICK i \in Job : RunRetire(i)
  <2>1. ASSUME NEW k \in Job, Request(k)
        PROVE  FALSE
    BY <2>1
       DEF Request, SubmitAccepted, SubmitThreadRefused, SubmitStopped, CancelJob, Register,
           WorkerInv, TypeOK, Known
  <2>2. ASSUME NEW k \in Job,
               RunPrepare(k) \/ RunProgress(k) \/ RunPublish(k) \/ RunInfrastructureFails(k)
        PROVE  FALSE
    BY <2>2
       DEF RunPrepare, RunProgress, RunPublish, RunInfrastructureFails, WorkerInv, TypeOK,
           Known, WorkerTerminal
  <2>3. ~(wstatus' = wstatus \/ Gone)
    BY DEF Gone, Known
  <2> QED BY <2>1, <2>2, <2>3
          DEF WorkerNext, RunStep, WatchStep, WatchProbe, WatchReports, WatchExpires,
              WorkerStopping, WorkerClose, WorkerJoined, WorkerCrash, WorkerBoot, tableVars,
              wvars
<1>2. \A k \in Job : wstatus'[k] = IF k \in Expired THEN "absent" ELSE wstatus[k]
  BY <1>1 DEF RunRetire
<1>3. j \in Expired /\ Ended(j)
  BY <1>2 DEF Known, Expired
<1>4. {k \in Job : Ended(k) /\ wstatus'[k] # "absent"} = {k \in Job : Ended(k) /\ k \notin Expired}
  BY <1>2 DEF Ended, WorkerTerminal
<1> QED BY <1>2, <1>3, <1>4, RetireKeepsNewest

\* A result leaves the table only when MaxTerminal results that were inserted after it
\* stay, so the newest MaxTerminal of them can always be polled (_run, the eviction in
\* its finally clause).
THEOREM OldestGoFirst == WorkerSpec => OldestResultGoesFirst
<1>1. WorkerInv /\ TableOrdered /\ [WorkerNext]_wvars =>
        [\A j \in Job :
           (Known(j) /\ wstatus'[j] = "absent" /\ wup') =>
             /\ Ended(j)
             /\ MaxTerminal = Cardinality({k \in Job : Ended(k) /\ wstatus'[k] # "absent"})
             /\ \A k \in Job : Ended(k) /\ wstatus'[k] # "absent" => k \in wlater[j]]_wvars
  BY StepEvictsOldest
<1> QED BY <1>1, WorkerInvariant, TableStaysOrdered, PTL DEF WorkerSpec, OldestResultGoesFirst
=============================================================================
