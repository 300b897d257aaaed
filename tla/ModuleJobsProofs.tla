-------------------------- MODULE ModuleJobsProofs --------------------------
(***************************************************************************)
(* The controller's safety for any set of jobs, any number of request      *)
(* threads and any number of faults.                                       *)
(***************************************************************************)
EXTENDS ModuleJobs, ModuleWorkerProofs, SequenceTheorems,
        FiniteSetTheorems, WellFoundedInduction

-----------------------------------------------------------------------------
(* The operators the controller is built from.                             *)

\* Every set of numbers that is not empty has a smallest member.
LEMMA SmallestExists ==
  ASSUME NEW S \in SUBSET Nat, S # {}
  PROVE  Smallest(S) \in S
<1>1. PICK j \in S : \A k \in S : ~(<<k, j>> \in OpToRel(<, Nat))
  BY NatLessThanWellFounded, WFMin
<1>2. \A k \in S : j <= k
  <2> SUFFICES ASSUME NEW k \in S PROVE j <= k
    OBVIOUS
  <2>1. ~(k < j)
    BY <1>1 DEF OpToRel
  <2> QED BY <2>1
<1> QED BY <1>2 DEF Smallest

LEMMA FirstOfReserved ==
  ASSUME NEW S \in SUBSET Job
  PROVE  /\ S = {} => FirstOf(S) = NoJob
         /\ S # {} => FirstOf(S) \in S
  BY ControllerAssumption, SmallestExists DEF FirstOf

\* The job shown as active follows the reservations.
Reservations ==
  /\ pending \subseteq Job
  /\ active \in Job \cup {NoJob}
  /\ active = NoJob <=> pending = {}
  /\ active # NoJob => active \in pending

LEMMA ReserveKeepsActive ==
  ASSUME Reservations, NEW j \in Job, Reserve(j)
  PROVE  Reservations' /\ pending' = pending \cup {j}
  BY WorkerAssumption DEF Reservations, Reserve

LEMMA ReleaseKeepsActive ==
  ASSUME Reservations, NEW j \in Job, Release(j)
  PROVE  Reservations' /\ pending' = pending \ {j}
<1>1. pending \ {j} \in SUBSET Job
  BY DEF Reservations
<1>2. FirstOf(pending \ {j}) \in (pending \ {j}) \cup {NoJob}
  BY <1>1, FirstOfReserved
<1>3. pending \ {j} # {} => FirstOf(pending \ {j}) \in pending \ {j}
  BY <1>1, FirstOfReserved
<1>4. pending \ {j} = {} => FirstOf(pending \ {j}) = NoJob
  BY <1>1, FirstOfReserved
<1> QED BY <1>2, <1>3, <1>4, WorkerAssumption DEF Reservations, Release

-----------------------------------------------------------------------------
(* The wire.                                                               *)

WireTyped == queue \in Seq(Call) /\ reply \in [Client -> Reply]

LEMMA NoAnswerTyped == NoReply \in Reply /\ Lost \in Reply
  BY DEF NoReply, Lost, Reply

LEMMA SnapshotAnswer ==
  ASSUME NEW r \in Reply, r.code = "snapshot"
  PROVE  r.status \in Resolved \cup {InFlight}
  BY DEF Reply

LEMMA HealthAnswer ==
  ASSUME NEW r \in Reply, r.code = "health"
  PROVE  r.ready \in BOOLEAN /\ r.instance \in Nat
  BY DEF Reply

LEMMA SendTyped ==
  ASSUME WireTyped, NEW c \in Client, NEW j \in Job,
         NEW kind \in {"health", "submit", "poll", "cancel"}, Send(c, kind, j)
  PROVE  WireTyped'
<1>1. [from |-> c, kind |-> kind, job |-> j] \in Call
  BY DEF Call
<1>2. queue' \in Seq(Call)
  BY <1>1, AppendProperties DEF WireTyped, Send
<1>3. reply' \in [Client -> Reply]
  BY NoAnswerTyped DEF WireTyped, Send
<1> QED BY <1>2, <1>3 DEF WireTyped

LEMMA AbandonTyped ==
  ASSUME queue \in Seq(Call), NEW C, NEW arrives \in BOOLEAN
  PROVE  Abandon(C, arrives) \in Seq(Call)
<1> DEFINE A == Abandon(C, arrives)
<1>1. PICK n \in Nat : queue \in [1 .. n -> Call]
  BY SeqDef
<1>2. ASSUME NEW i \in 1 .. n
      PROVE  A[i] \in Call
  <2>1. queue[i] \in Call /\ i \in DOMAIN queue
    BY <1>1
  <2> DEFINE m == queue[i]
             matters == arrives /\ m.kind \in {"submit", "cancel"}
             gone == [m EXCEPT !.from = Nobody, !.kind = IF matters THEN @ ELSE "dropped"]
  <2>2. A[i] = IF m.from \notin C THEN m ELSE gone
    BY <2>1 DEF Abandon
  <2>3. gone \in Call
    BY <2>1 DEF Call
  <2> QED BY <2>1, <2>2, <2>3
<1>3. A \in [1 .. n -> Call]
  BY <1>1, <1>2 DEF Abandon
<1> QED BY <1>3, SeqDef

-----------------------------------------------------------------------------
(* The inductive invariant.                                                *)

InGet == {"reserving", "polling", "checking", "settling", "confirmed", "cancelling"}
InStart == {"readying", "submitting"}

\* A caller that serves an operation has a job.
Positioned == \A c \in Callers : pc[c] \in InStart \cup InGet => target[c] \in Job

\* Every job that some thread or reservation refers to has its receipt; only
\* start's first call comes before it.
Present ==
  /\ \A c \in Callers : pc[c] \in InGet \cup {"submitting"} => status[target[c]] # "absent"
  /\ \A j \in Job : monitor[j] # "none" => status[j] # "absent"
  /\ \A j \in pending \cup todo : status[j] # "absent"

\* While start waits for its calls it has the lock, and nobody reserves or
\* creates anything meanwhile.
Locked ==
  \A c \in Callers :
    /\ pc[c] \in InStart => lock = c
    /\ pc[c] = "readying" => pending = {} /\ status[target[c]] = "absent"

ControlInv == Positioned /\ Present /\ Locked /\ UnresolvedReserved /\ OneUnresolved

JobsInv == WorkerInv /\ JobsTypeOK /\ ControlInv

\* What every step but the creation of a receipt does to the receipts.
Advance ==
  /\ status' \in [Job -> Status]
  /\ submittedTo' \in [Job -> Nat]
  /\ recovery' \in [Job -> {"none", "replaced", "operator"}]
  /\ \A j \in Job :
       /\ status'[j] = "absent" <=> status[j] = "absent"
       /\ status[j] \in Resolved => status'[j] = status[j] /\ recovery'[j] = recovery[j]

LEMMA StandingStillAdvances ==
  ASSUME JobsTypeOK, UNCHANGED receiptVars
  PROVE  Advance
  BY DEF JobsTypeOK, receiptVars, Advance

LEMMA UpdateAdvances ==
  ASSUME JobsTypeOK, NEW j \in Job, status[j] # "absent",
         NEW s \in Resolved \cup {InFlight, "interrupted"}, Update(j, s)
  PROVE  Advance
  BY DEF JobsTypeOK, Update, Updated, Advance, Status, Resolved, InFlight

LEMMA UpdateRecoveredAdvances ==
  ASSUME JobsTypeOK, NEW j \in Job, status[j] # "absent",
         NEW type \in {"replaced", "operator"}, UpdateRecovered(j, type)
  PROVE  Advance /\ status'[j] \in Resolved
<1> USE DEF JobsTypeOK, UpdateRecovered, Updated, Resolved
<1>1. recovery' \in [Job -> {"none", "replaced", "operator"}]
  OBVIOUS
<1>2. status' \in [Job -> Status] /\ submittedTo' \in [Job -> Nat]
  BY DEF Status
<1>3. \A k \in Job :
        /\ status'[k] = "absent" <=> status[k] = "absent"
        /\ status[k] \in Resolved => status'[k] = status[k] /\ recovery'[k] = recovery[k]
  OBVIOUS
<1> QED BY <1>1, <1>2, <1>3 DEF Advance

\* _monitor is called with what the receipt says, or will say.
LEMMA WatchAdvances ==
  ASSUME JobsTypeOK, NEW j \in Job, status[j] # "absent",
         NEW s \in Resolved \cup {InFlight, "interrupted"},
         status[j] \in Resolved => s = status[j],
         Watch(j, s)
  PROVE  /\ Advance
         /\ status' \in {[status EXCEPT ![j] = s], [status EXCEPT ![j] = "interrupted"]}
         /\ s \in Resolved => status'[j] = s
         /\ monitor' \in {monitor, [monitor EXCEPT ![j] = "begin"]}
         /\ overdue' = overdue
         /\ faults' \in 0 .. MaxFaults
<1> USE DEF Watch, Watchable, monitorVars
<1>1. status' \in {[status EXCEPT ![j] = s], [status EXCEPT ![j] = "interrupted"]}
  OBVIOUS
<1>2. s \in Resolved => status' = [status EXCEPT ![j] = s]
  OBVIOUS
<1>3. Advance
  <2>1. status' \in [Job -> Status]
    BY <1>1 DEF JobsTypeOK, Status, Resolved
  <2>2. UNCHANGED <<submittedTo, recovery>>
    OBVIOUS
  <2>3. \A k \in Job :
          /\ status'[k] = "absent" <=> status[k] = "absent"
          /\ status[k] \in Resolved => status'[k] = status[k]
    BY ZenonT(40), <1>1, <1>2 DEF JobsTypeOK, Resolved, InFlight
  <2> QED BY <2>1, <2>2, <2>3 DEF JobsTypeOK, Advance
<1>4. s \in Resolved => status'[j] = s
  BY <1>2 DEF JobsTypeOK
<1>5. faults' \in 0 .. MaxFaults
  BY ControllerAssumption DEF JobsTypeOK
<1> QED BY <1>1, <1>3, <1>4, <1>5

-----------------------------------------------------------------------------
(* How steps keep the control part, by who takes them.                     *)

LEMMA ReservationsOfInv ==
  JobsTypeOK /\ UnresolvedReserved => Reservations
  BY DEF JobsTypeOK, UnresolvedReserved, Reservations

LEMMA NothingNewIsUnresolved ==
  ASSUME JobsTypeOK, Advance
  PROVE  \A j \in Job : Unresolved(j)' => Unresolved(j)
<1> SUFFICES ASSUME NEW j \in Job, Unresolved(j)'
             PROVE  Unresolved(j)
  OBVIOUS
<1>1. status[j] \in Status
  BY DEF JobsTypeOK
<1>2. status[j] # "absent" /\ status[j] \notin Resolved
  BY DEF Advance, Unresolved, InFlight, Resolved
<1> QED BY <1>1, <1>2 DEF Status, Unresolved

LEMMA KeepsReservations ==
  ASSUME JobsTypeOK, UnresolvedReserved, Advance, UNCHANGED reservationVars
  PROVE  UnresolvedReserved'
  BY NothingNewIsUnresolved DEF UnresolvedReserved, reservationVars

LEMMA AddsReservation ==
  ASSUME JobsTypeOK, UnresolvedReserved, Advance, NEW j \in Job, Reserve(j)
  PROVE  UnresolvedReserved' /\ pending' = pending \cup {j}
  BY NothingNewIsUnresolved, ReservationsOfInv, ReserveKeepsActive
     DEF UnresolvedReserved, Reservations

LEMMA DropsReservation ==
  ASSUME JobsTypeOK, UnresolvedReserved, Advance, NEW j \in Job, Release(j),
         status'[j] \in Resolved
  PROVE  UnresolvedReserved' /\ pending' = pending \ {j}
<1>1. Reservations' /\ pending' = pending \ {j}
  BY ReservationsOfInv, ReleaseKeepsActive
<1>2. ~Unresolved(j)'
  BY DEF Unresolved, Resolved, InFlight
<1> QED BY <1>1, <1>2, NothingNewIsUnresolved DEF UnresolvedReserved, Reservations

LEMMA OneUnresolvedStays ==
  ASSUME JobsTypeOK, OneUnresolved, Advance
  PROVE  OneUnresolved'
  BY NothingNewIsUnresolved DEF OneUnresolved

\* A caller past its first step of get, recover, cancel or close.
LEMMA CallerMoves ==
  ASSUME JobsTypeOK, ControlInv, Advance, UnresolvedReserved',
         NEW c \in Callers, pc[c] \in InGet,
         NEW label \in InGet \cup {"idle", "next"}, pc' = [pc EXCEPT ![c] = label],
         target' = target \/ (label \notin InGet /\ target' = [target EXCEPT ![c] = NoJob]),
         lock' = lock, todo' \subseteq todo,
         monitor' \in {monitor, [monitor EXCEPT ![target[c]] = "begin"]},
         pending' \subseteq pending \/ (LockFree(c) /\ pending' \subseteq pending \cup {target[c]})
  PROVE  ControlInv'
<1> USE DEF ControlInv, InGet, InStart
<1>1. target[c] \in Job /\ status[target[c]] # "absent"
  BY DEF Positioned, Present
<1>2. \A d \in Callers : d # c => pc'[d] = pc[d] /\ target'[d] = target[d]
  BY DEF JobsTypeOK
<1>3. pc'[c] = label /\ (label \in InGet => target'[c] = target[c])
  BY DEF JobsTypeOK
<1>4. Positioned'
  BY <1>1, <1>2, <1>3 DEF Positioned
<1>5. Present'
  <2>1. \A d \in Callers : pc'[d] \in InGet \cup {"submitting"} => status'[target'[d]] # "absent"
    BY <1>1, <1>2, <1>3 DEF Positioned, Present, Advance
  <2>2. \A j \in Job : monitor'[j] # "none" => status'[j] # "absent"
    BY <1>1 DEF JobsTypeOK, Present, Advance
  <2>3. \A j \in pending' \cup todo' : status'[j] # "absent"
    BY <1>1 DEF JobsTypeOK, Present, Advance
  <2> QED BY <2>1, <2>2, <2>3 DEF Present
<1>6. Locked'
  <2> SUFFICES ASSUME NEW d \in Callers, pc'[d] \in InStart
               PROVE  /\ lock' = d
                      /\ pc'[d] = "readying" => pending' = {} /\ status'[target'[d]] = "absent"
    BY DEF Locked
  <2>1. d # c /\ pc[d] \in InStart
    BY <1>2, <1>3
  <2>2. lock = d /\ d # Nobody
    BY <2>1, ControllerAssumption DEF Locked, Callers
  <2>3. pc[d] = "readying" => pending = {} /\ status[target[d]] = "absent"
    BY DEF Locked
  <2>4. pending' \subseteq pending
    BY <2>1, <2>2 DEF LockFree
  <2>5. target[d] \in Job
    BY <2>1 DEF Positioned
  <2> QED BY <1>2, <2>1, <2>2, <2>3, <2>4, <2>5 DEF Advance
<1> QED BY <1>4, <1>5, <1>6, OneUnresolvedStays

LEMMA MonitorMoves ==
  ASSUME JobsTypeOK, ControlInv, Advance, UnresolvedReserved',
         NEW j \in Job, status[j] # "absent", NEW label, monitor' = [monitor EXCEPT ![j] = label],
         UNCHANGED callerVars, pending' \subseteq pending
  PROVE  ControlInv'
<1> USE DEF ControlInv, callerVars, InGet, InStart
<1>1. Positioned'
  BY DEF Positioned
<1>2. Present'
  <2>1. \A c \in Callers : pc[c] \in InGet \cup {"submitting"} => status'[target[c]] # "absent"
    BY DEF Positioned, Present, Advance
  <2>2. \A k \in Job : monitor'[k] # "none" => status'[k] # "absent"
    BY DEF JobsTypeOK, Present, Advance
  <2>3. \A k \in pending' \cup todo : status'[k] # "absent"
    BY DEF JobsTypeOK, Present, Advance
  <2> QED BY <2>1, <2>2, <2>3 DEF Present
<1>3. Locked'
  <2>1. \A c \in Callers : pc[c] = "readying" => status'[target[c]] = "absent"
    BY DEF Positioned, Locked, Advance
  <2> QED BY <2>1 DEF Locked
<1> QED BY <1>1, <1>2, <1>3, OneUnresolvedStays

\* The worker, the wire and the passing of time.
LEMMA OthersMove ==
  ASSUME JobsTypeOK, ControlInv,
         UNCHANGED <<receiptVars, reservationVars, callerVars, monitorVars>>
  PROVE  Advance /\ ControlInv'
<1> USE DEF receiptVars, reservationVars, callerVars, monitorVars
<1>1. Advance
  BY StandingStillAdvances
<1>2. Positioned' /\ Present' /\ Locked'
  BY DEF ControlInv, Positioned, Present, Locked, InGet, InStart
<1>3. UnresolvedReserved' /\ OneUnresolved'
  BY <1>1, KeepsReservations, OneUnresolvedStays DEF ControlInv
<1> QED BY <1>1, <1>2, <1>3 DEF ControlInv

-----------------------------------------------------------------------------
(* One lemma per step of a request thread or of close().                   *)

CallersTyped ==
  /\ closed \in BOOLEAN
  /\ lock \in Caller \cup {Nobody}
  /\ pc \in [Callers -> {"idle", "readying", "submitting", "reserving", "polling",
                         "checking", "settling", "confirmed", "cancelling", "listing",
                         "next"}]
  /\ target \in [Callers -> Job \cup {NoJob}]
  /\ op \in [Callers -> {"none", "start", "get", "recover", "cancel"}]
  /\ todo \subseteq Job

MonitorsTyped ==
  /\ monitor \in [Job -> {"none", "begin", "loop", "recheck", "polling", "cancelling",
                          "exit"}]
  /\ overdue \in [Job -> BOOLEAN]

HistoryTyped ==
  /\ faults \in 0 .. MaxFaults
  /\ ran \in [Job -> Nat]
  /\ outcome \in [Job -> WorkerTerminal \cup {"none"}]

LEMMA PartsOfType ==
  JobsTypeOK => CallersTyped /\ MonitorsTyped /\ WireTyped /\ HistoryTyped
  BY DEF JobsTypeOK, CallersTyped, MonitorsTyped, WireTyped, HistoryTyped

LEMMA TypedByParts ==
  ASSUME Advance, UnresolvedReserved', pending' \subseteq Job,
         CallersTyped', MonitorsTyped', WireTyped', HistoryTyped'
  PROVE  JobsTypeOK'
  BY DEF Advance, UnresolvedReserved, JobsTypeOK, CallersTyped, MonitorsTyped, WireTyped,
         HistoryTyped

LEMMA HasJob ==
  ASSUME JobsTypeOK, ControlInv, NEW c \in Callers, pc[c] \in InGet
  PROVE  target[c] \in Job /\ status[target[c]] # "absent" /\ c \in Client
  BY DEF ControlInv, Positioned, Present, Client

LEMMA GetReserveKeeps ==
  ASSUME JobsTypeOK, ControlInv, NEW c \in Callers, GetReserve(c)
  PROVE  JobsTypeOK' /\ ControlInv' /\ Advance
<1> USE DEF GetReserve, Goto
<1>1. target[c] \in Job /\ status[target[c]] # "absent" /\ c \in Client
  BY HasJob DEF InGet
<1>2. Advance
  BY StandingStillAdvances
<1>3. UnresolvedReserved' /\ pending' = pending \cup {target[c]}
  BY <1>1, <1>2, AddsReservation DEF ControlInv
<1>4. ControlInv'
  BY <1>1, <1>2, <1>3, CallerMoves DEF InGet, monitorVars
<1>5. WireTyped'
  BY <1>1, SendTyped, PartsOfType
<1>6. CallersTyped' /\ MonitorsTyped' /\ HistoryTyped'
  BY PartsOfType DEF CallersTyped, MonitorsTyped, HistoryTyped, monitorVars, historyVars
<1> QED BY <1>1, <1>2, <1>3, <1>4, <1>5, <1>6, TypedByParts DEF JobsTypeOK

\* GetBegin and close()'s next job: the caller enters get.
LEMMA GetReadKeeps ==
  ASSUME JobsTypeOK, ControlInv, NEW c \in Callers, pc[c] \in {"idle", "next"},
         NEW j \in Job, status[j] # "absent",
         NEW o \in {"get", "recover", "cancel"}, GetRead(c, j, o),
         UNCHANGED <<receiptVars, reservationVars, closed, todo, lock, monitorVars>>
  PROVE  CallersTyped' /\ ControlInv' /\ Advance
<1> USE DEF GetRead, receiptVars, reservationVars, monitorVars
<1>1. Advance
  BY StandingStillAdvances
<1>2. UnresolvedReserved' /\ OneUnresolved'
  BY <1>1, KeepsReservations, OneUnresolvedStays DEF ControlInv
<1>3. CallersTyped'
  BY PartsOfType DEF CallersTyped
<1>4. /\ \A d \in Callers : d # c => pc'[d] = pc[d] /\ target'[d] = target[d]
      /\ pc'[c] \in {"reserving", "settling"} /\ target'[c] = j
  BY DEF JobsTypeOK
<1>5. Positioned' /\ Present' /\ Locked'
  BY <1>4 DEF ControlInv, Positioned, Present, Locked, InGet, InStart
<1> QED BY <1>1, <1>2, <1>3, <1>5 DEF ControlInv

LEMMA GetBeginKeeps ==
  ASSUME JobsTypeOK, ControlInv, NEW c \in Caller, NEW j \in Job, NEW o \in Operation,
         GetBegin(c, j, o)
  PROVE  JobsTypeOK' /\ ControlInv' /\ Advance
<1>1. CallersTyped' /\ ControlInv' /\ Advance
  BY GetReadKeeps, ControllerAssumption DEF GetBegin, Callers
<1>2. WireTyped' /\ MonitorsTyped' /\ HistoryTyped'
  BY PartsOfType
     DEF GetBegin, WireTyped, MonitorsTyped, HistoryTyped, wireVars, monitorVars, historyVars
<1> QED BY <1>1, <1>2, TypedByParts DEF GetBegin, ControlInv, JobsTypeOK, reservationVars

LEMMA CloseNextKeeps ==
  ASSUME JobsTypeOK, ControlInv, NEW j \in Job, CloseNext(j)
  PROVE  JobsTypeOK' /\ ControlInv' /\ Advance
<1>1. status[j] # "absent"
  BY DEF CloseNext, ControlInv, Present
<1>2. CallersTyped' /\ ControlInv' /\ Advance
  BY <1>1, GetReadKeeps DEF CloseNext, Callers
<1>3. WireTyped' /\ MonitorsTyped' /\ HistoryTyped'
  BY PartsOfType
     DEF CloseNext, WireTyped, MonitorsTyped, HistoryTyped, wireVars, monitorVars,
         historyVars
<1> QED BY <1>2, <1>3, TypedByParts DEF CloseNext, ControlInv, JobsTypeOK, reservationVars

LEMMA GetSnapshotKeeps ==
  ASSUME JobsTypeOK, ControlInv, NEW c \in Callers, GetSnapshot(c)
  PROVE  JobsTypeOK' /\ ControlInv' /\ Advance
<1> USE DEF GetSnapshot, Goto
<1>1. target[c] \in Job /\ status[target[c]] # "absent" /\ c \in Client
  BY HasJob DEF InGet
<1>2. reply[c].status \in Resolved \cup {InFlight}
  BY <1>1, SnapshotAnswer DEF JobsTypeOK
<1>3. Advance
  BY <1>1, <1>2, UpdateAdvances
<1>4. UnresolvedReserved' /\ OneUnresolved'
  BY <1>3, KeepsReservations, OneUnresolvedStays DEF ControlInv
<1>5. ControlInv'
  BY <1>1, <1>3, <1>4, CallerMoves DEF InGet, monitorVars, reservationVars
<1>6. WireTyped'
  BY PartsOfType, NoAnswerTyped DEF WireTyped
<1>7. CallersTyped' /\ MonitorsTyped' /\ HistoryTyped'
  BY PartsOfType DEF CallersTyped, MonitorsTyped, HistoryTyped, monitorVars, historyVars
<1> QED BY <1>3, <1>4, <1>5, <1>6, <1>7, TypedByParts DEF JobsTypeOK, reservationVars

LEMMA GetMissingKeeps ==
  ASSUME JobsTypeOK, ControlInv, NEW c \in Callers, GetMissing(c)
  PROVE  JobsTypeOK' /\ ControlInv' /\ Advance
<1> USE DEF GetMissing, Goto
<1>1. target[c] \in Job /\ status[target[c]] # "absent" /\ c \in Client
  BY HasJob DEF InGet
<1>2. Advance
  BY StandingStillAdvances
<1>3. UnresolvedReserved'
  BY <1>2, KeepsReservations DEF ControlInv
<1>4. ControlInv'
  BY <1>1, <1>2, <1>3, CallerMoves DEF InGet, monitorVars, reservationVars
<1>5. WireTyped'
  BY <1>1, SendTyped, PartsOfType
<1>6. CallersTyped' /\ MonitorsTyped' /\ HistoryTyped'
  BY PartsOfType DEF CallersTyped, MonitorsTyped, HistoryTyped, monitorVars, historyVars
<1> QED BY <1>2, <1>3, <1>4, <1>5, <1>6, TypedByParts DEF JobsTypeOK, reservationVars

LEMMA GetUnavailableKeeps ==
  ASSUME JobsTypeOK, ControlInv, NEW c \in Callers, GetUnavailable(c)
  PROVE  JobsTypeOK' /\ ControlInv' /\ Advance
<1> USE DEF GetUnavailable, Goto
<1>1. target[c] \in Job /\ status[target[c]] # "absent" /\ c \in Client
  BY HasJob DEF InGet
<1>2. Advance
  BY StandingStillAdvances
<1>3. UnresolvedReserved'
  BY <1>2, KeepsReservations DEF ControlInv
<1>4. ControlInv'
  BY <1>1, <1>2, <1>3, CallerMoves DEF InGet, monitorVars, reservationVars
<1>5. WireTyped'
  BY PartsOfType, NoAnswerTyped DEF WireTyped
<1>6. CallersTyped' /\ MonitorsTyped' /\ HistoryTyped'
  BY PartsOfType DEF CallersTyped, MonitorsTyped, HistoryTyped, monitorVars, historyVars
<1> QED BY <1>2, <1>3, <1>4, <1>5, <1>6, TypedByParts DEF JobsTypeOK, reservationVars

LEMMA GetCheckedKeeps ==
  ASSUME JobsTypeOK, ControlInv, NEW c \in Callers, GetChecked(c)
  PROVE  JobsTypeOK' /\ ControlInv' /\ Advance
<1> USE DEF GetChecked, Goto
<1>1. target[c] \in Job /\ status[target[c]] # "absent" /\ c \in Client
  BY HasJob DEF InGet
<1>2. Advance
  BY <1>1, StandingStillAdvances, UpdateRecoveredAdvances
<1>3. UnresolvedReserved'
  BY <1>2, KeepsReservations DEF ControlInv
<1>4. ControlInv'
  BY <1>1, <1>2, <1>3, CallerMoves DEF InGet, monitorVars, reservationVars
<1>5. WireTyped'
  BY PartsOfType, NoAnswerTyped DEF WireTyped
<1>6. CallersTyped' /\ MonitorsTyped' /\ HistoryTyped'
  BY PartsOfType DEF CallersTyped, MonitorsTyped, HistoryTyped, monitorVars, historyVars
<1> QED BY <1>2, <1>3, <1>4, <1>5, <1>6, TypedByParts DEF JobsTypeOK, reservationVars

\* The end of get: receipts advance and every unresolved one stays reserved.
LEMMA SettleKeeps ==
  ASSUME JobsTypeOK, ControlInv, NEW j \in Job, status[j] # "absent", Settle(j)
  PROVE  /\ Advance /\ UnresolvedReserved' /\ pending' \subseteq pending \cup {j}
         /\ monitor' \in {monitor, [monitor EXCEPT ![j] = "begin"]}
         /\ overdue' = overdue
         /\ faults' \in 0 .. MaxFaults
<1> USE DEF ControlInv, monitorVars, reservationVars
<1>1. CASE status[j] \in Resolved /\ Release(j) /\ UNCHANGED <<receiptVars, monitorVars, faults>>
  <2>1. Advance
    BY <1>1, StandingStillAdvances
  <2>2. status'[j] \in Resolved
    BY <1>1 DEF receiptVars
  <2> QED BY <1>1, <2>1, <2>2, DropsReservation DEF JobsTypeOK
<1>2. CASE UNCHANGED <<receiptVars, reservationVars, monitorVars, faults>>
  <2>1. Advance
    BY <1>2, StandingStillAdvances
  <2> QED BY <1>2, <2>1, KeepsReservations DEF JobsTypeOK
<1>3. CASE Reserve(j) /\ UNCHANGED <<receiptVars, monitorVars, faults>>
  <2>1. Advance
    BY <1>3, StandingStillAdvances
  <2> QED BY <1>3, <2>1, AddsReservation DEF JobsTypeOK
<1>4. CASE status[j] = InFlight /\ Reserve(j) /\ Watch(j, status[j])
  <2>1. /\ Advance
        /\ monitor' \in {monitor, [monitor EXCEPT ![j] = "begin"]}
        /\ overdue' = overdue
        /\ faults' \in 0 .. MaxFaults
    BY <1>4, WatchAdvances
  <2> QED BY <1>4, <2>1, AddsReservation
<1> QED BY <1>1, <1>2, <1>3, <1>4 DEF Settle

LEMMA GetSettleKeeps ==
  ASSUME JobsTypeOK, ControlInv, NEW c \in Callers, GetSettle(c)
  PROVE  JobsTypeOK' /\ ControlInv' /\ Advance
<1>1. target[c] \in Job /\ status[target[c]] # "absent" /\ c \in Client /\ pc[c] \in InGet
  BY HasJob DEF InGet, GetSettle
<1>2. /\ Advance /\ UnresolvedReserved' /\ pending' \subseteq pending \cup {target[c]}
      /\ monitor' \in {monitor, [monitor EXCEPT ![target[c]] = "begin"]}
      /\ overdue' = overdue
      /\ faults' \in 0 .. MaxFaults
  BY <1>1, SettleKeeps DEF GetSettle
<1>3. pending' \subseteq pending \/ (LockFree(c) /\ pending' \subseteq pending \cup {target[c]})
  BY <1>2 DEF GetSettle
<1>4. PICK label \in InGet \cup {"idle", "next"} :
        /\ pc' = [pc EXCEPT ![c] = label]
        /\ target' = target \/ (label \notin InGet /\ target' = [target EXCEPT ![c] = NoJob])
        /\ todo' \subseteq todo
        /\ op' \in {op, [op EXCEPT ![c] = "none"]}
  BY DEF GetSettle, Goto, Return, InGet
<1>5. ControlInv'
  BY <1>1, <1>2, <1>3, <1>4, CallerMoves DEF GetSettle
<1>6. WireTyped'
  BY <1>1, SendTyped, PartsOfType DEF GetSettle, WireTyped, wireVars
<1>7. CallersTyped'
  BY <1>4, PartsOfType DEF GetSettle, CallersTyped, InGet
<1>8. MonitorsTyped' /\ HistoryTyped'
  BY <1>1, <1>2, PartsOfType DEF GetSettle, MonitorsTyped, HistoryTyped, historyVars
<1>9. pending' \subseteq Job
  BY <1>1, <1>2 DEF JobsTypeOK
<1> QED BY <1>2, <1>5, <1>6, <1>7, <1>8, <1>9, TypedByParts

LEMMA RecoverApplyKeeps ==
  ASSUME JobsTypeOK, ControlInv, NEW c \in Callers, RecoverApply(c)
  PROVE  JobsTypeOK' /\ ControlInv' /\ Advance
<1> USE DEF RecoverApply, Return
<1>1. target[c] \in Job /\ status[target[c]] # "absent" /\ c \in Client
  BY HasJob DEF InGet
<1>2. Advance /\ status'[target[c]] \in Resolved
  BY <1>1, UpdateRecoveredAdvances
<1>3. UnresolvedReserved' /\ pending' = pending \ {target[c]}
  BY <1>1, <1>2, DropsReservation DEF ControlInv
<1>4. ControlInv'
  <2> DEFINE label == IF c = Closer THEN "next" ELSE "idle"
  <2>1. /\ label \in InGet \cup {"idle", "next"} /\ label \notin InGet
        /\ pc' = [pc EXCEPT ![c] = label] /\ pc[c] \in InGet
    BY DEF InGet
  <2> QED BY <1>1, <1>2, <1>3, <2>1, CallerMoves DEF monitorVars
<1>5. WireTyped' /\ CallersTyped' /\ MonitorsTyped' /\ HistoryTyped'
  BY PartsOfType
     DEF WireTyped, wireVars, CallersTyped, MonitorsTyped, HistoryTyped, monitorVars,
         historyVars
<1> QED BY <1>2, <1>3, <1>4, <1>5, TypedByParts DEF JobsTypeOK

LEMMA CancelReplyKeeps ==
  ASSUME JobsTypeOK, ControlInv, NEW c \in Callers, CancelReply(c)
  PROVE  JobsTypeOK' /\ ControlInv' /\ Advance
<1> USE DEF CancelReply, Return
<1>1. target[c] \in Job /\ status[target[c]] # "absent" /\ c \in Client
  BY HasJob DEF InGet
<1>2. reply[c].code = "snapshot" => reply[c].status \in Resolved \cup {InFlight}
  BY <1>1, SnapshotAnswer DEF JobsTypeOK
<1>3. Advance
  BY <1>1, <1>2, UpdateAdvances, StandingStillAdvances
<1>4. UnresolvedReserved'
  BY <1>3, KeepsReservations DEF ControlInv
<1>5. ControlInv'
  <2> DEFINE label == IF c = Closer THEN "next" ELSE "idle"
  <2>1. /\ label \in InGet \cup {"idle", "next"} /\ label \notin InGet
        /\ pc' = [pc EXCEPT ![c] = label] /\ pc[c] \in InGet
    BY DEF InGet
  <2> QED BY <1>1, <1>3, <1>4, <2>1, CallerMoves DEF monitorVars, reservationVars
<1>6. WireTyped'
  BY PartsOfType, NoAnswerTyped DEF WireTyped
<1>7. CallersTyped' /\ MonitorsTyped' /\ HistoryTyped'
  BY PartsOfType DEF CallersTyped, MonitorsTyped, HistoryTyped, monitorVars, historyVars
<1> QED BY <1>3, <1>4, <1>5, <1>6, <1>7, TypedByParts DEF JobsTypeOK, reservationVars

-----------------------------------------------------------------------------
(* start and close.                                                        *)

LEMMA OneStarter ==
  ASSUME ControlInv, NEW c \in Callers, pc[c] \in InStart
  PROVE  \A d \in Callers : d # c => pc[d] \notin InStart
  BY DEF ControlInv, Locked

LEMMA StartBeginKeeps ==
  ASSUME JobsTypeOK, ControlInv, NEW c \in Caller, NEW j \in Job, StartBegin(c, j)
  PROVE  JobsTypeOK' /\ ControlInv' /\ Advance
<1> USE DEF StartBegin, Goto
<1>1. Advance
  BY StandingStillAdvances
<1>2. UnresolvedReserved' /\ OneUnresolved'
  BY <1>1, KeepsReservations, OneUnresolvedStays DEF ControlInv
<1>3. c \in Callers /\ c \in Client /\ c # Nobody
  BY ControllerAssumption DEF Callers, Client
<1>4. \A d \in Callers : pc[d] \notin InStart
  BY ControllerAssumption DEF ControlInv, Locked, Callers
<1>5. /\ \A d \in Callers : d # c => pc'[d] = pc[d] /\ target'[d] = target[d]
      /\ pc'[c] = "readying" /\ target'[c] = j
  BY <1>3 DEF JobsTypeOK
<1>6. UNCHANGED <<status, pending, todo, monitor>>
  BY DEF receiptVars, reservationVars, monitorVars
<1>7. Positioned'
  BY <1>5 DEF ControlInv, Positioned
<1>8. Present'
  BY <1>5, <1>6 DEF ControlInv, Present, InGet
<1>9. Locked'
  BY <1>3, <1>4, <1>5, <1>6 DEF Locked, InStart
<1>10. WireTyped'
  BY <1>3, SendTyped, PartsOfType
<1>11. CallersTyped' /\ MonitorsTyped' /\ HistoryTyped'
  BY PartsOfType DEF CallersTyped, MonitorsTyped, HistoryTyped, monitorVars, historyVars
<1>12. JobsTypeOK'
  BY <1>1, <1>2, <1>6, <1>10, <1>11, TypedByParts DEF JobsTypeOK
<1> QED BY <1>1, <1>2, <1>7, <1>8, <1>9, <1>12 DEF ControlInv

\* start ends: the lock is free again and the caller has no job.
LEMMA StartEnds ==
  ASSUME JobsTypeOK, ControlInv, Advance, UnresolvedReserved', pending' \subseteq pending,
         NEW c \in Callers, pc[c] \in InStart, Return(c), lock' = Nobody,
         \A j \in Job : monitor'[j] # "none" => status[j] # "absent"
  PROVE  ControlInv'
<1> USE DEF Return, ControlInv
<1>1. /\ \A d \in Callers : d # c => pc'[d] = pc[d] /\ target'[d] = target[d]
      /\ pc'[c] \in {"idle", "next"}
  BY DEF JobsTypeOK
<1>2. \A d \in Callers : pc'[d] \notin InStart
  BY <1>1, OneStarter DEF InStart
<1>3. Positioned'
  BY <1>1 DEF Positioned, InGet, InStart
<1>4. Present'
  <2>1. \A d \in Callers : pc'[d] \in InGet => status'[target'[d]] # "absent"
    BY <1>1 DEF Positioned, Present, Advance, InGet
  <2>2. \A j \in Job : monitor'[j] # "none" => status'[j] # "absent"
    BY DEF Advance
  <2>3. \A j \in pending' \cup todo' : status'[j] # "absent"
    BY DEF JobsTypeOK, Present, Advance
  <2> QED BY <1>2, <2>1, <2>2, <2>3 DEF Present, InStart
<1>5. Locked'
  BY <1>2 DEF Locked, InStart
<1> QED BY <1>3, <1>4, <1>5, OneUnresolvedStays

LEMMA StartUnavailableKeeps ==
  ASSUME JobsTypeOK, ControlInv, NEW c \in Callers, StartUnavailable(c)
  PROVE  JobsTypeOK' /\ ControlInv' /\ Advance
<1> USE DEF StartUnavailable
<1>1. Advance
  BY StandingStillAdvances
<1>2. UnresolvedReserved'
  BY <1>1, KeepsReservations DEF ControlInv
<1>3. ControlInv'
  BY <1>1, <1>2, StartEnds DEF InStart, ControlInv, Present, monitorVars, reservationVars
<1>4. WireTyped'
  BY PartsOfType, NoAnswerTyped DEF WireTyped
<1>5. CallersTyped' /\ MonitorsTyped' /\ HistoryTyped'
  BY PartsOfType
     DEF Return, CallersTyped, MonitorsTyped, HistoryTyped, monitorVars, historyVars
<1> QED BY <1>1, <1>2, <1>3, <1>4, <1>5, TypedByParts DEF JobsTypeOK, reservationVars

LEMMA StartFinishKeeps ==
  ASSUME JobsTypeOK, ControlInv, NEW c \in Callers, StartFinish(c)
  PROVE  JobsTypeOK' /\ ControlInv' /\ Advance
<1> DEFINE j == target[c]
           s == Updated(j, IF reply[c].code = "snapshot" THEN reply[c].status
                           ELSE "interrupted")
<1>1. j \in Job /\ status[j] # "absent" /\ c \in Client /\ pc[c] \in InStart
  BY DEF StartFinish, ControlInv, Positioned, Present, InStart, Client
<1>2. reply[c].code = "snapshot" => reply[c].status \in Resolved \cup {InFlight}
  BY <1>1, SnapshotAnswer DEF JobsTypeOK
<1>3. s \in Resolved \cup {InFlight, "interrupted"} /\ (status[j] \in Resolved => s = status[j])
  BY <1>2 DEF Updated
<1>4. /\ Watch(j, s)
      /\ \/ s \in Resolved /\ Release(j)
         \/ UNCHANGED reservationVars
  BY DEF StartFinish
<1> HIDE DEF s
<1>5. /\ Advance
      /\ s \in Resolved => status'[j] = s
      /\ monitor' \in {monitor, [monitor EXCEPT ![j] = "begin"]}
      /\ overdue' = overdue
      /\ faults' \in 0 .. MaxFaults
  BY <1>1, <1>3, <1>4, WatchAdvances
<1>6. UnresolvedReserved' /\ pending' \subseteq pending
  BY <1>1, <1>4, <1>5, KeepsReservations, DropsReservation DEF ControlInv, reservationVars
<1>7. \A k \in Job : monitor'[k] # "none" => status[k] # "absent"
  BY <1>1, <1>5 DEF ControlInv, Present, JobsTypeOK
<1>8. ControlInv'
  BY <1>1, <1>5, <1>6, <1>7, StartEnds DEF StartFinish
<1>9. WireTyped'
  BY PartsOfType, NoAnswerTyped DEF WireTyped, StartFinish
<1>10. CallersTyped'
  BY PartsOfType DEF StartFinish, Return, CallersTyped
<1>11. MonitorsTyped' /\ HistoryTyped'
  BY <1>1, <1>5, PartsOfType DEF StartFinish, MonitorsTyped, HistoryTyped, historyVars
<1> QED BY <1>5, <1>6, <1>8, <1>9, <1>10, <1>11, TypedByParts DEF JobsTypeOK

\* The receipt is created: the one step that makes a job unresolved.
LEMMA StartSubmitKeeps ==
  ASSUME JobsTypeOK, ControlInv, NEW c \in Callers, StartSubmit(c)
  PROVE  /\ JobsTypeOK' /\ ControlInv'
         /\ \A j \in Job : status[j] \in Resolved =>
              status'[j] = status[j] /\ recovery'[j] = recovery[j]
<1> DEFINE j == target[c]
<1> USE DEF StartSubmit, Goto
<1>1. j \in Job /\ status[j] = "absent" /\ pending = {} /\ lock = c /\ c \in Client
  BY DEF ControlInv, Positioned, Locked, InStart, Client
<1>2. status' = [status EXCEPT ![j] = InFlight]
  OBVIOUS
<1>3. Reservations' /\ pending' = {j}
  BY <1>1, ReservationsOfInv, ReserveKeepsActive DEF ControlInv
<1>4. \A k \in Job : ~Unresolved(k)
  BY <1>1 DEF ControlInv, UnresolvedReserved
<1>5. \A k \in Job : k # j => status'[k] = status[k]
  BY <1>2 DEF JobsTypeOK
<1>6. status'[j] = InFlight
  BY <1>1, <1>2 DEF JobsTypeOK
<1>7. UnresolvedReserved' /\ OneUnresolved'
  BY <1>3, <1>4, <1>5 DEF UnresolvedReserved, OneUnresolved, Reservations, Unresolved
<1>8. /\ \A d \in Callers : d # c => pc'[d] = pc[d] /\ pc'[d] \notin InStart
      /\ pc'[c] = "submitting"
      /\ UNCHANGED <<target, todo, lock, monitor>>
  BY OneStarter DEF JobsTypeOK, monitorVars, InStart
<1>9. Positioned'
  BY <1>1, <1>8 DEF ControlInv, Positioned, InStart
<1>10. Present'
  <2>1. \A k \in Job : status[k] # "absent" => status'[k] # "absent"
    BY <1>1, <1>5
  <2>2. \A d \in Callers : d # c /\ pc[d] \in InGet => target[d] \in Job
    BY DEF ControlInv, Positioned
  <2>3. \A d \in Callers : pc'[d] \in InGet \cup {"submitting"} => status'[target'[d]] # "absent"
    BY <1>1, <1>6, <1>8, <2>1, <2>2 DEF ControlInv, Present, InGet, InStart, InFlight
  <2>4. \A k \in Job : monitor'[k] # "none" => status'[k] # "absent"
    BY <1>8, <2>1 DEF ControlInv, Present
  <2>5. \A k \in pending' \cup todo' : status'[k] # "absent"
    BY <1>3, <1>6, <1>8, <2>1 DEF ControlInv, Present, JobsTypeOK, InFlight
  <2> QED BY <2>3, <2>4, <2>5 DEF Present
<1>11. Locked'
  BY <1>1, <1>8 DEF Locked, InStart
<1>12. WireTyped'
  BY <1>1, SendTyped, PartsOfType
<1>13. CallersTyped' /\ MonitorsTyped' /\ HistoryTyped'
  BY PartsOfType DEF CallersTyped, MonitorsTyped, HistoryTyped, monitorVars, historyVars
<1>14. reply[c].instance \in Nat
  BY <1>1, HealthAnswer DEF Ready, JobsTypeOK
<1>15. /\ status' \in [Job -> Status]
       /\ submittedTo' \in [Job -> Nat]
       /\ recovery' \in [Job -> {"none", "replaced", "operator"}]
  BY <1>2, <1>14 DEF JobsTypeOK, Status
<1>16. JobsTypeOK'
  BY <1>3, <1>12, <1>13, <1>15
     DEF JobsTypeOK, Reservations, CallersTyped, MonitorsTyped, WireTyped, HistoryTyped
<1>17. \A k \in Job : status[k] \in Resolved => status'[k] = status[k]
  BY <1>1, <1>5 DEF Resolved
<1> QED BY <1>7, <1>9, <1>10, <1>11, <1>16, <1>17 DEF ControlInv

LEMMA CloseBeginKeeps ==
  ASSUME JobsTypeOK, ControlInv, CloseBegin \/ CloseList
  PROVE  JobsTypeOK' /\ ControlInv' /\ Advance
<1> USE DEF CloseBegin, CloseList, Goto, reservationVars, monitorVars
<1>1. Advance
  BY StandingStillAdvances
<1>2. UnresolvedReserved' /\ OneUnresolved'
  BY <1>1, KeepsReservations, OneUnresolvedStays DEF ControlInv
<1>3. /\ \A c \in Callers : pc'[c] \in InStart \cup InGet => pc'[c] = pc[c]
      /\ UNCHANGED <<status, pending, monitor, target, lock>>
      /\ todo' \subseteq todo \cup pending
  BY DEF JobsTypeOK, InStart, InGet, receiptVars
<1>4. Positioned' /\ Present' /\ Locked'
  BY <1>3 DEF ControlInv, Positioned, Present, Locked, InStart, InGet
<1>5. faults' \in 0 .. MaxFaults
  BY ControllerAssumption DEF JobsTypeOK
<1>6. CallersTyped' /\ MonitorsTyped' /\ WireTyped' /\ HistoryTyped'
  BY <1>5, PartsOfType
     DEF CallersTyped, MonitorsTyped, WireTyped, HistoryTyped, wireVars, historyVars,
         JobsTypeOK
<1> QED BY <1>1, <1>2, <1>3, <1>4, <1>6, TypedByParts DEF ControlInv, JobsTypeOK

-----------------------------------------------------------------------------
(* The monitor threads.                                                    *)

LEMMA MonitorStepKeeps ==
  ASSUME JobsTypeOK, ControlInv, NEW j \in Job, MonitorStep(j)
  PROVE  JobsTypeOK' /\ ControlInv' /\ Advance
<1>1. j \in Client /\ monitor[j] # "none" /\ status[j] # "absent"
  <2>1. monitor[j] # "none"
    BY DEF MonitorStep, MonitorBegin, MonitorClosed, MonitorCancel, MonitorPoll,
           MonitorGivesUp, MonitorCancelled, MonitorPolled, MonitorFails, MonitorExit
  <2> QED BY <2>1 DEF Client, ControlInv, Present
<1>2. reply[j].code = "snapshot" =>
        /\ reply[j].status \in Resolved \cup {InFlight}
        /\ TimedOut(reply[j].status) \in Resolved \cup {InFlight}
  BY <1>1, SnapshotAnswer DEF JobsTypeOK, TimedOut, Resolved
<1>3. Advance
  <2>1. CASE UNCHANGED receiptVars
    BY <2>1, StandingStillAdvances
  <2>2. CASE MonitorGivesUp(j) \/ MonitorFails(j)
    BY <1>1, <2>2, UpdateAdvances DEF MonitorGivesUp, MonitorFails
  <2>3. CASE MonitorCancelled(j)
    BY <1>1, <1>2, <2>3, UpdateAdvances DEF MonitorCancelled
  <2>4. CASE MonitorPolled(j)
    <3> DEFINE s == IF overdue[j] THEN TimedOut(reply[j].status) ELSE reply[j].status
    <3>1. s \in Resolved \cup {InFlight} /\ Update(j, s)
      BY <1>2, <2>4 DEF MonitorPolled
    <3> HIDE DEF s
    <3> QED BY <1>1, <3>1, UpdateAdvances
  <2> QED BY <2>1, <2>2, <2>3, <2>4
          DEF MonitorStep, MonitorBegin, MonitorClosed, MonitorCancel, MonitorPoll,
              MonitorExit
<1>4. UnresolvedReserved' /\ pending' \subseteq pending
  <2>1. CASE UNCHANGED reservationVars
    BY <1>3, <2>1, KeepsReservations DEF ControlInv, reservationVars
  <2>2. CASE status'[j] \in Resolved /\ Release(j)
    BY <1>3, <2>2, DropsReservation DEF ControlInv
  <2> QED BY <2>1, <2>2
          DEF MonitorStep, MonitorBegin, MonitorClosed, MonitorCancel, MonitorPoll,
              MonitorGivesUp, MonitorCancelled, MonitorPolled, MonitorFails, MonitorExit,
              receiptVars
<1>5. PICK label \in {"none", "begin", "loop", "recheck", "polling", "cancelling", "exit"} :
        monitor' = [monitor EXCEPT ![j] = label]
  BY DEF MonitorStep, MonitorBegin, MonitorClosed, MonitorCancel, MonitorPoll,
         MonitorGivesUp, MonitorCancelled, MonitorPolled, MonitorFails, MonitorExit, Continue
<1>6. UNCHANGED <<closed, callerVars, faults, historyVars>>
  BY DEF MonitorStep, MonitorBegin, MonitorClosed, MonitorCancel, MonitorPoll,
         MonitorGivesUp, MonitorCancelled, MonitorPolled, MonitorFails, MonitorExit
<1>7. ControlInv'
  BY <1>1, <1>3, <1>4, <1>5, <1>6, MonitorMoves
<1>8. WireTyped'
  <2>1. CASE MonitorCancel(j) \/ MonitorPoll(j)
    BY <1>1, <2>1, SendTyped, PartsOfType DEF MonitorCancel, MonitorPoll
  <2>2. CASE UNCHANGED queue /\ reply' \in {reply, [reply EXCEPT ![j] = NoReply]}
    BY <2>2, NoAnswerTyped, PartsOfType DEF WireTyped
  <2> QED BY <2>1, <2>2
          DEF MonitorStep, MonitorBegin, MonitorClosed, MonitorGivesUp, MonitorCancelled,
              MonitorPolled, MonitorFails, MonitorExit, wireVars
<1>9. overdue' \in [Job -> BOOLEAN]
  BY PartsOfType
     DEF MonitorStep, MonitorBegin, MonitorClosed, MonitorCancel, MonitorPoll,
         MonitorGivesUp, MonitorCancelled, MonitorPolled, MonitorFails, MonitorExit,
         MonitorsTyped
<1>10. CallersTyped' /\ MonitorsTyped' /\ HistoryTyped'
  BY <1>5, <1>6, <1>9, PartsOfType
     DEF CallersTyped, MonitorsTyped, HistoryTyped, callerVars, historyVars
<1> QED BY <1>3, <1>4, <1>7, <1>8, <1>10, TypedByParts DEF JobsTypeOK

-----------------------------------------------------------------------------
(* The wire, the worker and the app process.                               *)

LEMMA ObserveTyped ==
  ASSUME HistoryTyped, WorkerInv', Observe
  PROVE  ran' \in [Job -> Nat] /\ outcome' \in [Job -> WorkerTerminal \cup {"none"}]
<1>1. ran' \in [Job -> Nat]
  BY DEF HistoryTyped, Observe
<1>2. outcome' \in [Job -> WorkerTerminal \cup {"none"}]
  BY DEF HistoryTyped, Observe
<1> QED BY <1>1, <1>2

LEMMA OldestRequest ==
  ASSUME queue \in Seq(Call), queue # << >>
  PROVE  /\ Head(queue) \in Call /\ Tail(queue) \in Seq(Call)
         /\ Head(queue).job \in Job
         /\ Head(queue).from \in Client \cup {Nobody}
<1>1. Head(queue) \in Call /\ Tail(queue) \in Seq(Call)
  BY HeadTailProperties
<1> QED BY <1>1 DEF Call

LEMMA ServedSnapshotTyped ==
  ASSUME NEW s \in WorkerTerminal \cup WorkerActive
  PROVE  Snapshot(s) \in Reply
  BY DEF Snapshot, Reply, Resolved, WorkerTerminal, WorkerActive

LEMMA ServeKeepsWire ==
  ASSUME JobsTypeOK, WorkerInv, Serve
  PROVE  WireTyped'
<1> DEFINE m == Head(queue)
<1>1. m \in Call /\ m.job \in Job /\ m.from \in Client \cup {Nobody} /\ queue' \in Seq(Call)
  BY OldestRequest DEF Serve, JobsTypeOK
<1>2. PICK answer \in Reply : Deliver(m, answer) \/ reply' = reply
  <2>1. Known(m.job) => Snapshot(wstatus[m.job]) \in Reply
    BY <1>1, ServedSnapshotTyped DEF Known, WorkerInv, TypeOK
  <2>2. Snapshot("queued") \in Reply /\ Snapshot("failed") \in Reply
    BY ServedSnapshotTyped DEF WorkerTerminal, WorkerActive
  <2>3. [code |-> "missing"] \in Reply /\ [code |-> "rejected"] \in Reply
    BY DEF Reply
  <2>4. [code |-> "health", ready |-> wready, instance |-> winstance] \in Reply
    BY DEF Reply, WorkerInv, TypeOK
  <2>5. CASE ServeSubmit(m)
    BY <2>2, <2>3, <2>5 DEF ServeSubmit
  <2>6. CASE ServePoll(m)
    BY <2>1, <2>3, <2>6 DEF ServePoll
  <2>7. CASE ServeCancel(m)
    BY <2>1, <2>3, <2>7 DEF ServeCancel, CancelJob
  <2>8. CASE ServeHealth(m)
    BY <2>4, <2>8 DEF ServeHealth
  <2>9. CASE ServeNothing(m)
    BY <2>3, <2>9 DEF ServeNothing
  <2>10. CASE ServeStopped(m)
    BY <2>2, <2>10 DEF ServeStopped
  <2> QED BY <2>5, <2>6, <2>7, <2>8, <2>9, <2>10 DEF Serve
<1>3. reply' \in [Client -> Reply]
  BY <1>1, <1>2 DEF Deliver, JobsTypeOK
<1> QED BY <1>1, <1>3 DEF WireTyped

LEMMA JobsStepIsWorkerStep ==
  ASSUME JobsTypeOK, [Next]_vars
  PROVE  [WorkerNext]_wvars
<1>1. CASE UNCHANGED vars
  BY <1>1 DEF vars
<1>2. CASE Serve
  <2>1. Head(queue).job \in Job
    BY <1>2, OldestRequest DEF Serve, JobsTypeOK
  <2> QED BY <1>2, <2>1
          DEF Serve, ServeSubmit, ServePoll, ServeCancel, ServeHealth, ServeNothing,
              ServeStopped, Request, WorkerNext
<1>3. CASE \/ \E j \in Job : WorkerRuns(j)
           \/ WorkerStops \/ WorkerCloses \/ WorkerWatches
           \/ WorkerExits \/ WorkerDies \/ WorkerStarts
  BY <1>3
     DEF WorkerRuns, WorkerStops, WorkerCloses, WorkerWatches, WorkerExits, WorkerDies,
         WorkerStarts, WorkerNext
<1>4. CASE UNCHANGED wvars
  BY <1>4
<1>5. ASSUME \E c \in Callers : CallerStep(c)
      PROVE  UNCHANGED wvars
  BY <1>5
     DEF CallerStep, StartUnavailable, StartSubmit, StartFinish, GetReserve, GetSnapshot,
         GetMissing, GetUnavailable, GetChecked, GetSettle, RecoverApply, CancelReply
<1>6. ASSUME \E j \in Job : MonitorStep(j)
      PROVE  UNCHANGED wvars
  BY <1>6
     DEF MonitorStep, MonitorBegin, MonitorClosed, MonitorCancel, MonitorPoll,
         MonitorGivesUp, MonitorCancelled, MonitorPolled, MonitorFails, MonitorExit
<1>7. ASSUME \/ \E c \in Caller, j \in Job : StartBegin(c, j)
             \/ \E c \in Caller, j \in Job, o \in Operation : GetBegin(c, j, o)
             \/ CloseBegin \/ CloseList \/ \E j \in Job : CloseNext(j)
             \/ \E c \in Client : CallTimesOut(c)
             \/ AppCrash \/ AppExit
      PROVE  UNCHANGED wvars
  BY <1>7
     DEF StartBegin, GetBegin, CloseBegin, CloseList, CloseNext, CallTimesOut, AppCrash,
         AppExit, Reopen
<1> QED BY <1>1, <1>2, <1>3, <1>4, <1>5, <1>6, <1>7 DEF Next

LEMMA DisconnectTyped ==
  ASSUME WireTyped, Disconnect
  PROVE  WireTyped'
<1>1. queue' \in Seq(Call)
  BY EmptySeq DEF Disconnect
<1>2. reply' \in [Client -> Reply]
  BY NoAnswerTyped DEF WireTyped, Disconnect
<1> QED BY <1>1, <1>2 DEF WireTyped

\* Steps of the wire and of the worker process leave the controller alone.
LEMMA OtherStepsKeep ==
  ASSUME JobsTypeOK, WorkerInv, WorkerInv', ControlInv,
         \/ Serve
         \/ \E c \in Client : CallTimesOut(c)
         \/ \E j \in Job : WorkerRuns(j)
         \/ WorkerStops \/ WorkerCloses \/ WorkerWatches
         \/ WorkerExits \/ WorkerDies \/ WorkerStarts
  PROVE  JobsTypeOK' /\ ControlInv' /\ Advance
<1> USE DEF Serve, ServeStopped, CallTimesOut, WorkerRuns, WorkerStops, WorkerCloses,
            WorkerWatches, WorkerExits, WorkerDies, WorkerStarts
<1>1. UNCHANGED <<receiptVars, reservationVars, closed, callerVars, monitorVars>>
  OBVIOUS
<1>2. Advance /\ ControlInv'
  BY <1>1, OthersMove
<1>3. CallersTyped' /\ MonitorsTyped' /\ pending' \subseteq Job
  BY <1>1, PartsOfType
     DEF CallersTyped, MonitorsTyped, callerVars, monitorVars, reservationVars, JobsTypeOK
<1>4. WireTyped'
  <2>1. CASE Serve
    BY <2>1, ServeKeepsWire
  <2>2. ASSUME NEW c \in Client, CallTimesOut(c)
        PROVE  WireTyped'
    <3>1. queue' \in Seq(Call)
      BY <2>2, AbandonTyped DEF JobsTypeOK
    <3> QED BY <2>2, <3>1, NoAnswerTyped DEF JobsTypeOK, WireTyped
  <2>3. CASE Disconnect
    BY <2>3, DisconnectTyped, PartsOfType
  <2>4. CASE UNCHANGED wireVars
    BY <2>4, PartsOfType DEF WireTyped, wireVars
  <2> QED BY <2>1, <2>2, <2>3, <2>4
<1>5. HistoryTyped'
  <2>1. faults' \in 0 .. MaxFaults
    <3>1. faults' = faults \/ (faults > 0 /\ faults' = faults - 1)
      OBVIOUS
    <3> HIDE DEF Serve, ServeStopped, CallTimesOut, WorkerRuns, WorkerStops, WorkerCloses,
                 WorkerWatches, WorkerExits, WorkerDies, WorkerStarts
    <3> QED BY <3>1, ControllerAssumption DEF JobsTypeOK
  <2>2. ran' \in [Job -> Nat] /\ outcome' \in [Job -> WorkerTerminal \cup {"none"}]
    <3>1. CASE Observe
      BY <3>1, ObserveTyped, PartsOfType
    <3>2. CASE UNCHANGED historyVars
      BY <3>2, PartsOfType DEF HistoryTyped, historyVars
    <3> QED BY <3>1, <3>2
  <2> QED BY <2>1, <2>2 DEF HistoryTyped
<1> QED BY <1>2, <1>3, <1>4, <1>5, TypedByParts DEF ControlInv

\* A new app process reserves and watches what its receipts leave unresolved.
LEMMA ReopenKeeps ==
  ASSUME JobsTypeOK, ControlInv, NEW refused, Reopen(refused), faults' \in 0 .. MaxFaults
  PROVE  JobsTypeOK' /\ ControlInv' /\ Advance
<1> DEFINE unresolved == {j \in Job : Unresolved(j)}
<1> USE DEF Reopen
<1>1. refused \subseteq unresolved
  OBVIOUS
<1>2. \A j \in Job : status'[j] = IF j \in refused THEN "interrupted" ELSE status[j]
  OBVIOUS
<1>3. Advance
  <2>1. \A j \in refused : status[j] # "absent" /\ status[j] \notin Resolved
    BY <1>1 DEF Unresolved, Resolved, InFlight
  <2>2. status' \in [Job -> Status]
    BY DEF JobsTypeOK, Status
  <2>3. UNCHANGED <<submittedTo, recovery>>
    OBVIOUS
  <2>4. \A j \in Job :
          /\ status'[j] = "absent" <=> status[j] = "absent"
          /\ status[j] \in Resolved => status'[j] = status[j]
    BY <1>2, <2>1
  <2> QED BY <2>2, <2>3, <2>4 DEF JobsTypeOK, Advance
<1>4. UnresolvedReserved'
  <2>1. pending' = unresolved /\ active' = FirstOf(unresolved)
    OBVIOUS
  <2>2. /\ unresolved = {} => FirstOf(unresolved) = NoJob
        /\ unresolved # {} => FirstOf(unresolved) \in unresolved
    BY FirstOfReserved
  <2>3. \A j \in Job : Unresolved(j)' => j \in unresolved
    BY <1>3, NothingNewIsUnresolved
  <2> QED BY <2>1, <2>2, <2>3, WorkerAssumption DEF UnresolvedReserved
<1>5. OneUnresolved'
  BY <1>3, OneUnresolvedStays DEF ControlInv
<1>6. \A c \in Callers : pc'[c] = "idle"
  OBVIOUS
<1>7. Positioned' /\ Locked'
  BY <1>6 DEF Positioned, Locked, InStart, InGet
<1>8. Present'
  <2>1. \A j \in unresolved : status'[j] # "absent"
    BY <1>3 DEF Advance, Unresolved, InFlight
  <2>2. \A j \in Job : monitor'[j] # "none" => j \in unresolved
    OBVIOUS
  <2> QED BY <1>6, <2>1, <2>2 DEF Present, InGet
<1>9. CallersTyped'
  BY DEF CallersTyped
<1>10. MonitorsTyped' /\ HistoryTyped'
  BY PartsOfType DEF MonitorsTyped, HistoryTyped, historyVars
<1>11. WireTyped'
  BY AbandonTyped, NoAnswerTyped DEF WireTyped, JobsTypeOK
<1> QED BY <1>3, <1>4, <1>5, <1>7, <1>8, <1>9, <1>10, <1>11, TypedByParts DEF ControlInv

LEMMA RestartKeeps ==
  ASSUME JobsTypeOK, ControlInv, AppCrash \/ AppExit
  PROVE  JobsTypeOK' /\ ControlInv' /\ Advance
<1>1. CASE AppExit
  BY <1>1, ReopenKeeps DEF AppExit, JobsTypeOK
<1>2. CASE AppCrash
  <2>1. PICK refused \in SUBSET Job :
          /\ faults > Cardinality(refused)
          /\ faults' = faults - 1 - Cardinality(refused)
          /\ Reopen(refused)
    BY <1>2 DEF AppCrash
  <2>2. Cardinality(refused) \in Nat
    BY <2>1, WorkerAssumption, FS_Subset, FS_CardinalityType
  <2>3. faults' \in 0 .. MaxFaults
    BY <2>1, <2>2, ControllerAssumption DEF JobsTypeOK
  <2> QED BY <2>1, <2>3, ReopenKeeps
<1> QED BY <1>1, <1>2

-----------------------------------------------------------------------------
(* The theorems.                                                           *)

LEMMA InitEstablishesJobsInv == Init => JobsInv
<1> SUFFICES ASSUME Init PROVE JobsInv
  OBVIOUS
<1> USE DEF Init
<1>1. WorkerInv
  BY InitEstablishesWorkerInv
<1>2. JobsTypeOK
  <2>1. queue \in Seq(Call) /\ reply \in [Client -> Reply]
    BY EmptySeq, NoAnswerTyped
  <2>2. status \in [Job -> Status] /\ faults \in 0 .. MaxFaults
    BY ControllerAssumption DEF Status
  <2> QED BY <2>1, <2>2 DEF JobsTypeOK
<1>3. ControlInv
  BY DEF ControlInv, Positioned, Present, Locked, UnresolvedReserved, OneUnresolved,
         Unresolved, InGet, InStart, InFlight
<1> QED BY <1>1, <1>2, <1>3 DEF JobsInv

\* What every step of the controller and the worker does.
LEMMA JobsStep ==
  ASSUME JobsInv, [Next]_vars
  PROVE  /\ JobsInv'
         /\ \A j \in Job : status[j] \in Resolved =>
              status'[j] = status[j] /\ recovery'[j] = recovery[j]
<1> USE DEF JobsInv
<1>1. WorkerInv'
  BY JobsStepIsWorkerStep, WorkerStepKeeps
<1>2. Advance => \A j \in Job : status[j] \in Resolved =>
                   status'[j] = status[j] /\ recovery'[j] = recovery[j]
  BY DEF Advance
<1>3. CASE UNCHANGED vars
  <2>1. UNCHANGED <<receiptVars, reservationVars, closed, callerVars, monitorVars, wireVars,
                    faults, historyVars>>
    BY <1>3 DEF vars
  <2>2. Advance /\ ControlInv'
    BY <2>1, OthersMove
  <2>3. CallersTyped' /\ MonitorsTyped' /\ WireTyped' /\ HistoryTyped'
    BY <2>1, PartsOfType
       DEF CallersTyped, MonitorsTyped, WireTyped, HistoryTyped, callerVars, monitorVars,
           wireVars, historyVars
  <2>4. pending' \subseteq Job
    BY <2>1 DEF reservationVars, JobsTypeOK
  <2> QED BY <1>1, <1>2, <2>2, <2>3, <2>4, TypedByParts DEF ControlInv
<1>4. CASE \E c \in Caller, j \in Job : StartBegin(c, j)
  BY <1>1, <1>2, <1>4, StartBeginKeeps
<1>5. CASE \E c \in Caller, j \in Job, o \in Operation : GetBegin(c, j, o)
  BY <1>1, <1>2, <1>5, GetBeginKeeps
<1>6. CASE \E c \in Callers : CallerStep(c)
  <2>1. PICK c \in Callers : CallerStep(c)
    BY <1>6
  <2>2. CASE StartSubmit(c)
    BY <1>1, <2>2, StartSubmitKeeps
  <2>3. CASE StartUnavailable(c) \/ StartFinish(c)
    BY <1>1, <1>2, <2>3, StartUnavailableKeeps, StartFinishKeeps
  <2>4. CASE GetReserve(c) \/ GetSnapshot(c) \/ GetMissing(c) \/ GetUnavailable(c)
    BY <1>1, <1>2, <2>4, GetReserveKeeps, GetSnapshotKeeps, GetMissingKeeps,
       GetUnavailableKeeps
  <2>5. CASE GetChecked(c) \/ GetSettle(c) \/ RecoverApply(c) \/ CancelReply(c)
    BY <1>1, <1>2, <2>5, GetCheckedKeeps, GetSettleKeeps, RecoverApplyKeeps,
       CancelReplyKeeps
  <2> QED BY <2>1, <2>2, <2>3, <2>4, <2>5 DEF CallerStep
<1>7. CASE CloseBegin \/ CloseList
  BY <1>1, <1>2, <1>7, CloseBeginKeeps
<1>8. CASE \E j \in Job : CloseNext(j)
  BY <1>1, <1>2, <1>8, CloseNextKeeps
<1>9. CASE \E j \in Job : MonitorStep(j)
  BY <1>1, <1>2, <1>9, MonitorStepKeeps
<1>10. CASE \/ Serve
            \/ \E c \in Client : CallTimesOut(c)
            \/ \E j \in Job : WorkerRuns(j)
            \/ WorkerStops \/ WorkerCloses \/ WorkerWatches
            \/ WorkerExits \/ WorkerDies \/ WorkerStarts
  BY <1>1, <1>2, <1>10, OtherStepsKeep
<1>11. CASE AppCrash \/ AppExit
  BY <1>1, <1>2, <1>11, RestartKeeps
<1> QED BY <1>3, <1>4, <1>5, <1>6, <1>7, <1>8, <1>9, <1>10, <1>11 DEF Next

\* The inductive invariant of the controller composed with the worker.
THEOREM JobsInvariant == Spec => []JobsInv
<1>1. JobsInv /\ [Next]_vars => JobsInv'
  BY JobsStep
<1> QED BY <1>1, InitEstablishesJobsInv, PTL DEF Spec

\* Type correctness of receipts, reservations, threads and messages.
THEOREM JobsTypeCorrect == Spec => []JobsTypeOK
<1>1. JobsInv => JobsTypeOK
  BY DEF JobsInv
<1> QED BY <1>1, JobsInvariant, PTL

\* A receipt without a resolved result always holds its reservation, through
\* restarts, late answers, reconnections and refused threads (module_jobs.py,
\* _reserve, _release and every caller of them).
THEOREM UnresolvedStaysReserved == Spec => []UnresolvedReserved
<1>1. JobsInv => UnresolvedReserved
  BY DEF JobsInv, ControlInv
<1> QED BY <1>1, JobsInvariant, PTL

\* start never creates a second unresolved receipt, for any number of jobs
\* and request threads.
THEOREM SubmissionsOneAtATime == Spec => []OneUnresolved
<1>1. JobsInv => OneUnresolved
  BY DEF JobsInv, ControlInv
<1> QED BY <1>1, JobsInvariant, PTL

\* A resolved receipt is never rewritten (module_jobs.py, _update).
THEOREM ReceiptsAreFinal == Spec => ResolvedIsFinal
<1>1. JobsInv /\ [Next]_vars =>
        [\A j \in Job : status[j] \in Resolved =>
           status'[j] = status[j] /\ recovery'[j] = recovery[j]]_vars
  BY JobsStep
<1> QED BY <1>1, JobsInvariant, PTL DEF Spec, ResolvedIsFinal

\* The worker keeps its own guarantees inside the composition: one operation
\* at a time, each visible to a poll.
THEOREM WorkerGuaranteesKept == Spec => []OneVisibleOperation
<1>1. JobsInv => OneVisibleOperation
  BY DEF JobsInv, WorkerInv, TableAgrees, OneVisibleOperation
<1> QED BY <1>1, JobsInvariant, PTL

\* The composition restricts the worker and adds nothing to it: whatever the
\* controller, the wire and the monitors do, the worker makes its own steps only.
THEOREM ComposedWorker == Spec => WorkerSpec
<1>1. Init => WorkerInit
  BY DEF Init
<1>2. JobsInv /\ [Next]_vars => [WorkerNext]_wvars
  BY JobsStepIsWorkerStep DEF JobsInv
<1> QED BY <1>1, <1>2, JobsInvariant, PTL DEF Spec, WorkerSpec

\* So a stop that strikes while the controller submits reaches the operation,
\* no result the controller may still poll for is rewritten or evicted early,
\* and the process never ends under a live executor.
THEOREM ComposedWorkerKeeps ==
  Spec => /\ []StopReachesOperation
          /\ ResultIsFinal
          /\ OldestResultGoesFirst
          /\ CloseWaitsForExecutor
BY ComposedWorker, StopReaches, ResultsAreFinal, OldestGoFirst, CloseLeavesNoExecutor

\* And a worker to be inspected runs no further job, however often the
\* controller retries, recovers or resubmits (the Kubernetes worker apart).
THEOREM ComposedQuarantine ==
  ASSUME Profile # "k8s-kind"
  PROVE  Spec => QuarantineHolds
BY ComposedWorker, QuarantineLasts
=============================================================================
