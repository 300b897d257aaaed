------------------------- MODULE JobReceiptsProofs -------------------------
(***************************************************************************)
(* What a receipt says is what the worker did.  The inductive invariant    *)
(* follows a job from its one submission to its one verdict: each client   *)
(* waits for at most one answer, a submission is ahead of every other      *)
(* request about its job, the worker's table agrees with the history of    *)
(* what it did, and every answer on its way tells the truth.  With it the  *)
(* controller and the worker implement JobReceipts.                        *)
(***************************************************************************)
EXTENDS ModuleJobsProofs

-----------------------------------------------------------------------------
(* The inductive invariant.                                                *)

\* The job a client's outstanding call is about.
JobOf(c) == IF c \in Job THEN c ELSE target[c]

\* A request that somebody waits for is its client's only one, is about the
\* job the client handles, and has not been answered.
OutstandingCalls ==
  \A c \in Client : \A i \in DOMAIN queue :
    queue[i].from = c =>
      /\ Waiting(c)
      /\ reply[c] = NoReply
      /\ queue[i].job = JobOf(c)
      /\ \A k \in DOMAIN queue : queue[k].from = c => k = i

AboutReceipt == {"submit", "poll", "cancel"}

\* A request about a job follows its receipt, and never precedes the job's
\* submission: a submission is queued once and served before any poll.
SubmissionFirst ==
  /\ \A i \in DOMAIN queue :
       queue[i].kind \in AboutReceipt => status[queue[i].job] # "absent"
  /\ \A i, k \in DOMAIN queue :
       queue[i].kind \in AboutReceipt /\ queue[k].kind = "submit"
         /\ queue[i].job = queue[k].job => k <= i

\* The worker does not hold the job and never will.
Over(j) == ~Known(j) /\ ~SubmissionQueued(j)

\* The job table agrees with what the worker did so far.
HistoryAgrees ==
  \A j \in Job :
    /\ status[j] = "absent" \/ SubmissionQueued(j) =>
         ~Known(j) /\ ran[j] = 0 /\ outcome[j] = "none"
    /\ wrun[j] = "spawned" => ran[j] = 0
    /\ wrun[j] = "executing" => ran[j] = 1
    /\ ran[j] \in {0, 1}
    /\ Active(j) => outcome[j] = "none"
    /\ wstatus[j] \in WorkerTerminal => outcome[j] = wstatus[j]

\* An answer is for a client that waits; a verdict in it is the worker's, and
\* "unknown job" means that the job will not run any more.
AnswersTrue ==
  \A c \in Client :
    /\ ~Waiting(c) => reply[c] = NoReply
    /\ \A j \in Job : JobOf(c) = j =>
         /\ reply[c].code = "snapshot" /\ reply[c].status \in Resolved =>
              outcome[j] = reply[c].status
         /\ reply[c].code = "missing" => Over(j) /\ status[j] # "absent"

\* A caller that asks whether the worker was replaced has learnt that the
\* worker does not know the job.
Checked ==
  \A c \in Callers, j \in Job : pc[c] = "checking" /\ target[c] = j => Over(j)

TruthInv ==
  /\ OutstandingCalls
  /\ SubmissionFirst
  /\ HistoryAgrees
  /\ AnswersTrue
  /\ Checked
  /\ ReceiptTellsTheTruth
  /\ ResolvedMeansOver

-----------------------------------------------------------------------------
(* The wire, request by request.                                           *)

LEMMA ClientNames ==
  /\ Callers \cap Job = {}
  /\ Nobody \notin Client
  /\ Callers \subseteq Client /\ Job \subseteq Client
  BY ControllerAssumption DEF Callers, Client

LEMMA AppendedRequest ==
  ASSUME NEW q \in Seq(Call), NEW m \in Call
  PROVE  /\ DOMAIN Append(q, m) = DOMAIN q \cup {Len(q) + 1}
         /\ Len(q) + 1 \notin DOMAIN q
         /\ \A i \in DOMAIN q : i \in Nat /\ i <= Len(q) /\ Append(q, m)[i] = q[i]
         /\ Append(q, m)[Len(q) + 1] = m
         /\ Len(q) \in Nat
<1>1. Len(q) \in Nat /\ DOMAIN q = 1 .. Len(q)
  BY LenProperties
<1>2. /\ Append(q, m) \in Seq(Call)
      /\ Len(Append(q, m)) = Len(q) + 1
      /\ \A i \in 1 .. Len(q) : Append(q, m)[i] = q[i]
      /\ Append(q, m)[Len(q) + 1] = m
  BY AppendProperties
<1>3. DOMAIN Append(q, m) = 1 .. Len(q) + 1
  BY <1>2, LenProperties
<1> QED BY <1>1, <1>2, <1>3

LEMMA ServedRequest ==
  ASSUME NEW q \in Seq(Call), q # << >>
  PROVE  /\ 1 \in DOMAIN q /\ Head(q) = q[1]
         /\ \A i \in DOMAIN q : i \in Nat /\ 1 <= i
         /\ \A i \in DOMAIN Tail(q) : i + 1 \in DOMAIN q /\ Tail(q)[i] = q[i + 1] /\ 1 <= i
<1>1. Len(q) \in Nat /\ DOMAIN q = 1 .. Len(q)
  BY LenProperties
<1>2. Len(q) # 0
  BY <1>1, EmptySeq
<1>3. /\ Tail(q) \in Seq(Call)
      /\ Len(Tail(q)) = Len(q) - 1
      /\ \A i \in 1 .. Len(Tail(q)) : Tail(q)[i] = q[i + 1]
  BY HeadTailProperties
<1>4. DOMAIN Tail(q) = 1 .. Len(q) - 1
  BY <1>3, LenProperties
<1>5. Head(q) = q[1]
  OBVIOUS
<1> QED BY <1>1, <1>2, <1>3, <1>4, <1>5

LEMMA AbandonedRequests ==
  ASSUME queue \in Seq(Call), NEW C, NEW arrives \in BOOLEAN
  PROVE  /\ DOMAIN Abandon(C, arrives) = DOMAIN queue
         /\ \A i \in DOMAIN queue :
              /\ Abandon(C, arrives)[i].job = queue[i].job
              /\ Abandon(C, arrives)[i].kind \in {queue[i].kind, "dropped"}
              /\ Abandon(C, arrives)[i].from =
                   IF queue[i].from \in C THEN Nobody ELSE queue[i].from
<1>1. DOMAIN Abandon(C, arrives) = DOMAIN queue
  BY DEF Abandon
<1>2. ASSUME NEW i \in DOMAIN queue
      PROVE  /\ Abandon(C, arrives)[i].job = queue[i].job
             /\ Abandon(C, arrives)[i].kind \in {queue[i].kind, "dropped"}
             /\ Abandon(C, arrives)[i].from =
                  IF queue[i].from \in C THEN Nobody ELSE queue[i].from
  <2> DEFINE m == queue[i]
             matters == arrives /\ m.kind \in {"submit", "cancel"}
             gone == [m EXCEPT !.from = Nobody, !.kind = IF matters THEN @ ELSE "dropped"]
  <2>1. m \in Call
    BY ElementOfSeq, LenProperties
  <2>2. Abandon(C, arrives)[i] = IF m.from \notin C THEN m ELSE gone
    BY DEF Abandon
  <2>3. /\ gone.job = m.job /\ gone.kind \in {m.kind, "dropped"} /\ gone.from = Nobody
    BY <2>1 DEF Call
  <2> QED BY <2>2, <2>3
<1> QED BY <1>1, <1>2

LEMMA QueuedRequest ==
  ASSUME queue \in Seq(Call), NEW i \in DOMAIN queue
  PROVE  queue[i] \in Call /\ queue[i].job \in Job /\ queue[i].from \in Client \cup {Nobody}
<1>1. queue[i] \in Call
  BY ElementOfSeq, LenProperties
<1> QED BY <1>1 DEF Call

-----------------------------------------------------------------------------
(* A step of one client: a request thread, close() or a monitor thread.    *)

\* The client sends a request about the job it handles next.
Sends(c) ==
  \E j \in Job, kind \in {"health", "submit", "poll", "cancel"} :
    /\ JobOf(c)' = j
    /\ Send(c, kind, j)
    /\ Waiting(c)'
    /\ kind = "submit" => status[j] = "absent"
    /\ kind \in AboutReceipt => status'[j] # "absent"

\* It acts between its calls; nobody else moves; the worker stands still.
ClientStep(c) ==
  /\ UNCHANGED <<wvars, historyVars>>
  /\ ~Waiting(c) \/ Answered(c)
  /\ \A d \in Client \ {c} : (Waiting(d)' <=> Waiting(d)) /\ JobOf(d)' = JobOf(d)
  /\ \A d \in Callers \ {c} : pc'[d] = pc[d]
  /\ Sends(c) \/ (queue' = queue /\ reply' = [reply EXCEPT ![c] = NoReply])

\* The worker's result says s, or that the cancellation of a late job worked.
Heard(j, s) == outcome[j] = s \/ (outcome[j] = "cancelled" /\ s = "timed_out")

\* Every change of receipts and what justifies it.
Justified ==
  \A j \in Job :
    \/ status'[j] = status[j] /\ recovery'[j] = recovery[j]
    \/ /\ status[j] = "absent" /\ status'[j] = InFlight /\ recovery' = recovery
       /\ \A k \in Job : k # j => status'[k] = status[k]
    \/ Unresolved(j) /\ Unresolved(j)' /\ recovery'[j] = recovery[j]
    \/ /\ Unresolved(j) /\ status'[j] \in Resolved
       /\ Heard(j, status'[j]) /\ recovery'[j] = recovery[j]
    \/ /\ Unresolved(j) /\ status'[j] = "failed"
       /\ recovery'[j] = "operator" \/ (recovery'[j] = "replaced" /\ Over(j))

LEMMA NoReplyIsNoAnswer == NoReply.code = "none" /\ Lost.code = "lost" /\ NoReply # Lost
  BY DEF NoReply, Lost

LEMMA NothingOutstanding ==
  ASSUME OutstandingCalls, NEW c \in Client, ~Waiting(c) \/ Answered(c)
  PROVE  \A i \in DOMAIN queue : queue[i].from # c
  BY ClientNames, NoReplyIsNoAnswer DEF OutstandingCalls, Answered

\* What a client's step does to the queue.
LEMMA QueueOfClientStep ==
  ASSUME JobsTypeOK, NEW c \in Client, ClientStep(c)
  PROVE  \/ /\ queue' = queue
            /\ reply' = [reply EXCEPT ![c] = NoReply]
               \/ (Waiting(c)' /\ reply' = [reply EXCEPT ![c] = Lost])
         \/ \E j \in Job, kind \in {"health", "submit", "poll", "cancel"} :
              /\ DOMAIN queue' = DOMAIN queue \cup {Len(queue) + 1}
              /\ \A i \in DOMAIN queue : queue'[i] = queue[i]
              /\ queue'[Len(queue) + 1] = [from |-> c, kind |-> kind, job |-> j]
              /\ reply' = [reply EXCEPT ![c] = NoReply]
              /\ Waiting(c)' /\ JobOf(c)' = j
              /\ kind = "submit" => status[j] = "absent"
              /\ kind \in AboutReceipt => status'[j] # "absent"
<1>1. CASE queue' = queue /\ reply' = [reply EXCEPT ![c] = NoReply]
  BY <1>1
<1>2. ASSUME NEW kind \in {"health", "submit", "poll", "cancel"}, NEW j \in Job,
             Send(c, kind, j)
      PROVE  \/ queue' = queue /\ reply' = [reply EXCEPT ![c] = Lost]
             \/ /\ DOMAIN queue' = DOMAIN queue \cup {Len(queue) + 1}
                /\ \A i \in DOMAIN queue : queue'[i] = queue[i]
                /\ queue'[Len(queue) + 1] = [from |-> c, kind |-> kind, job |-> j]
                /\ reply' = [reply EXCEPT ![c] = NoReply]
  <2> DEFINE m == [from |-> c, kind |-> kind, job |-> j]
  <2>1. m \in Call
    BY DEF Call
  <2>2. queue \in Seq(Call)
    BY DEF JobsTypeOK
  <2> HIDE DEF m
  <2>3. \/ queue' = Append(queue, m) /\ reply' = [reply EXCEPT ![c] = NoReply]
        \/ queue' = queue /\ reply' = [reply EXCEPT ![c] = Lost]
    BY <1>2 DEF Send, m
  <2>4. ASSUME queue' = Append(queue, m)
        PROVE  /\ DOMAIN queue' = DOMAIN queue \cup {Len(queue) + 1}
               /\ \A i \in DOMAIN queue : queue'[i] = queue[i]
               /\ queue'[Len(queue) + 1] = m
    BY <2>1, <2>2, <2>4, AppendedRequest
  <2> QED BY <2>3, <2>4 DEF m
<1>3. CASE Sends(c)
  <2>1. PICK kind \in {"health", "submit", "poll", "cancel"}, j \in Job :
          /\ Send(c, kind, j) /\ JobOf(c)' = j
          /\ Waiting(c)'
          /\ kind = "submit" => status[j] = "absent"
          /\ kind \in AboutReceipt => status'[j] # "absent"
    BY <1>3 DEF Sends
  <2>2. CASE queue' = queue /\ reply' = [reply EXCEPT ![c] = Lost]
    BY <2>1, <2>2
  <2>3. CASE /\ DOMAIN queue' = DOMAIN queue \cup {Len(queue) + 1}
             /\ \A i \in DOMAIN queue : queue'[i] = queue[i]
             /\ queue'[Len(queue) + 1] = [from |-> c, kind |-> kind, job |-> j]
             /\ reply' = [reply EXCEPT ![c] = NoReply]
    BY <2>1, <2>3, Zenon
  <2> QED BY <2>1, <2>2, <2>3, <1>2
<1> QED BY <1>1, <1>3 DEF ClientStep

LEMMA AnswersOfClientStep ==
  ASSUME JobsTypeOK, NEW c \in Client, ClientStep(c)
  PROVE  /\ \A d \in Client \ {c} : reply'[d] = reply[d]
         /\ reply'[c] = NoReply \/ (Waiting(c)' /\ reply'[c] = Lost)
<1>1. reply' = [reply EXCEPT ![c] = NoReply]
      \/ (Waiting(c)' /\ reply' = [reply EXCEPT ![c] = Lost])
  BY QueueOfClientStep
<1>2. reply \in [Client -> Reply]
  BY DEF JobsTypeOK
<1> QED BY <1>1, <1>2

LEMMA ClientStepKeepsCalls ==
  ASSUME JobsTypeOK, OutstandingCalls, NEW c \in Client, ClientStep(c)
  PROVE  OutstandingCalls'
<1>1. \A i \in DOMAIN queue : queue[i].from # c
  BY NothingOutstanding DEF ClientStep
<1>2. \A d \in Client \ {c} : reply'[d] = reply[d]
  BY AnswersOfClientStep
<1>3. ASSUME NEW d \in Client \ {c}, NEW i \in DOMAIN queue, queue[i].from = d
      PROVE  /\ Waiting(d)'
             /\ reply'[d] = NoReply
             /\ queue[i].job = JobOf(d)'
             /\ \A k \in DOMAIN queue : queue[k].from = d => k = i
  BY <1>2, <1>3 DEF OutstandingCalls, ClientStep
<1>4. Len(queue) + 1 \notin DOMAIN queue
  BY LenProperties DEF JobsTypeOK
<1>5. CASE queue' = queue
  BY <1>1, <1>3, <1>5 DEF OutstandingCalls
<1>6. ASSUME NEW j \in Job, NEW kind,
             DOMAIN queue' = DOMAIN queue \cup {Len(queue) + 1},
             \A i \in DOMAIN queue : queue'[i] = queue[i],
             queue'[Len(queue) + 1] = [from |-> c, kind |-> kind, job |-> j],
             reply' = [reply EXCEPT ![c] = NoReply],
             Waiting(c)', JobOf(c)' = j
      PROVE  OutstandingCalls'
  <2>1. reply'[c] = NoReply
    BY <1>6 DEF JobsTypeOK
  <2>2. ASSUME NEW d \in Client, NEW i \in DOMAIN queue', queue'[i].from = d
        PROVE  /\ Waiting(d)'
               /\ reply'[d] = NoReply
               /\ queue'[i].job = JobOf(d)'
               /\ \A k \in DOMAIN queue' : queue'[k].from = d => k = i
    <3>1. CASE d = c
      <4>1. \A k \in DOMAIN queue' : queue'[k].from = c => k = Len(queue) + 1
        BY <1>1, <1>6
      <4> QED BY <1>6, <2>1, <2>2, <3>1, <4>1
    <3>2. CASE d # c
      <4>1. \A k \in DOMAIN queue' : queue'[k].from = d => k \in DOMAIN queue
        BY <1>6, <3>2
      <4> QED BY <1>3, <1>6, <2>2, <3>2, <4>1
    <3> QED BY <3>1, <3>2
  <2> QED BY <2>2 DEF OutstandingCalls
<1> QED BY ZenonT(40), <1>5, <1>6, QueueOfClientStep

LEMMA ClientStepKeepsOrder ==
  ASSUME JobsTypeOK, SubmissionFirst, NEW c \in Client, ClientStep(c), Justified
  PROVE  /\ SubmissionFirst'
         /\ \A j \in Job : SubmissionQueued(j)' => SubmissionQueued(j) \/ status[j] = "absent"
<1>1. \A j \in Job : status[j] # "absent" => status'[j] # "absent"
  BY DEF Justified, Unresolved, InFlight, Resolved
<1>2. \A i \in DOMAIN queue : queue[i].job \in Job /\ i \in Nat /\ i <= Len(queue)
  BY QueuedRequest, LenProperties DEF JobsTypeOK
<1>3. Len(queue) \in Nat /\ Len(queue) + 1 \notin DOMAIN queue
  BY LenProperties DEF JobsTypeOK
<1>4. CASE queue' = queue
  BY <1>1, <1>2, <1>4 DEF SubmissionFirst, SubmissionQueued
<1>5. ASSUME NEW j \in Job, NEW kind,
             DOMAIN queue' = DOMAIN queue \cup {Len(queue) + 1},
             \A i \in DOMAIN queue : queue'[i] = queue[i],
             queue'[Len(queue) + 1] = [from |-> c, kind |-> kind, job |-> j],
             kind = "submit" => status[j] = "absent",
             kind \in AboutReceipt => status'[j] # "absent"
      PROVE  /\ SubmissionFirst'
             /\ \A k \in Job : SubmissionQueued(k)' => SubmissionQueued(k) \/ status[k] = "absent"
  <2>1. \A i \in DOMAIN queue' : queue'[i].kind \in AboutReceipt => status'[queue'[i].job] # "absent"
    BY <1>1, <1>2, <1>5 DEF SubmissionFirst
  <2>2. ASSUME NEW i \in DOMAIN queue', NEW k \in DOMAIN queue',
               queue'[i].kind \in AboutReceipt, queue'[k].kind = "submit",
               queue'[i].job = queue'[k].job
        PROVE  k <= i
    <3>1. CASE i \in DOMAIN queue /\ k \in DOMAIN queue
      BY <1>5, <2>2, <3>1 DEF SubmissionFirst
    <3>2. CASE i = Len(queue) + 1
      BY <1>2, <1>3, <1>5, <3>2
    <3>3. CASE i \in DOMAIN queue /\ k = Len(queue) + 1
      BY <1>5, <2>2, <3>3 DEF SubmissionFirst
    <3> QED BY <1>5, <3>1, <3>2, <3>3
  <2>3. \A k \in Job : SubmissionQueued(k)' => SubmissionQueued(k) \/ status[k] = "absent"
    BY <1>5 DEF SubmissionQueued
  <2> QED BY <2>1, <2>2, <2>3 DEF SubmissionFirst
<1> QED BY <1>4, <1>5, QueueOfClientStep

\* Whatever is over stays over.
LEMMA OverStays ==
  ASSUME JobsTypeOK, SubmissionFirst, NEW c \in Client, ClientStep(c), Justified
  PROVE  \A j \in Job : Over(j) /\ status[j] # "absent" => Over(j)'
  BY ClientStepKeepsOrder DEF Over, Known, ClientStep, wvars

\* Verdicts that were true before a client's step are true after it.
LEMMA ReceiptsOfJustifiedStep ==
  ASSUME TruthInv, JobsInv, Justified, UNCHANGED <<wstatus, wrun, outcome>>,
         \A j \in Job : SubmissionQueued(j)' => SubmissionQueued(j) \/ status[j] = "absent"
  PROVE  ReceiptTellsTheTruth' /\ ResolvedMeansOver'
<1> USE DEF TruthInv
<1>1. \A j \in Job : outcome[j] # "none" => ~Executing(j) /\ ~SubmissionQueued(j)
  BY DEF HistoryAgrees, JobsInv, WorkerInv, TableAgrees
<1>2. \A j \in Job, s \in Resolved : Heard(j, s) => outcome[j] # "none"
  BY DEF Heard, Resolved
<1>3. \A j \in Job : Over(j) => ~Executing(j) /\ ~SubmissionQueued(j)
  BY DEF Over, Known, JobsInv, WorkerInv, TableAgrees, Active, WorkerActive
<1>4. \A j \in Job : Executing(j)' <=> Executing(j)
  BY DEF Executing
<1>5. ReceiptTellsTheTruth'
  BY DEF ReceiptTellsTheTruth, Justified, Heard, Unresolved, Resolved, InFlight
<1>6. ResolvedMeansOver'
  <2> SUFFICES ASSUME NEW j \in Job, status'[j] \in Resolved, recovery'[j] # "operator"
               PROVE  ~Executing(j)' /\ ~SubmissionQueued(j)'
    BY DEF ResolvedMeansOver
  <2>1. ~Executing(j) /\ ~SubmissionQueued(j) /\ status[j] # "absent"
    BY <1>1, <1>2, <1>3 DEF Justified, ResolvedMeansOver, Unresolved, Resolved, InFlight
  <2> QED BY <1>4, <2>1
<1> QED BY <1>5, <1>6

\* The truth of what clients and receipts know, after a client's step.
LEMMA ClientStepKeepsTruth ==
  ASSUME JobsInv, TruthInv, NEW c \in Client, ClientStep(c), Justified,
         c \in Callers => \A j \in Job : pc'[c] = "checking" /\ target'[c] = j => Over(j)
                                                             /\ status[j] # "absent"
  PROVE  TruthInv'
<1> USE DEF JobsInv, TruthInv
<1>1. OutstandingCalls' /\ SubmissionFirst'
  BY ClientStepKeepsCalls, ClientStepKeepsOrder
<1>2. UNCHANGED <<wstatus, wrun, ran, outcome>>
  BY DEF ClientStep, wvars, historyVars
<1>3. \A j \in Job : SubmissionQueued(j)' => SubmissionQueued(j) \/ status[j] = "absent"
  BY ClientStepKeepsOrder
<1>4. \A j \in Job : status'[j] = "absent" => status[j] = "absent"
  BY DEF Justified, Unresolved, InFlight, Resolved
<1>5. HistoryAgrees'
  BY <1>2, <1>3, <1>4 DEF HistoryAgrees, Known, Active
<1>6. AnswersTrue'
  <2> SUFFICES ASSUME NEW d \in Client
               PROVE  /\ ~Waiting(d)' => reply'[d] = NoReply
                      /\ \A j \in Job : JobOf(d)' = j =>
                           /\ reply'[d].code = "snapshot" /\ reply'[d].status \in Resolved =>
                                outcome'[j] = reply'[d].status
                           /\ reply'[d].code = "missing" => Over(j)' /\ status'[j] # "absent"
    BY DEF AnswersTrue
  <2>1. CASE d = c
    BY <2>1, AnswersOfClientStep, NoReplyIsNoAnswer
  <2>2. CASE d # c
    <3>1. reply'[d] = reply[d] /\ (Waiting(d)' <=> Waiting(d)) /\ JobOf(d)' = JobOf(d)
      BY <2>2, AnswersOfClientStep DEF ClientStep
    <3> QED BY <1>2, <1>4, <3>1, OverStays DEF AnswersTrue
  <2> QED BY <2>1, <2>2
<1>7. Checked'
  <2> SUFFICES ASSUME NEW d \in Callers, NEW j \in Job, pc'[d] = "checking", target'[d] = j
               PROVE  Over(j)'
    BY DEF Checked
  <2>1. Over(j) /\ status[j] # "absent"
    <3>1. CASE d = c
      BY <3>1
    <3>2. CASE d # c
      <4>1. pc[d] = "checking" /\ target[d] = j
        BY <3>2, ClientNames DEF ClientStep, JobOf
      <4> QED BY <4>1 DEF Checked, ControlInv, Present, InGet
    <3> QED BY <3>1, <3>2
  <2> QED BY <2>1, OverStays
<1>8. ReceiptTellsTheTruth' /\ ResolvedMeansOver'
  BY <1>2, <1>3, ReceiptsOfJustifiedStep
<1> QED BY <1>1, <1>5, <1>6, <1>7, <1>8

-----------------------------------------------------------------------------
(* What justifies the changes of receipts.                                 *)

LEMMA UnchangedJustified ==
  ASSUME UNCHANGED receiptVars
  PROVE  Justified
  BY DEF receiptVars, Justified

LEMMA UpdateJustified ==
  ASSUME JobsTypeOK, NEW j \in Job, status[j] # "absent",
         NEW s \in Resolved \cup {InFlight, "interrupted"}, s \in Resolved => Heard(j, s),
         Update(j, s)
  PROVE  Justified
<1>1. \A k \in Job : recovery'[k] = recovery[k] /\ (k # j => status'[k] = status[k])
  BY DEF JobsTypeOK, Update
<1>2. status'[j] = Updated(j, s)
  BY DEF JobsTypeOK, Update
<1>3. status[j] \in Resolved \/ Unresolved(j)
  BY DEF JobsTypeOK, Status, Unresolved
<1>4. status'[j] \in Resolved \/ Unresolved(j)'
  BY <1>2 DEF Updated, Unresolved
<1> QED BY <1>1, <1>2, <1>3, <1>4 DEF Justified, Updated

LEMMA UpdateRecoveredJustified ==
  ASSUME JobsTypeOK, NEW j \in Job, status[j] # "absent",
         NEW type \in {"replaced", "operator"}, type = "replaced" => Over(j),
         UpdateRecovered(j, type)
  PROVE  Justified
<1>1. \A k \in Job : k # j => recovery'[k] = recovery[k] /\ status'[k] = status[k]
  BY DEF JobsTypeOK, UpdateRecovered
<1>2. CASE status[j] \in Resolved
  <2>1. recovery'[j] = recovery[j] /\ status'[j] = status[j]
    BY <1>2 DEF JobsTypeOK, UpdateRecovered, Updated
  <2> QED BY <1>1, <2>1 DEF Justified
<1>3. CASE status[j] \notin Resolved
  <2>1. recovery'[j] = type /\ status'[j] = "failed" /\ Unresolved(j)
    BY <1>3 DEF JobsTypeOK, UpdateRecovered, Updated, Status, Unresolved
  <2> QED BY <1>1, <2>1 DEF Justified
<1> QED BY <1>2, <1>3

LEMMA WatchJustified ==
  ASSUME JobsTypeOK, NEW j \in Job, status[j] # "absent",
         NEW s \in Resolved \cup {InFlight, "interrupted"},
         s = status[j] \/ Unresolved(j), s \in Resolved /\ s # status[j] => Heard(j, s),
         Watch(j, s)
  PROVE  /\ Justified
         /\ \A k \in Job : monitor'[k] = monitor[k] \/ (monitor[k] = "none" /\ monitor'[k] = "begin")
<1>1. \A k \in Job : recovery'[k] = recovery[k] /\ (k # j => status'[k] = status[k])
  BY DEF JobsTypeOK, Watch
<1>2. status'[j] = s \/ (s \notin Resolved /\ status'[j] = "interrupted")
  BY DEF JobsTypeOK, Watch, Watchable
<1>3. s \notin Resolved /\ status'[j] = "interrupted" => Unresolved(j) /\ Unresolved(j)'
  BY DEF Unresolved, JobsTypeOK
<1>4. status'[j] = s /\ s \notin Resolved => Unresolved(j)'
  BY DEF Unresolved
<1>5. Justified
  BY <1>1, <1>2, <1>3, <1>4 DEF Justified
<1>6. \A k \in Job : monitor'[k] = monitor[k] \/ (monitor[k] = "none" /\ monitor'[k] = "begin")
  BY DEF JobsTypeOK, Watch, Watchable, monitorVars
<1> QED BY <1>5, <1>6

\* A verdict in an answer is the worker's.
LEMMA AnswerHeard ==
  ASSUME JobsTypeOK, AnswersTrue, NEW c \in Client, NEW j \in Job, JobOf(c) = j,
         reply[c].code = "snapshot"
  PROVE  /\ reply[c].status \in Resolved \cup {InFlight}
         /\ reply[c].status \in Resolved => Heard(j, reply[c].status)
         /\ TimedOut(reply[c].status) \in Resolved \cup {InFlight}
         /\ TimedOut(reply[c].status) \in Resolved => Heard(j, TimedOut(reply[c].status))
<1>1. reply[c].status \in Resolved \cup {InFlight}
  BY SnapshotAnswer DEF JobsTypeOK
<1>2. reply[c].status \in Resolved => outcome[j] = reply[c].status
  BY DEF AnswersTrue
<1> QED BY <1>1, <1>2 DEF Heard, TimedOut, Resolved, InFlight

-----------------------------------------------------------------------------
(* The steps of request threads and of close().                            *)

LEMMA OtherClients ==
  ASSUME JobsTypeOK, NEW c \in Callers,
         \A d \in Callers \ {c} : pc'[d] = pc[d] /\ target'[d] = target[d],
         \A j \in Job : monitor'[j] = monitor[j] \/ (monitor[j] = "none" /\ monitor'[j] = "begin")
  PROVE  \A d \in Client \ {c} : (Waiting(d)' <=> Waiting(d)) /\ JobOf(d)' = JobOf(d)
<1> SUFFICES ASSUME NEW d \in Client \ {c}
             PROVE  (Waiting(d)' <=> Waiting(d)) /\ JobOf(d)' = JobOf(d)
  OBVIOUS
<1>1. CASE d \in Job
  BY <1>1 DEF Waiting, JobOf
<1>2. CASE d \in Callers
  BY <1>2, ClientNames DEF Waiting, JobOf
<1> QED BY <1>1, <1>2 DEF Client

\* A caller between calls has no answer, so it may as well forget it.
LEMMA NoAnswerToForget ==
  ASSUME JobsTypeOK, AnswersTrue, NEW c \in Client, ~Waiting(c)
  PROVE  reply = [reply EXCEPT ![c] = NoReply]
<1>1. reply[c] = NoReply /\ reply \in [Client -> Reply]
  BY DEF AnswersTrue, JobsTypeOK
<1> QED BY <1>1

LEMMA StartBeginActs ==
  ASSUME JobsInv, TruthInv, NEW c \in Caller, NEW j \in Job, StartBegin(c, j)
  PROVE  ClientStep(c) /\ Justified /\ pc'[c] # "checking"
<1> USE DEF StartBegin, Goto, JobsInv, TruthInv
<1>1. c \in Callers /\ c \in Client /\ c \notin Job
  BY ClientNames DEF Callers
<1>2. /\ pc'[c] = "readying" /\ target'[c] = j
      /\ \A d \in Callers \ {c} : pc'[d] = pc[d] /\ target'[d] = target[d]
  BY <1>1 DEF JobsTypeOK
<1>3. \A d \in Client \ {c} : (Waiting(d)' <=> Waiting(d)) /\ JobOf(d)' = JobOf(d)
  BY <1>1, <1>2, OtherClients DEF monitorVars
<1>4. ~Waiting(c) /\ Waiting(c)' /\ JobOf(c)' = j
  BY <1>1, <1>2 DEF Waiting, JobOf
<1>5. Sends(c)
  BY <1>4 DEF Sends, AboutReceipt
<1> QED BY <1>2, <1>3, <1>4, <1>5, UnchangedJustified DEF ClientStep

LEMMA GetReadActs ==
  ASSUME JobsInv, TruthInv, NEW c \in Callers, pc[c] \in {"idle", "next"},
         NEW j \in Job, NEW o, GetRead(c, j, o),
         UNCHANGED <<wvars, receiptVars, monitorVars, wireVars, historyVars>>
  PROVE  ClientStep(c) /\ Justified /\ pc'[c] # "checking"
<1> USE DEF GetRead, JobsInv, TruthInv
<1>1. c \in Client /\ c \notin Job
  BY ClientNames
<1>2. /\ pc'[c] \in {"reserving", "settling"} /\ target'[c] = j
      /\ \A d \in Callers \ {c} : pc'[d] = pc[d] /\ target'[d] = target[d]
  BY DEF JobsTypeOK
<1>3. \A d \in Client \ {c} : (Waiting(d)' <=> Waiting(d)) /\ JobOf(d)' = JobOf(d)
  BY <1>2, OtherClients DEF monitorVars
<1>4. ~Waiting(c)
  BY <1>1 DEF Waiting
<1>5. queue' = queue /\ reply' = [reply EXCEPT ![c] = NoReply]
  BY <1>1, <1>4, NoAnswerToForget DEF wireVars
<1> QED BY <1>2, <1>3, <1>4, <1>5, UnchangedJustified DEF ClientStep

\* The steps of start after its first.
LEMMA StartStepsAct ==
  ASSUME JobsInv, TruthInv, NEW c \in Callers,
         StartUnavailable(c) \/ StartSubmit(c) \/ StartFinish(c)
  PROVE  ClientStep(c) /\ Justified /\ pc'[c] # "checking"
<1> USE DEF JobsInv, TruthInv
<1>1. c \in Client /\ c \notin Job
  BY ClientNames
<1>2. CASE StartUnavailable(c)
  <2> USE DEF StartUnavailable, Return
  <2>1. /\ pc'[c] \in {"idle", "next"}
        /\ \A d \in Callers \ {c} : pc'[d] = pc[d] /\ target'[d] = target[d]
    BY <1>2 DEF JobsTypeOK
  <2>2. \A d \in Client \ {c} : (Waiting(d)' <=> Waiting(d)) /\ JobOf(d)' = JobOf(d)
    BY <1>2, <2>1, OtherClients DEF monitorVars
  <2> QED BY <1>2, <2>1, <2>2, UnchangedJustified DEF ClientStep
<1>3. CASE StartSubmit(c)
  <2> DEFINE j == target[c]
  <2> USE DEF StartSubmit, Goto
  <2>1. /\ pc'[c] = "submitting" /\ target' = target
        /\ \A d \in Callers \ {c} : pc'[d] = pc[d] /\ target'[d] = target[d]
    BY <1>3 DEF JobsTypeOK
  <2>2. \A d \in Client \ {c} : (Waiting(d)' <=> Waiting(d)) /\ JobOf(d)' = JobOf(d)
    BY <1>3, <2>1, OtherClients DEF monitorVars
  <2>3. j \in Job /\ status[j] = "absent"
    BY <1>3 DEF ControlInv, Positioned, Locked, InStart
  <2>4. Waiting(c)' /\ JobOf(c)' = j
    BY <1>1, <2>1 DEF Waiting, JobOf
  <2>5. status' = [status EXCEPT ![j] = InFlight] /\ recovery' = recovery
    BY <1>3
  <2>6. status'[j] = InFlight /\ \A k \in Job : k # j => status'[k] = status[k]
    BY <2>3, <2>5 DEF JobsTypeOK
  <2>7. Sends(c)
    BY <1>3, <2>3, <2>4, <2>6 DEF Sends, InFlight
  <2>8. Justified
    BY <2>3, <2>5, <2>6 DEF Justified
  <2> QED BY <1>3, <2>1, <2>2, <2>7, <2>8 DEF ClientStep
<1>4. CASE StartFinish(c)
  <2> DEFINE j == target[c]
             s == Updated(j, IF reply[c].code = "snapshot" THEN reply[c].status
                             ELSE "interrupted")
  <2>1. j \in Job /\ status[j] # "absent" /\ JobOf(c) = j
    BY <1>1, <1>4 DEF StartFinish, ControlInv, Positioned, Present, InStart, JobOf
  <2>2. reply[c].code = "snapshot" => /\ reply[c].status \in Resolved \cup {InFlight}
                                      /\ reply[c].status \in Resolved => Heard(j, reply[c].status)
    BY <1>1, <2>1, AnswerHeard
  <2>3. status[j] \in Resolved \/ Unresolved(j)
    BY <2>1 DEF JobsTypeOK, Status, Unresolved
  <2>4. /\ s \in Resolved \cup {InFlight, "interrupted"}
        /\ s = status[j] \/ Unresolved(j)
        /\ s \in Resolved /\ s # status[j] => Heard(j, s)
    BY <2>2, <2>3 DEF Updated, Resolved
  <2>5. Watch(j, s)
    BY <1>4 DEF StartFinish
  <2> HIDE DEF s
  <2>6. /\ Justified
        /\ \A k \in Job : monitor'[k] = monitor[k] \/ (monitor[k] = "none" /\ monitor'[k] = "begin")
    BY <2>1, <2>4, <2>5, WatchJustified
  <2>7. /\ pc'[c] \in {"idle", "next"}
        /\ \A d \in Callers \ {c} : pc'[d] = pc[d] /\ target'[d] = target[d]
    BY <1>4 DEF StartFinish, Return, JobsTypeOK
  <2>8. \A d \in Client \ {c} : (Waiting(d)' <=> Waiting(d)) /\ JobOf(d)' = JobOf(d)
    BY <2>6, <2>7, OtherClients
  <2> QED BY <1>4, <2>6, <2>7, <2>8 DEF ClientStep, StartFinish
<1> QED BY <1>2, <1>3, <1>4

\* The end of get changes its receipt only by watching it.
LEMMA SettleJustified ==
  ASSUME JobsTypeOK, NEW j \in Job, status[j] # "absent", Settle(j)
  PROVE  /\ Justified
         /\ \A k \in Job : monitor'[k] = monitor[k] \/ (monitor[k] = "none" /\ monitor'[k] = "begin")
<1>1. CASE UNCHANGED <<receiptVars, monitorVars>>
  BY <1>1, UnchangedJustified DEF monitorVars
<1>2. CASE status[j] = InFlight /\ Watch(j, status[j])
  BY <1>2, WatchJustified DEF Resolved, InFlight
<1> QED BY <1>1, <1>2 DEF Settle

LEMMA GetStepsAct ==
  ASSUME JobsInv, TruthInv, NEW c \in Callers,
         \/ GetReserve(c) \/ GetSnapshot(c) \/ GetMissing(c) \/ GetUnavailable(c)
         \/ GetChecked(c) \/ GetSettle(c) \/ RecoverApply(c) \/ CancelReply(c)
  PROVE  /\ ClientStep(c) /\ Justified
         /\ \A j \in Job : pc'[c] = "checking" /\ target'[c] = j => Over(j) /\ status[j] # "absent"
<1> DEFINE j == target[c]
<1> USE DEF JobsInv, TruthInv
<1>1. /\ pc[c] \in InGet /\ j \in Job /\ status[j] # "absent"
      /\ c \in Client /\ c \notin Job /\ JobOf(c) = j
  <2>1. pc[c] \in InGet
    BY DEF GetReserve, GetSnapshot, GetMissing, GetUnavailable, GetChecked, GetSettle,
           RecoverApply, CancelReply, InGet
  <2> QED BY <2>1, HasJob, ClientNames DEF JobOf
<1>2. CASE GetReserve(c) \/ GetMissing(c)
  <2> USE DEF GetReserve, GetMissing, Goto
  <2>1. /\ pc'[c] \in {"polling", "checking"} /\ target' = target
        /\ \A d \in Callers \ {c} : pc'[d] = pc[d] /\ target'[d] = target[d]
    BY <1>2 DEF JobsTypeOK
  <2>2. \A d \in Client \ {c} : (Waiting(d)' <=> Waiting(d)) /\ JobOf(d)' = JobOf(d)
    BY <1>2, <2>1, OtherClients DEF monitorVars
  <2>3. Waiting(c)' /\ JobOf(c)' = j
    BY <1>1, <2>1 DEF Waiting, JobOf
  <2>4. Sends(c)
    BY <1>1, <1>2, <2>3 DEF Sends, receiptVars
  <2>5. ~Waiting(c) \/ Answered(c)
    BY <1>1, <1>2, NoReplyIsNoAnswer DEF Waiting, Answered, AsksForReplacement
  <2>6. pc'[c] = "checking" => Over(j)
    BY <1>1, <1>2 DEF AnswersTrue, AsksForReplacement, JobsTypeOK
  <2> QED BY <1>1, <1>2, <2>1, <2>2, <2>4, <2>5, <2>6, UnchangedJustified DEF ClientStep
<1>3. CASE GetSnapshot(c) \/ GetUnavailable(c) \/ GetChecked(c)
  <2> USE DEF GetSnapshot, GetUnavailable, GetChecked, Goto
  <2>1. /\ pc'[c] = "settling" /\ target' = target
        /\ \A d \in Callers \ {c} : pc'[d] = pc[d] /\ target'[d] = target[d]
    BY <1>3 DEF JobsTypeOK
  <2>2. \A d \in Client \ {c} : (Waiting(d)' <=> Waiting(d)) /\ JobOf(d)' = JobOf(d)
    BY <1>3, <2>1, OtherClients DEF monitorVars
  <2>3. Answered(c)
    BY <1>3 DEF Answered
  <2>4. CASE GetSnapshot(c)
    <3>1. /\ reply[c].status \in Resolved \cup {InFlight}
          /\ reply[c].status \in Resolved => Heard(j, reply[c].status)
      BY <1>1, <2>4, AnswerHeard
    <3>2. Justified
      BY <1>1, <2>4, <3>1, UpdateJustified
    <3> QED BY <2>1, <2>2, <2>3, <2>4, <3>2 DEF ClientStep
  <2>5. CASE GetUnavailable(c)
    BY <2>1, <2>2, <2>3, <2>5, UnchangedJustified DEF ClientStep
  <2>6. CASE GetChecked(c)
    <3>1. Over(j)
      BY <1>1, <2>6 DEF Checked
    <3>2. Justified
      BY <1>1, <2>6, <3>1, UnchangedJustified, UpdateRecoveredJustified
    <3> QED BY <2>1, <2>2, <2>3, <2>6, <3>2 DEF ClientStep
  <2> QED BY <1>3, <2>4, <2>5, <2>6
<1>4. CASE GetSettle(c)
  <2>1. /\ Justified
        /\ \A k \in Job : monitor'[k] = monitor[k] \/ (monitor[k] = "none" /\ monitor'[k] = "begin")
    BY <1>1, <1>4, SettleJustified DEF GetSettle
  <2>2. /\ pc'[c] \in {"idle", "next", "confirmed", "cancelling"}
        /\ pc'[c] = "cancelling" => target' = target /\ Send(c, "cancel", j)
        /\ pc'[c] # "cancelling" => UNCHANGED wireVars
        /\ \A d \in Callers \ {c} : pc'[d] = pc[d] /\ target'[d] = target[d]
    BY <1>4 DEF GetSettle, Return, Goto, JobsTypeOK
  <2>3. \A d \in Client \ {c} : (Waiting(d)' <=> Waiting(d)) /\ JobOf(d)' = JobOf(d)
    BY <2>1, <2>2, OtherClients
  <2>4. ~Waiting(c)
    BY <1>1, <1>4 DEF Waiting, GetSettle
  <2>5. CASE pc'[c] = "cancelling"
    <3>1. Waiting(c)' /\ JobOf(c)' = j
      BY <1>1, <2>2, <2>5 DEF Waiting, JobOf
    <3>2. status'[j] # "absent"
      BY <1>1, <2>1 DEF Justified, Unresolved, Resolved, InFlight
    <3> QED BY <1>1, <1>4, <2>1, <2>2, <2>3, <2>4, <2>5, <3>1, <3>2
            DEF Sends, ClientStep, GetSettle
  <2>6. CASE pc'[c] # "cancelling"
    <3>1. queue' = queue /\ reply' = [reply EXCEPT ![c] = NoReply]
      BY <1>1, <2>2, <2>4, <2>6, NoAnswerToForget DEF wireVars
    <3> QED BY <1>4, <2>1, <2>2, <2>3, <2>4, <2>6, <3>1 DEF ClientStep, GetSettle
  <2> QED BY <2>5, <2>6
<1>5. CASE RecoverApply(c) \/ CancelReply(c)
  <2> USE DEF RecoverApply, CancelReply, Return
  <2>1. /\ pc'[c] \in {"idle", "next"}
        /\ \A d \in Callers \ {c} : pc'[d] = pc[d] /\ target'[d] = target[d]
    BY <1>5 DEF JobsTypeOK
  <2>2. \A d \in Client \ {c} : (Waiting(d)' <=> Waiting(d)) /\ JobOf(d)' = JobOf(d)
    BY <1>5, <2>1, OtherClients DEF monitorVars
  <2>3. CASE RecoverApply(c)
    <3>1. ~Waiting(c)
      BY <1>1, <2>3 DEF Waiting
    <3>2. queue' = queue /\ reply' = [reply EXCEPT ![c] = NoReply]
      BY <1>1, <2>3, <3>1, NoAnswerToForget DEF wireVars
    <3>3. Justified
      BY <1>1, <2>3, UpdateRecoveredJustified
    <3> QED BY <2>1, <2>2, <2>3, <3>1, <3>2, <3>3 DEF ClientStep
  <2>4. CASE CancelReply(c)
    <3>1. reply[c].code = "snapshot" =>
            /\ reply[c].status \in Resolved \cup {InFlight}
            /\ reply[c].status \in Resolved => Heard(j, reply[c].status)
      BY <1>1, AnswerHeard
    <3>2. "interrupted" \notin Resolved
      BY DEF Resolved
    <3>3. Justified
      BY <1>1, <2>4, <3>1, <3>2, UpdateJustified, UnchangedJustified
    <3> QED BY <2>1, <2>2, <2>4, <3>3 DEF ClientStep
  <2> QED BY <1>5, <2>3, <2>4
<1> QED BY <1>2, <1>3, <1>4, <1>5

-----------------------------------------------------------------------------
(* The steps of a monitor thread.                                          *)

LEMMA MonitorStepActs ==
  ASSUME JobsInv, TruthInv, NEW j \in Job, MonitorStep(j)
  PROVE  ClientStep(j) /\ Justified
<1> USE DEF JobsInv, TruthInv
<1>1. j \in Client /\ j \notin Callers /\ JobOf(j) = j /\ status[j] # "absent" /\ monitor[j] # "none"
  <2>1. monitor[j] # "none"
    BY DEF MonitorStep, MonitorBegin, MonitorClosed, MonitorCancel, MonitorPoll,
           MonitorGivesUp, MonitorCancelled, MonitorPolled, MonitorFails, MonitorExit
  <2> QED BY <2>1, ClientNames DEF JobOf, ControlInv, Present
<1>2. UNCHANGED <<wvars, callerVars, historyVars>> /\ \A k \in Job \ {j} : monitor'[k] = monitor[k]
  BY DEF MonitorStep, MonitorBegin, MonitorClosed, MonitorCancel, MonitorPoll,
         MonitorGivesUp, MonitorCancelled, MonitorPolled, MonitorFails, MonitorExit, Continue,
         JobsTypeOK
<1>3. \A d \in Client \ {j} : (Waiting(d)' <=> Waiting(d)) /\ JobOf(d)' = JobOf(d)
  BY <1>2, ClientNames DEF Waiting, JobOf, callerVars, Client
<1>4. \A d \in Callers \ {j} : pc'[d] = pc[d]
  BY <1>2 DEF callerVars
<1>5. CASE MonitorCancel(j) \/ MonitorPoll(j)
  <2> USE DEF MonitorCancel, MonitorPoll
  <2>1. ~Waiting(j)
    BY <1>5 DEF Waiting
  <2>2. Waiting(j)' /\ JobOf(j)' = j
    BY <1>5 DEF Waiting, JobOf, JobsTypeOK
  <2>3. Sends(j)
    BY <1>1, <1>5, <2>2 DEF Sends, receiptVars
  <2> QED BY <1>2, <1>3, <1>4, <1>5, <2>1, <2>3, UnchangedJustified DEF ClientStep
<1>6. CASE MonitorBegin(j) \/ MonitorClosed(j) \/ MonitorGivesUp(j) \/ MonitorExit(j)
  <2> USE DEF MonitorBegin, MonitorClosed, MonitorGivesUp, MonitorExit
  <2>1. ~Waiting(j)
    BY <1>6 DEF Waiting
  <2>2. queue' = queue /\ reply' = [reply EXCEPT ![j] = NoReply]
    BY <1>1, <1>6, <2>1, NoAnswerToForget DEF wireVars
  <2>3. "interrupted" \notin Resolved
    BY DEF Resolved
  <2>4. Justified
    BY <1>1, <1>6, <2>3, UnchangedJustified, UpdateJustified
  <2> QED BY <1>2, <1>3, <1>4, <2>1, <2>2, <2>4 DEF ClientStep
<1>7. CASE MonitorCancelled(j) \/ MonitorPolled(j) \/ MonitorFails(j)
  <2> USE DEF MonitorCancelled, MonitorPolled, MonitorFails
  <2>1. Answered(j) /\ queue' = queue /\ reply' = [reply EXCEPT ![j] = NoReply]
    BY <1>7 DEF Answered
  <2>2. PICK s \in Resolved \cup {InFlight, "interrupted"} :
          (s \in Resolved => Heard(j, s)) /\ Update(j, s)
    <3>1. CASE MonitorFails(j)
      BY <3>1 DEF Resolved
    <3>2. CASE MonitorCancelled(j) \/ MonitorPolled(j)
      <4>1. reply[j].code = "snapshot"
        BY <3>2
      <4>2. /\ reply[j].status \in Resolved \cup {InFlight}
            /\ reply[j].status \in Resolved => Heard(j, reply[j].status)
            /\ TimedOut(reply[j].status) \in Resolved \cup {InFlight}
            /\ TimedOut(reply[j].status) \in Resolved => Heard(j, TimedOut(reply[j].status))
        BY <1>1, <4>1, AnswerHeard
      <4>3. Update(j, reply[j].status) \/ Update(j, TimedOut(reply[j].status))
        BY <3>2
      <4> QED BY <4>2, <4>3
    <3> QED BY <1>7, <3>1, <3>2
  <2>3. Justified
    BY <1>1, <2>2, UpdateJustified
  <2> QED BY <1>2, <1>3, <1>4, <2>1, <2>3 DEF ClientStep
<1> QED BY <1>5, <1>6, <1>7 DEF MonitorStep

-----------------------------------------------------------------------------
(* The wire: requests are served, abandoned or lost in order.              *)

\* The queue loses its first n requests; others may lose their reader.
Shrinks(n) ==
  \A i \in DOMAIN queue' :
    /\ i \in Nat
    /\ i + n \in DOMAIN queue
    /\ queue'[i].job = queue[i + n].job
    /\ queue'[i].kind \in {queue[i + n].kind, "dropped"}
    /\ queue'[i].from \in {queue[i + n].from, Nobody}

LEMMA ShrinkingKeepsOrder ==
  ASSUME JobsTypeOK, SubmissionFirst, NEW n \in Nat, Shrinks(n),
         \A j \in Job : status[j] # "absent" => status'[j] # "absent"
  PROVE  /\ SubmissionFirst'
         /\ \A j \in Job : SubmissionQueued(j)' => SubmissionQueued(j)
<1>1. \A i \in DOMAIN queue : queue[i].job \in Job /\ i \in Nat
  BY QueuedRequest, LenProperties DEF JobsTypeOK
<1>2. \A i \in DOMAIN queue' : queue'[i].kind # "dropped" => queue'[i].kind = queue[i + n].kind
  BY DEF Shrinks
<1>3. \A i \in DOMAIN queue' : queue'[i].kind \in AboutReceipt => status'[queue'[i].job] # "absent"
  BY <1>1, <1>2 DEF Shrinks, SubmissionFirst, AboutReceipt
<1>4. ASSUME NEW i \in DOMAIN queue', NEW k \in DOMAIN queue',
             queue'[i].kind \in AboutReceipt, queue'[k].kind = "submit",
             queue'[i].job = queue'[k].job
      PROVE  k <= i
  <2>1. k + n <= i + n
    BY <1>2, <1>4 DEF Shrinks, SubmissionFirst, AboutReceipt
  <2> QED BY <2>1 DEF Shrinks
<1>5. \A j \in Job : SubmissionQueued(j)' => SubmissionQueued(j)
  BY <1>2 DEF Shrinks, SubmissionQueued
<1> QED BY <1>3, <1>4, <1>5 DEF SubmissionFirst

LEMMA ShrinkingKeepsCalls ==
  ASSUME JobsTypeOK, OutstandingCalls, NEW n \in Nat, Shrinks(n),
         UNCHANGED <<callerVars, monitorVars>>,
         \A c \in Client, i \in DOMAIN queue' : queue'[i].from = c => reply'[c] = reply[c]
  PROVE  OutstandingCalls'
<1> SUFFICES ASSUME NEW c \in Client, NEW i \in DOMAIN queue', queue'[i].from = c
             PROVE  /\ Waiting(c)'
                    /\ reply'[c] = NoReply
                    /\ queue'[i].job = JobOf(c)'
                    /\ \A k \in DOMAIN queue' : queue'[k].from = c => k = i
  BY DEF OutstandingCalls
<1>1. c # Nobody
  BY ClientNames
<1>2. Waiting(c)' = Waiting(c) /\ JobOf(c)' = JobOf(c)
  BY DEF Waiting, JobOf, callerVars, monitorVars
<1>3. queue[i + n].from = c /\ queue'[i].job = queue[i + n].job
  BY <1>1 DEF Shrinks
<1>4. Waiting(c) /\ reply[c] = NoReply /\ queue[i + n].job = JobOf(c)
  BY <1>3 DEF OutstandingCalls, Shrinks
<1>5. ASSUME NEW k \in DOMAIN queue', queue'[k].from = c
      PROVE  k = i
  <2>1. k + n = i + n
    BY <1>1, <1>3, <1>5 DEF OutstandingCalls, Shrinks
  <2> QED BY <2>1 DEF Shrinks
<1> QED BY <1>2, <1>3, <1>4, <1>5

-----------------------------------------------------------------------------
(* The worker.                                                             *)

\* What a worker's step does to the history and to the jobs that are over.
HistoryGoesOn ==
  /\ HistoryAgrees'
  /\ \A j \in Job :
       /\ outcome[j] # "none" => outcome'[j] = outcome[j]
       /\ Over(j) /\ status[j] # "absent" => Over(j)'
       /\ Executing(j)' => Executing(j) \/ SubmissionQueued(j)

\* An answer the worker gives is true when it is given.
AnsweredTruly(c) ==
  \A j \in Job : JobOf(c) = j =>
    /\ reply'[c].code = "snapshot" /\ reply'[c].status \in Resolved =>
         outcome'[j] = reply'[c].status
    /\ reply'[c].code = "missing" => Over(j)' /\ status[j] # "absent"

LEMMA WorkerStepKeepsTruth ==
  ASSUME JobsInv, TruthInv, UNCHANGED <<receiptVars, callerVars, monitorVars>>,
         OutstandingCalls', SubmissionFirst',
         \A j \in Job : SubmissionQueued(j)' => SubmissionQueued(j),
         HistoryGoesOn,
         \A c \in Client : reply'[c] = reply[c] \/ (Waiting(c) /\ AnsweredTruly(c))
  PROVE  TruthInv'
<1> USE DEF JobsInv, TruthInv
<1>1. UNCHANGED <<status, recovery, pc, target>>
  BY DEF receiptVars, callerVars
<1>2. \A c \in Client : (Waiting(c)' <=> Waiting(c)) /\ JobOf(c)' = JobOf(c)
  BY DEF Waiting, JobOf, callerVars, monitorVars
<1>3. AnswersTrue'
  <2> SUFFICES ASSUME NEW c \in Client
               PROVE  /\ ~Waiting(c) => reply'[c] = NoReply
                      /\ \A j \in Job : JobOf(c) = j =>
                           /\ reply'[c].code = "snapshot" /\ reply'[c].status \in Resolved =>
                                outcome'[j] = reply'[c].status
                           /\ reply'[c].code = "missing" => Over(j)' /\ status[j] # "absent"
    BY <1>1, <1>2 DEF AnswersTrue
  <2>1. CASE reply'[c] = reply[c]
    <3>1. ~Waiting(c) => reply'[c] = NoReply
      BY <2>1 DEF AnswersTrue
    <3>2. ASSUME NEW j \in Job, JobOf(c) = j
          PROVE  /\ reply[c].code = "snapshot" /\ reply[c].status \in Resolved =>
                      outcome'[j] = reply[c].status
                 /\ reply[c].code = "missing" => Over(j)' /\ status[j] # "absent"
      BY <3>2 DEF AnswersTrue, HistoryGoesOn, Resolved
    <3> QED BY <2>1, <3>1, <3>2
  <2>2. CASE Waiting(c) /\ AnsweredTruly(c)
    BY <2>2 DEF AnsweredTruly
  <2> QED BY <2>1, <2>2
<1>4. Checked'
  BY <1>1 DEF Checked, HistoryGoesOn, ControlInv, Present, InGet
<1>5. ReceiptTellsTheTruth'
  BY <1>1 DEF ReceiptTellsTheTruth, HistoryGoesOn
<1>6. ResolvedMeansOver'
  BY <1>1 DEF ResolvedMeansOver, HistoryGoesOn
<1> QED BY <1>3, <1>4, <1>5, <1>6 DEF HistoryGoesOn

LEMMA Observed ==
  ASSUME Observe
  PROVE  \A j \in Job :
           /\ ran'[j] = IF wrun[j] = "spawned" /\ wrun'[j] = "executing" THEN ran[j] + 1
                        ELSE ran[j]
           /\ outcome'[j] = IF wstatus[j] \notin WorkerTerminal /\ wstatus'[j] \in WorkerTerminal
                            THEN wstatus'[j] ELSE outcome[j]
  BY DEF Observe

\* The execution thread.
LEMMA RunKeepsHistory ==
  ASSUME JobsInv, TruthInv, NEW j \in Job, RunStep(j), Observe, UNCHANGED <<status, queue>>
  PROVE  HistoryGoesOn
<1> USE DEF JobsInv, WorkerInv, TypeOK, TruthInv
<1>1. Executing(j) => Known(j) /\ Active(j)
  BY DEF TableAgrees, Active, Known, WorkerActive
<1>2. \A k \in Job : SubmissionQueued(k)' <=> SubmissionQueued(k)
  BY DEF SubmissionQueued
<1>3. CASE RunPrepare(j) \/ RunProgress(j)
  <2>1. /\ \A k \in Job \ {j} : wstatus'[k] = wstatus[k] /\ wrun'[k] = wrun[k]
        /\ Executing(j) /\ wrun'[j] = "executing" /\ wstatus'[j] \in WorkerActive
    BY <1>1, <1>3
       DEF RunPrepare, RunProgress, Executing, Active, WorkerActive, WorkerTerminal
  <2>2. wstatus[j] \notin WorkerTerminal /\ wstatus'[j] \notin WorkerTerminal
    BY <1>1, <2>1, TerminalIsNotActive DEF Active
  <2>3. \A k \in Job : outcome'[k] = outcome[k]
    BY <2>1, <2>2, Observed
  <2>4. /\ \A k \in Job \ {j} : ran'[k] = ran[k]
        /\ ran'[j] = 1
    <3>1. ran[j] = IF wrun[j] = "spawned" THEN 0 ELSE 1
      BY <2>1 DEF HistoryAgrees, Executing
    <3> QED BY <2>1, <3>1, Observed
  <2>5. HistoryAgrees'
    <3> SUFFICES ASSUME NEW k \in Job
                 PROVE  /\ status[k] = "absent" \/ SubmissionQueued(k) =>
                             ~Known(k)' /\ ran'[k] = 0 /\ outcome'[k] = "none"
                        /\ wrun'[k] = "spawned" => ran'[k] = 0
                        /\ wrun'[k] = "executing" => ran'[k] = 1
                        /\ ran'[k] \in {0, 1}
                        /\ Active(k)' => outcome'[k] = "none"
                        /\ wstatus'[k] \in WorkerTerminal => outcome'[k] = wstatus'[k]
      BY <1>2 DEF HistoryAgrees
    <3>1. CASE k = j
      BY <1>1, <2>1, <2>2, <2>3, <2>4, <3>1 DEF HistoryAgrees
    <3>2. CASE k # j
      BY <2>1, <2>3, <2>4, <3>2 DEF HistoryAgrees, Known, Active
    <3> QED BY <3>1, <3>2
  <2> QED BY <1>1, <1>2, <2>1, <2>3, <2>5 DEF HistoryGoesOn, Over, Known, Executing
<1>4. CASE RunPublish(j) \/ RunInfrastructureFails(j)
  <2>1. /\ \A k \in Job \ {j} : wstatus'[k] = wstatus[k] /\ wrun'[k] = wrun[k]
        /\ Executing(j) /\ wrun'[j] = "ended" /\ wstatus'[j] \in WorkerTerminal
    BY <1>4
       DEF RunPublish, RunInfrastructureFails, Executing, WorkerTerminal
  <2>2. wstatus[j] \notin WorkerTerminal
    BY <1>1, <2>1, TerminalIsNotActive DEF Active
  <2>3. outcome[j] = "none" /\ outcome'[j] = wstatus'[j] /\ \A k \in Job \ {j} : outcome'[k] = outcome[k]
    BY <1>1, <2>1, <2>2, Observed DEF HistoryAgrees
  <2>4. \A k \in Job : ran'[k] = ran[k]
    BY <2>1, Observed
  <2>5. HistoryAgrees'
    <3> SUFFICES ASSUME NEW k \in Job
                 PROVE  /\ status[k] = "absent" \/ SubmissionQueued(k) =>
                             ~Known(k)' /\ ran'[k] = 0 /\ outcome'[k] = "none"
                        /\ wrun'[k] = "spawned" => ran'[k] = 0
                        /\ wrun'[k] = "executing" => ran'[k] = 1
                        /\ ran'[k] \in {0, 1}
                        /\ Active(k)' => outcome'[k] = "none"
                        /\ wstatus'[k] \in WorkerTerminal => outcome'[k] = wstatus'[k]
      BY <1>2 DEF HistoryAgrees
    <3>1. CASE k = j
      BY <1>1, <2>1, <2>3, <2>4, <3>1, TerminalIsNotActive DEF HistoryAgrees, Active
    <3>2. CASE k # j
      BY <2>1, <2>3, <2>4, <3>2 DEF HistoryAgrees, Known, Active
    <3> QED BY <3>1, <3>2
  <2> QED BY <1>1, <1>2, <2>1, <2>3, <2>5 DEF HistoryGoesOn, Over, Known, Executing
<1>5. CASE RunRetire(j)
  <2>1. /\ \A k \in Job : wstatus'[k] \in {wstatus[k], "absent"}
        /\ \A k \in Job : wrun'[k] \in {wrun[k], "none"}
    BY <1>5 DEF RunRetire
  <2>2. \A k \in Job : outcome'[k] = outcome[k] /\ ran'[k] = ran[k]
    BY <2>1, Observed DEF WorkerTerminal
  <2>3. HistoryAgrees'
    BY <1>2, <2>1, <2>2 DEF HistoryAgrees, Known, Active, WorkerActive, WorkerTerminal
  <2> QED BY <1>2, <2>1, <2>2, <2>3 DEF HistoryGoesOn, Over, Known, Executing
<1> QED BY <1>3, <1>4, <1>5 DEF RunStep

\* The oldest request: what is behind it and what is not.
LEMMA Oldest ==
  ASSUME JobsTypeOK, TruthInv, Serve
  PROVE  /\ 1 \in DOMAIN queue /\ Head(queue) = queue[1] /\ Shrinks(1)
         /\ \A i \in DOMAIN queue' : queue'[i] = queue[i + 1] /\ i + 1 # 1 /\ i + 1 \in DOMAIN queue
         /\ \A j \in Job : Head(queue).job = j =>
              /\ Head(queue).kind \in AboutReceipt => status[j] # "absent" /\ ~SubmissionQueued(j)'
              /\ Head(queue).kind \in {"poll", "cancel"} => ~SubmissionQueued(j)
              /\ Head(queue).kind = "submit" => SubmissionQueued(j)
<1> DEFINE m == Head(queue)
<1>1. queue \in Seq(Call) /\ queue # << >> /\ queue' = Tail(queue)
  BY DEF JobsTypeOK, Serve
<1>2. 1 \in DOMAIN queue /\ m = queue[1]
  BY <1>1, ServedRequest
<1>3. \A i \in DOMAIN queue : i \in Nat /\ 1 <= i
  BY <1>1, ServedRequest
<1>4. \A i \in DOMAIN queue' : i + 1 \in DOMAIN queue /\ queue'[i] = queue[i + 1] /\ 1 <= i
  BY <1>1, ServedRequest
<1>5. \A i \in DOMAIN queue' : i \in Nat
  BY <1>1, HeadTailProperties, LenProperties
<1>6. Shrinks(1)
  BY <1>4, <1>5 DEF Shrinks
<1>7. \A i \in DOMAIN queue' : queue'[i] = queue[i + 1] /\ i + 1 # 1 /\ i + 1 \in DOMAIN queue
  BY <1>4, <1>5
<1> HIDE DEF m
<1>8. ASSUME NEW j \in Job, m.job = j, m.kind \in AboutReceipt
      PROVE  /\ status[j] # "absent"
             /\ \A k \in DOMAIN queue : queue[k].kind = "submit" /\ queue[k].job = j => k = 1
  <2>1. status[j] # "absent"
    BY <1>2, <1>8 DEF SubmissionFirst, TruthInv
  <2>2. ASSUME NEW k \in DOMAIN queue, queue[k].kind = "submit", queue[k].job = j
        PROVE  k = 1
    <3>1. k <= 1
      BY <1>2, <1>8, <2>2 DEF SubmissionFirst, TruthInv
    <3> QED BY <1>3, <3>1
  <2> QED BY <2>1, <2>2
<1>9. ASSUME NEW j \in Job, m.job = j
      PROVE  /\ m.kind \in AboutReceipt => status[j] # "absent" /\ ~SubmissionQueued(j)'
             /\ m.kind \in {"poll", "cancel"} => ~SubmissionQueued(j)
             /\ m.kind = "submit" => SubmissionQueued(j)
  BY <1>2, <1>7, <1>8, <1>9 DEF SubmissionQueued, AboutReceipt
<1> QED BY <1>2, <1>6, <1>7, <1>9 DEF m

\* The one submission of a job reaches the worker.
LEMMA SubmitKeepsHistory ==
  ASSUME JobsInv, TruthInv, NEW j \in Job,
         SubmitAccepted(j) \/ SubmitThreadRefused(j) \/ SubmitStopped(j),
         Observe, UNCHANGED status,
         SubmissionQueued(j), status[j] # "absent", ~SubmissionQueued(j)',
         \A k \in Job : SubmissionQueued(k)' => SubmissionQueued(k)
  PROVE  /\ HistoryGoesOn
         /\ wstatus'[j] \in WorkerTerminal => outcome'[j] = wstatus'[j]
<1> USE DEF JobsInv, WorkerInv, TypeOK, TruthInv, SubmitAccepted, SubmitThreadRefused,
            SubmitStopped, Register
<1>1. /\ \A k \in Job \ {j} : wstatus'[k] = wstatus[k] /\ wrun'[k] = wrun[k]
      /\ \/ wstatus'[j] = "queued" /\ wrun'[j] = "spawned"
         \/ wstatus'[j] = "failed" /\ wrun'[j] = wrun[j]
  OBVIOUS
<1>2. ~Known(j) /\ ran[j] = 0 /\ outcome[j] = "none"
  BY DEF HistoryAgrees
<1>3. ~Executing(j) /\ wstatus[j] \notin WorkerTerminal
  BY <1>2 DEF TableAgrees, Active, Known, WorkerActive, WorkerTerminal
<1>4. \A k \in Job : ran'[k] = ran[k]
  BY <1>1, <1>3, Observed DEF Executing
<1>5. /\ \A k \in Job \ {j} : outcome'[k] = outcome[k]
      /\ wstatus'[j] = "queued" => outcome'[j] = "none"
      /\ wstatus'[j] = "failed" => outcome'[j] = "failed"
  BY <1>1, <1>2, <1>3, Observed DEF WorkerTerminal
<1>6. HistoryAgrees'
  <2> SUFFICES ASSUME NEW k \in Job
               PROVE  /\ status[k] = "absent" \/ SubmissionQueued(k)' =>
                           ~Known(k)' /\ ran'[k] = 0 /\ outcome'[k] = "none"
                      /\ wrun'[k] = "spawned" => ran'[k] = 0
                      /\ wrun'[k] = "executing" => ran'[k] = 1
                      /\ ran'[k] \in {0, 1}
                      /\ Active(k)' => outcome'[k] = "none"
                      /\ wstatus'[k] \in WorkerTerminal => outcome'[k] = wstatus'[k]
    BY DEF HistoryAgrees
  <2>1. CASE k = j
    BY <1>1, <1>2, <1>3, <1>4, <1>5, <2>1 DEF Executing, Active, WorkerActive, WorkerTerminal
  <2>2. CASE k # j
    BY <1>1, <1>4, <1>5, <2>2 DEF HistoryAgrees, Known, Active
  <2> QED BY <2>1, <2>2
<1> QED BY <1>1, <1>2, <1>5, <1>6
        DEF HistoryGoesOn, Over, Known, Executing, WorkerTerminal

\* Steps in which the job table only loses jobs, or nothing.
LEMMA TableShrinksKeepsHistory ==
  ASSUME JobsInv, TruthInv, UNCHANGED status,
         \A j \in Job : SubmissionQueued(j)' => SubmissionQueued(j),
         \A j \in Job : /\ wstatus'[j] \in {wstatus[j], "absent"}
                        /\ wrun'[j] \in {wrun[j], "none"}
                        /\ ran'[j] = ran[j] /\ outcome'[j] = outcome[j]
  PROVE  HistoryGoesOn
<1> USE DEF TruthInv
<1>1. HistoryAgrees'
  BY DEF HistoryAgrees, Known, Active, WorkerActive, WorkerTerminal
<1> QED BY <1>1 DEF HistoryGoesOn, Over, Known, Executing

LEMMA Delivered ==
  ASSUME JobsTypeOK, NEW m, m.from \in Client \cup {Nobody}, NEW answer, Deliver(m, answer)
  PROVE  \A c \in Client : reply'[c] = reply[c] \/ (c = m.from /\ reply'[c] = answer)
  BY ClientNames DEF Deliver, JobsTypeOK

LEMMA ServeKeepsTruth ==
  ASSUME JobsInv, TruthInv, Serve
  PROVE  TruthInv'
<1> DEFINE m == Head(queue)
<1> USE DEF JobsInv
<1>1. m \in Call /\ m.job \in Job /\ m.from \in Client \cup {Nobody}
  BY OldestRequest DEF Serve, JobsTypeOK
<1>2. PICK j \in Job : m.job = j
  BY <1>1
<1>3. /\ 1 \in DOMAIN queue /\ m = queue[1] /\ Shrinks(1)
      /\ \A i \in DOMAIN queue' : queue'[i] = queue[i + 1] /\ i + 1 # 1 /\ i + 1 \in DOMAIN queue
      /\ m.kind \in AboutReceipt => status[j] # "absent" /\ ~SubmissionQueued(j)'
      /\ m.kind \in {"poll", "cancel"} => ~SubmissionQueued(j)
      /\ m.kind = "submit" => SubmissionQueued(j)
  BY <1>2, Oldest
<1>4. /\ UNCHANGED <<receiptVars, callerVars, monitorVars>> /\ Observe
      /\ \/ ServeSubmit(m) \/ ServePoll(m) \/ ServeCancel(m)
         \/ ServeHealth(m) \/ ServeNothing(m) \/ ServeStopped(m)
  BY DEF Serve
<1> HIDE DEF m
<1>5. UNCHANGED status
  BY <1>4 DEF receiptVars
<1>6. SubmissionFirst' /\ \A k \in Job : SubmissionQueued(k)' => SubmissionQueued(k)
  BY <1>3, <1>5, ShrinkingKeepsOrder DEF TruthInv
<1>7. \A c \in Client : m.from = c => Waiting(c) /\ JobOf(c) = j
  BY <1>2, <1>3 DEF OutstandingCalls, TruthInv
<1>8. /\ HistoryGoesOn
      /\ \A c \in Client : reply'[c] = reply[c] \/ (c = m.from /\ AnsweredTruly(c))
  <2>1. ASSUME NEW answer, Deliver(m, answer), HistoryGoesOn,
               \/ answer.code = "snapshot"
                    /\ (answer.status \in Resolved => outcome'[j] = answer.status)
               \/ answer.code = "missing" /\ Over(j)' /\ status[j] # "absent"
               \/ answer.code \in {"rejected", "health"}
        PROVE  \A c \in Client : reply'[c] = reply[c] \/ (c = m.from /\ AnsweredTruly(c))
    <3> SUFFICES ASSUME NEW c \in Client, c = m.from, reply'[c] = answer
                 PROVE  AnsweredTruly(c)
      BY <1>1, <2>1, Delivered
    <3>1. JobOf(c) = j
      BY <1>7
    <3> QED BY <2>1, <3>1 DEF AnsweredTruly
  <2>2. ASSUME UNCHANGED wvars
        PROVE  HistoryGoesOn
    BY <1>4, <1>5, <1>6, <2>2, Observed, TableShrinksKeepsHistory DEF wvars
  <2>3. ASSUME NEW s \in WorkerTerminal \cup WorkerActive,
               s \in WorkerTerminal => outcome'[j] = s
        PROVE  /\ Snapshot(s).code = "snapshot"
               /\ Snapshot(s).status \in Resolved => outcome'[j] = Snapshot(s).status
    BY <2>3 DEF Snapshot, Resolved, InFlight, WorkerTerminal
  <2>4. CASE m.kind = "submit" /\ (ServeSubmit(m) \/ ServeStopped(m))
    <3>1. CASE ~Admits(j) /\ UNCHANGED wvars /\ Deliver(m, [code |-> "rejected"])
      BY <2>1, <2>2, <3>1
    <3>2. ASSUME NEW s \in {"queued", "failed"}, Deliver(m, Snapshot(s)), wstatus'[j] = s,
                 SubmitAccepted(j) \/ SubmitThreadRefused(j) \/ SubmitStopped(j)
          PROVE  /\ HistoryGoesOn
                 /\ \A c \in Client : reply'[c] = reply[c] \/ (c = m.from /\ AnsweredTruly(c))
      <4>1. HistoryGoesOn /\ (wstatus'[j] \in WorkerTerminal => outcome'[j] = wstatus'[j])
        BY <1>3, <1>4, <1>5, <1>6, <2>4, <3>2, SubmitKeepsHistory DEF AboutReceipt
      <4>2. s \in WorkerTerminal \cup WorkerActive
        BY DEF WorkerTerminal, WorkerActive
      <4> QED BY <2>1, <2>3, <3>2, <4>1, <4>2
    <3>3. wstatus \in [Job -> WorkerTerminal \cup WorkerActive \cup {"absent"}]
      BY DEF WorkerInv, TypeOK
    <3> QED BY <1>2, <2>4, <3>1, <3>2, <3>3
            DEF ServeSubmit, ServeStopped, SubmitAccepted, SubmitThreadRefused, SubmitStopped,
                Register
  <2>5. CASE ServePoll(m) \/ ServeCancel(m)
    <3>1. /\ status[j] # "absent" /\ ~SubmissionQueued(j) /\ ~SubmissionQueued(j)'
          /\ wstatus' = wstatus /\ wrun' = wrun
          /\ \/ Known(j) /\ Deliver(m, Snapshot(wstatus[j]))
             \/ ~Known(j) /\ Deliver(m, [code |-> "missing"])
      BY <1>2, <1>3, <2>5 DEF ServePoll, ServeCancel, CancelJob, AboutReceipt, wvars, tableVars
    <3>2. HistoryGoesOn
      BY <1>4, <1>5, <1>6, <3>1, Observed, TableShrinksKeepsHistory
    <3>3. CASE Known(j) /\ Deliver(m, Snapshot(wstatus[j]))
      <4>1. wstatus[j] \in WorkerTerminal \cup WorkerActive
        BY <3>3 DEF Known, WorkerInv, TypeOK
      <4>2. wstatus[j] \in WorkerTerminal => outcome'[j] = wstatus[j]
        BY <3>1, <3>2 DEF HistoryGoesOn, HistoryAgrees
      <4> QED BY <2>1, <2>3, <3>2, <3>3, <4>1, <4>2
    <3>4. CASE ~Known(j) /\ Deliver(m, [code |-> "missing"])
      <4>1. Over(j)'
        BY <3>1, <3>4 DEF Over, Known
      <4> QED BY <2>1, <3>1, <3>2, <3>4, <4>1
    <3> QED BY <3>1, <3>3, <3>4
  <2>6. CASE ServeHealth(m)
    BY <2>1, <2>2, <2>6 DEF ServeHealth
  <2>7. CASE ServeNothing(m)
    BY <2>2, <2>7 DEF ServeNothing
  <2> QED BY <1>4, <2>4, <2>5, <2>6, <2>7 DEF ServeSubmit, ServeStopped
<1>9. OutstandingCalls'
  <2>1. ASSUME NEW c \in Client, NEW i \in DOMAIN queue', queue'[i].from = c
        PROVE  reply'[c] = reply[c]
    <3>1. c # m.from
      BY <1>3, <2>1 DEF OutstandingCalls, TruthInv
    <3> QED BY <1>8, <3>1
  <2> QED BY <1>3, <1>4, <2>1, ShrinkingKeepsCalls DEF TruthInv
<1> QED BY <1>4, <1>6, <1>7, <1>8, <1>9, WorkerStepKeepsTruth

\* A caller gives up on its request, which may still be served.
LEMMA TimeoutKeepsTruth ==
  ASSUME JobsInv, TruthInv, NEW c \in Client, CallTimesOut(c)
  PROVE  TruthInv'
<1> USE DEF CallTimesOut, JobsInv
<1>1. PICK arrives \in BOOLEAN : queue' = Abandon({c}, arrives)
  OBVIOUS
<1>2. /\ UNCHANGED <<receiptVars, callerVars, monitorVars, wvars, historyVars>>
      /\ Waiting(c)
  OBVIOUS
<1>3. /\ \A d \in Client : d # c => reply'[d] = reply[d]
      /\ reply'[c] = Lost
  BY DEF JobsTypeOK
<1>4. /\ DOMAIN queue' = DOMAIN queue
      /\ \A i \in DOMAIN queue :
           /\ queue'[i].job = queue[i].job
           /\ queue'[i].kind \in {queue[i].kind, "dropped"}
           /\ queue'[i].from = IF queue[i].from \in {c} THEN Nobody ELSE queue[i].from
  BY <1>1, AbandonedRequests DEF JobsTypeOK
<1>5. Shrinks(0)
  <2>1. \A i \in DOMAIN queue : i \in Nat /\ i + 0 = i
    BY LenProperties DEF JobsTypeOK
  <2> HIDE DEF CallTimesOut, JobsInv
  <2> QED BY <1>4, <2>1 DEF Shrinks
<1> HIDE DEF CallTimesOut
<1>6. SubmissionFirst' /\ \A j \in Job : SubmissionQueued(j)' => SubmissionQueued(j)
  <2>1. UNCHANGED status
    BY <1>2 DEF receiptVars
  <2> QED BY <1>5, <2>1, ShrinkingKeepsOrder DEF TruthInv
<1>7. \A d \in Client, i \in DOMAIN queue' : queue'[i].from = d => d # c
  BY <1>4, ClientNames
<1>8. OutstandingCalls'
  BY <1>2, <1>3, <1>5, <1>7, ShrinkingKeepsCalls DEF TruthInv
<1>9. HistoryGoesOn
  <2>1. UNCHANGED <<status, wstatus, wrun, ran, outcome>>
    BY <1>2 DEF wvars, tableVars, historyVars, receiptVars
  <2> QED BY <1>6, <2>1, TableShrinksKeepsHistory
<1>10. ASSUME NEW d \in Client
       PROVE  reply'[d] = reply[d] \/ (Waiting(d) /\ AnsweredTruly(d))
  <2>1. CASE d # c
    BY <1>3, <2>1
  <2>2. CASE d = c
    <3>1. AnsweredTruly(c)
      BY <1>3, NoReplyIsNoAnswer DEF AnsweredTruly
    <3> QED BY <1>2, <2>2, <3>1
  <2> QED BY <2>1, <2>2
<1> QED BY <1>2, <1>6, <1>8, <1>9, <1>10, WorkerStepKeepsTruth

\* The execution thread moves on, or the worker process starts, is watched,
\* is told to stop or closes: the wire stays as it is.
LEMMA WorkerKeepsTruth ==
  ASSUME JobsInv, TruthInv,
         \/ \E j \in Job : WorkerRuns(j)
         \/ WorkerStops \/ WorkerCloses \/ WorkerWatches \/ WorkerStarts
  PROVE  TruthInv'
<1> USE DEF WorkerRuns, WorkerStops, WorkerCloses, WorkerWatches, WorkerStarts
<1>1. UNCHANGED <<receiptVars, callerVars, monitorVars, wireVars>>
  OBVIOUS
<1>2. UNCHANGED <<status, queue, reply>>
  BY <1>1 DEF receiptVars, wireVars
<1>3. SubmissionFirst' /\ \A j \in Job : SubmissionQueued(j)' <=> SubmissionQueued(j)
  BY <1>2 DEF TruthInv, SubmissionFirst, SubmissionQueued
<1>4. OutstandingCalls'
  <2>1. \A c \in Client : (Waiting(c)' <=> Waiting(c)) /\ JobOf(c)' = JobOf(c)
    BY <1>1 DEF Waiting, JobOf, callerVars, monitorVars
  <2> QED BY <1>2, <2>1 DEF TruthInv, OutstandingCalls
<1>5. HistoryGoesOn
  <2>1. CASE \E j \in Job : WorkerRuns(j)
    BY <1>2, <2>1, RunKeepsHistory
  <2>2. CASE WorkerStops \/ WorkerCloses \/ WorkerWatches \/ WorkerStarts
    <3>1. UNCHANGED <<wstatus, wrun, ran, outcome>>
      BY <2>2
         DEF WorkerStopping, WorkerClose, WatchStep, WatchProbe, WatchReports, WatchExpires,
             WorkerBoot, tableVars, historyVars
    <3> QED BY <1>2, <1>3, <3>1, TableShrinksKeepsHistory
  <2> QED BY <2>1, <2>2
<1> QED BY <1>1, <1>2, <1>3, <1>4, <1>5, WorkerStepKeepsTruth

\* The worker process ends: its table and every connection go with it.
LEMMA ExitKeepsTruth ==
  ASSUME JobsInv, TruthInv, WorkerExits \/ WorkerDies
  PROVE  TruthInv'
<1> USE DEF WorkerExits, WorkerDies
<1>1. /\ UNCHANGED <<receiptVars, callerVars, monitorVars, historyVars>>
      /\ Disconnect /\ Gone
  BY DEF WorkerJoined, WorkerCrash
<1>2. DOMAIN queue' = {}
  BY <1>1 DEF Disconnect
<1>3. \A j \in Job : ~SubmissionQueued(j)'
  BY <1>2 DEF SubmissionQueued
<1>4. OutstandingCalls' /\ SubmissionFirst'
  BY <1>2 DEF OutstandingCalls, SubmissionFirst
<1>5. \A j \in Job : wstatus'[j] = "absent" /\ wrun'[j] = "none"
  BY <1>1 DEF Gone, EmptyTableNext
<1>6. HistoryGoesOn
  BY <1>1, <1>3, <1>5, TableShrinksKeepsHistory DEF historyVars, receiptVars
<1>7. ASSUME NEW c \in Client
      PROVE  reply'[c] = reply[c] \/ (Waiting(c) /\ AnsweredTruly(c))
  <2>1. CASE \E i \in DOMAIN queue : queue[i].from = c
    <3>1. Waiting(c) /\ reply'[c] = Lost
      BY <1>1, <2>1 DEF Disconnect, TruthInv, OutstandingCalls
    <3> QED BY <3>1, NoReplyIsNoAnswer DEF AnsweredTruly
  <2>2. CASE ~ \E i \in DOMAIN queue : queue[i].from = c
    BY <1>1, <2>2 DEF Disconnect
  <2> QED BY <2>1, <2>2
<1> QED BY <1>1, <1>3, <1>4, <1>6, <1>7, WorkerStepKeepsTruth

-----------------------------------------------------------------------------
(* The app process.                                                        *)

\* Only receipts survive, and the requests that are under way.
LEMMA ReopenKeepsTruth ==
  ASSUME JobsInv, TruthInv, NEW refused, Reopen(refused)
  PROVE  Justified /\ TruthInv'
<1> USE DEF Reopen, JobsInv
<1>1. PICK arrives \in BOOLEAN : queue' = Abandon(Client, arrives)
  OBVIOUS
<1>2. /\ DOMAIN queue' = DOMAIN queue
      /\ \A i \in DOMAIN queue :
           /\ queue'[i].job = queue[i].job
           /\ queue'[i].kind \in {queue[i].kind, "dropped"}
           /\ queue'[i].from = IF queue[i].from \in Client THEN Nobody ELSE queue[i].from
  BY <1>1, AbandonedRequests DEF JobsTypeOK
<1>3. \A i \in DOMAIN queue' : queue'[i].from = Nobody
  BY <1>2, QueuedRequest DEF JobsTypeOK
<1>4. /\ UNCHANGED <<wstatus, wrun, ran, outcome, recovery>>
      /\ \A j \in Job : status'[j] = IF j \in refused THEN "interrupted" ELSE status[j]
      /\ \A j \in refused : j \in Job /\ Unresolved(j)
      /\ \A c \in Callers : pc'[c] = "idle"
      /\ \A j \in Job : monitor'[j] \in {"begin", "none"}
      /\ \A c \in Client : reply'[c] = NoReply
  BY DEF wvars, tableVars, historyVars
<1> HIDE DEF Reopen
<1>5. Justified
  BY <1>4 DEF Justified, Unresolved
<1>6. \A j \in Job : status'[j] = "absent" <=> status[j] = "absent"
  BY <1>4 DEF Unresolved, InFlight
<1>7. Shrinks(0)
  <2>1. \A i \in DOMAIN queue : i \in Nat /\ i + 0 = i
    BY LenProperties DEF JobsTypeOK
  <2> QED BY <1>2, <2>1 DEF Shrinks
<1>8. SubmissionFirst' /\ \A j \in Job : SubmissionQueued(j)' => SubmissionQueued(j)
  BY <1>6, <1>7, ShrinkingKeepsOrder DEF TruthInv
<1>9. OutstandingCalls'
  BY <1>3, ClientNames DEF OutstandingCalls
<1>10. HistoryAgrees'
  BY <1>4, <1>6, <1>8 DEF TruthInv, HistoryAgrees, Known, Active
<1>11. AnswersTrue'
  BY <1>4, NoReplyIsNoAnswer DEF AnswersTrue
<1>12. Checked'
  BY <1>4 DEF Checked
<1>13. ReceiptTellsTheTruth' /\ ResolvedMeansOver'
  BY <1>4, <1>5, <1>8, ReceiptsOfJustifiedStep
<1> QED BY <1>5, <1>8, <1>9, <1>10, <1>11, <1>12, <1>13 DEF TruthInv

-----------------------------------------------------------------------------
(* Every step of the composed system.                                      *)

\* What the worker does with a job: nothing, take it up once, or end it once.
HistoryMoves ==
  \/ UNCHANGED historyVars
  \/ \E j \in Job :
       /\ status[j] # "absent" /\ ran[j] = 0
       /\ ran' = [ran EXCEPT ![j] = 1] /\ outcome' = outcome
  \/ \E j \in Job, s \in WorkerTerminal :
       /\ status[j] # "absent" /\ outcome[j] = "none"
       /\ s = "failed" \/ ran[j] = 1
       /\ outcome' = [outcome EXCEPT ![j] = s] /\ ran' = ran

\* Either the controller learns something or the worker does something.
Moves ==
  \/ Justified /\ UNCHANGED historyVars
  \/ UNCHANGED receiptVars /\ HistoryMoves

LEMMA NoHistoryObserved ==
  ASSUME JobsTypeOK, Observe,
         \A j \in Job : /\ wrun[j] = "spawned" => wrun'[j] # "executing"
                        /\ wstatus[j] \notin WorkerTerminal => wstatus'[j] \notin WorkerTerminal
  PROVE  UNCHANGED historyVars
<1>1. ran \in [Job -> Nat] /\ outcome \in [Job -> WorkerTerminal \cup {"none"}]
  BY DEF JobsTypeOK
<1>2. ran' = [j \in Job |-> ran[j]] /\ outcome' = [j \in Job |-> outcome[j]]
  BY DEF Observe
<1> QED BY <1>1, <1>2 DEF historyVars

LEMMA RunMoves ==
  ASSUME JobsInv, TruthInv, NEW j \in Job, RunStep(j), Observe
  PROVE  HistoryMoves
<1> USE DEF JobsInv, WorkerInv, TypeOK, TruthInv
<1>1. ran \in [Job -> Nat] /\ outcome \in [Job -> WorkerTerminal \cup {"none"}]
  BY DEF JobsTypeOK
<1>2. Executing(j) => /\ status[j] # "absent" /\ Active(j) /\ outcome[j] = "none"
                      /\ ran[j] = IF wrun[j] = "executing" THEN 1 ELSE 0
  BY DEF Executing, TableAgrees, Active, Known, WorkerActive, HistoryAgrees
<1>3. CASE RunPrepare(j)
  <2>1. Executing(j) /\ wrun[j] = "spawned"
    BY <1>3 DEF RunPrepare, Executing
  <2>2. /\ \A k \in Job \ {j} : wstatus'[k] = wstatus[k] /\ wrun'[k] = wrun[k]
        /\ wrun'[j] = "executing" /\ wstatus'[j] = "preparing"
    BY <1>2, <1>3, <2>1, TerminalIsNotActive DEF RunPrepare, Active
  <2>3. \A k \in Job : outcome'[k] = outcome[k] /\ ran'[k] = IF k = j THEN ran[j] + 1 ELSE ran[k]
    BY <2>1, <2>2, Observed DEF WorkerTerminal
  <2>4. ran' = [ran EXCEPT ![j] = 1] /\ outcome' = outcome
    <3>1. ran' = [k \in Job |-> ran'[k]] /\ outcome' = [k \in Job |-> outcome'[k]]
      BY DEF Observe
    <3>2. ran[j] + 1 = 1
      BY <1>2, <2>1
    <3> QED BY <1>1, <2>3, <3>1, <3>2
  <2>5. ran[j] = 0
    BY <1>2, <2>1
  <2> QED BY <1>2, <2>1, <2>4, <2>5 DEF HistoryMoves
<1>4. CASE RunPublish(j) \/ RunInfrastructureFails(j)
  <2>1. /\ Executing(j) /\ wrun'[j] = "ended" /\ wstatus'[j] \in WorkerTerminal
        /\ wstatus'[j] = "failed" \/ wrun[j] = "executing"
        /\ \A k \in Job \ {j} : wstatus'[k] = wstatus[k] /\ wrun'[k] = wrun[k]
    BY <1>4 DEF RunPublish, RunInfrastructureFails, Executing, WorkerTerminal
  <2>2. wstatus[j] \notin WorkerTerminal
    BY <1>2, <2>1, TerminalIsNotActive DEF Active
  <2>3. \A k \in Job : ran'[k] = ran[k] /\ outcome'[k] = IF k = j THEN wstatus'[j] ELSE outcome[k]
    BY <2>1, <2>2, Observed
  <2>4. ran' = ran /\ outcome' = [outcome EXCEPT ![j] = wstatus'[j]]
    <3>1. ran' = [k \in Job |-> ran'[k]] /\ outcome' = [k \in Job |-> outcome'[k]]
      BY DEF Observe
    <3> QED BY <1>1, <2>3, <3>1
  <2>5. wstatus'[j] = "failed" \/ ran[j] = 1
    BY <1>2, <2>1
  <2> QED BY <1>2, <2>1, <2>4, <2>5 DEF HistoryMoves
<1>5. CASE RunProgress(j) \/ RunRetire(j)
  <2>1. \A k \in Job : /\ wrun[k] = "spawned" => wrun'[k] # "executing"
                       /\ wstatus[k] \notin WorkerTerminal => wstatus'[k] \notin WorkerTerminal
    BY <1>5 DEF RunProgress, RunRetire, WorkerTerminal
  <2> QED BY <2>1, NoHistoryObserved DEF HistoryMoves
<1> QED BY <1>3, <1>4, <1>5 DEF RunStep

LEMMA ServeMoves ==
  ASSUME JobsInv, TruthInv, Serve
  PROVE  HistoryMoves
<1> DEFINE m == Head(queue)
<1> USE DEF JobsInv, WorkerInv, TypeOK
<1>1. m.job \in Job
  BY OldestRequest DEF Serve, JobsTypeOK
<1>2. PICK j \in Job : m.job = j
  BY <1>1
<1>3. m.kind = "submit" => status[j] # "absent" /\ SubmissionQueued(j)
  BY <1>2, Oldest DEF AboutReceipt
<1>4. /\ Observe
      /\ \/ ServeSubmit(m) \/ ServePoll(m) \/ ServeCancel(m)
         \/ ServeHealth(m) \/ ServeNothing(m) \/ ServeStopped(m)
  BY DEF Serve
<1> HIDE DEF m
<1>5. CASE m.kind = "submit" /\ SubmitThreadRefused(j)
  <2>1. ran \in [Job -> Nat] /\ outcome \in [Job -> WorkerTerminal \cup {"none"}]
    BY DEF JobsTypeOK
  <2>2. wrun' = wrun /\ wstatus' = [wstatus EXCEPT ![j] = "failed"] /\ wstatus[j] = "absent"
    BY <1>5 DEF SubmitThreadRefused, Register, Admits, Known
  <2>3. \A k \in Job : ran'[k] = ran[k] /\ outcome'[k] = IF k = j THEN "failed" ELSE outcome[k]
    BY <1>4, <2>2, Observed DEF WorkerTerminal
  <2>4. ran' = ran /\ outcome' = [outcome EXCEPT ![j] = "failed"]
    <3>1. ran' = [k \in Job |-> ran'[k]] /\ outcome' = [k \in Job |-> outcome'[k]]
      BY <1>4 DEF Observe
    <3> QED BY <2>1, <2>3, <3>1
  <2>5. outcome[j] = "none" /\ status[j] # "absent"
    BY <1>3, <1>5 DEF TruthInv, HistoryAgrees
  <2> QED BY <2>4, <2>5 DEF HistoryMoves, WorkerTerminal
<1>6. CASE ~(m.kind = "submit" /\ SubmitThreadRefused(j))
  <2>1. \/ SubmitAccepted(j) \/ SubmitStopped(j)
        \/ wrun' = wrun /\ wstatus' = wstatus
    BY <1>2, <1>4, <1>6
       DEF ServeSubmit, ServePoll, ServeCancel, ServeHealth, ServeNothing, ServeStopped,
           CancelJob, wvars, tableVars
  <2>2. \A k \in Job : /\ wrun[k] = "spawned" => wrun'[k] # "executing"
                       /\ wstatus[k] \notin WorkerTerminal => wstatus'[k] \notin WorkerTerminal
    BY <2>1 DEF SubmitAccepted, SubmitStopped, Register, WorkerTerminal
  <2> QED BY <1>4, <2>2, NoHistoryObserved DEF HistoryMoves
<1> QED BY <1>5, <1>6

LEMMA CloseStepsAct ==
  ASSUME JobsInv, TruthInv, CloseBegin \/ CloseList
  PROVE  ClientStep(Closer) /\ Justified /\ pc'[Closer] # "checking"
<1> USE DEF CloseBegin, CloseList, Goto, JobsInv, TruthInv
<1>1. Closer \in Callers /\ Closer \in Client /\ Closer \notin Job
  BY ClientNames DEF Callers
<1>2. /\ pc'[Closer] \in {"listing", "next"}
      /\ \A d \in Callers \ {Closer} : pc'[d] = pc[d] /\ target'[d] = target[d]
  BY <1>1 DEF JobsTypeOK
<1>3. \A d \in Client \ {Closer} : (Waiting(d)' <=> Waiting(d)) /\ JobOf(d)' = JobOf(d)
  BY <1>1, <1>2, OtherClients DEF monitorVars
<1>4. ~Waiting(Closer)
  BY <1>1 DEF Waiting
<1>5. queue' = queue /\ reply' = [reply EXCEPT ![Closer] = NoReply]
  BY <1>1, <1>4, NoAnswerToForget DEF wireVars
<1> QED BY <1>2, <1>3, <1>4, <1>5, UnchangedJustified DEF ClientStep

LEMMA TruthStep ==
  ASSUME JobsInv, TruthInv, [Next]_vars
  PROVE  TruthInv' /\ Moves
<1>1. ASSUME NEW c \in Client, ClientStep(c), Justified,
             c \in Callers => \A j \in Job : pc'[c] = "checking" /\ target'[c] = j =>
                                             Over(j) /\ status[j] # "absent"
      PROVE  TruthInv' /\ Moves
  BY <1>1, ClientStepKeepsTruth DEF Moves, ClientStep, historyVars
<1>2. CASE UNCHANGED vars
  <2>1. UNCHANGED <<status, recovery, target, pc, monitor, queue, reply, wstatus, wrun, ran,
                    outcome>>
    BY <1>2
       DEF vars, wvars, tableVars, receiptVars, callerVars, monitorVars, wireVars, historyVars
  <2>2. TruthInv'
    BY <2>1
       DEF TruthInv, OutstandingCalls, SubmissionFirst, HistoryAgrees, AnswersTrue, Checked,
           ReceiptTellsTheTruth, ResolvedMeansOver, Over, SubmissionQueued, Known, Active,
           Executing, Waiting, JobOf
  <2> QED BY <2>1, <2>2, <1>2, UnchangedJustified DEF Moves, historyVars, vars
<1>3. CASE \E c \in Caller, j \in Job : StartBegin(c, j)
  BY <1>1, <1>3, StartBeginActs, ClientNames DEF Callers
<1>4. CASE \/ \E c \in Caller, j \in Job, o \in Operation : GetBegin(c, j, o)
           \/ \E j \in Job : CloseNext(j)
  <2>1. PICK c \in Callers, j \in Job, o \in Operation \cup {"cancel"} :
          /\ pc[c] \in {"idle", "next"} /\ GetRead(c, j, o)
          /\ UNCHANGED <<wvars, receiptVars, monitorVars, wireVars, historyVars>>
    BY <1>4 DEF GetBegin, CloseNext, Callers
  <2>2. ClientStep(c) /\ Justified /\ pc'[c] # "checking"
    BY <2>1, GetReadActs
  <2> QED BY <1>1, <2>2, ClientNames
<1>5. CASE \E c \in Callers : CallerStep(c)
  <2>1. PICK c \in Callers : CallerStep(c)
    BY <1>5
  <2>2. CASE StartUnavailable(c) \/ StartSubmit(c) \/ StartFinish(c)
    BY <1>1, <2>2, StartStepsAct, ClientNames
  <2>3. CASE \/ GetReserve(c) \/ GetSnapshot(c) \/ GetMissing(c) \/ GetUnavailable(c)
             \/ GetChecked(c) \/ GetSettle(c) \/ RecoverApply(c) \/ CancelReply(c)
    BY <1>1, <2>3, GetStepsAct, ClientNames
  <2> QED BY <2>1, <2>2, <2>3 DEF CallerStep
<1>6. CASE CloseBegin \/ CloseList
  BY <1>1, <1>6, CloseStepsAct, ClientNames DEF Callers
<1>7. CASE \E j \in Job : MonitorStep(j)
  BY <1>1, <1>7, MonitorStepActs, ClientNames
<1>8. CASE Serve
  <2>1. UNCHANGED receiptVars
    BY <1>8 DEF Serve
  <2> QED BY <1>8, <2>1, ServeKeepsTruth, ServeMoves DEF Moves
<1>9. CASE \E c \in Client : CallTimesOut(c)
  <2>1. UNCHANGED <<receiptVars, historyVars>>
    BY <1>9 DEF CallTimesOut
  <2> QED BY <1>9, <2>1, TimeoutKeepsTruth, UnchangedJustified DEF Moves
<1>10. CASE \E j \in Job : WorkerRuns(j)
  <2>1. UNCHANGED receiptVars /\ HistoryMoves
    BY <1>10, RunMoves DEF WorkerRuns
  <2> QED BY <1>10, <2>1, WorkerKeepsTruth DEF Moves
<1>11. CASE WorkerStops \/ WorkerCloses \/ WorkerWatches \/ WorkerStarts
  <2>1. UNCHANGED <<receiptVars, historyVars>>
    BY <1>11 DEF WorkerStops, WorkerCloses, WorkerWatches, WorkerStarts
  <2> QED BY <1>11, <2>1, WorkerKeepsTruth, UnchangedJustified DEF Moves
<1>12. CASE WorkerExits \/ WorkerDies
  <2>1. UNCHANGED <<receiptVars, historyVars>>
    BY <1>12 DEF WorkerExits, WorkerDies
  <2> QED BY <1>12, <2>1, ExitKeepsTruth, UnchangedJustified DEF Moves
<1>13. CASE AppCrash \/ AppExit
  <2>1. PICK refused : Reopen(refused)
    BY <1>13 DEF AppCrash, AppExit
  <2>2. UNCHANGED historyVars
    BY <2>1 DEF Reopen
  <2> QED BY <2>1, <2>2, ReopenKeepsTruth DEF Moves
<1> QED BY <1>2, <1>3, <1>4, <1>5, <1>6, <1>7, <1>8, <1>9, <1>10, <1>11, <1>12, <1>13 DEF Next

LEMMA InitEstablishesTruth == Init => TruthInv
  BY NoReplyIsNoAnswer
     DEF Init, WorkerInit, EmptyTable, TruthInv, OutstandingCalls, SubmissionFirst,
         HistoryAgrees, AnswersTrue, Checked, ReceiptTellsTheTruth, ResolvedMeansOver,
         SubmissionQueued, Known, Active, WorkerActive, WorkerTerminal, Executing, Resolved

-----------------------------------------------------------------------------
(* The theorems.                                                           *)

\* The inductive invariant of receipts, requests, answers and history.
THEOREM TruthInvariant == Spec => []TruthInv
<1>1. JobsInv /\ TruthInv /\ [Next]_vars => TruthInv'
  BY TruthStep
<1> QED BY <1>1, JobsInvariant, InitEstablishesTruth, PTL DEF Spec

\* A receipt says what the worker's run of the job came to (module_jobs.py,
\* _update and its callers), for any number of threads, faults and restarts.
THEOREM ReceiptsTellTheTruth == Spec => []ReceiptTellsTheTruth
<1>1. TruthInv => ReceiptTellsTheTruth
  BY DEF TruthInv
<1> QED BY <1>1, TruthInvariant, PTL

\* A resolved receipt means that the worker neither runs the job nor will,
\* unless an operator vouched for it (module_jobs.py, get, poll and recover).
THEOREM ResolvedJobsAreOver == Spec => []ResolvedMeansOver
<1>1. TruthInv => ResolvedMeansOver
  BY DEF TruthInv
<1> QED BY <1>1, TruthInvariant, PTL

\* Source is executed at most once and never without a receipt (module_jobs.py,
\* start, which submits once and never again; module_worker.py, submit).
THEOREM SourceNeverReplayed == Spec => []NeverReplayed
<1>1. TruthInv => NeverReplayed
  BY DEF TruthInv, HistoryAgrees, NeverReplayed
<1> QED BY <1>1, TruthInvariant, PTL

-----------------------------------------------------------------------------
(* The controller and the worker implement JobReceipts.                    *)

\* What a learner sees of a receipt.
Seen(j) ==
  IF status[j] = "absent" THEN "none" ELSE IF Unresolved(j) THEN "open" ELSE status[j]

SeenReceipts == [j \in Job |-> Seen(j)]
SeenAssumed == [j \in Job |-> recovery[j] # "none"]

LEMMA SeenStates ==
  ASSUME JobsTypeOK, NEW j \in Job
  PROVE  /\ Seen(j) = "none" <=> status[j] = "absent"
         /\ Seen(j) = "open" <=> Unresolved(j)
         /\ status[j] \in Resolved => Seen(j) = status[j]
  BY DEF Seen, JobsTypeOK, Status, Unresolved, Resolved, InFlight

\* A change of one receipt, as a learner sees it.
LEMMA OneReceiptSeen ==
  ASSUME JobsTypeOK, NEW j \in Job,
         \A k \in Job : k # j => Seen(k)' = Seen(k) /\ recovery'[k] = recovery[k]
  PROVE  /\ SeenReceipts' = [SeenReceipts EXCEPT ![j] = Seen(j)']
         /\ recovery'[j] = recovery[j] => SeenAssumed' = SeenAssumed
         /\ recovery'[j] # "none" => SeenAssumed' = [SeenAssumed EXCEPT ![j] = TRUE]
  BY DEF SeenReceipts, SeenAssumed

\* The controller's steps: a receipt is created, or at most one is resolved.
LEMMA JustifiedRefines ==
  ASSUME JobsTypeOK, JobsTypeOK', OneUnresolved, OneUnresolved', Justified,
         UNCHANGED historyVars
  PROVE  Receipts!ReceiptsNext \/ UNCHANGED <<SeenReceipts, SeenAssumed, ran, outcome>>
<1>1. UNCHANGED <<ran, outcome>>
  BY DEF historyVars
<1>2. ASSUME NEW j \in Job, status[j] = "absent", status'[j] = InFlight, recovery' = recovery,
             \A k \in Job : k # j => status'[k] = status[k]
      PROVE  Receipts!Submit(j)
  <2>1. \A k \in Job : k # j => Seen(k)' = Seen(k)
    BY <1>2 DEF Seen, Unresolved
  <2>2. Seen(j) = "none" /\ Seen(j)' = "open"
    BY <1>2 DEF Seen, Unresolved, InFlight
  <2>3. \A k \in Job : Seen(k) # "open"
    BY <1>2, <2>1, <2>2, SeenStates DEF OneUnresolved, Unresolved
  <2>4. SeenReceipts' = [SeenReceipts EXCEPT ![j] = "open"] /\ SeenAssumed' = SeenAssumed
    BY <1>2, <2>1, <2>2, OneReceiptSeen
  <2> QED BY <1>1, <2>2, <2>3, <2>4 DEF Receipts!Submit, SeenReceipts, SeenAssumed, Seen
<1>3. CASE \A j \in Job : status[j] = "absent" => status'[j] = "absent"
  <2>1. CASE \A j \in Job : Seen(j)' = Seen(j) /\ recovery'[j] = recovery[j]
    BY <1>1, <2>1 DEF SeenReceipts, SeenAssumed
  <2>2. ASSUME NEW j \in Job, ~(Seen(j)' = Seen(j) /\ recovery'[j] = recovery[j])
        PROVE  Receipts!ReceiptsNext
    <3>1. /\ Unresolved(j)
          /\ \/ /\ status'[j] \in Resolved
                /\ Heard(j, status'[j]) /\ recovery'[j] = recovery[j]
             \/ status'[j] = "failed" /\ recovery'[j] \in {"operator", "replaced"}
      BY <1>3, <2>2 DEF Justified, Seen, Unresolved, InFlight
    <3>2. \A k \in Job : k # j => Seen(k)' = Seen(k) /\ recovery'[k] = recovery[k]
      BY <1>3, <3>1 DEF OneUnresolved, Justified, Seen, Unresolved, InFlight
    <3>3. Seen(j) = "open" /\ Seen(j)' = status'[j]
      BY <3>1, SeenStates DEF Seen, Unresolved, Resolved, InFlight
    <3>4. SeenReceipts' = [SeenReceipts EXCEPT ![j] = status'[j]]
      BY <3>2, <3>3, OneReceiptSeen
    <3>5. CASE status'[j] \in Resolved /\ Heard(j, status'[j]) /\ recovery'[j] = recovery[j]
      <4>1. SeenAssumed' = SeenAssumed
        BY <3>2, <3>5, OneReceiptSeen
      <4>2. PICK verdict \in Resolved : verdict = status'[j]
        BY <3>5
      <4>3. Receipts!Record(j, verdict)
        BY <1>1, <3>3, <3>4, <3>5, <4>1, <4>2
           DEF Receipts!Record, SeenReceipts, SeenAssumed, Seen, Heard
      <4> QED BY <4>3 DEF Receipts!ReceiptsNext
    <3>6. CASE status'[j] = "failed" /\ recovery'[j] \in {"operator", "replaced"}
      <4>1. SeenAssumed' = [SeenAssumed EXCEPT ![j] = TRUE]
        BY <3>2, <3>6, OneReceiptSeen
      <4>2. Receipts!Assume(j)
        BY <1>1, <3>3, <3>4, <3>6, <4>1
           DEF Receipts!Assume, SeenReceipts, SeenAssumed, Seen
      <4> QED BY <4>2 DEF Receipts!ReceiptsNext
    <3> QED BY <3>1, <3>5, <3>6
  <2> QED BY <2>1, <2>2
<1>4. CASE ~ \A j \in Job : status[j] = "absent" => status'[j] = "absent"
  <2>1. PICK j \in Job : status[j] = "absent" /\ status'[j] # "absent"
    BY <1>4
  <2>2. /\ status'[j] = InFlight /\ recovery' = recovery
        /\ \A k \in Job : k # j => status'[k] = status[k]
    BY <2>1 DEF Justified, Unresolved, Resolved, InFlight
  <2> QED BY <1>2, <2>1, <2>2 DEF Receipts!ReceiptsNext
<1> QED BY <1>3, <1>4

\* The worker's steps: a job is executed, or it ends.
LEMMA HistoryRefines ==
  ASSUME JobsTypeOK, HistoryMoves, UNCHANGED receiptVars
  PROVE  Receipts!ReceiptsNext \/ UNCHANGED <<SeenReceipts, SeenAssumed, ran, outcome>>
<1>1. UNCHANGED <<SeenReceipts, SeenAssumed>>
  BY DEF receiptVars, SeenReceipts, SeenAssumed, Seen, Unresolved
<1>2. CASE UNCHANGED historyVars
  BY <1>1, <1>2 DEF historyVars
<1>3. ASSUME NEW j \in Job, status[j] # "absent", ran[j] = 0,
             ran' = [ran EXCEPT ![j] = 1], outcome' = outcome
      PROVE  Receipts!Execute(j)
  <2>1. Seen(j) # "none"
    BY <1>3, SeenStates
  <2> QED BY <1>1, <1>3, <2>1 DEF Receipts!Execute, SeenReceipts, SeenAssumed, Seen
<1>4. ASSUME NEW j \in Job, NEW s \in WorkerTerminal, status[j] # "absent", outcome[j] = "none",
             s = "failed" \/ ran[j] = 1, outcome' = [outcome EXCEPT ![j] = s], ran' = ran
      PROVE  Receipts!End(j, s) /\ s \in Resolved
  <2>1. Seen(j) # "none"
    BY <1>4, SeenStates
  <2> QED BY <1>1, <1>4, <2>1
          DEF Receipts!End, SeenReceipts, SeenAssumed, Seen, WorkerTerminal, Resolved
<1> QED BY <1>2, <1>3, <1>4, <1>1 DEF HistoryMoves, Receipts!ReceiptsNext

\* Whatever calls, threads and processes fail in between, the controller and
\* the worker together do only what JobReceipts allows: one open receipt, one
\* execution of the source and one verdict, the worker's own or marked as
\* assumed (module_jobs.py with module_worker.py).
THEOREM ReceiptPromisesKept == Spec => KeepsReceiptPromises
<1>1. Init => Receipts!ReceiptsInit
  <2> SUFFICES ASSUME Init PROVE Receipts!ReceiptsInit
    OBVIOUS
  <2>1. \A j \in Job : Seen(j) = "none" /\ recovery[j] = "none"
    BY DEF Init, Seen
  <2>2. SeenReceipts = [j \in Job |-> "none"] /\ SeenAssumed = [j \in Job |-> FALSE]
    BY <2>1 DEF SeenReceipts, SeenAssumed
  <2>3. ran = [j \in Job |-> 0] /\ outcome = [j \in Job |-> "none"]
    BY DEF Init
  <2> QED BY <2>2, <2>3 DEF Receipts!ReceiptsInit, SeenReceipts, SeenAssumed, Seen
<1>2. JobsInv /\ TruthInv /\ JobsInv' /\ [Next]_vars => [Receipts!ReceiptsNext]_(Receipts!rvars)
  <2> SUFFICES ASSUME JobsInv, TruthInv, JobsInv', [Next]_vars
               PROVE  Receipts!ReceiptsNext \/ UNCHANGED Receipts!rvars
    OBVIOUS
  <2>1. UNCHANGED <<SeenReceipts, SeenAssumed, ran, outcome>> => UNCHANGED Receipts!rvars
    BY DEF Receipts!rvars, SeenReceipts, SeenAssumed, Seen
  <2>2. Receipts!ReceiptsNext \/ UNCHANGED <<SeenReceipts, SeenAssumed, ran, outcome>>
    BY TruthStep, JustifiedRefines, HistoryRefines DEF Moves, JobsInv, ControlInv
  <2> QED BY <2>1, <2>2
<1> QED BY <1>1, <1>2, JobsInvariant, TruthInvariant, PTL
        DEF Spec, KeepsReceiptPromises, Receipts!ReceiptsSpec
=============================================================================
