---------------------- MODULE KubernetesSessionProofs ----------------------
(***************************************************************************)
(* What preparation and release may remove, for every engine with its      *)
(* identifiers and any number of outside actions and faults.               *)
(*                                                                         *)
(* SessionInv adds to the types that only one container ever bears the     *)
(* label of the cluster (OneLabelled), that the recorded identifier is its *)
(* (RecordedIsOwn), and that whoever confirmed the absence of the recorded *)
(* node is right for ever, as identifiers are not reused (ConfirmedIsGone).*)
(***************************************************************************)
EXTENDS KubernetesSession, TLAPS

\* kind creates one node, at the step "create"; nothing else bears the label.
OneLabelled ==
    /\ prep \in {"start", "create"} => \A i \in Id : ~engine[i].label
    /\ \A i, j \in Id : engine[i].label /\ engine[j].label => i = j
    /\ \A i \in Id : engine[i].label => engine[i].state # "unused"

\* An identifier is recorded from the inspected label, and before everything that
\* relies on it.
RecordedIsOwn ==
    /\ recorded # NoId => recorded \in Id /\ engine[recorded].label
    /\ prep \in {"record", "build", "recheck", "finish", "ok", "list", "remove", "confirm",
                 "confirmed", "unlink"} => recorded # NoId
    /\ "host-receipt" \in files \/ rel # "off" => recorded # NoId

\* Credentials are unlinked and a cleanup is reported after the node is gone.
ConfirmedIsGone ==
    prep \in {"confirmed", "unlink"} \/ rel = "unlink" \/ failure = "cleaned" =>
        recorded # NoId /\ engine[recorded].state = "gone"

SessionInv == TypeOK /\ OneLabelled /\ RecordedIsOwn /\ ConfirmedIsGone

\* What an action may do to the engine: labels are for ever, what is gone stays gone,
\* and what was used is never unused again.
EngineKept ==
    \A i \in Id : /\ engine'[i].label = engine[i].label
                  /\ engine[i].state = "gone" => engine'[i].state = "gone"
                  /\ engine[i].state # "unused" => engine'[i].state # "unused"

\* A confirmed absence of the recorded container means that it is gone.
LEMMA AbsentIsGone ==
    ASSUME SessionInv, recorded # NoId, ~Present(recorded)
    PROVE  recorded \in Id /\ engine[recorded].state = "gone"
BY DEF SessionInv, RecordedIsOwn, OneLabelled, TypeOK, Container, Present

\* Removing a container keeps the engine's promises.
LEMMA RemovalKeeps ==
    ASSUME SessionInv, NEW i \in Id, Present(i), engine' = Gone(i)
    PROVE  engine' \in [Id -> Container] /\ EngineKept /\ engine'[i].state = "gone"
BY DEF SessionInv, TypeOK, Container, Present, Gone, EngineKept

\* The invariant holds initially.
LEMMA SessionInit == Init => SessionInv
BY SessionBounds DEF Init, SessionInv, TypeOK, OneLabelled, RecordedIsOwn, ConfirmedIsGone,
   Unused, Container, File, Credential

\* Other users keep the engine's promises, and touch nothing else.
LEMMA OutsiderKeeps ==
    ASSUME SessionInv, Outsider
    PROVE  engine' \in [Id -> Container] /\ EngineKept
<1>1. PICK i \in Id :
        \/ Present(i) /\ engine' = Gone(i)
        \/ Present(i) /\ engine[i].name = "node" /\ engine' = [engine EXCEPT ![i].name = "other"]
        \/ Present(i) /\ Named = {} /\ engine' = [engine EXCEPT ![i].name = "node"]
        \/ Present(i) /\ engine[i].space /\ engine' = [engine EXCEPT ![i].space = FALSE]
        \/ /\ engine[i].state = "unused" /\ Named = {}
           /\ engine' = [engine EXCEPT ![i].state = "present", ![i].name = "node"]
  BY DEF Outsider
<1>2. CASE Present(i) /\ engine' = Gone(i)
  BY <1>2, RemovalKeeps
<1>3. CASE Present(i) /\ engine' = [engine EXCEPT ![i].name = "other"]
  BY <1>3 DEF SessionInv, TypeOK, Container, EngineKept
<1>4. CASE Present(i) /\ engine' = [engine EXCEPT ![i].name = "node"]
  BY <1>4 DEF SessionInv, TypeOK, Container, EngineKept
<1>5. CASE Present(i) /\ engine' = [engine EXCEPT ![i].space = FALSE]
  BY <1>5 DEF SessionInv, TypeOK, Container, EngineKept
<1>6. CASE engine[i].state = "unused"
           /\ engine' = [engine EXCEPT ![i].state = "present", ![i].name = "node"]
  BY <1>6 DEF SessionInv, TypeOK, Container, EngineKept
<1> QED BY <1>1, <1>2, <1>3, <1>4, <1>5, <1>6

\* Every action but the creation keeps the engine's promises.
LEMMA StepsKeepEngine ==
    ASSUME SessionInv, [Next]_vars, ~Create
    PROVE  engine' \in [Id -> Container] /\ EngineKept
<1>1. CASE UNCHANGED engine
  BY <1>1 DEF SessionInv, TypeOK, EngineKept
<1>2. CASE Present(recorded) /\ engine' = Gone(recorded)
  BY <1>2, RemovalKeeps DEF Present
<1>3. CASE Build
  <2>1. CASE Present(recorded)
    BY ZenonT(40), <1>3, <2>1 DEF Build, Present, SessionInv, TypeOK, Container, EngineKept
  <2> QED BY <2>1, <1>1, <1>3 DEF Build
<1>4. CASE Outsider
  BY <1>4, OutsiderKeeps
<1>5. CASE PrepStep /\ ~Build
  BY <1>5, <1>1, <1>2 DEF PrepStep, Start, Inspect, Record, Recheck, Finish, Handle, PrepList,
     PrepRemove, PrepConfirm, Report, PrepUnlink
<1>6. CASE RelStep
  BY <1>6, <1>1, <1>2 DEF RelStep, Release, RelList, RelInspect, RelNamespace, RelRemove,
     RelConfirm, RelUnlink
<1> QED BY <1>1, <1>3, <1>4, <1>5, <1>6 DEF Next, PrepDies, RelDies, vars

\* The bounds of the counters are kept.
LEMMA CountersKept ==
    ASSUME SessionInv, [Next]_vars
    PROVE  faults' \in 0 .. MaxFaults /\ outside' \in 0 .. MaxOutside
<1>1. UNCHANGED faults \/ Fault
  BY Zenon DEF Next, vars, Outsider, PrepDies, RelDies, PrepStep, Start, Create, Inspect, Record, Build,
     Recheck, Finish, Handle, PrepList, PrepRemove, PrepConfirm, Report, PrepUnlink, RelStep,
     Release, RelList, RelInspect, RelNamespace, RelRemove, RelConfirm, RelUnlink
<1>2. UNCHANGED outside \/ Elsewhere
  BY Zenon DEF Next, vars, Outsider, PrepDies, RelDies, PrepStep, Start, Create, Inspect, Record, Build,
     Recheck, Finish, Handle, PrepList, PrepRemove, PrepConfirm, Report, PrepUnlink, RelStep,
     Release, RelList, RelInspect, RelNamespace, RelRemove, RelConfirm, RelUnlink
<1>3. faults' \in 0 .. MaxFaults
  BY <1>1, SessionBounds DEF Fault, SessionInv, TypeOK
<1>4. outside' \in 0 .. MaxOutside
  BY <1>2, SessionBounds DEF Elsewhere, SessionInv, TypeOK
<1> QED BY <1>3, <1>4

\* The creation labels one unused container, or none.
LEMMA CreateEffect ==
    ASSUME SessionInv, Create
    PROVE  /\ engine' \in [Id -> Container]
           /\ \/ engine' = engine
              \/ \E i \in Id : /\ engine[i].state = "unused" /\ engine'[i].label
                               /\ engine'[i].state = "present"
                               /\ \A j \in Id \ {i} : engine'[j] = engine[j]
<1>1. CASE \E i \in Id : /\ engine[i].state = "unused"
                         /\ engine' = [engine EXCEPT ![i] = [@ EXCEPT !.state = "present",
                                                              !.name = "node", !.label = TRUE]]
  <2>1. PICK i \in Id : /\ engine[i].state = "unused"
                        /\ engine' = [engine EXCEPT ![i] = [@ EXCEPT !.state = "present",
                                                             !.name = "node", !.label = TRUE]]
    BY <1>1
  <2>2. /\ engine' \in [Id -> Container]
        /\ engine'[i].label /\ engine'[i].state = "present"
        /\ \A j \in Id \ {i} : engine'[j] = engine[j]
    BY <2>1 DEF SessionInv, TypeOK, Container
  <2> QED BY <2>1, <2>2
<1>2. CASE engine' = engine
  BY <1>2 DEF SessionInv, TypeOK
<1> QED BY <1>1, <1>2 DEF Create

\* What the steps do to the rest of the state.
LEMMA StepEffects ==
    ASSUME SessionInv, [Next]_vars
    PROVE  /\ files' \subseteq File
           /\ recorded' \in Id \cup {NoId}
           /\ failure' \in {"none", "cleaned", "inspect"}
           /\ prep' \in {"start", "create", "inspect", "record", "build", "recheck", "finish",
                        "handle", "list", "remove", "confirm", "report", "confirmed", "unlink",
                        "ok", "failed", "dead"}
           /\ rel' \in {"off", "list", "inspect", "namespace", "remove", "confirm", "unlink"}
<1> USE DEF SessionInv, TypeOK
<1>1. files' \subseteq File
  <2>1. CASE \E f \in SUBSET File : files' = files \cup f \/ files' = files \ f
    BY <2>1
  <2>2. CASE Start \/ Create \/ Record \/ Finish
    BY <2>2 DEF Start, Create, Record, Finish, File, Credential
  <2>3. CASE Build
    BY <2>3 DEF Build, File, Credential
  <2>4. CASE PrepUnlink \/ RelUnlink
    BY <2>4 DEF PrepUnlink, RelUnlink
  <2>5. CASE UNCHANGED files
    BY <2>5
  <2> QED BY Zenon, <2>2, <2>3, <2>4, <2>5
      DEF Next, vars, Outsider, PrepDies, RelDies, PrepStep, Inspect, Recheck, Handle, PrepList,
          PrepRemove, PrepConfirm, Report, RelStep, Release, RelList, RelInspect, RelNamespace,
          RelRemove, RelConfirm
<1>2. recorded' \in Id \cup {NoId}
  <2>1. CASE Inspect
    BY <2>1 DEF Inspect, Named
  <2>2. CASE UNCHANGED recorded
    BY <2>2
  <2> QED BY Zenon, <2>1, <2>2
      DEF Next, vars, Outsider, PrepDies, RelDies, PrepStep, Start, Create, Record, Build,
          Recheck, Finish, Handle, PrepList, PrepRemove, PrepConfirm, Report, PrepUnlink, RelStep,
          Release, RelList, RelInspect, RelNamespace, RelRemove, RelConfirm, RelUnlink
<1>3. failure' \in {"none", "cleaned", "inspect"}
  <2>1. CASE Report
    BY <2>1 DEF Report
  <2>2. CASE UNCHANGED failure
    BY <2>2
  <2> QED BY Zenon, <2>1, <2>2
      DEF Next, vars, Outsider, PrepDies, RelDies, PrepStep, Start, Create, Inspect, Record, Build,
          Recheck, Finish, Handle, PrepList, PrepRemove, PrepConfirm, PrepUnlink, RelStep,
          Release, RelList, RelInspect, RelNamespace, RelRemove, RelConfirm, RelUnlink
<1>4. prep' \in {"start", "create", "inspect", "record", "build", "recheck", "finish",
                 "handle", "list", "remove", "confirm", "report", "confirmed", "unlink",
                 "ok", "failed", "dead"}
  <2>1. CASE PrepList
    BY <2>1 DEF PrepList, PrepGoes, Listing
  <2>2. CASE PrepStep /\ ~PrepList
    BY <2>2 DEF PrepStep, PrepGoes, Start, Create, Inspect, Record, Build, Recheck, Finish, Handle,
       PrepRemove, PrepConfirm, Report, PrepUnlink
  <2>3. CASE UNCHANGED prep \/ PrepDies
    BY <2>3 DEF PrepDies, PrepGoes
  <2> QED BY Zenon, <2>1, <2>2, <2>3
      DEF Next, vars, Outsider, RelDies, RelStep, Release, RelList, RelInspect, RelNamespace,
          RelRemove, RelConfirm, RelUnlink
<1>5. rel' \in {"off", "list", "inspect", "namespace", "remove", "confirm", "unlink"}
  <2>1. CASE RelList
    BY <2>1 DEF RelList, RelGoes, Listing
  <2>2. CASE RelStep /\ ~RelList
    BY <2>2 DEF RelStep, RelGoes, Release, RelInspect, RelNamespace, RelRemove, RelConfirm, RelUnlink
  <2>3. CASE UNCHANGED rel \/ RelDies
    BY <2>3 DEF RelDies, RelGoes
  <2> QED BY Zenon, <2>1, <2>2, <2>3
      DEF Next, vars, Outsider, PrepDies, PrepStep, Start, Create, Inspect, Record, Build, Recheck,
          Finish, Handle, PrepList, PrepRemove, PrepConfirm, Report, PrepUnlink
<1> QED BY <1>1, <1>2, <1>3, <1>4, <1>5

\* Types are preserved.
LEMMA TypesKept ==
    ASSUME SessionInv, [Next]_vars
    PROVE  TypeOK'
<1>1. engine' \in [Id -> Container]
  BY CreateEffect, StepsKeepEngine
<1> QED BY <1>1, StepEffects, CountersKept DEF TypeOK

\* One container at most bears the label.
LEMMA OneLabelledKept ==
    ASSUME SessionInv, [Next]_vars
    PROVE  OneLabelled'
<1> USE DEF SessionInv, OneLabelled
<1>1. CASE Create
  <2>1. prep = "create" /\ prep' \notin {"start", "create"}
    BY <1>1 DEF Create, PrepGoes
  <2> QED BY <1>1, <2>1, CreateEffect
<1>2. CASE ~Create
  <2>1. EngineKept
    BY <1>2, StepsKeepEngine
  <2>2. prep' \in {"start", "create"} => prep \in {"start", "create"}
    <3>1. CASE PrepList
      BY <3>1 DEF PrepList, PrepGoes, Listing
    <3>2. CASE PrepStep /\ ~PrepList
      BY <3>2 DEF PrepStep, PrepGoes, Start, Create, Inspect, Record, Build, Recheck, Finish, Handle,
         PrepRemove, PrepConfirm, Report, PrepUnlink
    <3>3. CASE UNCHANGED prep \/ PrepDies
      BY <3>3 DEF PrepDies, PrepGoes
    <3> QED BY Zenon, <3>1, <3>2, <3>3
        DEF Next, vars, Outsider, RelDies, RelStep, Release, RelList, RelInspect, RelNamespace,
            RelRemove, RelConfirm, RelUnlink
  <2> QED BY <2>1, <2>2 DEF EngineKept
<1> QED BY <1>1, <1>2

\* The label is never lost and no creation follows the recording.
LEMMA RecordedKept ==
    ASSUME SessionInv, [Next]_vars
    PROVE  RecordedIsOwn'
<1>1. ASSUME recorded' # NoId PROVE recorded' \in Id /\ engine'[recorded'].label
  <2>1. CASE Inspect
    BY <1>1, <2>1 DEF Inspect, Named, SessionInv, RecordedIsOwn
  <2>2. CASE Create
    BY <1>1, <2>2, CreateEffect DEF Create, SessionInv, RecordedIsOwn, OneLabelled
  <2>3. CASE UNCHANGED recorded /\ ~Create
    BY <1>1, <2>3, StepsKeepEngine DEF EngineKept, SessionInv, RecordedIsOwn
  <2> QED BY Zenon, <2>1, <2>2, <2>3
      DEF Next, vars, Outsider, PrepDies, RelDies, PrepStep, Start, Create, Record, Build,
          Recheck, Finish, Handle, PrepList, PrepRemove, PrepConfirm, Report, PrepUnlink, RelStep,
          Release, RelList, RelInspect, RelNamespace, RelRemove, RelConfirm, RelUnlink
<1>2. recorded # NoId => recorded' # NoId
  <2>1. CASE Inspect
    BY <2>1, SessionBounds DEF Inspect, Named
  <2>2. CASE UNCHANGED recorded
    BY <2>2
  <2> QED BY Zenon, <2>1, <2>2
      DEF Next, vars, Outsider, PrepDies, RelDies, PrepStep, Start, Create, Record, Build,
          Recheck, Finish, Handle, PrepList, PrepRemove, PrepConfirm, Report, PrepUnlink, RelStep,
          Release, RelList, RelInspect, RelNamespace, RelRemove, RelConfirm, RelUnlink
<1>3. prep' \in {"record", "build", "recheck", "finish", "ok", "list", "remove", "confirm",
                 "confirmed", "unlink"} => recorded' # NoId
  <2> USE DEF SessionInv, RecordedIsOwn, PrepGoes
  <2>1. CASE Inspect
    BY <2>1, SessionBounds DEF Inspect, Named
  <2>2. CASE Handle
    BY <2>2, SessionBounds DEF Handle, Identified, Named
  <2>3. CASE PrepStep /\ ~Inspect /\ ~Handle
    BY <1>2, <2>3 DEF PrepStep, Start, Create, Record, Build, Recheck, Finish,
       PrepList, PrepRemove, PrepConfirm, Report, PrepUnlink
  <2>4. CASE UNCHANGED prep \/ PrepDies
    BY <1>2, <2>4 DEF PrepDies
  <2> QED BY Zenon, <2>1, <2>2, <2>3, <2>4
      DEF Next, vars, Outsider, RelDies, RelStep, Release, RelList, RelInspect, RelNamespace,
          RelRemove, RelConfirm, RelUnlink
<1>4. "host-receipt" \in files' => "host-receipt" \in files \/ prep = "finish"
  <2>1. CASE Start \/ Record
    BY <2>1 DEF Start, Record
  <2>4. CASE Create
    <3>1. files' = files \/ \E kept \in SUBSET {"admin.kubeconfig"} : files' = files \cup kept
      BY <2>4, Zenon DEF Create
    <3>2. ASSUME NEW kept \in SUBSET {"admin.kubeconfig"}, files' = files \cup kept
          PROVE  "host-receipt" \in files' => "host-receipt" \in files
      BY <3>2
    <3> QED BY <3>1, <3>2
  <2>5. CASE Build
    <3>1. \/ files' = files
          \/ \E made \in {{}, {"worker.kubeconfig"}, {"worker.kubeconfig", "worker.token"},
                        Credential} : files' = files \cup made
      BY <2>5, Zenon DEF Build
    <3>2. ASSUME NEW made \in {{}, {"worker.kubeconfig"}, {"worker.kubeconfig", "worker.token"},
                             Credential}, files' = files \cup made
          PROVE  "host-receipt" \in files' => "host-receipt" \in files
      BY <3>2 DEF Credential
    <3> QED BY <3>1, <3>2
  <2>2. CASE Finish
    BY <2>2 DEF Finish
  <2>3. CASE PrepUnlink \/ RelUnlink \/ UNCHANGED files
    BY <2>3 DEF PrepUnlink, RelUnlink
  <2> QED BY Zenon, <2>1, <2>2, <2>3, <2>4, <2>5
      DEF Next, vars, Outsider, PrepDies, RelDies, PrepStep, Inspect, Recheck, Handle, PrepList,
          PrepRemove, PrepConfirm, Report, RelStep, Release, RelList, RelInspect, RelNamespace,
          RelRemove, RelConfirm
<1>5. rel' # "off" => rel # "off" \/ "host-receipt" \in files
  <2>1. CASE RelStep
    BY <2>1 DEF RelStep, Release, RelGoes, RelList, RelInspect, RelNamespace, RelRemove,
       RelConfirm, RelUnlink
  <2>2. CASE UNCHANGED rel \/ RelDies
    BY <2>2 DEF RelDies, RelGoes
  <2> QED BY Zenon, <2>1, <2>2
      DEF Next, vars, Outsider, PrepDies, PrepStep, Start, Create, Inspect, Record, Build, Recheck,
          Finish, Handle, PrepList, PrepRemove, PrepConfirm, Report, PrepUnlink
<1> QED BY <1>1, <1>2, <1>3, <1>4, <1>5 DEF SessionInv, RecordedIsOwn

\* An absence is confirmed only by a listing, and stays true.
LEMMA ConfirmedKept ==
    ASSUME SessionInv, [Next]_vars
    PROVE  ConfirmedIsGone'
<1> DEFINE Sure == prep \in {"confirmed", "unlink"} \/ rel = "unlink" \/ failure = "cleaned"
<1> USE DEF SessionInv
<1>1. ASSUME recorded # NoId, engine[recorded].state = "gone"
      PROVE  Sure' => recorded' # NoId /\ engine'[recorded'].state = "gone"
  <2>1. recorded \in Id
    BY <1>1 DEF RecordedIsOwn
  <2>2. CASE Inspect
    \* the recorded container is the only labelled one
    BY <1>1, <2>1, <2>2 DEF Inspect, Named, Present, RecordedIsOwn, OneLabelled
  <2>3. CASE Create
    BY <1>1, <2>1, <2>3, CreateEffect DEF Create
  <2>4. CASE UNCHANGED recorded /\ ~Create
    BY <1>1, <2>1, <2>4, StepsKeepEngine DEF EngineKept
  <2> QED BY Zenon, <2>2, <2>3, <2>4
      DEF Next, vars, Outsider, PrepDies, RelDies, PrepStep, Start, Create, Record, Build,
          Recheck, Finish, Handle, PrepList, PrepRemove, PrepConfirm, Report, PrepUnlink, RelStep,
          Release, RelList, RelInspect, RelNamespace, RelRemove, RelConfirm, RelUnlink
<1>2. ASSUME ~(recorded # NoId /\ engine[recorded].state = "gone"), Sure'
      PROVE  recorded' # NoId /\ engine'[recorded'].state = "gone"
  <2>1. ~Sure
    BY <1>2 DEF ConfirmedIsGone
  <2>2. CASE PrepList \/ PrepConfirm \/ RelList \/ RelConfirm
    <3>1. recorded # NoId
      BY <2>2 DEF PrepList, PrepConfirm, RelList, RelConfirm, RecordedIsOwn
    <3>2. Present(recorded)
      BY <1>2, <3>1, AbsentIsGone
    <3>3. Listing # "absent"
      BY <3>2 DEF Listing, Listed, Present
    <3> QED BY <1>2, <2>1, <2>2, <3>3
        DEF PrepList, PrepConfirm, RelList, RelConfirm, PrepGoes, RelGoes, Listing
  <2>3. CASE PrepStep /\ ~PrepList /\ ~PrepConfirm
    BY <1>2, <2>1, <2>3 DEF PrepStep, PrepGoes, Start, Create, Inspect, Record, Build, Recheck,
       Finish, Handle, PrepRemove, Report, PrepUnlink
  <2>4. CASE RelStep /\ ~RelList /\ ~RelConfirm
    BY <1>2, <2>1, <2>4 DEF RelStep, RelGoes, Release, RelInspect, RelNamespace, RelRemove, RelUnlink
  <2>5. CASE PrepDies \/ RelDies \/ Outsider \/ UNCHANGED vars
    BY <1>2, <2>1, <2>5 DEF PrepDies, RelDies, Outsider, PrepGoes, RelGoes, vars
  <2> QED BY <2>2, <2>3, <2>4, <2>5 DEF Next
<1> QED BY <1>1, <1>2 DEF ConfirmedIsGone

\* The inductive invariant holds in every reachable state.
THEOREM SessionInvariant == Spec => []SessionInv
<1>1. SessionInv /\ [Next]_vars => SessionInv'
  BY TypesKept, OneLabelledKept, RecordedKept, ConfirmedKept DEF SessionInv
<1> QED BY <1>1, SessionInit, PTL DEF Spec

\* The state keeps its types, for every engine and number of faults.
THEOREM SessionTypeCorrect == Spec => []TypeOK
BY SessionInvariant, PTL DEF SessionInv

\* preparation-failure.json confirms a cleanup only when nothing that was created is
\* left: the only labelled container is the recorded one, and it is gone.
THEOREM CleanupIsTrue == Spec => []CleanedMeansNothingLeft
<1>1. SessionInv => CleanedMeansNothingLeft
  BY DEF SessionInv, ConfirmedIsGone, RecordedIsOwn, OneLabelled, CleanedMeansNothingLeft, Present
<1> QED BY <1>1, SessionInvariant, PTL

\* Preparation and release never remove a container of another user, whenever it took
\* the node's name.
THEOREM RemovalsAreOwn == Spec => RemovesOnlyOwnNode
<1>1. SessionInv /\ [Next]_vars =>
        [PrepStep \/ RelStep =>
           \A i \in Id : engine[i].state = "present" /\ engine'[i].state = "gone"
                          => engine[i].label]_vars
  <2> SUFFICES ASSUME SessionInv, PrepStep \/ RelStep, NEW i \in Id,
                      engine[i].state = "present", engine'[i].state = "gone"
               PROVE  engine[i].label
    OBVIOUS
  <2> USE DEF SessionInv, TypeOK, Container, RecordedIsOwn
  <2>1. CASE PrepRemove
    BY <2>1 DEF PrepRemove, Gone, Present
  <2>2. CASE RelRemove
    BY <2>2 DEF RelRemove, Gone, Present
  <2>3. CASE Create
    BY <2>3, CreateEffect
  <2>4. CASE Build
    <3>1. CASE Present(recorded)
      BY <2>4, <3>1 DEF Build, Present
    <3>2. CASE ~Present(recorded)
      BY <2>4, <3>2 DEF Build
    <3> QED BY <3>1, <3>2
  <2>5. CASE UNCHANGED engine
    BY <2>5
  <2> QED BY Zenon, <2>1, <2>2, <2>3, <2>4, <2>5
      DEF PrepStep, RelStep, Start, Inspect, Record, Recheck, Finish, Handle, PrepList, PrepConfirm,
          Report, PrepUnlink, Release, RelList, RelInspect, RelNamespace, RelConfirm, RelUnlink
<1> QED BY <1>1, SessionInvariant, PTL DEF Spec, RemovesOnlyOwnNode

\* No credential is unlinked while the recorded node is there.
THEOREM CredentialsStay == Spec => CredentialsOutliveNode
<1>1. SessionInv /\ [Next]_vars =>
        [Credential \cap (files \ files') # {} => recorded # NoId /\ ~Present(recorded)]_vars
  <2> SUFFICES ASSUME SessionInv, Next, Credential \cap (files \ files') # {}
               PROVE  recorded # NoId /\ ~Present(recorded)
    OBVIOUS
  <2>1. CASE PrepUnlink \/ RelUnlink
    BY <2>1 DEF PrepUnlink, RelUnlink, SessionInv, ConfirmedIsGone, Present
  <2>2. CASE files \subseteq files'
    BY <2>2
  <2>3. files \subseteq files' \/ PrepUnlink \/ RelUnlink
    <3>1. CASE Build
      BY <3>1, SMT DEF Build
    <3>2. CASE Create
      <4>1. files' = files \/ \E kept \in {"admin.kubeconfig", {}} \cup SUBSET {"admin.kubeconfig"} :
                                 files' = files \cup kept
        BY <3>2, Zenon DEF Create
      <4> QED BY <4>1
    <3>3. CASE Start \/ Record \/ Finish
      BY <3>3 DEF Start, Record, Finish
    <3>4. CASE UNCHANGED files
      BY <3>4
    <3> QED BY Zenon, <3>1, <3>2, <3>3, <3>4
        DEF Next, Outsider, PrepDies, RelDies, PrepStep, Inspect, Recheck, Handle, PrepList,
            PrepRemove, PrepConfirm, Report, RelStep, Release, RelList, RelInspect, RelNamespace,
            RelRemove, RelConfirm
  <2> QED BY <2>1, <2>2, <2>3
<1> QED BY <1>1, SessionInvariant, PTL DEF Spec, CredentialsOutliveNode
=============================================================================
