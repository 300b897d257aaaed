-------------------------- MODULE KubernetesSession --------------------------
(***************************************************************************)
(* The host side of the Kubernetes lessons: prepare_owned_session creates  *)
(* one kind node with a scoped worker credential, and                      *)
(* release_owned_session removes it again (kubernetes_module.py). All that *)
(* survives a process is a private directory and the container engine,     *)
(* which other people use too: they remove, rename and replace containers. *)
(***************************************************************************)
EXTENDS Naturals, FiniteSets

CONSTANTS Id,         \* identifiers of containers: the engine never reuses one
          NoId,
          MaxOutside, \* bound: actions of other users of the engine
          MaxFaults   \* bound: failed commands, failed writes and deaths

ASSUME SessionBounds == Id # {} /\ NoId \notin Id /\ MaxOutside \in Nat /\ MaxFaults \in Nat

VARIABLES engine,   \* engine[i]: the container with identifier i
          files,    \* files in the private directory
          recorded, \* created_id, and the control_plane_id of the receipts
          failure,  \* what preparation-failure.json says of the cleanup
          prep,     \* where prepare_owned_session is
          rel,      \* where release_owned_session is
          outside, faults

vars == <<engine, files, recorded, failure, prep, rel, outside, faults>>

Credential == {"worker.kubeconfig", "worker.token", "lease", "admin.kubeconfig"}
File == Credential \cup {"creation-intent", "creation-receipt", "host-receipt"}

\* name: <cluster>-control-plane is "node". label: kind's label with the name of the
\* cluster, which is random: only our own creation puts it on a container. space: its
\* API server still has the lesson namespace that was created.
Container == [state: {"unused", "present", "gone"}, name: {"node", "other"},
              label: BOOLEAN, space: BOOLEAN]
Unused == [state |-> "unused", name |-> "other", label |-> FALSE, space |-> FALSE]

\* Every variable has its type.
TypeOK ==
    /\ engine \in [Id -> Container]
    /\ files \subseteq File
    /\ recorded \in Id \cup {NoId}
    /\ failure \in {"none", "cleaned", "inspect"}
    /\ prep \in {"start", "create", "inspect", "record", "build", "recheck", "finish", "handle",
                 "list", "remove", "confirm", "report", "confirmed", "unlink", "ok", "failed", "dead"}
    /\ rel \in {"off", "list", "inspect", "namespace", "remove", "confirm", "unlink"}
    /\ outside \in 0 .. MaxOutside /\ faults \in 0 .. MaxFaults

Init ==
    /\ engine = [i \in Id |-> Unused]
    /\ files = {} /\ recorded = NoId /\ failure = "none"
    /\ prep = "start" /\ rel = "off"
    /\ outside = 0 /\ faults = 0

-----------------------------------------------------------------------------
(* The engine (external), and what its commands tell.                      *)

Present(i) == i \in Id /\ engine[i].state = "present"
Named == {i \in Id : Present(i) /\ engine[i].name = "node"}
Gone(i) == [engine EXCEPT ![i].state = "gone"]

\* docker inspect <cluster>-control-plane shows the recorded container and its label.
Identified == recorded \in Named /\ engine[recorded].label

\* _owned_node_present: the containers of the node's name or of the recorded identifier.
Listed == Named \cup {i \in {recorded} : Present(i)}
Listing == IF Listed = {} THEN "absent"
           ELSE IF Listed = {recorded} /\ recorded \in Named THEN "present" ELSE "refused"

Fault == faults < MaxFaults /\ faults' = faults + 1
Elsewhere == outside < MaxOutside /\ outside' = outside + 1

Outsider ==
    /\ Elsewhere
    /\ \E i \in Id :
        \/ Present(i) /\ engine' = Gone(i)
        \/ Present(i) /\ engine[i].name = "node" /\ engine' = [engine EXCEPT ![i].name = "other"]
        \/ Present(i) /\ Named = {} /\ engine' = [engine EXCEPT ![i].name = "node"]
        \/ Present(i) /\ engine[i].space /\ engine' = [engine EXCEPT ![i].space = FALSE]
        \/ /\ engine[i].state = "unused" /\ Named = {}
           /\ engine' = [engine EXCEPT ![i].state = "present", ![i].name = "node"]
    /\ UNCHANGED <<files, recorded, failure, prep, rel, faults>>

-----------------------------------------------------------------------------
(* prepare_owned_session. A failure of a step goes to its except clause.   *)

Preparing == prep \notin {"ok", "failed", "dead"}
PrepGoes(to) == prep' = to

\* The directory is made and the intent written; a cluster of this name is refused.
Start ==
    /\ prep = "start"
    /\ \/ /\ Named = {} /\ files' = files \cup {"creation-intent"}
          /\ PrepGoes("create") /\ UNCHANGED faults
       \/ Named # {} /\ PrepGoes("handle") /\ UNCHANGED <<files, faults>>
       \/ Fault /\ PrepGoes("handle") /\ UNCHANGED files
    /\ UNCHANGED <<engine, recorded, failure, rel, outside>>

\* kind create cluster: it may fail, or run out of time, before or after the node is there.
Create ==
    /\ prep = "create"
    /\ \/ /\ Named = {}
          /\ \E i \in Id : /\ engine[i].state = "unused"
                           /\ engine' = [engine EXCEPT ![i] = [@ EXCEPT !.state = "present",
                                                                 !.name = "node", !.label = TRUE]]
          /\ \/ files' = files \cup {"admin.kubeconfig"} /\ PrepGoes("inspect") /\ UNCHANGED faults
             \/ Fault /\ PrepGoes("handle")
                /\ \E kept \in SUBSET {"admin.kubeconfig"} : files' = files \cup kept
       \/ Named # {} /\ PrepGoes("handle") /\ UNCHANGED <<engine, files, faults>>
       \/ Fault /\ PrepGoes("handle") /\ UNCHANGED <<engine, files>>
    /\ UNCHANGED <<recorded, failure, rel, outside>>

\* The container of the node's name, if it bears the label of the cluster.
Inspect ==
    /\ prep = "inspect"
    /\ \/ \E i \in Named : engine[i].label /\ recorded' = i /\ PrepGoes("record") /\ UNCHANGED faults
       \/ ~(\E i \in Named : engine[i].label) /\ PrepGoes("handle") /\ UNCHANGED <<recorded, faults>>
       \/ Fault /\ PrepGoes("handle") /\ UNCHANGED recorded
    /\ UNCHANGED <<engine, files, failure, rel, outside>>

Record ==
    /\ prep = "record"
    /\ \/ files' = files \cup {"creation-receipt"} /\ PrepGoes("build") /\ UNCHANGED faults
       \/ Fault /\ PrepGoes("handle") /\ UNCHANGED files
    /\ UNCHANGED <<engine, recorded, failure, rel, outside>>

\* Namespaces, roles and the token through the API server, then the worker's files.
Build ==
    /\ prep = "build"
    /\ IF Present(recorded)
       THEN /\ engine' = [engine EXCEPT ![recorded].space = TRUE]
            /\ \E done \in {{}, {"worker.kubeconfig"}, {"worker.kubeconfig", "worker.token"},
                            Credential} :
                /\ files' = files \cup done
                /\ IF done = Credential THEN PrepGoes("recheck") /\ UNCHANGED faults
                                        ELSE Fault /\ PrepGoes("handle")
       ELSE PrepGoes("handle") /\ UNCHANGED <<engine, files, faults>>
    /\ UNCHANGED <<recorded, failure, rel, outside>>

Recheck ==
    /\ prep = "recheck"
    /\ \/ PrepGoes(IF Identified THEN "finish" ELSE "handle") /\ UNCHANGED faults
       \/ Fault /\ PrepGoes("handle")
    /\ UNCHANGED <<engine, files, recorded, failure, rel, outside>>

Finish ==
    /\ prep = "finish"
    /\ \/ files' = files \cup {"host-receipt"} /\ PrepGoes("ok") /\ UNCHANGED faults
       \/ Fault /\ PrepGoes("handle") /\ UNCHANGED files
    /\ UNCHANGED <<engine, recorded, failure, rel, outside>>

\* The except clause cleans up only what it recorded and still identifies.
Handle ==
    /\ prep = "handle"
    /\ \/ PrepGoes(IF Identified THEN "list" ELSE "report") /\ UNCHANGED faults
       \/ Fault /\ PrepGoes("report")
    /\ UNCHANGED <<engine, files, recorded, failure, rel, outside>>

PrepList ==
    /\ prep = "list"
    /\ \/ /\ PrepGoes(CASE Listing = "absent"  -> "confirmed"
                        [] Listing = "present" -> "remove"
                        [] OTHER               -> "report")
          /\ UNCHANGED faults
       \/ Fault /\ PrepGoes("report")
    /\ UNCHANGED <<engine, files, recorded, failure, rel, outside>>

\* Mutants: the container of the node's name is removed; the removal is taken for done.
PrepRemoveByName ==
    /\ prep = "remove"
    /\ IF Named = {} THEN PrepGoes("report") /\ UNCHANGED engine
                     ELSE PrepGoes("confirm") /\ \E i \in Named : engine' = Gone(i)
    /\ UNCHANGED <<files, recorded, failure, rel, outside, faults>>
PrepRemoveTrusted ==
    /\ prep = "remove"
    /\ PrepGoes("confirmed")
    /\ \/ Present(recorded) /\ engine' = Gone(recorded) /\ UNCHANGED faults
       \/ Fault /\ UNCHANGED engine
    /\ UNCHANGED <<files, recorded, failure, rel, outside>>

\* docker container rm --force <recorded>: it may fail before or after the removal.
PrepRemove ==
    /\ prep = "remove"
    /\ \/ Present(recorded) /\ engine' = Gone(recorded) /\ PrepGoes("confirm") /\ UNCHANGED faults
       \/ Present(recorded) /\ engine' = Gone(recorded) /\ PrepGoes("report") /\ Fault
       \/ Present(recorded) /\ UNCHANGED engine /\ PrepGoes("report") /\ Fault
       \/ ~Present(recorded) /\ UNCHANGED <<engine, faults>> /\ PrepGoes("report")
    /\ UNCHANGED <<files, recorded, failure, rel, outside>>

PrepConfirm ==
    /\ prep = "confirm"
    /\ \/ PrepGoes(IF Listing = "absent" THEN "confirmed" ELSE "report") /\ UNCHANGED faults
       \/ Fault /\ PrepGoes("report")
    /\ UNCHANGED <<engine, files, recorded, failure, rel, outside>>

\* preparation-failure.json; the credentials go only after a confirmed cleanup.
Report ==
    /\ prep \in {"report", "confirmed"}
    /\ \/ /\ failure' = IF prep = "confirmed" THEN "cleaned" ELSE "inspect"
          /\ PrepGoes(IF prep = "confirmed" THEN "unlink" ELSE "failed") /\ UNCHANGED faults
       \/ Fault /\ PrepGoes("failed") /\ UNCHANGED failure
    /\ UNCHANGED <<engine, files, recorded, rel, outside>>

PrepUnlink ==
    /\ prep = "unlink"
    /\ IF Credential \cap files = {} THEN PrepGoes("failed") /\ UNCHANGED files
       ELSE UNCHANGED prep /\ \E f \in Credential \cap files : files' = files \ {f}
    /\ UNCHANGED <<engine, recorded, failure, rel, outside, faults>>

PrepDies ==
    /\ Preparing /\ Fault /\ PrepGoes("dead")
    /\ UNCHANGED <<engine, files, recorded, failure, rel, outside>>

-----------------------------------------------------------------------------
(* release_owned_session, as often as its caller tries again.              *)

RelGoes(to) == rel' = to

Release ==
    /\ ~Preparing /\ rel = "off" /\ "host-receipt" \in files /\ Credential \cap files # {}
    /\ RelGoes("list")
    /\ UNCHANGED <<engine, files, recorded, failure, prep, outside, faults>>

\* Mutant: a node that is already gone is refused like a replaced one.
RelListOnce ==
    /\ rel = "list"
    /\ RelGoes(IF Listing = "present" THEN "inspect" ELSE "off")
    /\ UNCHANGED <<engine, files, recorded, failure, prep, outside, faults>>

RelList ==
    /\ rel = "list"
    /\ \/ /\ RelGoes(CASE Listing = "absent"  -> "unlink"
                       [] Listing = "present" -> "inspect"
                       [] OTHER               -> "off")
          /\ UNCHANGED faults
       \/ Fault /\ RelGoes("off")
    /\ UNCHANGED <<engine, files, recorded, failure, prep, outside>>

RelInspect ==
    /\ rel = "inspect"
    /\ \/ RelGoes(IF Identified THEN "namespace" ELSE "off") /\ UNCHANGED faults
       \/ Fault /\ RelGoes("off")
    /\ UNCHANGED <<engine, files, recorded, failure, prep, outside>>

\* The namespace's UID and owner label, asked with the admin credential.
RelNamespace ==
    /\ rel = "namespace"
    /\ \/ /\ RelGoes(IF /\ "admin.kubeconfig" \in files
                        /\ Present(recorded) /\ engine[recorded].space THEN "remove" ELSE "off")
          /\ UNCHANGED faults
       \/ Fault /\ RelGoes("off")
    /\ UNCHANGED <<engine, files, recorded, failure, prep, outside>>

\* Mutant: the credentials go whether or not the removal succeeded.
RelRemoveTrusted ==
    /\ rel = "remove"
    /\ RelGoes("unlink")
    /\ \/ Present(recorded) /\ engine' = Gone(recorded) /\ UNCHANGED faults
       \/ Fault /\ UNCHANGED engine
    /\ UNCHANGED <<files, recorded, failure, prep, outside>>

RelRemove ==
    /\ rel = "remove"
    /\ \/ Present(recorded) /\ engine' = Gone(recorded) /\ RelGoes("confirm") /\ UNCHANGED faults
       \/ Present(recorded) /\ engine' = Gone(recorded) /\ RelGoes("off") /\ Fault
       \/ Present(recorded) /\ UNCHANGED engine /\ RelGoes("off") /\ Fault
       \/ ~Present(recorded) /\ UNCHANGED <<engine, faults>> /\ RelGoes("off")
    /\ UNCHANGED <<files, recorded, failure, prep, outside>>

RelConfirm ==
    /\ rel = "confirm"
    /\ \/ RelGoes(IF Listing = "absent" THEN "unlink" ELSE "off") /\ UNCHANGED faults
       \/ Fault /\ RelGoes("off")
    /\ UNCHANGED <<engine, files, recorded, failure, prep, outside>>

RelUnlink ==
    /\ rel = "unlink"
    /\ IF Credential \cap files = {} THEN RelGoes("off") /\ UNCHANGED files
       ELSE UNCHANGED rel /\ \E f \in Credential \cap files : files' = files \ {f}
    /\ UNCHANGED <<engine, recorded, failure, prep, outside, faults>>

RelDies ==
    /\ rel # "off" /\ Fault /\ RelGoes("off")
    /\ UNCHANGED <<engine, files, recorded, failure, prep, outside>>

-----------------------------------------------------------------------------
PrepStep == \/ Start \/ Create \/ Inspect \/ Record \/ Build \/ Recheck \/ Finish \/ Handle
            \/ PrepList \/ PrepRemove \/ PrepConfirm \/ Report \/ PrepUnlink
RelStep == \/ Release \/ RelList \/ RelInspect \/ RelNamespace \/ RelRemove
           \/ RelConfirm \/ RelUnlink

Next == PrepStep \/ RelStep \/ PrepDies \/ RelDies \/ Outsider

Spec == Init /\ [][Next]_vars

\* Preparation goes on, and its caller tries the release again after a failure.
FairSpec == Spec /\ WF_vars(PrepStep) /\ WF_vars(RelStep)

-----------------------------------------------------------------------------
(* Properties.                                                             *)

\* Neither preparation nor release ever removes a container that another user of the
\* engine put in the node's place, at whatever moment it was replaced.
RemovesOnlyOwnNode ==
    [][PrepStep \/ RelStep =>
         \A i \in Id : engine[i].state = "present" /\ engine'[i].state = "gone" => engine[i].label]_vars

\* The credentials are the only way to inspect what is left: none is unlinked while the
\* recorded node is there, under its own or another name.
CredentialsOutliveNode ==
    [][Credential \cap (files \ files') # {} => recorded # NoId /\ ~Present(recorded)]_vars

\* preparation-failure.json says that the cleanup is confirmed only when nothing that
\* was created is left, recorded or not; otherwise it asks for an inspection.
CleanedMeansNothingLeft ==
    failure = "cleaned" => \A i \in Id : engine[i].label => ~Present(i)

\* Repeated after any failure or death, the release removes the node and every
\* credential of a prepared session that nobody else interfered with.
ReleaseConverges ==
    prep = "ok" ~> Credential \cap files = {} \/ outside > 0
=============================================================================
