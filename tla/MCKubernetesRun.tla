-------------------------- MODULE MCKubernetesRun --------------------------
(* Model-checking instance of KubernetesRun: a ConfigMap and a Deployment,  *)
(* with or without the client Job that follows a ready Service.             *)
EXTENDS KubernetesRun

CONSTANTS config, deployment, check

MCTarget == {config, deployment, check}
MCChecked == <<deployment, check, config>>
MCDocuments == <<config, deployment>>
MCObserved == {deployment}
=============================================================================
