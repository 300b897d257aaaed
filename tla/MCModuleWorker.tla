--------------------------- MODULE MCModuleWorker ---------------------------
(* Model-checking instance of ModuleWorker.  A job identity is submitted    *)
(* at most once per table, so three jobs and one retained result let every  *)
(* eviction order occur.                                                    *)
EXTENDS ModuleWorker

CONSTANTS j1, j2, j3

MCJob == {j1, j2, j3}
=============================================================================
