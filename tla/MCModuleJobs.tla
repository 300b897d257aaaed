---------------------------- MODULE MCModuleJobs ----------------------------
(* Model-checking instance of ModuleJobs.  Job identities are numbers so    *)
(* that the smallest pending one is defined; callers are interchangeable.   *)
EXTENDS ModuleJobs, TLC

CONSTANTS u1, u2, closer

OneJob == {1}
TwoJobs == {1, 2}
OneCaller == {u1}
TwoCallers == {u1, u2}
CallerSymmetry == Permutations(TwoCallers)
=============================================================================
