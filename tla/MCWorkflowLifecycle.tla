------------------------ MODULE MCWorkflowLifecycle ------------------------
EXTENDS WorkflowLifecycle, TLC

CONSTANTS k1, k2, k3

(* Calls are told apart by what they ask for only. *)
CallSymmetry == Permutations(Calls)
=============================================================================
