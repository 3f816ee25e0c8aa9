------------------------ MODULE MCWorkflowCoordinator ------------------------
(* Small instances of WorkflowCoordinator for TLC. *)
EXTENDS WorkflowCoordinator

CONSTANTS prod, c1, c2

MCOwnItems == [w \in Workflows |-> [s \in 1..N |-> <<w, s>>]]
=============================================================================
