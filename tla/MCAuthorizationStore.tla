------------------------ MODULE MCAuthorizationStore -----------------------
(* Broker processes of one user that open, forget and die in any order.    *)
EXTENDS AuthorizationStore, TLC

CONSTANTS p1, p2, p3

MCProcesses == {p1, p2, p3}

Symmetry == Permutations(MCProcesses)
============================================================================
