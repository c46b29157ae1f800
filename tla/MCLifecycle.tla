---------------------------- MODULE MCLifecycle ----------------------------
(***************************************************************************)
(* Small instances of Lifecycle: all processes ask for the same size.      *)
(***************************************************************************)
EXTENDS Lifecycle

CONSTANTS p1, p2, p3

SameSize == [p \in Procs |-> 4]
=============================================================================
