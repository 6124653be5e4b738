--------------------------- MODULE MCRuntimeLock ---------------------------
(* Instances of RuntimeLock for TLC. *)
EXTENDS RuntimeLock

CONSTANTS p1, p2, p3

AnyPoint == LivePC
Nowhere == {}
=============================================================================
