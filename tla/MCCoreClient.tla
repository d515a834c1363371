---------------------------- MODULE MCCoreClient ----------------------------
(* Instances of CoreClient for TLC.                                         *)
EXTENDS CoreClient

EveryClientFault == FaultKind

\* Bound: the longest body, two bytes more than is allowed.
MaxBody == MaxResponseBytes + 2

EveryBody == UNION {[1 .. n -> Byte] : n \in 0 .. MaxBody}
=============================================================================
