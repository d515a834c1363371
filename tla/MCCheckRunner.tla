---------------------------- MODULE MCCheckRunner ----------------------------
(* Instances of CheckRunner for TLC.                                        *)
EXTENDS CheckRunner

EveryCheckFault == FaultKind

\* The only fault is a descendant that the script leaves on its pipe.
Background == {"background"}
=============================================================================
