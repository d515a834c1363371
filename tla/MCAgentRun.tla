------------------------------ MODULE MCAgentRun ------------------------------
(* An instance of AgentRun for TLC.                                         *)
EXTENDS AgentRun

EveryRunFault == FaultKind
=============================================================================
