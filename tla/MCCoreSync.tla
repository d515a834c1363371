----------------------------- MODULE MCCoreSync -----------------------------
(* Instances of CoreSync for TLC. *)
EXTENDS CoreSync, TLC

\* Everything may go wrong, but Core acts on a request only while its sender
\* waits, as it must when it answers each registration with a new credential.
PromptFaults == FaultKind \ {"late"}

\* Processes, machines and the network fail, disks do not; nobody interferes.
ProcessFaults == {"net", "late", "remove", "cancel", "crash", "power"}

\* Faults that may hit again and again without stopping the node for good.
PassingFaults == {"net", "late", "io", "crash"}

Interchangeable == Permutations(Invocation)
=============================================================================
