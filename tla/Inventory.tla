------------------------------ MODULE Inventory ------------------------------
(***************************************************************************)
(* The part of the report that the workflow decides on, as the types of    *)
(* internal/inventory/types.go: the results of the two checks and the      *)
(* summary of the synchronization with LTS Core.                           *)
(***************************************************************************)

Check == {"validation", "health"}

\* What a script itself says, and what else may be said of it.
Verdict == {"passed", "failed", "healthy", "degraded", "critical"}
Status == Verdict \cup {"timeout", "unavailable", "error"}

\* The exit codes the contracts of the scripts tell apart.
ExitCode == {"zero", "one", "two", "other"}

\* Mutant: no default.
MapStatus_NoDefault(c, exit) ==
  IF c = "validation" THEN IF exit = "zero" THEN "passed" ELSE "failed"
  ELSE [zero |-> "healthy", one |-> "degraded", two |-> "critical",
        other |-> ""][exit]

\* validationStatus and healthStatus.
MapStatus(c, exit) ==
  IF c = "validation" THEN IF exit = "zero" THEN "passed" ELSE "failed"
  ELSE [zero |-> "healthy", one |-> "degraded", two |-> "critical",
        other |-> "error"][exit]

\* Mutant: a cancelled check has no status.
Outcome_Blank(c, cancelled) ==
  IF cancelled THEN {""}
  ELSE {"timeout", "unavailable", "error"} \cup
       (IF c = "validation" THEN {"passed", "failed"}
        ELSE {"healthy", "degraded", "critical"})

\* The outcomes of a check; a context that is done makes it an error.
Outcome(c, cancelled) ==
  IF cancelled THEN {"error"}
  ELSE {"timeout", "unavailable", "error"} \cup
       (IF c = "validation" THEN {"passed", "failed"}
        ELSE {"healthy", "degraded", "critical"})

WarningSource == {"core.registration", "core.state", "core.enrollment",
                  "core.heartbeat", "core.desired_state"}

\* inventory.Core when Core is enabled; a request was attempted exactly when its
\* operation is not skipped, so only the registration has the mark of its own.
Summary == [registration : {"not_needed", "failed", "succeeded"},
            attempted    : BOOLEAN,
            registered   : BOOLEAN,
            heartbeat    : {"skipped", "failed", "succeeded"},
            desired      : {"skipped", "failed", "succeeded"},
            warnings     : SUBSET WarningSource]

\* The result Sync starts from: nothing attempted, nothing needed yet.
FreshSummary == [registration |-> "not_needed", attempted |-> FALSE,
                 registered |-> FALSE, heartbeat |-> "skipped",
                 desired |-> "skipped", warnings |-> {}]

\* A summary one run may end with, its context done or not.
Coherent(s, cancelled) ==
  /\ s.registered <=> s.registration \in {"not_needed", "succeeded"}
  /\ s.heartbeat = "skipped" <=> ~s.registered
  /\ ~s.registered => s.desired = "skipped"
  /\ s.desired = "skipped" => ~s.registered \/ cancelled
  /\ s.registration = "succeeded" => s.attempted
  /\ s.registration = "failed" <=>
       s.warnings \cap {"core.registration", "core.state"} # {}
  /\ s.attempted <=> s.registration # "not_needed"
                     /\ "core.state" \notin s.warnings
  /\ "core.enrollment" \in s.warnings => s.registration = "succeeded"
  /\ s.heartbeat = "failed" <=> "core.heartbeat" \in s.warnings
  /\ s.desired = "failed" <=> "core.desired_state" \in s.warnings
=============================================================================
