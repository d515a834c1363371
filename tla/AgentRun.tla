------------------------------ MODULE AgentRun ------------------------------
(***************************************************************************)
(* One invocation as a whole: cmd/lts-agent/main.go, internal/app and      *)
(* internal/agent, from the configuration to the document on stdout, under *)
(* the supervision of lts-agent.service.                                   *)
(*                                                                         *)
(* The checks and the synchronization are modules of their own, CheckRunner*)
(* and CoreSync; here each is one step with any outcome those allow.  Only *)
(* what may keep such a step from returning is seen of it: uname, which    *)
(* has no deadline, and an output pipe that a descendant of a script holds.*)
(***************************************************************************)
EXTENDS Inventory

CONSTANT Faults    \* what may go wrong

FaultKind == {"config", "uname", "pipe", "client", "stdout", "stop"}

ASSUME FaultAssumption == Faults \subseteq FaultKind

\* The stages in order; the last three depend on the configuration.
Stage == {"config", "system", "uname", "lbi", "assignment", "validation",
          "health", "client", "sync", "write"}

Source == {"system", "lbi", "assignment", "checks.validation", "checks.health",
           "core.client"} \cup WarningSource

CheckSource == [validation |-> "checks.validation", health |-> "checks.health"]

VARIABLES
  pc,         \* the stage that runs, or "exited"
  enabled,    \* core.enabled of the effective configuration
  cancelled,  \* the context of main is done
  stuck,      \* the stage waits for a process the context does not end
  supervisor, \* systemd: "waiting", has sent "SIGTERM", or both signals
  checks,     \* Report.Checks: the status of each
  core,       \* Report.Core, or how it comes to be without a synchronization
  desired,    \* Report.DesiredState.Available
  warnings,   \* the sources of Report.Warnings
  stdout,     \* what reached it
  exit        \* how the process ended

report == <<checks, core, desired, warnings>>
vars == <<pc, enabled, cancelled, stuck, supervisor, checks, core, desired,
          warnings, stdout, exit>>

CoreSection == Summary \cup {[state |-> "none"], [state |-> "disabled"],
                             [state |-> "no client"]}

TypeOK ==
  /\ pc \in Stage \cup {"exited"}
  /\ {enabled, cancelled, stuck, desired} \subseteq BOOLEAN
  /\ supervisor \in {"waiting", "SIGTERM", "SIGKILL"}
  /\ checks \in [Check -> Status \cup {"none"}]
  /\ core \in CoreSection
  /\ warnings \subseteq Source
  /\ stdout \in {"nothing", "torn", "whole"}
  /\ exit \in {"none", "zero", "one", "killed"}

Init ==
  /\ pc = "config"
  /\ enabled = FALSE
  /\ cancelled = FALSE
  /\ stuck = FALSE
  /\ supervisor = "waiting"
  /\ checks = [c \in Check |-> "none"]
  /\ core = [state |-> "none"]
  /\ desired = FALSE
  /\ warnings = {}
  /\ stdout = "nothing"
  /\ exit = "none"

-----------------------------------------------------------------------------
(* App.Run and Agent.Collect.                                              *)

At(stage) == pc = stage
Goto(stage) == pc' = stage

\* The source adds its warning or not.
MayWarn(source) == warnings' \in {warnings, warnings \cup {source}}

\* An absent file selects the defaults, in which Core is disabled.
LoadConfig ==
  /\ At("config")
  /\ enabled' \in BOOLEAN
  /\ Goto("system")
  /\ UNCHANGED <<cancelled, stuck, supervisor, report, stdout, exit>>

\* Unreadable or invalid: the defaults are not used instead.
ConfigInvalid ==
  /\ At("config")
  /\ "config" \in Faults
  /\ Goto("exited") /\ exit' = "one"
  /\ UNCHANGED <<enabled, cancelled, stuck, supervisor, report, stdout>>

\* Host name, operating system, kernel, architecture and time zone; uname is
\* run when the kernel cannot be read from /proc.
CollectSystem ==
  /\ At("system")
  /\ MayWarn("system")
  /\ pc' \in IF "uname" \in Faults THEN {"lbi", "uname"} ELSE {"lbi"}
  /\ stuck' = (pc' = "uname")
  /\ UNCHANGED <<enabled, cancelled, supervisor, checks, core, desired, stdout,
                 exit>>

\* uname ends by itself, or is killed when the context is done.
RunUname ==
  /\ At("uname")
  /\ cancelled \/ ~stuck
  /\ MayWarn("system")
  /\ stuck' = FALSE
  /\ Goto("lbi")
  /\ UNCHANGED <<enabled, cancelled, supervisor, checks, core, desired, stdout,
                 exit>>

CollectLBI ==
  /\ At("lbi")
  /\ MayWarn("lbi")
  /\ Goto("assignment")
  /\ UNCHANGED <<enabled, cancelled, stuck, supervisor, checks, core, desired,
                 stdout, exit>>

CollectAssignment ==
  /\ At("assignment")
  /\ MayWarn("assignment")
  /\ Goto("validation")
  /\ UNCHANGED <<enabled, cancelled, stuck, supervisor, checks, core, desired,
                 stdout, exit>>

\* Mutant: a timeout passes without a warning.
RunCheck_Quiet(c) ==
  /\ At(c)
  /\ ~stuck
  /\ \E status \in Outcome(c, cancelled) :
       /\ checks' = [checks EXCEPT ![c] = status]
       /\ warnings' = IF status \in Verdict \cup {"timeout"} THEN warnings
                      ELSE warnings \cup {CheckSource[c]}
  /\ pc' = IF c = "validation" THEN "health"
           ELSE IF enabled THEN "client" ELSE "write"
  /\ core' = IF c = "health" /\ ~enabled THEN [state |-> "disabled"] ELSE core
  /\ UNCHANGED <<enabled, cancelled, stuck, supervisor, desired, stdout, exit>>

\* The check returns once no process holds its output.
RunCheck(c) ==
  /\ At(c)
  /\ ~stuck
  /\ \E status \in Outcome(c, cancelled) :
       /\ checks' = [checks EXCEPT ![c] = status]
       /\ warnings' = IF status \in Verdict THEN warnings
                      ELSE warnings \cup {CheckSource[c]}
  /\ pc' = IF c = "validation" THEN "health"
           ELSE IF enabled THEN "client" ELSE "write"
  /\ core' = IF c = "health" /\ ~enabled THEN [state |-> "disabled"] ELSE core
  /\ UNCHANGED <<enabled, cancelled, stuck, supervisor, desired, stdout, exit>>

\* core.New: the CA file, the URL.
NewSynchronizer ==
  /\ At("client")
  /\ Goto("sync")
  /\ UNCHANGED <<enabled, cancelled, stuck, supervisor, report, stdout, exit>>

\* Mutant: the run ends there.
ClientFails_Fatal ==
  /\ At("client")
  /\ "client" \in Faults
  /\ Goto("exited") /\ exit' = "one"
  /\ UNCHANGED <<enabled, cancelled, stuck, supervisor, report, stdout>>

ClientFails ==
  /\ At("client")
  /\ "client" \in Faults
  /\ core' = [state |-> "no client"]
  /\ warnings' = warnings \cup {"core.client"}
  /\ Goto("write")
  /\ UNCHANGED <<enabled, cancelled, stuck, supervisor, checks, desired, stdout,
                 exit>>

\* Synchronizer.Sync, with any summary CoreSync allows, and the desired state
\* it returns beside it.
Synchronize ==
  /\ At("sync")
  /\ \E s \in Summary :
       /\ Coherent(s, cancelled)
       /\ core' = s
       /\ desired' = (s.desired = "succeeded")
       /\ warnings' = warnings \cup s.warnings
  /\ Goto("write")
  /\ UNCHANGED <<enabled, cancelled, stuck, supervisor, checks, stdout, exit>>

\* json.Encoder hands the whole document to one Write.
WriteReport ==
  /\ At("write")
  /\ stdout' = "whole"
  /\ Goto("exited") /\ exit' = "zero"
  /\ UNCHANGED <<enabled, cancelled, stuck, supervisor, report>>

WriteFails ==
  /\ At("write")
  /\ "stdout" \in Faults
  /\ stdout' \in {"nothing", "torn"}
  /\ Goto("exited") /\ exit' = "one"
  /\ UNCHANGED <<enabled, cancelled, stuck, supervisor, report>>

-----------------------------------------------------------------------------
(* The processes of the stages, and systemd (external).                    *)

\* A script leaves a descendant on its pipe; none starts in a done context.
HoldPipe ==
  /\ "pipe" \in Faults
  /\ pc \in Check /\ ~stuck /\ ~cancelled
  /\ stuck' = TRUE
  /\ UNCHANGED <<pc, enabled, cancelled, supervisor, report, stdout, exit>>

\* What the stage waits for ends by itself.
Release ==
  /\ stuck
  /\ stuck' = FALSE
  /\ UNCHANGED <<pc, enabled, cancelled, supervisor, report, stdout, exit>>

\* Mutant: the signal does not reach the context.
Terminate_Unnoticed ==
  /\ ~At("exited")
  /\ supervisor = "waiting"
  /\ supervisor' = "SIGTERM"
  /\ stuck' \in {stuck, FALSE}
  /\ UNCHANGED <<pc, enabled, cancelled, report, stdout, exit>>

\* TimeoutStartSec, or the administrator stops the service: SIGTERM goes to all
\* its processes.  A descendant of a script may ignore it, the agent does not.
Terminate ==
  /\ ~At("exited")
  /\ supervisor = "waiting"
  /\ supervisor' = "SIGTERM"
  /\ cancelled' = TRUE
  /\ stuck' \in {stuck, FALSE}
  /\ UNCHANGED <<pc, enabled, report, stdout, exit>>

\* TimeoutStopSec is longer than what an agent that is not stuck still does.
KillAll ==
  /\ pc \in Check /\ stuck
  /\ supervisor = "SIGTERM"
  /\ supervisor' = "SIGKILL"
  /\ stuck' = FALSE
  /\ Goto("exited") /\ exit' = "killed"
  /\ UNCHANGED <<enabled, cancelled, report, stdout>>

\* SIGINT of a terminal.
Interrupt ==
  /\ "stop" \in Faults
  /\ ~At("exited") /\ ~cancelled
  /\ cancelled' = TRUE
  /\ UNCHANGED <<pc, enabled, stuck, supervisor, report, stdout, exit>>

-----------------------------------------------------------------------------

Run ==
  \/ LoadConfig \/ ConfigInvalid
  \/ CollectSystem \/ RunUname \/ CollectLBI \/ CollectAssignment
  \/ \E c \in Check : RunCheck(c)
  \/ NewSynchronizer \/ ClientFails \/ Synchronize
  \/ WriteReport \/ WriteFails

Outside == HoldPipe \/ Release \/ Terminate \/ KillAll \/ Interrupt

Next == Run \/ Outside

Spec == Init /\ [][Next]_vars

\* The process runs.  Nothing is assumed of a process that holds it up.
FairSpec == Spec /\ WF_vars(Run)

\* systemd supervises it.
SupervisedSpec == FairSpec /\ WF_vars(Terminate) /\ WF_vars(KillAll)
-----------------------------------------------------------------------------
(* Properties.                                                             *)

\* The document a run leaves is whole and says of every stage how it ended:
\* both checks have a status, what is no verdict has a warning, the Core
\* section fits the configuration, and a desired state is reported exactly when
\* its retrieval succeeded (app.go 81-112, agent.go 61-97).
ReportTruthful ==
  /\ exit = "zero" <=> stdout = "whole"
  /\ exit = "zero" =>
       /\ \A c \in Check :
            /\ checks[c] \in Status
            /\ checks[c] \in Verdict <=> CheckSource[c] \notin warnings
       /\ enabled <=> core # [state |-> "disabled"]
       /\ enabled => core \in Summary \/ "core.client" \in warnings
       /\ desired <=> core \in Summary /\ core.desired = "succeeded"
       /\ core \in Summary => warnings \cap WarningSource = core.warnings

\* Once the configuration is accepted the run gets to write its inventory,
\* whatever uname, the checks, the client, LTS Core and a signal do; only systemd
\* may end it before that (app.go 71-113, docs/LTS-CORE-API-v1.md 91-94).
InventoryEmitted == pc = "system" ~> pc = "write" \/ exit = "killed"

\* Under systemd a run ends, although neither uname nor an output pipe has a
\* deadline that bounds it (lts-agent.service, TimeoutStartSec).
RunEnds == <>(pc = "exited")
=============================================================================
