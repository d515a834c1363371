----------------------------- MODULE CheckRunner -----------------------------
(***************************************************************************)
(* internal/check/check.go: the collector that runs the validation script  *)
(* and then the health script, each under a deadline of its own and under  *)
(* the context of the invocation, and turns what happened into a result.   *)
(*                                                                         *)
(* Three parties race: the collector, the script with whatever it leaves   *)
(* behind on its output pipe, and the two clocks that may end the wait,    *)
(* the deadline and the signal that cancels the invocation.  os/exec, the  *)
(* pipe and the processes are external: exec.CommandContext kills the      *)
(* script, and only the script, when its context is done, and Wait returns *)
(* when the script has ended and the pipe has no writer left.              *)
(***************************************************************************)
EXTENDS Integers, Sequences, Inventory

CONSTANTS
  Limit,       \* checks.max_output_bytes
  MaxOutput,   \* bound: bytes one script and its descendants write
  Faults       \* what may go wrong

FaultKind == {"cancel", "start", "crash", "background"}

ASSUME OutputAssumption == Limit \in Nat /\ MaxOutput \in Nat
ASSUME FaultAssumption == Faults \subseteq FaultKind

\* Of a process that was killed or never ran.
NoCode == "none"

\* How a process is or was: "killed" by its context, "crashed" by another signal.
Process == {"none", "running", "killed", "crashed"} \cup ExitCode

VARIABLES
  check,      \* the check that is run
  pc,         \* the step of run
  parent,     \* the context of the invocation is done
  ctx,        \* checkCtx
  script,     \* the process of each check (external)
  holder,     \* a descendant of the script still has its output pipe (external)
  produced,   \* bytes written to the pipe of each check (external)
  data, truncated, offered,   \* the limitedBuffer of the current check
  code,       \* Execution.ExitCode
  result      \* inventory.Check of each check, or NoResult

vars == <<check, pc, parent, ctx, script, holder, produced,
          data, truncated, offered, code, result>>
buffer == <<data, truncated, offered>>

\* A byte is its position in the output.
Buffer == INSTANCE LimitedBuffer
            WITH Byte <- 1 .. MaxOutput, MaxChunk <- MaxOutput,
                 MaxOffered <- MaxOutput

Result == [status    : Status,
           available : BOOLEAN,
           exitCode  : ExitCode \cup {NoCode},
           output    : Seq(1 .. MaxOutput),
           truncated : BOOLEAN,
           warned    : BOOLEAN]

NoResult == [status |-> "none"]

TypeOK ==
  /\ check \in Check
  /\ pc \in {"begin", "start", "wait", "cancel", "judge", "done"}
  /\ parent \in BOOLEAN
  /\ ctx \in {"none", "live", "deadline", "cancelled"}
  /\ script \in [Check -> Process]
  /\ holder \in BOOLEAN
  /\ produced \in [Check -> 0 .. MaxOutput]
  /\ Buffer!TypeOK
  /\ code \in ExitCode \cup {NoCode}
  /\ result \in [Check -> Result \cup {NoResult}]

Init ==
  /\ check = "validation"
  /\ pc = "begin"
  /\ parent = FALSE
  /\ ctx = "none"
  /\ script = [c \in Check |-> "none"]
  /\ holder = FALSE
  /\ produced = [c \in Check |-> 0]
  /\ Buffer!Init
  /\ code = NoCode
  /\ result = [c \in Check |-> NoResult]

-----------------------------------------------------------------------------
(* The collector.                                                          *)

\* context.WithTimeout and a new buffer; a parent that is done is inherited.
BeginCheck ==
  /\ pc = "begin"
  /\ pc' = "start"
  /\ ctx' = IF parent THEN "cancelled" ELSE "live"
  /\ data' = <<>> /\ truncated' = FALSE /\ offered' = <<>>
  /\ code' = NoCode
  /\ UNCHANGED <<check, parent, script, holder, produced, result>>

\* command.Start looks at the context once, before it forks.
StartScript ==
  /\ pc = "start"
  /\ ctx = "live"
  /\ pc' = "wait"
  /\ script' = [script EXCEPT ![check] = "running"]
  /\ UNCHANGED <<check, parent, ctx, holder, produced, buffer, code, result>>

StartFails ==
  /\ pc = "start"
  /\ ctx # "live" \/ "start" \in Faults
  /\ pc' = "cancel"
  /\ UNCHANGED <<check, parent, ctx, script, holder, produced, buffer, code,
                 result>>

\* The goroutine of os/exec that copies the pipe into the buffer.
CopyOutput ==
  /\ pc = "wait"
  /\ \E n \in 1 .. produced[check] - Len(offered) :
       Buffer!Write([i \in 1 .. n |-> Len(offered) + i])
  /\ UNCHANGED <<check, pc, parent, ctx, script, holder, produced, code, result>>

\* Mutant: Wait does not drain the pipe.
WaitReturns_Early ==
  /\ pc = "wait"
  /\ script[check] # "running"
  /\ pc' = "cancel"
  /\ code' = IF script[check] \in ExitCode THEN script[check] ELSE NoCode
  /\ UNCHANGED <<check, parent, ctx, script, holder, produced, buffer, result>>

\* command.Wait: the script has ended and its pipe is at its end.
WaitReturns ==
  /\ pc = "wait"
  /\ script[check] # "running" /\ ~holder
  /\ Len(offered) = produced[check]
  /\ pc' = "cancel"
  /\ code' = IF script[check] \in ExitCode THEN script[check] ELSE NoCode
  /\ UNCHANGED <<check, parent, ctx, script, holder, produced, buffer, result>>

\* cancel() freezes what checkCtx.Err will say.
CancelContext ==
  /\ pc = "cancel"
  /\ pc' = "judge"
  /\ ctx' = IF ctx = "live" THEN "cancelled" ELSE ctx
  /\ UNCHANGED <<check, parent, script, holder, produced, buffer, code, result>>

Started == script[check] # "none"

\* Mutant: a process without an exit code is judged by it.
StatusOf_Unchecked ==
  IF parent THEN "error"
  ELSE IF ctx = "deadline" THEN "timeout"
  ELSE IF ~Started THEN "unavailable"
  ELSE MapStatus(check, code)

\* Mutant: the deadline is looked at last.
StatusOf_DeadlineLast ==
  IF parent THEN "error"
  ELSE IF ~Started THEN "unavailable"
  ELSE IF code = NoCode THEN "error"
  ELSE IF ctx = "deadline" THEN "timeout"
  ELSE MapStatus(check, code)

\* Of what may all be true at once, the first that is named decides.
StatusOf ==
  IF parent THEN "error"
  ELSE IF ctx = "deadline" THEN "timeout"
  ELSE IF ~Started THEN "unavailable"
  ELSE IF code = NoCode THEN "error"
  ELSE MapStatus(check, code)

ExitCodeOf == IF parent \/ ctx = "deadline" THEN NoCode ELSE code

Judge ==
  /\ pc = "judge"
  /\ result' = [result EXCEPT ![check] =
                 [status |-> StatusOf, available |-> Started,
                  exitCode |-> ExitCodeOf,
                  output |-> data, truncated |-> truncated,
                  warned |-> StatusOf \notin Verdict]]
  /\ \/ check = "validation" /\ check' = "health" /\ pc' = "begin"
     \/ check = "health" /\ pc' = "done" /\ UNCHANGED check
  /\ UNCHANGED <<parent, ctx, script, holder, produced, buffer, code>>

\* Collect has returned.
Returned == pc = "done" /\ UNCHANGED vars

-----------------------------------------------------------------------------
(* The clocks.                                                             *)

\* Mutant: the deadline covers the start of the script only.
Deadline_StartOnly ==
  /\ pc = "start"
  /\ ctx = "live"
  /\ ctx' = "deadline"
  /\ UNCHANGED <<check, pc, parent, script, holder, produced, buffer, code,
                 result>>

Deadline ==
  /\ pc \in {"start", "wait", "cancel"}
  /\ ctx = "live"
  /\ ctx' = "deadline"
  /\ UNCHANGED <<check, pc, parent, script, holder, produced, buffer, code,
                 result>>

\* signal.NotifyContext: SIGINT or SIGTERM.
Signal ==
  /\ "cancel" \in Faults
  /\ ~parent
  /\ parent' = TRUE
  /\ UNCHANGED <<check, pc, ctx, script, holder, produced, buffer, code, result>>

\* Mutant: the context of the check has no parent.
Propagate_Never ==
  /\ FALSE
  /\ ctx' = "cancelled"
  /\ UNCHANGED <<check, pc, parent, script, holder, produced, buffer, code,
                 result>>

\* A parent that is done cancels its children a moment later.
Propagate ==
  /\ parent
  /\ ctx = "live"
  /\ ctx' = "cancelled"
  /\ UNCHANGED <<check, pc, parent, script, holder, produced, buffer, code,
                 result>>

-----------------------------------------------------------------------------
(* The script and its descendants (external).                              *)

Running == pc = "wait" /\ script[check] = "running"

\* os/exec kills the script when its context is done, unless it ended before.
Kill ==
  /\ Running
  /\ ctx \in {"deadline", "cancelled"}
  /\ script' = [script EXCEPT ![check] = "killed"]
  /\ UNCHANGED <<check, pc, parent, ctx, holder, produced, buffer, code, result>>

Exit ==
  /\ Running
  /\ \E exit \in ExitCode : script' = [script EXCEPT ![check] = exit]
  /\ UNCHANGED <<check, pc, parent, ctx, holder, produced, buffer, code, result>>

CrashScript ==
  /\ "crash" \in Faults
  /\ Running
  /\ script' = [script EXCEPT ![check] = "crashed"]
  /\ UNCHANGED <<check, pc, parent, ctx, holder, produced, buffer, code, result>>

Emit ==
  /\ Running \/ holder
  /\ produced[check] < MaxOutput
  /\ produced' = [produced EXCEPT ![check] = @ + 1]
  /\ UNCHANGED <<check, pc, parent, ctx, script, holder, buffer, code, result>>

\* The script leaves a process behind that inherited its output.
Detach ==
  /\ "background" \in Faults
  /\ Running /\ ~holder
  /\ holder' = TRUE
  /\ UNCHANGED <<check, pc, parent, ctx, script, produced, buffer, code, result>>

HolderEnds ==
  /\ holder
  /\ holder' = FALSE
  /\ UNCHANGED <<check, pc, parent, ctx, script, produced, buffer, code, result>>

-----------------------------------------------------------------------------

Collect ==
  \/ BeginCheck \/ StartScript \/ StartFails \/ CopyOutput
  \/ WaitReturns \/ CancelContext \/ Judge

Clock == Deadline \/ Signal \/ Propagate

Processes == Kill \/ Exit \/ CrashScript \/ Emit \/ Detach \/ HolderEnds

Next == Collect \/ Clock \/ Processes \/ Returned

Spec == Init /\ [][Next]_vars

\* The collector and os/exec keep running; nothing is assumed of the scripts,
\* nor of the deadline, which each property asks for where it needs it.
FairSpec ==
  Spec /\ WF_vars(Collect) /\ WF_vars(Kill) /\ WF_vars(Propagate)

TimedSpec == FairSpec /\ WF_vars(Deadline)
-----------------------------------------------------------------------------
(* Properties.                                                             *)

\* A verdict and an exit code are the script's own: one that was killed, that
\* crashed or that never ran gets neither, whatever races with its end
\* (check.go 128-151).
VerdictTruthful ==
  \A c \in Check : result[c] # NoResult =>
    /\ result[c].exitCode # NoCode => script[c] = result[c].exitCode
    /\ result[c].status \in Verdict =>
         /\ script[c] \in ExitCode
         /\ result[c].status = MapStatus(c, script[c])
         /\ result[c].exitCode = script[c]

\* When the agent itself ended a script, the report says why: its deadline, or
\* the signal that cancelled the invocation (check.go 128-135).
KillExplained ==
  \A c \in Check : result[c] # NoResult /\ script[c] = "killed" =>
    \/ result[c].status = "timeout"
    \/ result[c].status = "error" /\ parent

\* Whether a script ends, is killed or is cancelled, its result has all it
\* wrote up to the limit, and is marked when there was more: Wait returns after
\* the copy, and the buffer is read after Wait (check.go 185-197).
OutputComplete ==
  \A c \in Check : result[c] # NoResult =>
    LET kept == IF produced[c] > Limit THEN Limit ELSE produced[c] IN
      /\ result[c].output = [i \in 1 .. kept |-> i]
      /\ result[c].truncated <=> produced[c] > Limit

\* One script at a time: when a check ends, neither its script nor a writer of
\* its output is left (check.go 99-104).
OneAtATime ==
  /\ \A c \in Check : script[c] = "running" => c = check /\ pc = "wait"
  /\ holder => pc = "wait"

\* Two scripts that never end do not keep the report from being made: each
\* deadline kills its script, and what that leaves on the pipe lets go of it.
CollectReturns ==
  WF_vars(Deadline) /\ WF_vars(HolderEnds) => <>(pc = "done")

\* A signal ends the running check and the one after it without any deadline.
CancellationStops == WF_vars(HolderEnds) => (parent ~> pc = "done")

\* README.md 308-315: the deadline bounds a check.
DeadlineBounds == ctx = "deadline" ~> pc # "wait"
=============================================================================
