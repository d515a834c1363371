------------------------------ MODULE CoreSync ------------------------------
(***************************************************************************)
(* The Core synchronization of one node: internal/coresync/sync.go, run by *)
(* invocations of the agent that systemd or an administrator starts, on    *)
(* top of the two files it keeps (state.json and the enrollment token) and *)
(* against an LTS Core that may answer, refuse, answer too late or not at  *)
(* all.  A crash, a power loss, a signal or an I/O error may hit between   *)
(* any two steps.                                                          *)
(*                                                                         *)
(* A credential is the pair (node_id, agent_token) of one registration     *)
(* response; only its identity matters, so it is a number.  So is an       *)
(* enrollment token.  0 (None) is the absent file and the unset variable.  *)
(***************************************************************************)
EXTENDS Integers, FiniteSets, Inventory

CONSTANTS
  Invocation,      \* processes that may run at the same time
  MaxCredentials,  \* bound: credentials Core issues for this node
  MaxGrants,       \* bound: enrollment tokens Core hands out for this node
  Reissue,         \* what Core answers to a repeated registration of the node:
                   \* the credential it has ("same") or a new one ("rotate")
  Faults,          \* the faults the environment may produce
  Invalid          \* a file that exists and does not validate

FaultKind == {"net", "late", "io", "remove", "cancel", "crash", "power",
              "corrupt", "revoke"}

ASSUME InvocationAssumption == Invocation # {}
ASSUME BoundAssumption == MaxCredentials \in Nat /\ MaxGrants \in Nat \ {0}
ASSUME PolicyAssumption == Reissue \in {"same", "rotate"}
ASSUME FaultAssumption == Faults \subseteq FaultKind
ASSUME InvalidAssumption == Invalid \notin Int

None == 0
Credential == 1 .. MaxCredentials
Enrollment == 1 .. MaxGrants

VARIABLES
  \* ---- the host: what a process sees, and what a power loss leaves
  stateFile,    \* state.json
  stateSynced,  \* its data reached the disk before it got its name
  enrollment,   \* the enrollment token file
  durState,     \* the directory entries that are on disk
  durEnrollment,
  litter,       \* some abandoned .state-* file exists
  \* ---- LTS Core (external)
  issued,       \* number of credentials issued so far
  current,      \* the credential Core accepts
  grant,        \* the enrollment token Core accepts
  contacted,    \* Core accepted a heartbeat under the current credential
  late,         \* enrollment tokens of requests nobody waits for any more
  \* ---- the invocations
  pc,           \* the step of Sync the process is about to take
  cred,         \* the credential in its memory, or in the response it waits for
  tok,          \* the enrollment token it sent
  temp,         \* its .state-* file
  summary,      \* the inventory.Core it will report, and its warnings
  cancelled     \* its context is done

host == <<stateFile, stateSynced, enrollment, durState, durEnrollment, litter>>
core == <<issued, current, grant, contacted, late>>
proc == <<pc, cred, tok, temp, summary, cancelled>>
vars == <<stateFile, stateSynced, enrollment, durState, durEnrollment, litter,
          issued, current, grant, contacted, late,
          pc, cred, tok, temp, summary, cancelled>>

Step == {"idle", "load", "register", "wait", "answered", "create", "fsync",
         "rename", "cleanup", "remove", "heartbeat", "context", "desired",
         "report"}

TypeOK ==
  /\ stateFile \in Credential \cup {None, Invalid}
  /\ stateSynced \in BOOLEAN
  /\ enrollment \in Enrollment \cup {None, Invalid}
  /\ durState \in Credential \cup {None, Invalid}
  /\ durEnrollment \in Enrollment \cup {None, Invalid}
  /\ litter \in BOOLEAN
  /\ issued \in 0 .. MaxCredentials
  /\ current \in 0 .. issued
  /\ grant \in Enrollment
  /\ contacted \in BOOLEAN
  /\ late \subseteq Enrollment
  /\ pc \in [Invocation -> Step]
  /\ cred \in [Invocation -> Credential \cup {None}]
  /\ tok \in [Invocation -> Enrollment \cup {None}]
  /\ temp \in [Invocation -> {"none", "written", "synced"}]
  /\ summary \in [Invocation -> Summary]
  /\ cancelled \in [Invocation -> BOOLEAN]
  /\ \A p \in Invocation : pc[p] = "wait" => tok[p] \in Enrollment

\* A host before its first invocation: provisioned or not, possibly with an
\* unusable file left by its administrator.
Init ==
  /\ stateFile \in {None, Invalid}
  /\ stateSynced = TRUE
  /\ enrollment \in {None, Invalid, 1}
  /\ durState = stateFile
  /\ durEnrollment = enrollment
  /\ litter = FALSE
  /\ issued = 0
  /\ current = None
  /\ grant = 1
  /\ contacted = FALSE
  /\ late = {}
  /\ pc = [p \in Invocation |-> "idle"]
  /\ cred = [p \in Invocation |-> None]
  /\ tok = [p \in Invocation |-> None]
  /\ temp = [p \in Invocation |-> "none"]
  /\ summary = [p \in Invocation |-> FreshSummary]
  /\ cancelled = [p \in Invocation |-> FALSE]

-----------------------------------------------------------------------------
(* One invocation, from the start of Sync to its report.                   *)

At(p, step) == pc[p] = step
Goto(p, step) == pc' = [pc EXCEPT ![p] = step]

Warned(s, source) == [s EXCEPT !.warnings = @ \cup {source}]

Start(p) ==
  /\ At(p, "idle")
  /\ Goto(p, "load")
  /\ UNCHANGED <<host, core, cred, tok, temp, summary, cancelled>>

\* Mutant: an unusable state counts as none.
LoadAbsent_Invalid(p) ==
  /\ At(p, "load")
  /\ stateFile \notin Credential
  /\ Goto(p, "register")
  /\ summary' = [summary EXCEPT ![p] =
                  [@ EXCEPT !.attempted = TRUE,
                            !.registration = "failed"]]
  /\ UNCHANGED <<host, core, cred, tok, temp, cancelled>>

\* loadState says that there is no state: Sync registers the node.
LoadAbsent(p) ==
  /\ At(p, "load")
  /\ stateFile = None
  /\ Goto(p, "register")
  /\ summary' = [summary EXCEPT ![p] =
                  [@ EXCEPT !.attempted = TRUE,
                            !.registration = "failed"]]
  /\ UNCHANGED <<host, core, cred, tok, temp, cancelled>>

\* loadState cannot inspect, read or accept the file: Sync gives up.
LoadFails(p) ==
  /\ At(p, "load")
  /\ \/ stateFile = Invalid
     \/ "io" \in Faults
  /\ Goto(p, "report")
  /\ summary' = [summary EXCEPT ![p] =
                  Warned([@ EXCEPT !.registration = "failed"],
                         "core.state")]
  /\ UNCHANGED <<host, core, cred, tok, temp, cancelled>>

\* Mutant: the token is removed whenever there is a state.
LoadState_Removes(p) ==
  /\ At(p, "load")
  /\ stateFile \in Credential
  /\ Goto(p, "remove")
  /\ cred' = [cred EXCEPT ![p] = stateFile]
  /\ summary' = [summary EXCEPT ![p] = [@ EXCEPT !.registered = TRUE]]
  /\ UNCHANGED <<host, core, tok, temp, cancelled>>

\* A usable state: on to the heartbeat, the enrollment token is not looked at.
LoadState(p) ==
  /\ At(p, "load")
  /\ stateFile \in Credential
  /\ Goto(p, "heartbeat")
  /\ cred' = [cred EXCEPT ![p] = stateFile]
  /\ summary' = [summary EXCEPT ![p] = [@ EXCEPT !.registered = TRUE]]
  /\ UNCHANGED <<host, core, tok, temp, cancelled>>

\* Every error of register leaves Sync with the status it set on entry.
RegistrationFails(p) ==
  /\ Goto(p, "report")
  /\ cred' = [cred EXCEPT ![p] = None]
  /\ summary' = [summary EXCEPT ![p] =
                  Warned([@ EXCEPT !.registration = "failed"],
                         "core.registration")]

\* Mutant: the token is sent unread.
SendRegistration_Unread(p) ==
  /\ At(p, "register")
  /\ ~cancelled[p]
  /\ Goto(p, "wait")
  /\ tok' = [tok EXCEPT ![p] = enrollment]
  /\ UNCHANGED <<host, core, cred, temp, summary, cancelled>>

\* Fingerprint and token are read, the request leaves.
SendRegistration(p) ==
  /\ At(p, "register")
  /\ enrollment \in Enrollment
  /\ ~cancelled[p]
  /\ Goto(p, "wait")
  /\ tok' = [tok EXCEPT ![p] = enrollment]
  /\ UNCHANGED <<host, core, cred, temp, summary, cancelled>>

\* No usable machine ID or token, or a context that is done before the request.
NothingToSend(p) ==
  /\ At(p, "register")
  /\ \/ enrollment \notin Enrollment
     \/ cancelled[p]
     \/ "io" \in Faults
  /\ RegistrationFails(p)
  /\ UNCHANGED <<host, core, tok, temp, cancelled>>

\* Mutant: the token is removed before its credential is persisted.
ReceiveCredential_TokenFirst(p) ==
  /\ At(p, "answered")
  /\ Goto(p, "create")
  /\ enrollment' = None
  /\ UNCHANGED <<stateFile, stateSynced, durState, durEnrollment, litter,
                 core, cred, tok, temp, summary, cancelled>>

\* A response that names this schema, a node and a token.
ReceiveCredential(p) ==
  /\ At(p, "answered")
  /\ Goto(p, "create")
  /\ UNCHANGED <<host, core, cred, tok, temp, summary, cancelled>>

\* The request stays under way when its sender stops waiting for it, or not.
Abandon(p) ==
  late' \in IF At(p, "wait") /\ "late" \in Faults
            THEN {late, late \cup {tok[p]}} ELSE {late}

\* A refusal, a transport error, a timeout, a signal, an unusable response.
RegistrationLost(p) ==
  /\ \/ At(p, "wait") /\ (tok[p] # grant \/ cancelled[p] \/ "net" \in Faults)
     \/ At(p, "answered") /\ (cancelled[p] \/ "net" \in Faults)
  /\ RegistrationFails(p)
  /\ Abandon(p)
  /\ UNCHANGED <<host, issued, current, grant, contacted, tok, temp, cancelled>>

\* writeState up to the encoded document: directory checks, CreateTemp, Chmod.
CreateTemp(p) ==
  /\ At(p, "create")
  /\ Goto(p, "fsync")
  /\ temp' = [temp EXCEPT ![p] = "written"]
  /\ UNCHANGED <<host, core, cred, tok, summary, cancelled>>

\* Mutant: writeState looks at the context first.
CreateTempFails_Cancelled(p) ==
  /\ At(p, "create")
  /\ "io" \in Faults \/ cancelled[p]
  /\ RegistrationFails(p)
  /\ UNCHANGED <<host, core, tok, temp, cancelled>>

\* The state directory is unusable: no temporary file to clean up.
CreateTempFails(p) ==
  /\ At(p, "create")
  /\ "io" \in Faults
  /\ RegistrationFails(p)
  /\ UNCHANGED <<host, core, tok, temp, cancelled>>

\* Mutant: no fsync.
SyncTemp_Skipped(p) ==
  /\ At(p, "fsync")
  /\ Goto(p, "rename")
  /\ UNCHANGED <<host, core, cred, tok, temp, summary, cancelled>>

SyncTemp(p) ==
  /\ At(p, "fsync")
  /\ Goto(p, "rename")
  /\ temp' = [temp EXCEPT ![p] = "synced"]
  /\ UNCHANGED <<host, core, cred, tok, summary, cancelled>>

\* The write, the fsync, the close or the rename fails.
WriteFails(p) ==
  /\ pc[p] \in {"fsync", "rename"}
  /\ "io" \in Faults
  /\ Goto(p, "cleanup")
  /\ UNCHANGED <<host, core, cred, tok, temp, summary, cancelled>>

\* The new name replaces whatever carried it.
RenameTemp(p) ==
  /\ At(p, "rename")
  /\ stateFile' = cred[p]
  /\ stateSynced' = (temp[p] = "synced")
  /\ temp' = [temp EXCEPT ![p] = "none"]
  /\ Goto(p, "remove")
  /\ summary' = [summary EXCEPT ![p] =
                  [@ EXCEPT !.registration = "succeeded",
                            !.registered = TRUE]]
  /\ UNCHANGED <<enrollment, durState, durEnrollment, litter, core, cred, tok,
                 cancelled>>

\* Mutant: no deferred removal.
CleanUp_Missing(p) ==
  /\ At(p, "cleanup")
  /\ RegistrationFails(p)
  /\ temp' = [temp EXCEPT ![p] = "none"]
  /\ litter' = TRUE
  /\ UNCHANGED <<stateFile, stateSynced, enrollment, durState, durEnrollment,
                 core, tok, cancelled>>

\* writeState's deferred function; the error of its Remove is dropped.
CleanUp(p) ==
  /\ At(p, "cleanup")
  /\ RegistrationFails(p)
  /\ temp' = [temp EXCEPT ![p] = "none"]
  /\ litter' \in IF "remove" \in Faults THEN {litter, TRUE} ELSE {litter}
  /\ UNCHANGED <<stateFile, stateSynced, enrollment, durState, durEnrollment,
                 core, tok, cancelled>>

\* A token that is already gone is not an error.
RemoveToken(p) ==
  /\ At(p, "remove")
  /\ enrollment' = None
  /\ Goto(p, "heartbeat")
  /\ UNCHANGED <<stateFile, stateSynced, durState, durEnrollment, litter, core,
                 cred, tok, temp, summary, cancelled>>

RemoveFails(p) ==
  /\ At(p, "remove")
  /\ "remove" \in Faults
  /\ Goto(p, "heartbeat")
  /\ summary' = [summary EXCEPT ![p] =
                  Warned(@, "core.enrollment")]
  /\ UNCHANGED <<host, core, cred, tok, temp, cancelled>>

Heartbeat(p) ==
  /\ At(p, "heartbeat")
  /\ cred[p] = current
  /\ ~cancelled[p]
  /\ contacted' = TRUE
  /\ Goto(p, "context")
  /\ summary' = [summary EXCEPT ![p] = [@ EXCEPT !.heartbeat = "succeeded"]]
  /\ UNCHANGED <<host, issued, current, grant, late, cred, tok, temp, cancelled>>

\* Refused, lost, or accepted by Core with the answer lost.
HeartbeatFails(p) ==
  /\ At(p, "heartbeat")
  /\ cred[p] # current \/ cancelled[p] \/ "net" \in Faults
  /\ contacted' \in IF cred[p] = current /\ ~cancelled[p]
                    THEN {contacted, TRUE} ELSE {contacted}
  /\ Goto(p, "context")
  /\ summary' = [summary EXCEPT ![p] =
                  Warned([@ EXCEPT !.heartbeat = "failed"],
                         "core.heartbeat")]
  /\ UNCHANGED <<host, issued, current, grant, late, cred, tok, temp, cancelled>>

\* Mutant: a failed heartbeat skips the desired state.
CheckContext_Strict(p) ==
  /\ At(p, "context")
  /\ Goto(p, IF cancelled[p] \/ summary[p].heartbeat = "failed"
             THEN "report" ELSE "desired")
  /\ UNCHANGED <<host, core, cred, tok, temp, summary, cancelled>>

\* Only a context that is done keeps the desired state from being retrieved.
CheckContext(p) ==
  /\ At(p, "context")
  /\ Goto(p, IF cancelled[p] THEN "report" ELSE "desired")
  /\ UNCHANGED <<host, core, cred, tok, temp, summary, cancelled>>

DesiredState(p) ==
  /\ At(p, "desired")
  /\ cred[p] = current
  /\ ~cancelled[p]
  /\ Goto(p, "report")
  /\ summary' = [summary EXCEPT ![p] = [@ EXCEPT !.desired = "succeeded"]]
  /\ UNCHANGED <<host, core, cred, tok, temp, cancelled>>

DesiredStateFails(p) ==
  /\ At(p, "desired")
  /\ cred[p] # current \/ cancelled[p] \/ "net" \in Faults
  /\ Goto(p, "report")
  /\ summary' = [summary EXCEPT ![p] =
                  Warned([@ EXCEPT !.desired = "failed"],
                         "core.desired_state")]
  /\ UNCHANGED <<host, core, cred, tok, temp, cancelled>>

\* The process is gone: its memory, its context and its summary with it.
Forget(p) ==
  /\ Goto(p, "idle")
  /\ cred' = [cred EXCEPT ![p] = None]
  /\ tok' = [tok EXCEPT ![p] = None]
  /\ temp' = [temp EXCEPT ![p] = "none"]
  /\ summary' = [summary EXCEPT ![p] = FreshSummary]
  /\ cancelled' = [cancelled EXCEPT ![p] = FALSE]

Report(p) ==
  /\ At(p, "report")
  /\ Forget(p)
  /\ UNCHANGED <<host, core>>

-----------------------------------------------------------------------------
(* What happens to an invocation from outside.                             *)

\* SIGINT or SIGTERM.
Cancel(p) ==
  /\ "cancel" \in Faults
  /\ ~At(p, "idle") /\ ~cancelled[p]
  /\ cancelled' = [cancelled EXCEPT ![p] = TRUE]
  /\ UNCHANGED <<host, core, pc, cred, tok, temp, summary>>

\* SIGKILL, a panic, the end of systemd's patience.  Once nothing is left but
\* to report, it is no different from the end of the process.
Crash(p) ==
  /\ "crash" \in Faults
  /\ pc[p] \notin {"idle", "report"}
  /\ Forget(p)
  /\ Abandon(p)
  /\ litter' = (litter \/ temp[p] # "none")
  /\ UNCHANGED <<stateFile, stateSynced, enrollment, durState, durEnrollment,
                 issued, current, grant, contacted>>

-----------------------------------------------------------------------------
(* LTS Core (external): docs/LTS-CORE-API-v1.md as sync.go uses it.        *)

\* Core accepts a registration and answers with the credential c.
Issue(c) ==
  \/ /\ Reissue = "same" /\ current # None
     /\ c = current
     /\ UNCHANGED <<issued, current, contacted>>
  \/ /\ Reissue = "rotate" \/ current = None
     /\ issued < MaxCredentials
     /\ c = issued + 1
     /\ issued' = c /\ current' = c /\ contacted' = FALSE

CoreRegister(p) ==
  /\ At(p, "wait")
  /\ tok[p] = grant
  /\ \E c \in Credential :
       /\ Issue(c)
       /\ cred' = [cred EXCEPT ![p] = c]
  /\ Goto(p, "answered")
  /\ UNCHANGED <<host, grant, late, tok, temp, summary, cancelled>>

\* Core acts on a request whose sender is gone.  A member of late stands for
\* any number of such requests, so it may stay.
CoreRegisterLate ==
  /\ grant \in late
  /\ \E c \in Credential : Issue(c)
  /\ late' \in {late, late \ {grant}}
  /\ UNCHANGED <<host, grant, proc>>

\* An operator revokes the node and grants a replacement enrollment token.
CoreRevoke ==
  /\ "revoke" \in Faults
  /\ current # None
  /\ grant < MaxGrants
  /\ current' = None /\ contacted' = FALSE
  /\ grant' = grant + 1
  /\ UNCHANGED <<host, issued, late, proc>>

-----------------------------------------------------------------------------
(* The administrator and the disk.                                         *)

AllIdle == \A p \in Invocation : At(p, "idle")

\* Install the granted token on a host without state, as docs/DEPLOYMENT.md
\* does to enroll a node.  Nothing asks for the agent to be stopped.
Provision ==
  /\ stateFile = None
  /\ enrollment # grant
  /\ enrollment' = grant /\ durEnrollment' = grant
  /\ UNCHANGED <<stateFile, stateSynced, durState, litter, core, proc>>

\* The documented recovery: credential revoked, no invocation running, then
\* state.json removed and the replacement token installed.
Reprovision ==
  /\ AllIdle
  /\ stateFile # None
  /\ current = None
  /\ stateFile' = None /\ durState' = None /\ stateSynced' = TRUE
  /\ enrollment' = grant /\ durEnrollment' = grant
  /\ UNCHANGED <<litter, core, proc>>

\* The file stops validating: its mode, its owner or its contents.
Corrupt ==
  /\ "corrupt" \in Faults
  /\ stateFile \in Credential
  /\ stateFile' = Invalid /\ durState' = Invalid
  /\ UNCHANGED <<stateSynced, enrollment, durEnrollment, litter, core, proc>>

\* The journal of the file system commits the rename, and the unlink after it:
\* both files are in one directory unless the configuration says otherwise.
FlushState ==
  /\ "power" \in Faults
  /\ durState # stateFile
  /\ durState' = IF stateSynced THEN stateFile ELSE Invalid
  /\ UNCHANGED <<stateFile, stateSynced, enrollment, durEnrollment, litter,
                 core, proc>>

FlushEnrollment ==
  /\ "power" \in Faults
  /\ durState = stateFile
  /\ durEnrollment # enrollment
  /\ durEnrollment' = enrollment
  /\ UNCHANGED <<stateFile, stateSynced, enrollment, durState, litter, core,
                 proc>>

PowerLoss ==
  /\ "power" \in Faults
  /\ stateFile' = durState
  /\ enrollment' = durEnrollment
  /\ stateSynced' = TRUE
  /\ litter' \in {litter, litter \/ \E p \in Invocation : temp[p] # "none"}
  /\ late' \in {late, late \cup {tok[p] : p \in {q \in Invocation :
                  At(q, "wait") /\ "late" \in Faults}}}
  /\ pc' = [p \in Invocation |-> "idle"]
  /\ cred' = [p \in Invocation |-> None]
  /\ tok' = [p \in Invocation |-> None]
  /\ temp' = [p \in Invocation |-> "none"]
  /\ summary' = [p \in Invocation |-> FreshSummary]
  /\ cancelled' = [p \in Invocation |-> FALSE]
  /\ UNCHANGED <<durState, durEnrollment, issued, current, grant, contacted>>

-----------------------------------------------------------------------------

Sync(p) ==
  \/ LoadAbsent(p) \/ LoadFails(p) \/ LoadState(p)
  \/ SendRegistration(p) \/ NothingToSend(p)
  \/ ReceiveCredential(p) \/ RegistrationLost(p)
  \/ CreateTemp(p) \/ CreateTempFails(p) \/ SyncTemp(p) \/ WriteFails(p)
  \/ RenameTemp(p) \/ CleanUp(p)
  \/ RemoveToken(p) \/ RemoveFails(p)
  \/ Heartbeat(p) \/ HeartbeatFails(p) \/ CheckContext(p)
  \/ DesiredState(p) \/ DesiredStateFails(p)
  \/ Report(p)

Environment ==
  \/ CoreRegisterLate \/ CoreRevoke
  \/ Provision \/ Reprovision \/ Corrupt
  \/ FlushState \/ FlushEnrollment \/ PowerLoss

Next ==
  \/ \E p \in Invocation :
       Start(p) \/ Sync(p) \/ Cancel(p) \/ Crash(p) \/ CoreRegister(p)
  \/ Environment

Spec == Init /\ [][Next]_vars

\* systemd starts the agent again and again, a running process takes its next
\* step, and a step that may fail does not fail for ever.
HappyPath(p) ==
  /\ SF_vars(LoadAbsent(p)) /\ SF_vars(LoadState(p))
  /\ SF_vars(SendRegistration(p)) /\ SF_vars(CoreRegister(p))
  /\ SF_vars(ReceiveCredential(p))
  /\ SF_vars(CreateTemp(p)) /\ SF_vars(SyncTemp(p)) /\ SF_vars(RenameTemp(p))
  /\ SF_vars(RemoveToken(p)) /\ SF_vars(Heartbeat(p))

Fairness ==
  \A p \in Invocation :
    WF_vars(Start(p)) /\ WF_vars(Sync(p)) /\ HappyPath(p)

FairSpec == Spec /\ Fairness

\* The same when the crashes come to an end.
SettledSpec == FairSpec /\ <>[][\A p \in Invocation : ~Crash(p)]_vars

-----------------------------------------------------------------------------
(* Properties.                                                             *)

\* A node that Core knows can always speak to it again without help: it holds
\* the credential Core accepts, or no state and the token Core still accepts
\* (sync.go 116 and 128-135: the token goes only once the state has its name).
\* An invalid state file is the one exception, it needs the administrator.
NeverStranded ==
  current # None =>
    \/ stateFile \in {current, Invalid}
    \/ stateFile = None /\ enrollment = grant

\* The same of what a power loss would leave: the fsync, the rename and the
\* unlink are ordered so that the disk never holds neither file.
NeverStrandedOnDisk ==
  current # None =>
    \/ durState \in {current, Invalid}
    \/ durState = None /\ durEnrollment = grant

\* A credential the agent has received reaches state.json before the run
\* reports, cancelled or not, unless the disk itself fails: nothing between the
\* response and the rename looks at the context (sync.go 211-237).
CredentialKept(p) ==
  pc[p] # "report" /\ pc'[p] = "report" =>
    /\ cred'[p] # None => stateFile' \in {cred'[p], Invalid}
    /\ cred[p] # None /\ pc[p] # "answered" /\ "io" \notin Faults =>
         cred'[p] # None

CredentialReachesDisk == [][\A p \in Invocation : CredentialKept(p)]_vars

\* What a run reports is coherent, whatever was cancelled and whichever step
\* failed: the operations happen in order, only a done context or a missing
\* registration skips one, and each failure has its warning (sync.go 98-160).
SummaryCoherent ==
  \A p \in Invocation : At(p, "report") =>
    /\ Coherent(summary[p], cancelled[p])
    /\ summary[p].registered <=> cred[p] # None

\* No .state-* file outlives its writer, whichever step of the write fails,
\* unless the writer was killed or the removal itself failed (the deferred
\* function of writeState, sync.go 362-367).
NoLitter ==
  [][litter' /\ ~litter /\ "remove" \notin Faults =>
       \E p \in Invocation : temp[p] # "none" /\ pc'[p] = "idle"]_vars

\* Only the documented recovery replaces a state file that does not validate:
\* no run overwrites or removes it (docs/DEPLOYMENT.md 111).
InvalidStateRetained ==
  [][stateFile = Invalid => stateFile' = Invalid \/ Reprovision]_vars

\* What a power loss would leave becomes invalid by an outside hand only, which
\* the running system sees as well: the disk has the old name or the complete new
\* document at any point (sync.go 371-384, the fsync before the rename).
NeverTorn ==
  [][durState' = Invalid /\ durState # Invalid => stateFile' = Invalid]_vars

\* A run registers no node that has a state, and the one that removes an
\* enrollment token is the one that traded it in: another token is removed only
\* after Core itself has replaced the one that was sent (sync.go 115-135).
TokenSpentOnce ==
  [][\A p \in Invocation :
       /\ At(p, "register") /\ pc'[p] = "wait" => stateFile = None
       /\ At(p, "remove") /\ enrollment' # enrollment =>
            /\ tok[p] # None
            /\ tok[p] = grant => enrollment = grant]_vars

\* An enrolled node is eventually known to Core by its heartbeat, whatever
\* fails on the way a finite number of times in a row.
EventuallyContacted ==
  stateFile = None /\ enrollment = grant ~> contacted

\* The enrollment token does not stay beside the credential it was traded for.
ConsumedTokenRemoved ==
  current # None /\ stateFile = current ~> enrollment = None

\* The promise of NodeIdentity, kept by one invocation at a time.
Identity == INSTANCE NodeIdentity WITH held <- stateFile, ticket <- enrollment

KeepsIdentity == Identity!Spec
=============================================================================
