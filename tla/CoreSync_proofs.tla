--------------------------- MODULE CoreSync_proofs ---------------------------
(***************************************************************************)
(* Proofs about CoreSync, for any number of invocations, credentials and   *)
(* grants and any set of faults.                                           *)
(***************************************************************************)
EXTENDS CoreSync, TLAPS

(***************************************************************************)
(* The safety of the identity rests on what Core answers to a registration *)
(* that is repeated.  It holds                                             *)
(*   - for overlapping invocations, when Core answers with the credential  *)
(*     it has and nobody revokes the node while they run, or               *)
(*   - for one invocation at a time, when Core answers with the credential *)
(*     it has or does not act on requests that were given up.              *)
(***************************************************************************)
Sole == \A p, q \in Invocation : p = q

Orderly ==
  \/ Reissue = "same" /\ "revoke" \notin Faults
  \/ Sole /\ (Reissue = "same" \/ "late" \notin Faults)

Registering == {"register", "wait", "answered", "create", "fsync", "rename"}
Writing == {"answered", "create", "fsync", "rename"}
Starting == {"idle", "load", "register", "wait"}
Holding == {"remove", "heartbeat", "context", "desired", "report"}

\* The credential c is the one Core accepts, or the node is revoked and no
\* request on its way can bring it back.
Live(c) ==
  \/ c = current
  \/ current = None /\ "revoke" \in Faults /\ grant \notin late

\* Core knows the node, or is about to.
Known ==
  \/ current # None
  \/ grant \in late
  \/ \E p \in Invocation : At(p, "wait") /\ tok[p] = grant

\* What a process holds, in memory or in the response it waits for, and what
\* is persisted, is live.
CredentialInv ==
  /\ \A p \in Invocation : /\ pc[p] \in Writing => cred[p] # None
                           /\ cred[p] # None => Live(cred[p])
  /\ stateFile \in Credential => Live(stateFile)
  /\ durState \in Credential => Live(durState)

\* A process starts with nothing, and what it has persisted or loaded stays in
\* its file.
HeldInv ==
  \A p \in Invocation :
    /\ pc[p] \in Starting => cred[p] = None
    /\ pc[p] \in Holding /\ cred[p] # None => stateFile \in {cred[p], Invalid}

\* A single invocation registers on a host without state, and what the disk
\* lags behind with, or Core may still do, is its first registration.
SoleInv ==
  Sole =>
    /\ \A p \in Invocation : pc[p] \in Registering => stateFile = None
    /\ durState # stateFile => durState = None
    /\ current = None /\ grant \in late => stateFile = None

\* Only what has been synced gets its name.
SyncInv ==
  /\ stateSynced
  /\ \A p \in Invocation : At(p, "rename") => temp[p] = "synced"

\* The order of writeState and Remove.
OrderInv ==
  /\ SyncInv
  /\ \A p \in Invocation : /\ At(p, "cleanup") => "io" \in Faults
                           /\ At(p, "remove") => stateFile # None

\* How the disk may lag behind.
DiskInv ==
  /\ durState # stateFile =>
       durState \in {None, Invalid} /\ stateFile \in Credential
  /\ enrollment # None => durEnrollment = enrollment

\* The token is there as long as it may be needed again.
TokenInv ==
  /\ Known /\ stateFile = None => enrollment = grant
  /\ Known /\ durState = None => durEnrollment = grant

\* No token of the future is in use, and no request outlives its sender unless
\* the network keeps it.
GrantInv ==
  /\ "late" \notin Faults => late = {}
  /\ \A t \in late : t <= grant
  /\ \A p \in Invocation : tok[p] <= grant
  /\ enrollment \in Enrollment => enrollment <= grant
  /\ durEnrollment \in Enrollment => durEnrollment <= grant

IInv ==
  /\ TypeOK
  /\ CredentialInv
  /\ HeldInv
  /\ SoleInv
  /\ OrderInv
  /\ DiskInv
  /\ TokenInv
  /\ GrantInv

-----------------------------------------------------------------------------
(* Types.                                                                  *)

\* Every assignment Sync makes to its result keeps it a result.
LEMMA SummaryEdits ==
  ASSUME NEW s \in Summary
  PROVE  /\ FreshSummary \in Summary
         /\ [s EXCEPT !.attempted = TRUE, !.registration = "failed"] \in Summary
         /\ [s EXCEPT !.registered = TRUE] \in Summary
         /\ [s EXCEPT !.registration = "succeeded", !.registered = TRUE] \in Summary
         /\ [s EXCEPT !.heartbeat = "succeeded"] \in Summary
         /\ [s EXCEPT !.desired = "succeeded"] \in Summary
         /\ [s EXCEPT !.registration = "failed"] \in Summary
         /\ [s EXCEPT !.heartbeat = "failed"] \in Summary
         /\ [s EXCEPT !.desired = "failed"] \in Summary
         /\ \A w \in WarningSource : Warned(s, w) \in Summary
  BY DEF Summary, FreshSummary, WarningSource, Warned

\* The initial state has values of the declared types.
LEMMA TypeInit == Init => TypeOK
<1> SUFFICES ASSUME Init PROVE TypeOK
  OBVIOUS
<1>1. FreshSummary \in Summary
  BY DEF Summary, FreshSummary, WarningSource
<1>2. 1 \in Enrollment /\ 0 \in 0 .. MaxCredentials /\ 0 \in 0 .. 0
  BY BoundAssumption DEF Enrollment
<1> QED
  BY <1>1, <1>2 DEF Init, TypeOK, None, Step

\* What Core issues is a credential, and the credentials it has issued so far
\* stay within the bound.
LEMMA IssueType ==
  ASSUME TypeOK, NEW c \in Credential, Issue(c)
  PROVE  /\ issued' \in 0 .. MaxCredentials
         /\ current' \in 0 .. issued'
         /\ contacted' \in BOOLEAN
<1>1. /\ issued \in 0 .. MaxCredentials /\ current \in 0 .. issued
      /\ contacted \in BOOLEAN /\ MaxCredentials \in Nat
  BY BoundAssumption DEF TypeOK
<1>2. CASE UNCHANGED <<issued, current, contacted>>
  BY <1>1, <1>2
<1>3. CASE /\ issued < MaxCredentials
           /\ issued' = issued + 1 /\ current' = issued' /\ contacted' = FALSE
  <2>1. contacted' \in BOOLEAN
    BY <1>3
  <2>2. issued' \in 0 .. MaxCredentials /\ current' = issued'
    BY <1>1, <1>3
  <2>3. issued' \in 0 .. issued'
    BY <2>2, <1>1
  <2> QED
    BY <2>1, <2>2, <2>3
<1> QED
  BY <1>2, <1>3 DEF Issue

\* Every step, of an invocation, of Core, of the administrator or of the disk,
\* keeps the values of the declared types.
LEMMA TypeNext == TypeOK /\ [Next]_vars => TypeOK'
<1> SUFFICES ASSUME TypeOK, [Next]_vars PROVE TypeOK'
  OBVIOUS
<1> USE BoundAssumption
    DEF TypeOK, Enrollment, Credential, None, Step, At, Goto, host, core, proc
<1>1. CASE UNCHANGED vars
  BY <1>1 DEF vars
<1>2. ASSUME NEW p \in Invocation,
             Start(p) \/ Sync(p) \/ Cancel(p) \/ Crash(p) \/ CoreRegister(p)
      PROVE  TypeOK'
  <2>1. summary[p] \in Summary
    OBVIOUS
  <2> USE DEF WarningSource
  <2>2. CASE Start(p)
    BY <2>2 DEF Start
  <2>3. CASE LoadAbsent(p)
    BY <2>3, <2>1, SummaryEdits DEF LoadAbsent
  <2>4. CASE LoadFails(p)
    BY <2>4, <2>1, SummaryEdits DEF LoadFails
  <2>5. CASE LoadState(p)
    BY <2>5, <2>1, SummaryEdits DEF LoadState
  <2>6. CASE SendRegistration(p)
    BY <2>6 DEF SendRegistration
  <2>7. CASE NothingToSend(p)
    BY <2>7, <2>1, SummaryEdits DEF NothingToSend, RegistrationFails
  <2>8. CASE ReceiveCredential(p)
    BY <2>8 DEF ReceiveCredential
  <2>9. CASE RegistrationLost(p)
    BY <2>9, <2>1, SummaryEdits DEF RegistrationLost, RegistrationFails, Abandon
  <2>10. CASE CreateTemp(p)
    BY <2>10 DEF CreateTemp
  <2>11. CASE CreateTempFails(p)
    BY <2>11, <2>1, SummaryEdits DEF CreateTempFails, RegistrationFails
  <2>12. CASE SyncTemp(p)
    BY <2>12 DEF SyncTemp
  <2>13. CASE WriteFails(p)
    BY <2>13 DEF WriteFails
  <2>14. CASE RenameTemp(p)
    BY <2>14, <2>1, SummaryEdits DEF RenameTemp
  <2>15. CASE CleanUp(p)
    BY <2>15, <2>1, SummaryEdits DEF CleanUp, RegistrationFails
  <2>16. CASE RemoveToken(p)
    BY <2>16 DEF RemoveToken
  <2>17. CASE RemoveFails(p)
    BY <2>17, <2>1, SummaryEdits DEF RemoveFails
  <2>18. CASE Heartbeat(p)
    BY <2>18, <2>1, SummaryEdits DEF Heartbeat
  <2>19. CASE HeartbeatFails(p)
    BY <2>19, <2>1, SummaryEdits DEF HeartbeatFails
  <2>20. CASE CheckContext(p)
    BY <2>20 DEF CheckContext
  <2>21. CASE DesiredState(p)
    BY <2>21, <2>1, SummaryEdits DEF DesiredState
  <2>22. CASE DesiredStateFails(p)
    BY <2>22, <2>1, SummaryEdits DEF DesiredStateFails
  <2>23. CASE Report(p)
    BY <2>23, <2>1, SummaryEdits DEF Report, Forget
  <2>24. CASE Cancel(p)
    BY <2>24 DEF Cancel
  <2>25. CASE Crash(p)
    BY <2>25, <2>1, SummaryEdits DEF Crash, Forget, Abandon
  <2>26. CASE CoreRegister(p)
    <3>1. PICK c \in Credential : Issue(c) /\ cred' = [cred EXCEPT ![p] = c]
      BY <2>26 DEF CoreRegister
    <3>2. issued' \in 0 .. MaxCredentials /\ current' \in 0 .. issued'
          /\ contacted' \in BOOLEAN
      BY <3>1, IssueType
    <3> QED
      BY <2>26, <3>1, <3>2 DEF CoreRegister
  <2> QED
    BY <1>2, <2>2, <2>3, <2>4, <2>5, <2>6, <2>7, <2>8, <2>9, <2>10, <2>11, <2>12, <2>13, <2>14, <2>15, <2>16, <2>17, <2>18, <2>19, <2>20, <2>21, <2>22, <2>23, <2>24, <2>25, <2>26 DEF Sync
<1>3. CASE CoreRegisterLate
  <2>1. issued' \in 0 .. MaxCredentials /\ current' \in 0 .. issued'
        /\ contacted' \in BOOLEAN
    BY <1>3, IssueType DEF CoreRegisterLate
  <2> QED
    BY <1>3, <2>1 DEF CoreRegisterLate
<1>4. CASE CoreRevoke
  <2>1. current' \in 0 .. issued' /\ grant' \in Enrollment
    BY <1>4 DEF CoreRevoke
  <2> QED
    BY <1>4, <2>1 DEF CoreRevoke
<1>5. CASE Provision
  BY <1>5 DEF Provision
<1>6. CASE Reprovision
  BY <1>6 DEF Reprovision
<1>7. CASE Corrupt
  BY <1>7 DEF Corrupt
<1>8. CASE FlushState
  BY <1>8 DEF FlushState
<1>9. CASE FlushEnrollment
  BY <1>9 DEF FlushEnrollment
<1>10. CASE PowerLoss
  <2>1. FreshSummary \in Summary
    BY DEF Summary, FreshSummary, WarningSource
  <2>2. late' \subseteq Enrollment
    BY <1>10 DEF PowerLoss
  <2> QED
    BY <1>10, <2>1, <2>2 DEF PowerLoss
<1> QED
  BY <1>1, <1>2, <1>3, <1>4, <1>5, <1>6, <1>7, <1>8, <1>9, <1>10 DEF Next, Environment

\* Every state has values of the declared types (all of CoreSync).
THEOREM TypeCorrect == Spec => []TypeOK
<1>1. TypeOK /\ UNCHANGED vars => TypeOK'
  BY TypeNext
<1> QED
  BY TypeInit, TypeNext, PTL DEF Spec

\* The inductive invariant holds before the first invocation.
LEMMA InvInit == Init => IInv
<1> SUFFICES ASSUME Init PROVE IInv
  OBVIOUS
<1>1. TypeOK
  BY TypeInit
<1> QED
  BY <1>1, InvalidAssumption, BoundAssumption
  DEF Init, IInv, CredentialInv, HeldInv, SoleInv, OrderInv, SyncInv, DiskInv, TokenInv,
      GrantInv, Live, Known, Writing, Starting, Holding, Registering, Credential,
      Enrollment, None, At

\* Every step keeps the inductive invariant, when Core is orderly.
LEMMA InvNext == Orderly /\ IInv /\ TypeOK' /\ [Next]_vars => IInv'
<1> SUFFICES ASSUME Orderly, IInv, TypeOK', [Next]_vars PROVE IInv'
  OBVIOUS
<1> USE InvalidAssumption
    DEF IInv, CredentialInv, HeldInv, SoleInv, OrderInv, SyncInv, DiskInv, TokenInv,
        GrantInv, Live, Known, Writing, Starting, Holding, Registering, Sole, Orderly,
        TypeOK, Enrollment, Credential, None, Step, At, Goto, host, core, proc
<1>1. CASE UNCHANGED vars
  BY <1>1 DEF vars
<1>2. ASSUME NEW p \in Invocation,
             Start(p) \/ Sync(p) \/ Cancel(p) \/ Crash(p) \/ CoreRegister(p)
      PROVE  IInv'
  <2>1. CASE Start(p)
    BY <2>1 DEF Start
  <2>2. CASE LoadAbsent(p)
    BY <2>2 DEF LoadAbsent
  <2>3. CASE LoadFails(p)
    BY <2>3 DEF LoadFails
  <2>4. CASE LoadState(p)
    BY <2>4 DEF LoadState
  <2>5. CASE SendRegistration(p)
    BY <2>5 DEF SendRegistration
  <2>6. CASE NothingToSend(p)
    BY <2>6 DEF NothingToSend, RegistrationFails
  <2>7. CASE ReceiveCredential(p)
    BY <2>7 DEF ReceiveCredential
  <2>8. CASE RegistrationLost(p)
    BY <2>8 DEF RegistrationLost, RegistrationFails, Abandon
  <2>9. CASE CreateTemp(p)
    BY <2>9 DEF CreateTemp
  <2>10. CASE CreateTempFails(p)
    BY <2>10 DEF CreateTempFails, RegistrationFails
  <2>11. CASE SyncTemp(p)
    BY <2>11 DEF SyncTemp
  <2>12. CASE WriteFails(p)
    BY <2>12 DEF WriteFails
  <2>13. CASE RenameTemp(p)
    <3>1. cred[p] \in Credential /\ Live(cred[p]) /\ temp[p] = "synced"
      BY <2>13 DEF RenameTemp
    <3>2. durState # cred[p] => durState \in {None, Invalid}
      BY <2>13, <3>1 DEF RenameTemp
    <3>3. CredentialInv' /\ HeldInv'
      BY <2>13, <3>1 DEF RenameTemp
    <3>4. SoleInv'
      BY <2>13 DEF RenameTemp
    <3>5. OrderInv'
      <4>1. stateSynced'
        BY <2>13, <3>1, Zenon DEF RenameTemp
      <4> QED
        BY <2>13, <3>1, <4>1 DEF RenameTemp
    <3>6. DiskInv'
      BY <2>13, <3>1, <3>2 DEF RenameTemp
    <3>7. TokenInv' /\ GrantInv'
      BY <2>13, <3>1 DEF RenameTemp
    <3> QED
      BY <3>3, <3>4, <3>5, <3>6, <3>7
  <2>14. CASE CleanUp(p)
    BY <2>14 DEF CleanUp, RegistrationFails
  <2>15. CASE RemoveToken(p)
    BY <2>15 DEF RemoveToken
  <2>16. CASE RemoveFails(p)
    BY <2>16 DEF RemoveFails
  <2>17. CASE Heartbeat(p)
    BY <2>17 DEF Heartbeat
  <2>18. CASE HeartbeatFails(p)
    BY <2>18 DEF HeartbeatFails
  <2>19. CASE CheckContext(p)
    BY <2>19 DEF CheckContext
  <2>20. CASE DesiredState(p)
    BY <2>20 DEF DesiredState
  <2>21. CASE DesiredStateFails(p)
    BY <2>21 DEF DesiredStateFails
  <2>22. CASE Report(p)
    BY <2>22 DEF Report, Forget
  <2>23. CASE Cancel(p)
    BY <2>23 DEF Cancel
  <2>24. CASE Crash(p)
    BY <2>24 DEF Crash, Forget, Abandon
  <2>25. CASE CoreRegister(p)
    BY <2>25 DEF CoreRegister, Issue
  <2> QED
    BY <1>2, <2>1, <2>2, <2>3, <2>4, <2>5, <2>6, <2>7, <2>8, <2>9, <2>10, <2>11, <2>12, <2>13, <2>14, <2>15, <2>16, <2>17, <2>18, <2>19, <2>20, <2>21, <2>22, <2>23, <2>24, <2>25 DEF Sync
<1>3. CASE CoreRegisterLate
  BY <1>3 DEF CoreRegisterLate, Issue
<1>4. CASE CoreRevoke
  BY <1>4 DEF CoreRevoke
<1>5. CASE Provision
  BY <1>5 DEF Provision
<1>6. CASE Reprovision
  BY <1>6 DEF Reprovision, AllIdle
<1>7. CASE Corrupt
  BY <1>7 DEF Corrupt
<1>8. CASE FlushState
  BY <1>8 DEF FlushState
<1>9. CASE FlushEnrollment
  BY <1>9 DEF FlushEnrollment
<1>10. CASE PowerLoss
  BY <1>10 DEF PowerLoss
<1> QED
  BY <1>1, <1>2, <1>3, <1>4, <1>5, <1>6, <1>7, <1>8, <1>9, <1>10 DEF Next, Environment

\* The strengthened invariant. NeverStranded alone is not inductive: whether a
\* rename or a removal is safe depends on what the processes, the disk and Core
\* have under way.
THEOREM Invariance ==
  ASSUME Orderly
  PROVE  Spec => []IInv
<1>1. IInv /\ [Next]_vars => IInv'
  BY InvNext, TypeNext DEF IInv
<1> QED
  BY InvInit, <1>1, PTL DEF Spec

\* The inductive invariant implies both forms of the safety property.
LEMMA InvSafe == IInv => NeverStranded /\ NeverStrandedOnDisk
  BY DEF IInv, TypeOK, CredentialInv, TokenInv, Live, Known, NeverStranded,
         NeverStrandedOnDisk, Credential, None

\* The node Core knows can always speak to it again (sync.go 114-135, 211-237).
THEOREM Safety ==
  ASSUME Orderly
  PROVE  Spec => []NeverStranded
  BY Invariance, InvSafe, PTL

\* And so it can after a power loss.
THEOREM DiskSafety ==
  ASSUME Orderly
  PROVE  Spec => []NeverStrandedOnDisk
  BY Invariance, InvSafe, PTL

-----------------------------------------------------------------------------
(* Action properties.                                                      *)

\* A run changes state.json by its rename alone.
LEMMA RunWriters ==
  ASSUME NEW p \in Invocation, stateFile' # stateFile,
         Start(p) \/ Sync(p) \/ Cancel(p) \/ Crash(p) \/ CoreRegister(p)
  PROVE  RenameTemp(p)
  BY DEF Start, Sync, Cancel, Crash, CoreRegister, LoadAbsent, LoadFails,
         LoadState, SendRegistration, NothingToSend, ReceiveCredential,
         RegistrationLost, CreateTemp, CreateTempFails, SyncTemp, WriteFails,
         CleanUp, RemoveToken, RemoveFails, Heartbeat, HeartbeatFails,
         CheckContext, DesiredState, DesiredStateFails, Report, host

\* The only steps that change state.json.
LEMMA StateFileWriters ==
  ASSUME [Next]_vars, stateFile' # stateFile
  PROVE  \/ \E p \in Invocation : RenameTemp(p)
         \/ Reprovision \/ Corrupt \/ PowerLoss
<1>1. Environment => Reprovision \/ Corrupt \/ PowerLoss
  BY DEF Environment, CoreRegisterLate, CoreRevoke, Provision, FlushState,
         FlushEnrollment, host
<1> QED
  BY <1>1, RunWriters DEF Next, vars

\* The only steps that change what is on the disk in the place of state.json.
LEMMA DiskStateWriters ==
  ASSUME [Next]_vars, durState' # durState
  PROVE  Reprovision \/ Corrupt \/ FlushState
<1>1. \A p \in Invocation :
        ~(Start(p) \/ Sync(p) \/ Cancel(p) \/ Crash(p) \/ CoreRegister(p))
  BY DEF Start, Sync, Cancel, Crash, CoreRegister, LoadAbsent, LoadFails,
         LoadState, SendRegistration, NothingToSend, ReceiveCredential,
         RegistrationLost, CreateTemp, CreateTempFails, SyncTemp, WriteFails,
         RenameTemp, CleanUp, RemoveToken, RemoveFails, Heartbeat,
         HeartbeatFails, CheckContext, DesiredState, DesiredStateFails, Report,
         host
<1>2. Environment => Reprovision \/ Corrupt \/ FlushState
  BY DEF Environment, CoreRegisterLate, CoreRevoke, Provision, FlushEnrollment,
         PowerLoss, host
<1> QED
  BY <1>1, <1>2 DEF Next, vars

\* A file is synced before it is renamed, whatever Core, the other processes
\* and the faults do.
LEMMA SyncStep == TypeOK /\ SyncInv /\ [Next]_vars => SyncInv'
<1> SUFFICES ASSUME TypeOK, SyncInv, [Next]_vars PROVE SyncInv'
  OBVIOUS
<1> USE DEF TypeOK, SyncInv, Step, At, Goto, host, core, proc
<1>1. CASE UNCHANGED vars
  BY <1>1 DEF vars
<1>2. ASSUME NEW p \in Invocation, RenameTemp(p)
      PROVE  SyncInv'
  <2>1. temp[p] = "synced"
    BY <1>2 DEF RenameTemp
  <2>2. stateSynced'
    BY <1>2, <2>1, Zenon DEF RenameTemp
  <2> QED
    BY <1>2, <2>2 DEF RenameTemp
<1>3. ASSUME NEW p \in Invocation,
             Start(p) \/ Sync(p) \/ Cancel(p) \/ Crash(p) \/ CoreRegister(p)
      PROVE  RenameTemp(p) \/ SyncInv'
  BY <1>3
  DEF Start, Sync, Cancel, Crash, CoreRegister, LoadAbsent, LoadFails,
      LoadState, SendRegistration, NothingToSend, ReceiveCredential,
      RegistrationLost, RegistrationFails, CreateTemp, CreateTempFails, SyncTemp,
      WriteFails, CleanUp, RemoveToken, RemoveFails, Heartbeat, HeartbeatFails,
      CheckContext, DesiredState, DesiredStateFails, Report, Forget
<1>4. CASE Environment
  BY <1>4
  DEF Environment, CoreRegisterLate, CoreRevoke, Provision, Reprovision,
      Corrupt, FlushState, FlushEnrollment, PowerLoss
<1> QED
  BY <1>1, <1>2, <1>3, <1>4 DEF Next

\* No step but an outside hand leaves an invalid state file on the disk.
LEMMA TornStep ==
  ASSUME SyncInv, [Next]_vars, durState' = Invalid, durState # Invalid
  PROVE  stateFile' = Invalid
<1>1. CASE Reprovision
  BY <1>1, InvalidAssumption DEF Reprovision, None
<1>2. CASE Corrupt
  BY <1>2 DEF Corrupt
<1>3. CASE FlushState
  BY <1>3 DEF FlushState, SyncInv
<1> QED
  BY <1>1, <1>2, <1>3, DiskStateWriters

\* The only steps after which a process no longer has the credential it had.
LEMMA CredentialLosers ==
  ASSUME TypeOK, [Next]_vars, NEW q \in Invocation, cred[q] # None,
         cred'[q] = None
  PROVE  \/ NothingToSend(q) \/ RegistrationLost(q)
         \/ CreateTempFails(q) \/ CleanUp(q)
         \/ Report(q) \/ Crash(q) \/ PowerLoss
<1> USE DEF TypeOK, None, core, proc
<1>1. ASSUME NEW p \in Invocation,
             Start(p) \/ Sync(p) \/ Cancel(p) \/ Crash(p) \/ CoreRegister(p)
      PROVE  \/ NothingToSend(q) \/ RegistrationLost(q)
             \/ CreateTempFails(q) \/ CleanUp(q) \/ Report(q) \/ Crash(q)
  <2>1. CASE NothingToSend(p) \/ RegistrationLost(p) \/ CreateTempFails(p)
             \/ CleanUp(p) \/ Report(p) \/ Crash(p)
    BY <2>1 DEF NothingToSend, RegistrationLost, CreateTempFails, CleanUp,
                Report, Crash, RegistrationFails, Forget
  <2>2. CASE LoadState(p)
    BY <2>2 DEF LoadState, Credential
  <2>3. CASE CoreRegister(p)
    BY <2>3 DEF CoreRegister, Credential
  <2>4. CASE Start(p) \/ LoadAbsent(p) \/ LoadFails(p) \/ SendRegistration(p)
             \/ ReceiveCredential(p) \/ CreateTemp(p) \/ SyncTemp(p)
             \/ WriteFails(p) \/ RenameTemp(p) \/ RemoveToken(p)
             \/ RemoveFails(p) \/ Heartbeat(p) \/ HeartbeatFails(p)
             \/ CheckContext(p) \/ DesiredState(p) \/ DesiredStateFails(p)
             \/ Cancel(p)
    BY <2>4 DEF Start, LoadAbsent, LoadFails, SendRegistration,
                ReceiveCredential, CreateTemp, SyncTemp, WriteFails, RenameTemp,
                RemoveToken, RemoveFails, Heartbeat, HeartbeatFails,
                CheckContext, DesiredState, DesiredStateFails, Cancel
  <2> QED
    BY <1>1, <2>1, <2>2, <2>3, <2>4 DEF Sync
<1>2. Environment => PowerLoss
  BY DEF Environment, CoreRegisterLate, CoreRevoke, Provision, Reprovision,
         Corrupt, FlushState, FlushEnrollment
<1> QED
  BY <1>1, <1>2 DEF Next, vars

\* What a power loss leaves is invalid by an outside hand only, whatever Core and
\* other invocations do (sync.go 371-384).
THEOREM Integrity == Spec => NeverTorn
<1>1. Init => SyncInv
  BY DEF Init, SyncInv, At
<1>2. TypeOK /\ SyncInv /\ [Next]_vars => SyncInv'
  BY SyncStep
<1>3. SyncInv /\ [Next]_vars =>
        [durState' = Invalid /\ durState # Invalid => stateFile' = Invalid]_vars
  BY TornStep
<1> QED
  BY <1>1, <1>2, <1>3, TypeCorrect, PTL DEF Spec, NeverTorn

-----------------------------------------------------------------------------
(* Refinement.                                                             *)

\* Every step of one invocation is a step of NodeIdentity or leaves it alone.
LEMMA IdentityStep ==
  ASSUME Sole
  PROVE  IInv /\ IInv' /\ [Next]_vars => [Identity!Next]_(Identity!vars)
<1> SUFFICES ASSUME IInv, IInv', [Next]_vars PROVE [Identity!Next]_(Identity!vars)
  OBVIOUS
<1> USE InvalidAssumption
    DEF Identity!Next, Identity!vars, Identity!None, Identity!Credential,
        Identity!Enrollment, IInv, TypeOK, CredentialInv, SoleInv, OrderInv,
        SyncInv, DiskInv, TokenInv, GrantInv,
        Live, Known, Writing, Registering, Credential, Enrollment, None, At, Goto, host, core, proc
<1>1. CASE UNCHANGED vars
  BY <1>1 DEF vars
<1>2. ASSUME NEW p \in Invocation,
             Start(p) \/ Sync(p) \/ Cancel(p) \/ Crash(p) \/ CoreRegister(p)
      PROVE  [Identity!Next]_(Identity!vars)
  <2>1. CASE Start(p)
    BY <2>1 DEF Start
  <2>2. CASE LoadAbsent(p)
    BY <2>2 DEF LoadAbsent
  <2>3. CASE LoadFails(p)
    BY <2>3 DEF LoadFails
  <2>4. CASE LoadState(p)
    BY <2>4 DEF LoadState
  <2>5. CASE SendRegistration(p)
    BY <2>5 DEF SendRegistration
  <2>6. CASE NothingToSend(p)
    BY <2>6 DEF NothingToSend, RegistrationFails
  <2>7. CASE ReceiveCredential(p)
    BY <2>7 DEF ReceiveCredential
  <2>8. CASE RegistrationLost(p)
    BY <2>8 DEF RegistrationLost, RegistrationFails
  <2>9. CASE CreateTemp(p)
    BY <2>9 DEF CreateTemp
  <2>10. CASE CreateTempFails(p)
    BY <2>10 DEF CreateTempFails, RegistrationFails
  <2>11. CASE SyncTemp(p)
    BY <2>11 DEF SyncTemp
  <2>12. CASE WriteFails(p)
    BY <2>12 DEF WriteFails
  <2>13. CASE RenameTemp(p)
    <3>1. stateFile = None /\ cred[p] \in Credential /\ Live(cred[p])
      BY <2>13 DEF RenameTemp
    <3>2. stateFile' = cred[p] /\ UNCHANGED <<current, grant, enrollment>>
      BY <2>13 DEF RenameTemp
    <3>3. Identity!Adopt
      BY <3>1, <3>2 DEF Identity!Adopt
    <3> QED
      BY <3>3
  <2>14. CASE CleanUp(p)
    BY <2>14 DEF CleanUp, RegistrationFails
  <2>15. CASE RemoveToken(p)
    BY <2>15 DEF RemoveToken, Identity!Discard
  <2>16. CASE RemoveFails(p)
    BY <2>16 DEF RemoveFails
  <2>17. CASE Heartbeat(p)
    BY <2>17 DEF Heartbeat
  <2>18. CASE HeartbeatFails(p)
    BY <2>18 DEF HeartbeatFails
  <2>19. CASE CheckContext(p)
    BY <2>19 DEF CheckContext
  <2>20. CASE DesiredState(p)
    BY <2>20 DEF DesiredState
  <2>21. CASE DesiredStateFails(p)
    BY <2>21 DEF DesiredStateFails
  <2>22. CASE Report(p)
    BY <2>22 DEF Report, Forget
  <2>23. CASE Cancel(p)
    BY <2>23 DEF Cancel
  <2>24. CASE Crash(p)
    BY <2>24 DEF Crash, Forget
  <2>25. CASE CoreRegister(p)
    BY <2>25 DEF CoreRegister, Issue, Identity!Issue
  <2> QED
    BY <1>2, <2>1, <2>2, <2>3, <2>4, <2>5, <2>6, <2>7, <2>8, <2>9, <2>10,
       <2>11, <2>12, <2>13, <2>14, <2>15, <2>16, <2>17, <2>18, <2>19, <2>20,
       <2>21, <2>22, <2>23, <2>24, <2>25 DEF Sync
<1>3. CASE CoreRegisterLate
  BY <1>3 DEF CoreRegisterLate, Issue, Identity!Issue
<1>4. CASE CoreRevoke
  BY <1>4 DEF CoreRevoke, Identity!Revoke
<1>5. CASE Provision
  BY <1>5 DEF Provision, Identity!Enroll
<1>6. CASE Reprovision
  BY <1>6 DEF Reprovision, AllIdle, Identity!Enroll
<1>7. CASE Corrupt
  BY <1>7 DEF Corrupt, Identity!Spoil
<1>8. CASE FlushState
  BY <1>8 DEF FlushState
<1>9. CASE FlushEnrollment
  BY <1>9 DEF FlushEnrollment
<1>10. CASE PowerLoss
  BY <1>10 DEF PowerLoss, Identity!Undo
<1> QED
  BY <1>1, <1>2, <1>3, <1>4, <1>5, <1>6, <1>7, <1>8, <1>9, <1>10 DEF Next,
     Environment

\* One invocation at a time keeps the promise of NodeIdentity.
THEOREM Refinement ==
  ASSUME Sole, Orderly
  PROVE  Spec => KeepsIdentity
<1>1. Init => Identity!Init
  BY DEF Init, Identity!Init, Identity!None, None
<1>2. IInv /\ IInv' /\ [Next]_vars => [Identity!Next]_(Identity!vars)
  BY IdentityStep
<1> QED
  BY Invariance, <1>1, <1>2, PTL DEF Spec, KeepsIdentity, Identity!Spec

-----------------------------------------------------------------------------
(* The report of a run.                                                    *)

\* The result register works under: attempted, and failed until it succeeds.
FailingSummary ==
  [FreshSummary EXCEPT !.attempted = TRUE, !.registration = "failed"]

Registered == {"remove", "heartbeat", "context", "desired"}

\* The result of a node that is registered, up to its heartbeat.
SpeakingSummary(s) ==
  /\ s.registered
  /\ \/ s.registration = "succeeded" /\ s.attempted
     \/ s.registration = "not_needed" /\ ~s.attempted
  /\ s.desired = "skipped"
  /\ s.warnings \subseteq {"core.enrollment", "core.heartbeat"}
  /\ "core.enrollment" \in s.warnings => s.registration = "succeeded"
  /\ s.heartbeat = "failed" <=> "core.heartbeat" \in s.warnings

\* What the result is at each step of Sync, and whether there is a credential.
Progress(p) ==
  /\ pc[p] \in {"idle", "load"} => summary[p] = FreshSummary
  /\ pc[p] \in Registering \cup {"cleanup"} => summary[p] = FailingSummary
  /\ pc[p] \in Starting => cred[p] = None
  /\ pc[p] \in Writing \cup {"cleanup"} \cup Registered => cred[p] # None
  /\ pc[p] \in Registered => SpeakingSummary(summary[p])
  /\ pc[p] = "remove" => summary[p].registration = "succeeded"
  /\ pc[p] \in {"remove", "heartbeat"} => summary[p].heartbeat = "skipped"
  /\ pc[p] \in {"context", "desired"} => summary[p].heartbeat # "skipped"
  /\ pc[p] = "report" => /\ Coherent(summary[p], cancelled[p])
                         /\ summary[p].registered <=> cred[p] # None

ProgressInv == \A p \in Invocation : Progress(p)

\* No run has begun.
LEMMA ProgressInit == Init => ProgressInv
  BY DEF Init, ProgressInv, Progress, Registering, Writing, Registered, Starting,
         FreshSummary, None

\* The steps of one invocation leave the others where they are.
LEMMA OthersKept ==
  ASSUME TypeOK, NEW p \in Invocation, NEW q \in Invocation \ {p},
         Start(p) \/ Sync(p) \/ Cancel(p) \/ Crash(p) \/ CoreRegister(p)
  PROVE  /\ pc'[q] = pc[q] /\ cred'[q] = cred[q] /\ tok'[q] = tok[q]
         /\ summary'[q] = summary[q] /\ cancelled'[q] = cancelled[q]
<1> USE DEF TypeOK, Goto, Forget, RegistrationFails, host, core, proc
<1>1. CASE Start(p) \/ Cancel(p) \/ Crash(p) \/ CoreRegister(p)
  BY <1>1 DEF Start, Cancel, Crash, CoreRegister
<1>2. CASE LoadAbsent(p) \/ LoadFails(p) \/ LoadState(p) \/ SendRegistration(p)
           \/ NothingToSend(p) \/ ReceiveCredential(p) \/ RegistrationLost(p)
  BY <1>2 DEF LoadAbsent, LoadFails, LoadState, SendRegistration, NothingToSend,
     ReceiveCredential, RegistrationLost
<1>3. CASE CreateTemp(p) \/ CreateTempFails(p) \/ SyncTemp(p) \/ WriteFails(p)
           \/ RenameTemp(p) \/ CleanUp(p) \/ RemoveToken(p) \/ RemoveFails(p)
  BY <1>3 DEF CreateTemp, CreateTempFails, SyncTemp, WriteFails, RenameTemp,
     CleanUp, RemoveToken, RemoveFails
<1>4. CASE Heartbeat(p) \/ HeartbeatFails(p) \/ CheckContext(p)
           \/ DesiredState(p) \/ DesiredStateFails(p) \/ Report(p)
  BY <1>4 DEF Heartbeat, HeartbeatFails, CheckContext, DesiredState,
     DesiredStateFails, Report
<1> QED
  BY <1>1, <1>2, <1>3, <1>4 DEF Sync

\* Every step of a run brings its result on, and its report is coherent.
LEMMA ProgressOwn ==
  ASSUME TypeOK, NEW p \in Invocation, Progress(p),
         Start(p) \/ Sync(p) \/ Cancel(p) \/ Crash(p) \/ CoreRegister(p)
  PROVE  Progress(p)'
<1>1. /\ summary[p] \in Summary /\ cred[p] \in Credential \cup {None}
      /\ cancelled[p] \in BOOLEAN
  BY DEF TypeOK
<1> USE DEF TypeOK, Progress, Registering, Writing, Registered, Starting, At, Goto,
            host, core, proc
<1>2. CASE Start(p)
  BY <1>2 DEF Start
<1>3. CASE LoadAbsent(p)
  BY <1>3 DEF LoadAbsent, FailingSummary
<1>4. CASE LoadFails(p)
  BY <1>4 DEF LoadFails, FreshSummary, Warned, Coherent
<1>5. CASE LoadState(p)
  BY <1>5 DEF LoadState, FreshSummary, SpeakingSummary, Credential, None
<1>6. CASE SendRegistration(p) \/ ReceiveCredential(p) \/ CreateTemp(p)
           \/ SyncTemp(p) \/ WriteFails(p) \/ RemoveToken(p)
  BY <1>6 DEF SendRegistration, ReceiveCredential, CreateTemp, SyncTemp,
     WriteFails, RemoveToken
<1>7. CASE NothingToSend(p) \/ RegistrationLost(p) \/ CreateTempFails(p)
           \/ CleanUp(p)
  <2>1. /\ pc'[p] = "report" /\ cred'[p] = None
        /\ summary'[p] = Warned([summary[p] EXCEPT !.registration = "failed"],
                                "core.registration")
    BY <1>7 DEF NothingToSend, RegistrationLost, CreateTempFails, CleanUp,
       RegistrationFails
  <2>2. summary[p] = FailingSummary
    BY <1>7 DEF NothingToSend, RegistrationLost, CreateTempFails, CleanUp
  <2> QED
    BY <2>1, <2>2 DEF FailingSummary, FreshSummary, Warned, Coherent
<1>8. CASE RenameTemp(p)
  BY <1>8 DEF RenameTemp, FailingSummary, FreshSummary, SpeakingSummary
<1>9. CASE RemoveFails(p)
  BY <1>1, <1>9 DEF RemoveFails, SpeakingSummary, Warned, Summary
<1>10. CASE Heartbeat(p)
  BY <1>1, <1>10 DEF Heartbeat, SpeakingSummary, Summary
<1>11. CASE HeartbeatFails(p)
  BY <1>1, <1>11 DEF HeartbeatFails, SpeakingSummary, Warned, Summary
<1>12. CASE CheckContext(p)
  BY <1>1, <1>12 DEF CheckContext, SpeakingSummary, Coherent, Summary
<1>13. CASE DesiredState(p)
  BY <1>1, <1>13 DEF DesiredState, SpeakingSummary, Coherent, Summary
<1>14. CASE DesiredStateFails(p)
  BY <1>1, <1>14 DEF DesiredStateFails, SpeakingSummary, Warned, Coherent, Summary
<1>15. CASE Report(p) \/ Crash(p)
  BY <1>15 DEF Report, Crash, Forget
<1>16. CASE Cancel(p)
  BY <1>1, <1>16 DEF Cancel, Coherent
<1>17. CASE CoreRegister(p)
  BY <1>17 DEF CoreRegister, Credential, None
<1> QED
  BY <1>2, <1>3, <1>4, <1>5, <1>6, <1>7, <1>8, <1>9, <1>10, <1>11, <1>12, <1>13,
     <1>14, <1>15, <1>16, <1>17 DEF Sync

\* Nothing outside the runs changes what they report.
LEMMA ProgressStep == TypeOK /\ ProgressInv /\ [Next]_vars => ProgressInv'
<1> SUFFICES ASSUME TypeOK, ProgressInv, [Next]_vars PROVE ProgressInv'
  OBVIOUS
<1>1. ASSUME NEW p \in Invocation,
             Start(p) \/ Sync(p) \/ Cancel(p) \/ Crash(p) \/ CoreRegister(p)
      PROVE  ProgressInv'
  <2>1. Progress(p)'
    BY <1>1, ProgressOwn DEF ProgressInv
  <2>2. ASSUME NEW q \in Invocation \ {p} PROVE Progress(q)'
    BY <1>1, OthersKept DEF ProgressInv, Progress
  <2> QED
    BY <2>1, <2>2 DEF ProgressInv
<1>2. CASE PowerLoss
  BY <1>2 DEF PowerLoss, ProgressInv, Progress, Registering, Writing, Registered,
     Starting
<1>3. CASE UNCHANGED proc
  BY <1>3 DEF proc, ProgressInv, Progress
<1>4. Environment \/ UNCHANGED vars => PowerLoss \/ UNCHANGED proc
  BY DEF Environment, CoreRegisterLate, CoreRevoke, Provision, Reprovision,
     Corrupt, FlushState, FlushEnrollment, vars, proc
<1> QED
  BY <1>1, <1>2, <1>3, <1>4 DEF Next

\* What a run reports is coherent, whatever was cancelled, whichever step failed
\* and whatever other runs and Core do (sync.go 98-160).
THEOREM Coherence == Spec => []SummaryCoherent
<1>1. ProgressInv => SummaryCoherent
  BY DEF ProgressInv, Progress, SummaryCoherent, At
<1> QED
  BY ProgressInit, ProgressStep, TypeCorrect, <1>1, PTL DEF Spec

-----------------------------------------------------------------------------
(* The temporary file.                                                     *)

\* A temporary file is left behind by a process that is gone, or by a removal
\* that failed.
LEMMA LitterStep ==
  ASSUME TypeOK, [Next]_vars, litter', ~litter, "remove" \notin Faults
  PROVE  \E p \in Invocation : temp[p] # "none" /\ pc'[p] = "idle"
<1>1. ASSUME NEW p \in Invocation,
             Start(p) \/ Sync(p) \/ Cancel(p) \/ Crash(p) \/ CoreRegister(p)
      PROVE  Crash(p)
  BY <1>1
  DEF Start, Sync, Cancel, CoreRegister, LoadAbsent, LoadFails, LoadState,
      SendRegistration, NothingToSend, ReceiveCredential, RegistrationLost,
      CreateTemp, CreateTempFails, SyncTemp, WriteFails, RenameTemp, CleanUp,
      RemoveToken, RemoveFails, Heartbeat, HeartbeatFails, CheckContext,
      DesiredState, DesiredStateFails, Report, host
<1>2. ASSUME NEW p \in Invocation, Crash(p)
      PROVE  temp[p] # "none" /\ pc'[p] = "idle"
  BY <1>2 DEF Crash, Forget, Goto, TypeOK
<1>3. CASE Environment
  <2>1. PowerLoss
    BY <1>3 DEF Environment, CoreRegisterLate, CoreRevoke, Provision,
       Reprovision, Corrupt, FlushState, FlushEnrollment, host
  <2> QED
    BY <2>1 DEF PowerLoss
<1> QED
  BY <1>1, <1>2, <1>3 DEF Next, vars

\* No .state-* file outlives its writer, whichever step of the write fails,
\* unless the writer was killed or the removal itself failed (sync.go 362-367).
THEOREM Tidiness == Spec => NoLitter
<1>1. TypeOK /\ [Next]_vars =>
        [litter' /\ ~litter /\ "remove" \notin Faults =>
           \E p \in Invocation : temp[p] # "none" /\ pc'[p] = "idle"]_vars
  BY LitterStep
<1> QED
  BY <1>1, TypeCorrect, PTL DEF Spec, NoLitter
-----------------------------------------------------------------------------
(* The state file under a single invocation, whatever Core does.           *)

\* Who registers has found no state, and what is invalid is invalid on the disk.
FirstInv ==
  /\ \A p \in Invocation : pc[p] \in Registering => stateFile = None
  /\ stateFile = Invalid => durState = Invalid

\* What a run renames is a credential.
LEMMA RenamedCredential ==
  ASSUME TypeOK, ProgressInv, NEW p \in Invocation, RenameTemp(p)
  PROVE  stateFile' \in Credential
  BY DEF TypeOK, ProgressInv, Progress, Writing, RenameTemp, At, None, Credential

LEMMA FirstStep ==
  ASSUME Sole, TypeOK, ProgressInv, FirstInv, [Next]_vars
  PROVE  FirstInv'
<1> USE InvalidAssumption
    DEF Sole, TypeOK, FirstInv, Registering, Credential, None, At, Goto, host, core, proc
<1>1. ASSUME NEW p \in Invocation,
             Start(p) \/ Sync(p) \/ Cancel(p) \/ Crash(p) \/ CoreRegister(p)
      PROVE  FirstInv'
  <2>1. CASE RenameTemp(p)
    <3>1. stateFile' # Invalid
      BY <2>1, RenamedCredential
    <3>2. \A q \in Invocation : pc'[q] = "remove"
      BY <2>1 DEF RenameTemp
    <3> QED
      BY <3>1, <3>2
  <2>2. CASE Start(p) \/ Cancel(p) \/ Crash(p) \/ CoreRegister(p)
    BY <2>2 DEF Start, Cancel, Crash, CoreRegister, Forget
  <2>3. CASE LoadAbsent(p) \/ LoadFails(p) \/ LoadState(p) \/ SendRegistration(p)
             \/ NothingToSend(p) \/ ReceiveCredential(p) \/ RegistrationLost(p)
    BY <2>3 DEF LoadAbsent, LoadFails, LoadState, SendRegistration, NothingToSend,
       ReceiveCredential, RegistrationLost, RegistrationFails
  <2>4. CASE CreateTemp(p) \/ CreateTempFails(p) \/ SyncTemp(p) \/ WriteFails(p)
             \/ CleanUp(p) \/ RemoveToken(p) \/ RemoveFails(p)
    BY <2>4 DEF CreateTemp, CreateTempFails, SyncTemp, WriteFails, CleanUp,
       RemoveToken, RemoveFails, RegistrationFails
  <2>5. CASE Heartbeat(p) \/ HeartbeatFails(p) \/ CheckContext(p)
             \/ DesiredState(p) \/ DesiredStateFails(p) \/ Report(p)
    BY <2>5 DEF Heartbeat, HeartbeatFails, CheckContext, DesiredState,
       DesiredStateFails, Report, Forget
  <2> QED
    BY <1>1, <2>1, <2>2, <2>3, <2>4, <2>5 DEF Sync
<1>2. CASE Environment
  BY <1>2 DEF Environment, CoreRegisterLate, CoreRevoke, Provision, Reprovision,
     Corrupt, FlushState, FlushEnrollment, PowerLoss
<1>3. CASE UNCHANGED vars
  BY <1>3 DEF vars
<1> QED
  BY <1>1, <1>2, <1>3 DEF Next

\* FirstInv holds from the start.
LEMMA First == ASSUME Sole PROVE Spec => [](TypeOK /\ ProgressInv /\ FirstInv)
<1>1. Init => FirstInv
  BY InvalidAssumption DEF Init, FirstInv, Registering, None
<1>2. TypeOK /\ ProgressInv /\ FirstInv /\ [Next]_vars => FirstInv'
  BY FirstStep
<1> QED
  BY <1>1, <1>2, ProgressInit, ProgressStep, TypeCorrect, PTL DEF Spec

\* No step but the documented recovery replaces an invalid state file.
LEMMA RetainedStep ==
  ASSUME TypeOK, FirstInv, [Next]_vars, stateFile = Invalid
  PROVE  stateFile' = Invalid \/ Reprovision
<1> USE InvalidAssumption DEF FirstInv, Registering, Credential, None
<1>1. CASE \E p \in Invocation : RenameTemp(p)
  BY <1>1 DEF RenameTemp, At
<1>2. CASE Corrupt
  BY <1>2 DEF Corrupt
<1>3. CASE PowerLoss
  BY <1>3 DEF PowerLoss
<1> QED
  BY <1>1, <1>2, <1>3, StateFileWriters

\* No run overwrites or removes an invalid state, whatever Core answers and
\* forgets (docs/DEPLOYMENT.md 111).
THEOREM Retention ==
  ASSUME Sole
  PROVE  Spec => InvalidStateRetained
<1>1. TypeOK /\ FirstInv /\ [Next]_vars =>
        [stateFile = Invalid => stateFile' = Invalid \/ Reprovision]_vars
  BY RetainedStep
<1> QED
  BY First, <1>1, PTL DEF Spec, InvalidStateRetained

\* What a run does to the state of its host: it stores a credential where there
\* is none, once, and takes nothing away (sync.go 114-135).
FirstIdentity ==
  [][\A p \in Invocation :
       Sync(p) /\ stateFile' # stateFile => stateFile = None /\ stateFile' \in Credential]_vars

\* The run of the agent that PackageLifecycle assumes is the one of CoreSync
\* (sync.go 114-135, 335-384).
THEOREM Storing ==
  ASSUME Sole
  PROVE  Spec => FirstIdentity
<1>1. TypeOK /\ ProgressInv /\ FirstInv /\ [Next]_vars =>
        [\A p \in Invocation :
           Sync(p) /\ stateFile' # stateFile => stateFile = None /\ stateFile' \in Credential]_vars
  <2> SUFFICES ASSUME TypeOK, ProgressInv, FirstInv, NEW p \in Invocation,
                      Sync(p), stateFile' # stateFile
               PROVE  stateFile = None /\ stateFile' \in Credential
    OBVIOUS
  <2>1. RenameTemp(p)
    BY RunWriters
  <2>2. stateFile = None
    BY <2>1 DEF RenameTemp, At, FirstInv, Registering
  <2> QED
    BY <2>1, <2>2, RenamedCredential
<1> QED
  BY First, <1>1, PTL DEF Spec, FirstIdentity

-----------------------------------------------------------------------------
(* The enrollment token under a single invocation.                         *)

Sending == {"wait", "answered", "create", "fsync", "rename", "remove"}

\* The token that was sent is still there, unless Core has replaced it.
SentInv ==
  \A p \in Invocation :
    pc[p] \in Sending =>
      /\ tok[p] \in Enrollment
      /\ tok[p] = grant => enrollment = grant

\* Nobody has a token that was not granted, whatever Core and the runs do.
LEMMA GrantStep == TypeOK /\ GrantInv /\ [Next]_vars => GrantInv'
<1> SUFFICES ASSUME TypeOK, GrantInv, [Next]_vars PROVE GrantInv'
  OBVIOUS
<1> USE InvalidAssumption
    DEF TypeOK, GrantInv, Enrollment, Credential, None, At, Goto, host, core, proc
<1>1. ASSUME NEW p \in Invocation,
             Start(p) \/ Sync(p) \/ Cancel(p) \/ Crash(p) \/ CoreRegister(p)
      PROVE  GrantInv'
  <2>1. CASE SendRegistration(p)
    BY <2>1 DEF SendRegistration
  <2>2. CASE RemoveToken(p)
    BY <2>2 DEF RemoveToken
  <2>3. CASE CoreRegister(p)
    BY <2>3 DEF CoreRegister, Issue
  <2>4. CASE Crash(p)
    BY <2>4 DEF Crash, Forget, Abandon
  <2>5. CASE RegistrationLost(p)
    BY <2>5 DEF RegistrationLost, RegistrationFails, Abandon
  <2>6. CASE Start(p) \/ Cancel(p)
    BY <2>6 DEF Start, Cancel
  <2>10. CASE Report(p)
    BY <2>10 DEF Report, Forget
  <2>7. CASE LoadAbsent(p) \/ LoadFails(p) \/ LoadState(p) \/ NothingToSend(p)
             \/ ReceiveCredential(p)
    BY <2>7 DEF LoadAbsent, LoadFails, LoadState, NothingToSend,
       ReceiveCredential, RegistrationFails
  <2>8. CASE CreateTemp(p) \/ CreateTempFails(p) \/ SyncTemp(p) \/ WriteFails(p)
             \/ RenameTemp(p) \/ CleanUp(p) \/ RemoveFails(p)
    BY <2>8 DEF CreateTemp, CreateTempFails, SyncTemp, WriteFails, RenameTemp,
       CleanUp, RemoveFails, RegistrationFails
  <2>9. CASE Heartbeat(p) \/ HeartbeatFails(p) \/ CheckContext(p)
             \/ DesiredState(p) \/ DesiredStateFails(p)
    BY <2>9 DEF Heartbeat, HeartbeatFails, CheckContext, DesiredState,
       DesiredStateFails
  <2> QED
    BY <1>1, <2>1, <2>2, <2>3, <2>4, <2>5, <2>6, <2>7, <2>8, <2>9, <2>10 DEF Sync
<1>2. CASE Environment
  <2>1. CASE PowerLoss
    BY <2>1 DEF PowerLoss
  <2>2. CASE CoreRegisterLate
    BY <2>2 DEF CoreRegisterLate
  <2>3. CASE CoreRevoke
    BY <2>3 DEF CoreRevoke
  <2>4. CASE Provision
    BY <2>4 DEF Provision
  <2>5. CASE Reprovision
    BY <2>5 DEF Reprovision
  <2>6. CASE Corrupt \/ FlushState \/ FlushEnrollment
    BY <2>6 DEF Corrupt, FlushState, FlushEnrollment
  <2> QED
    BY <1>2, <2>1, <2>2, <2>3, <2>4, <2>5, <2>6 DEF Environment
<1>3. CASE UNCHANGED vars
  BY <1>3 DEF vars
<1> QED
  BY <1>1, <1>2, <1>3 DEF Next

\* GrantInv holds throughout.
LEMMA Granted == Spec => [](TypeOK /\ GrantInv)
<1>1. Init => GrantInv
  BY InvalidAssumption, BoundAssumption DEF Init, GrantInv, Enrollment, None
<1> QED
  BY <1>1, GrantStep, TypeCorrect, PTL DEF Spec

\* Between the request and the removal nobody else takes the token away.
LEMMA SentStep ==
  ASSUME Sole, TypeOK, GrantInv, SentInv, [Next]_vars
  PROVE  SentInv'
<1> USE DEF Sole, TypeOK, SentInv, Sending, GrantInv, Enrollment,
            None, At, Goto, host, core, proc
<1>1. ASSUME NEW p \in Invocation,
             Start(p) \/ Sync(p) \/ Cancel(p) \/ Crash(p) \/ CoreRegister(p)
      PROVE  SentInv'
  <2>1. CASE SendRegistration(p)
    BY <2>1 DEF SendRegistration
  <2>2. CASE RemoveToken(p)
    BY <2>2 DEF RemoveToken
  <2>3. CASE CoreRegister(p)
    BY <2>3 DEF CoreRegister
  <2>4. CASE Start(p) \/ Cancel(p) \/ Crash(p)
    BY <2>4 DEF Start, Cancel, Crash, Forget
  <2>5. CASE LoadAbsent(p) \/ LoadFails(p) \/ LoadState(p) \/ NothingToSend(p)
             \/ ReceiveCredential(p) \/ RegistrationLost(p)
    BY <2>5 DEF LoadAbsent, LoadFails, LoadState, NothingToSend,
       ReceiveCredential, RegistrationLost, RegistrationFails
  <2>6. CASE CreateTemp(p) \/ CreateTempFails(p) \/ SyncTemp(p) \/ WriteFails(p)
             \/ RenameTemp(p) \/ CleanUp(p) \/ RemoveFails(p)
    BY <2>6 DEF CreateTemp, CreateTempFails, SyncTemp, WriteFails, RenameTemp,
       CleanUp, RemoveFails, RegistrationFails
  <2>7. CASE Heartbeat(p) \/ HeartbeatFails(p) \/ CheckContext(p)
             \/ DesiredState(p) \/ DesiredStateFails(p) \/ Report(p)
    BY <2>7 DEF Heartbeat, HeartbeatFails, CheckContext, DesiredState,
       DesiredStateFails, Report, Forget
  <2> QED
    BY <1>1, <2>1, <2>2, <2>3, <2>4, <2>5, <2>6, <2>7 DEF Sync
<1>2. CASE Environment
  BY <1>2 DEF Environment, CoreRegisterLate, CoreRevoke, Provision, Reprovision,
     Corrupt, FlushState, FlushEnrollment, PowerLoss
<1>3. CASE UNCHANGED vars
  BY <1>3 DEF vars
<1> QED
  BY <1>1, <1>2, <1>3 DEF Next

\* A registration is sent only from a host without state, and what is removed
\* was traded in.
LEMMA SpentStep ==
  ASSUME FirstInv, SentInv, [Next]_vars, NEW p \in Invocation
  PROVE  /\ At(p, "register") /\ pc'[p] = "wait" => stateFile = None
         /\ At(p, "remove") /\ enrollment' # enrollment =>
              /\ tok[p] # None
              /\ tok[p] = grant => enrollment = grant
<1>1. At(p, "register") => stateFile = None
  BY DEF FirstInv, Registering, At
<1>2. At(p, "remove") => tok[p] # None /\ (tok[p] = grant => enrollment = grant)
  BY DEF SentInv, Sending, At, Enrollment, None
<1> QED
  BY <1>1, <1>2

\* A run registers no node that has a state, and the one that removes an
\* enrollment token is the one that traded it in (sync.go 115-135).
THEOREM SpentOnce ==
  ASSUME Sole
  PROVE  Spec => TokenSpentOnce
<1>1. Init => SentInv
  BY DEF Init, SentInv, Sending
<1>2. TypeOK /\ GrantInv /\ SentInv /\ [Next]_vars => SentInv'
  BY SentStep
<1>3. FirstInv /\ SentInv /\ [Next]_vars =>
        [\A p \in Invocation :
           /\ At(p, "register") /\ pc'[p] = "wait" => stateFile = None
           /\ At(p, "remove") /\ enrollment' # enrollment =>
                /\ tok[p] # None
                /\ tok[p] = grant => enrollment = grant]_vars
  BY SpentStep
<1> QED
  BY <1>1, <1>2, <1>3, First, Granted, PTL DEF Spec, TokenSpentOnce

-----------------------------------------------------------------------------
(* A received credential.                                                  *)

\* What a process has stored is in its file, and it gives up a write only when
\* the disk has failed.
KeptInv ==
  /\ HeldInv
  /\ \A p \in Invocation : At(p, "cleanup") => "io" \in Faults

LEMMA KeptStep ==
  ASSUME Sole, TypeOK, KeptInv, [Next]_vars
  PROVE  KeptInv'
<1> USE DEF Sole, TypeOK, KeptInv, HeldInv, Starting, Holding, Credential, None, At,
            Goto, host, core, proc
<1>1. ASSUME NEW p \in Invocation,
             Start(p) \/ Sync(p) \/ Cancel(p) \/ Crash(p) \/ CoreRegister(p)
      PROVE  KeptInv'
  <2>1. CASE RenameTemp(p)
    BY <2>1 DEF RenameTemp
  <2>2. CASE LoadState(p)
    BY <2>2 DEF LoadState
  <2>3. CASE CoreRegister(p)
    BY <2>3 DEF CoreRegister
  <2>4. CASE Start(p) \/ Cancel(p) \/ Crash(p)
    BY <2>4 DEF Start, Cancel, Crash, Forget
  <2>5. CASE LoadAbsent(p) \/ LoadFails(p) \/ SendRegistration(p)
             \/ NothingToSend(p) \/ ReceiveCredential(p) \/ RegistrationLost(p)
    BY <2>5 DEF LoadAbsent, LoadFails, SendRegistration, NothingToSend,
       ReceiveCredential, RegistrationLost, RegistrationFails
  <2>6. CASE CreateTemp(p) \/ CreateTempFails(p) \/ SyncTemp(p) \/ WriteFails(p)
             \/ CleanUp(p) \/ RemoveToken(p) \/ RemoveFails(p)
    BY <2>6 DEF CreateTemp, CreateTempFails, SyncTemp, WriteFails, CleanUp,
       RemoveToken, RemoveFails, RegistrationFails
  <2>7. CASE Heartbeat(p) \/ HeartbeatFails(p) \/ CheckContext(p)
             \/ DesiredState(p) \/ DesiredStateFails(p) \/ Report(p)
    BY <2>7 DEF Heartbeat, HeartbeatFails, CheckContext, DesiredState,
       DesiredStateFails, Report, Forget
  <2> QED
    BY <1>1, <2>1, <2>2, <2>3, <2>4, <2>5, <2>6, <2>7 DEF Sync
<1>2. CASE Environment
  <2>1. CASE PowerLoss
    BY <2>1 DEF PowerLoss
  <2>2. CASE Provision \/ Reprovision
    BY <2>2 DEF Provision, Reprovision, AllIdle
  <2>3. CASE Corrupt \/ FlushState \/ FlushEnrollment
    BY <2>3 DEF Corrupt, FlushState, FlushEnrollment
  <2>4. CASE CoreRegisterLate \/ CoreRevoke
    BY <2>4 DEF CoreRegisterLate, CoreRevoke
  <2> QED
    BY <1>2, <2>1, <2>2, <2>3, <2>4 DEF Environment
<1>3. CASE UNCHANGED vars
  BY <1>3 DEF vars
<1> QED
  BY <1>1, <1>2, <1>3 DEF Next

\* No step lets a run report before the credential it received is on the disk.
LEMMA ReachesDiskStep ==
  ASSUME TypeOK, KeptInv, KeptInv', [Next]_vars, NEW q \in Invocation
  PROVE  CredentialKept(q)
<1>1. pc'[q] = "report" /\ cred'[q] # None =>
        stateFile' \in {cred'[q], Invalid}
  BY DEF KeptInv, HeldInv, Holding
<1>2. ASSUME pc[q] \notin {"report", "answered"}, pc'[q] = "report",
             cred[q] # None, cred'[q] = None
      PROVE  "io" \in Faults
  <2> USE <1>2 DEF KeptInv, HeldInv, Starting, TypeOK, At
  <2>1. CASE NothingToSend(q) \/ RegistrationLost(q)
    BY <2>1 DEF NothingToSend, RegistrationLost
  <2>2. CASE CreateTempFails(q) \/ CleanUp(q)
    BY <2>2 DEF CreateTempFails, CleanUp
  <2>3. CASE Report(q) \/ Crash(q) \/ PowerLoss
    BY <2>3 DEF Report, Crash, PowerLoss, Forget, Goto
  <2> QED
    BY <2>1, <2>2, <2>3, CredentialLosers
<1> QED
  BY <1>1, <1>2 DEF CredentialKept

\* No cancellation keeps a received credential from the disk, when Core is
\* orderly or no other run comes between (sync.go 211-237).
THEOREM Persistence ==
  ASSUME Sole \/ Orderly
  PROVE  Spec => CredentialReachesDisk
<1>1. TypeOK /\ KeptInv /\ KeptInv' /\ [Next]_vars =>
        [\A p \in Invocation : CredentialKept(p)]_vars
  BY ReachesDiskStep
<1>2. ASSUME Orderly PROVE Spec => [](TypeOK /\ KeptInv)
  <2>1. IInv => TypeOK /\ KeptInv
    BY DEF IInv, KeptInv, OrderInv
  <2> QED
    BY <1>2, <2>1, Invariance, PTL
<1>3. ASSUME Sole PROVE Spec => [](TypeOK /\ KeptInv)
  <2>1. Init => KeptInv
    BY DEF Init, KeptInv, HeldInv, Starting, Holding, None, At
  <2>2. TypeOK /\ KeptInv /\ [Next]_vars => KeptInv'
    BY <1>3, KeptStep
  <2> QED
    BY <2>1, <2>2, TypeCorrect, PTL DEF Spec
<1>4. Spec => [](TypeOK /\ KeptInv)
  BY <1>2, <1>3
<1> QED
  BY <1>1, <1>4, PTL DEF Spec, CredentialReachesDisk
=============================================================================
