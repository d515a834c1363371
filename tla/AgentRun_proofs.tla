--------------------------- MODULE AgentRun_proofs ---------------------------
(***************************************************************************)
(* The document of one invocation, for every set of faults: it is whole or *)
(* it is not claimed to be, and says of every stage how it ended.          *)
(***************************************************************************)
EXTENDS AgentRun, TLAPS

\* The stages up to the one that runs a check.
Before(c) ==
  {"config", "system", "uname", "lbi", "assignment", "validation"} \cup
    (IF c = "validation" THEN {} ELSE {"health"})

\* A document is written last and by one Write.
ExitInv ==
  /\ pc # "exited" => exit = "none" /\ stdout = "nothing"
  /\ pc \in {"client", "sync"} => enabled

\* A check that has not run has no warning, one that has run has a status and a
\* warning exactly when that is no verdict.
CheckInv ==
  \A c \in Check :
    /\ pc \in Before(c) => CheckSource[c] \notin warnings
    /\ pc \notin Before(c) \cup {"exited"} =>
         /\ checks[c] \in Status
         /\ checks[c] \in Verdict <=> CheckSource[c] \notin warnings

\* What the Core section says at last.
CoreTruthful ==
  /\ enabled <=> core # [state |-> "disabled"]
  /\ enabled => core \in Summary \/ "core.client" \in warnings
  /\ desired <=> core \in Summary /\ core.desired = "succeeded"
  /\ core \in Summary => warnings \cap WarningSource = core.warnings

\* Before the synchronization nothing is said of Core.
CoreInv ==
  /\ pc \notin {"write", "exited"} =>
       /\ core = [state |-> "none"] /\ desired = FALSE
       /\ warnings \cap (WarningSource \cup {"core.client"}) = {}
  /\ pc = "write" => CoreTruthful

IInv == TypeOK /\ ExitInv /\ CheckInv /\ CoreInv /\ ReportTruthful

-----------------------------------------------------------------------------
(* What the values of the report tell apart.                               *)

\* Each source of a warning has a name of its own.
LEMMA SourceNames ==
  ASSUME NEW c \in Check
  PROVE  /\ CheckSource[c] \in Source
         /\ CheckSource[c] \notin WarningSource
         /\ CheckSource[c] \notin {"core.client", "system", "lbi", "assignment"}
         /\ {"core.client", "system", "lbi", "assignment"} \subseteq Source
         /\ {"core.client", "system", "lbi", "assignment"} \cap WarningSource = {}
         /\ \A d \in Check \ {c} : CheckSource[d] # CheckSource[c]
<1>1. /\ CheckSource["validation"] = "checks.validation"
      /\ CheckSource["health"] = "checks.health"
  BY DEF CheckSource
<1> QED
  BY <1>1 DEF Check, Source, WarningSource

\* A check ends with a status of the report.
LEMMA OutcomeType == ASSUME NEW c \in Check PROVE Outcome(c, cancelled) \subseteq Status
  BY DEF Outcome, Status, Verdict

\* A Core section without a synchronization is no summary of one.
LEMMA NoSummary == ASSUME NEW x PROVE [state |-> x] \notin Summary
<1> SUFFICES ASSUME [state |-> x] \in Summary PROVE FALSE
  OBVIOUS
<1>1. "heartbeat" \in DOMAIN [state |-> x]
  BY DEF Summary
<1> QED
  BY <1>1

\* A summary is a Core section, and its warnings are warnings of the report.
LEMMA SummaryType ==
  ASSUME NEW s \in Summary
  PROVE  s \in CoreSection /\ s.warnings \subseteq WarningSource
  BY DEF Summary, CoreSection

\* The initial state.
LEMMA InitInv == Init => IInv
<1> SUFFICES ASSUME Init PROVE IInv
  OBVIOUS
<1>1. TypeOK
  <2>1. checks \in [Check -> Status \cup {"none"}]
    BY DEF Init
  <2> QED
    BY <2>1 DEF Init, TypeOK, Stage, CoreSection
<1>2. ExitInv /\ ReportTruthful
  BY DEF Init, ExitInv, ReportTruthful
<1>3. CheckInv /\ CoreInv
  BY DEF Init, CheckInv, CoreInv, Before
<1> QED
  BY <1>1, <1>2, <1>3 DEF IInv

-----------------------------------------------------------------------------
(* The stages.                                                             *)

\* The configuration is read, or ends the run.
LEMMA ConfigInv == ASSUME IInv, LoadConfig \/ ConfigInvalid PROVE IInv'
<1> USE DEF IInv, LoadConfig, ConfigInvalid, At, Goto, report
<1>1. TypeOK'
  BY DEF TypeOK, Stage
<1>2. ExitInv' /\ ReportTruthful'
  BY DEF ExitInv, ReportTruthful
<1>3. CheckInv' /\ CoreInv'
  BY DEF CheckInv, CoreInv, Before
<1> QED
  BY <1>1, <1>2, <1>3

\* The collectors before the checks add warnings of their own.
LEMMA CollectInv ==
  ASSUME IInv, CollectSystem \/ RunUname \/ CollectLBI \/ CollectAssignment
  PROVE  IInv'
<1> USE DEF IInv, CollectSystem, RunUname, CollectLBI, CollectAssignment, At, Goto
<1>1. /\ pc \in {"system", "uname", "lbi", "assignment"}
      /\ pc' \in {"uname", "lbi", "assignment", "validation"}
      /\ UNCHANGED <<enabled, cancelled, supervisor, checks, core, desired,
                     stdout, exit>>
  OBVIOUS
<1>2. \E source \in {"system", "lbi", "assignment"} :
        warnings' \in {warnings, warnings \cup {source}}
  BY DEF MayWarn
<1>3. TypeOK'
  BY <1>1, <1>2, SourceNames DEF TypeOK, Stage, Source
<1>4. ExitInv' /\ ReportTruthful'
  BY <1>1 DEF ExitInv, ReportTruthful
<1>5. CheckInv'
  BY <1>1, <1>2, SourceNames DEF CheckInv, Before
<1>6. CoreInv'
  BY <1>1, <1>2 DEF CoreInv, WarningSource
<1> QED
  BY <1>3, <1>4, <1>5, <1>6

\* A check says how it ended, and warns of what is no verdict.
LEMMA RunCheckInv ==
  ASSUME IInv, NEW c \in Check, RunCheck(c)
  PROVE  IInv'
<1> USE DEF IInv
<1>1. PICK status \in Outcome(c, cancelled) :
        /\ checks' = [checks EXCEPT ![c] = status]
        /\ warnings' = IF status \in Verdict THEN warnings
                       ELSE warnings \cup {CheckSource[c]}
  BY DEF RunCheck
<1>2. /\ pc = c /\ exit = "none" /\ stdout = "nothing"
      /\ pc' = IF c = "validation" THEN "health"
               ELSE IF enabled THEN "client" ELSE "write"
      /\ core' = IF c = "health" /\ ~enabled THEN [state |-> "disabled"] ELSE core
      /\ UNCHANGED <<enabled, cancelled, stuck, supervisor, desired, stdout, exit>>
  BY DEF RunCheck, At, ExitInv, Check
<1>3. status \in Status /\ checks' \in [Check -> Status \cup {"none"}]
      /\ checks'[c] = status /\ \A d \in Check \ {c} : checks'[d] = checks[d]
  BY <1>1, OutcomeType DEF TypeOK
<1>4. TypeOK'
  BY <1>1, <1>2, <1>3, SourceNames DEF TypeOK, Stage, CoreSection
<1>5. ExitInv' /\ ReportTruthful'
  BY <1>2 DEF ExitInv, ReportTruthful, TypeOK
<1>6. CheckInv'
  <2>1. /\ CheckSource[c] \notin warnings
        /\ \A d \in Check \ {c} :
             CheckSource[d] \in warnings' <=> CheckSource[d] \in warnings
    BY <1>1, <1>2, SourceNames DEF CheckInv, Before, Check
  <2>2. CASE c = "validation"
    BY <1>1, <1>2, <1>3, <2>1, <2>2 DEF CheckInv, Before, Check
  <2>3. CASE c = "health"
    BY <1>1, <1>2, <1>3, <2>1, <2>3 DEF CheckInv, Before, Check
  <2> QED
    BY <2>2, <2>3 DEF Check
<1>7. CoreInv'
  <2>1. /\ core = [state |-> "none"] /\ desired = FALSE
        /\ warnings \cap (WarningSource \cup {"core.client"}) = {}
    BY <1>2 DEF CoreInv, Check
  <2>2. warnings' \cap (WarningSource \cup {"core.client"}) = {}
    BY <1>1, <2>1, SourceNames
  <2>3. CASE c = "health" /\ ~enabled
    BY <1>2, <2>1, <2>2, <2>3, NoSummary DEF CoreInv, CoreTruthful
  <2>4. CASE ~(c = "health" /\ ~enabled)
    BY <1>2, <2>1, <2>2, <2>4 DEF CoreInv, Check, TypeOK
  <2> QED
    BY <2>3, <2>4
<1> QED
  BY <1>4, <1>5, <1>6, <1>7

\* The synchronization, or what keeps it from taking place, decides the Core
\* section and touches no check.
LEMMA SynchronizeInv ==
  ASSUME IInv, NewSynchronizer \/ ClientFails \/ Synchronize
  PROVE  IInv'
<1> USE DEF IInv, At, Goto, report
<1>1. CASE NewSynchronizer
  <2>1. TypeOK' /\ ExitInv' /\ ReportTruthful'
    BY <1>1 DEF NewSynchronizer, TypeOK, Stage, ExitInv, ReportTruthful
  <2>2. CheckInv' /\ CoreInv'
    BY <1>1 DEF NewSynchronizer, CheckInv, CoreInv, Before
  <2> QED
    BY <2>1, <2>2
<1>2. CASE ClientFails
  <2>1. TypeOK'
    BY <1>2 DEF ClientFails, TypeOK, Stage, CoreSection, Source
  <2>2. ExitInv' /\ ReportTruthful'
    BY <1>2 DEF ClientFails, ExitInv, ReportTruthful
  <2>3. CheckInv'
    BY <1>2, SourceNames DEF ClientFails, CheckInv, Before
  <2>4. core' # [state |-> "disabled"]
    BY <1>2 DEF ClientFails
  <2>5. CoreInv'
    BY <1>2, <2>4, NoSummary DEF ClientFails, CoreInv, CoreTruthful, ExitInv
  <2> QED
    BY <2>1, <2>2, <2>3, <2>5
<1>3. CASE Synchronize
  <2>1. PICK s \in Summary : /\ core' = s
                             /\ desired' = (s.desired = "succeeded")
                             /\ warnings' = warnings \cup s.warnings
    BY <1>3 DEF Synchronize
  <2>2. s \in CoreSection /\ s.warnings \subseteq WarningSource
    BY SummaryType
  <2>3. /\ pc = "sync" /\ pc' = "write"
        /\ UNCHANGED <<enabled, cancelled, stuck, supervisor, checks, stdout, exit>>
    BY <1>3 DEF Synchronize
  <2>4. TypeOK'
    BY <2>1, <2>2, <2>3 DEF TypeOK, Stage, Source
  <2>5. ExitInv' /\ ReportTruthful'
    BY <2>3 DEF ExitInv, ReportTruthful
  <2>6. CheckInv'
    BY <2>1, <2>2, <2>3, SourceNames DEF CheckInv, Before
  <2>7. CoreInv'
    <3>1. enabled /\ warnings \cap WarningSource = {}
      BY <2>3 DEF ExitInv, CoreInv
    <3>2. s # [state |-> "disabled"]
      BY NoSummary
    <3>3. warnings' \cap WarningSource = s.warnings
      BY <2>1, <2>2, <3>1
    <3> QED
      BY <2>1, <2>3, <3>1, <3>2, <3>3 DEF CoreInv, CoreTruthful
  <2> QED
    BY <2>4, <2>5, <2>6, <2>7
<1> QED
  BY <1>1, <1>2, <1>3

\* Only a document that was written whole ends the run with success.
LEMMA WriteInv == ASSUME IInv, WriteReport \/ WriteFails PROVE IInv'
<1> USE DEF IInv, WriteReport, WriteFails, At, Goto, report
<1>1. TypeOK'
  BY DEF TypeOK
<1>2. ExitInv' /\ CheckInv' /\ CoreInv'
  BY DEF ExitInv, CheckInv, CoreInv, Before
<1>3. ReportTruthful'
  BY DEF ReportTruthful, CheckInv, CoreInv, CoreTruthful, Before
<1> QED
  BY <1>1, <1>2, <1>3

\* A signal and a held pipe change nothing that is reported.
LEMMA OutsideInv == ASSUME IInv, Outside PROVE IInv'
<1> USE DEF IInv, Outside, HoldPipe, Release, Terminate, KillAll, Interrupt,
            At, Goto, report
<1>1. /\ UNCHANGED <<enabled, checks, core, desired, warnings, stdout>>
      /\ \/ UNCHANGED <<pc, exit>>
         \/ pc # "exited" /\ pc' = "exited" /\ exit' = "killed"
  BY DEF Check
<1>2. TypeOK'
  BY <1>1 DEF TypeOK
<1>3. CASE UNCHANGED <<pc, exit>>
  <2>1. ExitInv' /\ CheckInv'
    BY <1>1, <1>3 DEF ExitInv, CheckInv
  <2>2. CoreInv' /\ ReportTruthful'
    BY <1>1, <1>3 DEF CoreInv, CoreTruthful, ReportTruthful
  <2> QED
    BY <1>2, <2>1, <2>2
<1>4. CASE pc # "exited" /\ pc' = "exited" /\ exit' = "killed"
  <2>1. ExitInv' /\ CheckInv' /\ CoreInv'
    BY <1>1, <1>4 DEF ExitInv, CheckInv, CoreInv, Before
  <2>2. ReportTruthful'
    BY <1>1, <1>4 DEF ReportTruthful, ExitInv
  <2> QED
    BY <1>2, <2>1, <2>2
<1> QED
  BY <1>1, <1>3, <1>4

-----------------------------------------------------------------------------
(* Theorems.                                                               *)

\* Every stage keeps it, and so does everything outside the agent.
LEMMA NextInv == IInv /\ [Next]_vars => IInv'
<1> SUFFICES ASSUME IInv, [Next]_vars PROVE IInv'
  OBVIOUS
<1>1. CASE UNCHANGED vars
  <2> USE <1>1 DEF vars, report, IInv
  <2>1. TypeOK'
    BY DEF TypeOK
  <2>2. ExitInv' /\ CheckInv'
    BY DEF ExitInv, CheckInv
  <2>3. CoreInv' /\ ReportTruthful'
    BY DEF CoreInv, CoreTruthful, ReportTruthful
  <2> QED
    BY <2>1, <2>2, <2>3
<1>2. CASE Run
  BY <1>2, ConfigInv, CollectInv, RunCheckInv, SynchronizeInv, WriteInv DEF Run
<1>3. CASE Outside
  BY <1>3, OutsideInv
<1> QED
  BY <1>1, <1>2, <1>3 DEF Next

\* What each stage has put into the report holds until it is written
\* (agent.go 61-97).
THEOREM Invariance == Spec => []IInv
  BY InitInv, NextInv, PTL DEF Spec

\* Every variable keeps its type.
THEOREM TypeCorrect == Spec => []TypeOK
  BY Invariance, PTL DEF IInv

\* The document a run leaves is whole and says of every stage how it ended:
\* both checks have a status, what is no verdict has a warning, the Core
\* section fits the configuration, and a desired state is reported exactly when
\* its retrieval succeeded (app.go 81-112, agent.go 61-97).
THEOREM ReportIsTruthful == Spec => []ReportTruthful
  BY Invariance, PTL DEF IInv
=============================================================================
