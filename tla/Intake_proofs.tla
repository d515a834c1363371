---------------------------- MODULE Intake_proofs ----------------------------
(***************************************************************************)
(* What an accepted configuration, an accepted registration and every      *)
(* document, file of the host and verdict of a script are good for,        *)
(* whatever the files and the responses, and however long they are.        *)
(***************************************************************************)
EXTENDS Intake, WellFoundedInduction, FiniteSetTheorems, SequenceTheorems, TLAPS

\* What was made of an input is what its handler makes of it.
MadeInv ==
  /\ given.kind = "configuration" => made = Load(given.input)
  /\ given.kind = "registration" /\ made.ok =>
       /\ AcceptsRegistration(given.input)
       /\ made.state = [schema_version |-> 1, node_id |-> given.input.node_id,
                        agent_token |-> given.input.agent_token]
  /\ given.kind = "endpoint" =>
       /\ given.input.base \in BasePaths /\ given.input.raw \in References
       /\ made.ok => /\ AcceptsEndpoint(given.input.raw)
                     /\ made.path = Resolve(given.input.base, given.input.raw)
  /\ given.kind = "assignment" =>
       given.input \in Documents /\ made = CollectAssignment(given.input)
  /\ given.kind = "desired" => given.input \in Documents /\ made = Parse(given.input)
  /\ given.kind = "host" => given.input \in Hosts /\ made = CollectSystem(given.input)
  /\ given.kind = "release" => given.input \in Releases /\ made = CollectLBI(given.input)
  /\ given.kind = "health" =>
       /\ given.input \in HealthFindings
       /\ made.status = MapStatus("health", HealthExit(given.input))
  /\ given.kind = "validation" =>
       /\ given.input.findings \in ValidationFindings
       /\ made.status = MapStatus("validation",
                                  ValidationExit(given.input.findings, given.input.library))

THEOREM Invariance == Spec => []MadeInv
<1>1. Init => MadeInv
  BY DEF Init, MadeInv
<1>2. MadeInv /\ [Next]_vars => MadeInv'
  <2> SUFFICES ASSUME MadeInv, [Next]_vars PROVE MadeInv'
    OBVIOUS
  <2>1. CASE LoadConfiguration
    BY <2>1 DEF LoadConfiguration, Take, MadeInv
  <2>2. CASE Register
    BY <2>2 DEF Register, Take, MadeInv
  <2>3. CASE ReadAssignment \/ RetrieveDesiredState
    BY <2>3 DEF ReadAssignment, RetrieveDesiredState, Take, MadeInv
  <2>4. CASE InspectHost \/ ReadRelease
    BY <2>4 DEF InspectHost, ReadRelease, Take, MadeInv
  <2>5. CASE UNCHANGED vars
    BY <2>5 DEF vars, MadeInv
  <2>6. CASE ResolveEndpoint
    <3>1. PICK base \in BasePaths, raw \in References :
            Take("endpoint", [base |-> base, raw |-> raw],
                 IF AcceptsEndpoint(raw) THEN [ok |-> TRUE, path |-> Resolve(base, raw)]
                 ELSE [ok |-> FALSE])
      BY <2>6 DEF ResolveEndpoint
    <3>2. CASE AcceptsEndpoint(raw)
      BY <3>1, <3>2 DEF Take, MadeInv
    <3>3. CASE ~AcceptsEndpoint(raw)
      BY <3>1, <3>3 DEF Take, MadeInv
    <3> QED
      BY <3>2, <3>3
  <2>7. CASE RunHealth \/ RunValidation
    BY <2>7 DEF RunHealth, RunValidation, Take, MadeInv
  <2> QED
    BY <2>1, <2>2, <2>3, <2>4, <2>5, <2>6, <2>7 DEF Next
<1> QED
  BY <1>1, <1>2, PTL DEF Spec

---------------------------------------------------------------------------
(* The configuration. *)

LEMMA DefaultPaths ==
  /\ IsAbs("/opt/lts/scripts/lbi-validate.sh")
  /\ IsAbs("/opt/lts/scripts/health-check.sh")
  /\ IsAbs("/var/lib/lts-agent/enrollment-token")
  /\ IsAbs("/var/lib/lts-agent/state.json")
  BY Zenon DEF IsAbs, Empty

LEMMA DefaultOutputBytes == 64 * 1024 \in MinOutputBytes .. MaxOutputBytes
<1>1. MinOutputBytes \in Int /\ MaxOutputBytes \in Int
  BY SMT DEF MinOutputBytes, MaxOutputBytes
<1>2. MinOutputBytes <= 64 * 1024 /\ 64 * 1024 <= MaxOutputBytes
  BY SMT DEF MinOutputBytes, MaxOutputBytes
<1> QED
  BY <1>1, <1>2, SMT

LEMMA AbsNotEmpty == ASSUME NEW path, IsAbs(path) PROVE path # Empty
  BY Zenon DEF IsAbs

\* Accepted is only what validate holds of, the defaults among it.
LEMMA LoadValidates ==
  ASSUME NEW file, Load(file).ok
  PROVE  LET c == Load(file).configuration
         IN  ValidChecks(c.checks) /\ LogLevel(c.logging.level) /\ ValidCore(c.core)
<1>1. CASE file = Missing
  <2>1. Load(file).configuration = Defaults
    BY <1>1, SMT DEF Load
  <2>2. ValidChecks(Defaults.checks)
    BY DefaultPaths, DefaultOutputBytes, SMT DEF Defaults, ValidChecks
  <2>3. LogLevel(Defaults.logging.level)
    BY SMT DEF Defaults, LogLevel
  <2>4. ValidCore(Defaults.core)
    BY DefaultPaths, SMT DEF Defaults, ValidCore
  <2> QED
    BY <2>1, <2>2, <2>3, <2>4
<1>2. CASE file # Missing /\ file # Unreadable
  BY <1>2 DEF Load, Parses
<1>3. CASE file # Missing /\ file = Unreadable
  BY <1>3 DEF Load
<1> QED
  BY <1>1, <1>2, <1>3

\* The section of the checks is a function, whatever the file overrides.
LEMMA LoadedChecks ==
  ASSUME NEW file, Load(file).ok
  PROVE  LET checks == Load(file).configuration.checks
         IN  checks = [k \in DOMAIN checks |-> checks[k]]
<1>1. CASE file = Missing
  BY <1>1, SMT DEF Load, Defaults
<1>2. CASE file # Missing
  <2>1. Load(file).configuration.checks = Override(Defaults.checks, file.checks)
    BY <1>2 DEF Load, Effective
  <2>2. CASE file.checks = Absent
    BY <2>1, <2>2, SMT DEF Override, Defaults
  <2>3. CASE file.checks # Absent
    BY <2>1, <2>3, SMT DEF Override
  <2> QED
    BY <2>2, <2>3
<1> QED
  BY <1>1, <1>2

\* No accepted configuration lets a run within its limits exceed the start
\* timeout, but one with requests of more than 100 seconds (config.go:26, 31
\* against lts-agent.service:11).
THEOREM Fits == Spec => []FitsStart
<1>1. ASSUME MadeInv PROVE FitsStart
  <2> SUFFICES ASSUME Taken("configuration"), made.ok
               PROVE  LET c == made.configuration
                      IN  \/ Budget(c) <= 900
                          \/ c.core.enabled /\ c.core.request_timeout_seconds > 100
    BY DEF FitsStart
  <2>1. made = Load(given.input)
    BY <1>1 DEF MadeInv, Taken
  <2> DEFINE c == made.configuration
  <2>2. ValidChecks(c.checks) /\ ValidCore(c.core)
    BY <2>1, LoadValidates
  <2>3. c.checks.timeout_seconds \in 1 .. 300
    BY <2>2, SMT DEF ValidChecks
  <2>4. c.core.request_timeout_seconds \in 1 .. 120
    BY <2>2, SMT DEF ValidCore
  <2>5. CASE c.core.enabled
    <3> DEFINE t == c.checks.timeout_seconds
               r == c.core.request_timeout_seconds
    <3>1. Budget(c) = 2 * t + 3 * r
      BY <2>5 DEF Budget
    <3>2. t \in 1 .. 300 /\ r \in 1 .. 120
      BY <2>3, <2>4
    <3> HIDE DEF t, r
    <3>3. 2 * t + 3 * r <= 900 \/ r > 100
      BY <3>2, SMT
    <3>4. Budget(c) <= 900 \/ r > 100
      BY <3>1, <3>3
    <3> QED
      BY <2>5, <3>4 DEF r
  <2>6. CASE ~c.core.enabled
    BY <2>3, <2>6, SMT DEF Budget
  <2> QED
    BY <2>5, <2>6
<1> QED
  BY <1>1, Invariance, PTL

\* Every accepted configuration can be used by the client and the collector
\* that receive it (client.go:63-84, 226-250, check.go:88-97).
THEOREM Accepted == Spec => []AcceptedUsable
<1>1. ASSUME MadeInv PROVE AcceptedUsable
  <2> SUFFICES ASSUME Taken("configuration"), made.ok
               PROVE  LET c == made.configuration
                      IN  /\ c.core.enabled => NewClient(c.core, TRUE)
                          /\ LogLevel(c.logging.level)
                          /\ NewCollector(c.checks) = c.checks
                          /\ c.checks.timeout_seconds > 0
                          /\ c.core.request_timeout_seconds > 0
                          /\ c.core.enrollment_token_file # Empty /\ c.core.state_file # Empty
    BY DEF AcceptedUsable
  <2> DEFINE c == made.configuration
  <2>1. made = Load(given.input)
    BY <1>1 DEF MadeInv, Taken
  <2>2. ValidChecks(c.checks) /\ LogLevel(c.logging.level) /\ ValidCore(c.core)
    BY <2>1, LoadValidates
  <2>3. c.core.enabled => NewClient(c.core, TRUE)
    <3> SUFFICES ASSUME c.core.enabled PROVE NewClient(c.core, TRUE)
      OBVIOUS
    <3>1. c.core.base_url = {"https", "host"}
      BY <2>2 DEF ValidCore
    <3>2. ParseBaseURL(c.core.base_url)
      BY <3>1 DEF ParseBaseURL
    <3>3. c.core.request_timeout_seconds > 0
      BY <2>2, SMT DEF ValidCore
    <3> QED
      BY <3>2, <3>3 DEF NewClient
  <2>4. NewCollector(c.checks) = c.checks
    <3>1. c.checks = [k \in DOMAIN c.checks |-> c.checks[k]]
      BY <2>1, LoadedChecks
    <3>2. c.checks.validation_path # Empty /\ c.checks.health_path # Empty
      BY <2>2, AbsNotEmpty, SMT DEF ValidChecks
    <3>3. \A k \in DOMAIN c.checks :
            (IF k \in {"validation_path", "health_path"} /\ c.checks[k] = Empty
             THEN Defaults.checks[k] ELSE c.checks[k]) = c.checks[k]
      BY <3>2, SMT
    <3> QED
      BY <3>1, <3>3, SMT DEF NewCollector
  <2>5. c.core.enrollment_token_file # Empty /\ c.core.state_file # Empty
    BY <2>2, AbsNotEmpty, SMT DEF ValidCore
  <2>6. c.checks.timeout_seconds > 0
    BY <2>2, SMT DEF ValidChecks
  <2>7. c.core.request_timeout_seconds > 0
    BY <2>2, SMT DEF ValidCore
  <2> QED
    BY <2>2, <2>3, <2>4, <2>5, <2>6, <2>7
<1> QED
  BY <1>1, Invariance, PTL

\* What overriding leaves of one section, when the file was read.
LEMMA Overridden ==
  ASSUME NEW target, NEW section, Decodable(section), NEW k \in DOMAIN target
  PROVE  LET value == Override(target, section)[k]
         IN  IF section # Absent /\ k \in DOMAIN section
             THEN value = section[k] /\ value # Null
             ELSE value = target[k]
<1>1. CASE section = Absent
  BY <1>1 DEF Override
<1>2. CASE section # Absent
  BY <1>2 DEF Override, Decodable, Present
<1> QED
  BY <1>1, <1>2

\* What an accepted file holds is in effect, a null is never accepted, and all
\* else is its default (config.go:1-3, 140-239).
THEOREM NothingSilent == Spec => []NothingDefaultedSilently
<1>1. ASSUME MadeInv PROVE NothingDefaultedSilently
  <2> DEFINE file == given.input
             c == made.configuration
  <2> SUFFICES ASSUME Taken("configuration"), made.ok,
                      NEW s \in {"checks", "logging", "core"}, NEW k \in DOMAIN Defaults[s]
               PROVE  IF made.loaded /\ file[s] # Absent /\ k \in DOMAIN file[s]
                      THEN /\ c[s][k] = file[s][k] /\ c[s][k] # Null
                           /\ s = "core" => file.schema_version = 2
                      ELSE c[s][k] = Defaults[s][k]
    BY DEF NothingDefaultedSilently
  <2>1. made = Load(file)
    BY <1>1 DEF MadeInv, Taken
  <2>2. CASE file = Missing
    BY <2>1, <2>2 DEF Load
  <2>3. CASE file # Missing
    <3>1. made.loaded /\ Parses(file) /\ c = Effective(file)
      BY <2>1, <2>3 DEF Load
    <3>2. Decodable(file[s]) /\ c[s] = Override(Defaults[s], file[s])
      BY <3>1 DEF Parses, Effective
    <3>3. s = "core" /\ file[s] # Absent => file.schema_version = 2
      BY <3>1 DEF Parses
    <3> QED
      BY <3>1, <3>2, <3>3, Overridden
  <2> QED
    BY <2>2, <2>3
<1> QED
  BY <1>1, Invariance, PTL

---------------------------------------------------------------------------
(* The registration. *)

\* What begins with a letter or a digit is not "..".
LEMMA EndpointAccepted ==
  ASSUME NEW id, NodeIDPattern(id), NEW suffix \in Suffix
  PROVE  AcceptsEndpoint(NodeEndpoint(id, suffix))
<1> DEFINE path == << << <<"v1">> >>, << <<"nodes">> >>, <<id>>, << <<suffix>> >> >>
<1>1. NodeEndpoint(id, suffix) = [parts |-> {}, path |-> path]
  BY DEF NodeEndpoint
<1>2. path # <<Nothing>> /\ path[1] # Nothing
  <2>1. << <<"v1">> >> # << <<>> >>
    OBVIOUS
  <2> QED
    BY <2>1 DEF Nothing
<1>3. \A i \in DOMAIN path :
        DOMAIN path[i] = {1} /\ path[i][1] \in {<<"v1">>, <<"nodes">>, id, <<suffix>>}
  OBVIOUS
<1> HIDE DEF path
<1>4. \A piece \in {<<"v1">>, <<"nodes">>, id, <<suffix>>} : piece[1] \in Alphanumeric
  <2>1. id[1] \in Alphanumeric
    BY DEF NodeIDPattern
  <2> QED
    BY <2>1 DEF Suffix, Alphanumeric
<1>5. ~HasDotDot(path)
  <2> SUFFICES ASSUME NEW piece \in {<<"v1">>, <<"nodes">>, id, <<suffix>>},
                      Decoded(piece) = <<".", ".">>
               PROVE  FALSE
    BY <1>3, Zenon DEF HasDotDot
  <2>1. 1 \in DOMAIN piece
    <3>1. DOMAIN Decoded(piece) = DOMAIN piece
      BY DEF Decoded
    <3> QED
      BY <3>1
  <2>2. Decoded(piece)[1] = piece[1]
    BY <1>4, <2>1 DEF Decoded, Alphanumeric
  <2> QED
    BY <1>4, <2>2 DEF Alphanumeric
<1> QED
  BY <1>1, <1>2, <1>5 DEF AcceptsEndpoint

\* Every later run can load the identity that a registration leaves, and the
\* client accepts the endpoints made of it (sync.go:222-233, 300-308,
\* client.go:252-281).
THEOREM Registered == Spec => []RegistrationUsable
<1>1. ASSUME MadeInv PROVE RegistrationUsable
  <2> SUFFICES ASSUME Taken("registration"), made.ok
               PROVE  /\ LoadsState(made.state)
                      /\ \A suffix \in Suffix :
                           AcceptsEndpoint(NodeEndpoint(made.state.node_id, suffix))
    BY DEF RegistrationUsable
  <2>1. /\ AcceptsRegistration(given.input)
        /\ made.state = [schema_version |-> 1, node_id |-> given.input.node_id,
                         agent_token |-> given.input.agent_token]
    BY <1>1 DEF MadeInv, Taken
  <2>2. LoadsState(made.state)
    BY <2>1 DEF AcceptsRegistration, LoadsState
  <2>3. NodeIDPattern(made.state.node_id)
    BY <2>2 DEF LoadsState
  <2> QED
    BY <2>2, <2>3, EndpointAccepted
<1> QED
  BY <1>1, Invariance, PTL

---------------------------------------------------------------------------
(* Loops that are recursive functions. *)

\* A set of naturals with 0 and the successor of each of its numbers holds all.
LEMMA Induct ==
  ASSUME NEW T, 0 \in T, \A n \in Nat : n \in T => n + 1 \in T
  PROVE  Nat \subseteq T
<1> SUFFICES ASSUME Nat \ T # {} PROVE FALSE
  OBVIOUS
<1> DEFINE R == OpToRel(<, Nat)
<1>1. IsWellFoundedOn(R, Nat)
  BY NatLessThanWellFounded
<1>2. \A y \in Nat, x \in Nat : y < x => <<y, x>> \in R
  BY DEF OpToRel
<1> HIDE DEF R
<1>3. PICK x \in Nat \ T : \A y \in Nat \ T : <<y, x>> \notin R
  BY <1>1, WFMin
<1>4. x # 0 /\ x - 1 \in Nat /\ x - 1 < x /\ (x - 1) + 1 = x
  BY <1>3
<1>5. x - 1 \notin T
  BY <1>3, <1>4
<1> QED
  BY <1>2, <1>3, <1>4, <1>5

Steps(V, n) == [1 .. n -> [V -> V]]

\* g holds what each of n steps from the start has made.
Runs(g, V, start, n, step) ==
  /\ g \in [0 .. n -> V]
  /\ g[0] = start /\ \A i \in 1 .. n : g[i] = step[i][g[i - 1]]

\* A loop that is written as a recursive function runs.
LEMMA Iterated ==
  ASSUME NEW V, NEW start \in V, NEW n \in Nat, NEW step \in Steps(V, n)
  PROVE  \E g : Runs(g, V, start, n, step)
<1> USE DEF Steps
<1> DEFINE Run(g, k) == g[0] = start /\ \A i \in 1 .. k : g[i] = step[i][g[i - 1]]
           T == {k \in Nat : k <= n => \E g \in [0 .. k -> V] : Run(g, k)}
<1>1. 0 \in T
  <2> DEFINE g == [i \in 0 .. 0 |-> start]
  <2>1. g \in [0 .. 0 -> V] /\ Run(g, 0)
    OBVIOUS
  <2> QED
    BY <2>1
<1>2. ASSUME NEW k \in Nat, k \in T PROVE k + 1 \in T
  <2> SUFFICES ASSUME k + 1 <= n PROVE \E g \in [0 .. k + 1 -> V] : Run(g, k + 1)
    OBVIOUS
  <2>1. PICK g \in [0 .. k -> V] : Run(g, k)
    BY <1>2
  <2> DEFINE h == [i \in 0 .. k + 1 |-> IF i <= k THEN g[i] ELSE step[k + 1][g[k]]]
  <2>2. \A i \in 0 .. k : h[i] = g[i] /\ g[i] \in V
    OBVIOUS
  <2>3. h[k + 1] = step[k + 1][h[k]] /\ h[k + 1] \in V
    <3>1. k + 1 \in 1 .. n /\ g[k] \in V
      OBVIOUS
    <3>2. step[k + 1] \in [V -> V]
      BY <3>1
    <3> QED
      BY <2>2, <3>1, <3>2
  <2>4. h = [i \in 0 .. k + 1 |-> h[i]]
    OBVIOUS
  <2> HIDE DEF h
  <2>5. h \in [0 .. k + 1 -> V]
    <3>1. \A i \in 0 .. k + 1 : h[i] \in V
      BY <2>2, <2>3
    <3> QED
      BY <2>4, <3>1
  <2>6. Run(h, k + 1)
    <3>1. h[0] = start
      BY <2>1, <2>2
    <3>2. ASSUME NEW i \in 1 .. k PROVE h[i] = step[i][h[i - 1]]
      <4>1. i \in 0 .. k /\ i - 1 \in 0 .. k
        OBVIOUS
      <4> QED
        BY <2>1, <2>2, <4>1
    <3>3. \A i \in 1 .. k + 1 : i \in 1 .. k \/ (i = k + 1 /\ i - 1 = k)
      OBVIOUS
    <3> QED
      BY <2>3, <3>1, <3>2, <3>3
  <2> QED
    BY <2>5, <2>6
<1>3. n \in T
  <2> HIDE DEF T
  <2> QED
    BY <1>1, <1>2, Induct
<1> QED
  BY <1>3 DEF Runs

---------------------------------------------------------------------------
(* The base path. *)

\* The three segments that the resolution looks at differ.
LEMMA Marks == Here # Up /\ Here # Nothing /\ Up # Nothing
<1>1. <<".">> # <<".", ".">> /\ <<".">> # <<>> /\ <<".", ".">> # <<>>
  OBVIOUS
<1> QED
  BY <1>1 DEF Here, Up, Nothing

\* What one segment does to the walk.
LEMMA KeepCases ==
  ASSUME NEW kept, NEW segment
  PROVE  /\ segment = Here => Keep(kept, segment) = IF kept = <<>> THEN <<Nothing>> ELSE kept
         /\ segment = Up => Keep(kept, segment) = IF kept = <<>> THEN <<>> ELSE Front(kept)
         /\ segment \notin {Here, Up} => Keep(kept, segment) = Append(kept, segment)
  BY Marks DEF Keep

LEMMA KeepType ==
  ASSUME NEW Z, Nothing \in Z, NEW kept \in Seq(Z), NEW segment \in Z
  PROVE  Keep(kept, segment) \in Seq(Z)
<1>1. CASE segment = Here
  <2>1. <<Nothing>> \in Seq(Z)
    OBVIOUS
  <2> QED
    BY <1>1, <2>1, KeepCases
<1>2. CASE segment = Up
  <2>1. Front(kept) \in Seq(Z) /\ <<>> \in Seq(Z)
    BY DEF Front
  <2> QED
    BY <1>2, <2>1, KeepCases
<1>3. CASE segment \notin {Here, Up}
  BY <1>3, KeepCases
<1> QED
  BY <1>1, <1>2, <1>3

\* The loop over the segments is unfolded.
LEMMA WalkUnfolded ==
  ASSUME NEW Z, Nothing \in Z, NEW full \in Seq(Z)
  PROVE  \E kept \in [0 .. Len(full) -> Seq(Z)] :
           /\ Walk(full) = kept[Len(full)]
           /\ kept[0] = <<>>
           /\ \A i \in 1 .. Len(full) : kept[i] = Keep(kept[i - 1], full[i])
<1> DEFINE n == Len(full)
           V == Seq(Z)
           step == [i \in 1 .. n |-> [x \in V |-> Keep(x, full[i])]]
           F(g) == [i \in 0 .. n |-> IF i = 0 THEN <<>> ELSE Keep(g[i - 1], full[i])]
           kept == CHOOSE g : g = F(g)
<1>1. n \in Nat /\ <<>> \in V /\ \A i \in 1 .. n : full[i] \in Z
  OBVIOUS
<1>2. step \in Steps(V, n)
  BY <1>1, KeepType DEF Steps
<1> HIDE DEF n, V
<1>3. PICK g : Runs(g, V, <<>>, n, step)
  BY <1>1, <1>2, Iterated
<1> HIDE DEF step
<1>4. \A i \in 1 .. n : g[i] = Keep(g[i - 1], full[i])
  <2> SUFFICES ASSUME NEW i \in 1 .. n PROVE g[i] = Keep(g[i - 1], full[i])
    OBVIOUS
  <2>1. g[i - 1] \in V
    BY <1>1, <1>3 DEF Runs
  <2> QED
    BY <1>3, <2>1 DEF Runs, step
<1>5. g = F(g)
  <2>1. ASSUME NEW i \in 0 .. n
        PROVE  g[i] = IF i = 0 THEN <<>> ELSE Keep(g[i - 1], full[i])
    <3>1. i = 0 \/ i \in 1 .. n
      BY <1>1
    <3> QED
      BY <1>1, <1>3, <1>4, <3>1 DEF Runs
  <2> QED
    BY <1>3, <2>1 DEF Runs
<1>6. kept = F(kept)
  <2> HIDE DEF F
  <2> QED
    BY <1>5
<1>7. Walk(full) = kept[n]
  BY DEF Walk, n
<1> HIDE DEF kept
<1>8. kept[0] = <<>> /\ \A i \in 1 .. n : kept[i] = Keep(kept[i - 1], full[i])
  BY <1>1, <1>6
<1>9. kept \in [0 .. n -> V]
  <2> DEFINE T == {k \in Nat : k <= n => kept[k] \in V}
  <2>1. 0 \in T
    BY <1>1, <1>8
  <2>2. ASSUME NEW k \in Nat, k \in T PROVE k + 1 \in T
    <3> SUFFICES ASSUME k + 1 <= n PROVE kept[k + 1] \in V
      OBVIOUS
    <3>1. k + 1 \in 1 .. n /\ (k + 1) - 1 = k /\ kept[k] \in V
      BY <1>1, <2>2
    <3>2. kept[k + 1] = Keep(kept[k], full[k + 1]) /\ full[k + 1] \in Z
      BY <1>1, <1>8, <3>1
    <3> QED
      BY <3>1, <3>2, KeepType DEF V
  <2>3. \A k \in 0 .. n : kept[k] \in V
    <3>1. Nat \subseteq T
      <4> HIDE DEF T
      <4> QED
        BY <2>1, <2>2, Induct
    <3> QED
      BY <1>1, <3>1
  <2>4. kept = [i \in 0 .. n |-> kept[i]]
    BY <1>6
  <2> QED
    BY <2>3, <2>4
<1> QED
  BY <1>7, <1>8, <1>9 DEF n, V

\* It starts with nothing, and one segment more is one turn more.
LEMMA WalkStep ==
  ASSUME NEW Z, Nothing \in Z, NEW full \in Seq(Z), NEW segment \in Z
  PROVE  /\ Walk(<<>>) = <<>>
         /\ Walk(full) \in Seq(Z)
         /\ Walk(Append(full, segment)) = Keep(Walk(full), segment)
<1>0. Walk(<<>>) = <<>>
  <2>1. <<>> \in Seq(Z) /\ Len(<<>>) = 0
    OBVIOUS
  <2>2. PICK k \in [0 .. 0 -> Seq(Z)] : Walk(<<>>) = k[0] /\ k[0] = <<>>
    BY <2>1, WalkUnfolded, Zenon
  <2> QED
    BY <2>2
<1> DEFINE n == Len(full)
           more == Append(full, segment)
<1>1. /\ n \in Nat /\ more \in Seq(Z) /\ Len(more) = n + 1
      /\ more[n + 1] = segment /\ \A i \in 1 .. n : more[i] = full[i]
  BY AppendProperties
<1> HIDE DEF more
<1>2. PICK f \in [0 .. n -> Seq(Z)] :
        /\ Walk(full) = f[n] /\ f[0] = <<>>
        /\ \A i \in 1 .. n : f[i] = Keep(f[i - 1], full[i])
  BY WalkUnfolded
<1>3. PICK g \in [0 .. n + 1 -> Seq(Z)] :
        /\ Walk(more) = g[n + 1] /\ g[0] = <<>>
        /\ \A i \in 1 .. n + 1 : g[i] = Keep(g[i - 1], more[i])
  <2>1. \E g \in [0 .. Len(more) -> Seq(Z)] :
          /\ Walk(more) = g[Len(more)] /\ g[0] = <<>>
          /\ \A i \in 1 .. Len(more) : g[i] = Keep(g[i - 1], more[i])
    BY <1>1, WalkUnfolded
  <2>2. Len(more) = n + 1
    BY <1>1
  <2> HIDE DEF n
  <2> QED
    BY <2>1, <2>2, Zenon
<1> HIDE DEF n
<1> DEFINE T == {k \in Nat : k <= n => g[k] = f[k]}
<1>4. 0 \in T
  BY <1>2, <1>3
<1>5. ASSUME NEW k \in Nat, k \in T PROVE k + 1 \in T
  <2> SUFFICES ASSUME k + 1 <= n PROVE g[k + 1] = f[k + 1]
    OBVIOUS
  <2>1. k + 1 \in 1 .. n /\ k + 1 \in 1 .. n + 1 /\ (k + 1) - 1 = k /\ g[k] = f[k]
    BY <1>1, <1>5
  <2>2. g[k + 1] = Keep(g[k], more[k + 1]) /\ f[k + 1] = Keep(f[k], full[k + 1])
    BY <1>2, <1>3, <2>1
  <2>3. more[k + 1] = full[k + 1]
    BY <1>1, <2>1
  <2> QED
    BY <2>1, <2>2, <2>3
<1>6. g[n] = f[n]
  <2>1. Nat \subseteq T
    <3> HIDE DEF T
    <3> QED
      BY <1>4, <1>5, Induct
  <2> QED
    BY <1>1, <2>1
<1>7. g[n + 1] = Keep(g[n], segment)
  <2>1. n + 1 \in 1 .. n + 1 /\ (n + 1) - 1 = n
    BY <1>1
  <2> QED
    BY <1>1, <1>3, <2>1
<1>8. Walk(full) \in Seq(Z)
  BY <1>1, <1>2
<1> QED
  BY <1>0, <1>2, <1>3, <1>6, <1>7, <1>8 DEF more

\* What a path has in front of its endpoint, once it begins with a slash.
Root(kept) == IF kept # <<>> /\ kept[1] = Nothing THEN kept ELSE <<Nothing>> \o kept

\* To append after a concatenation is to append to its second part.
LEMMA AppendAfter ==
  ASSUME NEW Z, NEW s \in Seq(Z), NEW t \in Seq(Z), NEW x \in Z, NEW more, more = Append(t, x)
  PROVE  Append(s \o t, x) = s \o more
<1>1. more = t \o <<x>> /\ <<x>> \in Seq(Z) /\ s \o t \in Seq(Z)
  BY AppendIsConcat, ConcatProperties
<1>2. Append(s \o t, x) = (s \o t) \o <<x>>
  BY <1>1, AppendIsConcat
<1>3. (s \o t) \o <<x>> = s \o (t \o <<x>>)
  BY <1>1, ConcatAssociative
<1> QED
  BY <1>1, <1>2, <1>3

\* It is not empty, and a longer one is the path that the resolution makes.
LEMMA RootFacts ==
  ASSUME NEW Z, Nothing \in Z, NEW kept \in Seq(Z)
  PROVE  /\ Root(kept) \in Seq(Z) /\ Len(Root(kept)) \in Nat \ {0}
         /\ Len(Root(kept)) > 1 => Rooted(kept) = Root(kept)
<1>1. Len(kept) \in Nat /\ (kept # <<>> <=> Len(kept) > 0)
  OBVIOUS
<1>2. <<Nothing>> \o kept \in Seq(Z) /\ Len(<<Nothing>> \o kept) = 1 + Len(kept)
  OBVIOUS
<1>3. CASE kept # <<>> /\ kept[1] = Nothing
  BY <1>1, <1>3 DEF Root, Rooted
<1>4. CASE kept = <<>>
  BY <1>1, <1>2, <1>4 DEF Root, Rooted
<1>5. CASE kept[1] # Nothing
  BY <1>1, <1>2, <1>5 DEF Root, Rooted
<1> QED
  BY <1>3, <1>4, <1>5

LEMMA RootAppend ==
  ASSUME NEW Z, Nothing \in Z, NEW kept \in Seq(Z), NEW segment \in Z,
         kept # <<>> \/ segment # Nothing
  PROVE  Root(Append(kept, segment)) = Append(Root(kept), segment)
<1> DEFINE more == Append(kept, segment)
<1>1. /\ more \in Seq(Z) /\ more # <<>>
      /\ kept # <<>> => more[1] = kept[1]
      /\ kept = <<>> => more[1] = segment
  OBVIOUS
<1>2. <<Nothing>> \o more = Append(<<Nothing>> \o kept, segment)
  <2>1. <<Nothing>> \in Seq(Z)
    OBVIOUS
  <2>2. more = Append(kept, segment)
    OBVIOUS
  <2> HIDE DEF more
  <2> QED
    BY <2>1, <2>2, AppendAfter
<1> HIDE DEF more
<1>3. CASE kept # <<>> /\ kept[1] = Nothing
  BY <1>1, <1>3 DEF Root, more
<1>4. CASE kept # <<>> /\ kept[1] # Nothing
  BY <1>1, <1>2, <1>4 DEF Root, more
<1>5. CASE kept = <<>>
  BY <1>1, <1>2, <1>5 DEF Root, more
<1> QED
  BY <1>3, <1>4, <1>5

\* One more segment of a sequence.
LEMMA NextPart ==
  ASSUME NEW Z, NEW s \in Seq(Z), NEW k \in Nat, k + 1 <= Len(s)
  PROVE  /\ SubSeq(s, 1, k) \in Seq(Z) /\ s[k + 1] \in Z
         /\ SubSeq(s, 1, k + 1) = Append(SubSeq(s, 1, k), s[k + 1])
<1>1. SubSeq(s, 1, k) \in Seq(Z) /\ s[k + 1] \in Z
  OBVIOUS
<1>2. SubSeq(s, 1, k + 1) = SubSeq(s, 1, k) \o <<s[k + 1]>>
  <2>1. 1 \in 1 .. Len(s) /\ k + 1 \in 1 .. Len(s) /\ (k + 1) - 1 = k
    OBVIOUS
  <2> QED
    BY <2>1, SubSeqRecursiveSecond
<1>3. Append(SubSeq(s, 1, k), s[k + 1]) = SubSeq(s, 1, k) \o <<s[k + 1]>>
  BY <1>1, AppendIsConcat
<1> QED
  BY <1>1, <1>2, <1>3

\* Segments without "." and ".." are kept as they are.
LEMMA WalkPlain ==
  ASSUME NEW Z, Nothing \in Z, NEW s \in Seq(Z),
         \A i \in 1 .. Len(s) : s[i] \notin {Here, Up}
  PROVE  Walk(s) = s
<1> DEFINE T == {k \in Nat : k <= Len(s) => Walk(SubSeq(s, 1, k)) = SubSeq(s, 1, k)}
<1>1. 0 \in T
  <2>1. SubSeq(s, 1, 0) = <<>>
    BY SubSeqEmpty
  <2>2. Walk(<<>>) = <<>>
    BY WalkStep, EmptySeq
  <2> QED
    BY <2>1, <2>2
<1>2. ASSUME NEW k \in Nat, k \in T PROVE k + 1 \in T
  <2> SUFFICES ASSUME k + 1 <= Len(s)
               PROVE  Walk(SubSeq(s, 1, k + 1)) = SubSeq(s, 1, k + 1)
    OBVIOUS
  <2> DEFINE p == SubSeq(s, 1, k)
             q == SubSeq(s, 1, k + 1)
             x == s[k + 1]
  <2>1. p \in Seq(Z) /\ x \in Z /\ q = Append(p, x)
    BY NextPart
  <2>2. Walk(p) = p /\ x \notin {Here, Up}
    BY <1>2
  <2> HIDE DEF p, q, x
  <2>3. Walk(q) = Keep(p, x)
    BY <2>1, <2>2, WalkStep
  <2>4. Walk(q) = q
    BY <2>1, <2>2, <2>3, KeepCases
  <2> QED
    BY <2>4 DEF q
<1>3. Len(s) \in T
  <2>1. Len(s) \in Nat
    OBVIOUS
  <2> HIDE DEF T
  <2> QED
    BY <1>1, <1>2, <2>1, Induct
<1>4. Walk(SubSeq(s, 1, Len(s))) = SubSeq(s, 1, Len(s))
  BY <1>3
<1>5. SubSeq(s, 1, Len(s)) = s
  BY SubSeqFull
<1> QED
  BY <1>4, <1>5, Zenon

\* The loop goes on where it was.
LEMMA WalkOn ==
  ASSUME NEW Z, Nothing \in Z, NEW base \in Seq(Z), NEW path \in Seq(Z)
  PROVE  \E w \in [0 .. Len(path) -> Seq(Z)] :
           /\ w[0] = Walk(base) /\ w[Len(path)] = Walk(base \o path)
           /\ \A k \in Nat : k + 1 <= Len(path) => w[k + 1] = Keep(w[k], path[k + 1])
<1> DEFINE n == Len(path)
           Part(k) == SubSeq(path, 1, k)
           w == [k \in 0 .. n |-> Walk(base \o Part(k))]
<1>1. n \in Nat
  OBVIOUS
<1>2. ASSUME NEW k \in 0 .. n PROVE base \o Part(k) \in Seq(Z)
  <2>1. Part(k) \in Seq(Z)
    OBVIOUS
  <2> HIDE DEF Part
  <2> QED
    BY <2>1, ConcatProperties
<1>3. Part(0) = <<>> /\ Part(n) = path /\ base \o <<>> = base
  BY SubSeqEmpty, SubSeqFull, ConcatEmptySeq
<1>4. ASSUME NEW k \in Nat, k + 1 <= n
      PROVE  Walk(base \o Part(k + 1)) = Keep(Walk(base \o Part(k)), path[k + 1])
  <2>1. /\ Part(k) \in Seq(Z) /\ path[k + 1] \in Z
        /\ Part(k + 1) = Append(Part(k), path[k + 1])
    BY <1>4, NextPart
  <2> HIDE DEF Part
  <2>2. base \o Part(k + 1) = Append(base \o Part(k), path[k + 1])
    BY <2>1, AppendAfter
  <2>3. base \o Part(k) \in Seq(Z)
    BY <2>1, ConcatProperties
  <2> QED
    BY <2>1, <2>2, <2>3, WalkStep
<1> HIDE DEF Part, n
<1>5. w \in [0 .. n -> Seq(Z)]
  BY <1>2, WalkStep
<1>6. w[0] = Walk(base) /\ w[n] = Walk(base \o path)
  <2>1. w[0] = Walk(base \o Part(0)) /\ w[n] = Walk(base \o Part(n))
    BY <1>1
  <2> QED
    BY <1>3, <2>1, Zenon
<1>7. \A k \in Nat : k + 1 <= n => w[k + 1] = Keep(w[k], path[k + 1])
  BY <1>1, <1>4
<1> HIDE DEF w
<1> QED
  BY <1>5, <1>6, <1>7 DEF n

\* Of an endpoint, the segments and the slash that a last "." leaves.
Leaves(path) == {path[i] : i \in DOMAIN path} \cup {Nothing}

\* The path is the directory with segments of G after it, at least one if some.
Under(path, D, G, some) ==
  \E rest \in Seq(G) : path = D \o rest /\ (some => rest # <<>>)

\* What one more segment that does not go up leaves of the walk.
LEMMA KeepBelow ==
  ASSUME NEW Z, Nothing \in Z, NEW G \in SUBSET Z, NEW kept \in Seq(Z), NEW x \in G, x # Up,
         kept # <<>> \/ x # Nothing,
         NEW D \in Seq(Z), Under(Root(kept), D, G, FALSE)
  PROVE  Under(Root(Keep(kept, x)), D, G, x # Here) /\ Keep(kept, x) # <<>>
<1>0. PICK rest \in Seq(G) : Root(kept) = D \o rest
  BY DEF Under
<1>1. CASE x = Here
  <2>1. Keep(kept, x) = IF kept = <<>> THEN <<Nothing>> ELSE kept
    BY <1>1, KeepCases
  <2>2. Root(<<>>) = <<Nothing>> /\ Root(<<Nothing>>) = <<Nothing>> /\ <<Nothing>> # <<>>
    <3>1. <<Nothing>> # <<>> /\ <<Nothing>>[1] = Nothing /\ <<Nothing>> \o <<>> = <<Nothing>>
      OBVIOUS
    <3> QED
      BY <3>1 DEF Root
  <2>3. Root(Keep(kept, x)) = D \o rest /\ Keep(kept, x) # <<>>
    BY <1>0, <2>1, <2>2
  <2> QED
    BY <1>1, <2>3 DEF Under
<1>2. CASE x # Here
  <2>1. Keep(kept, x) = Append(kept, x) /\ x \in Z
    BY <1>2, KeepCases
  <2>2. Append(kept, x) # <<>> /\ Root(Append(kept, x)) = Append(D \o rest, x)
    <3>1. Append(kept, x) # <<>>
      BY <2>1, AppendProperties
    <3> QED
      BY <1>0, <2>1, <3>1, RootAppend
  <2>3. rest \in Seq(Z)
    BY SeqMonotonic
  <2> DEFINE more == Append(rest, x)
  <2>4. more \in Seq(G) /\ more # <<>> /\ more = Append(rest, x)
    BY AppendProperties
  <2> HIDE DEF more
  <2>5. Append(D \o rest, x) = D \o more
    <3>1. /\ x \in Z /\ rest \in Seq(Z) /\ D \in Seq(Z)
          /\ more = Append(rest, x)
      BY <2>1, <2>3, <2>4
    <3> QED
      BY <3>1, AppendAfter
  <2>6. Root(Append(kept, x)) = D \o more
    BY <2>2, <2>5
  <2> QED
    BY <2>1, <2>2, <2>4, <2>6 DEF Under
<1> QED
  BY <1>1, <1>2

\* What an endpoint that neither begins with a slash nor goes up adds to a base.
LEMMA WalkBelow ==
  ASSUME NEW Z, Nothing \in Z, NEW base \in Seq(Z), NEW path \in Seq(Z), path # <<>>,
         path[1] # Nothing, \A i \in DOMAIN path : path[i] # Up
  PROVE  Under(Rooted(Close(Walk(base \o path), Last(path))), Root(Walk(base)), Leaves(path), TRUE)
<1> DEFINE n == Len(path)
           D == Root(Walk(base))
           G == Leaves(path)
<1>1. n \in Nat \ {0} /\ DOMAIN path = 1 .. n /\ \A i \in 1 .. n : path[i] \in Z
  OBVIOUS
<1>2. G \in SUBSET Z /\ Nothing \in G /\ \A i \in 1 .. n : path[i] \in G /\ path[i] # Up
  BY <1>1 DEF Leaves
<1>3. D \in Seq(Z) /\ Len(D) \in Nat \ {0}
  BY WalkStep, RootFacts
<1>4. PICK w \in [0 .. n -> Seq(Z)] :
        /\ w[0] = Walk(base) /\ w[n] = Walk(base \o path)
        /\ \A k \in Nat : k + 1 <= n => w[k + 1] = Keep(w[k], path[k + 1])
  BY WalkOn
<1>5. Root(w[0]) = D /\ D \o <<>> = D /\ <<>> \in Seq(G) /\ Last(path) = path[n]
  <2>1. D \o <<>> = D
    <3> HIDE DEF D
    <3> QED
      BY <1>3, ConcatEmptySeq
  <2> QED
    BY <1>4, <2>1, EmptySeq DEF Last
<1> HIDE DEF n, D, G
<1> DEFINE Has(k) == /\ Under(Root(w[k]), D, G, k # 0 /\ path[k] # Here)
                     /\ k # 0 => w[k] # <<>>
           T == {k \in Nat : k <= n => Has(k)}
<1>6. 0 \in T
  <2>1. Has(0)
    BY <1>5 DEF Under
  <2> HIDE DEF Has
  <2> QED
    BY <2>1
<1>7. ASSUME NEW k \in Nat, k \in T PROVE k + 1 \in T
  <2> HIDE DEF Has
  <2> SUFFICES ASSUME k + 1 <= n PROVE Has(k + 1)
    OBVIOUS
  <2> DEFINE x == path[k + 1]
             kept == w[k]
  <2>0. k <= n /\ k + 1 \in 1 .. n /\ k \in 0 .. n /\ k + 1 # 0
    BY <1>1
  <2>1. Under(Root(kept), D, G, FALSE) /\ (k # 0 => kept # <<>>)
    BY <1>7, <2>0 DEF Has, Under
  <2>2. x \in G /\ x # Up /\ (k = 0 => x # Nothing)
    BY <1>2, <2>0
  <2>3. kept \in Seq(Z) /\ w[k + 1] = Keep(kept, x) /\ (kept # <<>> \/ x # Nothing)
    BY <1>4, <2>0, <2>1, <2>2
  <2> HIDE DEF x, kept
  <2>4. Under(Root(Keep(kept, x)), D, G, x # Here) /\ Keep(kept, x) # <<>>
    BY <1>2, <1>3, <2>1, <2>2, <2>3, KeepBelow
  <2> QED
    BY <2>0, <2>3, <2>4 DEF Has, Under, x
<1>8. n \in T
  <2> HIDE DEF T
  <2> QED
    BY <1>1, <1>6, <1>7, Induct
<1> DEFINE kept == w[n]
           closed == Close(kept, path[n])
<1>9. PICK rest \in Seq(G) : /\ Root(kept) = D \o rest /\ kept # <<>>
                             /\ path[n] # Here => rest # <<>>
  <2>1. n <= n /\ n # 0
    BY <1>1
  <2>2. Has(n)
    <3> HIDE DEF Has
    <3> QED
      BY <1>8, <2>1
  <2> QED
    BY <2>1, <2>2 DEF Under
<1>10. kept \in Seq(Z) /\ kept = Walk(base \o path) /\ path[n] # Up
  BY <1>1, <1>2, <1>4
<1> HIDE DEF kept
<1>11. PICK all \in Seq(G) : all # <<>> /\ Root(closed) = D \o all /\ closed \in Seq(Z)
  <2>1. CASE path[n] = Here
    <3>1. closed = Append(kept, Nothing)
      BY <1>9, <2>1 DEF Close
    <3>2. Root(closed) = Append(D \o rest, Nothing)
      BY <1>9, <1>10, <3>1, RootAppend
    <3>3. closed \in Seq(Z)
      BY <1>10, <3>1, AppendProperties
    <3> DEFINE more == Append(rest, Nothing)
    <3>4. more \in Seq(G) /\ more # <<>> /\ more = Append(rest, Nothing)
      BY <1>2, AppendProperties
    <3> HIDE DEF closed, more
    <3>5. Append(D \o rest, Nothing) = D \o more
      <4>1. rest \in Seq(Z)
        BY <1>2, SeqMonotonic
      <4> QED
        BY <1>3, <3>4, <4>1, AppendAfter
    <3> QED
      BY <3>2, <3>3, <3>4, <3>5
  <2>2. CASE path[n] # Here
    <3>1. closed = kept
      BY <1>10, <2>2 DEF Close
    <3> QED
      BY <1>9, <1>10, <2>2, <3>1
  <2> QED
    BY <2>1, <2>2
<1>12. Rooted(closed) = Root(closed)
  <2>1. all \in Seq(Z) /\ Len(all) \in Nat \ {0}
    <3>1. all \in Seq(Z)
      BY <1>2, SeqMonotonic
    <3> QED
      BY <1>11, <3>1, EmptySeq
  <2>2. Len(D \o all) = Len(D) + Len(all)
    BY <1>3, <2>1, ConcatProperties
  <2>3. Len(Root(closed)) > 1
    <3>1. Len(Root(closed)) = Len(D) + Len(all)
      BY <1>11, <2>2
    <3> QED
      BY <1>3, <2>1, <3>1
  <2> HIDE DEF closed
  <2> QED
    BY <1>11, <2>3, RootFacts
<1>13. Under(Rooted(closed), D, G, TRUE)
  BY <1>11, <1>12 DEF Under
<1> QED
  BY <1>5, <1>10, <1>13 DEF D, G

\* The flattening of a path is unfolded.
LEMMA FlattenUnfolded ==
  ASSUME NEW X, NEW s \in Seq(Seq(X)), s # <<>>
  PROVE  \E f \in [1 .. Len(s) -> Seq(X)] :
           /\ FlattenSeq(s) = f[Len(s)]
           /\ f[1] = s[1]
           /\ \A k \in Nat \ {0} : k + 1 <= Len(s) => f[k + 1] = f[k] \o s[k + 1]
<1> DEFINE n == Len(s)
           V == Seq(X)
           step == [i \in 1 .. n |-> [x \in V |-> x \o s[i]]]
           F(g) == [i \in 1 .. n |-> IF i = 1 THEN s[i] ELSE g[i - 1] \o s[i]]
           f == CHOOSE g : g = F(g)
<1>1. n \in Nat \ {0} /\ <<>> \in V /\ \A i \in 1 .. n : s[i] \in V
  OBVIOUS
<1>2. step \in Steps(V, n)
  <2>1. \A i \in 1 .. n : \A x \in V : x \o s[i] \in V
    BY <1>1, ConcatProperties
  <2> HIDE DEF V, n
  <2> QED
    BY <2>1 DEF Steps
<1>3. \A i \in 1 .. n : <<>> \o s[i] = s[i]
  BY <1>1, ConcatEmptySeq
<1>4. FlattenSeq(s) = f[n]
  <2>1. Len(s) # 0
    BY <1>1
  <2> QED
    BY <2>1 DEF FlattenSeq
<1> HIDE DEF n, V
<1>5. PICK g : Runs(g, V, <<>>, n, step)
  BY <1>1, <1>2, Iterated
<1> HIDE DEF step
<1>6. ASSUME NEW i \in 1 .. n PROVE g[i] = g[i - 1] \o s[i] /\ g[i] \in V
  <2>1. g[i - 1] \in V
    BY <1>1, <1>5 DEF Runs
  <2>2. g[i] = step[i][g[i - 1]] /\ g[i] \in V
    BY <1>1, <1>5 DEF Runs
  <2>3. \A x \in V : step[i][x] = x \o s[i]
    BY DEF step
  <2> QED
    BY <2>1, <2>2, <2>3
<1>7. g[1] = s[1]
  <2>1. 1 \in 1 .. n /\ 1 - 1 = 0 /\ g[0] = <<>>
    BY <1>1, <1>5 DEF Runs
  <2>2. g[1] = g[0] \o s[1]
    BY <1>6, <2>1
  <2> QED
    BY <1>3, <2>1, <2>2
<1> DEFINE h == [i \in 1 .. n |-> g[i]]
<1>8. h = F(h)
  <2>1. ASSUME NEW i \in 1 .. n PROVE h[i] = IF i = 1 THEN s[i] ELSE h[i - 1] \o s[i]
    <3>1. i = 1 \/ i - 1 \in 1 .. n
      BY <1>1
    <3> QED
      BY <1>6, <1>7, <3>1
  <2> QED
    BY <2>1
<1>9. f = F(f)
  <2> HIDE DEF F, h
  <2> QED
    BY <1>8
<1> HIDE DEF f, h
<1>10. f[1] = s[1] /\ \A i \in 1 .. n : i # 1 => f[i] = f[i - 1] \o s[i]
  <2>1. \A i \in 1 .. n : f[i] = IF i = 1 THEN s[i] ELSE f[i - 1] \o s[i]
    BY <1>9, Zenon
  <2>2. 1 \in 1 .. n
    BY <1>1
  <2> QED
    BY <2>1, <2>2, Zenon
<1>11. \A k \in Nat \ {0} : k + 1 <= n => f[k + 1] = f[k] \o s[k + 1]
  <2> SUFFICES ASSUME NEW k \in Nat \ {0}, k + 1 <= n PROVE f[k + 1] = f[k] \o s[k + 1]
    OBVIOUS
  <2>1. k + 1 \in 1 .. n /\ k + 1 # 1 /\ (k + 1) - 1 = k
    BY <1>1
  <2> QED
    BY <1>10, <2>1
<1>12. f \in [1 .. n -> V]
  <2> DEFINE T == {k \in Nat : k # 0 /\ k <= n => f[k] \in V}
  <2>1. 0 \in T
    OBVIOUS
  <2>2. ASSUME NEW k \in Nat, k \in T PROVE k + 1 \in T
    <3> SUFFICES ASSUME k + 1 <= n PROVE f[k + 1] \in V
      OBVIOUS
    <3>1. CASE k = 0
      BY <1>1, <1>10, <3>1
    <3>2. CASE k # 0
      <4>1. f[k] \in V /\ s[k + 1] \in V
        BY <1>1, <2>2, <3>2
      <4>2. f[k + 1] = f[k] \o s[k + 1]
        BY <1>11, <3>2
      <4>3. f[k] \o s[k + 1] \in V
        BY <4>1, ConcatProperties DEF V
      <4> QED
        BY <4>2, <4>3
    <3> QED
      BY <3>1, <3>2
  <2>3. \A k \in 1 .. n : f[k] \in V
    <3>1. Nat \subseteq T
      <4> HIDE DEF T
      <4> QED
        BY <2>1, <2>2, Induct
    <3> QED
      BY <1>1, <3>1
  <2>4. f = [i \in 1 .. n |-> f[i]]
    BY <1>9
  <2> QED
    BY <2>3, <2>4
<1> QED
  BY <1>4, <1>10, <1>11, <1>12 DEF n, V

\* The pieces of a path are those of its segments, and its first is the first.
LEMMA FlattenHas ==
  ASSUME NEW X, NEW s \in Seq(Seq(X)), s # <<>>
  PROVE  /\ FlattenSeq(s) \in Seq(X)
         /\ s[1] # <<>> => FlattenSeq(s) # <<>> /\ FlattenSeq(s)[1] = s[1][1]
         /\ \A i \in 1 .. Len(s) : \A j \in 1 .. Len(s[i]) :
              \E l \in 1 .. Len(FlattenSeq(s)) : FlattenSeq(s)[l] = s[i][j]
<1> DEFINE n == Len(s)
<1>1. n \in Nat \ {0} /\ \A i \in 1 .. n : s[i] \in Seq(X)
  OBVIOUS
<1>2. PICK f \in [1 .. n -> Seq(X)] :
        /\ FlattenSeq(s) = f[n]
        /\ f[1] = s[1]
        /\ \A k \in Nat \ {0} : k + 1 <= n => f[k + 1] = f[k] \o s[k + 1]
  BY FlattenUnfolded
<1> HIDE DEF n
<1>3. ASSUME NEW k \in Nat \ {0}, k + 1 <= n
      PROVE  /\ Len(f[k]) \in Nat /\ Len(f[k + 1]) = Len(f[k]) + Len(s[k + 1])
             /\ \A l \in 1 .. Len(f[k]) : f[k + 1][l] = f[k][l]
             /\ \A j \in 1 .. Len(s[k + 1]) : f[k + 1][Len(f[k]) + j] = s[k + 1][j]
  <2> DEFINE a == f[k]
             b == s[k + 1]
  <2>1. a \in Seq(X) /\ b \in Seq(X)
    BY <1>1, <1>2, <1>3
  <2>0. f[k + 1] = a \o b
    BY <1>2, <1>3
  <2> HIDE DEF a, b
  <2>2. Len(a) \in Nat /\ Len(b) \in Nat
    BY <2>1, LenProperties
  <2>3. /\ Len(a \o b) = Len(a) + Len(b)
        /\ \A l \in 1 .. Len(a) + Len(b) :
             (a \o b)[l] = IF l <= Len(a) THEN a[l] ELSE b[l - Len(a)]
    BY <2>1, ConcatProperties
  <2>4. \A l \in 1 .. Len(a) : (a \o b)[l] = a[l]
    BY <2>2, <2>3
  <2>5. ASSUME NEW j \in 1 .. Len(b) PROVE (a \o b)[Len(a) + j] = b[j]
    <3>1. /\ Len(a) + j \in 1 .. Len(a) + Len(b) /\ ~(Len(a) + j <= Len(a))
          /\ (Len(a) + j) - Len(a) = j
      BY <2>2
    <3> QED
      BY <2>3, <3>1
  <2> QED
    BY <2>0, <2>2, <2>3, <2>4, <2>5 DEF a, b
<1>4. FlattenSeq(s) \in Seq(X)
  BY <1>1, <1>2
<1>5. ASSUME s[1] # <<>> PROVE FlattenSeq(s) # <<>> /\ FlattenSeq(s)[1] = s[1][1]
  <2> DEFINE T == {k \in Nat : k # 0 /\ k <= n => Len(f[k]) > 0 /\ f[k][1] = s[1][1]}
  <2>1. 0 \in T
    OBVIOUS
  <2>2. ASSUME NEW k \in Nat, k \in T PROVE k + 1 \in T
    <3> SUFFICES ASSUME k + 1 <= n PROVE Len(f[k + 1]) > 0 /\ f[k + 1][1] = s[1][1]
      OBVIOUS
    <3>1. CASE k = 0
      <4>1. s[1] \in Seq(X)
        BY <1>1
      <4>2. Len(s[1]) > 0
        BY <1>5, <4>1, EmptySeq
      <4> QED
        BY <1>2, <3>1, <4>2
    <3>2. CASE k # 0
      <4>1. Len(f[k]) > 0 /\ f[k][1] = s[1][1]
        BY <1>1, <2>2, <3>2
      <4>2. s[k + 1] \in Seq(X)
        BY <1>1
      <4>3. Len(s[k + 1]) \in Nat
        BY <4>2, LenProperties
      <4>4. /\ Len(f[k]) \in Nat /\ Len(f[k + 1]) = Len(f[k]) + Len(s[k + 1])
            /\ \A l \in 1 .. Len(f[k]) : f[k + 1][l] = f[k][l]
        BY <1>3, <3>2
      <4>5. 1 \in 1 .. Len(f[k])
        BY <4>1, <4>4
      <4>6. Len(f[k + 1]) > 0
        <5> DEFINE a == Len(f[k])
                   b == Len(s[k + 1])
        <5>1. a > 0 /\ a \in Nat /\ b \in Nat /\ Len(f[k + 1]) = a + b
          BY <4>1, <4>3, <4>4
        <5> HIDE DEF a, b
        <5> QED
          BY <5>1
      <4> QED
        BY <4>1, <4>4, <4>5, <4>6
    <3> QED
      BY <3>1, <3>2
  <2>3. n \in T
    <3> HIDE DEF T
    <3> QED
      BY <1>1, <2>1, <2>2, Induct
  <2>4. Len(f[n]) > 0 /\ f[n][1] = s[1][1]
    BY <1>1, <2>3
  <2>5. f[n] # <<>>
    BY <2>4, EmptySeq
  <2> QED
    BY <1>2, <2>4, <2>5
<1>6. ASSUME NEW i \in 1 .. n, NEW j \in 1 .. Len(s[i])
      PROVE  \E l \in 1 .. Len(f[n]) : f[n][l] = s[i][j]
  <2> DEFINE Has(k) == \E l \in 1 .. Len(f[k]) : f[k][l] = s[i][j]
             T == {k \in Nat : i <= k /\ k <= n => Has(k)}
  <2>0. i \in Nat \ {0} /\ s[i] \in Seq(X) /\ Len(s[i]) \in Nat
    <3>1. s[i] \in Seq(X)
      BY <1>1
    <3> QED
      BY <1>1, <3>1, LenProperties
  <2>1. 0 \in T
    BY <2>0
  <2>2. ASSUME NEW k \in Nat, k \in T PROVE k + 1 \in T
    <3> SUFFICES ASSUME i <= k + 1, k + 1 <= n PROVE Has(k + 1)
      OBVIOUS
    <3>1. CASE k = 0
      BY <1>2, <2>0, <3>1
    <3>2. CASE k # 0 /\ i = k + 1
      <4>1. /\ Len(f[k]) \in Nat /\ Len(f[k + 1]) = Len(f[k]) + Len(s[i])
            /\ f[k + 1][Len(f[k]) + j] = s[i][j]
        BY <1>3, <3>2
      <4> DEFINE a == Len(f[k])
                 b == Len(s[i])
      <4>2. a \in Nat /\ b \in Nat /\ j \in 1 .. b /\ Len(f[k + 1]) = a + b
        BY <2>0, <4>1
      <4> HIDE DEF a, b
      <4>3. a + j \in 1 .. a + b
        BY <4>2
      <4>4. Len(f[k]) + j \in 1 .. Len(f[k + 1])
        BY <4>2, <4>3 DEF a
      <4> QED
        BY <4>1, <4>4
    <3>3. CASE k # 0 /\ i <= k
      <4>1. PICK l \in 1 .. Len(f[k]) : f[k][l] = s[i][j]
        BY <1>1, <2>2, <3>3
      <4>2. s[k + 1] \in Seq(X)
        BY <1>1
      <4>3. Len(s[k + 1]) \in Nat
        BY <4>2, LenProperties
      <4>4. /\ Len(f[k]) \in Nat /\ Len(f[k + 1]) = Len(f[k]) + Len(s[k + 1])
            /\ f[k + 1][l] = f[k][l]
        BY <1>3, <3>3
      <4> DEFINE a == Len(f[k])
                 b == Len(s[k + 1])
      <4>6. a \in Nat /\ b \in Nat /\ l \in 1 .. a /\ Len(f[k + 1]) = a + b
        BY <4>3, <4>4
      <4> HIDE DEF a, b
      <4>5. l \in 1 .. Len(f[k + 1])
        BY <4>6
      <4> QED
        BY <4>1, <4>4, <4>5
    <3> QED
      BY <2>0, <3>1, <3>2, <3>3
  <2>3. n \in T
    <3> HIDE DEF T
    <3> QED
      BY <1>1, <2>1, <2>2, Induct
  <2> HIDE DEF Has
  <2>4. Has(n)
    BY <1>1, <2>3
  <2> QED
    BY <2>4 DEF Has
<1> QED
  BY <1>2, <1>4, <1>5, <1>6 DEF n

\* A path without an escaped slash has its segments for its pieces.
LEMMA FlattenSingles ==
  ASSUME NEW X, NEW u \in Seq(X), u # <<>>
  PROVE  FlattenSeq([i \in DOMAIN u |-> <<u[i]>>]) = u
<1> DEFINE n == Len(u)
           s == [i \in DOMAIN u |-> <<u[i]>>]
<1>1. n \in Nat \ {0} /\ DOMAIN u = 1 .. n /\ \A i \in 1 .. n : u[i] \in X
  OBVIOUS
<1>2. s \in Seq(Seq(X)) /\ Len(s) = n /\ s # <<>> /\ \A i \in 1 .. n : s[i] = <<u[i]>>
  <2>1. \A i \in 1 .. n : <<u[i]>> \in Seq(X)
    BY <1>1
  <2>2. s \in [1 .. n -> Seq(X)]
    <3> HIDE DEF n
    <3> QED
      BY <1>1, <2>1
  <2>3. s \in Seq(Seq(X))
    BY <1>1, <2>2, SeqDef
  <2>4. Len(s) = n
    <3> HIDE DEF s, n
    <3> QED
      BY <1>1, <2>2, <2>3, LenProperties
  <2> QED
    BY <1>1, <2>3, <2>4, EmptySeq
<1> HIDE DEF s
<1>3. PICK f \in [1 .. n -> Seq(X)] :
        /\ FlattenSeq(s) = f[n]
        /\ f[1] = s[1]
        /\ \A k \in Nat \ {0} : k + 1 <= n => f[k + 1] = f[k] \o s[k + 1]
  <2>1. PICK f \in [1 .. Len(s) -> Seq(X)] :
          /\ FlattenSeq(s) = f[Len(s)]
          /\ f[1] = s[1]
          /\ \A k \in Nat \ {0} : k + 1 <= Len(s) => f[k + 1] = f[k] \o s[k + 1]
    BY <1>2, FlattenUnfolded
  <2> HIDE DEF n
  <2> QED
    BY <1>2, <2>1
<1> DEFINE Part(k) == SubSeq(u, 1, k)
           T == {k \in Nat : k # 0 /\ k <= n => f[k] = Part(k)}
<1>4. Part(1) = <<u[1]>> /\ Part(n) = u
  <2>1. 1 \in 1 .. Len(u)
    BY <1>1
  <2>2. SubSeq(u, 1, 1) = <<u[1]>>
    <3>1. SubSeq(u, 1, 1) = <<u[1]>> \o SubSeq(u, 1 + 1, 1)
      BY <2>1, SubSeqRecursiveFirst
    <3>2. SubSeq(u, 1 + 1, 1) = <<>>
      BY SubSeqEmpty
    <3>3. <<u[1]>> \in Seq(X)
      BY <1>1, <2>1
    <3>4. <<u[1]>> \o <<>> = <<u[1]>>
      BY <3>3, ConcatEmptySeq
    <3> QED
      BY <3>1, <3>2, <3>4, Zenon
  <2>3. SubSeq(u, 1, Len(u)) = u
    BY SubSeqFull
  <2> QED
    BY <2>2, <2>3, Zenon
<1>5. \A k \in Nat \ {0} : k + 1 <= n => Part(k + 1) = Part(k) \o <<u[k + 1]>>
  <2> SUFFICES ASSUME NEW k \in Nat \ {0}, k + 1 <= n
               PROVE  Part(k + 1) = Part(k) \o <<u[k + 1]>>
    OBVIOUS
  <2>1. 1 \in 1 .. Len(u) /\ k + 1 \in 1 .. Len(u) /\ (k + 1) - 1 = k
    BY <1>1
  <2> QED
    BY <2>1, SubSeqRecursiveSecond
<1> HIDE DEF n, Part
<1>6. 0 \in T
  OBVIOUS
<1>7. ASSUME NEW k \in Nat, k \in T PROVE k + 1 \in T
  <2> SUFFICES ASSUME k + 1 <= n PROVE f[k + 1] = Part(k + 1)
    OBVIOUS
  <2>1. CASE k = 0
    BY <1>1, <1>2, <1>3, <1>4, <2>1
  <2>2. CASE k # 0
    <3>1. f[k] = Part(k) /\ k \in Nat \ {0} /\ k + 1 \in 1 .. n
      BY <1>1, <1>7, <2>2
    <3>2. f[k + 1] = f[k] \o s[k + 1]
      BY <1>3, <3>1
    <3>3. s[k + 1] = <<u[k + 1]>>
      BY <1>2, <3>1
    <3>4. Part(k + 1) = Part(k) \o <<u[k + 1]>>
      BY <1>5, <3>1
    <3> QED
      BY <3>1, <3>2, <3>3, <3>4
  <2> QED
    BY <2>1, <2>2
<1>8. f[n] = Part(n)
  <2>1. n \in T
    <3> HIDE DEF T
    <3> QED
      BY <1>1, <1>6, <1>7, Induct
  <2> QED
    BY <1>1, <2>1
<1> QED
  BY <1>3, <1>4, <1>8 DEF s

\* What the paths of the base and of the requests are spelt in.
Piece == Seq(Symbol \cup {"."})
Segment == Seq(Piece)

LEMMA SpecialSegments == {Nothing, Here} \subseteq Segment
<1>1. <<>> \in Piece /\ <<".">> \in Piece
  BY DEF Piece
<1> QED
  BY <1>1 DEF Nothing, Here, Segment

\* Unescaping a piece once is enough.
LEMMA DecodedPiece ==
  ASSUME NEW piece \in Seq(Symbol)
  PROVE  /\ Decoded(piece) \in Piece /\ piece \in Piece
         /\ Decoded(Decoded(piece)) = Decoded(piece)
<1> DEFINE d == Decoded(piece)
<1>1. /\ Len(piece) \in Nat /\ DOMAIN piece = 1 .. Len(piece)
      /\ \A i \in 1 .. Len(piece) : piece[i] \in Symbol
  OBVIOUS
<1>2. d \in [1 .. Len(piece) -> Symbol \cup {"."}]
  BY <1>1 DEF Decoded
<1>3. d \in Piece
  BY <1>1, <1>2, SeqDef DEF Piece
<1>4. Decoded(d) = d
  <2>1. \A i \in DOMAIN piece : d[i] # "%2e" /\ d[i] = IF piece[i] = "%2e" THEN "." ELSE piece[i]
    BY DEF Decoded
  <2>2. DOMAIN d = DOMAIN piece /\ d = [i \in DOMAIN piece |-> d[i]]
    BY DEF Decoded
  <2>3. Decoded(d) = [i \in DOMAIN d |-> IF d[i] = "%2e" THEN "." ELSE d[i]]
    BY DEF Decoded
  <2> HIDE DEF d
  <2> QED
    BY <2>1, <2>2, <2>3
<1>5. piece \in Piece
  BY SeqMonotonic DEF Piece
<1> QED
  BY <1>3, <1>4, <1>5

\* The path of a base: the pieces of it, and how it is re-encoded.
LEMMA UnescapedBase ==
  ASSUME NEW base \in Seq(Seq(Seq(Symbol))), base # <<>>, base[1] = Nothing
  PROVE  LET u == Unescaped(base)
         IN  /\ u \in Seq(Piece) /\ u # <<>> /\ u[1] = <<>>
             /\ \A i \in DOMAIN u : Decoded(u[i]) = u[i]
             /\ \A i \in DOMAIN base :
                  base[i] \in {Here, Up} => \E l \in DOMAIN u : base[i] = <<u[l]>>
<1> DEFINE p == FlattenSeq(base)
           u == Unescaped(base)
           n == Len(p)
<1>1. /\ p \in Seq(Seq(Symbol)) /\ p # <<>> /\ p[1] = <<>>
      /\ \A i \in 1 .. Len(base) : \A j \in 1 .. Len(base[i]) :
           \E l \in 1 .. Len(p) : p[l] = base[i][j]
  <2>1. base[1] # <<>> /\ base[1][1] = <<>>
    BY DEF Nothing
  <2> QED
    BY <2>1, FlattenHas
<1>2. u = [i \in DOMAIN p |-> Decoded(p[i])]
  BY DEF Unescaped
<1> HIDE DEF p, u
<1>3. /\ n \in Nat \ {0} /\ DOMAIN p = 1 .. n /\ \A i \in 1 .. n : p[i] \in Seq(Symbol)
  BY <1>1, LenProperties, EmptySeq, ElementOfSeq
<1> HIDE DEF n
<1>4. \A i \in 1 .. n : u[i] = Decoded(p[i]) /\ u[i] \in Piece /\ Decoded(u[i]) = u[i]
  BY <1>2, <1>3, DecodedPiece
<1>5. u \in [1 .. n -> Piece]
  BY <1>2, <1>3, <1>4
<1>6. u \in Seq(Piece) /\ DOMAIN u = 1 .. n /\ u # <<>>
  <2>1. u \in Seq(Piece)
    BY <1>3, <1>5, SeqDef
  <2>2. DOMAIN u = 1 .. n /\ 1 \in DOMAIN u
    BY <1>3, <1>5
  <2>3. u # <<>>
    <3>1. DOMAIN u = 1 .. Len(u) /\ Len(u) \in Nat
      BY <2>1, LenProperties
    <3>2. 1 \in 1 .. Len(u)
      BY <2>2, <3>1, Zenon
    <3>3. Len(u) # 0
      BY <3>1, <3>2
    <3> QED
      BY <3>3, EmptySeq
  <2> QED
    BY <2>1, <2>2, <2>3
<1>7. u[1] = <<>>
  <2>1. Decoded(<<>>) = <<>>
    BY DEF Decoded
  <2> QED
    BY <1>1, <1>3, <1>4, <2>1
<1>8. ASSUME NEW i \in DOMAIN base, base[i] \in {Here, Up}
      PROVE  \E l \in DOMAIN u : base[i] = <<u[l]>>
  <2>1. PICK q : base[i] = <<q>> /\ Decoded(q) = q
    <3>1. Decoded(<<".">>) = <<".">> /\ Decoded(<<".", ".">>) = <<".", ".">>
      BY DEF Decoded
    <3> QED
      BY <1>8, <3>1 DEF Here, Up
  <2>2. i \in 1 .. Len(base) /\ 1 \in 1 .. Len(base[i]) /\ base[i][1] = q
    BY <2>1
  <2>3. PICK l \in 1 .. Len(p) : p[l] = q
    BY <1>1, <2>2
  <2>4. l \in DOMAIN u /\ u[l] = q
    BY <1>4, <1>6, <2>1, <2>3 DEF n
  <2> QED
    BY <2>1, <2>4
<1> QED
  BY <1>4, <1>6, <1>7, <1>8 DEF u

\* All but the last segment of the path that the client puts before endpoints.
LEMMA BaseShape ==
  ASSUME NEW base \in Seq(Seq(Seq(Symbol))), base # <<>>, base[1] = Nothing
  PROVE  LET front == Front(BasePath(base))
         IN  /\ front \in Seq(Segment) /\ front # <<>> /\ front[1] = Nothing
             /\ Dotless(base) => \A i \in 1 .. Len(front) : front[i] \notin {Here, Up}
             /\ IF EndsInSlash(base) THEN front = Front(base)
                ELSE front = Reencoded(base) /\ Unescaped(front) = Unescaped(base)
<1> DEFINE u == Unescaped(base)
           front == Front(BasePath(base))
           n == Len(base)
<1>1. /\ u \in Seq(Piece) /\ u # <<>> /\ u[1] = <<>>
      /\ \A i \in DOMAIN u : Decoded(u[i]) = u[i]
      /\ \A i \in DOMAIN base :
           base[i] \in {Here, Up} => \E l \in DOMAIN u : base[i] = <<u[l]>>
  BY UnescapedBase
<1> HIDE DEF u
<1>2. Dotless(base) => \A i \in DOMAIN u : <<u[i]>> \notin {Here, Up}
  <2> SUFFICES ASSUME Dotless(base), NEW i \in DOMAIN u PROVE <<u[i]>> \notin {Here, Up}
    OBVIOUS
  <2>1. u[i] \notin {<<".">>, <<".", ".">>}
    BY DEF Dotless, u
  <2> DEFINE q == u[i]
  <2> HIDE DEF q
  <2>2. <<q>> = << <<".">> >> => q = <<".">>
    OBVIOUS
  <2>3. <<q>> = << <<".", ".">> >> => q = <<".", ".">>
    OBVIOUS
  <2> QED
    BY <2>1, <2>2, <2>3 DEF Here, Up, q
<1>3. /\ n \in Nat \ {0} /\ DOMAIN base = 1 .. n /\ base \in Seq(Segment)
      /\ \A i \in 1 .. n : base[i] \in Segment
  <2>1. Seq(Symbol) \subseteq Piece
    BY DecodedPiece
  <2>2. Seq(Seq(Symbol)) \subseteq Segment
    BY <2>1, SeqMonotonic DEF Segment
  <2>3. base \in Seq(Segment)
    BY <2>2, SeqMonotonic
  <2> QED
    BY <2>3, EmptySeq, LenProperties, ElementOfSeq
<1>4. CASE EndsInSlash(base)
  <2>1. front = SubSeq(base, 1, n - 1)
    BY <1>4 DEF BasePath, Front
  <2>2. n > 1
    <3>1. n = 1 => Last(base) = Nothing /\ Len(Nothing) = 1
      BY DEF Last, Nothing
    <3> QED
      BY <1>3, <1>4, <3>1 DEF EndsInSlash
  <2>3. /\ front \in Seq(Segment) /\ Len(front) = n - 1
        /\ \A i \in 1 .. n - 1 : front[i] = base[i]
    <3> HIDE DEF front, n
    <3>1. /\ \A i \in 1 .. n - 1 : base[i] \in Segment
          /\ n - 1 \in Int /\ 1 <= n - 1 /\ (n - 1) - 1 + 1 = n - 1
          /\ \A i \in 1 .. n - 1 : 1 + i - 1 = i
      BY <1>3, <2>2
    <3> QED
      BY <2>1, <3>1, SubSeqProperties
  <2> HIDE DEF front, n
  <2>4. front # <<>> /\ front[1] = Nothing
    <3>1. 1 \in 1 .. n - 1
      BY <1>3, <2>2
    <3>2. Len(front) > 0
      BY <1>3, <2>2, <2>3
    <3> QED
      BY <2>3, <3>1, <3>2, EmptySeq
  <2>5. Dotless(base) => \A i \in 1 .. Len(front) : front[i] \notin {Here, Up}
    <3> SUFFICES ASSUME Dotless(base), NEW i \in 1 .. Len(front) PROVE front[i] \notin {Here, Up}
      OBVIOUS
    <3>1. i \in DOMAIN base /\ front[i] = base[i]
      BY <1>3, <2>3
    <3> QED
      BY <1>1, <1>2, <3>1
  <2>6. front = Front(base)
    BY <2>1 DEF Front, n
  <2> QED
    BY <1>4, <2>3, <2>4, <2>5, <2>6 DEF front
<1>5. CASE ~EndsInSlash(base)
  <2> DEFINE r == Reencoded(base)
             m == Len(u)
  <2>1. r = [i \in DOMAIN u |-> <<u[i]>>]
    BY DEF Reencoded, u
  <2>2. m \in Nat \ {0} /\ DOMAIN u = 1 .. m /\ \A i \in 1 .. m : u[i] \in Piece
    BY <1>1, EmptySeq, LenProperties, ElementOfSeq
  <2> HIDE DEF r, m
  <2>3. r \in Seq(Segment) /\ Len(r) = m
    <3>1. \A i \in 1 .. m : <<u[i]>> \in Segment
      BY <2>2 DEF Segment
    <3>2. r \in [1 .. m -> Segment]
      BY <2>1, <2>2, <3>1
    <3>3. r \in Seq(Segment)
      BY <2>2, <3>2, SeqDef
    <3> QED
      BY <2>2, <3>2, <3>3, LenProperties
  <2>4. front = r
    <3>1. front = Front(Append(r, Nothing))
      BY <1>5 DEF BasePath, r
    <3>2. Nothing \in Segment
      BY SpecialSegments
    <3>3. Len(Append(r, Nothing)) - 1 = m
      BY <2>2, <2>3, <3>2, AppendProperties
    <3>4. SubSeq(Append(r, Nothing), 1, m) = r
      <4>1. Append(r, Nothing) = r \o <<Nothing>> /\ <<Nothing>> \in Seq(Segment)
        BY <2>3, <3>2, AppendIsConcat
      <4>2. 1 \in 1 .. Len(r) /\ m \in 1 .. Len(r)
        BY <2>2, <2>3
      <4>3. SubSeq(r \o <<Nothing>>, 1, m) = SubSeq(r, 1, m)
        BY <2>3, <4>1, <4>2, SubSeqOfConcat1
      <4>4. SubSeq(r, 1, Len(r)) = r
        BY <2>3, SubSeqFull
      <4> QED
        BY <2>3, <4>1, <4>3, <4>4
    <3> HIDE DEF front
    <3> QED
      BY <3>1, <3>3, <3>4 DEF Front
  <2>5. front # <<>> /\ front[1] = Nothing
    <3>1. 1 \in DOMAIN u
      BY <2>2
    <3>2. r[1] = << <<>> >>
      BY <1>1, <2>1, <3>1
    <3>3. r # <<>>
      BY <2>2, <2>3, EmptySeq
    <3> QED
      BY <2>4, <3>2, <3>3 DEF Nothing
  <2>6. Dotless(base) => \A i \in 1 .. Len(front) : front[i] \notin {Here, Up}
    <3> HIDE DEF front
    <3> QED
      BY <1>2, <2>1, <2>2, <2>3, <2>4
  <2>7. Unescaped(r) = u
    <3>1. FlattenSeq(r) = u
      BY <1>1, <2>1, FlattenSingles
    <3>2. Unescaped(r) = [i \in DOMAIN u |-> Decoded(u[i])]
      BY <3>1 DEF Unescaped
    <3>3. u = [i \in DOMAIN u |-> u[i]]
      BY <1>1
    <3> QED
      BY <1>1, <3>2, <3>3
  <2> HIDE DEF front
  <2> QED
    BY <1>5, <2>3, <2>4, <2>5, <2>6, <2>7 DEF front, r, u
<1> QED
  BY <1>4, <1>5

\* The directory that all requests share is what was kept of the base path.
LEMMA DirectoryRoot ==
  ASSUME NEW base, NEW front \in Seq(Segment), front = Front(BasePath(base))
  PROVE  Directory(base) = Root(Walk(front)) /\ Walk(front) \in Seq(Segment)
<1> DEFINE w == Walk(front)
           kept == Keep(w, Here)
           closed == Append(kept, Nothing)
<1>1. Nothing \in Segment /\ Here \in Segment
  BY SpecialSegments
<1>2. w \in Seq(Segment) /\ Walk(Append(front, Here)) = kept
  BY <1>1, WalkStep
<1>3. front \o <<Here>> = Append(front, Here)
  BY <1>1, AppendIsConcat
<1> HIDE DEF w
<1>4. /\ kept \in Seq(Segment) /\ kept # <<>> /\ Root(kept) = Root(w)
  <2>1. kept = IF w = <<>> THEN <<Nothing>> ELSE w
    BY KeepCases
  <2>2. Root(<<>>) = <<Nothing>> /\ Root(<<Nothing>>) = <<Nothing>>
    <3>1. <<Nothing>> # <<>> /\ <<Nothing>>[1] = Nothing /\ <<Nothing>> \o <<>> = <<Nothing>>
      OBVIOUS
    <3> QED
      BY <3>1 DEF Root
  <2>3. <<Nothing>> \in Seq(Segment) /\ <<Nothing>> # <<>>
    BY <1>1
  <2> HIDE DEF kept
  <2> QED
    BY <1>2, <2>1, <2>2, <2>3
<1>5. Directory(base) = Front(Rooted(closed))
  <2>1. Last(<<Here>>) = Here
    BY DEF Last
  <2>2. Close(kept, Here) = closed
    BY <1>4 DEF Close
  <2> HIDE DEF closed
  <2> QED
    BY <1>2, <1>3, <2>1, <2>2 DEF Directory, Resolve, ResolveReference, kept
<1> HIDE DEF kept
<1> DEFINE d == Root(w)
<1>6. d \in Seq(Segment) /\ Len(d) \in Nat \ {0}
  BY <1>1, <1>2, RootFacts
<1>7. Root(closed) = Append(d, Nothing) /\ closed \in Seq(Segment)
  BY <1>1, <1>4, RootAppend, AppendProperties
<1> HIDE DEF closed, d
<1>8. Len(Append(d, Nothing)) = Len(d) + 1
  BY <1>1, <1>6, AppendProperties
<1>9. Rooted(closed) = Append(d, Nothing)
  <2>1. Len(Root(closed)) > 1
    BY <1>6, <1>7, <1>8
  <2> QED
    BY <1>1, <1>7, <2>1, RootFacts
<1>10. SubSeq(Append(d, Nothing), 1, Len(d)) = d
  <2>1. Append(d, Nothing) = d \o <<Nothing>> /\ <<Nothing>> \in Seq(Segment)
    BY <1>1, <1>6, AppendIsConcat
  <2>2. 1 \in 1 .. Len(d) /\ Len(d) \in 1 .. Len(d)
    BY <1>6
  <2>3. SubSeq(d \o <<Nothing>>, 1, Len(d)) = SubSeq(d, 1, Len(d))
    BY <1>6, <2>1, <2>2, SubSeqOfConcat1
  <2>4. SubSeq(d, 1, Len(d)) = d
    BY <1>6, SubSeqFull
  <2> QED
    BY <2>1, <2>3, <2>4
<1>11. (Len(d) + 1) - 1 = Len(d)
  BY <1>6
<1>12. Directory(base) = d
  BY <1>5, <1>8, <1>9, <1>10, <1>11 DEF Front
<1> QED
  BY <1>2, <1>12 DEF d, w

\* Nothing leads above the directory in what comes after it, unescaped or not.
LEMMA NothingAbove ==
  ASSUME NEW path, NEW rest \in Seq(Leaves(path)), ~HasDotDot(path)
  PROVE  ~HasDotDot(rest)
<1> SUFFICES ASSUME NEW i \in DOMAIN rest, NEW j \in DOMAIN rest[i]
             PROVE  Decoded(rest[i][j]) # <<".", ".">>
  BY DEF HasDotDot
<1>1. rest[i] \in Leaves(path)
  BY ElementOfSeq, LenProperties
<1>2. CASE rest[i] = Nothing
  <2>1. j = 1 /\ rest[i][j] = <<>>
    BY <1>2 DEF Nothing
  <2>2. Decoded(<<>>) = <<>> /\ <<>> # <<".", ".">>
    BY DEF Decoded
  <2> QED
    BY <2>1, <2>2
<1>3. CASE \E k \in DOMAIN path : rest[i] = path[k]
  BY <1>3 DEF HasDotDot
<1> QED
  BY <1>1, <1>2, <1>3 DEF Leaves

\* The path of a request, for every base and every endpoint that is accepted.
LEMMA Requested ==
  ASSUME NEW base \in Seq(Seq(Seq(Symbol))), base # <<>>, base[1] = Nothing,
         NEW raw, raw.path \in Seq(Seq(Seq(Symbol))), raw.path # <<>>, AcceptsEndpoint(raw)
  PROVE  LET directory == Directory(base)
             path == Resolve(base, raw)
             n == Len(directory)
         IN  /\ n < Len(path)
             /\ SubSeq(path, 1, n) = directory
             /\ ~HasDotDot(SubSeq(path, n + 1, Len(path)))
             /\ Dotless(base) =>
                  IF EndsInSlash(base) THEN directory = Front(base)
                  ELSE Unescaped(directory) = Unescaped(base)
<1> DEFINE front == Front(BasePath(base))
           d == Directory(base)
           p == raw.path
           path == Resolve(base, raw)
<1>1. /\ front \in Seq(Segment) /\ front # <<>> /\ front[1] = Nothing
      /\ Dotless(base) => \A i \in 1 .. Len(front) : front[i] \notin {Here, Up}
      /\ IF EndsInSlash(base) THEN front = Front(base)
         ELSE front = Reencoded(base) /\ Unescaped(front) = Unescaped(base)
  BY BaseShape
<1> HIDE DEF front
<1>2. Nothing \in Segment
  BY SpecialSegments
<1>3. d = Root(Walk(front)) /\ Walk(front) \in Seq(Segment)
  BY <1>1, DirectoryRoot DEF front
<1>4. p \in Seq(Segment) /\ p # <<>>
  <2>1. Seq(Symbol) \subseteq Piece
    BY DecodedPiece
  <2>2. Seq(Seq(Symbol)) \subseteq Segment
    BY <2>1, SeqMonotonic DEF Segment
  <2> QED
    BY <2>2, SeqMonotonic
<1>5. ~HasDotDot(p) /\ p[1] # Nothing
  <2>1. p # <<Nothing>> /\ (p[1] = Nothing => Len(p) = 1) /\ ~HasDotDot(p)
    BY DEF AcceptsEndpoint
  <2>2. Len(p) = 1 => p = <<p[1]>>
    BY <1>4
  <2> QED
    BY <2>1, <2>2
<1>6. \A i \in DOMAIN p : p[i] # Up
  <2> SUFFICES ASSUME NEW i \in DOMAIN p, p[i] = Up PROVE FALSE
    OBVIOUS
  <2>1. 1 \in DOMAIN p[i] /\ p[i][1] = <<".", ".">>
    BY DEF Up
  <2>2. Decoded(<<".", ".">>) = <<".", ".">>
    BY DEF Decoded
  <2>3. Decoded(p[i][1]) = <<".", ".">>
    BY <2>1, <2>2
  <2> QED
    BY <1>5, <2>1, <2>3 DEF HasDotDot
<1>7. path = Rooted(Close(Walk(front \o p), Last(p)))
  BY DEF Resolve, ResolveReference, front
<1> HIDE DEF p, path, d
<1>8. Under(path, d, Leaves(p), TRUE)
  BY <1>1, <1>2, <1>3, <1>4, <1>5, <1>6, <1>7, WalkBelow
<1>9. PICK rest \in Seq(Leaves(p)) : path = d \o rest /\ rest # <<>>
  BY <1>8 DEF Under
<1>10. d \in Seq(Segment) /\ Len(d) \in Nat \ {0}
  BY <1>2, <1>3, RootFacts
<1>11. rest \in Seq(Segment) /\ Len(rest) \in Nat \ {0}
  <2>1. Leaves(p) \subseteq Segment
    BY <1>2, <1>4, ElementOfSeq, LenProperties DEF Leaves
  <2>2. rest \in Seq(Segment)
    BY <2>1, SeqMonotonic
  <2> QED
    BY <1>9, <2>2, EmptySeq
<1>12. Len(path) = Len(d) + Len(rest)
  BY <1>9, <1>10, <1>11, ConcatProperties
<1>13. SubSeq(path, 1, Len(d)) = d
  <2>1. 1 \in 1 .. Len(d) /\ Len(d) \in 1 .. Len(d)
    BY <1>10
  <2>2. SubSeq(d \o rest, 1, Len(d)) = SubSeq(d, 1, Len(d))
    BY <1>10, <1>11, <2>1, SubSeqOfConcat1
  <2>3. SubSeq(d, 1, Len(d)) = d
    BY <1>10, SubSeqFull
  <2> QED
    BY <1>9, <2>2, <2>3
<1>14. SubSeq(path, Len(d) + 1, Len(path)) = rest
  <2> DEFINE a == Len(d)
             b == Len(rest)
  <2>1. a \in Nat /\ b \in Nat \ {0}
    BY <1>10, <1>11
  <2> HIDE DEF a, b
  <2>2. /\ a + 1 \in a + 1 .. a + b /\ a + b \in a + 1 .. a + b
        /\ (a + 1) - a = 1 /\ (a + b) - a = b
    BY <2>1
  <2>3. SubSeq(d \o rest, a + 1, a + b) = SubSeq(rest, (a + 1) - a, (a + b) - a)
    BY <1>10, <1>11, <2>2, SubSeqOfConcat2 DEF a, b
  <2>4. SubSeq(rest, 1, b) = rest
    BY <1>11, SubSeqFull DEF b
  <2> QED
    BY <1>9, <1>12, <2>2, <2>3, <2>4 DEF a, b
<1>15. Len(d) < Len(path)
  <2> DEFINE a == Len(d)
             b == Len(rest)
  <2>1. a \in Nat /\ b \in Nat \ {0} /\ Len(path) = a + b
    BY <1>10, <1>11, <1>12
  <2> HIDE DEF a, b
  <2>2. a < a + b
    BY <2>1
  <2> QED
    BY <2>1, <2>2 DEF a
<1>16. ~HasDotDot(rest)
  BY <1>5, <1>9, NothingAbove
<1>17. ASSUME Dotless(base)
       PROVE  IF EndsInSlash(base) THEN d = Front(base)
              ELSE Unescaped(d) = Unescaped(base)
  <2>1. Walk(front) = front
    BY <1>1, <1>2, <1>17, WalkPlain
  <2>2. d = front
    BY <1>1, <1>3, <2>1 DEF Root
  <2> QED
    BY <1>1, <2>2
<1> QED
  BY <1>13, <1>14, <1>15, <1>16, <1>17 DEF d, path

\* No accepted endpoint leaves the directory that all requests share, and of a
\* base path without dot segments that is what stands before its last slash, or
\* all of it, however long the paths are and whatever they are spelt in, escaped
\* or not (client.go:226-281).
THEOREM StaysBelow == Spec => []StaysBelowBase
<1>1. ASSUME MadeInv PROVE StaysBelowBase
  <2> SUFFICES ASSUME Taken("endpoint"), made.ok PROVE StaysBelowBase
    BY DEF StaysBelowBase
  <2> DEFINE base == given.input.base
             raw == given.input.raw
  <2>1. /\ base \in BasePaths /\ raw \in References /\ AcceptsEndpoint(raw)
        /\ made.path = Resolve(base, raw)
    BY <1>1 DEF MadeInv, Taken
  <2>2. /\ base \in Seq(Seq(Seq(Symbol))) /\ base # <<>> /\ base[1] = Nothing
        /\ raw.path \in Seq(Seq(Seq(Symbol))) /\ raw.path # <<>>
    BY <2>1, PathAssumption
  <2> HIDE DEF base, raw
  <2> QED
    BY <2>1, <2>2, Requested DEF StaysBelowBase, base, raw
<1> QED
  BY <1>1, Invariance, PTL

---------------------------------------------------------------------------
(* The host: the loop over lines, by induction on the lines read. *)

\* The loop over the lines is unfolded: there is what each step has read.
LEMMA Unfolded ==
  ASSUME NEW lines, Len(lines) \in Nat, NEW keys
  PROVE  \E read :
           /\ ParseAssignments(lines, keys) = read[Len(lines)]
           /\ read[0] = NoValues(keys)
           /\ \A i \in 1 .. Len(lines) : read[i] = ReadLine(read[i - 1], lines[i])
<1> DEFINE n == Len(lines)
           Step(g, i) == IF i = 0 THEN NoValues(keys) ELSE ReadLine(g[i - 1], lines[i])
           Unfolds(g, k) == g = [i \in 0 .. k |-> Step(g, i)]
           T == {k \in Nat : \E g : Unfolds(g, k)}
<1>1. 0 \in T
  <2> DEFINE g == [i \in 0 .. 0 |-> NoValues(keys)]
  <2>1. Unfolds(g, 0)
    OBVIOUS
  <2> QED
    BY <2>1
<1>2. ASSUME NEW k \in Nat, k \in T PROVE k + 1 \in T
  <2>1. PICK g : Unfolds(g, k)
    BY <1>2
  <2> DEFINE h == [i \in 0 .. k + 1 |-> IF i <= k THEN g[i] ELSE ReadLine(g[k], lines[k + 1])]
  <2>2. \A i \in 0 .. k : h[i] = g[i] /\ g[i] = Step(g, i)
    <3> HIDE DEF Step
    <3> QED BY <2>1
  <2>3. h[k + 1] = ReadLine(h[k], lines[k + 1])
    BY <2>2
  <2>4. h = [i \in 0 .. k + 1 |-> h[i]]
    OBVIOUS
  <2> HIDE DEF h
  <2>5. ASSUME NEW i \in 0 .. k + 1 PROVE h[i] = Step(h, i)
    <3>1. CASE i = 0
      BY <3>1, <2>2
    <3>2. CASE i \in 1 .. k
      <4>1. i \in 0 .. k /\ i - 1 \in 0 .. k /\ i # 0
        BY <3>2
      <4>2. h[i] = Step(g, i) /\ h[i - 1] = g[i - 1]
        BY <2>2, <4>1
      <4> QED
        BY <4>1, <4>2
    <3>3. CASE i = k + 1
      BY <3>3, <2>3
    <3> QED
      BY <3>1, <3>2, <3>3
  <2>6. Unfolds(h, k + 1)
    <3> HIDE DEF Step
    <3> QED BY <2>4, <2>5
  <2> HIDE DEF Unfolds
  <2> QED
    BY <2>6
<1>3. n \in T
  <2> HIDE DEF T, n
  <2> QED BY <1>1, <1>2, Induct DEF n
<1>4. PICK g : Unfolds(g, n)
  BY <1>3
<1> DEFINE read == CHOOSE f : Unfolds(f, n)
<1>5. Unfolds(read, n)
  <2> HIDE DEF Unfolds
  <2> QED BY <1>4
<1>6. ParseAssignments(lines, keys) = read[n]
  BY DEF ParseAssignments
<1> HIDE DEF read
<1>7. \A i \in 0 .. n : read[i] = Step(read, i)
  <2> HIDE DEF Step
  <2> QED BY <1>5
<1>8. read[0] = NoValues(keys)
  BY <1>7
<1>9. \A i \in 1 .. n : read[i] = ReadLine(read[i - 1], lines[i])
  BY <1>7
<1> QED
  BY <1>6, <1>8, <1>9

\* No key is that of a comment or of a line without one.
Named(keys) == {"#", ""} \cap keys = {}

\* What is known of the values after some lines keeps its form.
Parsed(parsed, keys) ==
  /\ parsed = [values |-> parsed.values, warnings |-> parsed.warnings]
  /\ parsed.values = [k \in keys |-> parsed.values[k]]

Says(line, key) == line[1] = key /\ line[2] # Broken

\* A line gives its value to its own key, if it says one, and to no other.
LEMMA LineRead ==
  ASSUME NEW keys, Named(keys),
         NEW parsed, Parsed(parsed, keys), NEW line
  PROVE  LET r == ReadLine(parsed, line)
         IN  /\ Parsed(r, keys)
             /\ \A k \in keys : r.values[k] = IF Says(line, k) THEN line[2] ELSE parsed.values[k]
<1> DEFINE r == ReadLine(parsed, line)
           values == parsed.values
           warnings == parsed.warnings
<1>1. parsed = [values |-> values, warnings |-> warnings] /\ values = [k \in keys |-> values[k]]
  BY Zenon DEF Parsed
<1>2. CASE line[1] = "#"
  <2>1. r = parsed
    BY <1>2, Zenon DEF ReadLine
  <2>2. \A k \in keys : ~Says(line, k)
    BY <1>2, Zenon DEF Says, Named
  <2> QED
    BY <2>1, <2>2, Zenon
<1>3. CASE line[1] # "#" /\ (line[1] = "" \/ line[2] = Broken)
  <2>1. r = [parsed EXCEPT !.warnings = @ + 1]
    BY <1>3, Zenon DEF ReadLine
  <2>2. \A k \in keys : ~Says(line, k)
    BY <1>3, Zenon DEF Says, Named
  <2> HIDE DEF r, values, warnings
  <2>3. r = [values |-> values, warnings |-> warnings + 1]
    BY <1>1, <2>1
  <2>4. r.values = values /\ r.warnings = warnings + 1
    BY <2>3
  <2> QED
    BY <1>1, <2>2, <2>3, <2>4 DEF Parsed, r, values
<1>4. CASE line[1] # "#" /\ line[1] # "" /\ line[2] # Broken
  <2>1. r = [parsed EXCEPT !.values[line[1]] = line[2]]
    BY <1>4, Zenon DEF ReadLine
  <2> DEFINE changed == [values EXCEPT ![line[1]] = line[2]]
  <2>2. r = [values |-> changed, warnings |-> warnings]
    <3>1. r = [parsed EXCEPT !.values = changed]
      BY <2>1, Zenon
    <3> HIDE DEF values, warnings, r, changed
    <3> QED
      BY <1>1, <3>1
  <2>3. changed = [k \in keys |-> IF k = line[1] THEN line[2] ELSE values[k]]
    <3> HIDE DEF values
    <3> QED BY <1>1
  <2>4. \A k \in keys : Says(line, k) <=> k = line[1]
    BY <1>4 DEF Says
  <2> HIDE DEF r, changed, values, warnings
  <2>5. r.values = changed /\ r.warnings = warnings
    BY <2>2
  <2>6. \A k \in keys : changed[k] = IF Says(line, k) THEN line[2] ELSE values[k]
    BY <2>3, <2>4
  <2>7. changed = [k \in keys |-> changed[k]]
    BY <2>3
  <2>8. Parsed(r, keys)
    BY <2>2, <2>5, <2>7 DEF Parsed
  <2> QED
    BY <2>5, <2>6, <2>8 DEF r, values
<1> QED
  BY <1>2, <1>3, <1>4

\* The value is what the last line that says one gives the key, "" without any.
LEMMA LastRead ==
  ASSUME NEW lines, Len(lines) \in Nat, DOMAIN lines = 1 .. Len(lines),
         NEW keys, Named(keys),
         NEW key \in keys
  PROVE  ParseAssignments(lines, keys).values[key] = LastValue(lines, key)
<1> DEFINE n == Len(lines)
           said(i) == {j \in 1 .. i : lines[j][1] = key /\ lines[j][2] # Broken}
           none == ""
           Tells(value, i) ==
             \/ said(i) = {} /\ value = none
             \/ \E j \in said(i) : value = lines[j][2] /\ \A m \in said(i) : m <= j
<1>1. n \in Nat /\ DOMAIN lines = 1 .. n
  OBVIOUS
<1>2. PICK read : /\ ParseAssignments(lines, keys) = read[n]
                  /\ read[0] = NoValues(keys)
                  /\ \A i \in 1 .. n : read[i] = ReadLine(read[i - 1], lines[i])
  BY <1>1, Unfolded
<1> DEFINE T == {i \in Nat : i <= n => Parsed(read[i], keys) /\ Tells(read[i].values[key], i)}
<1>3. 0 \in T
  <2>1. said(0) = {}
    OBVIOUS
  <2>2. Parsed(NoValues(keys), keys) /\ NoValues(keys).values[key] = none
    BY Zenon DEF NoValues, Parsed
  <2> HIDE DEF said, none
  <2> QED
    BY <1>1, <1>2, <2>1, <2>2
<1>4. ASSUME NEW i \in Nat, i \in T PROVE i + 1 \in T
  <2> HIDE DEF none
  <2> SUFFICES ASSUME i + 1 <= n
               PROVE  Parsed(read[i + 1], keys) /\ Tells(read[i + 1].values[key], i + 1)
    BY DEF T
  <2> DEFINE line == lines[i + 1]
             before == read[i]
             after == read[i + 1]
  <2>1. Parsed(before, keys) /\ Tells(before.values[key], i)
    <3> HIDE DEF Tells
    <3> QED BY <1>1, <1>4
  <2>2. after = ReadLine(before, line)
    BY <1>1, <1>2
  <2> HIDE DEF line, before, after
  <2>3. /\ Parsed(after, keys)
        /\ after.values[key] = IF Says(line, key) THEN line[2] ELSE before.values[key]
    <3>1. LET r == ReadLine(before, line)
          IN  /\ Parsed(r, keys)
              /\ \A k \in keys : r.values[k] = IF Says(line, k) THEN line[2] ELSE before.values[k]
      <4>1. Parsed(before, keys)
        BY <2>1
      <4> HIDE DEF T, Tells, said, n
      <4> QED
        BY <4>1, LineRead
    <3> QED
      BY <2>2, <3>1, Zenon
  <2>4. CASE Says(line, key)
    <3>1. i + 1 \in said(i + 1) /\ \A m \in said(i + 1) : m <= i + 1
      BY <2>4 DEF line, Says
    <3>2. after.values[key] = lines[i + 1][2]
      BY <2>3, <2>4 DEF line
    <3> HIDE DEF said
    <3> QED
      BY <2>3, <3>1, <3>2 DEF after
  <2>5. CASE ~Says(line, key)
    <3>1. said(i + 1) = said(i)
      BY <2>5 DEF line, Says
    <3>2. after.values[key] = before.values[key]
      BY <2>3, <2>5
    <3> HIDE DEF said
    <3> QED
      BY <2>1, <2>3, <3>1, <3>2 DEF after
  <2> QED
    BY <2>4, <2>5
<1>5. Tells(read[n].values[key], n)
  <2>1. n \in T
    <3>1. Nat \subseteq T
      <4> HIDE DEF T
      <4> QED BY <1>3, <1>4, Induct
    <3> HIDE DEF T
    <3> QED BY <1>1, <3>1
  <2> HIDE DEF Tells, n
  <2> QED
    BY <1>1, <2>1
<1> DEFINE value == read[n].values[key]
           S == {i \in DOMAIN lines : lines[i][1] = key /\ lines[i][2] # Broken}
           Latest(i) == \A j \in S : j <= i
<1>6. S = said(n)
  BY <1>1
<1>7. LastValue(lines, key) = IF S = {} THEN none ELSE lines[CHOOSE i \in S : Latest(i)][2]
  <2> HIDE DEF said, T, Tells, n, value
  <2> QED
    BY Zenon DEF LastValue
<1>8. S \subseteq Nat
  BY <1>1
<1> HIDE DEF none, S
<1>9. \/ S = {} /\ value = none
      \/ \E j \in S : value = lines[j][2] /\ Latest(j)
  BY <1>5, <1>6
<1> HIDE DEF value
<1>10. \A i, j \in S : Latest(i) /\ Latest(j) => i = j
  BY <1>8
<1>11. value = LastValue(lines, key)
  <2> HIDE DEF Latest
  <2> QED BY <1>7, <1>9, <1>10, Zenon
<1> QED
  BY <1>2, <1>11 DEF value

\* What is left of two texts when the blank ones are not said.
LEMMA SaidTexts ==
  ASSUME NEW a, NEW b
  PROVE  ToSet(Said(a) \o Said(b)) = {a, b} \ {"", " "}
<1> DEFINE W == {"", " "}
<1>1. /\ Said(a) = IF a \in W THEN <<>> ELSE <<a>>
      /\ Said(b) = IF b \in W THEN <<>> ELSE <<b>>
  BY Zenon DEF Said, Blank
<1> HIDE DEF W
<1>2. ToSet(Said(a) \o Said(b)) = {a, b} \ W
  <2>1. CASE a \in W /\ b \in W
    BY <1>1, <2>1 DEF ToSet
  <2>2. CASE a \in W /\ b \notin W
    BY <1>1, <2>2 DEF ToSet
  <2>3. CASE a \notin W /\ b \in W
    BY <1>1, <2>3 DEF ToSet
  <2>4. CASE a \notin W /\ b \notin W
    BY <1>1, <2>4 DEF ToSet
  <2> QED
    BY <2>1, <2>2, <2>3, <2>4
<1> QED
  BY <1>2 DEF W

\* The name of the system is what its file says last (system.go:105-125).
LEMMA OSTruthful ==
  ASSUME NEW file, file # Error, Len(file) \in Nat, DOMAIN file = 1 .. Len(file)
  PROVE  LET value(k) == LastValue(file, k)
         IN  /\ value("PRETTY_NAME") # "" => CollectOS(file) = <<value("PRETTY_NAME")>>
             /\ value("PRETTY_NAME") = "" =>
                  ToSet(CollectOS(file)) = {value("NAME"), value("VERSION")} \ {"", " "}
<1> DEFINE value(k) == LastValue(file, k)
           values == ParseAssignments(file, OSKey).values
<1>1. Named(OSKey)
  BY Zenon DEF Named, OSKey
<1>2. \A k \in OSKey : values[k] = value(k)
  <2> SUFFICES ASSUME NEW k \in OSKey PROVE values[k] = value(k)
    OBVIOUS
  <2> QED
    BY <1>1, LastRead
<1>3. {"PRETTY_NAME", "NAME", "VERSION"} \subseteq OSKey
  BY Zenon DEF OSKey
<1>4. /\ values["PRETTY_NAME"] = value("PRETTY_NAME")
      /\ values["NAME"] = value("NAME")
      /\ values["VERSION"] = value("VERSION")
  BY <1>2, <1>3, Zenon
<1>5. CollectOS(file) = IF values["PRETTY_NAME"] # "" THEN <<values["PRETTY_NAME"]>>
                        ELSE Said(values["NAME"]) \o Said(values["VERSION"])
  BY Zenon DEF CollectOS
<1> HIDE DEF values, value
<1>6. ToSet(Said(value("NAME")) \o Said(value("VERSION")))
        = {value("NAME"), value("VERSION")} \ {"", " "}
  BY SaidTexts, Zenon
<1>7. ASSUME value("PRETTY_NAME") # "" PROVE CollectOS(file) = <<value("PRETTY_NAME")>>
  BY <1>4, <1>5, <1>7, Zenon
<1>8. ASSUME value("PRETTY_NAME") = ""
      PROVE  ToSet(CollectOS(file)) = {value("NAME"), value("VERSION")} \ {"", " "}
  BY <1>4, <1>5, <1>6, <1>8, Zenon
<1> QED
  BY <1>7, <1>8, Zenon DEF value

\* Kernel and time zone are known where a source knows them (system.go:127-174).
LEMMA SourcesTruthful ==
  ASSUME NEW host
  PROVE  LET result == CollectSystem(host)
         IN  /\ "kernel" \in result.warnings <=>
                  {host.kernel, host.uname} \subseteq {Error, "", " "}
             /\ "Local" \in ToSet(result.facts.timezone) =>
                  "Local" \in {host.timezone, host.localtime}
             /\ "timezone" \in result.warnings =>
                  {host.timezone, host.localtime, host.location}
                    \subseteq {Error, "", " ", "Local"}
<1> DEFINE os == CollectOS(host.osRelease)
           kernel == CollectKernel(host.kernel, host.uname)
           architecture == NormalizeArchitecture(host.architecture)
           timezone == CollectTimezone(host.timezone, host.localtime, host.location)
           result == CollectSystem(host)
           facts == [os |-> os, kernel |-> kernel, architecture |-> architecture,
                     timezone |-> timezone]
           hostname == {k \in {"hostname"} : host.hostname = Error}
<1>1. /\ result.facts = facts
      /\ result.warnings = {k \in DOMAIN facts : facts[k] = <<>>} \cup hostname
  BY DEF CollectSystem
<1> HIDE DEF os, kernel, architecture, timezone, result
<1>2. "kernel" \in result.warnings <=> kernel = <<>>
  BY <1>1
<1>3. "timezone" \in result.warnings <=> timezone = <<>>
  BY <1>1
<1>4. result.facts.timezone = timezone
  BY <1>1
<1>5. \A text : <<text>> # <<>> /\ ToSet(<<text>>) = {text}
  BY DEF ToSet
<1>6. ToSet(<<>>) = {}
  BY DEF ToSet
<1>7. \A text : ~Usable(text) <=> text \in {Error, "", " "}
  BY Zenon DEF Usable, Blank
<1>8. kernel = <<>> <=> ~Usable(host.kernel) /\ ~Usable(host.uname)
  BY <1>5, Zenon DEF kernel, CollectKernel
<1>9. "kernel" \in result.warnings <=> {host.kernel, host.uname} \subseteq {Error, "", " "}
  BY <1>2, <1>7, <1>8, Zenon
<1>10. CASE Usable(host.timezone)
  <2>1. timezone = <<host.timezone>>
    BY <1>10, Zenon DEF timezone, CollectTimezone
  <2>2. timezone # <<>> /\ ToSet(timezone) = {host.timezone}
    BY <1>5, <2>1, Zenon
  <2> QED
    BY <1>3, <1>4, <1>9, <2>2, Zenon DEF result
<1>11. CASE ~Usable(host.timezone) /\ host.localtime \notin {Error, ""}
  <2>1. timezone = <<host.localtime>>
    BY <1>11, Zenon DEF timezone, CollectTimezone
  <2>2. timezone # <<>> /\ ToSet(timezone) = {host.localtime}
    BY <1>5, <2>1, Zenon
  <2> QED
    BY <1>3, <1>4, <1>9, <2>2, Zenon DEF result
<1>12. CASE /\ ~Usable(host.timezone) /\ host.localtime \in {Error, ""}
            /\ host.location \notin {Error, "", "Local"}
  <2>1. timezone = <<host.location>>
    BY <1>12, Zenon DEF timezone, CollectTimezone
  <2>2. timezone # <<>> /\ ToSet(timezone) = {host.location}
    BY <1>5, <2>1, Zenon
  <2>3. "Local" \notin ToSet(timezone)
    BY <1>12, <2>2, Zenon
  <2> QED
    BY <1>3, <1>4, <1>9, <2>2, <2>3, Zenon DEF result
<1>13. CASE /\ ~Usable(host.timezone) /\ host.localtime \in {Error, ""}
            /\ host.location \in {Error, "", "Local"}
  <2>1. timezone = <<>>
    BY <1>13, Zenon DEF timezone, CollectTimezone
  <2>2. {host.timezone, host.localtime, host.location} \subseteq {Error, "", " ", "Local"}
    BY <1>7, <1>13, Zenon
  <2>3. "Local" \notin ToSet(timezone)
    BY <1>6, <2>1, Zenon
  <2> QED
    BY <1>4, <1>9, <2>2, <2>3, Zenon DEF result
<1> QED
  BY <1>10, <1>11, <1>12, <1>13, Zenon

\* What the host and the release say is what the readable lines of their files
\* say last, however long the files (system.go:105-212, lbi.go:30-93).
THEOREM FactsTold == Spec => []FactsTruthful
<1>1. \A file \in Seq(Line) : Len(file) \in Nat /\ DOMAIN file = 1 .. Len(file)
  BY LenProperties
<1>2. ASSUME MadeInv, Taken("host")
      PROVE  /\ given.input.osRelease # Error =>
                  LET value(k) == LastValue(given.input.osRelease, k)
                  IN  /\ value("PRETTY_NAME") # "" => made.facts.os = <<value("PRETTY_NAME")>>
                      /\ value("PRETTY_NAME") = "" =>
                           ToSet(made.facts.os) = {value("NAME"), value("VERSION")} \ {"", " "}
             /\ "kernel" \in made.warnings <=>
                  {given.input.kernel, given.input.uname} \subseteq {Error, "", " "}
             /\ "Local" \in ToSet(made.facts.timezone) =>
                  "Local" \in {given.input.timezone, given.input.localtime}
             /\ "timezone" \in made.warnings =>
                  {given.input.timezone, given.input.localtime, given.input.location}
                    \subseteq {Error, "", " ", "Local"}
  <2> DEFINE host == given.input
             file == host.osRelease
             value(k) == LastValue(file, k)
  <2>1. host \in Hosts /\ made = CollectSystem(host)
    BY <1>2 DEF MadeInv, Taken
  <2>2. made.facts.os = CollectOS(file)
    BY <2>1 DEF CollectSystem
  <2>3. ASSUME file # Error
        PROVE  /\ value("PRETTY_NAME") # "" => made.facts.os = <<value("PRETTY_NAME")>>
               /\ value("PRETTY_NAME") = "" =>
                    ToSet(made.facts.os) = {value("NAME"), value("VERSION")} \ {"", " "}
    <3>1. Len(file) \in Nat /\ DOMAIN file = 1 .. Len(file)
      BY <1>1, <2>1, <2>3, LinesAssumption
    <3> HIDE DEF file
    <3> QED
      BY <2>2, <2>3, <3>1, OSTruthful, Zenon
  <2> HIDE DEF host
  <2>4. /\ "kernel" \in made.warnings <=> {host.kernel, host.uname} \subseteq {Error, "", " "}
        /\ "Local" \in ToSet(made.facts.timezone) =>
             "Local" \in {host.timezone, host.localtime}
        /\ "timezone" \in made.warnings =>
             {host.timezone, host.localtime, host.location} \subseteq {Error, "", " ", "Local"}
    BY <2>1, SourcesTruthful, Zenon
  <2> QED
    BY <2>3, <2>4, Zenon DEF host
<1>3. ASSUME MadeInv, Taken("release")
      PROVE  /\ made.available <=> given.input # Error
             /\ made.available =>
                  \A k \in LBIKey : made.values[k] = LastValue(given.input, k)
  <2> DEFINE file == given.input
  <2>1. file \in Releases /\ made = CollectLBI(file)
    BY <1>3 DEF MadeInv, Taken
  <2>2. CASE file = Error
    BY <2>1, <2>2 DEF CollectLBI
  <2>3. CASE file # Error
    <3>1. made.available /\ made.values = ParseAssignments(file, LBIKey).values
      BY <2>1, <2>3 DEF CollectLBI, ParseRelease
    <3>2. Len(file) \in Nat /\ DOMAIN file = 1 .. Len(file)
      BY <1>1, <2>1, <2>3, LinesAssumption
    <3>3. Named(LBIKey)
      BY Zenon DEF Named, LBIKey
    <3> HIDE DEF file
    <3>4. \A k \in LBIKey : ParseAssignments(file, LBIKey).values[k] = LastValue(file, k)
      BY <3>2, <3>3, LastRead
    <3> QED
      BY <2>3, <3>1, <3>4 DEF file
  <2> QED
    BY <2>2, <2>3
<1>4. MadeInv => FactsTruthful
  BY <1>2, <1>3, Zenon DEF FactsTruthful
<1> QED
  BY <1>4, Invariance, PTL

---------------------------------------------------------------------------
(* The scripts: the loop over probes, by induction on the probes made. *)

\* What a complaint says of the finding: a pass and a critical one are as the
\* script would have them, and there is no fourth.
LEMMA Complaints ==
  ASSUME NEW probe, NEW finding \in Finding
  PROVE  /\ Complaint(probe, finding) \in {"pass", "warn", "critical"}
         /\ Complaint(probe, finding) = "pass" <=>
              finding = "good" \/ (finding = "silent" /\ probe \in Lenient)
         /\ Complaint(probe, finding) = "critical" <=>
              /\ probe \notin {"clock", "dns"}
              /\ finding = "bad" \/ (finding = "silent" /\ probe \notin Lenient)
<1>1. CASE finding = "good"
  <2>1. Complaint(probe, finding) = "pass"
    BY <1>1, Zenon DEF Complaint
  <2> QED
    BY <1>1, <2>1, Zenon
<1>2. CASE finding = "silent" /\ probe \in Lenient
  <2>1. Complaint(probe, finding) = "pass"
    BY <1>2, Zenon DEF Complaint
  <2> QED
    BY <1>2, <2>1, Zenon
<1>3. CASE /\ finding # "good" /\ ~(finding = "silent" /\ probe \in Lenient)
           /\ finding = "low" \/ probe \in {"clock", "dns"}
  <2>1. Complaint(probe, finding) = "warn"
    BY <1>3, Zenon DEF Complaint
  <2> QED
    BY <1>3, <2>1, Zenon
<1>4. CASE /\ finding # "good" /\ ~(finding = "silent" /\ probe \in Lenient)
           /\ ~(finding = "low" \/ probe \in {"clock", "dns"})
  <2>1. Complaint(probe, finding) = "critical"
    BY <1>4, Zenon DEF Complaint
  <2>2. finding = "bad" \/ (finding = "silent" /\ probe \notin Lenient)
    BY <1>4, Zenon DEF Finding
  <2> QED
    BY <1>4, <2>1, <2>2, Zenon
<1> QED
  BY <1>1, <1>2, <1>3, <1>4, Zenon

\* What a complaint does to the status, whatever it was.
LEMMA Heeded ==
  ASSUME NEW s, s = [status |-> s.status, warnings |-> s.warnings, criticals |-> s.criticals],
         s.status \in 0 .. 2,
         NEW complaint \in {"pass", "warn", "critical"}
  PROVE  LET t == Heed(s, complaint)
         IN  /\ t = [status |-> t.status, warnings |-> t.warnings, criticals |-> t.criticals]
             /\ t.status \in 0 .. 2
             /\ t.status = 0 <=> (s.status = 0 /\ complaint = "pass")
             /\ t.status = 2 <=> (s.status = 2 \/ complaint = "critical")
<1> DEFINE t == Heed(s, complaint)
<1>1. CASE complaint = "pass"
  <2>1. t = s
    BY <1>1, Zenon DEF Heed
  <2> QED
    BY <1>1, <2>1, Zenon
<1>2. CASE complaint = "warn"
  <2>1. t = Warn(s)
    BY <1>2, Zenon DEF Heed
  <2> DEFINE raised == IF s.status < 1 THEN 1 ELSE s.status
  <2>2. t = [status |-> raised, warnings |-> s.warnings + 1, criticals |-> s.criticals]
    BY <2>1 DEF Warn
  <2>3. raised \in 0 .. 2 /\ raised # 0 /\ (raised = 2 <=> s.status = 2)
    OBVIOUS
  <2> HIDE DEF t, raised
  <2>4. t.status = raised /\ t.warnings = s.warnings + 1 /\ t.criticals = s.criticals
    BY <2>2
  <2>5. complaint # "pass" /\ complaint # "critical"
    BY <1>2, Zenon
  <2> QED
    BY <2>2, <2>3, <2>4, <2>5, Zenon DEF t
<1>3. CASE complaint = "critical"
  <2>1. t = Critical(s)
    BY <1>3, Zenon DEF Heed
  <2>2. t = [status |-> 2, warnings |-> s.warnings, criticals |-> s.criticals + 1]
    BY <2>1 DEF Critical
  <2> HIDE DEF t
  <2>3. t.status = 2 /\ t.warnings = s.warnings /\ t.criticals = s.criticals + 1
    BY <2>2
  <2>4. complaint # "pass"
    BY <1>3, Zenon
  <2>5. 2 \in 0 .. 2 /\ 2 # 0
    OBVIOUS
  <2> QED
    BY <1>3, <2>2, <2>3, <2>4, <2>5, Zenon DEF t
<1> QED
  BY <1>1, <1>2, <1>3, Zenon

\* The probes are a sequence.
LEMMA Probes == Len(HealthProbe) \in Nat /\ DOMAIN HealthProbe = 1 .. Len(HealthProbe)
  BY SMT DEF HealthProbe, Service

\* The script is unfolded: there is what each of its probes has left.
LEMMA HealthUnfolded ==
  ASSUME NEW findings
  PROVE  \E after :
           /\ HealthCheck(findings) = after[Len(HealthProbe)]
           /\ after[0] = Untouched
           /\ \A i \in 1 .. Len(HealthProbe) :
                after[i] = Heed(after[i - 1], Complaint(HealthProbe[i], findings[HealthProbe[i]]))
<1> DEFINE n == Len(HealthProbe)
           Heeds(s, i) == Heed(s, Complaint(HealthProbe[i], findings[HealthProbe[i]]))
           Step(g, i) == IF i = 0 THEN Untouched ELSE Heeds(g[i - 1], i)
           Unfolds(g, k) == g = [i \in 0 .. k |-> Step(g, i)]
           T == {k \in Nat : \E g : Unfolds(g, k)}
<1>1. 0 \in T
  <2> DEFINE g == [i \in 0 .. 0 |-> Untouched]
  <2>1. Unfolds(g, 0)
    OBVIOUS
  <2> QED
    BY <2>1
<1>2. ASSUME NEW k \in Nat, k \in T PROVE k + 1 \in T
  <2>1. PICK g : Unfolds(g, k)
    BY <1>2
  <2> HIDE DEF Heeds
  <2> DEFINE h == [i \in 0 .. k + 1 |-> IF i <= k THEN g[i] ELSE Heeds(g[k], k + 1)]
  <2>2. \A i \in 0 .. k : h[i] = g[i] /\ g[i] = Step(g, i)
    <3> HIDE DEF Step
    <3> QED
      BY <2>1
  <2>3. h[k + 1] = Heeds(h[k], k + 1)
    BY <2>2
  <2>4. h = [i \in 0 .. k + 1 |-> h[i]]
    OBVIOUS
  <2> HIDE DEF h
  <2>5. ASSUME NEW i \in 0 .. k + 1 PROVE h[i] = Step(h, i)
    <3>1. CASE i = 0
      BY <3>1, <2>2
    <3>2. CASE i \in 1 .. k
      <4>1. i \in 0 .. k /\ i - 1 \in 0 .. k /\ i # 0
        BY <3>2
      <4>2. h[i] = Step(g, i) /\ h[i - 1] = g[i - 1]
        BY <2>2, <4>1
      <4> QED
        BY <4>1, <4>2
    <3>3. CASE i = k + 1
      BY <3>3, <2>3
    <3> QED
      BY <3>1, <3>2, <3>3
  <2>6. Unfolds(h, k + 1)
    <3> HIDE DEF Step
    <3> QED
      BY <2>4, <2>5
  <2> HIDE DEF Unfolds
  <2> QED
    BY <2>6
<1>3. n \in T
  <2>1. Nat \subseteq T
    <3> HIDE DEF T
    <3> QED
      BY <1>1, <1>2, Induct
  <2> HIDE DEF T
  <2> QED
    BY <2>1, Probes
<1>4. PICK g : Unfolds(g, n)
  BY <1>3
<1> DEFINE after == CHOOSE f : Unfolds(f, n)
<1>5. Unfolds(after, n)
  <2> HIDE DEF Unfolds
  <2> QED
    BY <1>4
<1>6. HealthCheck(findings) = after[n]
  BY DEF HealthCheck
<1> HIDE DEF after, Heeds
<1>7. \A i \in 0 .. n : after[i] = Step(after, i)
  <2> HIDE DEF Step
  <2> QED
    BY <1>5
<1>8. n \in Nat
  BY Probes
<1>9. after[0] = Untouched /\ \A i \in 1 .. n : after[i] = Heeds(after[i - 1], i)
  <2> HIDE DEF n
  <2> QED
    BY <1>7, <1>8
<1> QED
  BY <1>6, <1>9 DEF Heeds

\* The status of the script is that of the worst finding, whatever the order.
LEMMA WorstFinding ==
  ASSUME NEW findings \in [ToSet(HealthProbe) -> Finding]
  PROVE  LET status == HealthCheck(findings).status
             Complains(p) == Complaint(p, findings[p])
         IN  /\ status \in 0 .. 2
             /\ status = 0 <=> \A p \in ToSet(HealthProbe) : Complains(p) = "pass"
             /\ status = 2 <=> \E p \in ToSet(HealthProbe) : Complains(p) = "critical"
<1> DEFINE n == Len(HealthProbe)
           C(i) == Complaint(HealthProbe[i], findings[HealthProbe[i]])
           Formed(s) ==
             s = [status |-> s.status, warnings |-> s.warnings, criticals |-> s.criticals]
           Worst(s, i) == /\ s.status \in 0 .. 2
                          /\ s.status = 0 <=> \A j \in 1 .. i : C(j) = "pass"
                          /\ s.status = 2 <=> \E j \in 1 .. i : C(j) = "critical"
<1>1. n \in Nat /\ DOMAIN HealthProbe = 1 .. n
  BY Probes
<1>2. ToSet(HealthProbe) = {HealthProbe[i] : i \in 1 .. n}
  BY <1>1 DEF ToSet
<1>3. \A i \in 1 .. n : C(i) \in {"pass", "warn", "critical"}
  <2> SUFFICES ASSUME NEW i \in 1 .. n PROVE C(i) \in {"pass", "warn", "critical"}
    OBVIOUS
  <2>1. findings[HealthProbe[i]] \in Finding
    BY <1>2
  <2> QED
    BY <2>1, Complaints
<1>4. PICK after : /\ HealthCheck(findings) = after[n]
                   /\ after[0] = Untouched
                   /\ \A i \in 1 .. n : after[i] = Heed(after[i - 1], C(i))
  BY HealthUnfolded
<1> HIDE DEF C, n
<1> DEFINE T == {i \in Nat : i <= n => Formed(after[i]) /\ Worst(after[i], i)}
<1>5. 0 \in T
  <2>1. Formed(after[0]) /\ after[0].status = 0
    BY <1>4 DEF Untouched
  <2>2. Worst(after[0], 0)
    BY <2>1
  <2> HIDE DEF Formed, Worst
  <2> QED
    BY <2>1, <2>2
<1>6. ASSUME NEW i \in Nat, i \in T PROVE i + 1 \in T
  <2> SUFFICES ASSUME i + 1 <= n PROVE Formed(after[i + 1]) /\ Worst(after[i + 1], i + 1)
    BY DEF T
  <2> DEFINE s == after[i]
             t == after[i + 1]
             c == C(i + 1)
  <2>1. Formed(s) /\ Worst(s, i)
    <3> HIDE DEF Formed, Worst
    <3> QED
      BY <1>1, <1>6
  <2>2. t = Heed(s, c) /\ c \in {"pass", "warn", "critical"}
    BY <1>1, <1>3, <1>4
  <2>3. /\ Formed(t) /\ t.status \in 0 .. 2
        /\ t.status = 0 <=> (s.status = 0 /\ c = "pass")
        /\ t.status = 2 <=> (s.status = 2 \/ c = "critical")
    <3> HIDE DEF s, t, c
    <3>1. Formed(s) /\ s.status \in 0 .. 2
      BY <2>1
    <3> QED
      BY <2>2, <3>1, Heeded
  <2>4. \A j \in 1 .. i + 1 : j \in 1 .. i \/ j = i + 1
    OBVIOUS
  <2>5. i + 1 \in 1 .. i + 1 /\ \A j \in 1 .. i : j \in 1 .. i + 1
    OBVIOUS
  <2>6. t.status = 0 <=> \A j \in 1 .. i + 1 : C(j) = "pass"
    BY <2>1, <2>3, <2>4, <2>5, Zenon
  <2>7. t.status = 2 <=> \E j \in 1 .. i + 1 : C(j) = "critical"
    BY <2>1, <2>3, <2>4, <2>5, Zenon
  <2> QED
    BY <2>3, <2>6, <2>7
<1>7. Worst(after[n], n)
  <2>1. Nat \subseteq T
    <3> HIDE DEF T
    <3> QED
      BY <1>5, <1>6, Induct
  <2> HIDE DEF Worst, Formed
  <2> QED
    BY <1>1, <2>1
<1> QED
  BY <1>1, <1>2, <1>4, <1>7, Zenon DEF C

\* The exit code, as the agent reads it, tells the status.
LEMMA HealthVerdict ==
  ASSUME NEW findings, HealthCheck(findings).status \in 0 .. 2
  PROVE  LET verdict == MapStatus("health", HealthExit(findings))
         IN  /\ verdict = "healthy" <=> HealthCheck(findings).status = 0
             /\ verdict = "critical" <=> HealthCheck(findings).status = 2
<1> DEFINE status == HealthCheck(findings).status
           verdict == MapStatus("health", HealthExit(findings))
<1>1. CASE status = 0
  BY <1>1, SMT DEF MapStatus, HealthExit
<1>2. CASE status = 1
  BY <1>2, SMT DEF MapStatus, HealthExit
<1>3. CASE status = 2
  BY <1>3, SMT DEF MapStatus, HealthExit
<1> QED
  BY <1>1, <1>2, <1>3

\* The verdict is the worst that a probe has found, whatever the probes find
\* and in whatever order (health-check.sh:17-119, lbi-validate.sh:31-69).
THEOREM HealthTold == Spec => []HealthTruthful
<1>1. ASSUME MadeInv, Taken("health")
      PROVE  /\ made.status = "critical" <=>
                  \E p \in DOMAIN given.input \ {"clock", "dns"} :
                    given.input[p] \in
                      {"bad"} \cup IF p \in {"units", "disk", "memory"} THEN {} ELSE {"silent"}
             /\ made.status = "healthy" =>
                  \A p \in DOMAIN given.input :
                    given.input[p] \in
                      {"good"} \cup IF p \in {"units", "disk", "memory"} THEN {"silent"} ELSE {}
  <2> DEFINE f == given.input
             P == ToSet(HealthProbe)
             C(p) == Complaint(p, f[p])
  <2>1. f \in [P -> Finding] /\ made.status = MapStatus("health", HealthExit(f))
    BY <1>1, FindingsAssumption DEF MadeInv, Taken
  <2> HIDE DEF f, P
  <2>2. LET status == HealthCheck(f).status
        IN  /\ status \in 0 .. 2
            /\ status = 0 <=> \A p \in P : C(p) = "pass"
            /\ status = 2 <=> \E p \in P : C(p) = "critical"
    BY <2>1, WorstFinding DEF P
  <2>3. /\ made.status = "healthy" <=> \A p \in P : C(p) = "pass"
        /\ made.status = "critical" <=> \E p \in P : C(p) = "critical"
    BY <2>1, <2>2, HealthVerdict
  <2>4. ASSUME NEW p \in P
        PROVE  /\ C(p) = "pass" <=> (f[p] = "good" \/ (f[p] = "silent" /\ p \in Lenient))
               /\ C(p) = "critical" <=>
                    /\ p \notin {"clock", "dns"}
                    /\ f[p] = "bad" \/ (f[p] = "silent" /\ p \notin Lenient)
    <3>1. f[p] \in Finding
      BY <2>1
    <3> QED
      BY <3>1, Complaints
  <2>5. DOMAIN f = P
    BY <2>1
  <2>6. made.status = "critical" <=>
          \E p \in DOMAIN f \ {"clock", "dns"} :
            f[p] \in {"bad"} \cup IF p \in {"units", "disk", "memory"} THEN {} ELSE {"silent"}
    BY <2>3, <2>4, <2>5, Zenon DEF Lenient
  <2>7. made.status = "healthy" =>
          \A p \in DOMAIN f :
            f[p] \in {"good"} \cup IF p \in {"units", "disk", "memory"} THEN {"silent"} ELSE {}
    BY <2>3, <2>4, <2>5, Zenon DEF Lenient
  <2> QED
    BY <2>6, <2>7 DEF f
<1>2. ASSUME MadeInv, Taken("validation"), made.status = "passed"
      PROVE  /\ given.input.library
             /\ \A p \in DOMAIN given.input.findings : given.input.findings[p] = "good"
  <2> DEFINE f == given.input.findings
  <2>1. /\ DOMAIN f = ToSet(Validated)
        /\ made.status = MapStatus("validation", ValidationExit(f, given.input.library))
    BY <1>2, FindingsAssumption DEF MadeInv, Taken
  <2>2. ValidationExit(f, given.input.library) = "zero"
    BY <1>2, <2>1, Zenon DEF MapStatus
  <2>3. given.input.library /\ \A i \in DOMAIN Validated : f[Validated[i]] = "good"
    BY <2>2, Zenon DEF ValidationExit
  <2> HIDE DEF f
  <2>4. \A p \in DOMAIN f : f[p] = "good"
    BY <2>1, <2>3 DEF ToSet
  <2> QED
    BY <2>3, <2>4 DEF f
<1>3. MadeInv => HealthTruthful
  BY <1>1, <1>2 DEF HealthTruthful
<1> QED
  BY <1>3, Invariance, PTL

---------------------------------------------------------------------------
(* The two documents: lists in increasing order. *)

Increasing(list) == \A i, j \in DOMAIN list : i < j => list[i] < list[j]

\* A set of naturals that holds one has a least one.
LEMMA LeastElement ==
  ASSUME NEW S \in SUBSET Nat, S # {}
  PROVE  \E m \in S : \A v \in S : m <= v
<1> DEFINE R == OpToRel(<, Nat)
<1>1. IsWellFoundedOn(R, Nat)
  BY NatLessThanWellFounded
<1>2. \A y \in Nat, x \in Nat : y < x => <<y, x>> \in R
  BY DEF OpToRel
<1> HIDE DEF R
<1>3. PICK m \in S : \A v \in S : <<v, m>> \notin R
  BY <1>1, WFMin
<1>4. \A v \in S : m <= v
  <2> SUFFICES ASSUME NEW v \in S PROVE m <= v
    OBVIOUS
  <2>1. v \in Nat /\ m \in Nat
    OBVIOUS
  <2>2. ~(v < m)
    BY <1>2, <1>3, <2>1
  <2> QED
    BY <2>1, <2>2
<1> QED
  BY <1>4

\* A finite set of naturals can be listed in increasing order.
LEMMA Listed ==
  ASSUME NEW S \in SUBSET Nat, IsFiniteSet(S)
  PROVE  \E list \in [1 .. Cardinality(S) -> S] : Increasing(list)
<1> DEFINE Has(A, n) == \E list \in [1 .. n -> A] : Increasing(list)
           T == {n \in Nat : \A A \in SUBSET Nat :
                               IsFiniteSet(A) /\ Cardinality(A) = n => Has(A, n)}
<1>1. 0 \in T
  <2> SUFFICES ASSUME NEW A \in SUBSET Nat PROVE Has(A, 0)
    OBVIOUS
  <2> DEFINE list == [i \in 1 .. 0 |-> 0]
  <2>1. list \in [1 .. 0 -> A] /\ Increasing(list)
    BY DEF Increasing
  <2> HIDE DEF list
  <2> QED
    BY <2>1
<1>2. ASSUME NEW n \in Nat, n \in T PROVE n + 1 \in T
  <2> SUFFICES ASSUME NEW A \in SUBSET Nat, IsFiniteSet(A), Cardinality(A) = n + 1
               PROVE  Has(A, n + 1)
    BY DEF T
  <2>1. A # {}
    BY FS_EmptySet
  <2>2. PICK m \in A : \A v \in A : m <= v
    BY <2>1, LeastElement
  <2> DEFINE B == A \ {m}
  <2>3. IsFiniteSet(B) /\ Cardinality(B) = n /\ B \in SUBSET Nat
    BY FS_RemoveElement
  <2>4. PICK rest \in [1 .. n -> B] : Increasing(rest)
    BY <1>2, <2>3
  <2> DEFINE list == [i \in 1 .. n + 1 |-> IF i = 1 THEN m ELSE rest[i - 1]]
  <2>5. \A i \in 1 .. n + 1 :
          i # 1 => /\ i - 1 \in 1 .. n
                   /\ list[i] = rest[i - 1] /\ rest[i - 1] \in B
    OBVIOUS
  <2>6. list \in [1 .. n + 1 -> A] /\ list[1] = m
    <3>1. \A i \in 1 .. n + 1 : list[i] \in A
      BY <2>5
    <3>2. list = [i \in 1 .. n + 1 |-> list[i]]
      OBVIOUS
    <3>3. list[1] = m
      OBVIOUS
    <3> HIDE DEF list
    <3> QED
      BY <3>1, <3>2, <3>3
  <2>7. \A v \in B : m < v
    BY <2>2
  <2> HIDE DEF list, B
  <2>8. Increasing(list)
    <3> SUFFICES ASSUME NEW i \in 1 .. n + 1, NEW j \in 1 .. n + 1, i < j
                 PROVE  list[i] < list[j]
      BY <2>6 DEF Increasing
    <3>1. j # 1 /\ j - 1 \in 1 .. n /\ list[j] = rest[j - 1] /\ rest[j - 1] \in B
      BY <2>5
    <3>2. CASE i = 1
      BY <2>6, <2>7, <3>1, <3>2
    <3>3. CASE i # 1
      <4>1. i - 1 \in 1 .. n /\ list[i] = rest[i - 1] /\ i - 1 < j - 1
        BY <2>5, <3>3
      <4>2. rest[i - 1] < rest[j - 1]
        BY <2>4, <3>1, <4>1 DEF Increasing
      <4> QED
        BY <3>1, <4>1, <4>2
    <3> QED
      BY <3>2, <3>3
  <2> QED
    BY <2>6, <2>8
<1>3. Cardinality(S) \in Nat
  BY FS_CardinalityType
<1>4. Nat \subseteq T
  <2> HIDE DEF T
  <2> QED
    BY <1>1, <1>2, Induct
<1>5. Cardinality(S) \in T
  <2> HIDE DEF T
  <2> QED
    BY <1>3, <1>4
<1> QED
  BY <1>5

\* What SortedUnique returns: the valid identifiers, each once, in their order.
LEMMA SortedList ==
  ASSUME NEW values \in Seq(Nat)
  PROVE  LET list == SortedUnique(values)
         IN  /\ ToSet(list) = ToSet(values) \ {0}
             /\ Increasing(list)
<1> DEFINE kept == {v \in ToSet(values) : Valid(v)}
           n == Len(values)
           list == SortedUnique(values)
<1>1. n \in Nat /\ DOMAIN values = 1 .. n /\ \A i \in 1 .. n : values[i] \in Nat
  BY LenProperties, ElementOfSeq
<1>2. ToSet(values) = {values[i] : i \in 1 .. n}
  BY <1>1 DEF ToSet
<1>3. IsFiniteSet(ToSet(values))
  <2> DEFINE f == [i \in 1 .. n |-> values[i]]
             S == ToSet(values)
  <2>1. f \in Surjection(1 .. n, S)
    BY <1>2 DEF Surjection
  <2>2. IsFiniteSet(1 .. n)
    BY <1>1, FS_Interval
  <2> HIDE DEF f, S, n
  <2> QED
    BY <2>1, <2>2, FS_Surjection DEF S
<1>4. kept = ToSet(values) \ {0} /\ kept \in SUBSET Nat
  BY <1>1, <1>2 DEF Valid
<1>5. IsFiniteSet(kept)
  BY <1>3, FS_Subset
<1>6. list = CHOOSE l \in [1 .. Cardinality(kept) -> kept] : Increasing(l)
  BY DEF SortedUnique, Increasing
<1> HIDE DEF kept, list
<1>7. \E l \in [1 .. Cardinality(kept) -> kept] : Increasing(l)
  BY <1>4, <1>5, Listed
<1>8. list \in [1 .. Cardinality(kept) -> kept] /\ Increasing(list)
  BY <1>6, <1>7
<1> DEFINE k == Cardinality(kept)
<1>9. k \in Nat
  BY <1>5, FS_CardinalityType
<1>10. list \in Injection(1 .. k, kept)
  <2> SUFFICES ASSUME NEW i \in 1 .. k, NEW j \in 1 .. k, list[i] = list[j] PROVE i = j
    BY <1>8 DEF Injection, IsInjective
  <2>1. list[i] \in Nat /\ list[j] \in Nat
    BY <1>4, <1>8
  <2>2. ~(i < j) /\ ~(j < i)
    BY <1>8, <2>1 DEF Increasing
  <2> QED
    BY <1>9, <2>2
<1>11. list \in Surjection(1 .. k, kept)
  <2>1. Cardinality(1 .. k) = k
    BY <1>9, FS_Interval
  <2> QED
    BY <1>5, <1>10, <2>1, FS_Injection
<1>12. ToSet(list) = kept
  BY <1>8, <1>11 DEF Surjection, ToSet
<1> QED
  BY <1>4, <1>8, <1>12 DEF list

\* A warning for each identifier that is not valid, and none for the others.
LEMMA Warned ==
  ASSUME NEW values \in Seq(Nat)
  PROVE  LET warnings == ValidateIdentifiers(values).warnings
         IN  /\ warnings \in Nat
             /\ warnings = 0 <=> \A i \in 1 .. Len(values) : Valid(values[i])
<1> DEFINE n == Len(values)
           S == {i \in DOMAIN values : ~Valid(values[i])}
<1>1. n \in Nat /\ DOMAIN values = 1 .. n
  BY LenProperties
<1>2. ValidateIdentifiers(values).warnings = Cardinality(S)
  BY DEF ValidateIdentifiers
<1>3. IsFiniteSet(1 .. n)
  BY <1>1, FS_Interval
<1>4. S \in SUBSET (1 .. n)
  BY <1>1
<1>5. S = {} <=> \A i \in 1 .. n : Valid(values[i])
  BY <1>1
<1> HIDE DEF S, n
<1>6. IsFiniteSet(S)
  BY <1>3, <1>4, FS_Subset
<1>7. Cardinality(S) \in Nat /\ (Cardinality(S) = 0 <=> S = {})
  BY <1>6, FS_CardinalityType, FS_EmptySet
<1> QED
  BY <1>2, <1>5, <1>7 DEF n

\* The two documents agree, however long their lists (desired.go:36-124 against
\* role.go:49-145).
THEOREM DocumentsTold == Spec => []DocumentsAgree
<1> DEFINE D == ListDocument
<1>1. ASSUME NEW d \in D, NEW revision \in {Absent, "valid", "invalid"}
      PROVE  LET e == [d EXCEPT !.revision = revision]
             IN  /\ e # Malformed /\ e.revision = revision
                 /\ e.schema_version = d.schema_version
                 /\ e.roles = d.roles /\ e.capabilities = d.capabilities
  <2> DEFINE e == [d EXCEPT !.revision = revision]
  <2>1. e \in D /\ e.revision = revision /\ e.schema_version = d.schema_version
        /\ e.roles = d.roles /\ e.capabilities = d.capabilities
    BY DEF ListDocument
  <2> HIDE DEF e
  <2> QED
    BY <2>1, DocumentsAssumption DEF e
<1>2. \A d \in D : /\ Present(d.roles) => d.roles \in Seq(Nat)
                   /\ Present(d.capabilities) => d.capabilities \in Seq(Nat)
  BY DEF ListDocument, IdentifierList, Present
<1>3. ASSUME MadeInv, Taken("desired"), made.available
      PROVE  CollectAssignment([given.input EXCEPT !.revision = Absent])
               = [assignment |-> made, warnings |-> 0]
  <2> DEFINE d == given.input
             e == [d EXCEPT !.revision = Absent]
  <2>1. d \in Documents /\ made = Parse(d)
    BY <1>3 DEF MadeInv, Taken
  <2> HIDE DEF d
  <2>2. /\ d # Malformed /\ d.schema_version = 1
        /\ DecodesIdentifiers(d.roles) /\ DecodesIdentifiers(d.capabilities)
        /\ made = [available |-> TRUE, roles |-> SortedUnique(d.roles),
                   capabilities |-> SortedUnique(d.capabilities)]
    BY <1>3, <2>1 DEF Parse, EmptyAssignment
  <2>3. d \in D /\ Present(d.roles) /\ Present(d.capabilities)
    BY <2>1, <2>2, DocumentsAssumption DEF DecodesIdentifiers
  <2> HIDE DEF D
  <2>4. /\ e # Malformed /\ e.revision = Absent /\ e.schema_version = 1
        /\ e.roles = d.roles /\ e.capabilities = d.capabilities
    BY <1>1, <2>2, <2>3
  <2> HIDE DEF e
  <2>5. DecodesAssignment(e)
    BY <2>3, <2>4 DEF DecodesAssignment
  <2>6. d.roles \in Seq(Nat) /\ d.capabilities \in Seq(Nat)
    BY <1>2, <2>3
  <2>7. /\ ValidateIdentifiers(d.roles).warnings = 0
        /\ ValidateIdentifiers(d.capabilities).warnings = 0
    BY <2>2, <2>6, Warned DEF DecodesIdentifiers
  <2>8. /\ ValidateIdentifiers(d.roles).list = SortedUnique(d.roles)
        /\ ValidateIdentifiers(d.capabilities).list = SortedUnique(d.capabilities)
    BY DEF ValidateIdentifiers
  <2>9. CollectAssignment(e) = [assignment |-> made, warnings |-> 0]
    BY <2>2, <2>4, <2>5, <2>7, <2>8 DEF CollectAssignment
  <2> QED
    BY <2>9 DEF e, d
<1>4. ASSUME MadeInv, Taken("assignment"), made.assignment.available
      PROVE  LET desired == Parse([given.input EXCEPT !.revision = "valid"])
             IN  /\ made.warnings = 0 <=> desired.available
                 /\ \A k \in {"roles", "capabilities"} :
                      LET list == made.assignment[k]
                      IN  /\ ToSet(list) = ToSet(given.input[k]) \ {0}
                          /\ \A i, j \in DOMAIN list : i < j => list[i] < list[j]
  <2> DEFINE d == given.input
             e == [d EXCEPT !.revision = "valid"]
             R == ValidateIdentifiers(d.roles)
             C == ValidateIdentifiers(d.capabilities)
  <2>1. d \in Documents /\ made = CollectAssignment(d)
    BY <1>4 DEF MadeInv, Taken
  <2> HIDE DEF d
  <2>2. DecodesAssignment(d)
    BY <1>4, <2>1 DEF CollectAssignment, EmptyAssignment
  <2>3. made = [assignment |-> [available |-> TRUE, roles |-> R.list, capabilities |-> C.list],
                warnings |-> R.warnings + C.warnings]
    BY <2>1, <2>2 DEF CollectAssignment
  <2>4. /\ d \in D /\ d.schema_version = 1 /\ d.revision = Absent
        /\ Present(d.roles) /\ Present(d.capabilities)
    BY <2>1, <2>2, DocumentsAssumption DEF DecodesAssignment
  <2> HIDE DEF D
  <2>5. /\ e # Malformed /\ e.revision = "valid" /\ e.schema_version = 1
        /\ e.roles = d.roles /\ e.capabilities = d.capabilities
    BY <1>1, <2>4
  <2> HIDE DEF e
  <2>6. d.roles \in Seq(Nat) /\ d.capabilities \in Seq(Nat)
    BY <1>2, <2>4
  <2>7. /\ R.warnings \in Nat /\ C.warnings \in Nat
        /\ R.warnings = 0 <=> DecodesIdentifiers(d.roles)
        /\ C.warnings = 0 <=> DecodesIdentifiers(d.capabilities)
    BY <2>4, <2>6, Warned DEF DecodesIdentifiers
  <2>8. R.list = SortedUnique(d.roles) /\ C.list = SortedUnique(d.capabilities)
    BY DEF ValidateIdentifiers
  <2> HIDE DEF R, C
  <2>9. Parse(e).available <=> DecodesIdentifiers(d.roles) /\ DecodesIdentifiers(d.capabilities)
    BY <2>5 DEF Parse, EmptyAssignment
  <2>10. made.warnings = 0 <=> Parse(e).available
    <3>1. made.warnings = R.warnings + C.warnings
      BY <2>3
    <3>2. R.warnings + C.warnings = 0 <=> R.warnings = 0 /\ C.warnings = 0
      BY <2>7
    <3> QED
      BY <2>7, <2>9, <3>1, <3>2
  <2>11. /\ made.assignment["roles"] = SortedUnique(d.roles)
         /\ made.assignment["capabilities"] = SortedUnique(d.capabilities)
    BY <2>3, <2>8
  <2>12. \A k \in {"roles", "capabilities"} :
           LET list == made.assignment[k]
           IN  ToSet(list) = ToSet(d[k]) \ {0} /\ Increasing(list)
    BY <2>6, <2>11, SortedList
  <2> QED
    BY <2>10, <2>12 DEF e, d, Increasing
<1>5. MadeInv => DocumentsAgree
  BY <1>3, <1>4 DEF DocumentsAgree
<1> QED
  BY <1>5, Invariance, PTL
=============================================================================
