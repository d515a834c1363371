------------------------------- MODULE Intake -------------------------------
(***************************************************************************)
(* What one run of the agent takes in from outside, and what it makes of   *)
(* it: the configuration file, the host's files, the assignment, the       *)
(* answers of LTS Core and the verdicts of the two scripts.  Each handler  *)
(* depends on its input alone, so one is taken and stays as it was given.  *)
(***************************************************************************)
EXTENDS Config, Endpoint, Assignments, HostFacts, HealthScripts

CONSTANTS
  Files,           \* what reading /opt/lts/config/lts-agent.json may give
  Symbol,          \* what the paths are spelt in
  BasePaths,       \* paths of the configured base URL
  Responses,       \* registration responses
  References,      \* relative endpoints
  Documents,       \* desired states and assignments
  Hosts,           \* the host as internal/system sees it
  Releases,        \* what reading /etc/lbi-release may give
  HealthFindings, ValidationFindings   \* what the probes of the scripts find

\* A document that could not be decoded is none of those that could.
ASSUME DocumentsAssumption ==
  Documents \subseteq ListDocument \cup {Malformed} /\ Malformed \notin ListDocument

\* A path is at least one segment; that of a base URL is empty or begins with a
\* slash, for it comes after a host.
ASSUME PathAssumption ==
  LET Path == Seq(Seq(Seq(Symbol))) \ {<<>>}
  IN  /\ \A base \in BasePaths : base \in Path /\ base[1] = Nothing
      /\ \A raw \in References : raw.path \in Path

ASSUME LinesAssumption ==
  /\ \A host \in Hosts : host.osRelease \in Seq(Line) \cup {Error}
  /\ Releases \subseteq Seq(Line) \cup {Error}

ASSUME FindingsAssumption ==
  /\ HealthFindings \subseteq [ToSet(HealthProbe) -> Finding]
  /\ ValidationFindings \subseteq [ToSet(Validated) -> Finding]

VARIABLES given, made

vars == <<given, made>>

Init == given = [kind |-> "nothing"] /\ made = [ok |-> FALSE]

Idle == given.kind = "nothing"

Take(kind, input, result) ==
  /\ given' = [kind |-> kind, input |-> input]
  /\ made' = result

LoadConfiguration == Idle /\ \E file \in Files : Take("configuration", file, Load(file))

\* made is where the client sends a request, if it does.
ResolveEndpoint ==
  Idle /\ \E base \in BasePaths, raw \in References :
    Take("endpoint", [base |-> base, raw |-> raw],
         IF AcceptsEndpoint(raw) THEN [ok |-> TRUE, path |-> Resolve(base, raw)]
         ELSE [ok |-> FALSE])

Register ==
  Idle /\ \E response \in Responses :
    Take("registration", response,
         IF AcceptsRegistration(response)
         THEN [ok |-> TRUE, state |-> [schema_version |-> 1, node_id |-> response.node_id,
                                       agent_token |-> response.agent_token]]
         ELSE [ok |-> FALSE])

ReadAssignment ==
  Idle /\ \E document \in Documents :
    Take("assignment", document, CollectAssignment(document))

RetrieveDesiredState ==
  Idle /\ \E document \in Documents : Take("desired", document, Parse(document))

InspectHost == Idle /\ \E host \in Hosts : Take("host", host, CollectSystem(host))

ReadRelease == Idle /\ \E file \in Releases : Take("release", file, CollectLBI(file))

RunHealth ==
  Idle /\ \E findings \in HealthFindings :
    Take("health", findings, [status |-> MapStatus("health", HealthExit(findings))])

RunValidation ==
  Idle /\ \E findings \in ValidationFindings, library \in BOOLEAN :
    Take("validation", [findings |-> findings, library |-> library],
         [status |-> MapStatus("validation", ValidationExit(findings, library))])

Next ==
  \/ LoadConfiguration \/ ResolveEndpoint \/ Register
  \/ ReadAssignment \/ RetrieveDesiredState
  \/ InspectHost \/ ReadRelease \/ RunHealth \/ RunValidation

Spec == Init /\ [][Next]_vars

---------------------------------------------------------------------------
(* Properties. *)

Taken(kind) == given.kind = kind

\* Whatever configuration is accepted, those who receive it can use it: with
\* Core enabled the client can be built (but for a CA file that is gone since),
\* its timeouts are positive, and the collector runs the scripts that the file
\* names (config.go:241-279 against client.go:63-84, 226-250, check.go:88-97).
AcceptedUsable ==
  Taken("configuration") /\ made.ok =>
    LET c == made.configuration
    IN  /\ c.core.enabled => NewClient(c.core, TRUE)
        /\ LogLevel(c.logging.level)
        /\ NewCollector(c.checks) = c.checks
        /\ c.checks.timeout_seconds > 0 /\ c.core.request_timeout_seconds > 0
        /\ c.core.enrollment_token_file # Empty /\ c.core.state_file # Empty

\* "Configuration is strict so administrator typos cannot silently change agent
\* behavior" (config.go:1-3): what an accepted file holds is in effect, a null
\* is never accepted, everything else is its default, and a file of schema 1
\* leaves Core as it was before there was one.
NothingDefaultedSilently ==
  Taken("configuration") /\ made.ok =>
    \A s \in {"checks", "logging", "core"} :
      \A k \in DOMAIN Defaults[s] :
        LET named == /\ made.loaded
                     /\ given.input[s] # Absent
                     /\ k \in DOMAIN given.input[s]
            value == made.configuration[s][k]
        IN  IF named
            THEN /\ value = given.input[s][k] /\ value # Null
                 /\ s = "core" => given.input.schema_version = 2
            ELSE value = Defaults[s][k]

\* No accepted configuration lets two checks and three requests that all run
\* into their limits exceed the 15 minutes of TimeoutStartSec
\* (lts-agent.service:11), but one whose requests may take more than 100
\* seconds each (config.go:26, 31).
FitsStart ==
  Taken("configuration") /\ made.ok =>
    LET c == made.configuration
    IN  \/ Budget(c) <= 900
        \/ c.core.enabled /\ c.core.request_timeout_seconds > 100

\* An identity that register accepts (sync.go:222-233) is one that every later
\* run can load (sync.go:300-308), and the endpoints that are made of it
\* (sync.go:243, 253) are never refused by the client (client.go:252-281).
RegistrationUsable ==
  Taken("registration") /\ made.ok =>
    /\ LoadsState(made.state)
    /\ \A suffix \in Suffix : AcceptsEndpoint(NodeEndpoint(made.state.node_id, suffix))

Dotless(path) ==
  \A i \in DOMAIN Unescaped(path) : Unescaped(path)[i] \notin {<<".">>, <<".", ".">>}

\* Where the requests of a client go: the path of its endpoint ".".
Directory(base) == Front(Resolve(base, [path |-> <<Here>>]))

\* No endpoint that the client accepts leaves the directory that it shares with
\* all others: its path begins with the directory, and what follows has no ".."
\* in it for a server that unescapes first (client.go:252-281).  Of a base path
\* without "." and ".." this directory is all that stands before the last slash,
\* or, where a slash had to be added, all of it, escaped or not.  A base path that
\* ends in an escaped slash gets none: its last segment is lost
\* (client.go:246-248).
StaysBelowBase ==
  Taken("endpoint") /\ made.ok =>
    LET base == given.input.base
        directory == Directory(base)
        n == Len(directory)
    IN  /\ n < Len(made.path)
        /\ SubSeq(made.path, 1, n) = directory
        /\ ~HasDotDot(SubSeq(made.path, n + 1, Len(made.path)))
        /\ Dotless(base) =>
             IF EndsInSlash(base) THEN directory = Front(base)
             ELSE Unescaped(directory) = Unescaped(base)

\* The two documents agree: what LTS Core may desire, an assignment can say and
\* is then reported as the same sorted lists without a warning, while an
\* assignment with invalid identifiers keeps the others, and is without a warning
\* just when LTS Core may desire the same (desired.go:103-124 against role.go:118-138).
DocumentsAgree ==
  /\ Taken("desired") /\ made.available =>
       CollectAssignment([given.input EXCEPT !.revision = Absent])
         = [assignment |-> made, warnings |-> 0]
  /\ Taken("assignment") /\ made.assignment.available =>
       LET desired == Parse([given.input EXCEPT !.revision = "valid"])
       IN  /\ made.warnings = 0 <=> desired.available
           /\ \A k \in {"roles", "capabilities"} :
                LET list == made.assignment[k]
                IN  /\ ToSet(list) = ToSet(given.input[k]) \ {0}
                    /\ \A i, j \in DOMAIN list : i < j => list[i] < list[j]

\* The value the last readable line of a file gives a key, "" if there is none.
LastValue(lines, key) ==
  LET said == {i \in DOMAIN lines : lines[i][1] = key /\ lines[i][2] # Broken}
  IN  IF said = {} THEN ""
      ELSE lines[CHOOSE i \in said : \A j \in said : j <= i][2]

\* A damaged line costs its own assignment and nothing else, in both parsers
\* (system.go:191-212, lbi.go:67-93): the name of the system and the release
\* are what the readable lines say last.  No source is preferred to nothing:
\* kernel and time zone are known where any of their sources knows them, and
\* the placeholder "Local" of the runtime is no time zone, although a file or a
\* link may say so (system.go:127-174).
FactsTruthful ==
  /\ Taken("host") =>
       /\ given.input.osRelease # Error =>
            LET value(k) == LastValue(given.input.osRelease, k)
            IN  /\ value("PRETTY_NAME") # "" => made.facts.os = <<value("PRETTY_NAME")>>
                /\ value("PRETTY_NAME") = "" =>
                     ToSet(made.facts.os) = {value("NAME"), value("VERSION")} \ {"", " "}
       /\ "kernel" \in made.warnings <=>
            {given.input.kernel, given.input.uname} \subseteq {Error, "", " "}
       /\ "Local" \in ToSet(made.facts.timezone) =>
            "Local" \in {given.input.timezone, given.input.localtime}
       /\ "timezone" \in made.warnings =>
            {given.input.timezone, given.input.localtime, given.input.location}
              \subseteq {Error, "", " ", "Local"}
  /\ Taken("release") =>
       /\ made.available <=> given.input # Error
       /\ made.available =>
            \A k \in LBIKey : made.values[k] = LastValue(given.input, k)

\* The verdict on the health of the node is the worst that a probe has found,
\* in whatever order they come, and a passed validation means that every check
\* was made and held.  Healthy may hide silence of the units, the disk and the
\* memory, and of nothing else (health-check.sh:17-27, 57, 65, 75).
HealthTruthful ==
  /\ Taken("health") =>
       /\ made.status = "critical" <=>
            \E p \in DOMAIN given.input \ {"clock", "dns"} :
              given.input[p] \in
                {"bad"} \cup IF p \in {"units", "disk", "memory"} THEN {} ELSE {"silent"}
       /\ made.status = "healthy" =>
            \A p \in DOMAIN given.input :
              given.input[p] \in
                {"good"} \cup IF p \in {"units", "disk", "memory"} THEN {"silent"} ELSE {}
  /\ Taken("validation") /\ made.status = "passed" =>
       /\ given.input.library
       /\ \A p \in DOMAIN given.input.findings : given.input.findings[p] = "good"
=============================================================================
