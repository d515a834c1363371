------------------------------- MODULE Config -------------------------------
(***************************************************************************)
(* internal/config/config.go and those who receive its result: the client  *)
(* of internal/core and the check collector, as cmd/lts-agent wires them.  *)
(*                                                                         *)
(* A section of the file is a function from the names it holds to values;  *)
(* encoding/json keeps the last of two fields of one name.  A section that *)
(* holds an unknown name or a value of a wrong type is Malformed.  A URL   *)
(* is the set of its parts, {} the empty string; a path is Empty, relative *)
(* or the name of an absolute path.                                        *)
(***************************************************************************)
EXTENDS Integers, DocumentFields

CONSTANTS Missing, Unreadable   \* what reading the file may give in place of a document

Empty == ""

MinOutputBytes == 1024
MaxOutputBytes == 1024 * 1024

URLPart == {"unparsable", "https", "host", "user", "query", "fragment"}

Defaults ==
  [schema_version |-> 2,
   checks  |-> [validation_path |-> "/opt/lts/scripts/lbi-validate.sh",
                health_path     |-> "/opt/lts/scripts/health-check.sh",
                timeout_seconds |-> 30, max_output_bytes |-> 64 * 1024],
   logging |-> [level |-> "info"],
   core    |-> [enabled |-> FALSE, base_url |-> {}, ca_file |-> Empty,
                request_timeout_seconds |-> 10,
                enrollment_token_file |-> "/var/lib/lts-agent/enrollment-token",
                state_file |-> "/var/lib/lts-agent/state.json"]]

\* Mutant: nulls are left to the decoder, for which they are absent fields.
Decodable_NullFields(section) == section \notin {Null, Malformed}

\* A section that is an object without null fields, so far as the file has it.
Decodable(section) ==
  /\ section \notin {Null, Malformed}
  /\ Present(section) => \A k \in DOMAIN section : section[k] # Null

\* The decoder leaves a field that is absent, or null, nil.
Override(target, section) ==
  IF section = Absent THEN target
  ELSE [k \in DOMAIN target |->
          IF k \in DOMAIN section /\ section[k] # Null THEN section[k] ELSE target[k]]

Effective(document) ==
  [schema_version |-> document.schema_version,
   checks  |-> Override(Defaults.checks, document.checks),
   logging |-> Override(Defaults.logging, document.logging),
   core    |-> Override(Defaults.core, document.core)]

IsAbs(path) == path \notin {Empty, "relative"}

LogLevel(level) == level \in {"debug", "info", "warn", "error"}

\* Mutant: a bound off by one.
ValidChecks_Longer(checks) ==
  /\ IsAbs(checks.validation_path) /\ IsAbs(checks.health_path)
  /\ checks.timeout_seconds \in 1 .. 301
  /\ checks.max_output_bytes \in MinOutputBytes .. MaxOutputBytes

ValidChecks(checks) ==
  /\ IsAbs(checks.validation_path)
  /\ IsAbs(checks.health_path)
  /\ checks.timeout_seconds \in 1 .. 300
  /\ checks.max_output_bytes \in MinOutputBytes .. MaxOutputBytes

\* Mutant: a URL is required and no longer looked at.
ValidCore_AnyURL(core) ==
  /\ core.enabled => core.base_url # {}
  /\ core.ca_file # Empty => IsAbs(core.ca_file)
  /\ IsAbs(core.enrollment_token_file) /\ IsAbs(core.state_file)
  /\ core.request_timeout_seconds \in 1 .. 120

ValidCore(core) ==
  /\ core.enabled => core.base_url # {}
  /\ core.base_url # {} => core.base_url = {"https", "host"}
  /\ core.ca_file # Empty => IsAbs(core.ca_file)
  /\ IsAbs(core.enrollment_token_file)
  /\ IsAbs(core.state_file)
  /\ core.request_timeout_seconds \in 1 .. 120

Parses(document) ==
  /\ document # Malformed
  /\ document.schema_version \in {1, 2}
  /\ Decodable(document.checks)
  /\ Decodable(document.logging)
  /\ document.core # Absent => document.schema_version >= 2
  /\ Decodable(document.core)
  /\ LET c == Effective(document)
     IN  ValidChecks(c.checks) /\ LogLevel(c.logging.level) /\ ValidCore(c.core)

Load(file) ==
  IF file = Missing
  THEN [ok |-> TRUE, loaded |-> FALSE, configuration |-> Defaults]
  ELSE IF file = Unreadable
  THEN [ok |-> FALSE, loaded |-> FALSE]
  ELSE IF Parses(file)
  THEN [ok |-> TRUE, loaded |-> TRUE, configuration |-> Effective(file)]
  ELSE [ok |-> FALSE, loaded |-> TRUE]

---------------------------------------------------------------------------
(* Those who receive the configuration. *)

ParseBaseURL(url) ==
  /\ "unparsable" \notin url
  /\ {"https", "host"} \subseteq url
  /\ url \cap {"user", "query", "fragment"} = {}

\* New of the client, with a CA file that holds certificates, or does not.
NewClient(core, caUsable) ==
  /\ ParseBaseURL(core.base_url)
  /\ core.request_timeout_seconds > 0
  /\ core.ca_file # Empty => caUsable

\* NewCollectorWithOptions: an empty path would give way to its default.
NewCollector(checks) ==
  [k \in DOMAIN checks |->
     IF k \in {"validation_path", "health_path"} /\ checks[k] = Empty
     THEN Defaults.checks[k] ELSE checks[k]]

\* The most that two checks and three requests may take within their limits.
Budget(c) ==
  2 * c.checks.timeout_seconds
    + (IF c.core.enabled THEN 3 * c.core.request_timeout_seconds ELSE 0)
=============================================================================
