------------------------------ MODULE MCIntake ------------------------------
(***************************************************************************)
(* The inputs with which TLC runs Intake: of each kind the values at and   *)
(* beside the boundaries of the code, and every combination of those that  *)
(* its handler looks at together.                                          *)
(***************************************************************************)
EXTENDS Intake

\* The objects with at most these fields, each absent or one of its values.
Field(name, values) == {<<>>} \cup {name :> v : v \in values \cup {Null}}

CheckPaths == {"", "relative", "/usr/local/check"}

ChecksSections ==
  {a @@ b @@ c @@ d : a \in Field("validation_path", CheckPaths),
                      b \in Field("health_path", CheckPaths),
                      c \in Field("timeout_seconds", {0, 1, 300, 301}),
                      d \in Field("max_output_bytes", {1023, 1024, 1048576, 1048577})}

URLs == SUBSET {"https", "host", "user", "query", "fragment"}
          \cup {{"unparsable"}, {"unparsable", "https", "host"}}

OriginSections ==
  {a @@ b @@ c : a \in Field("enabled", BOOLEAN),
                 b \in Field("base_url", URLs),
                 c \in Field("request_timeout_seconds", {0, 1, 100, 101, 120, 121})}

FileSections ==
  {a @@ b @@ c @@ d : a \in Field("enabled", {TRUE}),
                      b \in Field("ca_file", {"", "relative", "/etc/lts/ca.pem"}),
                      c \in Field("enrollment_token_file", {"", "relative", "/run/token"}),
                      d \in Field("state_file", {"", "relative", "/run/state"})}

\* FileSections with an origin, so that an enabled one can be accepted.
Origin == "base_url" :> {"https", "host"}
CoreSections == OriginSections \cup {s @@ Origin : s \in FileSections}

Nothings == {Absent, Null, Malformed}

Levels == Field("level", {"debug", "info", "warn", "error", "loud"})

Document(schemas, checks, logging, core) ==
  [schema_version : schemas, checks : checks, logging : logging, core : core]

ConfigurationFiles ==
  {Missing, Unreadable, Malformed}
    \cup Document({Absent, 0, 1, 2, 3}, Nothings \cup {<<>>}, Nothings \cup Levels,
                  Nothings \cup {<<>>, Origin})
    \cup Document({1, 2}, ChecksSections, {Absent}, {Absent, Origin})
    \cup Document({1, 2}, {Absent} \cup {"timeout_seconds" :> v : v \in {300, 301}},
                  {Absent}, CoreSections)

Strings(symbols, n) == UNION {[1 .. k -> symbols] : k \in 0 .. n}

\* A string of symbols as a path of Endpoint.
Cut(string) ==
  FoldLeft(LAMBDA path, symbol :
             CASE symbol = "/"   -> Append(path, Nothing)
               [] symbol = "%2F" -> Append(Front(path), Append(Last(path), <<>>))
               [] OTHER -> LET segment == Last(path)
                           IN  Append(Front(path),
                                      Append(Front(segment), Append(Last(segment), symbol))),
           <<Nothing>>, string)

PathSymbols == {"a", ".", "/", "%2e", "%2F"}

\* A path of three symbols after its first slash, with or without another segment
\* before them.
EveryBasePath ==
  {Cut(<<>>)} \cup {Cut(start \o s) : start \in {<<"/">>, <<"/", "b", "/">>},
                                      s \in Strings(PathSymbols, 3)}

RegistrationResponses ==
  [schema_version : {0, 1, 2}, node_id : Strings({"a", ".", "-", "/"}, MaxID + 1),
   agent_token : Strings({"visible", "other"}, MaxBearer + 1)]

Endpoints ==
  [parts : {{}}, path : {Cut(s) : s \in Strings(PathSymbols, 4)}]
    \cup [parts : {{"unparsable"}, {"absolute"}, {"host"}, {"user"}, {"fragment"}},
          path : {Cut(<<"a">>)}]

Lists == Strings({0, 1, 2}, 3)

BothDocuments ==
  {Malformed}
    \cup [schema_version : {Absent, 0, 1, 2}, revision : {Absent, "valid", "invalid"},
          roles : Nothings \cup {<<>>, <<1>>}, capabilities : Nothings \cup {<<>>, <<1>>}]
    \cup [schema_version : {1}, revision : {Absent, "valid"}, roles : Lists,
          capabilities : Lists]

\* Every line a parser tells apart, for the given keys.
Lines(keys, values) == {<<"#", "">>, <<"", "">>} \cup (keys \X values)

HostFiles ==
  [osRelease : {Error} \cup Strings(Lines(OSKey, {"", " ", "v", "w", Broken}), 3),
   kernel : {"v"}, uname : {Error}, architecture : {"amd64"}, timezone : {"v"},
   localtime : {Error}, location : {Error}, hostname : {"v"}]
  \cup
  [osRelease : {Error}, kernel : {Error, "", " ", "v"}, uname : {Error, "", "w"},
   architecture : {"amd64", "arm64", "386", "riscv64", ""},
   timezone : {Error, "", " ", "Local", "v"}, localtime : {Error, "", "Local", "w"},
   location : {Error, "", "Local", "UTC"}, hostname : {Error, "", "v"}]

ReleaseFiles ==
  {Error} \cup Strings(Lines({"LBI_NAME", "BASE_OS"}, {"", "v", "w", Broken}), 3)

EveryHealthFinding ==
  {f @@ g @@ h :
     f \in [ToSet(HealthProbe) \ {"units", "disk", "memory", "ufw"} -> {"good", "bad"}],
     g \in [{"units", "ufw"} -> {"good", "bad", "silent"}],
     h \in [{"disk", "memory"} -> {"good", "low", "bad", "silent"}]}

EveryValidationFinding == [ToSet(Validated) -> {"good", "bad"}]
=============================================================================
