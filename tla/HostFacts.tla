------------------------------ MODULE HostFacts ------------------------------
(***************************************************************************)
(* What a report says of its host: internal/system/system.go and the       *)
(* release metadata of internal/lbi/lbi.go, both of which read files of    *)
(* lines KEY=VALUE.                                                        *)
(*                                                                         *)
(* A line is a pair <<key, value>>, the value as parseAssignmentValue and  *)
(* parseValue read it, Broken where the quotes do not match; the key is    *)
(* "#" for a blank line or a comment, and "" for a line without "=" or     *)
(* without a key.  Of texts, "" is empty and " " is white space, which     *)
(* only quotes can keep.                                                   *)
(***************************************************************************)
EXTENDS Integers, Sequences

CONSTANTS Error, Broken

Line == STRING \X (STRING \cup {Broken})

NoValues(keys) == [values |-> [k \in keys |-> ""], warnings |-> 0]

\* Mutant: a value that could not be read empties its key.
ReadLine_Emptied(parsed, line) ==
  IF line[1] = "#" THEN parsed
  ELSE IF line[1] = "" \/ line[2] = Broken
       THEN [values   |-> [parsed.values EXCEPT ![line[1]] = ""],
             warnings |-> parsed.warnings + 1]
       ELSE [parsed EXCEPT !.values[line[1]] = line[2]]

\* The body of the loop: a warning for a line that is not read.
ReadLine(parsed, line) ==
  IF line[1] = "#" THEN parsed
  ELSE IF line[1] = "" \/ line[2] = Broken
       THEN [parsed EXCEPT !.warnings = @ + 1]
       ELSE [parsed EXCEPT !.values[line[1]] = line[2]]

\* parseAssignments: read[i] is what the first i lines have given.
ParseAssignments(lines, keys) ==
  LET read[i \in 0 .. Len(lines)] ==
        IF i = 0 THEN NoValues(keys) ELSE ReadLine(read[i - 1], lines[i])
  IN  read[Len(lines)]

OSKey == {"PRETTY_NAME", "NAME", "VERSION"}
LBIKey == {"LBI_NAME", "LBI_SHORT", "LBI_VERSION", "LBI_BUILD", "BASE_OS", "MAINTAINER"}

Blank(text) == text \in {"", " "}

Said(text) == IF Blank(text) THEN <<>> ELSE <<text>>

\* A fact is the sequence of the texts it is made of, <<>> when it is unknown.
CollectOS(file) ==
  IF file = Error THEN <<>>
  ELSE LET values == ParseAssignments(file, OSKey).values
       IN  IF values["PRETTY_NAME"] # "" THEN <<values["PRETTY_NAME"]>>
           ELSE Said(values["NAME"]) \o Said(values["VERSION"])

Usable(text) == text # Error /\ ~Blank(text)

CollectKernel(file, uname) ==
  IF Usable(file) THEN <<file>>
  ELSE IF Usable(uname) THEN <<uname>> ELSE <<>>

\* target is what follows "/zoneinfo/" in the link, "" where nothing does;
\* location is the name of the runtime's location, Error for nil.
CollectTimezone(file, target, location) ==
  IF Usable(file) THEN <<file>>
  ELSE IF target \notin {Error, ""} THEN <<target>>
  ELSE IF location \notin {Error, "", "Local"} THEN <<location>> ELSE <<>>

NormalizeArchitecture(architecture) ==
  CASE Blank(architecture) -> <<>>
    [] architecture = "amd64" -> <<"x86_64">>
    [] architecture = "arm64" -> <<"aarch64">>
    [] architecture = "386" -> <<"i386">>
    [] OTHER -> <<architecture>>

\* Collect of internal/system: every source is tried, whatever another gave.
CollectSystem(host) ==
  LET facts == [os           |-> CollectOS(host.osRelease),
                kernel       |-> CollectKernel(host.kernel, host.uname),
                architecture |-> NormalizeArchitecture(host.architecture),
                timezone     |-> CollectTimezone(host.timezone, host.localtime, host.location)]
  IN  [hostname |-> IF host.hostname = Error \/ Blank(host.hostname) THEN <<>>
                    ELSE <<host.hostname>>,
       facts    |-> facts,
       warnings |-> {k \in DOMAIN facts : facts[k] = <<>>}
                      \cup {k \in {"hostname"} : host.hostname = Error}]

\* parseRelease is parseAssignments in another package.
ParseRelease(lines) == ParseAssignments(lines, LBIKey)

\* Collect of internal/lbi.
CollectLBI(file) ==
  IF file = Error
  THEN [available |-> FALSE, values |-> NoValues(LBIKey).values, warnings |-> 1]
  ELSE LET parsed == ParseRelease(file)
       IN  [available |-> TRUE, values |-> parsed.values, warnings |-> parsed.warnings]
=============================================================================
