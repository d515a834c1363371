---------------------------- MODULE HealthScripts ----------------------------
(***************************************************************************)
(* The two scripts of compat/lbi that the agent runs, with the library     *)
(* they share: what their probes find, and the exit code they end with.    *)
(*                                                                         *)
(* A probe of the host is "good", "bad", or "silent" when the command it   *)
(* relies on gives no answer; of disk and memory "low" lies between.  An   *)
(* awk that prints 0 where it could not read the memory finds it "bad".    *)
(* The probes of the library are "silent" when the library is missing.     *)
(***************************************************************************)
EXTENDS Integers, Sequences, SequencesExt, Inventory

Service == <<"qemu-guest-agent", "chrony", "fail2ban", "ssh">>

\* The probes of health-check.sh, in its order.
HealthProbe == <<"metadata">> \o Service
                 \o <<"clock", "units", "disk", "memory", "route", "dns", "ufw">>

Finding == {"good", "bad", "silent", "low"}

\* Where silence passes for good: a count of no lines, and comparisons with an
\* empty string, which fail as the comparison with a low number does.
Lenient == {"units", "disk", "memory"}

\* pass, warn or critical, as the script calls them.
Complaint(probe, finding) ==
  IF finding = "good" \/ (finding = "silent" /\ probe \in Lenient) THEN "pass"
  ELSE IF finding = "low" \/ probe \in {"clock", "dns"} THEN "warn" ELSE "critical"

Untouched == [status |-> 0, warnings |-> 0, criticals |-> 0]

\* Mutant: a warning sets the status whatever it was.
Warn_Overwrites(s) == [s EXCEPT !.warnings = @ + 1, !.status = 1]

Warn(s) == [s EXCEPT !.warnings = @ + 1, !.status = IF @ < 1 THEN 1 ELSE @]

Critical(s) == [s EXCEPT !.criticals = @ + 1, !.status = 2]

Heed(s, complaint) ==
  CASE complaint = "pass" -> s
    [] complaint = "warn" -> Warn(s)
    [] complaint = "critical" -> Critical(s)

\* The state of the script when every probe has been made.
HealthCheck(findings) ==
  LET after[i \in 0 .. Len(HealthProbe)] ==
        IF i = 0 THEN Untouched
        ELSE Heed(after[i - 1], Complaint(HealthProbe[i], findings[HealthProbe[i]]))
  IN  after[Len(HealthProbe)]

\* exit "$STATUS", as the agent reads it.
HealthExit(findings) == <<"zero", "one", "two">>[HealthCheck(findings).status + 1]

\* The commands lbi-validate.sh checks, in its order.
Validated == <<"metadata", "bootstrap", "cli", "specification",
               "qemu-guest-agent", "chrony", "fail2ban", "ssh-baseline", "ufw",
               "hostname", "apps", "data", "backups", "logs">>

\* set -e ends the script where its library cannot be read.
ValidationExit(findings, library) ==
  IF library /\ \A i \in DOMAIN Validated : findings[Validated[i]] = "good"
  THEN "zero" ELSE "one"
=============================================================================
