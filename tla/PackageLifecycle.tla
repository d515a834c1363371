-------------------------- MODULE PackageLifecycle --------------------------
(***************************************************************************)
(* The agent as a Debian package under systemd: the maintainer scripts of  *)
(* packaging/debian, the units of packaging/systemd, and what they must    *)
(* keep together over installs, upgrades, removals, purges, interruptions  *)
(* and reboots: the service account, the state directory and the identity  *)
(* in it, and a timer that goes on starting the service.                   *)
(*                                                                         *)
(* dpkg, systemd and the administrator are external.  dpkg runs the        *)
(* scripts in the order of its policy; systemd arms a timer as             *)
(* systemd.timer(5) tells; the administrator may decommission the node by  *)
(* the commands of docs/DEPLOYMENT.md.                                     *)
(***************************************************************************)
EXTENDS Integers

CONSTANT Uids   \* bound: the user IDs an account may be given

ASSUME UidAssumption == Uids \subseteq Nat \ {0}

None == -1      \* a directory, a file or an account that does not exist
Root == 0

VARIABLES
  dpkg,         \* "absent", "unpacked" (not configured, or no longer) or "installed"
  step,         \* the next step of the script that runs, or "none"
  purge,        \* the removal is a purge
  uid,          \* of the account lts-agent
  ours,         \* it has the home and the shell of the service account
  dir,          \* the owner of /var/lib/lts-agent
  identity,     \* the owner of state.json in it
  managed,      \* systemd runs here: /run/systemd/system exists
  enabled,      \* the timer is wanted at boot
  timer,        \* what the timer does
  stamp,        \* the file by which a persistent timer remembers that it ran
  history,      \* systemd knows when the service was last started
  early,        \* the first two minutes after boot, for OnBootSec
  service,      \* "inactive" or "running"
  retiring      \* the next command of a decommission, or "none"

account == <<uid, ours>>
files == <<dir, identity>>
systemd == <<managed, enabled, timer, stamp, history, early, service>>
vars == <<dpkg, step, purge, account, files, systemd, retiring>>

TypeOK ==
  /\ dpkg \in {"absent", "unpacked", "installed"}
  /\ step \in {"none", "account", "adduser", "directory", "enable", "start",
               "prerm", "delete", "postrm"}
  /\ uid \in Uids \cup {None}
  /\ {dir, identity} \subseteq Uids \cup {None, Root}
  /\ timer \in {"stopped", "armed", "triggered", "elapsed", "failed"}
  /\ service \in {"inactive", "running"}
  /\ retiring \in {"none", "directory", "account"}
  /\ {purge, ours, managed, enabled, stamp, history, early} \subseteq BOOLEAN
  /\ ~managed => timer = "stopped" /\ service = "inactive"

\* A node, or the root of an image that is built in a chroot, with or without a
\* foreign account of the name.
Init ==
  /\ dpkg = "absent" /\ step = "none" /\ purge = FALSE
  /\ uid \in Uids \cup {None} /\ ours = FALSE
  /\ dir = None /\ identity = None
  /\ managed \in BOOLEAN /\ enabled = FALSE /\ timer = "stopped"
  /\ stamp = FALSE /\ history = FALSE /\ early \in BOOLEAN
  /\ service = "inactive" /\ retiring = "none"

---------------------------------------------------------------------------
(* The timer of packaging/systemd/lts-agent.timer. *)

\* Mutant: the timer of a release that lacked OnActiveSec.
Triggers_NoActive == {"OnBootSec", "OnUnitActiveSec"}

Triggers == {"OnBootSec", "OnActiveSec", "OnUnitActiveSec"}

\* A timer that starts has a next elapse: OnBootSec in the future, or past and
\* made up for when the timer has never run; OnActiveSec in any case;
\* OnUnitActiveSec when the last start of the service is known.
Arms(isEarly, stamped, known) ==
  \/ "OnBootSec" \in Triggers /\ (isEarly \/ ~stamped)
  \/ "OnActiveSec" \in Triggers
  \/ "OnUnitActiveSec" \in Triggers /\ known

StartTimer(isEarly, known) ==
  IF timer \in {"stopped", "failed"}
  THEN /\ timer' = IF Arms(isEarly, stamp, known) THEN "armed" ELSE "elapsed"
       /\ stamp' = TRUE
  ELSE UNCHANGED <<timer, stamp>>

\* The service unit is forgotten when nothing refers to it, unless it failed.
StopTimer ==
  /\ timer' = "stopped"
  /\ history' \in {history, service = "running"}

---------------------------------------------------------------------------
(* dpkg and the maintainer scripts. *)

Unattended == step = "none" /\ retiring = "none"

\* An install, an upgrade, or another attempt at either; prerm does nothing for
\* an upgrade.
Unpack ==
  /\ Unattended
  /\ dpkg' = "unpacked" /\ step' = "account"
  /\ UNCHANGED <<purge, account, files, systemd, retiring>>

\* Mutant: whatever account has the name is taken.
CheckAccount_Any ==
  /\ step = "account"
  /\ dir' = IF uid = None /\ dir = None THEN Root ELSE dir
  /\ step' = IF uid = None THEN "adduser" ELSE "directory"
  /\ UNCHANGED <<dpkg, purge, account, identity, systemd, retiring>>

\* postinst: an account that exists is accepted or is not the expected one; for
\* one that does not, root gets the directory first.
CheckAccount ==
  /\ step = "account"
  /\ dir' = IF uid = None /\ dir = None THEN Root ELSE dir
  /\ step' = IF uid = None THEN "adduser" ELSE IF ours THEN "directory" ELSE "none"
  /\ UNCHANGED <<dpkg, purge, account, identity, systemd, retiring>>

CreateAccount ==
  /\ step = "adduser"
  /\ uid' \in Uids /\ ours' = TRUE
  /\ step' = "directory"
  /\ UNCHANGED <<dpkg, purge, files, systemd, retiring>>

\* install -d changes the owner of the directory, not of what is in it.
PrepareDirectory ==
  /\ step = "directory"
  /\ dir' = uid
  /\ step' = "enable"
  /\ UNCHANGED <<dpkg, purge, account, identity, systemd, retiring>>

\* Mutant: nothing asks whether systemd runs.
EnableTimer_Always ==
  /\ step = "enable"
  /\ enabled' = TRUE
  /\ step' = "start"
  /\ UNCHANGED <<dpkg, purge, account, files, managed, timer, stamp, history, early,
                 service, retiring>>

\* systemctl enable --now: the timer is enabled first.
EnableTimer ==
  /\ step = "enable" /\ managed
  /\ enabled' = TRUE
  /\ step' = "start"
  /\ UNCHANGED <<dpkg, purge, account, files, managed, timer, stamp, history, early,
                 service, retiring>>

StartEnabled ==
  /\ step = "start"
  /\ StartTimer(early, history)
  /\ dpkg' = "installed" /\ step' = "none"
  /\ UNCHANGED <<purge, account, files, managed, enabled, history, early, service, retiring>>

\* Without /run/systemd/system, as in a chroot, nothing is enabled.
SkipTimer ==
  /\ step = "enable" /\ ~managed
  /\ dpkg' = "installed" /\ step' = "none"
  /\ UNCHANGED <<purge, account, files, systemd, retiring>>

Remove ==
  /\ Unattended /\ dpkg # "absent"
  /\ step' = "prerm" /\ purge' \in BOOLEAN
  /\ UNCHANGED <<dpkg, account, files, systemd, retiring>>

\* The timer is disabled and stopped, and a failure to do so is ignored.  A
\* running service is not stopped.
Prerm ==
  /\ step = "prerm"
  /\ \/ managed /\ enabled' = FALSE /\ StopTimer
     \/ UNCHANGED <<enabled, timer, history>>
  /\ step' = "delete"
  /\ UNCHANGED <<dpkg, purge, account, files, managed, stamp, early, service, retiring>>

DeleteFiles ==
  /\ step = "delete"
  /\ dpkg' = "absent" /\ step' = "postrm"
  /\ UNCHANGED <<purge, account, files, systemd, retiring>>

\* Mutant: a purge takes the account with it.
Postrm_DeletesAccount ==
  /\ step = "postrm"
  /\ IF purge THEN uid' = None /\ ours' = FALSE ELSE UNCHANGED account
  /\ step' = "none"
  /\ UNCHANGED <<dpkg, purge, files, systemd, retiring>>

\* daemon-reload, and for a purge reset-failed; account and directory stay.
Postrm ==
  /\ step = "postrm"
  /\ IF managed /\ purge
     THEN /\ timer' = IF timer = "failed" THEN "stopped" ELSE timer
          /\ history' \in {history, FALSE}
     ELSE UNCHANGED <<timer, history>>
  /\ step' = "none"
  /\ UNCHANGED <<dpkg, purge, account, files, managed, enabled, stamp, early, service,
                 retiring>>

Left == IF step \in {"none", "postrm"} THEN dpkg ELSE "unpacked"

\* A command of a script fails, which ends it under set -e, or dpkg is killed
\* between two steps.
Interrupt ==
  /\ step # "none"
  /\ dpkg' = Left /\ step' = "none"
  /\ UNCHANGED <<purge, account, files, systemd, retiring>>

---------------------------------------------------------------------------
(* systemd and the service. *)

\* The machine starts, perhaps for the first time, or again after a power loss,
\* and no command that was under way goes on.
Boot ==
  /\ managed' = TRUE /\ early' = TRUE /\ history' = FALSE /\ service' = "inactive"
  /\ dpkg' = Left /\ step' = "none"
  /\ IF enabled /\ Left # "absent"
     THEN /\ timer' = IF Arms(TRUE, stamp, FALSE) THEN "armed" ELSE "elapsed"
          /\ stamp' = TRUE
     ELSE timer' = "stopped" /\ UNCHANGED stamp
  /\ retiring' = "none"
  /\ UNCHANGED <<purge, account, files, enabled>>

BootPasses ==
  /\ early /\ early' = FALSE
  /\ UNCHANGED <<dpkg, step, purge, account, files, managed, enabled, timer, stamp,
                 history, service, retiring>>

\* StateDirectory: where the owner of the directory is another, the directory
\* and all that is in it are given to the user of the service.
StartService ==
  /\ service' = "running" /\ history' = TRUE
  /\ dir' = uid
  /\ identity' = IF dir # uid /\ identity # None THEN uid ELSE identity

\* What the timer starts: without the unit or the program it fails itself, or
\* the service does; without the account the service does.
Fire ==
  /\ timer = "armed" /\ service = "inactive"
  /\ \/ dpkg # "absent" /\ uid # None /\ StartService /\ timer' = "triggered"
     \/ /\ dpkg = "absent" \/ uid = None
        /\ timer' \in IF dpkg = "absent" THEN {"armed", "failed"} ELSE {"armed"}
        /\ history' = TRUE
        /\ UNCHANGED <<files, service>>
  /\ UNCHANGED <<dpkg, step, purge, account, managed, enabled, stamp, early, retiring>>

\* systemctl start lts-agent.service, as after an enrollment token was installed.
StartByHand ==
  /\ Unattended /\ managed /\ dpkg = "installed" /\ uid # None
  /\ service = "inactive" /\ StartService
  /\ UNCHANGED <<dpkg, step, purge, account, managed, enabled, timer, stamp, early,
                 retiring>>

\* register has an identity and writes it where there is none, see CoreSync; its
\* MkdirAll may not create the directory anew.
StoreIdentity ==
  /\ service = "running" /\ dir = uid /\ identity = None
  /\ identity' = uid
  /\ UNCHANGED <<dpkg, step, purge, account, dir, systemd, retiring>>

\* A run ends, see AgentRun; an active timer is armed by OnUnitActiveSec.
RunEnds ==
  /\ service = "running" /\ service' = "inactive"
  /\ timer' = IF timer \in {"triggered", "elapsed"}
              THEN IF "OnUnitActiveSec" \in Triggers THEN "armed" ELSE "elapsed"
              ELSE timer
  /\ history' \in IF timer \in {"stopped", "failed"} THEN BOOLEAN ELSE {TRUE}
  /\ UNCHANGED <<dpkg, step, purge, account, files, managed, enabled, stamp, early,
                 retiring>>

---------------------------------------------------------------------------
(* The administrator, as docs/DEPLOYMENT.md has it. *)

\* systemctl disable --now lts-agent.timer
Retire ==
  /\ Unattended /\ managed
  /\ enabled' = FALSE /\ StopTimer
  /\ retiring' = "directory"
  /\ UNCHANGED <<dpkg, step, purge, account, files, managed, stamp, early, service>>

\* rm -rf /var/lib/lts-agent
RetireDirectory ==
  /\ retiring = "directory"
  /\ dir' = None /\ identity' = None
  /\ retiring' = "account"
  /\ UNCHANGED <<dpkg, step, purge, account, systemd>>

\* deluser, which refuses while a process of the account runs.
RetireAccount ==
  /\ retiring = "account" /\ service = "inactive"
  /\ uid' = None /\ ours' = FALSE
  /\ retiring' = "none"
  /\ UNCHANGED <<dpkg, step, purge, files, systemd>>

\* Somebody takes the free name for a purpose of his own.
ForeignAccount ==
  /\ Unattended /\ uid = None /\ dpkg = "absent"
  /\ uid' \in Uids /\ ours' = FALSE
  /\ UNCHANGED <<dpkg, step, purge, files, systemd, retiring>>

Next ==
  \/ Unpack \/ CheckAccount \/ CreateAccount \/ PrepareDirectory
  \/ EnableTimer \/ StartEnabled \/ SkipTimer
  \/ Remove \/ Prerm \/ DeleteFiles \/ Postrm \/ Interrupt
  \/ Boot \/ BootPasses \/ Fire \/ StartByHand \/ StoreIdentity \/ RunEnds
  \/ Retire \/ RetireDirectory \/ RetireAccount \/ ForeignAccount

Spec == Init /\ [][Next]_vars

\* The clock reaches an armed timer, however often the machine is restarted, and
\* TimeoutStartSec ends a run.
LiveSpec == Spec /\ SF_vars(Fire) /\ WF_vars(RunEnds)

---------------------------------------------------------------------------
(* Properties. *)

\* Whenever the agent runs, it runs as the service account, in a directory of
\* that account, and can read the identity it finds there: no sequence of
\* installs, removals, purges, reboots and decommissions leaves a state file to
\* a user that is no longer the account ("The state contains the node identity
\* needed for a safe reinstall", postrm:4-6), and an account that only has the
\* name is never run as or given the directory (postinst:24-30).
IdentityUsable ==
  /\ service = "running" =>
       /\ ours /\ dir \in {uid, None}
       /\ identity \in {uid, None}
  /\ uid # None /\ ~ours => dir # uid /\ identity # uid

\* A timer that was enabled starts the service again and again, whatever was
\* removed and reinstalled before on a node that stayed up: "reinstalling on an
\* already-running node re-arms the timer even when a persistent trigger stamp
\* exists" (docs/DEPLOYMENT.md:68-71, lts-agent.timer:6-8).
TimerRearms ==
  managed /\ enabled /\ dpkg = "installed"
    ~> service = "running" \/ ~enabled \/ dpkg # "installed"
=============================================================================
