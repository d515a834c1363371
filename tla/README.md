# Verification of lts-agent

TLA+ models of `lts-agent`, the inventory agent of a Linux node: a process that
systemd starts every few minutes, that runs two local check scripts, exchanges
up to three requests with a remote service (LTS Core), keeps the node's identity
in one state file, and prints one JSON document. `PROJECT.json` maps each
definition to the lines it models and lists the runs, mutants and theorems.

1. [The system](#the-system)
2. [The modules](#the-modules)
3. [Runs](#runs)
4. [Where the code and its documents disagree](#where-the-code-and-its-documents-disagree)
5. [Proofs](#proofs)
6. [Assumptions and abstractions](#assumptions-and-abstractions)
7. [Not modelled](#not-modelled)
8. [Plan](#plan)

## The system

| Component | State | Operations | Interacts with |
| --- | --- | --- | --- |
| `internal/coresync` | `state.json` (node ID and agent token), the enrollment token file, `.state-*` temporary files; in memory one `inventory.Core` summary | `Sync`: `loadState`, `register`, `writeState`, removal of the token, `heartbeat`, `desiredState` | the client; other invocations and the administrator through the files; LTS Core |
| `internal/core` | a connection pool, a timeout | `New`, `DoJSON`, `DoJSONWithBearer` | `net/http`, LTS Core |
| `internal/check` | per check: a context, a process, a `limitedBuffer` | `Collect`, `run`, `execute`, `Write`, `String` | the LBI scripts and their descendants, the context of the process |
| `internal/app`, `internal/agent`, `cmd/lts-agent` | the report under construction, the signal context | `Run`, `Collect`, `WriteReportJSON` | every collector, systemd, stdout |
| `internal/config` | none | `Load`: defaults, overrides, validation | its verdict decides on `app` and the arguments of the rest |
| `internal/system`, `internal/lbi`, `internal/role` | none | one `Collect` each | files of the host, `uname` |
| `internal/desired`, `internal/identifier` | none | `Parse`, `Valid` | the response of LTS Core |
| `internal/inventory` | none | types of the report | all |
| `packaging/systemd`, `packaging/debian` | the timer, the service account, the state directory | units; `postinst`, `prerm`, `postrm` | start, stop and replace the agent |
| `compat/lbi` | counters of one script run | health and validation scripts | run by `internal/check` |

There is no daemon and no goroutine of the agent's own. Concurrency comes from
its surroundings: systemd and an administrator may run two agents at once, the
scripts run beside the goroutines of `os/exec`, LTS Core acts on requests whose
sender is gone, and signals, kills and power losses hit anywhere.

What makes each component correct:

- **Core synchronization.** The identity of the node must survive everything: at
  each moment the node holds what Core accepts, or can still obtain it. The
  state file is never torn and never replaced when it is invalid; a credential
  that arrived is kept; the enrollment token goes only after its credential is
  stored. The summary tells the truth about each operation.
- **Core client.** Each POST reaches Core at most once, success is reported only
  for a complete and usable answer, and no exchange lasts for ever.
- **Check collector.** A verdict is the script's own; a kill is explained; the
  output is a true beginning of what was written; checks do not overlap and end.
- **Application.** Once the configuration is accepted, exactly one whole
  document leaves the process, it says how each stage ended, and the run ends.
- **Configuration, documents, packaging, scripts.** Accepted input is usable by
  those who receive it; the identity survives install, upgrade and removal; the
  aggregated exit code is the worst of the probes.

## The modules

```
Inventory ----+--> CoreSync ------> MCCoreSync        (TLC)
              |       |   \-------> CoreSync_proofs   (TLAPS)
              |       \-- refines NodeIdentity --> NodeIdentity_proofs
              +--> CheckRunner ---> MCCheckRunner, CheckRunner_proofs
              |       \-- INSTANCE LimitedBuffer --> CheckOutput --> LimitedBuffer_proofs
              +--> AgentRun ------> MCAgentRun, AgentRun_proofs
              \--> HealthScripts -------\
DocumentFields --> Config, Assignments --+--> Intake --> MCIntake        (TLC)
Endpoint, HostFacts ---------------------/          \--> Intake_proofs   (TLAPS)
CoreClient (refines Exchange) ----> MCCoreClient, CoreClient_proofs
PackageLifecycle -----------------> PackageLifecycle_proofs
```

**Inventory** holds what several components decide on: the statuses of the
checks, what an exit code means and which outcomes of a check are expected
(`Outcome`), the `inventory.Core` summary, and `Coherent`, which relates a
finished summary to its warnings. `AgentRun` assumes of a check only `Outcome`,
and of a synchronization only `Coherent`; that the components keep to this is
proved (`CheckRunner_proofs!Expected`, `CoreSync_proofs!Coherence`).

**CoreSync** is `Sync` with all it calls. Each invocation has a program counter;
a step is what happens between two points at which a crash, a signal, another
invocation, Core or the disk can be observed. `writeState` is split at the fsync
and the rename; reading a file and validating it is one step. The variables fall
in three groups: the host (files as processes see them, and `durState`,
`durEnrollment` as a power loss would leave them), Core (external: what it has
issued, what it accepts, requests nobody waits for), and the invocations. A
credential is a number, 0 is an absent file, `Invalid` a file that does not
validate. Every error path of `register` ends in `RegistrationFails`. The
administrator enrolls (`Provision`) and recovers (`Reprovision`) as
docs/DEPLOYMENT.md tells.

**NodeIdentity** is the promise without processes: a node gives up its ticket
only once it holds a credential, and holds what Core accepts. `CoreSync`
implements it with `held <- stateFile`, `ticket <- enrollment`.

**CoreClient** is `doJSON` for the three requests of an invocation in the order
`Sync` makes them, over the connection `net/http` keeps between them. Dialling,
reuse and the rule by which the transport replays a request on a dead connection
are external and written from `Transport`'s documented behaviour; the timeout,
the bounded read, the status and the decoding are the code's. A body is a
sequence of bytes of three classes (within the value, its last byte, white
space) that comes in pieces and may be longer than the limit: `ReadBytes` reads
up to `ReadLimit`, one byte more than allowed, and `ReadBody` decides on what was
read, which of a longer body is its beginning only. **Exchange** is what the
client promises: at most N deliveries, none after success.

**LimitedBuffer** is the writer behind a script's output, with `offered` as a
history of all bytes. **CheckOutput** adds `String`: replacement of invalid
UTF-8, and trimming. **CheckRunner** runs both checks: collector, script,
descendants, copying goroutine, deadline and signal race. Its buffer is an
instance of LimitedBuffer in which a byte is its position in the output, so that
"complete" can be said exactly.

**AgentRun** is the whole invocation. Stages that are modules of their own are
one step here, with every outcome those modules are proved to have; `stuck` says
that a stage waits for a process its context does not end.

**Intake** puts together the functions by which a run turns what it is given
into what it works with; each of its actions takes one input and applies one
handler to it. **Config** is `Load` with its strict decoding, overrides and
bounds, and beside it what `core.New` and the check collector ask of the result.
**Endpoint** is the registration response, the state file made of it, and the
resolution of endpoints against the base URL. A path is a sequence of segments,
a segment the sequence of its pieces between escaped slashes, a piece a sequence
of symbols, among them the dot and the escaped dot. `BasePath` asks for the last
slash where the code does, in the unescaped path, and re-encodes where `RawPath`
is no longer valid; `ResolveReference` is the loop of net/url (external) that
removes dot segments from the base and the endpoint alike.
**Assignments** holds the two documents with the same lists: the assignment,
which keeps what is valid, and the desired state, which is taken whole or not at
all. **HostFacts** is the KEY=VALUE parser of `system` and `lbi` and the
fallbacks of each fact. **HealthScripts** is the way of the two scripts from
their probes to the exit code. **DocumentFields** names what stands for a
missing, null or malformed field. The properties relate two of these at a time,
or a result to a definition that does not follow the code.

**PackageLifecycle** is the package on a node: each command of `postinst`,
`prerm` and `postrm` that changes state is an action, and dpkg may be killed or
the machine restarted between two of them. dpkg, systemd (timers,
`StateDirectory`) and the administrator, who starts the service by hand or
decommissions the node as docs/DEPLOYMENT.md tells, are external. `postinst`
goes through `CheckAccount` (with the directory that root gets first),
`CreateAccount`, `PrepareDirectory`, and `EnableTimer` with `StartEnabled`, or
`SkipTimer` in a chroot; each may fail, which under `set -e` ends the script
(`Interrupt`). A run of the agent is what CoreSync is proved to be (`Storing`):
it stores an identity where there is none.

## Runs

Each run below finishes within half a minute. "Fails" marks a run that must find
a violation, see the next section.

| Run | Question | Bounds |
| --- | --- | --- |
| `core_rotating` | Is one invocation at a time safe against a Core that rotates credentials, whatever fails? | 1 invocation, 3 credentials, 2 grants; every fault but late requests |
| `core_overlap` | Are two at once, and with requests Core acts on late? | 2 invocations (symmetric), 1 credential, 1 grant; Core reissues, disks work |
| `core_live` | Does a provisioned node reach Core in the end, and leave no temporary files? | 1 invocation; crashes, network and I/O faults, late requests |
| `core_token_left` | Does the consumed token go? | fails |
| `check_results` | Are results true and complete in every race, and do checks end? | limit 2, 3 bytes per script; every fault |
| `check_pipe_held` | Does the deadline bound a check? | fails |
| `output_text` | Is the kept output a beginning, its mark exact, its text bounded? | limit 4, 6 bytes in chunks of up to 3 |
| `client_exchange` | Are requests delivered and answered as promised, and do they end? | three requests, every connection fault; limit 2, bodies of up to 4 bytes |
| `client_replay` | Is there one request of each kind? | fails |
| `run_report` | Is the inventory emitted, is the document true, does every run end? | every fault |
| `inputs` | Is what is accepted usable, and is what is reported what was there? | values at and beside every boundary; lists and files of 3, endpoints of 4 symbols, base paths of 3 after the first slash or segment |
| `package` | Does the identity survive the life of the package, and does the timer go on? | 2 user IDs; every order of commands, reboots and interruptions |

*Why the bounds are enough.* What can go wrong with a credential needs at most
the one the node holds, the one Core accepts and one on its way, and a second
grant to tell a stale enrollment token from a fresh one. In `core_overlap` Core
reissues, so there is one credential however many registrations it sees. Late
requests with revocation, and overlap with more grants, are left to the proofs.
The output models need a limit that is met exactly, inside a chunk and before
one; a limit of 4 holds invalid runs that are separated by one byte, the worst
case of the bound in `OutputWithinTwice`. An invocation makes three requests,
and `CoreClient` bounds only their bodies: with a limit of 2, four bytes are a
body below, at and above it, a value that ends before, at or behind it, and
white space or another byte after the value on either side of the cut.
`AgentRun` has no bound. `PackageLifecycle` has no counter either: two user IDs
tell the account from the one that had the name before. `inputs` takes of each
number the values on both sides of its bounds, and all combinations of what one
condition looks at. Three lines hold a value, its repetition and a damaged line
between them; three list elements a duplicate, an inversion and an invalid one;
four symbols every position of ".." in an endpoint, plain and escaped, between
slashes of either kind; three a base path with a dot segment, an escaped slash
or both at its end, and with or without a segment before. A node ID may have 3
symbols in place of 128 and a bearer 1, which keeps the boundary and loses only
length; the proof covers the rest.

*Deadlock* is checked where the system runs for ever (`core_*`, `package`, and
`check_*`, where the returned collector stutters explicitly). The runs of the
client, the output, the application and the inputs end, so their configurations
turn it off.

*Fairness.* `core_live`: the process takes its next step (weak fairness), the
timer starts it again, and each step that may fail is strongly fair: it fails as
often as it likes but not for ever. Signals are excluded there, an administrator
who cancels each run would keep the node away for good. `check_results`: the
collector, the kill by `os/exec` and the propagation of a signal are weakly
fair. `CollectReturns` asks for the deadline's fairness besides,
`CancellationStops` does not: a signal needs no deadline. Both ask that a
descendant lets go of the pipe at last, without which neither holds (that is
`check_pipe_held`). `client_exchange`: only the client's own timeout and return
are fair, not Core. `run_report`: the process and systemd (SIGTERM after
`TimeoutStartSec`, SIGKILL later) are fair; a process a stage waits for is not.
`package`: an armed timer fires, strongly fair since a reboot disarms it for a
moment, and a run ends, which `RunEnds` of AgentRun shows. No command of dpkg or
of the administrator is fair: they may stop anywhere.

Every property of a passing run has a mutant in `PROJECT.json`: an operator
beside the original, marked "Mutant", under which TLC finds it violated.

## Where the code and its documents disagree

- **`core_token_left`.** docs/DEPLOYMENT.md 61 says that a registration removes
  the enrollment token. A process killed between the rename (sync.go 382) and
  the removal (129), or a removal that fails, leaves it for good: the next run
  finds a state and does not look at the token. Nothing breaks, the consumed
  token stays on the disk.
- **`check_pipe_held`.** README.md 308-315 says that each script has a deadline
  and that a check that exceeds it is a `timeout`. The deadline kills the script
  only, and `Wait` (check.go 186) waits for every writer of the pipe; a
  background process of the script holds the check up until systemd stops it.
- **`client_replay`.** docs/LTS-CORE-API-v1.md 91 says there are no retries, and
  docs/DEPLOYMENT.md 92-93 that there is at most one retrieval. `net/http`
  repeats the GET when the connection it kept from the heartbeat turns out to be
  dead, even if Core has acted on it. `KeepsExchange` shows that the two POSTs
  are never repeated. This is HTTP/1.1; over HTTP/2 the transport repeats only
  streams the server says it has not processed.

One more, which no run is spent on: README.md 309 says output is retained up to
64 KiB. The limit applies to raw bytes, and `String` (check.go 235) replaces
invalid runs with three bytes each, so the text may be longer. What holds is
`OutputWithinTwice`: twice the limit and one byte.

## Proofs

TLAPS proves the following for every value of the constants.

| Theorem | Says |
| --- | --- |
| `CoreSync_proofs!TypeCorrect` | CoreSync is well typed |
| `CoreSync_proofs!Invariance` | the inductive invariant `IInv` holds |
| `CoreSync_proofs!Safety`, `DiskSafety` | the node is never stranded, nor is what a power loss leaves |
| `CoreSync_proofs!Retention` | only the documented recovery replaces an invalid state |
| `CoreSync_proofs!Persistence` | a received credential reaches `state.json` before the report |
| `CoreSync_proofs!Integrity` | what a power loss leaves of the state file is never torn |
| `CoreSync_proofs!Refinement` | one invocation at a time implements NodeIdentity |
| `CoreSync_proofs!Coherence` | a finished summary is coherent, whatever failed or was cancelled |
| `CoreSync_proofs!SpentOnce` | a node with state does not register, and the token that goes is the one that was sent |
| `CoreSync_proofs!Storing` | a run changes the state only by storing a credential where there is none |
| `CoreSync_proofs!Tidiness` | no failing write leaves its temporary file |
| `NodeIdentity_proofs!AlwaysRecoverable` | the abstract promise is recoverable |
| `CoreClient_proofs!TypeCorrect`, `Invariance` | the client is well typed, its inductive invariant holds |
| `CoreClient_proofs!Refinement` | the client implements Exchange: no POST arrives twice, none after its success |
| `CoreClient_proofs!AnswerAccepted` | success means a body read to its end, within the limit and of the expected form; no beginning of a longer one passes, and a usable one is not refused |
| `LimitedBuffer_proofs!Retention` | the buffer holds the beginning, its mark is exact |
| `LimitedBuffer_proofs!TextWithinTwice` | the reported text has at most twice the limit and one byte |
| `CheckRunner_proofs!TypeCorrect`, `Invariance` | the checks are well typed, their inductive invariant holds |
| `CheckRunner_proofs!VerdictIsTrue`, `KillIsExplained` | a verdict is the script's own, and a kill by the agent is explained |
| `CheckRunner_proofs!OutputIsComplete` | a result has all that was written, up to the limit |
| `CheckRunner_proofs!Sequential` | a check that has ended has left nothing running on its pipe |
| `CheckRunner_proofs!Expected` | each check gets one result, of the outcomes AgentRun assumes |
| `AgentRun_proofs!TypeCorrect`, `Invariance` | a run is well typed, its inductive invariant holds |
| `AgentRun_proofs!ReportIsTruthful` | the document says of every stage how it ended |
| `PackageLifecycle_proofs!TypeCorrect`, `Invariance` | the package is well typed, its inductive invariant holds |
| `PackageLifecycle_proofs!IdentitySafe` | a run is its account's, and so is the identity it finds |
| `Intake_proofs!Accepted`, `Fits` | an accepted configuration is usable by its receivers, its limits fit the unit's |
| `Intake_proofs!NothingSilent` | an accepted file is in effect to the letter |
| `Intake_proofs!Registered` | an accepted registration can be loaded and addressed, whatever the length of its ID |
| `Intake_proofs!StaysBelow` | no accepted endpoint leaves the directory of the base path, whatever either is spelt in and however long |
| `Intake_proofs!DocumentsTold` | assignment and desired state agree, however long their lists |
| `Intake_proofs!FactsTold` | a damaged line costs itself only, however long the files; a known source is used |
| `Intake_proofs!HealthTold` | the exit code is the worst finding, whatever the probes find |

*Assumptions.* Of CoreSync, `TypeCorrect`, `Integrity`, `Coherence` and
`Tidiness` assume nothing. `Retention`, `SpentOnce` and `Storing` assume a single
invocation at a time (`Sole`), and nothing of Core. `Safety`, `DiskSafety` and
`Invariance` assume `Orderly`: either Core answers a repeated registration with
the credential it has and nobody revokes the node meanwhile (then any number of
invocations may overlap), or there is one invocation at a time and Core reissues
or never acts on a request that was given up. `Persistence` assumes one of
the two, `Refinement` both. The code cannot guarantee any of this: the first part
of `Orderly` is up to LTS Core, and single invocations are what systemd provides
as long as nobody runs the binary by hand. Without `Orderly` TLC finds a stranded
node: two overlapping registrations against a rotating Core leave the credential
that Core has replaced, and a late one does the same to a single invocation.

Of the inputs Intake states what they are, and TLC evaluates that on the inputs
of the run: a document that could be decoded holds lists of identifiers or what
stands in their place, and is not `Malformed` (`DocumentsAssumption`); a file
that could be read is a sequence of lines (`LinesAssumption`); a path is one
segment at least, and that of a base URL is empty or begins with a slash
(`PathAssumption`); each probe of a script has one of the four findings
(`FindingsAssumption`). The theorems of CoreClient, LimitedBuffer, CheckRunner
and AgentRun assume only what their modules state of the constants (that limits
are numbers, bodies are sequences of bytes, and which faults there are).

*The argument.* Whether a rename or a removal is safe depends on what is under
way elsewhere, so `NeverStranded` is not inductive. `IInv` adds: every
credential in a file, in memory or in an answer is the one Core accepts, or the
node is revoked and no request can bring it back (`CredentialInv`); what a
process has stored is in the file (`HeldInv`); a single invocation registers
only on a host without state (`SoleInv`); what is renamed has been synced, and
what removes a token has its state in place (`OrderInv`); the disk lags behind
by the last rename at most (`DiskInv`); and as soon as Core knows the node *or
may come to know it from a request under way*, the token stays until the state
is there (`TokenInv`). Preservation is proved action by action; the refinement
follows from `IInv` and the few actions that touch the files at all. `Coherence`
needs no promise of Core and an invariant of its own: at each program counter,
what the summary says so far and which credential the process holds
(`ProgressInv`), from which the last step reads off `Coherent`. What a single
invocation does needs no promise of Core either, since it is the only one to
touch the files: `Retention` and `Storing` rest on who registers having found no
state (`FirstInv`); `SpentOnce` on the token that was sent being in its file
until the removal, unless Core has granted another (`SentInv`, `GrantInv`);
`Persistence` on what was stored staying in its file and a write being given up
only when the disk has failed (`KeptInv`).

For the buffer, `RetainsPrefix` and the types are inductive together; the proof
splits on where the chunk meets the limit. Of the text, runs of invalid bytes
are separated: mapping the start of each run but the last to the valid byte that
ends it is injective, which bounds their number by the other bytes plus one.

The client replays one request at most once, but a delivery may come from the
kept connection, from its replay, or late from a connection nobody reads. What
is inductive is an account of them: a request has been delivered at most once by
the attempts before this one, and only if it may be replayed, and at most once
by this one, just when it has `arrived` (`AttemptInv`); what may still arrive
late was given up and has a delivery left (`LateInv`); and which of the flags a
phase allows (`PhaseInv`). The refinement then needs of each step only that the
count stays below the bound of Exchange and that success comes after `arrived`.

For `AnswerAccepted`, what the reader holds when it stops is the whole body, or
one byte more than allowed; the size is refused in the second case, so what the
status and the decoding were judged by is what Core has sent. With a reader
limited to what is allowed this fails: of a body that is one byte too long, the
part within the limit may decode.

For the checks, `OutputComplete` speaks of a result and the race is before it.
`IInv` says what holds at each step of the collector: `Wait` has returned only
after the script ended and everything was copied (`WaitInv`), a context that is
done and a script that was killed have a cause (`ContextInv`), what the buffer
was offered is the output in its order, and the buffer keeps the beginning of it
(`BufferInv`, with the lemmas of `LimitedBuffer_proofs` instantiated for the
current check), and the second check has not begun while the first runs
(`OrderInv`).

In AgentRun each stage writes its part of the report once. `IInv` states, by
stage, which parts are still unsaid and which are final: checks (`CheckInv`),
the Core section with its warnings (`CoreInv`), the document (`ExitInv`).

`IdentityUsable` of the package needs two facts about what is under way: while a
decommission runs, the timer is stopped and disabled and dpkg waits, so nothing
starts between the removal of the directory and that of the account
(`RetiringInv`); and a node without the service account has neither timer nor
service nor directory, since `postinst` stops at a foreign one (`ForeignInv`).
With the account, every file is its own (`OwnInv`); and what `postinst` may do
at each of its steps rests on what the steps before it have found (`ScriptInv`).
The only assumption is that user IDs are positive. The theorems of Intake follow
from the fact that a result is what its handler makes of the input (`MadeInv`).
For `Registered`, each of the four pieces of the endpoint begins with a letter
or a digit, and unescaping leaves such a symbol alone, so that none becomes
"..".

For `StaysBelow`, the loop of `ResolveReference` has first gone through the base
path without its last segment and then goes through the endpoint. `Root` is what
it has kept, with the slash that the result begins with. An accepted endpoint has
no ".." and does not begin with an empty segment, so each of its segments appends
to what the base has left or changes nothing (`KeepBelow`, `WalkBelow`, by
induction over the segments), and a "." at the end leaves a slash. What was
appended are segments of the endpoint, where not even an escaped ".." is
(`NothingAbove`). What the base has left is the directory of every request
(`DirectoryRoot`). A base path without dot segments is kept as it is
(`WalkPlain`); if a slash had to be added it is re-encoded first, and the pieces
of what comes out, flattened by another induction, are the unescaped pieces of
what went in (`BaseShape`, `FlattenSingles`).

These walks, the parser of lines, the health script and the sorted lists need
induction over data. The library's induction theorems take an operator, which
the provers do not instantiate; `Induct` takes a set instead (one that holds 0
and with each number its successor holds all) and follows from `WFMin`, that a
well-founded relation has minimal elements. Each of them is then an induction
over a set of numbers. The loops are recursive functions of the number of
segments, lines or probes, so the first induction is that such a function exists
(`Iterated` for the walk and the flattening, `Unfolded`, `HealthUnfolded`), and
the second goes along it: after i lines a key has the value of the last of them
that says one, and "" without any (`LastRead`); after i probes the status is 2
just when one of them was critical, and 0 just when all have passed
(`WorstFinding`). That a finite set of identifiers can be listed in increasing
order is an induction on its size that takes out the least (`Listed`); any such
list is injective, and so has every element of the set (`SortedList`).

*Only model-checked.* Liveness under fairness, which is out of the prover's
reach: `EventuallyContacted`, `CollectReturns`, `CancellationStops`,
`ExchangeEnds`, `InventoryEmitted`, `RunEnds` and `TimerRearms`. Every other
property of a passing run is stated by a theorem.

## Assumptions and abstractions

- Files: `Lstat`, permissions, reading and strict decoding yield "absent",
  "invalid" or a credential. Failing I/O is an action of its own at each step.
- The disk: a rename and the unlink after it become durable in that order, as in
  one journal; both files share a directory unless configured otherwise. The
  code syncs the file and not the directory, so a power loss may undo both.
- The agent removes the token by its path. `TokenSpentOnce` excepts the one case
  in which that takes a fresh token: Core has replaced the one that was sent,
  and the replacement was installed while the agent ran. The recovery is
  modelled with no invocation running; the document asks for the timer to be
  stopped, which does not stop a running one.
- A `.state-*` file that a killed process leaves stays for ever; nothing in the
  code looks for it. `NoLitter` is about every other way to fail.
- A signal is seen by a request at once or not at all; between requests only the
  check before the desired state looks at it.
- `KillAll` happens only to a stuck process: `TimeoutStopSec` is far longer than
  what an agent whose context is done still does.
- Text: characters of one and two bytes, white space and invalid bytes; longer
  characters add no new case to replacement and trimming.
- Durations are left out of every state machine; `FitsStart` adds up the limits
  instead. Requests of more than 100 s each, which the configuration allows, may
  take a run past `TimeoutStartSec`, and systemd then ends it (`run_report`).
- Config describes an object after `encoding/json`, which keeps the last of two
  fields of one name. The enrollment token and the state are two files, which
  the code does not check.
- `parseBaseURL` asks for the last slash of `Path` and adds it to `Path`, not to
  `RawPath` (client.go 246-248). A base URL with an escaped slash in it and none
  at its end is re-encoded from `Path`, its escaped slashes become plain ones,
  and requests go to that directory. One that ends in an escaped slash gets
  none, and its last segment is lost when an endpoint is resolved: "/api%2F"
  sends requests to "/v1/...". `StaysBelowBase` says which directory it is in
  each case. Dot segments of a base path are removed with those of an endpoint,
  which may lead anywhere; the property then claims only that all requests stay
  in one directory.
- A character of a path other than a dot or a slash is the same escaped or not,
  so the models have its one spelling.
- An identifier or revision is valid or not; its syntax is left out. So are the
  spellings of a line of a KEY=VALUE file that mean the same.
- The time zone "Local" is a placeholder of Go's runtime, and is refused as
  such; a file or a link that says "Local" is believed, and `FactsTruthful`
  names that.
- A probe of the units, the disk or the memory whose command gives no answer
  counts as healthy in the script. `HealthTruthful` says so and allows it of no
  other probe.
- systemd gives a state directory and all in it to the service account only if
  the directory itself has another owner. An installation in a chroot, without
  systemd, leaves the timer disabled.

## Not modelled

- *Build and staging* (`Makefile`, `stage-package.sh`) copy files once, when the
  package is built.
- The text matching of two composite probes of the script library, the sshd
  baseline file and UFW: each is one finding, good or bad. What patterns match
  is a question to the shell, not to a state machine.
- The sandboxing options of the unit, which have no state; the JSON encoding of
  `internal/inventory`, which is the field list of its types; log records.
- `main` beyond its exit code and signal context, both in AgentRun: it wires
  functions together.

## Plan

Every component that keeps state or decides something is modelled, and every
safety property that a run checks is proved. What is left is liveness, which stays
with TLC, and the spelling of texts: the quotes of a line and the pattern of an
identifier are one value each in the models.
