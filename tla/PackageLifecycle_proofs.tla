----------------------- MODULE PackageLifecycle_proofs -----------------------
(***************************************************************************)
(* Safety of the package's life cycle, for any number of user IDs.         *)
(***************************************************************************)
EXTENDS PackageLifecycle, TLAPS

\* A decommission under way has stopped the timer, and dpkg waits for it.
RetiringInv ==
  retiring # "none" =>
    /\ step = "none" /\ timer = "stopped" /\ ~enabled
    /\ retiring = "account" => dir = None /\ identity = None

\* Without the service account nothing starts and nothing is stored: the timer
\* was stopped before the account went, and postinst got no further.
ForeignInv ==
  ~ours =>
    /\ timer = "stopped" /\ ~enabled /\ service = "inactive"
    /\ dir \in {None, Root} /\ identity = None
    /\ step \notin {"directory", "enable", "start"}
    /\ uid # None => dpkg # "installed"

\* With it, the identity is its own, and so is the directory during a run.
OwnInv ==
  ours => /\ uid # None
          /\ identity \in {None, uid}
          /\ service = "running" => dir \in {uid, None}

\* Nobody else creates the account while postinst does, and only a running
\* systemd is told to start the timer.
ScriptInv ==
  /\ step = "adduser" => ~ours
  /\ step = "start" => managed

IInv == TypeOK /\ RetiringInv /\ ForeignInv /\ OwnInv /\ ScriptInv

USE UidAssumption DEF None, Root

LEMMA InitInv == Init => IInv
  BY DEF Init, IInv, TypeOK, RetiringInv, ForeignInv, OwnInv, ScriptInv

\* The actions of dpkg and the maintainer scripts.
LEMMA ScriptsPreserve ==
  ASSUME IInv,
         \/ Unpack \/ CheckAccount \/ CreateAccount \/ PrepareDirectory
         \/ EnableTimer \/ StartEnabled \/ SkipTimer
         \/ Remove \/ Prerm \/ DeleteFiles \/ Postrm \/ Interrupt
  PROVE  IInv'
<1> USE DEF IInv, TypeOK, RetiringInv, ForeignInv, OwnInv, ScriptInv, Unattended,
            account, files, systemd
<1>1. CASE Unpack
  BY <1>1 DEF Unpack
<1>2. CASE CheckAccount
  <2>1. CASE uid = None
    BY <1>2, <2>1 DEF CheckAccount
  <2>2. CASE uid # None
    BY <1>2, <2>2 DEF CheckAccount
  <2> QED
    BY <2>1, <2>2
<1>3. CASE PrepareDirectory
  BY <1>3 DEF PrepareDirectory
<1>4. CASE EnableTimer \/ SkipTimer
  BY <1>4 DEF EnableTimer, SkipTimer
<1>5. CASE Remove
  BY <1>5 DEF Remove
<1>6. CASE Prerm
  <2>1. CASE managed /\ enabled' = FALSE /\ StopTimer
    BY <1>6, <2>1 DEF Prerm, StopTimer
  <2>2. CASE UNCHANGED <<enabled, timer, history>>
    BY <1>6, <2>2 DEF Prerm
  <2> QED
    BY <1>6, <2>1, <2>2 DEF Prerm
<1>7. CASE DeleteFiles
  BY <1>7 DEF DeleteFiles
<1>8. CASE Postrm
  BY <1>8 DEF Postrm
<1>9. CASE Interrupt
  BY <1>9 DEF Interrupt, Left
<1>10. CASE CreateAccount
  BY <1>10 DEF CreateAccount
<1>11. CASE StartEnabled
  BY <1>11 DEF StartEnabled, StartTimer, Arms
<1> QED
  BY <1>1, <1>2, <1>3, <1>4, <1>5, <1>6, <1>7, <1>8, <1>9, <1>10, <1>11

\* systemd, the service and the administrator.
LEMMA SurroundingsPreserve ==
  ASSUME IInv,
         \/ Boot \/ BootPasses \/ Fire \/ StartByHand \/ StoreIdentity \/ RunEnds
         \/ Retire \/ RetireDirectory \/ RetireAccount \/ ForeignAccount
  PROVE  IInv'
<1> USE DEF IInv, TypeOK, RetiringInv, ForeignInv, OwnInv, ScriptInv, Unattended,
            account, files, systemd
<1>1. CASE Boot
  BY <1>1 DEF Boot, Left, Arms
<1>2. CASE BootPasses
  BY <1>2 DEF BootPasses
<1>3. CASE Fire
  BY <1>3 DEF Fire, StartService
<1>4. CASE StartByHand
  BY <1>4 DEF StartByHand, StartService
<1>5. CASE StoreIdentity
  BY <1>5 DEF StoreIdentity
<1>6. CASE RunEnds
  BY <1>6 DEF RunEnds
<1>7. CASE Retire
  BY <1>7 DEF Retire, StopTimer
<1>8. CASE RetireDirectory
  BY <1>8 DEF RetireDirectory
<1>9. CASE RetireAccount
  BY <1>9 DEF RetireAccount
<1>10. CASE ForeignAccount
  BY <1>10 DEF ForeignAccount
<1> QED
  BY <1>1, <1>2, <1>3, <1>4, <1>5, <1>6, <1>7, <1>8, <1>9, <1>10

LEMMA StutterPreserves == ASSUME IInv, UNCHANGED vars PROVE IInv'
  BY DEF IInv, TypeOK, RetiringInv, ForeignInv, OwnInv, ScriptInv, vars, account, files, systemd

\* The inductive invariant holds in every reachable state.
THEOREM Invariance == Spec => []IInv
<1>1. IInv /\ [Next]_vars => IInv'
  BY ScriptsPreserve, SurroundingsPreserve, StutterPreserves DEF Next
<1> QED
  BY InitInv, <1>1, PTL DEF Spec

\* Every reachable state is well typed, and without systemd nothing runs.
THEOREM TypeCorrect == Spec => []TypeOK
<1>1. IInv => TypeOK
  BY DEF IInv
<1> QED
  BY Invariance, <1>1, PTL

\* Whatever is installed, removed, purged, interrupted, rebooted or
\* decommissioned, a run of the agent is its account's and so is all it finds
\* (postinst:4-33, postrm:4-6).
THEOREM IdentitySafe == Spec => []IdentityUsable
<1>1. IInv => IdentityUsable
  BY DEF IInv, TypeOK, ForeignInv, OwnInv, IdentityUsable
<1> QED
  BY Invariance, <1>1, PTL
=============================================================================
