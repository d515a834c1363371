------------------------- MODULE NodeIdentity_proofs -------------------------
(* Proofs about the abstract specification. *)
EXTENDS NodeIdentity, TLAPS

\* Recoverable is inductive as it stands.
THEOREM AlwaysRecoverable == Spec => []Recoverable
<1>1. Init => Recoverable
  BY DEF Init, Recoverable
<1>2. Recoverable /\ [Next]_vars => Recoverable'
  <2> SUFFICES ASSUME Recoverable, [Next]_vars PROVE Recoverable'
    OBVIOUS
  <2> USE DEF Recoverable, None, Credential, Enrollment
  <2>1. CASE UNCHANGED vars
    BY <2>1 DEF vars
  <2>2. CASE Issue
    BY <2>2 DEF Issue
  <2>3. CASE Adopt
    BY <2>3 DEF Adopt
  <2>4. CASE Discard
    BY <2>4 DEF Discard
  <2>5. CASE Revoke
    BY <2>5 DEF Revoke
  <2>6. CASE Enroll
    BY <2>6 DEF Enroll
  <2>7. CASE Spoil
    BY <2>7 DEF Spoil
  <2>8. CASE Undo
    BY <2>8 DEF Undo
  <2> QED
    BY <2>1, <2>2, <2>3, <2>4, <2>5, <2>6, <2>7, <2>8 DEF Next
<1> QED
  BY <1>1, <1>2, PTL DEF Spec
=============================================================================
