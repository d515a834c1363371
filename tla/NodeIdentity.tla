---------------------------- MODULE NodeIdentity ----------------------------
(***************************************************************************)
(* What the agent promises about the identity of its node, without         *)
(* processes, files or messages: Core knows the node under a credential,   *)
(* the node holds a credential or none, and a ticket to obtain one.  The   *)
(* node never gives up its ticket before it holds what Core accepts, and   *)
(* nothing but the administrator takes away what it holds.                 *)
(***************************************************************************)
EXTENDS Integers

CONSTANTS MaxCredentials, MaxGrants, Invalid

None == 0
Credential == 1 .. MaxCredentials
Enrollment == 1 .. MaxGrants

VARIABLES
  current,  \* the credential Core accepts
  grant,    \* the ticket Core accepts
  held,     \* the credential the node holds
  ticket    \* the ticket the node holds

vars == <<current, grant, held, ticket>>

Init ==
  /\ current = None
  /\ grant = 1
  /\ held \in {None, Invalid}
  /\ ticket \in {None, Invalid, 1}

\* A node that holds nothing trades its ticket in; Core may answer again, even
\* with another credential, until the node holds one.
Issue ==
  /\ held = None /\ ticket = grant
  /\ current' \in Credential \ {current}
  /\ UNCHANGED <<grant, held, ticket>>

\* The node takes hold of the credential, which Core still accepts unless it
\* has revoked the node in the meantime.
Adopt ==
  /\ held = None
  /\ held' \in Credential
  /\ current # None => held' = current
  /\ UNCHANGED <<current, grant, ticket>>

\* The ticket goes once the node holds what it was traded for.
Discard ==
  /\ held # None
  /\ ticket' = None
  /\ UNCHANGED <<current, grant, held>>

Revoke ==
  /\ current # None
  /\ current' = None
  /\ grant' = grant + 1 /\ grant' \in Enrollment
  /\ UNCHANGED <<held, ticket>>

\* The administrator enrolls the node, for the first time or again.
Enroll ==
  /\ held = None \/ current = None
  /\ held' = None
  /\ ticket' = grant
  /\ UNCHANGED <<current, grant>>

Spoil ==
  /\ held \in Credential
  /\ held' = Invalid
  /\ UNCHANGED <<current, grant, ticket>>

\* A power loss may undo what the node did last: the ticket is back, or the
\* ticket is there and what it was traded for is not.
Undo ==
  /\ held' \in {held, None}
  /\ ticket' \in Enrollment \cup {None, Invalid}
  /\ held' = None /\ current # None => ticket' = grant
  /\ held = Invalid => held' = Invalid
  /\ UNCHANGED <<current, grant>>

Next == Issue \/ Adopt \/ Discard \/ Revoke \/ Enroll \/ Spoil \/ Undo

Spec == Init /\ [][Next]_vars

-----------------------------------------------------------------------------
(* Properties.                                                             *)

\* What a node holds is what Core accepts, or the ticket still buys it.
Recoverable ==
  current # None =>
    \/ held \in {current, Invalid}
    \/ held = None /\ ticket = grant
=============================================================================
