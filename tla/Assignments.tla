----------------------------- MODULE Assignments -----------------------------
(***************************************************************************)
(* Two documents with the same lists of roles and capabilities: the        *)
(* assignment on the node (internal/role/role.go), which keeps what is     *)
(* valid, and the desired state of LTS Core (internal/desired/desired.go), *)
(* which is taken as a whole or not at all.                                *)
(*                                                                         *)
(* An identifier is a number in the order of sort.Strings; 0 stands for a  *)
(* string that is not an identifier, which is what null becomes in a list. *)
(***************************************************************************)
EXTENDS Integers, Sequences, FiniteSets, SequencesExt, DocumentFields

\* What the two lists of a document may hold, and the documents that can be
\* decoded at all; of revisions it matters whether they match the pattern.
IdentifierList == Seq(Nat) \cup {Absent, Null, Malformed}

ListDocument ==
  [schema_version : Int \cup {Absent}, revision : {Absent, "valid", "invalid"},
   roles : IdentifierList, capabilities : IdentifierList]

Valid(identifier) == identifier > 0

\* The map of the keys, and the sorted list of them.
SortedUnique(values) ==
  LET kept == {v \in ToSet(values) : Valid(v)}
  IN  CHOOSE list \in [1 .. Cardinality(kept) -> kept] :
        \A i, j \in DOMAIN list : i < j => list[i] < list[j]

EmptyAssignment == [available |-> FALSE, roles |-> <<>>, capabilities |-> <<>>]

\* decodeDocument; the assignment knows no revision.
DecodesAssignment(document) ==
  /\ document # Malformed
  /\ document.revision = Absent
  /\ document.schema_version = 1
  /\ Present(document.roles)
  /\ Present(document.capabilities)

\* validateIdentifiers: the list and the number of warnings.
ValidateIdentifiers(values) ==
  [list |-> SortedUnique(values),
   warnings |-> Cardinality({i \in DOMAIN values : ~Valid(values[i])})]

\* Collect of internal/role, of a file that could be read.
CollectAssignment(document) ==
  IF ~DecodesAssignment(document)
  THEN [assignment |-> EmptyAssignment, warnings |-> 1]
  ELSE LET roles == ValidateIdentifiers(document.roles)
           capabilities == ValidateIdentifiers(document.capabilities)
       IN  [assignment |-> [available |-> TRUE, roles |-> roles.list,
                            capabilities |-> capabilities.list],
            warnings |-> roles.warnings + capabilities.warnings]

DecodesIdentifiers(list) ==
  Present(list) /\ \A i \in 1 .. Len(list) : Valid(list[i])

\* Mutant: the list that is decoded first is the only one that is checked.
Parse_RolesOnly(document) ==
  IF /\ document # Malformed
     /\ document.schema_version = 1
     /\ document.revision = "valid"
     /\ DecodesIdentifiers(document.roles)
     /\ Present(document.capabilities)
  THEN [available |-> TRUE, roles |-> SortedUnique(document.roles),
        capabilities |-> SortedUnique(document.capabilities)]
  ELSE EmptyAssignment

\* Parse and Inventory; what is refused leaves the empty desired state.
Parse(document) ==
  IF /\ document # Malformed
     /\ document.schema_version = 1
     /\ document.revision = "valid"
     /\ DecodesIdentifiers(document.roles)
     /\ DecodesIdentifiers(document.capabilities)
  THEN [available |-> TRUE, roles |-> SortedUnique(document.roles),
        capabilities |-> SortedUnique(document.capabilities)]
  ELSE EmptyAssignment
=============================================================================
