--------------------------- MODULE DocumentFields ---------------------------
(***************************************************************************)
(* What the decoders of internal/config, internal/role and                 *)
(* internal/desired may find in a field instead of the value they want;    *)
(* encoding/json itself is external.                                       *)
(***************************************************************************)
CONSTANTS
  Absent,      \* the document does not name the field
  Null,        \* the literal null
  Malformed    \* a value of another type, or an object with an unknown name

Present(value) == value \notin {Absent, Null, Malformed}
=============================================================================
