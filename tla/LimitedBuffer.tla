---------------------------- MODULE LimitedBuffer ----------------------------
(***************************************************************************)
(* limitedBuffer of internal/check/check.go: the writer behind a script's  *)
(* standard output and error.  It keeps the first Limit bytes, forgets the *)
(* rest and never makes its writer fail.  os/exec copies the pipe into it  *)
(* with chunks of its own choosing.                                        *)
(***************************************************************************)
EXTENDS Integers, Sequences

CONSTANTS
  Byte,        \* what the bytes of the output may be
  Limit,       \* limitedBuffer.limit
  MaxChunk,    \* bound: the longest chunk of one Write
  MaxOffered   \* bound: bytes offered in all

ASSUME LimitAssumption == Limit \in Nat
ASSUME ChunkAssumption == MaxChunk \in Nat /\ MaxOffered \in Nat

VARIABLES
  data,        \* limitedBuffer.data
  truncated,   \* limitedBuffer.truncated
  offered      \* every byte Write was called with, in order (history)

buffer == <<data, truncated, offered>>

TypeOK ==
  /\ data \in Seq(Byte) /\ Len(data) <= Limit
  /\ truncated \in BOOLEAN
  /\ offered \in Seq(Byte)

\* newLimitedBuffer
Init ==
  /\ data = <<>>
  /\ truncated = FALSE
  /\ offered = <<>>

Remaining == Limit - Len(data)

\* Mutant: one byte too many.
Fitting_Past(chunk) ==
  SubSeq(chunk, 1, IF Len(chunk) > Remaining THEN Remaining + 1 ELSE Len(chunk))

\* The part of a chunk that still fits.
Fitting(chunk) ==
  SubSeq(chunk, 1, IF Len(chunk) > Remaining THEN Remaining ELSE Len(chunk))

\* Mutant: a full buffer drops a chunk without a trace.
Write_Silent(chunk) ==
  /\ data' = data \o Fitting(chunk)
  /\ truncated' = (truncated \/ (Remaining > 0 /\ Len(chunk) > Remaining))
  /\ offered' = offered \o chunk

\* Write claims the whole chunk whatever it keeps of it.
Write(chunk) ==
  /\ data' = data \o Fitting(chunk)
  /\ truncated' = (truncated \/ Len(chunk) > Remaining)
  /\ offered' = offered \o chunk

Chunk == UNION {[1 .. n -> Byte] : n \in 0 .. MaxChunk}

Next ==
  \E chunk \in Chunk :
    /\ Len(offered) + Len(chunk) <= MaxOffered
    /\ Write(chunk)

Spec == Init /\ [][Next]_buffer

-----------------------------------------------------------------------------
(* Properties.                                                             *)

Kept == IF Len(offered) > Limit THEN Limit ELSE Len(offered)

\* However the output was cut into chunks, what is retained is its beginning,
\* all of it when it fits, and the mark is set exactly when something is
\* missing (check.go 211-230: a limit reached exactly is not a truncation).
RetainsPrefix ==
  /\ data = SubSeq(offered, 1, Kept)
  /\ truncated <=> Len(offered) > Limit
=============================================================================
