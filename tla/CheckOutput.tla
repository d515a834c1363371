----------------------------- MODULE CheckOutput -----------------------------
(***************************************************************************)
(* The text a check reports: limitedBuffer.String turns the retained bytes *)
(* into valid UTF-8 and trims the white space around them.  Four classes   *)
(* of bytes are enough for both: a character of one byte, white space, and *)
(* the two halves of a character of two bytes, each invalid on its own.    *)
(***************************************************************************)
EXTENDS LimitedBuffer, FiniteSets

ByteClass == {"ascii", "space", "lead", "cont"}

\* Bytes of the encoded replacement character U+FFFD.
ReplacementLength == 3

\* Two adjacent bytes that make one character.
Pair(b, i) == i \in 1 .. Len(b) - 1 /\ b[i] = "lead" /\ b[i + 1] = "cont"

InvalidAt(b) ==
  {i \in 1 .. Len(b) : \/ b[i] = "lead" /\ ~Pair(b, i)
                       \/ b[i] = "cont" /\ ~Pair(b, i - 1)}

\* strings.ToValidUTF8 replaces a run of invalid bytes, not each of them.
RunStart(b) == {i \in InvalidAt(b) : i - 1 \notin InvalidAt(b)}

\* strings.TrimSpace
Trimmed(b) ==
  {i \in 1 .. Len(b) : \/ \A j \in 1 .. i : b[j] = "space"
                       \/ \A j \in i .. Len(b) : b[j] = "space"}

\* Mutant: every invalid byte is replaced.
ReportedLength_Each(b) ==
  Cardinality((1 .. Len(b)) \ (InvalidAt(b) \cup Trimmed(b)))
    + ReplacementLength * Cardinality(InvalidAt(b))

\* The length in bytes of limitedBuffer.String.
ReportedLength(b) ==
  Cardinality((1 .. Len(b)) \ (InvalidAt(b) \cup Trimmed(b)))
    + ReplacementLength * Cardinality(RunStart(b))

-----------------------------------------------------------------------------
(* Properties.                                                             *)

\* The limit bounds the retained bytes and not the text, whose invalid bytes are
\* replaced afterwards.  What does bound it: invalid runs are separated by a byte
\* that counts, so the replacements at most double the limit (check.go 235).
OutputWithinTwice == ReportedLength(data) <= 2 * Limit + 1
=============================================================================
