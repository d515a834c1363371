------------------------------ MODULE Endpoint ------------------------------
(***************************************************************************)
(* The strings on which the exchange with LTS Core depends: what of a      *)
(* registration response becomes the identity of the node, and where the   *)
(* requests go that are made with it (internal/coresync/sync.go and        *)
(* internal/core/client.go).                                               *)
(*                                                                         *)
(* A piece of a path is a sequence of symbols: ".", "-" and "_" stand for  *)
(* themselves, "%2e" for the escaped dot, any other symbol for a run of    *)
(* letters and digits.  A segment is the sequence of the pieces between    *)
(* its escaped slashes, a path the sequence of the segments between its    *)
(* slashes: the path "/a%2Fb/" is << <<"">>, <<"a","b">>, <<"">> >>, each  *)
(* piece spelt in symbols, and the empty path is the one empty segment.    *)
(***************************************************************************)
EXTENDS Integers, Sequences, SequencesExt

CONSTANTS
  MaxID,       \* bound: the longest node ID, 128 in nodeIDPattern
  MaxBearer    \* bound: the longest bearer, MaxBearerBytes

ASSUME EndpointAssumption == MaxID \in Nat \ {0} /\ MaxBearer \in Nat \ {0}

Alphanumeric == {"a", "v1", "nodes", "heartbeat", "desired-state"}

Suffix == {"heartbeat", "desired-state"}

\* Mutant: nothing is asked of the first character.
NodeIDPattern_NoFirst(id) ==
  /\ Len(id) \in 1 .. MaxID
  /\ \A i \in 1 .. Len(id) : id[i] \in Alphanumeric \cup {".", "-", "_"}

NodeIDPattern(id) ==
  /\ Len(id) \in 1 .. MaxID
  /\ id[1] \in Alphanumeric
  /\ \A i \in 2 .. Len(id) : id[i] \in Alphanumeric \cup {".", "-", "_"}

\* A bearer is a sequence of the classes of its bytes.
ValidateBearer(token) ==
  /\ Len(token) \in 1 .. MaxBearer
  /\ \A i \in 1 .. Len(token) : token[i] = "visible"

\* register: what it accepts it writes to the state file.
AcceptsRegistration(response) ==
  /\ response.schema_version = 1
  /\ NodeIDPattern(response.node_id)
  /\ ValidateBearer(response.agent_token)

\* loadState, of the file that register wrote.
LoadsState(state) ==
  /\ state.schema_version = 1
  /\ NodeIDPattern(state.node_id)
  /\ ValidateBearer(state.agent_token)

-----------------------------------------------------------------------------
(* net/url (external).                                                     *)

Nothing == << <<>> >>                \* the empty segment
Here    == << <<".">> >>
Up      == << <<".", ".">> >>

Decoded(piece) ==
  [i \in DOMAIN piece |-> IF piece[i] = "%2e" THEN "." ELSE piece[i]]

\* URL.Path, cut at its slashes; those that were escaped are among them.
Unescaped(path) ==
  LET pieces == FlattenSeq(path)
  IN  [i \in DOMAIN pieces |-> Decoded(pieces[i])]

\* EscapedPath where RawPath no longer says the same as Path.
Reencoded(path) ==
  LET pieces == Unescaped(path)
  IN  [i \in DOMAIN pieces |-> <<pieces[i]>>]

\* One element of resolvePath; the next one is preceded by a slash unless
\* nothing has been kept.
Keep(kept, segment) ==
  CASE segment = Here -> IF kept = <<>> THEN <<Nothing>> ELSE kept
    [] segment = Up   -> IF kept = <<>> THEN <<>> ELSE Front(kept)
    [] OTHER          -> Append(kept, segment)

\* The loop of resolvePath over what replaces the last segment of the base.
Walk(full) ==
  LET kept[i \in 0 .. Len(full)] ==
        IF i = 0 THEN <<>> ELSE Keep(kept[i - 1], full[i])
  IN  kept[Len(full)]

\* A last "." or ".." leaves its slash.
Close(kept, last) ==
  IF last \in {Here, Up}
  THEN Append(IF kept = <<>> THEN <<Nothing>> ELSE kept, Nothing)
  ELSE kept

\* The path begins with one slash, or with as many as are there.
Rooted(kept) ==
  IF Len(kept) > 1 /\ kept[1] = Nothing THEN kept ELSE <<Nothing>> \o kept

ResolveReference(base, path) ==
  Rooted(Close(Walk(Front(base) \o path), Last(path)))

-----------------------------------------------------------------------------
(* The client.                                                             *)

\* strings.HasSuffix(parsed.Path, "/"): an escaped slash is one, too.
EndsInSlash(path) ==
  /\ Last(Last(path)) = <<>>
  /\ Len(path) > 1 \/ Len(Last(path)) > 1

\* The last part of parseBaseURL: a slash is added to Path only.
BasePath(path) ==
  IF EndsInSlash(path) THEN path ELSE Append(Reencoded(path), Nothing)

\* The endpoints of heartbeat and desiredState, made of a state that was
\* loaded: url.PathEscape has nothing to escape in what matches nodeIDPattern.
NodeEndpoint(id, suffix) ==
  [parts |-> {}, path |-> << << <<"v1">> >>, << <<"nodes">> >>, <<id>>, << <<suffix>> >> >>]

\* A segment of reference.Path, which is unescaped, is "..".
HasDotDot(path) ==
  \E i \in DOMAIN path : \E j \in DOMAIN path[i] : Decoded(path[i][j]) = <<".", ".">>

\* Mutant: the segments are looked at before they are unescaped.
AcceptsEndpoint_Escaped(raw) ==
  /\ raw.path # <<Nothing>>
  /\ raw.path[1] = Nothing => Len(raw.path) = 1
  /\ raw.parts = {}
  /\ \A i \in DOMAIN raw.path : raw.path[i] # Up

\* The guards of resolveEndpoint on an endpoint with a path: it is not empty, it
\* does not begin with a slash, it is nothing but a path, it has no "..".
AcceptsEndpoint(raw) ==
  /\ raw.path # <<Nothing>>
  /\ raw.path[1] = Nothing => Len(raw.path) = 1
  /\ raw.parts = {}
  /\ ~HasDotDot(raw.path)

Resolve(base, raw) == ResolveReference(BasePath(base), raw.path)
=============================================================================
