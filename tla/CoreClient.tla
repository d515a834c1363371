----------------------------- MODULE CoreClient -----------------------------
(***************************************************************************)
(* internal/core/client.go: the HTTPS client of one invocation.  DoJSON    *)
(* makes one exchange at a time; net/http (external) keeps the connection  *)
(* of the last one for the next, and replays a request by itself when that *)
(* connection turns out to be dead and the request may be replayed.        *)
(*                                                                         *)
(* LTS Core may answer anything, stall, or close the connection at any     *)
(* moment, even when it has already acted on the request.                  *)
(***************************************************************************)
EXTENDS Integers, Sequences, FiniteSets

CONSTANTS
  Faults,            \* what the environment may do
  MaxResponseBytes,  \* the limit of a response, 1 MiB in the code
  Bodies             \* the bodies Core may send

FaultKind == {"local", "dial", "close", "cancel"}

\* A byte within the value a body is to hold, the last one of it, white space; a
\* value that cannot be decoded into the target never ends.
Byte == {"part", "end", "space"}

ASSUME FaultAssumption == Faults \subseteq FaultKind

ASSUME BodyAssumption == MaxResponseBytes \in Nat \ {0} /\ Bodies \subseteq Seq(Byte)

Request == {"registration", "heartbeat", "desired"}

\* The request without a body, by the method GET.
Idempotent == {"desired"}

\* decodeResponse: one value of the expected form, and nothing after it.
Decodes(data) ==
  \E i \in DOMAIN data :
    /\ data[i] = "end"
    /\ \A j \in 1 .. i - 1 : data[j] # "end"
    /\ \A j \in i + 1 .. Len(data) : data[j] = "space"

\* Mutant: the reader is limited to what is allowed, and no byte more.
ReadLimit_Exact == MaxResponseBytes

\* The limit of the reader in readBounded.
ReadLimit == MaxResponseBytes + 1

VARIABLES
  pc,          \* the step of doJSON
  request,     \* the request that is made, or "none"
  expired,     \* http.Client.Timeout has fired
  cancelled,   \* the context of the invocation is done
  pooled,      \* a connection is kept for the next request
  reused,      \* the request is on a connection that served another
  written,     \* its bytes left
  arrived,     \* Core received it on this connection
  open,        \* Core's end of the connection
  answer,      \* the status of the response, or "none"; a redirect is "other"
  body,        \* the body Core sends with it
  read,        \* how much of it readBounded has
  late,        \* requests under way that nobody waits for
  deliveries,  \* how often each request reached Core
  outcome      \* what DoJSON returned for each

call == <<pc, request, expired, cancelled>>
response == <<answer, body, read>>
connection == <<pooled, reused, written, arrived, open, response>>
core == <<late, deliveries>>
vars == <<call, connection, core, outcome>>

TypeOK ==
  /\ pc \in {"idle", "prepare", "write", "wait", "body"}
  /\ request \in Request \cup {"none"}
  /\ {expired, cancelled, pooled, reused, written, arrived, open}
       \subseteq BOOLEAN
  /\ answer \in {"none", "success", "other"}
  /\ body \in Seq(Byte) /\ read \in 0 .. Len(body)
  /\ late \subseteq Request
  /\ deliveries \in [Request -> 0 .. 2]
  /\ outcome \in [Request -> {"none", "ok", "error"}]

Init ==
  /\ pc = "idle"
  /\ request = "none"
  /\ expired = FALSE /\ cancelled = FALSE
  /\ pooled = FALSE /\ reused = FALSE
  /\ written = FALSE /\ arrived = FALSE
  /\ open = FALSE
  /\ answer = "none" /\ body = <<>> /\ read = 0
  /\ late = {}
  /\ deliveries = [r \in Request |-> 0]
  /\ outcome = [r \in Request |-> "none"]

-----------------------------------------------------------------------------
(* doJSON.                                                                 *)

\* The order of the requests of one invocation (sync.go 115-151).
Due(r) ==
  CASE r = "registration" -> \A q \in Request : outcome[q] = "none"
    [] r = "heartbeat"    -> outcome["registration"] # "error"
    [] r = "desired"      -> outcome["heartbeat"] # "none" /\ ~cancelled

Call(r) ==
  /\ pc = "idle"
  /\ outcome[r] = "none" /\ Due(r)
  /\ pc' = "prepare" /\ request' = r /\ expired' = FALSE
  /\ UNCHANGED <<cancelled, connection, core, outcome>>

\* Done with the request; keep says whether its connection serves the next.
Return(verdict, keep) ==
  /\ pc' = "idle" /\ request' = "none"
  /\ outcome' = [outcome EXCEPT ![request] = verdict]
  /\ pooled' = keep /\ open' = (open /\ keep)
  /\ reused' = FALSE /\ written' = FALSE /\ arrived' = FALSE
  /\ answer' = "none" /\ body' = <<>> /\ read' = 0
  /\ UNCHANGED <<expired, cancelled, deliveries>>

\* An invalid bearer, endpoint or body: no connection is touched.
Refuse ==
  /\ pc = "prepare"
  /\ "local" \in Faults
  /\ Return("error", pooled)
  /\ UNCHANGED late

InTime == ~expired /\ ~cancelled

\* The kept connection, unless its end was noticed.
Reuse ==
  /\ pc = "prepare" /\ InTime
  /\ pooled
  /\ pc' = "write"
  /\ pooled' = FALSE /\ reused' = TRUE
  /\ UNCHANGED <<request, expired, cancelled, written, arrived, open, response,
                 core, outcome>>

Dial ==
  /\ pc = "prepare" /\ InTime
  /\ ~pooled \/ ~open
  /\ pc' = "write"
  /\ pooled' = FALSE /\ reused' = FALSE /\ open' = TRUE
  /\ UNCHANGED <<request, expired, cancelled, written, arrived, response, core,
                 outcome>>

\* No route, no certificate that verifies.
DialFails ==
  /\ pc = "prepare"
  /\ "dial" \in Faults
  /\ ~pooled \/ ~open
  /\ Return("error", FALSE)
  /\ UNCHANGED late

\* Bytes written to a connection Core has closed go nowhere.
WriteRequest ==
  /\ pc = "write"
  /\ pc' = "wait"
  /\ written' = TRUE
  /\ UNCHANGED <<request, expired, cancelled, pooled, reused, arrived, open,
                 response, core, outcome>>

ReadHeader ==
  /\ pc = "wait"
  /\ answer # "none"
  /\ pc' = "body"
  /\ UNCHANGED <<request, expired, cancelled, connection, core, outcome>>

\* Some of the body comes, unless Core stalls.
ReadBytes ==
  /\ pc = "body"
  /\ read' \in read + 1 .. Len(body) /\ read' <= ReadLimit
  /\ UNCHANGED <<call, pooled, reused, written, arrived, open, answer, body, core,
                 outcome>>

\* The end of the body, or that of the reader: the size, the status and, unless
\* there is no response target as for the heartbeat, the value.  The connection
\* is kept when the end of the body was seen, which the framing may tell with the
\* last byte or after it.
ReadBody ==
  /\ pc = "body"
  /\ read \in {Len(body), ReadLimit}
  /\ LET data == SubSeq(body, 1, read)
         ok == /\ Len(data) <= MaxResponseBytes
               /\ answer = "success"
               /\ request = "heartbeat" \/ Decodes(data)
     IN  \E keep \in {read < ReadLimit, read = Len(body)} :
           Return(IF ok THEN "ok" ELSE "error", keep)
  /\ UNCHANGED late

\* The connection ends before the body does.
BodyLost ==
  /\ pc = "body"
  /\ ~open /\ read < ReadLimit
  /\ Return("error", FALSE)
  /\ UNCHANGED late

-----------------------------------------------------------------------------
(* net/http when the connection is dead (external).                        *)

Dead == pc \in {"write", "wait"} /\ ~open /\ answer = "none"

\* Mutant: whatever was written may be replayed.
Replayable_Always == reused

\* Mutant: a new connection is no reason to stop.
Replayable_Forever == ~written \/ request \in Idempotent

\* Transport.shouldRetryRequest: only a connection that was kept from before,
\* and a request of which nothing was written or that has no effect.
Replayable == reused /\ (~written \/ request \in Idempotent)

Replay ==
  /\ Dead
  /\ Replayable
  /\ pc' = "prepare"
  /\ reused' = FALSE /\ written' = FALSE /\ arrived' = FALSE
  /\ UNCHANGED <<request, expired, cancelled, pooled, open, response, core,
                 outcome>>

ConnectionLost ==
  /\ Dead
  /\ ~Replayable
  /\ Return("error", FALSE)
  /\ UNCHANGED late

-----------------------------------------------------------------------------
(* The timeout of the client and the context of the invocation.            *)

\* Mutant: the timeout covers the exchange up to the header only.
Expire_Header ==
  /\ pc \in {"prepare", "write", "wait"} /\ ~expired
  /\ expired' = TRUE
  /\ UNCHANGED <<pc, request, cancelled, connection, core, outcome>>

\* http.Client.Timeout covers the exchange up to the end of the body.
Expire ==
  /\ pc # "idle" /\ ~expired
  /\ expired' = TRUE
  /\ UNCHANGED <<pc, request, cancelled, connection, core, outcome>>

Cancel ==
  /\ "cancel" \in Faults
  /\ ~cancelled
  /\ cancelled' = TRUE
  /\ UNCHANGED <<pc, request, expired, connection, core, outcome>>

\* The connection is closed; what was written may still arrive.
GiveUp ==
  /\ pc # "idle"
  /\ ~InTime
  /\ Return("error", pooled)
  /\ late' = IF written /\ ~arrived /\ open THEN late \cup {request} ELSE late

-----------------------------------------------------------------------------
(* LTS Core (external).                                                    *)

Deliver ==
  /\ pc = "wait" /\ written /\ open /\ ~arrived
  /\ arrived' = TRUE
  /\ deliveries' = [deliveries EXCEPT ![request] = @ + 1]
  /\ UNCHANGED <<call, pooled, reused, written, open, response, late, outcome>>

DeliverLate ==
  \E r \in late :
    /\ late' = late \ {r}
    /\ deliveries' = [deliveries EXCEPT ![r] = @ + 1]
    /\ UNCHANGED <<call, connection, outcome>>

Respond ==
  /\ pc = "wait" /\ arrived /\ open
  /\ answer = "none"
  /\ answer' \in {"success", "other"} /\ body' \in Bodies
  /\ UNCHANGED <<call, pooled, reused, written, arrived, open, read, core, outcome>>

CloseConnection ==
  /\ "close" \in Faults
  /\ open
  /\ open' = FALSE
  /\ UNCHANGED <<call, pooled, reused, written, arrived, response, core, outcome>>

-----------------------------------------------------------------------------

DoJSON ==
  \/ Refuse \/ Reuse \/ Dial \/ DialFails \/ WriteRequest
  \/ ReadHeader \/ ReadBytes \/ ReadBody \/ BodyLost
  \/ Replay \/ ConnectionLost \/ GiveUp

Core == Deliver \/ DeliverLate \/ Respond \/ CloseConnection

Next ==
  \/ \E r \in Request : Call(r)
  \/ DoJSON \/ Expire \/ Cancel \/ Core

Spec == Init /\ [][Next]_vars

\* The client runs and its clock ticks; nothing is assumed of Core, and a body
\* may take for ever to arrive.
Fairness ==
  /\ WF_vars(GiveUp) /\ WF_vars(Expire)

FairSpec == Spec /\ Fairness
-----------------------------------------------------------------------------
(* Properties.                                                             *)

\* Neither a lost connection nor a timeout makes a registration or a heartbeat
\* reach Core twice, and none arrives after it was reported successful; only
\* the retrieval may be repeated (client.go:169-186, one Do per DoJSON).
Promise == INSTANCE Exchange
             WITH Most <- [r \in Request |-> IF r \in Idempotent THEN 2 ELSE 1]

KeepsExchange == Promise!Spec

\* What Core has sent is a usable answer to r, all of it looked at.
Usable(r, status, sent) ==
  /\ status = "success"
  /\ Len(sent) <= MaxResponseBytes
  /\ r = "heartbeat" \/ Decodes(sent)

\* Success is reported for a request that arrived, and for an answer that is
\* usable to its last byte, however the body came in pieces and wherever it was
\* cut: no beginning of a longer body is taken for a whole one.  On a connection
\* that lives, in time, a usable answer is not refused either, up to the very
\* limit (client.go:183-206, 283-308).
AcceptedAnswer ==
  [][\A r \in Request : outcome'[r] # outcome[r] =>
       /\ request = r
       /\ outcome'[r] = "ok" => arrived /\ Usable(r, answer, body)
       /\ pc = "body" /\ InTime /\ open /\ Usable(r, answer, body)
            => outcome'[r] = "ok"]_vars

\* A Core that stalls, before its answer or in the middle of it, holds up the
\* invocation for one timeout at most (client.go:103-105).
ExchangeEnds == pc # "idle" ~> pc = "idle"

\* docs/LTS-CORE-API-v1.md 91 and docs/DEPLOYMENT.md 94-96: no retries, at most
\* one request of each kind.
OneRequestEach == \A r \in Request : deliveries[r] <= 1
=============================================================================
