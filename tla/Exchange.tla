------------------------------ MODULE Exchange ------------------------------
(***************************************************************************)
(* What the Core client promises of the requests of one invocation: each   *)
(* reaches LTS Core a bounded number of times, succeeds only after it did, *)
(* is decided once, and never reaches Core again once it has succeeded.  A *)
(* request that has failed may still arrive.                               *)
(***************************************************************************)
EXTENDS Integers

CONSTANTS
  Request,   \* the requests of one invocation
  Most       \* how often each may reach Core

VARIABLES
  deliveries,  \* how often each reached Core
  outcome      \* what its caller was told

exchange == <<deliveries, outcome>>

Init ==
  /\ deliveries = [r \in Request |-> 0]
  /\ outcome = [r \in Request |-> "none"]

Deliver(r) ==
  /\ outcome[r] # "ok"
  /\ deliveries[r] < Most[r]
  /\ deliveries' = [deliveries EXCEPT ![r] = @ + 1]
  /\ UNCHANGED outcome

Succeed(r) ==
  /\ outcome[r] = "none"
  /\ deliveries[r] > 0
  /\ outcome' = [outcome EXCEPT ![r] = "ok"]
  /\ UNCHANGED deliveries

Fail(r) ==
  /\ outcome[r] = "none"
  /\ outcome' = [outcome EXCEPT ![r] = "error"]
  /\ UNCHANGED deliveries

Next == \E r \in Request : Deliver(r) \/ Succeed(r) \/ Fail(r)

Spec == Init /\ [][Next]_exchange
=============================================================================
