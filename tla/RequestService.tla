---------------------------- MODULE RequestService ----------------------------
(***************************************************************************)
(* What a driver promises the program that calls it, whatever the protocol: *)
(* a request is issued once, and settled at most once, either with the      *)
(* reply the device made to that very request or with an error.             *)
(***************************************************************************)
CONSTANT Requests

VARIABLE outcome

Outcomes == {"idle", "pending", "answered", "rejected"}

Init == outcome = [r \in Requests |-> "idle"]

(* Requests issued in one step: one by the program, and one by each error    *)
(* callback that issues another.                                             *)
Issue(r) ==
  /\ outcome[r] = "idle"
  /\ outcome' = [outcome EXCEPT ![r] = "pending"]

Answer(r) ==
  /\ outcome[r] = "pending"
  /\ outcome' = [outcome EXCEPT ![r] = "answered"]

(* A connection that dies or is closed rejects any number of requests at     *)
(* once, and an error callback may issue another one while it does.          *)
Reject ==
  \E rejected \in SUBSET {r \in Requests : outcome[r] = "pending"},
     issued \in SUBSET {r \in Requests : outcome[r] = "idle"} :
    outcome' = [r \in Requests |-> CASE r \in rejected -> "rejected"
                                     [] r \in issued -> "pending"
                                     [] OTHER -> outcome[r]]

Next ==
  \/ \E r \in Requests : Issue(r) \/ Answer(r)
  \/ Reject

Spec == Init /\ [][Next]_outcome
=============================================================================
