-------------------------- MODULE DeliveryPromise --------------------------
(***************************************************************************)
(* What an integration delivery promises whoever enqueued it, without      *)
(* leases, attempts or runners: a created row is open until it is settled. *)
(* Delivered is for good, and only if the provider has accepted the        *)
(* message; a dead letter can be opened again by hand.  A message may also *)
(* be accepted when its row is already settled, or accepted and            *)
(* dead-lettered: the provider offers no idempotency key.                  *)
(***************************************************************************)
CONSTANT Delivery

VARIABLES outcome, posted

promiseVars == <<outcome, posted>>

Init ==
    /\ outcome = [d \in Delivery |-> "absent"]
    /\ posted = [d \in Delivery |-> FALSE]

Create(d) ==
    /\ outcome[d] = "absent"
    /\ outcome' = [outcome EXCEPT ![d] = "open"]
    /\ UNCHANGED posted

Post(d) ==
    /\ outcome[d] # "absent"
    /\ posted' = [posted EXCEPT ![d] = TRUE]
    /\ UNCHANGED outcome

Settle(d, how) ==
    /\ outcome[d] = "open"
    /\ how = "delivered" => posted[d]
    /\ outcome' = [outcome EXCEPT ![d] = how]
    /\ UNCHANGED posted

Reopen(d) ==
    /\ outcome[d] = "dead_letter"
    /\ outcome' = [outcome EXCEPT ![d] = "open"]
    /\ UNCHANGED posted

Next ==
    \E d \in Delivery :
        \/ Create(d)
        \/ Post(d)
        \/ Reopen(d)
        \/ \E how \in {"delivered", "dead_letter"} : Settle(d, how)

Spec == Init /\ [][Next]_promiseVars

=============================================================================
