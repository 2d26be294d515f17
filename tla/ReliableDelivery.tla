-------------------------- MODULE ReliableDelivery --------------------------
(***************************************************************************)
(* What the capture pipeline promises for a finished attempt bundle, with  *)
(* no queue, worker, request or retry in sight: once accepted, a bundle    *)
(* stays with the extension (pending or isolated) until the platform's     *)
(* database holds it or the user throws it away.  Settling a bundle that   *)
(* was not delivered is the step the pipeline may never take.              *)
(***************************************************************************)
CONSTANT Bundles          \* identities of the attempt bundles

VARIABLES
  status,                 \* where the extension keeps each bundle
  delivered               \* bundles the platform's database holds

vars == <<status, delivered>>

Status == {"absent", "pending", "isolated", "settled", "discarded"}

Having(s) == {b \in Bundles : status[b] = s}

Moved(S, s) == [b \in Bundles |-> IF b \in S THEN s ELSE status[b]]

Init ==
  /\ status = [b \in Bundles |-> "absent"]
  /\ delivered = {}

Accept(b) ==
  /\ status[b] = "absent"
  /\ status' = Moved({b}, "pending")
  /\ UNCHANGED delivered

(* A request may reach the platform at any time after acceptance: also     *)
(* when the extension has already isolated or discarded the bundle.        *)
Arrive(b) ==
  /\ status[b] # "absent"
  /\ delivered' = delivered \cup {b}
  /\ UNCHANGED status

Settle(b) ==
  /\ status[b] = "pending"
  /\ b \in delivered
  /\ status' = Moved({b}, "settled")
  /\ UNCHANGED delivered

Isolate(b) ==
  /\ status[b] = "pending"
  /\ status' = Moved({b}, "isolated")
  /\ UNCHANGED delivered

Retry(S) ==
  /\ S \subseteq Having("isolated")
  /\ status' = Moved(S, "pending")
  /\ UNCHANGED delivered

Discard(S) ==
  /\ S \subseteq Having("pending") \cup Having("isolated")
  /\ status' = Moved(S, "discarded")
  /\ UNCHANGED delivered

Next ==
  \/ \E b \in Bundles : Accept(b) \/ Arrive(b) \/ Settle(b) \/ Isolate(b)
  \/ \E S \in SUBSET Bundles : Retry(S) \/ Discard(S)

Spec == Init /\ [][Next]_vars
=============================================================================
