------------------------------ MODULE Delivery ------------------------------
(***************************************************************************)
(* What reporting to InfluxDB promises the simulation: every data point    *)
(* comes to one end, stored by the server or lost to an error, and the     *)
(* report is closed only when all of them have.  Nothing is said of the    *)
(* order.                                                                  *)
(***************************************************************************)
CONSTANT Points   \* the points there may be

VARIABLES outcome,   \* of each data point of this report
          closed     \* the report has ended

deliveryVars == <<outcome, closed>>

DeliveryInit ==
  /\ outcome \in UNION {[reported -> {"pending"}] : reported \in SUBSET Points}
  /\ closed = FALSE

Resolve(p) ==
  /\ p \in DOMAIN outcome
  /\ outcome[p] = "pending"
  /\ \E end \in {"stored", "lost"} : outcome' = [outcome EXCEPT ![p] = end]
  /\ UNCHANGED closed

Close ==
  /\ \A p \in DOMAIN outcome : outcome[p] # "pending"
  /\ closed' = TRUE
  /\ UNCHANGED outcome

DeliverySpec == DeliveryInit /\ [][Close \/ \E p \in Points : Resolve(p)]_deliveryVars
=============================================================================
