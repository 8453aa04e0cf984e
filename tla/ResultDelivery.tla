---------------------------- MODULE ResultDelivery ----------------------------
(***************************************************************************)
(* What the bot promises about the result of one order, without workers,   *)
(* claims or rows: once the order is final, the destinations configured    *)
(* for that outcome are owed its result, each of them gets it at most      *)
(* once, no other destination does, and the acknowledgement appears only   *)
(* when the configured policy accepts what was delivered to them.          *)
(* ResultPipeline implements it: see Delivery!DeliverySpec there.          *)
(***************************************************************************)
EXTENDS Naturals, AckPolicy

CONSTANTS Destinations,     \* the enabled result destinations of the source
          OutcomeOf,        \* destination |-> the outcome it takes results of
          Required,         \* the destinations flagged `required`
          Primary,          \* the destinations flagged `is_primary`
          Policy            \* outcome |-> its dispatch policy

VARIABLES outcome,          \* "OPEN" until the order is final
          copies,           \* destination |-> how often it got the result
          acknowledged      \* the operator's message carries the reaction

deliveryVars == <<outcome, copies, acknowledged>>

Owed == {d \in Destinations : OutcomeOf[d] = outcome}
Delivered == {d \in Destinations : copies[d] > 0}

DeliveryInit ==
    /\ outcome = "OPEN"
    /\ copies = [d \in Destinations |-> 0]
    /\ acknowledged = FALSE

Finalise(status) ==
    /\ outcome = "OPEN"
    /\ outcome' = status
    /\ UNCHANGED <<copies, acknowledged>>

Deliver(d) ==
    /\ d \in Owed
    /\ copies[d] = 0
    /\ copies' = [copies EXCEPT ![d] = 1]
    /\ UNCHANGED <<outcome, acknowledged>>

Acknowledge ==
    /\ outcome # "OPEN"
    /\ PolicySatisfied(Policy[outcome], Owed, Delivered, Required, Primary)
    /\ acknowledged' = TRUE
    /\ UNCHANGED <<outcome, copies>>

DeliveryNext ==
    \/ \E status \in {"SUCCESS", "FAILED"} : Finalise(status)
    \/ \E d \in Destinations : Deliver(d)
    \/ Acknowledge

DeliverySpec == DeliveryInit /\ [][DeliveryNext]_deliveryVars

===============================================================================
