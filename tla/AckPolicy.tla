------------------------------ MODULE AckPolicy ------------------------------
(***************************************************************************)
(* policy_satisfied (app/dispatch/service.py): the gate between the        *)
(* delivery of a result and the acknowledgement reaction.  It looks only   *)
(* at the outbox rows of the order, here the set of destinations that have *)
(* a row, the ones whose row is SENT, and the two flags copied into a row  *)
(* when it is created.                                                     *)
(***************************************************************************)

DispatchPolicy ==
    {"ALL_REQUIRED_DESTINATIONS", "PRIMARY_DESTINATION", "ANY_DESTINATION"}

(* `flagged or all`: a policy about a flag no row carries is about every row. *)
FlaggedOrAll(rows, flagged) ==
    IF rows \cap flagged = {} THEN rows ELSE rows \cap flagged

PolicySatisfied(policy, rows, sent, required, primary) ==
    \/ rows = {}
    \/ policy = "ANY_DESTINATION" /\ rows \cap sent # {}
    \/ policy = "PRIMARY_DESTINATION" /\ FlaggedOrAll(rows, primary) \subseteq sent
    \/ policy = "ALL_REQUIRED_DESTINATIONS" /\ FlaggedOrAll(rows, required) \subseteq sent

==============================================================================
