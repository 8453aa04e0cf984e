--------------------------- MODULE MCResultPipeline ---------------------------
(* Instances of ResultPipeline for TLC. *)
EXTENDS ResultPipeline, TLC

CONSTANTS d1, d2, d3

(* Two destinations for SUCCESS, of which a configuration flags only one,  *)
(* and one for FAILED; or one for each.                                    *)
TwoAndOne == (d1 :> "SUCCESS") @@ (d2 :> "SUCCESS") @@ (d3 :> "FAILED")
OneAndOne == (d1 :> "SUCCESS") @@ (d3 :> "FAILED")

AllRequired == [s \in Final |-> "ALL_REQUIRED_DESTINATIONS"]
AnyOrPrimary == ("SUCCESS" :> "PRIMARY_DESTINATION") @@ ("FAILED" :> "ANY_DESTINATION")

WorkerSymmetry == Permutations(Workers)
===============================================================================
