----------------------------- MODULE MCFollowUps -------------------------------
(* Instances of FollowUps for TLC. *)
EXTENDS FollowUps

(* Every fault together, and every one but a lost answer to a note. *)
AnyFault == {KnownFaults, KnownFaults \ {"note_lost"}}
NoFault == {{}}
===============================================================================
