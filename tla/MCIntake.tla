------------------------------- MODULE MCIntake -------------------------------
(* Instances of Intake for TLC. *)
EXTENDS Intake, TLC

CONSTANTS a1, a2, p1, p2

(* a1 and a2 are an album, p1 and p2 posts of their own. *)
OneAlbum == (a1 :> "album") @@ (a2 :> "album") @@ (p1 :> NoAlbum) @@ (p2 :> NoAlbum)

WorkerSymmetry == Permutations(Workers)
===============================================================================
