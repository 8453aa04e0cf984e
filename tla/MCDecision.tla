------------------------------ MODULE MCDecision -------------------------------
(* Instances of Decision for TLC. *)
EXTENDS Decision, TLC

CONSTANTS tick, cross

(* A text only SUCCESS looks for, and a photo both rules count. *)
TextOrPhoto == {{<<"SUCCESS", "REPLY_TEXT">>},
                {<<"SUCCESS", "REPLY_PHOTO">>, <<"FAILED", "REPLY_PHOTO">>}}

TickOrCross == ("SUCCESS" :> {tick}) @@ ("FAILED" :> {cross})

(* SUCCESS needs a reaction and a text, FAILED a reaction or a photo. *)
BothRules == ("SUCCESS" :> {"REACTION", "REPLY_TEXT"}) @@ ("FAILED" :> {"REACTION", "REPLY_PHOTO"})
AllThenAny == ("SUCCESS" :> "ALL") @@ ("FAILED" :> "ANY")

WorkerSymmetry == Permutations(Workers)
===============================================================================
