-------------------------------- MODULE MCPanel --------------------------------
(* An instance of the panel in which each work group is a chat of its own. *)
EXTENDS Panel, TLC

MCChatOf == [g \in Groups |-> g]

Symmetry == Permutations(Tasks) \cup Permutations(Chats)
===============================================================================
