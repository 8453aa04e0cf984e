--------------------------------- MODULE Panel ---------------------------------
(***************************************************************************)
(* The screens of the panel, one at a time: each has rows of its own, and  *)
(* no handler writes those of two.                                         *)
(***************************************************************************)
EXTENDS PanelTasks

CONSTANTS Screens, Statuses,
          SignalKeys, Patterns, Emojis, Texts, BadTexts,    \* RulePanel
          Users, Env, Groups, ChatOf,                       \* Roster
          Chats, Topics,                                    \* Topology
          Stages                                            \* Settings

VARIABLE screen

Rules == INSTANCE RulePanel
People == INSTANCE Roster
Chat == INSTANCE Topology
Config == INSTANCE Settings

Init ==
    /\ screen \in Screens
    /\ \/ screen = "rules" /\ Rules!Init
       \/ screen = "people" /\ People!Init
       \/ screen = "chats" /\ Chat!Init
       \/ screen = "settings" /\ Config!Init

Next ==
    /\ UNCHANGED screen
    /\ \/ screen = "rules" /\ Rules!Next
       \/ screen = "people" /\ People!Next
       \/ screen = "chats" /\ Chat!Next
       \/ screen = "settings" /\ Config!Next

Spec == Init /\ [][Next]_<<panel, screen>>

(* The type invariant of the screen. *)
TypeOK ==
    /\ screen = "rules" => Rules!TypeOK
    /\ screen = "people" => People!TypeOK
    /\ screen = "chats" => Chat!TypeOK
    /\ screen = "settings" => Config!TypeOK

(* Properties of the screens, stated in their modules. *)

(* What is switched on has what it sends (the settings screens). *)
EnabledIsComplete == screen = "settings" => Config!EnabledIsComplete

(* No chat gets the result of an order twice. *)
ResultsGoOnce == screen = "chats" => Chat!ResultsGoOnce

(* Administrators of SUPERADMIN_IDS stay super administrators. *)
EnvStaysSuper == screen = "people" => People!EnvStaysSuper

(* An ALL rule loses its last signal only in a race of two handlers. *)
OnlyRacesStarve == [][screen = "rules" => Rules!StarvesByRace]_<<panel, screen>>

(* Only the addition of his user id takes a right from such an administrator. *)
OnlyAddingDemotes == [][screen = "people" => People!DemotesByAdding]_<<panel, screen>>

(* An operator gains a chat only by a button on himself that grants it. *)
AuthorityIsGranted == [][screen = "people" => People!GrantsAuthority]_<<panel, screen>>

(* Two destinations of a status are primary only by a race of two handlers. *)
OnlyRacesDouble == [][screen = "chats" => Chat!DoublesByRace]_<<panel, screen>>

(* None is primary only by a race, or when a source takes it along. *)
PrimaryIsKept == [][screen = "chats" => Chat!KeepsPrimary]_<<panel, screen>>

(* The store update is switched on only when order numbers are required    *)
(* and the store is connected, but for a race.                             *)
WooNeedsNumber == [][screen = "settings" => Config!SwitchesOnReady]_<<panel, screen>>
===============================================================================
