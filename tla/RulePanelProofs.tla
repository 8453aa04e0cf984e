---------------------------- MODULE RulePanelProofs ----------------------------
(* Theorems about the rules screens, for every number of handlers that     *)
(* overlap, and every set of statuses, signals, patterns and reactions;    *)
(* and, from those about the other screens, about the panel as a whole.    *)
EXTENDS RosterProofs, SettingsProofs, TopologyProofs

------------------------------------------------------------------------------
(* Types *)

(* What a press holds, by its operation. *)
LEMMA RulesPressHolds ==
  ASSUME NEW x \in Rules!Presses
  PROVE  /\ x.op # Rules!None /\ x.seen \in Rules!Rows /\ x.data \in Rules!Data
         /\ x.op \in {"rule", "mode", "text_add", "reaction_add", "signal", "text_mode"}
               => x.on \in Statuses
         /\ x.op = "signal" => x.value \in SignalKeys
         /\ x.op = "text_mode" => x.value \in Rules!MatchModes
         /\ x.op \in {"text_toggle", "text_del"} => x.on \in Patterns
         /\ x.op \in {"reaction_toggle", "reaction_del"} => x.on \in Statuses \X Emojis
         /\ x.op = "pattern" => x.value \in Texts
         /\ x.op = "emoji" => x.value \in Emojis
  BY DEF Rules!Presses, Rules!Of, Rules!None

LEMMA RulesHandling ==
  ASSUME Rules!TypeOK, NEW t \in Tasks, NEW op, op # Rules!None, Rules!Handles(t, op)
  PROVE  tx[t] \in Rules!Presses /\ tx[t].op = op
  BY DEF Rules!TypeOK, Rules!Handles, Rules!NoTx

LEMMA RulesNoPrompt == Rules!NoData \in Rules!Data /\ Rules!None \in Rules!States
  BY DEF Rules!NoData, Rules!Data, Rules!States

LEMMA PressType ==
  ASSUME Rules!TypeOK, NEW t \in Tasks, NEW op, NEW on, NEW value, Rules!Press(t, op, on, value),
         [op |-> op, on |-> on, value |-> value, open |-> FALSE,
          data |-> asked.data, seen |-> db] \in Rules!Presses
  PROVE  Rules!TypeOK'
  BY PanelAssumption DEF Rules!TypeOK, Rules!Press

LEMMA OpenedType ==
  ASSUME NEW x \in Rules!Presses, NEW data \in Rules!Data, NEW rows \in Rules!Rows
  PROVE  [x EXCEPT !.open = TRUE, !.data = data, !.seen = rows] \in Rules!Presses
  BY DEF Rules!Presses, Rules!Of

LEMMA EndType ==
  ASSUME Rules!TypeOK, NEW t \in Tasks, Rules!End(t)
  PROVE  tx' \in [Tasks -> Rules!Presses \cup {Rules!NoTx}] /\ presses' \in 0 .. MaxPresses
  BY DEF Rules!TypeOK, Rules!End

LEMMA CommitType ==
  ASSUME Rules!TypeOK, NEW t \in Tasks, NEW new \in Rules!Rows, Rules!Commit(t, new)
  PROVE  Rules!TypeOK'
  BY EndType DEF Rules!TypeOK, Rules!Commit

LEMMA ClearType ==
  ASSUME Rules!TypeOK, NEW t \in Tasks, NEW new \in Rules!Rows, Rules!CommitAndClear(t, new, Rules!NoData)
  PROVE  Rules!TypeOK'
  BY EndType, RulesNoPrompt DEF Rules!TypeOK, Rules!CommitAndClear

LEMMA AskType ==
  ASSUME Rules!TypeOK, NEW t \in Tasks, NEW state \in Rules!States, NEW data \in Rules!Data,
         Rules!Ask(t, state, data)
  PROVE  Rules!TypeOK'
  BY EndType DEF Rules!TypeOK, Rules!Ask

LEMMA TypeInit == Rules!Init => Rules!TypeOK
  BY PanelAssumption, RulesNoPrompt
  DEF Rules!Init, Rules!TypeOK, Rules!Rows, Rules!Modes, Rules!SignalRows,
     Rules!PatternRows, Rules!ReactionRows, Rules!RowState

LEMMA TypeStep == Rules!TypeOK /\ [Rules!Next]_panel => Rules!TypeOK'
  <1> SUFFICES ASSUME Rules!TypeOK, [Rules!Next]_panel PROVE Rules!TypeOK'
    OBVIOUS
  <1>d. db \in Rules!Rows /\ asked.state \in Rules!States /\ asked.data \in Rules!Data
    BY DEF Rules!TypeOK
  <1>p. ASSUME NEW t \in Tasks, NEW op, op # Rules!None, Rules!Handles(t, op)
        PROVE  tx[t] \in Rules!Presses /\ tx[t].op = op
    BY <1>p, RulesHandling
  <1>1. ASSUME NEW t \in Tasks, Rules!PressRule(t) PROVE Rules!TypeOK'
    <2>1. ASSUME NEW op \in {"rule", "mode"}, NEW s \in Statuses, Rules!Press(t, op, s, Rules!None)
          PROVE  Rules!TypeOK'
      BY <1>d, <2>1, PressType DEF Rules!Presses, Rules!Of
    <2>2. ASSUME NEW s \in Statuses, NEW k \in SignalKeys, Rules!Press(t, "signal", s, k)
          PROVE  Rules!TypeOK'
      BY <1>d, <2>2, PressType DEF Rules!Presses, Rules!Of
    <2>3. ASSUME Rules!Press(t, "leave", Rules!None, Rules!None) PROVE Rules!TypeOK'
      BY <1>d, <2>3, PressType DEF Rules!Presses, Rules!Of
    <2> QED
      BY <1>1, <2>1, <2>2, <2>3 DEF Rules!PressRule
  <1>2. ASSUME NEW t \in Tasks, Rules!PressPattern(t) PROVE Rules!TypeOK'
    <2>1. ASSUME NEW s \in Statuses, Rules!Press(t, "text_add", s, Rules!None) PROVE Rules!TypeOK'
      BY <1>d, <2>1, PressType DEF Rules!Presses, Rules!Of
    <2>2. ASSUME NEW text \in Texts, Rules!Press(t, "pattern", Rules!None, text) PROVE Rules!TypeOK'
      BY <1>d, <2>2, PressType DEF Rules!Presses, Rules!Of
    <2>3. ASSUME NEW op \in {"text_toggle", "text_del"}, NEW p \in Patterns,
                 Rules!Press(t, op, p, Rules!None)
          PROVE  Rules!TypeOK'
      BY <1>d, <2>3, PressType DEF Rules!Presses, Rules!Of
    <2> QED
      BY <1>2, <2>1, <2>2, <2>3 DEF Rules!PressPattern, Rules!Answer
  <1>3. ASSUME NEW t \in Tasks, Rules!PressMatch(t) PROVE Rules!TypeOK'
    <2>1. ASSUME NEW s \in Statuses, NEW match \in Rules!MatchModes, Rules!Press(t, "text_mode", s, match)
          PROVE  Rules!TypeOK'
      BY <1>d, <2>1, PressType DEF Rules!Presses, Rules!Of
    <2> QED
      BY <1>3, <2>1 DEF Rules!PressMatch
  <1>4. ASSUME NEW t \in Tasks, Rules!PressReaction(t) PROVE Rules!TypeOK'
    <2>1. ASSUME NEW s \in Statuses, Rules!Press(t, "reaction_add", s, Rules!None) PROVE Rules!TypeOK'
      BY <1>d, <2>1, PressType DEF Rules!Presses, Rules!Of
    <2>2. ASSUME NEW e \in Emojis, Rules!Press(t, "emoji", Rules!None, e) PROVE Rules!TypeOK'
      BY <1>d, <2>2, PressType DEF Rules!Presses, Rules!Of
    <2>3. ASSUME NEW op \in {"reaction_toggle", "reaction_del"},
                 NEW r \in Statuses \X Emojis, Rules!Press(t, op, r, Rules!None)
          PROVE  Rules!TypeOK'
      BY <1>d, <2>3, PressType DEF Rules!Presses, Rules!Of
    <2> QED
      BY <1>4, <2>1, <2>2, <2>3 DEF Rules!PressReaction, Rules!Answer
  <1>5. ASSUME NEW t \in Tasks, Rules!Open(t) PROVE Rules!TypeOK'
    <2>1. tx[t] \in Rules!Presses
      BY <1>5 DEF Rules!TypeOK, Rules!Open
    <2>2. [tx[t] EXCEPT !.open = TRUE, !.data = asked.data, !.seen = db] \in Rules!Presses
      BY <1>d, <2>1, OpenedType
    <2>3. tx' = [tx EXCEPT ![t] = [tx[t] EXCEPT !.open = TRUE, !.data = asked.data,
                                                !.seen = db]]
      <3>1. tx \in [Tasks -> Rules!Presses \cup {Rules!NoTx}]
        BY DEF Rules!TypeOK
      <3> QED
        BY <1>5, <2>1, <3>1 DEF Rules!Open, Rules!Presses, Rules!Of
    <2> QED
      BY <1>5, <2>2, <2>3 DEF Rules!Open, Rules!TypeOK
  <1>6. ASSUME NEW t \in Tasks, Rules!ToggleRule(t) PROVE Rules!TypeOK'
    <2>1. tx[t] \in Rules!Presses /\ tx[t].op = "rule"
      BY <1>6, <1>p DEF Rules!ToggleRule, Rules!None
    <2>2. [db EXCEPT !.enabled[tx[t].on] = ~tx[t].seen.enabled[tx[t].on]] \in Rules!Rows
      BY <1>d, <2>1, RulesPressHolds DEF Rules!Rows
    <2> QED
      BY <1>6, <2>2, CommitType DEF Rules!ToggleRule
  <1>7. ASSUME NEW t \in Tasks, Rules!ToggleMode(t) PROVE Rules!TypeOK'
    <2>1. tx[t] \in Rules!Presses /\ tx[t].op = "mode"
      BY <1>7, <1>p DEF Rules!ToggleMode, Rules!None
    <2>2. [db EXCEPT !.mode[tx[t].on] = Rules!NewMode(tx[t].seen, tx[t].on)] \in Rules!Rows
      BY <1>d, <2>1, RulesPressHolds DEF Rules!Rows, Rules!NewMode, Rules!Modes
    <2> QED
      BY <1>7, <1>d, <2>2, CommitType DEF Rules!ToggleMode
  <1>8. ASSUME NEW t \in Tasks, Rules!ToggleSignal(t) PROVE Rules!TypeOK'
    <2>1. tx[t] \in Rules!Presses /\ tx[t].op = "signal"
      BY <1>8, <1>p DEF Rules!ToggleSignal, Rules!None
    <2>2. [db EXCEPT !.signals[tx[t].on] =
             Rules!Toggled(@, tx[t].value \in tx[t].seen.signals[tx[t].on], tx[t].value)] \in Rules!Rows
      BY <1>d, <2>1, RulesPressHolds DEF Rules!Rows, Rules!SignalRows, Rules!Toggled
    <2> QED
      BY <1>8, <1>d, <2>2, CommitType DEF Rules!ToggleSignal
  <1>9. ASSUME NEW t \in Tasks, Rules!PromptText(t) \/ Rules!PromptReaction(t) PROVE Rules!TypeOK'
    <2>1. tx[t] \in Rules!Presses /\ tx[t].op \in {"text_add", "reaction_add"}
      BY <1>9, <1>p DEF Rules!PromptText, Rules!PromptReaction, Rules!None
    <2>2. [asked.data EXCEPT !.status = tx[t].on] \in Rules!Data
      BY <1>d, <2>1, RulesPressHolds DEF Rules!Data
    <2> QED
      BY <1>9, <2>2, AskType DEF Rules!PromptText, Rules!PromptReaction, Rules!States
  <1>10. ASSUME NEW t \in Tasks, Rules!Leave(t) PROVE Rules!TypeOK'
    BY <1>10, <1>d, ClearType DEF Rules!Leave
  <1>11. ASSUME NEW t \in Tasks, Rules!ReceivePattern(t) PROVE Rules!TypeOK'
    <2>1. tx[t] \in Rules!Presses /\ tx[t].op = "pattern"
      BY <1>11, <1>p DEF Rules!ReceivePattern, Rules!None
    <2>2. [asked.data EXCEPT !.pattern = tx[t].value] \in Rules!Data
      BY <1>d, <2>1, RulesPressHolds DEF Rules!Data
    <2> QED
      BY <1>11, <2>2, AskType DEF Rules!ReceivePattern, Rules!States
  <1>12. ASSUME NEW t \in Tasks, Rules!SavePattern(t) PROVE Rules!TypeOK'
    <2>1. tx[t] \in Rules!Presses /\ tx[t].op = "text_mode"
      BY <1>12, <1>p DEF Rules!SavePattern, Rules!None
    <2>2. CASE Rules!Refuse(t)
      BY <1>d, <2>2, CommitType DEF Rules!Refuse
    <2>3. CASE tx[t].data.pattern # Rules!None /\ ~Rules!Refuse(t)
      <3>1. Rules!NewPattern(tx[t].on, tx[t].data.pattern, tx[t].value) \in Rules!PatternRows
        BY <2>1, <2>3, RulesPressHolds DEF Rules!NewPattern, Rules!PatternRows, Rules!Data
      <3>2. \A p \in Patterns :
              [db EXCEPT !.patterns[p] =
                 Rules!NewPattern(tx[t].on, tx[t].data.pattern, tx[t].value)] \in Rules!Rows
        BY <1>d, <3>1 DEF Rules!Rows
      <3> QED
        BY <1>12, <2>3, <3>2, ClearType DEF Rules!SavePattern
    <2> QED
      BY <1>12, <2>2, <2>3 DEF Rules!SavePattern
  <1>13. ASSUME NEW t \in Tasks, Rules!TogglePattern(t) PROVE Rules!TypeOK'
    <2>1. tx[t] \in Rules!Presses /\ tx[t].op = "text_toggle"
      BY <1>13, <1>p DEF Rules!TogglePattern, Rules!None
    <2> DEFINE p == tx[t].on
    <2>2. p \in Patterns /\ tx[t].seen \in Rules!Rows
      BY <2>1, RulesPressHolds
    <2>3. CASE Rules!Refuse(t)
      BY <1>d, <2>3, CommitType DEF Rules!Refuse
    <2>4. CASE Rules!NoPattern \notin {tx[t].seen.patterns[p], db.patterns[p]}
      <3>1. [db.patterns[p] EXCEPT !.state = Rules!Flip(tx[t].seen.patterns[p].state)] \in Rules!PatternRows
        BY <1>d, <2>2, <2>4 DEF Rules!Rows, Rules!PatternRows, Rules!Flip
      <3>2. [db EXCEPT !.patterns[p].state = Rules!Flip(tx[t].seen.patterns[p].state)] \in Rules!Rows
        BY <1>d, <2>2, <3>1 DEF Rules!Rows
      <3> QED
        BY <1>13, <2>4, <3>2, CommitType DEF Rules!TogglePattern
    <2> QED
      BY <1>13, <2>3, <2>4 DEF Rules!TogglePattern
  <1>14. ASSUME NEW t \in Tasks, Rules!DeletePattern(t) PROVE Rules!TypeOK'
    <2>1. tx[t] \in Rules!Presses /\ tx[t].op = "text_del"
      BY <1>14, <1>p DEF Rules!DeletePattern, Rules!None
    <2>2. [db EXCEPT !.patterns[tx[t].on] = Rules!NoPattern] \in Rules!Rows
      BY <1>d, <2>1, RulesPressHolds DEF Rules!Rows, Rules!PatternRows
    <2> QED
      BY <1>14, <1>d, <2>2, CommitType DEF Rules!DeletePattern
  <1>15. ASSUME NEW t \in Tasks, Rules!ReceiveReaction(t) PROVE Rules!TypeOK'
    <2>1. tx[t] \in Rules!Presses /\ tx[t].op = "emoji"
      BY <1>15, <1>p DEF Rules!ReceiveReaction, Rules!None
    <2>2. \A s \in Statuses : [db EXCEPT !.reactions[<<s, tx[t].value>>] = "on"] \in Rules!Rows
      <3>1. ASSUME NEW s \in Statuses
            PROVE  [db.reactions EXCEPT ![<<s, tx[t].value>>] = "on"] \in Rules!ReactionRows
        BY <1>d DEF Rules!Rows, Rules!ReactionRows, Rules!RowState
      <3> QED
        BY <1>d, <3>1 DEF Rules!Rows
    <2>3. tx[t].data.status \in Statuses \cup {Rules!None}
      BY <2>1, RulesPressHolds DEF Rules!Data
    <2> QED
      BY <1>15, <1>d, <2>2, <2>3, ClearType, CommitType DEF Rules!ReceiveReaction,
         Rules!Refuse
  <1>16. ASSUME NEW t \in Tasks, Rules!ToggleReaction(t) \/ Rules!DeleteReaction(t) PROVE Rules!TypeOK'
    <2>1. tx[t] \in Rules!Presses /\ tx[t].op \in {"reaction_toggle", "reaction_del"}
      BY <1>16, <1>p DEF Rules!ToggleReaction, Rules!DeleteReaction, Rules!None
    <2>2. \A state \in Rules!RowState : [db EXCEPT !.reactions[tx[t].on] = state] \in Rules!Rows
      BY <1>d, <2>1, RulesPressHolds DEF Rules!Rows, Rules!ReactionRows
    <2>3. Rules!Flip(tx[t].seen.reactions[tx[t].on]) \in Rules!RowState /\ "absent" \in Rules!RowState
      BY DEF Rules!Flip, Rules!RowState
    <2> QED
      BY <1>16, <1>d, <2>2, <2>3, CommitType DEF Rules!ToggleReaction,
         Rules!DeleteReaction, Rules!Refuse
  <1>17. CASE UNCHANGED panel
    BY <1>17 DEF Rules!TypeOK, panel
  <1> QED
    BY <1>1, <1>2, <1>3, <1>4, <1>5, <1>6, <1>7, <1>8, <1>9, <1>10, <1>11, <1>12, <1>13,
       <1>14, <1>15, <1>16, <1>17 DEF Rules!Next

(* A screen stays what it is, and only its handlers act. *)
LEMMA RulesOneScreen ==
  [Next]_<<panel, screen>> => screen' = screen /\ (screen = "rules" => [Rules!Next]_panel)
  BY DEF Next, panel

(* Every reachable state of the rules screens is well typed. *)
THEOREM RulesTypeCorrect == Spec => [](screen = "rules" => Rules!TypeOK)
  <1> DEFINE Inv == screen = "rules" => Rules!TypeOK
  <1>1. Init => Inv
    BY TypeInit DEF Init
  <1>2. Inv /\ [Next]_<<panel, screen>> => Inv'
    BY RulesOneScreen, TypeStep
  <1> QED
    BY <1>1, <1>2, PTL DEF Spec

------------------------------------------------------------------------------
(* An ALL rule loses its last signal only in a race: a handler whose rows  *)
(* are still those of the database refuses to.                             *)

LEMMA StarveStep == Rules!TypeOK /\ [Rules!Next]_panel => Rules!StarvesByRace
  <1> SUFFICES ASSUME Rules!TypeOK, [Rules!Next]_panel, NEW s \in Statuses, Rules!CanMatch(s), ~Rules!CanMatch(s)',
                      ~Rules!OnlyByRace
               PROVE  FALSE
    BY DEF Rules!StarvesByRace
  <1>d. db \in Rules!Rows /\ tx \in [Tasks -> Rules!Presses \cup {Rules!NoTx}]
    BY DEF Rules!TypeOK
  <1>c. db'.mode[s] = "ALL" /\ db'.signals[s] = {}
    BY DEF Rules!CanMatch
  <1>n. db.mode[s] # "ALL" \/ db.signals[s] # {}
    BY DEF Rules!CanMatch
  <1>p. ASSUME NEW t \in Tasks, NEW op, op # Rules!None, Rules!Handles(t, op), Rules!End(t)
        PROVE  tx[t] \in Rules!Presses /\ tx[t].op = op /\ tx[t].seen = db
    <2>1. tx[t] \in Rules!Presses /\ tx[t].op = op
      BY <1>p, RulesHandling
    <2>2. Rules!Commits(t)
      BY <1>d, <1>p, <2>1, RulesPressHolds DEF Rules!Commits, Rules!Handles, Rules!End,
         Rules!NoTx
    <2> QED
      BY <2>1, <2>2 DEF Rules!OnlyByRace, Rules!Current
  <1>k. db'.mode # db.mode \/ db'.signals # db.signals
    BY <1>c, <1>n
  <1>1. ASSUME NEW t \in Tasks, Rules!ToggleMode(t) PROVE FALSE
    <2>1. tx[t] \in Rules!Presses /\ tx[t].op = "mode" /\ tx[t].seen = db
      BY <1>1, <1>p DEF Rules!ToggleMode, Rules!Commit, Rules!None
    <2>2. tx[t].on \in Statuses
      BY <2>1, RulesPressHolds
    <2>3. CASE Rules!NewMode(db, tx[t].on) = db.mode[tx[t].on]
      BY <1>1, <1>k, <2>1, <2>3 DEF Rules!ToggleMode, Rules!Commit
    <2>4. CASE Rules!NewMode(db, tx[t].on) # db.mode[tx[t].on]
      <3>1. db' = [db EXCEPT !.mode[tx[t].on] = Rules!NewMode(db, tx[t].on)]
        BY <1>1, <2>1, <2>4 DEF Rules!ToggleMode, Rules!Commit
      <3>2. db'.signals = db.signals
            /\ db'.mode[s] = IF s = tx[t].on THEN Rules!NewMode(db, s) ELSE db.mode[s]
        BY <1>d, <2>2, <3>1 DEF Rules!Rows
      <3> QED
        BY <1>c, <1>n, <3>2 DEF Rules!NewMode
    <2> QED
      BY <2>3, <2>4
  <1>2. ASSUME NEW t \in Tasks, Rules!ToggleSignal(t) PROVE FALSE
    <2>1. tx[t] \in Rules!Presses /\ tx[t].op = "signal" /\ tx[t].seen = db
      BY <1>2, <1>p DEF Rules!ToggleSignal, Rules!Commit, Rules!None
    <2>2. tx[t].on \in Statuses
      BY <2>1, RulesPressHolds
    <2>3. CASE Rules!LastOfAll(db, tx[t].on, tx[t].value)
      BY <1>2, <1>k, <2>1, <2>3 DEF Rules!ToggleSignal, Rules!Commit
    <2>4. CASE ~Rules!LastOfAll(db, tx[t].on, tx[t].value)
      <3> DEFINE now == Rules!Toggled(db.signals[tx[t].on], tx[t].value \in db.signals[tx[t].on], tx[t].value)
      <3>1. db' = [db EXCEPT !.signals[tx[t].on] = now]
        BY <1>2, <2>1, <2>4 DEF Rules!ToggleSignal, Rules!Commit
      <3>2. db'.mode = db.mode
            /\ db'.signals[s] = IF s = tx[t].on THEN now ELSE db.signals[s]
        BY <1>d, <2>2, <3>1 DEF Rules!Rows
      <3>3. s = tx[t].on /\ now = {} /\ db.mode[s] = "ALL"
        BY <1>c, <1>n, <3>2
      <3>4. db.signals[s] = {tx[t].value}
        BY <1>n, <3>3 DEF Rules!Toggled
      <3> QED
        BY <2>4, <3>3, <3>4 DEF Rules!LastOfAll
    <2> QED
      BY <2>3, <2>4
  <1>3. ASSUME NEW t \in Tasks,
               \/ Rules!PressRule(t) \/ Rules!PressPattern(t) \/ Rules!PressMatch(t) \/ Rules!PressReaction(t)
               \/ Rules!Open(t) \/ Rules!PromptText(t) \/ Rules!PromptReaction(t) \/ Rules!Leave(t)
               \/ Rules!ReceivePattern(t)
        PROVE  FALSE
    <2>1. db' = db
      BY <1>3 DEF Rules!PressRule, Rules!PressPattern, Rules!PressMatch,
         Rules!PressReaction, Rules!Answer, Rules!Press, Rules!Open,
                  Rules!PromptText, Rules!PromptReaction, Rules!Leave, Rules!ReceivePattern, Rules!Ask, Rules!CommitAndClear
    <2> QED
      BY <1>k, <2>1
  <1>4. ASSUME NEW t \in Tasks,
               \/ Rules!ToggleRule(t) \/ Rules!SavePattern(t) \/ Rules!TogglePattern(t) \/ Rules!DeletePattern(t)
               \/ Rules!ReceiveReaction(t) \/ Rules!ToggleReaction(t) \/ Rules!DeleteReaction(t)
        PROVE  FALSE
    <2>1. db'.mode = db.mode /\ db'.signals = db.signals
      BY <1>d, <1>4 DEF Rules!Rows, Rules!ToggleRule, Rules!SavePattern,
         Rules!TogglePattern, Rules!DeletePattern,
         Rules!ReceiveReaction, Rules!ToggleReaction, Rules!DeleteReaction, Rules!Commit, Rules!CommitAndClear, Rules!Refuse
    <2> QED
      BY <1>k, <2>1
  <1>5. CASE UNCHANGED panel
    BY <1>5, <1>k DEF panel
  <1> QED
    BY <1>1, <1>2, <1>3, <1>4, <1>5 DEF Rules!Next

(* No interleaving of handlers whose reads are current at their commit     *)
(* leaves an ALL rule without a signal.                                    *)
THEOREM StarvedByRaceOnly == Spec => OnlyRacesStarve
  <1> DEFINE Inv == screen = "rules" => Rules!TypeOK
  <1>1. Inv /\ [Next]_<<panel, screen>> => (screen = "rules" => Rules!StarvesByRace)
    BY RulesOneScreen, StarveStep
  <1> QED
    BY <1>1, RulesTypeCorrect, PTL DEF Spec, OnlyRacesStarve

------------------------------------------------------------------------------
(* The panel *)

(* Whatever screen the administrators work on, and however their handlers  *)
(* overlap, what the tables, the FSM and the handlers hold stays of its    *)
(* type, and no row refers to one that is gone.                            *)
THEOREM PanelTypeCorrect ==
  EnvAreUsers /\ EmojisAreReal /\ WholeChats => (Spec => []TypeOK)
  <1> SUFFICES ASSUME EnvAreUsers, EmojisAreReal, WholeChats PROVE Spec => []TypeOK
    OBVIOUS
  <1>1. /\ screen = "rules" => Rules!TypeOK
        /\ screen = "people" => People!TypeOK
        /\ screen = "chats" => Chat!TypeOK
        /\ screen = "settings" => Config!TypeOK
        => TypeOK
    BY DEF TypeOK
  <1> QED
    BY <1>1, RulesTypeCorrect, RosterTypeCorrect, TopologyTypeCorrect, SettingsTypeCorrect, PTL
===============================================================================
