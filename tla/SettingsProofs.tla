---------------------------- MODULE SettingsProofs -----------------------------
(* Theorems about the settings screens, for every number of handlers that  *)
(* overlap.                                                                *)
EXTENDS Panel, TLAPS

(* No reaction is the mark for there being none. *)
EmojisAreReal == Config!None \notin Emojis

------------------------------------------------------------------------------
(* What has once been set stays set: a handler reads rows that lag behind  *)
(* those of the database, but never show a reaction or a text that is not  *)
(* there any more.                                                         *)

Complete(d) ==
    /\ \A s \in Statuses : d.ack[s].enabled => d.ack[s].reaction # Config!None
    /\ \A s \in Stages : d.stage[s].enabled => d.stage[s].reaction # Config!None
    /\ \A s \in Statuses : "text_toggle" \in d.result[s].switched => "append_text" \in d.result[s].filled
SettingsSound(d) ==
    /\ d \in Config!Rows /\ Complete(d)
    /\ \A f \in {"num_length", "backlog_age"} : d.typed[f] \in {"default", "digits"}
Lags(seen, d) ==
    /\ \A s \in Statuses : seen.ack[s].reaction # Config!None => d.ack[s].reaction # Config!None
    /\ \A s \in Stages : seen.stage[s].reaction # Config!None => d.stage[s].reaction # Config!None
    /\ \A s \in Statuses : seen.result[s].filled \subseteq d.result[s].filled

PanelInv ==
    /\ Config!TypeOK /\ SettingsSound(db)
    /\ \A t \in Tasks : tx[t] # Config!NoTx => SettingsSound(tx[t].seen) /\ Lags(tx[t].seen, db)

(* What a press holds, by its operation. *)
LEMMA SettingsPressHolds ==
  ASSUME NEW x \in Config!Presses
  PROVE  /\ x.op # Config!None /\ x.seen \in Config!Rows /\ x.data \in Config!Data
         /\ x.op \in Config!ResultToggles \cup {"ack_toggle", "ask_ack", "ask_result",
                                                "set_target", "set_policy"} => x.on \in Statuses
         /\ x.op \in Config!Picks \cup {"set_target", "set_policy"} => x.value \in Config!Choices
         /\ x.op \in {"stage_toggle", "ask_stage"} => x.on \in Stages
         /\ x.op \in {"p_toggle", "p_del"} => x.on \in Emojis
         /\ x.op \in {"setting", "result"} => x.value \in Config!TextKinds
         /\ x.op \in {"ack", "stage", "progress"} => x.value \in Emojis
         /\ x.op = "ask_setting" => x.value \in Config!Fields
         /\ x.op = "ask_store" => x.value \in Config!StoreFields
         /\ x.op = "ask_result" => x.value \in Config!ResultFields
  BY DEF Config!Presses, Config!Of, Config!None, Config!ResultToggles, Config!Picks,
     Config!Toggles

LEMMA SettingsHandling ==
  ASSUME PanelInv, NEW t \in Tasks, NEW op, op # Config!None, Config!Handles(t, op)
  PROVE  /\ tx[t] \in Config!Presses /\ tx[t].op = op
         /\ SettingsSound(tx[t].seen) /\ Lags(tx[t].seen, db)
  BY DEF PanelInv, Config!TypeOK, Config!Handles, Config!NoTx

LEMMA SettingsNoPrompt == Config!NoData \in Config!Data /\ Config!None \in Config!States
  BY DEF Config!NoData, Config!Data, Config!States

LEMMA LagsSelf == ASSUME NEW d PROVE Lags(d, d)
  BY DEF Lags

LEMMA LagsFurther ==
  ASSUME NEW a, NEW b, NEW c, Lags(a, b), Lags(b, c)
  PROVE  Lags(a, c)
  BY DEF Lags

LEMMA SettingsPressInv ==
  ASSUME PanelInv, NEW t \in Tasks, NEW op, NEW on, NEW value, Config!Press(t, op, on, value),
         [op |-> op, on |-> on, value |-> value, open |-> FALSE,
          data |-> asked.data, seen |-> db] \in Config!Presses
  PROVE  PanelInv'
  <1>1. Config!TypeOK'
    BY PanelAssumption DEF PanelInv, Config!TypeOK, Config!Press
  <1>2. tx' = [tx EXCEPT ![t] = [op |-> op, on |-> on, value |-> value, open |-> FALSE,
                                 data |-> asked.data, seen |-> db]] /\ db' = db
    BY DEF Config!Press
  <1>3. tx \in [Tasks -> Config!Presses \cup {Config!NoTx}]
    BY DEF PanelInv, Config!TypeOK
  <1> QED
    BY <1>1, <1>2, <1>3, LagsSelf DEF PanelInv

LEMMA SettingsOpenInv ==
  ASSUME PanelInv, NEW t \in Tasks, Config!Open(t)
  PROVE  PanelInv'
  <1>d. db \in Config!Rows /\ asked.data \in Config!Data /\ tx \in [Tasks -> Config!Presses \cup {Config!NoTx}]
    BY DEF PanelInv, Config!TypeOK
  <1>1. tx[t] \in Config!Presses
    BY <1>d DEF Config!Open
  <1> DEFINE now == [tx[t] EXCEPT !.open = TRUE, !.data = asked.data, !.seen = db]
  <1>2. now \in Config!Presses /\ now.seen = db
    BY <1>d, <1>1 DEF Config!Presses, Config!Of
  <1>3. tx' = [tx EXCEPT ![t] = now]
    BY <1>d, <1>1 DEF Config!Open, Config!Presses, Config!Of
  <1>4. Config!TypeOK'
    BY <1>2, <1>3 DEF PanelInv, Config!TypeOK, Config!Open
  <1>5. \A v \in Tasks : tx'[v] # Config!NoTx => SettingsSound(tx'[v].seen) /\ Lags(tx'[v].seen, db)
    BY <1>d, <1>2, <1>3, LagsSelf DEF PanelInv
  <1> QED
    BY <1>4, <1>5 DEF Config!Open, PanelInv

LEMMA SettingsEndInv ==
  ASSUME PanelInv, NEW t \in Tasks, NEW new, SettingsSound(new), Lags(db, new), db' = new, Config!End(t),
         asked' \in [state : Config!States, data : Config!Data]
  PROVE  PanelInv'
  <1>1. tx \in [Tasks -> Config!Presses \cup {Config!NoTx}] /\ tx' = [tx EXCEPT ![t] = Config!NoTx]
    BY DEF PanelInv, Config!TypeOK, Config!End
  <1>2. Config!TypeOK'
    BY <1>1 DEF PanelInv, Config!TypeOK, SettingsSound, Config!End
  <1>3. \A v \in Tasks : tx'[v] # Config!NoTx => tx'[v] = tx[v]
    BY <1>1
  <1> QED
    BY <1>2, <1>3, LagsFurther DEF PanelInv

LEMMA SettingsCommitInv ==
  ASSUME PanelInv, NEW t \in Tasks, NEW new, SettingsSound(new), Lags(db, new), Config!Commit(t, new)
  PROVE  PanelInv'
  BY SettingsEndInv DEF Config!Commit, PanelInv, Config!TypeOK

LEMMA SettingsClearInv ==
  ASSUME PanelInv, NEW t \in Tasks, NEW new, SettingsSound(new), Lags(db, new),
         Config!CommitAndClear(t, new, Config!NoData)
  PROVE  PanelInv'
  BY SettingsEndInv, SettingsNoPrompt DEF Config!CommitAndClear

LEMMA SettingsAskInv ==
  ASSUME PanelInv, NEW t \in Tasks, NEW state \in Config!States, NEW data \in Config!Data,
         Config!Ask(t, state, data)
  PROVE  PanelInv'
  BY SettingsEndInv, LagsSelf DEF Config!Ask, PanelInv

LEMMA SettingsRefuseInv ==
  ASSUME PanelInv, NEW t \in Tasks, Config!Refuse(t)
  PROVE  PanelInv'
  BY SettingsCommitInv, LagsSelf DEF Config!Refuse, PanelInv

LEMMA PanelInit == Config!Init => PanelInv
  BY PanelAssumption, SettingsNoPrompt
  DEF Config!Init, PanelInv, Config!TypeOK, SettingsSound, Complete, Config!Rows, Config!AckRow,
     Config!StageRow, Config!ResultRow, Config!ProgressRow,
      Config!Toggles, Config!Picks, Config!Choices, Config!Fields, Config!StoreFields, Config!TextKinds, Config!ResultToggles, Config!ResultFields

------------------------------------------------------------------------------
(* Buttons and prompts *)

LEMMA SettingsButtonStep ==
  ASSUME PanelInv, NEW t \in Tasks,
         \/ Config!PressSetting(t) \/ Config!PressScope(t) \/ Config!PressNumber(t) \/ Config!PressBacklog(t)
         \/ Config!PressMode(t) \/ Config!PressText(t) \/ Config!PressWoo(t) \/ Config!PressStore(t)
         \/ Config!PressAck(t) \/ Config!PressTarget(t) \/ Config!PressPolicy(t) \/ Config!PressStage(t)
         \/ Config!PressProgress(t) \/ Config!SendText(t)
  PROVE  PanelInv'
  <1> USE DEF Config!Presses, Config!Of, Config!Toggles, Config!Picks, Config!Fields, Config!StoreFields, Config!ResultFields, Config!ResultToggles
  <1>d. db \in Config!Rows /\ asked.data \in Config!Data
    BY DEF PanelInv, Config!TypeOK
  <1>1. ASSUME NEW op \in {"leave", "ask_progress"} \cup Config!Toggles, Config!Press(t, op, Config!None, Config!None)
        PROVE  PanelInv'
    BY <1>d, <1>1, SettingsPressInv
  <1>2. ASSUME NEW op \in Config!Picks, NEW c \in Config!Choices, Config!Press(t, op, Config!None, c) PROVE PanelInv'
    BY <1>d, <1>2, SettingsPressInv
  <1>3. ASSUME NEW f \in Config!Fields, Config!Press(t, "ask_setting", Config!None, f) PROVE PanelInv'
    BY <1>d, <1>3, SettingsPressInv
  <1>4. ASSUME NEW f \in Config!StoreFields, Config!Press(t, "ask_store", Config!None, f) PROVE PanelInv'
    BY <1>d, <1>4, SettingsPressInv
  <1>5. ASSUME NEW s \in Statuses, NEW f \in Config!ResultFields, Config!Press(t, "ask_result", s, f)
        PROVE  PanelInv'
    BY <1>d, <1>5, SettingsPressInv
  <1>6. ASSUME NEW op \in Config!ResultToggles \cup {"ack_toggle", "ask_ack"}, NEW s \in Statuses,
               Config!Press(t, op, s, Config!None)
        PROVE  PanelInv'
    BY <1>d, <1>6, SettingsPressInv
  <1>7. ASSUME NEW op \in {"set_target", "set_policy"}, NEW s \in Statuses, NEW c \in Config!Choices,
               Config!Press(t, op, s, c)
        PROVE  PanelInv'
    BY <1>d, <1>7, SettingsPressInv
  <1>8. ASSUME NEW op \in {"stage_toggle", "ask_stage"}, NEW s \in Stages, Config!Press(t, op, s, Config!None)
        PROVE  PanelInv'
    BY <1>d, <1>8, SettingsPressInv
  <1>9. ASSUME NEW op \in {"p_toggle", "p_del"}, NEW e \in Emojis, Config!Press(t, op, e, Config!None)
        PROVE  PanelInv'
    BY <1>d, <1>9, SettingsPressInv
  <1>10. ASSUME NEW state \in {"setting", "result"}, NEW text \in Config!TextKinds,
                Config!Press(t, state, Config!None, text)
         PROVE  PanelInv'
    BY <1>d, <1>10, SettingsPressInv
  <1>11. ASSUME NEW state \in {"ack", "stage", "progress"}, NEW e \in Emojis,
                Config!Press(t, state, Config!None, e)
         PROVE  PanelInv'
    BY <1>d, <1>11, SettingsPressInv
  <1>12. CASE Config!PressSetting(t) \/ Config!PressScope(t) \/ Config!PressNumber(t) \/ Config!PressBacklog(t) \/ Config!PressMode(t)
    BY <1>12, <1>1, <1>2, <1>3 DEF Config!PressSetting, Config!PressScope,
       Config!PressNumber, Config!PressBacklog, Config!PressMode
  <1>13. CASE Config!PressText(t) \/ Config!PressWoo(t) \/ Config!PressStore(t) \/ Config!PressAck(t)
    BY <1>13, <1>4, <1>5, <1>6 DEF Config!PressText, Config!PressWoo, Config!PressStore,
       Config!PressAck
  <1>14. CASE Config!PressTarget(t) \/ Config!PressPolicy(t) \/ Config!PressStage(t) \/ Config!PressProgress(t)
    BY <1>14, <1>1, <1>7, <1>8, <1>9 DEF Config!PressTarget, Config!PressPolicy,
       Config!PressStage, Config!PressProgress
  <1>15. CASE Config!SendText(t)
    BY <1>15, <1>10, <1>11 DEF Config!SendText, Config!Answer
  <1> QED
    BY <1>12, <1>13, <1>14, <1>15

LEMMA SettingsPromptStep ==
  ASSUME PanelInv, NEW t \in Tasks,
         \/ Config!AskValue(t) \/ Config!AskNumber(t) \/ Config!AskAge(t) \/ Config!AskText(t) \/ Config!AskWoo(t) \/ Config!AskStore(t)
         \/ Config!AskAck(t) \/ Config!AskStage(t) \/ Config!AskProgress(t) \/ Config!Leave(t)
  PROVE  PanelInv'
  <1>d. asked.data \in Config!Data
    BY DEF PanelInv, Config!TypeOK
  <1>p. ASSUME NEW op, op # Config!None, Config!Handles(t, op) PROVE tx[t] \in Config!Presses /\ tx[t].op = op
    BY <1>p, SettingsHandling
  <1>1. CASE Config!Handles(t, "ask_setting") /\ Config!Ask(t, "setting", [asked.data EXCEPT !.field = tx[t].value])
    <2>1. tx[t].value \in Config!Fields
      BY <1>1, <1>p, SettingsPressHolds DEF Config!None
    <2>2. [asked.data EXCEPT !.field = tx[t].value] \in Config!Data
      BY <1>d, <2>1 DEF Config!Data
    <2> QED
      BY <1>1, <2>2, SettingsAskInv DEF Config!States
  <1>2. CASE /\ Config!Handles(t, "ask_result")
             /\ Config!Ask(t, "result", [asked.data EXCEPT !.field = tx[t].value, !.status = tx[t].on])
    <2>1. tx[t].value \in Config!ResultFields /\ tx[t].on \in Statuses
      BY <1>2, <1>p, SettingsPressHolds DEF Config!None
    <2>2. [asked.data EXCEPT !.field = tx[t].value, !.status = tx[t].on] \in Config!Data
      BY <1>d, <2>1 DEF Config!Data
    <2> QED
      BY <1>2, <2>2, SettingsAskInv DEF Config!States
  <1>3. CASE Config!AskStore(t)
    <2>1. tx[t].value \in Config!StoreFields
      BY <1>3, <1>p, SettingsPressHolds DEF Config!AskStore, Config!None
    <2>2. [asked.data EXCEPT !.field = tx[t].value, !.status = Config!None] \in Config!Data
      BY <1>d, <2>1 DEF Config!Data
    <2> QED
      BY <1>3, <2>2, SettingsAskInv DEF Config!AskStore, Config!States
  <1>4. CASE Config!AskAck(t)
    <2>1. tx[t].on \in Statuses
      BY <1>4, <1>p, SettingsPressHolds DEF Config!AskAck, Config!None
    <2>2. [asked.data EXCEPT !.status = tx[t].on] \in Config!Data
      BY <1>d, <2>1 DEF Config!Data
    <2> QED
      BY <1>4, <2>2, SettingsAskInv DEF Config!AskAck, Config!States
  <1>5. CASE Config!AskStage(t)
    <2>1. tx[t].on \in Stages
      BY <1>5, <1>p, SettingsPressHolds DEF Config!AskStage, Config!None
    <2>2. [asked.data EXCEPT !.stage = tx[t].on] \in Config!Data
      BY <1>d, <2>1 DEF Config!Data
    <2> QED
      BY <1>5, <2>2, SettingsAskInv DEF Config!AskStage, Config!States
  <1>6. CASE Config!AskProgress(t)
    BY <1>d, <1>6, SettingsAskInv DEF Config!AskProgress, Config!States
  <1>7. CASE Config!Leave(t)
    BY <1>7, SettingsClearInv, LagsSelf DEF Config!Leave, PanelInv
  <1> QED
    BY <1>1, <1>2, <1>3, <1>4, <1>5, <1>6, <1>7
    DEF Config!AskValue, Config!AskNumber, Config!AskAge, Config!Asks, Config!AskText,
       Config!AskWoo, Config!AsksResult

------------------------------------------------------------------------------
(* Settings and results *)

LEMMA SettingStep ==
  ASSUME PanelInv, NEW t \in Tasks,
         \/ Config!ToggleNotifications(t) \/ Config!ToggleOrderNumber(t) \/ Config!ToggleDeleteInvalid(t)
         \/ Config!SetScope(t) \/ Config!SetBacklogMode(t) \/ Config!SetMode(t) \/ Config!ReceiveSetting(t)
  PROVE  PanelInv'
  <1>d. SettingsSound(db)
    BY DEF PanelInv
  <1>1. ASSUME NEW flag \in Config!Toggles, Config!Flip(t, flag) PROVE PanelInv'
    <2>1. tx[t].seen \in Config!Rows
      BY <1>1, SettingsHandling DEF Config!Flip, Config!Toggles, Config!None, SettingsSound
    <2>2. [db EXCEPT !.flags[flag] = ~tx[t].seen.flags[flag]] \in Config!Rows
      BY <1>d, <2>1 DEF SettingsSound, Config!Rows
    <2>3. SettingsSound([db EXCEPT !.flags[flag] = ~tx[t].seen.flags[flag]])
          /\ Lags(db, [db EXCEPT !.flags[flag] = ~tx[t].seen.flags[flag]])
      BY <1>d, <2>2 DEF SettingsSound, Complete, Lags, Config!Rows
    <2> QED
      BY <1>1, <2>3, SettingsCommitInv DEF Config!Flip
  <1>2. ASSUME NEW setting \in Config!Picks, Config!Choose(t, setting) PROVE PanelInv'
    <2>1. tx[t].value \in Config!Choices
      BY <1>2, SettingsHandling, SettingsPressHolds DEF Config!Choose, Config!Picks, Config!None
    <2>2. [db EXCEPT !.picked[setting] = tx[t].value] \in Config!Rows
      BY <1>d, <2>1 DEF SettingsSound, Config!Rows
    <2>3. SettingsSound([db EXCEPT !.picked[setting] = tx[t].value])
          /\ Lags(db, [db EXCEPT !.picked[setting] = tx[t].value])
      BY <1>d, <2>2 DEF SettingsSound, Complete, Lags, Config!Rows
    <2> QED
      BY <1>2, <2>3, SettingsCommitInv DEF Config!Choose
  <1>3. CASE Config!ReceiveSetting(t)
    <2> DEFINE f == Config!Field(tx[t].data)
               new == [db EXCEPT !.typed[f] = tx[t].value]
    <2>1. tx[t].value \in Config!TextKinds
      BY <1>3, SettingsHandling, SettingsPressHolds DEF Config!ReceiveSetting, Config!None
    <2>2. f \in Config!Fields
      BY DEF Config!Field, Config!Fields
    <2>3. CASE Config!Accepts(f, tx[t].value)
      <3>1. f \in {"num_length", "backlog_age"} => tx[t].value = "digits"
        BY <2>3 DEF Config!Accepts
      <3>2. new.typed = [db.typed EXCEPT ![f] = tx[t].value]
        BY <1>d DEF SettingsSound, Config!Rows
      <3>3. new \in Config!Rows
        BY <1>d, <2>1, <2>2 DEF SettingsSound, Config!Rows
      <3>4. \A g \in {"num_length", "backlog_age"} : new.typed[g] \in {"default", "digits"}
        BY <1>d, <2>2, <3>1, <3>2 DEF SettingsSound, Config!Rows, Config!Fields
      <3>5. SettingsSound(new) /\ Lags(db, new)
        BY <1>d, <3>3, <3>4 DEF SettingsSound, Complete, Lags, Config!Rows
      <3> QED
        BY <1>3, <2>3, <3>5, SettingsClearInv DEF Config!ReceiveSetting
    <2> QED
      BY <1>3, <2>3, SettingsRefuseInv DEF Config!ReceiveSetting
  <1> QED
    BY <1>1, <1>2, <1>3
    DEF Config!ToggleNotifications, Config!ToggleOrderNumber, Config!ToggleDeleteInvalid,
       Config!Toggles,
        Config!SetScope, Config!SetBacklogMode, Config!SetMode, Config!Picks

LEMMA ResultStep ==
  ASSUME PanelInv, NEW t \in Tasks,
         Config!ReceiveResult(t) \/ Config!ToggleText(t) \/ Config!ToggleWoo(t) \/ Config!ToggleWooNote(t)
  PROVE  PanelInv'
  <1>d. SettingsSound(db) /\ db \in Config!Rows
    BY DEF PanelInv, SettingsSound
  <1>1. CASE Config!ReceiveResult(t)
    <2> DEFINE f == tx[t].data.field
               s == tx[t].data.status
    <2>1. tx[t].data \in Config!Data
      BY <1>1, SettingsHandling, SettingsPressHolds DEF Config!ReceiveResult, Config!None
    <2>2. CASE f \in Config!StoreFields
      <3> DEFINE new == [db EXCEPT !.store = Config!Stored(@, f, tx[t].value)]
      <3>1. new \in Config!Rows
        BY <1>d, <2>2 DEF Config!Rows, Config!Stored
      <3>2. SettingsSound(new) /\ Lags(db, new)
        BY <1>d, <3>1 DEF SettingsSound, Complete, Lags, Config!Rows
      <3> QED
        BY <1>1, <2>2, <3>2, SettingsClearInv DEF Config!ReceiveResult
    <2>3. CASE f \notin Config!StoreFields /\ s = Config!None
      BY <1>1, <2>3, SettingsRefuseInv DEF Config!ReceiveResult
    <2>4. CASE f \notin Config!StoreFields /\ s # Config!None
      <3> DEFINE new == [db EXCEPT !.result[s].filled = IF f \in Config!ResultFields THEN @ \cup {f} ELSE @]
                 more == IF f \in Config!ResultFields THEN db.result[s].filled \cup {f}
                         ELSE db.result[s].filled
      <3>1. s \in Statuses
        BY <2>1, <2>4 DEF Config!Data
      <3>2. more \subseteq Config!ResultFields /\ db.result[s].filled \subseteq more
        BY <1>d, <3>1 DEF Config!Rows, Config!ResultRow
      <3>3. new.result = [db.result EXCEPT ![s] = [db.result[s] EXCEPT !.filled = more]]
            /\ new.ack = db.ack /\ new.stage = db.stage /\ new.typed = db.typed
        BY <1>d, <3>1 DEF Config!Rows, Config!ResultRow
      <3>4. new \in Config!Rows
        <4>1. new.result \in [Statuses -> Config!ResultRow]
          BY <1>d, <3>1, <3>2, <3>3 DEF Config!Rows, Config!ResultRow
        <4> QED
          BY <1>d, <3>1, <4>1 DEF Config!Rows
      <3>5. \A r \in Statuses :
              new.result[r].switched = db.result[r].switched
              /\ db.result[r].filled \subseteq new.result[r].filled
        BY <1>d, <3>1, <3>2, <3>3 DEF Config!Rows, Config!ResultRow
      <3>6. SettingsSound(new) /\ Lags(db, new)
        BY <1>d, <3>3, <3>4, <3>5 DEF SettingsSound, Complete, Lags
      <3>7. Config!CommitAndClear(t, new, Config!NoData)
        BY <1>1, <2>4 DEF Config!ReceiveResult
      <3> QED
        BY <3>6, <3>7, SettingsClearInv
    <2> QED
      BY <2>2, <2>3, <2>4
  <1>2. ASSUME NEW op \in Config!ResultToggles, Config!Switch(t, op) PROVE PanelInv'
    <2> DEFINE s == tx[t].on
               seen == tx[t].seen
    <2>1. s \in Statuses /\ SettingsSound(seen) /\ Lags(seen, db)
      BY <1>2, SettingsHandling, SettingsPressHolds
         DEF Config!Switch, Config!ResultToggles, Config!None
    <2>2. ASSUME NEW new, NEW keys \in SUBSET Config!ResultToggles, Config!Commit(t, new),
                 new = [db EXCEPT !.result[s].switched = keys],
                 "text_toggle" \in keys => "append_text" \in db.result[s].filled
          PROVE  PanelInv'
      <3>1. new.result = [db.result EXCEPT ![s] = [db.result[s] EXCEPT !.switched = keys]]
            /\ new.ack = db.ack /\ new.stage = db.stage /\ new.typed = db.typed
        BY <1>d, <2>1, <2>2 DEF Config!Rows, Config!ResultRow
      <3>2. new \in Config!Rows
        <4>1. new.result \in [Statuses -> Config!ResultRow]
          BY <1>d, <2>1, <3>1 DEF Config!Rows, Config!ResultRow
        <4> QED
          BY <1>d, <2>1, <2>2, <4>1 DEF Config!Rows
      <3>3. \A r \in Statuses :
              /\ new.result[r].filled = db.result[r].filled
              /\ new.result[r].switched = IF r = s THEN keys ELSE db.result[r].switched
        BY <1>d, <2>1, <3>1 DEF Config!Rows, Config!ResultRow
      <3>4. SettingsSound(new) /\ Lags(db, new)
        BY <1>d, <2>2, <3>1, <3>2, <3>3 DEF SettingsSound, Complete, Lags
      <3> QED
        BY <2>2, <3>4, SettingsCommitInv
    <2> DEFINE now == db.result[s].switched
    <2>3. now \subseteq Config!ResultToggles /\ ("text_toggle" \in now => "append_text" \in db.result[s].filled)
      BY <1>d, <2>1 DEF SettingsSound, Complete, Config!Rows, Config!ResultRow
    <2>4. CASE op \in seen.result[s].switched
      <3>1. Config!Commit(t, [db EXCEPT !.result[s].switched = now \ {op}])
        BY <1>2, <1>d, <2>1, <2>4 DEF Config!Switch, Config!Rows, Config!ResultRow
      <3> QED
        BY <2>2, <2>3, <3>1
    <2>5. CASE op \notin seen.result[s].switched /\ ~Config!Ready(seen, s, op)
      BY <1>2, <1>d, <2>5, SettingsCommitInv, LagsSelf DEF Config!Switch
    <2>6. CASE op \notin seen.result[s].switched /\ Config!Ready(seen, s, op)
      <3>1. Config!Commit(t, [db EXCEPT !.result[s].switched = now \cup {op}])
        BY <1>2, <1>d, <2>1, <2>6 DEF Config!Switch, Config!Rows, Config!ResultRow
      <3>2. op = "text_toggle" => "append_text" \in db.result[s].filled
        BY <2>1, <2>6 DEF Config!Ready, Lags
      <3> QED
        BY <2>2, <2>3, <3>1, <3>2
    <2> QED
      BY <2>4, <2>5, <2>6
  <1> QED
    BY <1>1, <1>2 DEF Config!ToggleText, Config!ToggleWoo, Config!ToggleWooNote,
       Config!ResultToggles

------------------------------------------------------------------------------
(* Reactions *)

(* A handler that sees a reaction may switch it on: it is still set.       *)
LEMMA ReactionStep ==
  ASSUME EmojisAreReal, PanelInv, NEW t \in Tasks,
         \/ Config!ToggleAck(t) \/ Config!ToggleStage(t) \/ Config!SetTarget(t) \/ Config!SetPolicy(t)
         \/ Config!ReceiveReaction(t) \/ Config!ReceiveEmoji(t)
  PROVE  PanelInv'
  <1>d. SettingsSound(db) /\ db \in Config!Rows
    BY DEF PanelInv, SettingsSound
  <1>a. ASSUME NEW s \in Statuses, NEW row \in Config!AckRow,
               row.enabled => row.reaction # Config!None,
               db.ack[s].reaction # Config!None => row.reaction # Config!None
        PROVE  SettingsSound([db EXCEPT !.ack[s] = row]) /\ Lags(db, [db EXCEPT !.ack[s] = row])
    <2> DEFINE new == [db EXCEPT !.ack[s] = row]
    <2>1. new \in Config!Rows /\ new.stage = db.stage /\ new.result = db.result /\ new.typed = db.typed
      BY <1>d DEF Config!Rows
    <2>2. \A r \in Statuses : new.ack[r] = IF r = s THEN row ELSE db.ack[r]
      BY <1>d DEF Config!Rows
    <2> QED
      BY <1>a, <1>d, <2>1, <2>2 DEF SettingsSound, Complete, Lags
  <1>s. ASSUME NEW s \in Stages, NEW row \in Config!StageRow,
               row.enabled => row.reaction # Config!None,
               db.stage[s].reaction # Config!None => row.reaction # Config!None
        PROVE  SettingsSound([db EXCEPT !.stage[s] = row]) /\ Lags(db, [db EXCEPT !.stage[s] = row])
    <2> DEFINE new == [db EXCEPT !.stage[s] = row]
    <2>1. new \in Config!Rows /\ new.ack = db.ack /\ new.result = db.result /\ new.typed = db.typed
      BY <1>d DEF Config!Rows
    <2>2. \A r \in Stages : new.stage[r] = IF r = s THEN row ELSE db.stage[r]
      BY <1>d DEF Config!Rows
    <2> QED
      BY <1>s, <1>d, <2>1, <2>2 DEF SettingsSound, Complete, Lags
  <1>1. CASE Config!ToggleAck(t)
    <2> DEFINE s == tx[t].on
               row == Config!Switched(db.ack[s], tx[t].seen.ack[s])
    <2>1. s \in Statuses /\ SettingsSound(tx[t].seen) /\ Lags(tx[t].seen, db)
      BY <1>1, SettingsHandling, SettingsPressHolds DEF Config!ToggleAck, Config!None
    <2>2. db.ack[s] \in Config!AckRow /\ tx[t].seen.ack[s] \in Config!AckRow
          /\ (db.ack[s].enabled => db.ack[s].reaction # Config!None)
          /\ (tx[t].seen.ack[s].reaction # Config!None => db.ack[s].reaction # Config!None)
      BY <1>d, <2>1 DEF SettingsSound, Complete, Lags, Config!Rows
    <2>3. row \in Config!AckRow /\ row.reaction = db.ack[s].reaction
          /\ (row.enabled => row.reaction # Config!None)
      BY <2>2 DEF Config!Switched, Config!AckRow
    <2>4. Config!Commit(t, [db EXCEPT !.ack[s] = row])
      BY <1>1, <1>d, <2>1 DEF Config!ToggleAck, Config!Rows
    <2> QED
      BY <1>a, <2>1, <2>3, <2>4, SettingsCommitInv
  <1>2. CASE Config!ToggleStage(t)
    <2> DEFINE s == tx[t].on
               row == Config!Switched(db.stage[s], tx[t].seen.stage[s])
    <2>1. s \in Stages /\ SettingsSound(tx[t].seen) /\ Lags(tx[t].seen, db)
      BY <1>2, SettingsHandling, SettingsPressHolds DEF Config!ToggleStage, Config!None
    <2>2. db.stage[s] \in Config!StageRow /\ tx[t].seen.stage[s] \in Config!StageRow
          /\ (db.stage[s].enabled => db.stage[s].reaction # Config!None)
          /\ (tx[t].seen.stage[s].reaction # Config!None => db.stage[s].reaction # Config!None)
      BY <1>d, <2>1 DEF SettingsSound, Complete, Lags, Config!Rows
    <2>3. row \in Config!StageRow /\ row.reaction = db.stage[s].reaction
          /\ (row.enabled => row.reaction # Config!None)
      BY <2>2 DEF Config!Switched, Config!StageRow
    <2>4. Config!Commit(t, [db EXCEPT !.stage[s] = row])
      BY <1>2, <1>d, <2>1 DEF Config!ToggleStage, Config!Rows
    <2> QED
      BY <1>s, <2>1, <2>3, <2>4, SettingsCommitInv
  <1>3. CASE Config!SetTarget(t) \/ Config!SetPolicy(t)
    <2> DEFINE s == tx[t].on
    <2>1. s \in Statuses /\ tx[t].value \in Config!Choices
      BY <1>3, SettingsHandling, SettingsPressHolds
         DEF Config!SetTarget, Config!SetPolicy, Config!None
    <2>2. db.ack[s] \in Config!AckRow /\ (db.ack[s].enabled => db.ack[s].reaction # Config!None)
      BY <1>d, <2>1 DEF SettingsSound, Complete, Config!Rows
    <2>3. PICK row \in Config!AckRow : /\ Config!Commit(t, [db EXCEPT !.ack[s] = row])
                                       /\ row.reaction = db.ack[s].reaction
                                       /\ row.enabled = db.ack[s].enabled
      <3>1. CASE Config!SetTarget(t)
        <4> DEFINE row == [db.ack[s] EXCEPT !.target =
                             Config!Set(db.ack[s].target, tx[t].seen.ack[s].target, tx[t].value)]
        <4>1. row \in Config!AckRow /\ row.reaction = db.ack[s].reaction /\ row.enabled = db.ack[s].enabled
          BY <2>1, <2>2 DEF Config!AckRow, Config!Set
        <4>2. Config!Commit(t, [db EXCEPT !.ack[s] = row])
          BY <3>1, <1>d, <2>1, <2>2 DEF Config!SetTarget, Config!Rows, Config!AckRow
        <4> QED
          BY <4>1, <4>2
      <3>2. CASE Config!SetPolicy(t)
        <4> DEFINE row == [db.ack[s] EXCEPT !.policy =
                             Config!Set(db.ack[s].policy, tx[t].seen.ack[s].policy, tx[t].value)]
        <4>1. row \in Config!AckRow /\ row.reaction = db.ack[s].reaction /\ row.enabled = db.ack[s].enabled
          BY <2>1, <2>2 DEF Config!AckRow, Config!Set
        <4>2. Config!Commit(t, [db EXCEPT !.ack[s] = row])
          BY <3>2, <1>d, <2>1, <2>2 DEF Config!SetPolicy, Config!Rows, Config!AckRow
        <4> QED
          BY <4>1, <4>2
      <3> QED
        BY <1>3, <3>1, <3>2
    <2> QED
      BY <1>a, <2>1, <2>2, <2>3, SettingsCommitInv
  <1>4. CASE Config!ReceiveReaction(t)
    <2> DEFINE s == tx[t].data.status
               row == [db.ack[s] EXCEPT !.reaction =
                         Config!Set(db.ack[s].reaction, tx[t].seen.ack[s].reaction, tx[t].value)]
    <2>1. tx[t].data \in Config!Data /\ tx[t].value \in Emojis
          /\ SettingsSound(tx[t].seen) /\ Lags(tx[t].seen, db)
      BY <1>4, SettingsHandling, SettingsPressHolds DEF Config!ReceiveReaction, Config!None
    <2>2. CASE s # Config!None
      <3>1. s \in Statuses
        BY <2>1, <2>2 DEF Config!Data
      <3>2. db.ack[s] \in Config!AckRow /\ (db.ack[s].enabled => db.ack[s].reaction # Config!None)
        BY <1>d, <3>1 DEF SettingsSound, Complete, Config!Rows
      <3>3. row \in Config!AckRow /\ row.enabled = db.ack[s].enabled
            /\ (db.ack[s].reaction # Config!None => row.reaction # Config!None)
        BY <2>1, <3>2 DEF Config!AckRow, Config!Set, EmojisAreReal
      <3>4. Config!CommitAndClear(t, [db EXCEPT !.ack[s] = row], Config!NoData)
        BY <1>4, <1>d, <2>2, <3>1, <3>2 DEF Config!ReceiveReaction, Config!Rows,
           Config!AckRow
      <3> QED
        BY <1>a, <3>1, <3>2, <3>3, <3>4, SettingsClearInv
    <2> QED
      BY <1>4, <2>2, SettingsRefuseInv DEF Config!ReceiveReaction
  <1>5. CASE Config!ReceiveEmoji(t)
    <2> DEFINE s == tx[t].data.stage
               row == [db.stage[s] EXCEPT !.reaction =
                         Config!Set(db.stage[s].reaction, tx[t].seen.stage[s].reaction, tx[t].value)]
    <2>1. tx[t].data \in Config!Data /\ tx[t].value \in Emojis
          /\ SettingsSound(tx[t].seen) /\ Lags(tx[t].seen, db)
      BY <1>5, SettingsHandling, SettingsPressHolds DEF Config!ReceiveEmoji, Config!None
    <2>2. CASE s # Config!None
      <3>1. s \in Stages
        BY <2>1, <2>2 DEF Config!Data
      <3>2. db.stage[s] \in Config!StageRow /\ (db.stage[s].enabled => db.stage[s].reaction # Config!None)
        BY <1>d, <3>1 DEF SettingsSound, Complete, Config!Rows
      <3>3. row \in Config!StageRow /\ row.enabled = db.stage[s].enabled
            /\ (db.stage[s].reaction # Config!None => row.reaction # Config!None)
        BY <2>1, <3>2 DEF Config!StageRow, Config!Set, EmojisAreReal
      <3>4. Config!CommitAndClear(t, [db EXCEPT !.stage[s] = row], Config!NoData)
        BY <1>5, <1>d, <2>2, <3>1, <3>2 DEF Config!ReceiveEmoji, Config!Rows,
           Config!StageRow
      <3> QED
        BY <1>s, <3>1, <3>2, <3>3, <3>4, SettingsClearInv
    <2> QED
      BY <1>5, <2>2, SettingsRefuseInv DEF Config!ReceiveEmoji
  <1> QED
    BY <1>1, <1>2, <1>3, <1>4, <1>5

LEMMA ProgressStep ==
  ASSUME PanelInv, NEW t \in Tasks,
         Config!ReceiveProgress(t) \/ Config!ToggleProgress(t) \/ Config!DeleteProgress(t)
  PROVE  PanelInv'
  <1>d. SettingsSound(db) /\ db \in Config!Rows
    BY DEF PanelInv, SettingsSound
  <1>1. ASSUME NEW e \in Emojis, NEW row \in Config!ProgressRow
        PROVE  /\ SettingsSound([db EXCEPT !.progress[e] = row])
               /\ Lags(db, [db EXCEPT !.progress[e] = row])
    BY <1>d DEF SettingsSound, Complete, Lags, Config!Rows
  <1>2. CASE Config!ReceiveProgress(t)
    <2>1. tx[t].value \in Emojis
      BY <1>2, SettingsHandling, SettingsPressHolds DEF Config!ReceiveProgress, Config!None
    <2> QED
      BY <1>1, <1>2, <2>1, SettingsClearInv DEF Config!ReceiveProgress, Config!ProgressRow
  <1>3. CASE Config!ToggleProgress(t) \/ Config!DeleteProgress(t)
    <2>1. tx[t].on \in Emojis
      BY <1>3, SettingsHandling, SettingsPressHolds
         DEF Config!ToggleProgress, Config!DeleteProgress,
         Config!None
    <2>2. SettingsSound(db) /\ Lags(db, db)
      BY <1>d, LagsSelf
    <2> QED
      BY <1>1, <1>3, <2>1, <2>2, SettingsCommitInv, SettingsRefuseInv DEF Config!ToggleProgress,
         Config!DeleteProgress, Config!ProgressRow
  <1> QED
    BY <1>2, <1>3

------------------------------------------------------------------------------
(* Theorems *)

LEMMA PanelStep == EmojisAreReal /\ PanelInv /\ [Config!Next]_panel => PanelInv'
  <1> SUFFICES ASSUME EmojisAreReal, PanelInv, [Config!Next]_panel PROVE PanelInv'
    OBVIOUS
  <1>1. CASE UNCHANGED panel
    BY <1>1 DEF PanelInv, Config!TypeOK, panel, SettingsSound, Complete, Lags
  <1> QED
    BY <1>1, SettingsButtonStep, SettingsOpenInv, SettingsPromptStep, SettingStep, ResultStep, ReactionStep,
       ProgressStep
    DEF Config!Next

(* A screen stays what it is, and only its handlers act. *)
LEMMA SettingsOneScreen ==
  [Next]_<<panel, screen>> => screen' = screen /\ (screen = "settings" => [Config!Next]_panel)
  BY DEF Next, panel

(* Every reachable state of the settings screens satisfies the invariant. *)
THEOREM PanelAlways == EmojisAreReal => (Spec => [](screen = "settings" => PanelInv))
  <1> SUFFICES ASSUME EmojisAreReal PROVE Spec => [](screen = "settings" => PanelInv)
    OBVIOUS
  <1>1. Init => (screen = "settings" => PanelInv)
    BY PanelInit DEF Init
  <1>2. (screen = "settings" => PanelInv) /\ [Next]_<<panel, screen>>
        => (screen = "settings" => PanelInv)'
    BY SettingsOneScreen, PanelStep
  <1> QED
    BY <1>1, <1>2, PTL DEF Spec

(* Every reachable state of the settings screens is well typed. *)
THEOREM SettingsTypeCorrect == EmojisAreReal => (Spec => [](screen = "settings" => Config!TypeOK))
  <1> SUFFICES ASSUME EmojisAreReal PROVE Spec => [](screen = "settings" => Config!TypeOK)
    OBVIOUS
  <1>1. (screen = "settings" => PanelInv) => (screen = "settings" => Config!TypeOK)
    BY DEF PanelInv
  <1> QED
    BY <1>1, PanelAlways, PTL

(* However handlers overlap, an acknowledgement or a stage that is         *)
(* switched on has its reaction, and appending a text has the text.        *)
THEOREM EnabledAreComplete == EmojisAreReal => (Spec => []EnabledIsComplete)
  <1> SUFFICES ASSUME EmojisAreReal PROVE Spec => []EnabledIsComplete
    OBVIOUS
  <1>1. (screen = "settings" => PanelInv) => EnabledIsComplete
    BY DEF PanelInv, SettingsSound, Complete, Config!EnabledIsComplete, EnabledIsComplete
  <1> QED
    BY <1>1, PanelAlways, PTL

(* Only the button of the store update switches it on, and it looks at the *)
(* order numbers and the credentials it read.                              *)
LEMMA SwitchStep == PanelInv /\ [Config!Next]_panel => Config!SwitchesOnReady
  <1> SUFFICES ASSUME PanelInv, [Config!Next]_panel, NEW s \in Statuses,
                      "woo_toggle" \in db'.result[s].switched,
                      "woo_toggle" \notin db.result[s].switched, ~Config!OnlyByRace
               PROVE  Config!Connected(db')
    BY DEF Config!SwitchesOnReady
  <1>d. db \in Config!Rows /\ tx \in [Tasks -> Config!Presses \cup {Config!NoTx}]
    BY DEF PanelInv, Config!TypeOK
  <1>k. db'.result # db.result
    OBVIOUS
  <1>1. ASSUME NEW t \in Tasks, NEW op \in Config!ResultToggles, Config!Switch(t, op) PROVE Config!Connected(db')
    <2>1. tx[t] \in Config!Presses /\ tx[t].op = op /\ tx[t].on \in Statuses
      BY <1>1, SettingsHandling, SettingsPressHolds
         DEF Config!Switch, Config!ResultToggles, Config!None
    <2>2. tx[t].seen = db
      <3>1. Config!Commits(t)
        BY <1>1, <1>d, <2>1, SettingsPressHolds DEF Config!Commits, Config!Switch, Config!Commit,
           Config!Handles, Config!End, Config!NoTx
      <3> QED
        BY <3>1 DEF Config!OnlyByRace, Config!Current
    <2> DEFINE r == tx[t].on
    <2>3. PICK new : /\ db' = new
                     /\ \/ new = [db EXCEPT !.result[r].switched = @ \ {op}]
                        \/ new = db
                        \/ /\ new = [db EXCEPT !.result[r].switched = @ \cup {op}]
                           /\ Config!Ready(db, r, op)
      BY <1>1, <2>2 DEF Config!Switch, Config!Commit
    <2>4. CASE new = [db EXCEPT !.result[r].switched = @ \cup {op}] /\ Config!Ready(db, r, op)
      <3>1. db'.result[s].switched = IF s = r THEN db.result[s].switched \cup {op}
                                     ELSE db.result[s].switched
        BY <1>d, <2>1, <2>3, <2>4 DEF Config!Rows, Config!ResultRow
      <3>2. op = "woo_toggle"
        BY <3>1
      <3>3. db'.flags = db.flags /\ db'.store = db.store
        BY <1>d, <2>1, <2>3, <2>4 DEF Config!Rows
      <3> QED
        BY <2>4, <3>2, <3>3 DEF Config!Ready, Config!Connected
    <2>5. CASE new = [db EXCEPT !.result[r].switched = @ \ {op}]
      <3>1. db'.result[s].switched \subseteq db.result[s].switched
        BY <1>d, <2>1, <2>3, <2>5 DEF Config!Rows, Config!ResultRow
      <3> QED
        BY <3>1
    <2> QED
      BY <1>k, <2>3, <2>4, <2>5
  <1>2. ASSUME NEW t \in Tasks, Config!ReceiveResult(t) PROVE FALSE
    <2> DEFINE f == tx[t].data.field
               r == tx[t].data.status
    <2>1. tx[t].data \in Config!Data
      BY <1>2, SettingsHandling, SettingsPressHolds DEF Config!ReceiveResult, Config!None
    <2>2. f \notin Config!StoreFields /\ r # Config!None
      BY <1>2, <1>d, <1>k DEF Config!ReceiveResult, Config!Refuse, Config!Commit,
         Config!CommitAndClear, Config!Rows
    <2>3. r \in Statuses
      BY <2>1, <2>2 DEF Config!Data
    <2>4. db' = [db EXCEPT !.result[r].filled = IF f \in Config!ResultFields THEN @ \cup {f} ELSE @]
      BY <1>2, <2>2 DEF Config!ReceiveResult, Config!CommitAndClear
    <2>5. db'.result[s].switched = db.result[s].switched
      BY <1>d, <2>3, <2>4 DEF Config!Rows, Config!ResultRow
    <2> QED
      BY <2>5
  <1>3. ASSUME NEW t \in Tasks,
               \/ Config!PressSetting(t) \/ Config!PressScope(t) \/ Config!PressNumber(t) \/ Config!PressBacklog(t)
               \/ Config!PressMode(t) \/ Config!PressText(t) \/ Config!PressWoo(t) \/ Config!PressStore(t)
               \/ Config!PressAck(t) \/ Config!PressTarget(t) \/ Config!PressPolicy(t) \/ Config!PressStage(t)
               \/ Config!PressProgress(t) \/ Config!SendText(t) \/ Config!Open(t)
        PROVE  FALSE
    BY <1>3, <1>k
    DEF Config!PressSetting, Config!PressScope, Config!PressNumber, Config!PressBacklog,
       Config!PressMode, Config!PressText, Config!PressWoo,
        Config!PressStore, Config!PressAck, Config!PressTarget, Config!PressPolicy, Config!PressStage, Config!PressProgress, Config!SendText,
        Config!Answer, Config!Press, Config!Open
  <1>4. ASSUME NEW t \in Tasks,
               \/ Config!AskValue(t) \/ Config!AskNumber(t) \/ Config!AskAge(t) \/ Config!AskText(t) \/ Config!AskWoo(t)
               \/ Config!AskStore(t) \/ Config!AskAck(t) \/ Config!AskStage(t) \/ Config!AskProgress(t) \/ Config!Leave(t)
        PROVE  FALSE
    BY <1>4, <1>k
    DEF Config!AskValue, Config!AskNumber, Config!AskAge, Config!Asks, Config!AskText,
       Config!AskWoo, Config!AsksResult, Config!AskStore, Config!AskAck,
        Config!AskStage, Config!AskProgress, Config!Leave, Config!Ask, Config!CommitAndClear
  <1>5. ASSUME NEW t \in Tasks,
               \/ Config!ToggleNotifications(t) \/ Config!ToggleOrderNumber(t) \/ Config!ToggleDeleteInvalid(t)
               \/ Config!SetScope(t) \/ Config!SetBacklogMode(t) \/ Config!SetMode(t) \/ Config!ReceiveSetting(t)
        PROVE  FALSE
    BY <1>5, <1>d, <1>k
    DEF Config!ToggleNotifications, Config!ToggleOrderNumber, Config!ToggleDeleteInvalid,
       Config!Flip, Config!SetScope,
        Config!SetBacklogMode, Config!SetMode, Config!Choose, Config!ReceiveSetting, Config!Refuse, Config!Commit, Config!CommitAndClear, Config!Rows
  <1>6. ASSUME NEW t \in Tasks,
               \/ Config!ToggleAck(t) \/ Config!ToggleStage(t) \/ Config!SetTarget(t) \/ Config!SetPolicy(t)
               \/ Config!ReceiveReaction(t) \/ Config!ReceiveEmoji(t)
        PROVE  FALSE
    BY <1>6, <1>d, <1>k
    DEF Config!ToggleAck, Config!ToggleStage, Config!SetTarget, Config!SetPolicy,
       Config!ReceiveReaction, Config!ReceiveEmoji,
        Config!Refuse, Config!Commit, Config!CommitAndClear, Config!Rows
  <1>7. ASSUME NEW t \in Tasks, Config!ReceiveProgress(t) \/ Config!ToggleProgress(t) \/ Config!DeleteProgress(t)
        PROVE  FALSE
    BY <1>7, <1>d, <1>k
    DEF Config!ReceiveProgress, Config!ToggleProgress, Config!DeleteProgress,
       Config!Refuse, Config!Commit, Config!CommitAndClear, Config!Rows
  <1>8. CASE UNCHANGED panel
    BY <1>8, <1>k DEF panel
  <1> QED
    BY <1>1, <1>2, <1>3, <1>4, <1>5, <1>6, <1>7, <1>8
    DEF Config!Next, Config!ToggleText, Config!ToggleWoo, Config!ToggleWooNote,
       Config!ResultToggles

(* The store update is never switched on without order numbers and         *)
(* credentials but by a handler that another one overtook.                 *)
THEOREM WooOnlyWhenReady == EmojisAreReal => (Spec => WooNeedsNumber)
  <1> SUFFICES ASSUME EmojisAreReal PROVE Spec => WooNeedsNumber
    OBVIOUS
  <1>1. (screen = "settings" => PanelInv) /\ [Next]_<<panel, screen>>
        => (screen = "settings" => Config!SwitchesOnReady)
    BY SettingsOneScreen, SwitchStep
  <1> QED
    BY <1>1, PanelAlways, PTL DEF Spec, WooNeedsNumber
===============================================================================
