------------------------------- MODULE Settings --------------------------------
(***************************************************************************)
(* Settings, acknowledgement, source reaction and result screens:          *)
(* handlers/admin/settings.py, reactions.py, source_reactions.py and       *)
(* result_content.py over repositories/settings.py, acknowledgements.py    *)
(* and extensions.py.  A text is known by what the handlers tell apart.    *)
(***************************************************************************)
EXTENDS PanelTasks

CONSTANTS
    Statuses,       \* SUCCESS and FAILED
    Stages,         \* of the source reactions
    Emojis

TextKinds == {"word", "digits", "template", "slash"}
Toggles == {"notifications", "num_toggle", "num_delete"}
Picks == {"set_scope", "backlog_mode", "set_mode"}
Choices == {"first", "other"}
Fields == {"prefix", "format", "num_length", "num_message", "backlog_age"}
StoreFields == {"store_url", "store_key", "store_secret"}
ResultFields == {"append_text", "woo_status", "woo_note"}
ResultToggles == {"text_toggle", "woo_toggle", "woo_note_toggle"}

(* What a text of a field may be.  A format is probed with 1 and must show *)
(* it: digits that hold a 1 do.                                            *)
Accepts(field, text) ==
    CASE field \in {"num_length", "backlog_age"} -> text = "digits"
      [] field = "format" -> text \in {"template", "digits"}
      [] OTHER -> TRUE

StageRow == [enabled : BOOLEAN, reaction : Emojis \cup {None}]
AckRow == [enabled : BOOLEAN, reaction : Emojis \cup {None}, target : Choices, policy : Choices]
ProgressRow == {"absent", "on", "off"}
ResultRow == [switched : SUBSET ResultToggles, filled : SUBSET ResultFields]
Rows == [flags : [Toggles -> BOOLEAN], picked : [Picks -> Choices],
         typed : [Fields -> TextKinds \cup {"default"}], store : SUBSET StoreFields,
         result : [Statuses -> ResultRow],
         ack : [Statuses -> AckRow], stage : [Stages -> StageRow], progress : [Emojis -> ProgressRow]]

Data == [field : Fields \cup StoreFields \cup ResultFields \cup {None},
         status : Statuses \cup {None}, stage : Stages \cup {None}]
NoData == [field |-> None, status |-> None, stage |-> None]
States == {None, "setting", "result", "ack", "stage", "progress"}

Of(ops, on, value) ==
    [op : ops, on : on, value : value, open : BOOLEAN,
     data : Data, seen : Rows]
Presses ==
    Of({"leave", "ask_progress"} \cup Toggles, {None}, {None}) \cup
    Of(Picks, {None}, Choices) \cup
    Of({"ask_setting"}, {None}, Fields) \cup Of({"ask_store"}, {None}, StoreFields) \cup
    Of({"ask_result"}, Statuses, ResultFields) \cup
    Of(ResultToggles \cup {"ack_toggle", "ask_ack"}, Statuses, {None}) \cup
    Of({"set_target", "set_policy"}, Statuses, Choices) \cup
    Of({"stage_toggle", "ask_stage"}, Stages, {None}) \cup
    Of({"p_toggle", "p_del"}, Emojis, {None}) \cup
    Of({"setting", "result"}, {None}, TextKinds) \cup
    Of({"ack", "stage", "progress"}, {None}, Emojis)

TypeOK ==
    /\ db \in Rows
    /\ \A f \in {"num_length", "backlog_age"} : db.typed[f] \in {"default", "digits"}
    /\ asked \in [state : States, data : Data]
    /\ tx \in [Tasks -> Presses \cup {NoTx}]
    /\ presses \in 0 .. MaxPresses

(* DEFAULTS and the rows the bootstrap makes; or the store connected and   *)
(* order numbers required since.                                           *)
Init ==
    /\ \E number \in BOOLEAN : LET store == IF number THEN StoreFields ELSE {} IN
         db = [flags |-> [f \in Toggles |-> IF f = "num_toggle" THEN number ELSE TRUE],
               picked |-> [p \in Picks |-> "first"], typed |-> [f \in Fields |-> "default"],
               store |-> store,
               result |-> [s \in Statuses |-> [switched |-> {}, filled |-> {}]],
               ack |-> [s \in Statuses |-> [enabled |-> FALSE, reaction |-> None,
                                            target |-> "first", policy |-> "first"]],
               stage |-> [s \in Stages |-> [enabled |-> FALSE, reaction |-> None]],
               progress |-> [e \in Emojis |-> "absent"]]
    /\ asked = [state |-> None, data |-> NoData]
    /\ tx = [t \in Tasks |-> NoTx]
    /\ presses = 0

------------------------------------------------------------------------------
(* Buttons and texts *)

PressSetting(t) ==
    \/ \E op \in {"leave", "notifications"} : Press(t, op, None, None)
    \/ \E f \in {"prefix", "format"} : Press(t, "ask_setting", None, f)
PressScope(t) == \E c \in Choices : Press(t, "set_scope", None, c)
PressNumber(t) ==
    \/ \E op \in {"num_toggle", "num_delete"} : Press(t, op, None, None)
    \/ \E f \in {"num_length", "num_message"} : Press(t, "ask_setting", None, f)
PressBacklog(t) ==
    \/ \E c \in Choices : Press(t, "backlog_mode", None, c)
    \/ Press(t, "ask_setting", None, "backlog_age")
PressMode(t) == \E c \in Choices : Press(t, "set_mode", None, c)
PressText(t) ==
    \/ \E s \in Statuses : Press(t, "text_toggle", s, None)
    \/ \E s \in Statuses : Press(t, "ask_result", s, "append_text")
PressWoo(t) ==
    \/ \E s \in Statuses, op \in {"woo_toggle", "woo_note_toggle"} : Press(t, op, s, None)
    \/ \E s \in Statuses, f \in {"woo_status", "woo_note"} : Press(t, "ask_result", s, f)
PressStore(t) == \E f \in StoreFields : Press(t, "ask_store", None, f)
PressAck(t) == \E s \in Statuses, op \in {"ack_toggle", "ask_ack"} : Press(t, op, s, None)
PressTarget(t) == \E s \in Statuses, c \in Choices : Press(t, "set_target", s, c)
PressPolicy(t) == \E s \in Statuses, c \in Choices : Press(t, "set_policy", s, c)
PressStage(t) == \E s \in Stages, op \in {"stage_toggle", "ask_stage"} : Press(t, op, s, None)
PressProgress(t) ==
    \/ Press(t, "ask_progress", None, None)
    \/ \E e \in Emojis, op \in {"p_toggle", "p_del"} : Press(t, op, e, None)
SendText(t) ==
    \/ \E text \in TextKinds, state \in {"setting", "result"} : Answer(t, state, text)
    \/ \E e \in Emojis, state \in {"ack", "stage", "progress"} : Answer(t, state, e)

------------------------------------------------------------------------------
(* Prompts *)

Asks(t, fields) ==
    /\ Handles(t, "ask_setting") /\ tx[t].value \in fields
    /\ Ask(t, "setting", [asked.data EXCEPT !.field = tx[t].value])
AskValue(t) == Asks(t, {"prefix", "format"})
AskNumber(t) == Asks(t, {"num_length", "num_message"})
AskAge(t) == Asks(t, {"backlog_age"})

AsksResult(t, fields) ==
    /\ Handles(t, "ask_result") /\ tx[t].value \in fields
    /\ Ask(t, "result", [asked.data EXCEPT !.field = tx[t].value, !.status = tx[t].on])
AskText(t) == AsksResult(t, {"append_text"})
AskWoo(t) == AsksResult(t, {"woo_status", "woo_note"})
AskStore(t) ==
    /\ Handles(t, "ask_store")
    /\ Ask(t, "result", [asked.data EXCEPT !.field = tx[t].value, !.status = None])

AskAck(t) == Handles(t, "ask_ack") /\ Ask(t, "ack", [asked.data EXCEPT !.status = tx[t].on])
AskStage(t) == Handles(t, "ask_stage") /\ Ask(t, "stage", [asked.data EXCEPT !.stage = tx[t].on])
AskProgress(t) == Handles(t, "ask_progress") /\ Ask(t, "progress", asked.data)
Leave(t) == Handles(t, "leave") /\ CommitAndClear(t, db, NoData)

------------------------------------------------------------------------------
(* Settings: values written whole, by an upsert *)

Flip(t, flag) ==
    Handles(t, flag) /\ Commit(t, [db EXCEPT !.flags[flag] = ~tx[t].seen.flags[flag]])
ToggleNotifications(t) == Flip(t, "notifications")
ToggleOrderNumber(t) == Flip(t, "num_toggle")
ToggleDeleteInvalid(t) == Flip(t, "num_delete")

Choose(t, setting) == Handles(t, setting) /\ Commit(t, [db EXCEPT !.picked[setting] = tx[t].value])
SetScope(t) == Choose(t, "set_scope")
SetBacklogMode(t) == Choose(t, "backlog_mode")
SetMode(t) == Choose(t, "set_mode")

(* Whatever is none of the other fields, and no FSM data, is the prefix. *)
Field(data) == IF data.field \in Fields THEN data.field ELSE "prefix"
ReceiveSetting(t) ==
    /\ Handles(t, "setting")
    /\ LET f == Field(tx[t].data)
       IN  IF Accepts(f, tx[t].value)
           THEN CommitAndClear(t, [db EXCEPT !.typed[f] = tx[t].value], NoData)
           ELSE Refuse(t)

------------------------------------------------------------------------------
(* Results: the appended text and the store *)

(* Of a url only slashes are left out: it is empty. *)
Stored(store, f, text) ==
    IF f = "store_url" /\ text = "slash" THEN store \ {f} ELSE store \cup {f}
ReceiveResult(t) ==
    /\ Handles(t, "result")
    /\ LET f == tx[t].data.field
           s == tx[t].data.status
       IN  CASE f \in StoreFields ->
                  CommitAndClear(t, [db EXCEPT !.store = Stored(@, f, tx[t].value)], NoData)
             [] f \notin StoreFields /\ s = None -> Refuse(t)
             [] OTHER -> CommitAndClear(t, [db EXCEPT
                  !.result[s].filled = IF f \in ResultFields THEN @ \cup {f} ELSE @], NoData)

(* What a switch that is off needs to be switched on.  The store needs an  *)
(* order number, to tell it which order, and its credentials.  Mutants:    *)
(* the number is not asked for; nothing is.                                *)
Connected(d) == d.flags["num_toggle"] /\ d.store = StoreFields
ReadyUnnumbered(seen, s, op) ==
    /\ op = "text_toggle" => "append_text" \in seen.result[s].filled
    /\ op = "woo_toggle" => seen.store = StoreFields
ReadyAlways(seen, s, op) == TRUE
Ready(seen, s, op) ==
    /\ op = "text_toggle" => "append_text" \in seen.result[s].filled
    /\ op = "woo_toggle" => Connected(seen)
Switch(t, op) ==
    /\ Handles(t, op)
    /\ LET s == tx[t].on
           seen == tx[t].seen
       IN  Commit(t, CASE op \in seen.result[s].switched -> [db EXCEPT !.result[s].switched = @ \ {op}]
                       [] op \notin seen.result[s].switched /\ ~Ready(seen, s, op) -> db
                       [] OTHER -> [db EXCEPT !.result[s].switched = @ \cup {op}])
ToggleText(t) == Switch(t, "text_toggle")
ToggleWoo(t) == Switch(t, "woo_toggle")
ToggleWooNote(t) == Switch(t, "woo_note_toggle")

------------------------------------------------------------------------------
(* Reactions *)

(* A reaction is switched on when it is set. *)
Switched(now, seen) ==
    IF ~seen.enabled /\ seen.reaction = None THEN now ELSE [now EXCEPT !.enabled = ~seen.enabled]
ToggleAck(t) ==
    /\ Handles(t, "ack_toggle")
    /\ Commit(t, [db EXCEPT !.ack[tx[t].on] = Switched(@, tx[t].seen.ack[tx[t].on])])
ToggleStage(t) ==
    /\ Handles(t, "stage_toggle")
    /\ Commit(t, [db EXCEPT !.stage[tx[t].on] = Switched(@, tx[t].seen.stage[tx[t].on])])

(* Written when it is not what the handler read. *)
Set(now, seen, value) == IF seen = value THEN now ELSE value
SetTarget(t) ==
    /\ Handles(t, "set_target")
    /\ LET s == tx[t].on
       IN  Commit(t, [db EXCEPT !.ack[s].target = Set(@, tx[t].seen.ack[s].target, tx[t].value)])
SetPolicy(t) ==
    /\ Handles(t, "set_policy")
    /\ LET s == tx[t].on
       IN  Commit(t, [db EXCEPT !.ack[s].policy = Set(@, tx[t].seen.ack[s].policy, tx[t].value)])

ReceiveReaction(t) ==
    /\ Handles(t, "ack")
    /\ LET s == tx[t].data.status
       IN  IF s = None THEN Refuse(t)
           ELSE CommitAndClear(t, [db EXCEPT !.ack[s].reaction =
                   Set(@, tx[t].seen.ack[s].reaction, tx[t].value)], NoData)
ReceiveEmoji(t) ==
    /\ Handles(t, "stage")
    /\ LET s == tx[t].data.stage
       IN  IF s = None THEN Refuse(t)
           ELSE CommitAndClear(t, [db EXCEPT !.stage[s].reaction =
                   Set(@, tx[t].seen.stage[s].reaction, tx[t].value)], NoData)

(* Reactions of operators that mean an order is in progress. *)
ReceiveProgress(t) ==
    Handles(t, "progress") /\ CommitAndClear(t, [db EXCEPT !.progress[tx[t].value] = "on"], NoData)
ToggleProgress(t) ==
    /\ Handles(t, "p_toggle")
    /\ LET e == tx[t].on IN
       IF "absent" \in {tx[t].seen.progress[e], db.progress[e]} THEN Refuse(t)
       ELSE Commit(t, [db EXCEPT !.progress[e] = IF tx[t].seen.progress[e] = "on" THEN "off" ELSE "on"])
DeleteProgress(t) ==
    /\ Handles(t, "p_del")
    /\ LET e == tx[t].on IN
       Commit(t, IF tx[t].seen.progress[e] = "absent" THEN db
                 ELSE [db EXCEPT !.progress[e] = "absent"])

Next == \E t \in Tasks :
    \/ PressSetting(t) \/ PressScope(t) \/ PressNumber(t) \/ PressBacklog(t)
    \/ PressMode(t) \/ PressText(t) \/ PressWoo(t) \/ PressStore(t)
    \/ PressAck(t) \/ PressTarget(t) \/ PressPolicy(t) \/ PressStage(t)
    \/ PressProgress(t) \/ SendText(t) \/ Open(t)
    \/ AskValue(t) \/ AskNumber(t) \/ AskAge(t) \/ AskText(t) \/ AskWoo(t) \/ AskStore(t)
    \/ AskAck(t) \/ AskStage(t) \/ AskProgress(t) \/ Leave(t)
    \/ ToggleNotifications(t) \/ ToggleOrderNumber(t) \/ ToggleDeleteInvalid(t)
    \/ SetScope(t) \/ SetBacklogMode(t) \/ SetMode(t) \/ ReceiveSetting(t)
    \/ ReceiveResult(t) \/ ToggleText(t) \/ ToggleWoo(t) \/ ToggleWooNote(t)
    \/ ToggleAck(t) \/ ToggleStage(t) \/ SetTarget(t) \/ SetPolicy(t)
    \/ ReceiveReaction(t) \/ ReceiveEmoji(t)
    \/ ReceiveProgress(t) \/ ToggleProgress(t) \/ DeleteProgress(t)

Spec == Init /\ [][Next]_panel

------------------------------------------------------------------------------
(* What is switched on has what it sends: a reaction of the                *)
(* acknowledgement or of a stage, an appended text.  A button checks it in *)
(* rows another handler may be writing.                                    *)
EnabledIsComplete ==
    /\ \A s \in Statuses : db.ack[s].enabled => db.ack[s].reaction # None
    /\ \A s \in Stages : db.stage[s].enabled => db.stage[s].reaction # None
    /\ \A s \in Statuses : "text_toggle" \in db.result[s].switched => "append_text" \in db.result[s].filled

(* The store update is switched on with order numbers required and the     *)
(* store connected (result_content.py:141-142: "the dependency is enforced *)
(* here"), unless one of these is taken away between the read and the      *)
(* commit.  Nothing keeps them while it is on.                             *)
SwitchesOnReady ==
    (\E s \in Statuses : "woo_toggle" \in db'.result[s].switched \ db.result[s].switched /\ ~Connected(db'))
    => OnlyByRace
===============================================================================
