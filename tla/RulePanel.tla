------------------------------- MODULE RulePanel -------------------------------
(***************************************************************************)
(* The rules screens: handlers/admin/rules.py over repositories/rules.py.  *)
(* db holds, per status, whether its rule is enabled, its mode, the        *)
(* signals that count, its text patterns and its reactions.                *)
(***************************************************************************)
EXTENDS PanelTasks

CONSTANTS
    Statuses,       \* SUCCESS and FAILED
    SignalKeys,     \* what an operator's answer may carry
    Patterns,       \* rows of rule_text_patterns
    Emojis,         \* reactions a rule may look for
    Texts,          \* patterns an administrator may type
    BadTexts        \* those that are no regular expression

Modes == {"ALL", "ANY"}
RowState == {"absent", "on", "off"}
MatchModes == {"EXACT", "CONTAINS", "REGEX"}
NoPattern == [state |-> "absent"]
PatternRows == {NoPattern} \cup
    [state : {"on", "off"}, status : Statuses, text : Texts, match : MatchModes]
SignalRows == SUBSET SignalKeys         \* those enabled
ReactionRows == [Statuses \X Emojis -> RowState]

Rows == [enabled : [Statuses -> BOOLEAN], mode : [Statuses -> Modes],
         signals : [Statuses -> SignalRows],
         patterns : [Patterns -> PatternRows],
         reactions : ReactionRows]

Data == [status : Statuses \cup {None}, pattern : Texts \cup {None}]
NoData == [status |-> None, pattern |-> None]
States == {None, "pattern", "mode", "emoji"}

(* A press while its handler has not ended. *)
Of(ops, on, value) ==
    [op : ops, on : on, value : value, open : BOOLEAN,
     data : Data, seen : Rows]
Presses ==
    Of({"rule", "mode", "text_add", "reaction_add"}, Statuses, {None}) \cup
    Of({"signal"}, Statuses, SignalKeys) \cup
    Of({"text_mode"}, Statuses, MatchModes) \cup
    Of({"text_toggle", "text_del"}, Patterns, {None}) \cup
    Of({"reaction_toggle", "reaction_del"}, Statuses \X Emojis, {None}) \cup
    Of({"pattern"}, {None}, Texts) \cup
    Of({"emoji"}, {None}, Emojis) \cup
    Of({"leave"}, {None}, {None})

TypeOK ==
    /\ db \in Rows
    /\ asked \in [state : States, data : Data]
    /\ tx \in [Tasks -> Presses \cup {NoTx}]
    /\ presses \in 0 .. MaxPresses

(* bootstrap: get_rule makes the row and _ensure_signal_rows its signals,  *)
(* all off.                                                                *)
Init ==
    /\ db = [enabled |-> [s \in Statuses |-> TRUE],
             mode |-> [s \in Statuses |-> "ANY"],
             signals |-> [s \in Statuses |-> {}],
             patterns |-> [p \in Patterns |-> NoPattern],
             reactions |-> [r \in Statuses \X Emojis |-> "absent"]]
    /\ asked = [state |-> None, data |-> NoData]
    /\ tx = [t \in Tasks |-> NoTx]
    /\ presses = 0

Flip(state) == IF state = "on" THEN "off" ELSE "on"

------------------------------------------------------------------------------
(* Buttons of the screens, and texts *)

PressRule(t) ==
    \/ \E op \in {"rule", "mode"}, s \in Statuses : Press(t, op, s, None)
    \/ \E s \in Statuses, k \in SignalKeys : Press(t, "signal", s, k)
    \/ Press(t, "leave", None, None)
PressPattern(t) ==
    \/ \E s \in Statuses : Press(t, "text_add", s, None)
    \/ \E text \in Texts : Answer(t, "pattern", text)
    \/ \E op \in {"text_toggle", "text_del"}, p \in Patterns : Press(t, op, p, None)
PressMatch(t) ==
    \E s \in Statuses, match \in MatchModes : Press(t, "text_mode", s, match)
PressReaction(t) ==
    \/ \E s \in Statuses : Press(t, "reaction_add", s, None)
    \/ \E e \in Emojis : Answer(t, "emoji", e)
    \/ \E op \in {"reaction_toggle", "reaction_del"}, r \in Statuses \X Emojis :
          Press(t, op, r, None)

------------------------------------------------------------------------------
(* Handlers *)

ToggleRule(t) ==
    /\ Handles(t, "rule")
    /\ LET s == tx[t].on
       IN  Commit(t, [db EXCEPT !.enabled[s] = ~tx[t].seen.enabled[s]])

(* ALL with no signal can never match.  Mutant: not looked at. *)
NewModeUnchecked(seen, s) == IF seen.mode[s] = "ANY" THEN "ALL" ELSE "ANY"
NewMode(seen, s) ==
    IF seen.mode[s] = "ANY" /\ seen.signals[s] # {} THEN "ALL" ELSE "ANY"
ToggleMode(t) ==
    /\ Handles(t, "mode")
    /\ LET s == tx[t].on IN
       Commit(t, IF NewMode(tx[t].seen, s) = tx[t].seen.mode[s] THEN db
                 ELSE [db EXCEPT !.mode[s] = NewMode(tx[t].seen, s)])

(* The last signal of an ALL rule stays on. *)
LastOfAll(seen, s, k) == seen.mode[s] = "ALL" /\ seen.signals[s] = {k}
Toggled(keys, on, k) == IF on THEN keys \ {k} ELSE keys \cup {k}
ToggleSignal(t) ==
    /\ Handles(t, "signal")
    /\ LET s == tx[t].on
           k == tx[t].value
           seen == tx[t].seen
       IN  Commit(t, IF LastOfAll(seen, s, k) THEN db
                     ELSE [db EXCEPT !.signals[s] = Toggled(@, k \in seen.signals[s], k)])

PromptText(t) ==
    Handles(t, "text_add") /\ Ask(t, "pattern", [asked.data EXCEPT !.status = tx[t].on])
PromptReaction(t) ==
    Handles(t, "reaction_add") /\ Ask(t, "emoji", [asked.data EXCEPT !.status = tx[t].on])

(* Opening a list forgets the prompt. *)
Leave(t) == Handles(t, "leave") /\ CommitAndClear(t, db, NoData)

ReceivePattern(t) ==
    /\ Handles(t, "pattern")
    /\ Ask(t, "mode", [asked.data EXCEPT !.pattern = tx[t].value])

NewPattern(s, text, match) ==
    [state |-> "on", status |-> s, text |-> text, match |-> match]
Invalid(text, match) == match = "REGEX" /\ text \in BadTexts

(* save_pattern: the text is that of the FSM, the status that of the       *)
(* button; only a regular expression is checked.                           *)
SavePattern(t) ==
    /\ Handles(t, "text_mode")
    /\ LET text == tx[t].data.pattern
           match == tx[t].value
       IN  IF text = None \/ Invalid(text, match) THEN Refuse(t)
           ELSE \E p \in Patterns :
                   /\ db.patterns[p] = NoPattern
                   /\ CommitAndClear(t, [db EXCEPT !.patterns[p] =
                                              NewPattern(tx[t].on, text, match)], NoData)

(* The row may be gone when the handler commits: the update then fails. *)
TogglePattern(t) ==
    /\ Handles(t, "text_toggle")
    /\ LET p == tx[t].on IN
       IF NoPattern \in {tx[t].seen.patterns[p], db.patterns[p]} THEN Refuse(t)
       ELSE Commit(t, [db EXCEPT !.patterns[p].state = Flip(tx[t].seen.patterns[p].state)])

DeletePattern(t) ==
    /\ Handles(t, "text_del")
    /\ LET p == tx[t].on IN
       Commit(t, IF tx[t].seen.patterns[p] = NoPattern THEN db
                 ELSE [db EXCEPT !.patterns[p] = NoPattern])

(* ON CONFLICT DO UPDATE: a reaction added again is enabled.  Without FSM   *)
(* data the handler fails.                                                 *)
ReceiveReaction(t) ==
    /\ Handles(t, "emoji")
    /\ LET s == tx[t].data.status
       IN  IF s = None THEN Refuse(t)
           ELSE CommitAndClear(t, [db EXCEPT !.reactions[<<s, tx[t].value>>] = "on"], NoData)

ToggleReaction(t) ==
    /\ Handles(t, "reaction_toggle")
    /\ LET r == tx[t].on IN
       IF "absent" \in {tx[t].seen.reactions[r], db.reactions[r]} THEN Refuse(t)
       ELSE Commit(t, [db EXCEPT !.reactions[r] = Flip(tx[t].seen.reactions[r])])

DeleteReaction(t) ==
    /\ Handles(t, "reaction_del")
    /\ LET r == tx[t].on IN
       Commit(t, IF tx[t].seen.reactions[r] = "absent" THEN db
                 ELSE [db EXCEPT !.reactions[r] = "absent"])

Next == \E t \in Tasks :
    \/ PressRule(t) \/ PressPattern(t) \/ PressMatch(t) \/ PressReaction(t) \/ Open(t)
    \/ ToggleRule(t) \/ ToggleMode(t) \/ ToggleSignal(t)
    \/ PromptText(t) \/ PromptReaction(t) \/ Leave(t) \/ ReceivePattern(t) \/ SavePattern(t)
    \/ TogglePattern(t) \/ DeletePattern(t)
    \/ ReceiveReaction(t) \/ ToggleReaction(t) \/ DeleteReaction(t)

Spec == Init /\ [][Next]_panel

------------------------------------------------------------------------------
(* A rule that is ALL with no signal matches nothing, and the engine says  *)
(* nothing of it (rules/engine.py, evaluate_rule).                         *)
CanMatch(s) == db.mode[s] = "ALL" => db.signals[s] # {}

(* No handler takes the last signal from an ALL rule, whatever screen its  *)
(* button was on, unless another handler commits between its read and its  *)
(* commit: one switches to ALL while another switches the signal off.      *)
StarvesByRace ==
    (\E s \in Statuses : CanMatch(s) /\ ~CanMatch(s)') => OnlyByRace
===============================================================================
