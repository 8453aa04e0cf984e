------------------------------ MODULE PanelTasks -------------------------------
(***************************************************************************)
(* A handler of the administration panel: a task of its own that runs when *)
(* the filters have let its button or text through, reads rows (and, for a *)
(* text, the FSM data), decides from what it read and commits the columns  *)
(* it changes, all in one READ COMMITTED transaction (session_scope).      *)
(* Other handlers commit in between, and a button may be pressed long      *)
(* after the screen it is on was true.                                     *)
(*                                                                         *)
(* The modules of the panel define db, the rows they work on, and one      *)
(* action per handler.  The reads of a handler are one read; what it makes *)
(* of the FSM state it does with its commit; a row deleted and added again *)
(* under the same key within one handler is taken for the same row.        *)
(***************************************************************************)
EXTENDS Naturals, FiniteSets

CONSTANTS
    Tasks,          \* handlers that run at a time
    MaxPresses      \* bound: buttons pressed and texts sent

ASSUME PanelAssumption == MaxPresses \in Nat

VARIABLES
    db,             \* rows of the panel's part of the database
    asked,          \* FSM of the administrator: the text waited for, and its data
    tx,             \* task |-> what it handles
    presses

panel == <<db, asked, tx, presses>>

None == "none"
NoTx == [op |-> None]

(* An operation on something, with the value that comes with it, once the  *)
(* filters have let it through.                                            *)
Press(t, op, on, value) ==
    /\ tx[t] = NoTx
    /\ presses < MaxPresses /\ presses' = presses + 1
    /\ tx' = [tx EXCEPT ![t] = [op |-> op, on |-> on, value |-> value, open |-> FALSE,
                                data |-> asked.data, seen |-> db]]
    /\ UNCHANGED <<db, asked>>

(* A text goes to the handler of the state the FSM is in when it arrives. *)
Answer(t, state, value) == asked.state = state /\ Press(t, state, None, value)

(* The handler starts: it reads the rows and the FSM data for itself. *)
Open(t) ==
    /\ tx[t] # NoTx /\ ~tx[t].open
    /\ tx' = [tx EXCEPT ![t].open = TRUE, ![t].data = asked.data, ![t].seen = db]
    /\ UNCHANGED <<db, asked, presses>>

Handles(t, op) == tx[t].op = op /\ tx[t].open

End(t) == tx' = [tx EXCEPT ![t] = NoTx] /\ UNCHANGED presses
Commit(t, new) == db' = new /\ End(t) /\ UNCHANGED asked

(* The handler answers with an alert, or fails, and changes nothing. *)
Refuse(t) == Commit(t, db)

(* A prompt: set_state and update_data. *)
Ask(t, state, data) ==
    /\ asked' = [state |-> state, data |-> data]
    /\ End(t) /\ UNCHANGED db

(* state.clear() once the text is handled. *)
CommitAndClear(t, new, nothing) ==
    /\ db' = new /\ End(t)
    /\ asked' = [state |-> None, data |-> nothing]

(* Nothing was committed between the read of a handler and its commit. *)
Current(t) == tx[t].seen = db
Commits(t) == tx[t] # NoTx /\ tx[t].open /\ tx'[t] = NoTx
OnlyByRace == \E t \in Tasks : Commits(t) /\ ~Current(t)
===============================================================================
