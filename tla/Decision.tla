------------------------------- MODULE Decision --------------------------------
(***************************************************************************)
(* From what people do to the order message of a work group to the status  *)
(* of the order: the work group handlers (bot/handlers/operators.py), the  *)
(* extractor and rule engine (app/rules), SignalService and the locked     *)
(* decision of OrderFinalizer.  One order, one work group; ResultPipeline  *)
(* goes on from the status decided here.                                   *)
(*                                                                         *)
(* aiogram runs every update in a task of its own, so the steps of two     *)
(* updates interleave in any order.  SignalService reads the order's       *)
(* status without locking it and writes in a later statement of the same   *)
(* transaction, two steps here; the decision locks the order, one step.    *)
(***************************************************************************)
EXTENDS Naturals, FiniteSets

CONSTANTS
    Workers,        \* tasks that may run at the same time
    Members,        \* members of the work group
    Operators,      \* those authorized in it
    ReplyKeys,      \* signal keys a reply may carry (SignalKey but REACTION)
    Replies,        \* replies people write, each the signals it would give
    Emojis,         \* reactions people put, one at a time
    Accepted,       \* outcome |-> emojis that are its detection reactions
    Enabled,        \* outcome |-> enabled signal keys, {} when the rule is off
    Mode,           \* outcome |-> "ANY" or "ALL"
    MaxOverrides,   \* bound: overrides by administrators
    MaxCrashes      \* bound: crashes

Final == {"SUCCESS", "FAILED"}
OrderStatus == Final \cup {"PENDING", "CONFLICT"}
Keys == ReplyKeys \cup {"REACTION"}
Signals == Final \X Keys
NoEmoji == "none"
Nobody == "nobody"

ASSUME DecisionAssumption ==
    /\ Operators \subseteq Members /\ Nobody \notin Members
    /\ Replies \subseteq SUBSET (Final \X ReplyKeys)
    /\ NoEmoji \notin Emojis
    /\ Accepted \in [Final -> SUBSET Emojis]
    /\ Enabled \in [Final -> SUBSET Keys]
    /\ Mode \in [Final -> {"ANY", "ALL"}]
    /\ MaxOverrides \in Nat /\ MaxCrashes \in Nat

VARIABLES
    status,     \* status of the order
    signal,     \* signal |-> actor of its active row, or Nobody
    shown,      \* member |-> reaction it shows on the order message
    job,        \* worker |-> what its task holds in memory
    overrides, crashes

vars == <<status, signal, shown, job, overrides, crashes>>
bounds == <<overrides, crashes>>

Steps == {"idle", "check", "record", "decide", "deactivate"}
Jobs == [pc : Steps, by : Members \cup {Nobody}, gives : SUBSET Signals,
         takes : SUBSET Signals]
Idle == [pc |-> "idle", by |-> Nobody, gives |-> {}, takes |-> {}]

TypeOK ==
    /\ status \in OrderStatus
    /\ signal \in [Signals -> Members \cup {Nobody}]
    /\ shown \in [Members -> Emojis \cup {NoEmoji}]
    /\ job \in [Workers -> Jobs]
    /\ overrides \in 0 .. MaxOverrides /\ crashes \in 0 .. MaxCrashes

Init ==
    /\ status = "PENDING"
    /\ signal = [s \in Signals |-> Nobody]
    /\ shown = [m \in Members |-> NoEmoji]
    /\ job = [w \in Workers |-> Idle]
    /\ overrides = 0 /\ crashes = 0

At(w, step) == job[w].pc = step
Goto(w, step) == job' = [job EXCEPT ![w].pc = step]
Finish(w) == job' = [job EXCEPT ![w] = Idle]

------------------------------------------------------------------------------
(* The rule engine *)

Active == {s \in Signals : signal[s] # Nobody}

(* evaluate_rule: a rule without enabled signals never matches. *)
Matched(outcome, active) ==
    LET required == {outcome} \X Enabled[outcome] IN
    /\ required # {}
    /\ IF Mode[outcome] = "ANY" THEN required \cap active # {}
                                ELSE required \subseteq active

(* decide.  Mutant: an order with some of its signals is "in progress". *)
DecisionWithProgress(active) ==
    CASE Matched("SUCCESS", active) /\ Matched("FAILED", active) -> "CONFLICT"
      [] Matched("SUCCESS", active) /\ ~Matched("FAILED", active) -> "SUCCESS"
      [] ~Matched("SUCCESS", active) /\ Matched("FAILED", active) -> "FAILED"
      [] OTHER -> IF active = {} THEN "PENDING" ELSE "IN_PROGRESS"
Decision(active) ==
    CASE Matched("SUCCESS", active) /\ Matched("FAILED", active) -> "CONFLICT"
      [] Matched("SUCCESS", active) /\ ~Matched("FAILED", active) -> "SUCCESS"
      [] ~Matched("SUCCESS", active) /\ Matched("FAILED", active) -> "FAILED"
      [] OTHER -> "PENDING"

------------------------------------------------------------------------------
(* What people do *)

(* The handler runs on, unless the update gives and takes nothing. *)
Handle(w, m, gives, takes) ==
    IF gives \cup takes = {} THEN UNCHANGED job
    ELSE job' = [job EXCEPT ![w] =
                    [pc |-> "check", by |-> m, gives |-> gives, takes |-> takes]]

EnabledSignals == {s \in Signals : s[2] \in Enabled[s[1]]}

(* is_authorized_in_chat: what an update gives when m is its author. *)
(* Mutant: the author is not looked at.                              *)
FromAnybody(m, signals) == signals \cap EnabledSignals
FromOperator(m, signals) ==
    IF m \in Operators THEN signals \cap EnabledSignals ELSE {}

(* handle_work_group_reply, extract_from_reply *)
Reply(w) ==
    /\ At(w, "idle")
    /\ \E m \in Members, reply \in Replies :
          Handle(w, m, FromOperator(m, reply), {})
    /\ UNCHANGED <<status, signal, shown, bounds>>

ReactionSignals(emoji) ==
    {<<s, "REACTION">> : s \in {o \in Final : emoji \in Accepted[o]}}

(* handle_message_reaction: the signals of the reactions now shown, or     *)
(* else those of the ones taken back.                                      *)
React(w) ==
    /\ At(w, "idle")
    /\ \E m \in Members, emoji \in Emojis \cup {NoEmoji} :
         LET gives == FromOperator(m, ReactionSignals(emoji)) IN
         /\ emoji # shown[m]
         /\ shown' = [shown EXCEPT ![m] = emoji]
         /\ Handle(w, m, gives, IF gives = {} THEN ReactionSignals(shown[m]) ELSE {})
    /\ UNCHANGED <<status, signal, bounds>>

------------------------------------------------------------------------------
(* SignalService and the decision *)

(* apply and deactivate: nothing is done to a final order. *)
CheckOpen(w) ==
    /\ At(w, "check")
    /\ IF status \in Final THEN Finish(w)
       ELSE Goto(w, IF job[w].gives # {} THEN "record" ELSE "deactivate")
    /\ UNCHANGED <<status, signal, shown, bounds>>

(* record_signal for each: an active row keeps its actor. *)
Record(w) ==
    /\ At(w, "record")
    /\ signal' = [s \in Signals |->
          IF s \in job[w].gives /\ signal[s] = Nobody THEN job[w].by ELSE signal[s]]
    /\ Goto(w, "decide")
    /\ UNCHANGED <<status, shown, bounds>>

Deactivate(w) ==
    /\ At(w, "deactivate")
    /\ signal' = [s \in Signals |-> IF s \in job[w].takes THEN Nobody ELSE signal[s]]
    /\ Finish(w)
    /\ UNCHANGED <<status, shown, bounds>>

(* Statuses a rule may change.  Mutant: CONFLICT is one of them. *)
OpenInConflict == {"PENDING", "CONFLICT"}
OpenToDecision == {"PENDING"}

(* _decide_and_persist, under the lock of the order.  Mutant: the rules    *)
(* are applied to the signals of this update.                              *)
DecideOnUpdate(w) ==
    LET decision == Decision(job[w].gives) IN
    /\ At(w, "decide")
    /\ status' = IF status \in OpenToDecision /\ decision # "PENDING"
                 THEN decision ELSE status
    /\ Finish(w)
    /\ UNCHANGED <<signal, shown, bounds>>
Decide(w) ==
    LET decision == Decision(Active) IN
    /\ At(w, "decide")
    /\ status' = IF status \in OpenToDecision /\ decision # "PENDING"
                 THEN decision ELSE status
    /\ Finish(w)
    /\ UNCHANGED <<signal, shown, bounds>>

(* manual_override; the signals stay as they are. *)
Override ==
    /\ overrides < MaxOverrides /\ overrides' = overrides + 1
    /\ status' \in Final \cup {"PENDING"}
    /\ UNCHANGED <<signal, shown, job, crashes>>

(* Every task is gone; the update ledger keeps their updates from being    *)
(* handled again, and recover does not look at orders without a decision.  *)
Crash ==
    /\ crashes < MaxCrashes /\ crashes' = crashes + 1
    /\ job' = [w \in Workers |-> Idle]
    /\ UNCHANGED <<status, signal, shown, overrides>>

Task(w) == CheckOpen(w) \/ Record(w) \/ Deactivate(w) \/ Decide(w)

Next ==
    \/ \E w \in Workers : Reply(w) \/ React(w) \/ Task(w)
    \/ Override \/ Crash

Spec == Init /\ [][Next]_vars

------------------------------------------------------------------------------
(* Properties *)

Quiet == \A w \in Workers : At(w, "idle")

(* Whichever task records last, a rule the stored signals satisfy has been *)
(* applied once no update is being handled (apply evaluates after its own  *)
(* commit, _decide_and_persist reads under the lock), unless a crash came  *)
(* between the two or an administrator re-opened the order.                *)
NoMatchIsMissed ==
    Quiet /\ status = "PENDING" /\ overrides = 0 /\ crashes = 0
        => Decision(Active) = "PENDING"

(* SUCCESS, FAILED and CONFLICT are left by an administrator only, however *)
(* tasks race ("nothing is dispatched until an admin rules").              *)
OnlyAdminsReverse ==
    [][status # "PENDING" => status' = status \/ overrides' = overrides + 1]_vars

(* "Only an authorized operator can produce a signal": the actor stored    *)
(* with every active row is one.                                           *)
OnlyOperatorsSignal == \A s \in Active : signal[s] \in Operators

(* A pending order loses the signal of a reaction no operator shows any    *)
(* more (SignalService.deactivate).                                        *)
TakenBackIsInactive ==
    Quiet /\ status = "PENDING" /\ crashes = 0 =>
        \A s \in Active : s[2] = "REACTION" =>
            \E m \in Operators : shown[m] \in Accepted[s[1]]

===============================================================================
