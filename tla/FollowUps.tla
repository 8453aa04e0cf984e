------------------------------- MODULE FollowUps -------------------------------
(***************************************************************************)
(* What follows the status of an order outside the work group: the update  *)
(* of the store (dispatch/store.py over woocommerce_calls) and the         *)
(* reaction on the source message (services/source_reactions.py), at the   *)
(* end of OrderFinalizer.run_pipeline and manual_override.  One order; the *)
(* dispatch and acknowledgement before them are ResultPipeline.            *)
(*                                                                         *)
(* A task reads the status or the stage in one transaction, calls the      *)
(* store or Telegram with none open, and writes in another.                *)
(***************************************************************************)
EXTENDS Naturals, FiniteSets

CONSTANTS
    Workers,        \* tasks that may run at the same time
    StoreOn,        \* outcomes whose store update is enabled
    NoteOn,         \* those that add a note to the store's order
    Reacts,         \* stages with a reaction configured and enabled
    FaultSets,      \* sets of KnownFaults that may go wrong together
    NoteCap,        \* bound: notes are counted up to here
    MaxOverrides,   \* bound: overrides by administrators
    MaxCrashes,     \* bound: crashes
    MaxEdits        \* bound: changes of the store's credentials

Final == {"SUCCESS", "FAILED"}
OrderStatus == Final \cup {"PENDING"}
Stages == Final \cup {"RECEIVED", "IN_PROGRESS"}
Nothing == "nothing"
KnownFaults == {"status_refused", "status_lost", "note_refused", "note_lost",
                "reaction_refused", "reaction_lost"}

ASSUME FollowUpsAssumption ==
    /\ StoreOn \subseteq Final /\ NoteOn \subseteq Final /\ Reacts \subseteq Stages
    /\ FaultSets \subseteq SUBSET KnownFaults
    /\ NoteCap \in Nat \ {0}
    /\ MaxOverrides \in Nat /\ MaxCrashes \in Nat /\ MaxEdits \in Nat

(* _STAGE_ORDER *)
Rank == [s \in Stages \cup {Nothing} |->
    CASE s = Nothing -> 0 [] s = "RECEIVED" -> 1 [] s = "IN_PROGRESS" -> 2
      [] s \in Final -> 3]

VARIABLES
    faults,     \* what may go wrong with the calls of this behaviour
    status,     \* status of the order
    call,       \* its row of woocommerce_calls
    configured, \* the store's credentials are complete
    store,      \* outcome the store was last told, as the store sees it
    notes,      \* notes the store shows
    stage,      \* source_reaction_stage of the order
    shown,      \* stage the source message shows
    job,        \* worker |-> what its task holds in memory
    overrides, crashes, edits

shop == <<call, store, notes>>
source == <<stage, shown>>
bounds == <<overrides, crashes, edits>>
vars == <<faults, status, configured, shop, source, job, bounds>>

CallState == {"PENDING", "SENDING", "SENT", "FAILED"}
NoCall == [state |-> Nothing, outcome |-> Nothing]
Calls == [state : CallState, outcome : StoreOn] \cup {NoCall}

Steps == {"idle", "run", "prepare", "read", "unconfigured", "claim", "status",
          "note", "sent", "failed", "stage", "react", "write"}
Jobs == [pc : Steps, goal : Stages \cup {Nothing}]
Idle == [pc |-> "idle", goal |-> Nothing]

TypeOK ==
    /\ faults \in FaultSets
    /\ status \in OrderStatus
    /\ call \in Calls
    /\ configured \in BOOLEAN
    /\ store \in StoreOn \cup {Nothing}
    /\ notes \in 0 .. NoteCap
    /\ stage \in Reacts \cup {Nothing} /\ shown \in Reacts \cup {Nothing}
    /\ job \in [Workers -> Jobs]
    /\ overrides \in 0 .. MaxOverrides /\ crashes \in 0 .. MaxCrashes
    /\ edits \in 0 .. MaxEdits

Init ==
    /\ faults \in FaultSets
    /\ status = "PENDING"
    /\ call = NoCall
    /\ configured = TRUE
    /\ store = Nothing /\ notes = 0
    /\ stage = Nothing /\ shown = Nothing
    /\ job = [w \in Workers |-> Idle]
    /\ overrides = 0 /\ crashes = 0 /\ edits = 0

At(w, step) == job[w].pc = step
Goto(w, step) == job' = [job EXCEPT ![w].pc = step]
Begin(w, step, goal) == job' = [job EXCEPT ![w] = [pc |-> step, goal |-> goal]]
Finish(w) == job' = [job EXCEPT ![w] = Idle]

------------------------------------------------------------------------------
(* What starts a task *)

(* _deliver: the order arrived in a work group. *)
Deliver(w) ==
    /\ At(w, "idle")
    /\ Begin(w, "stage", "RECEIVED")
    /\ UNCHANGED <<faults, status, configured, shop, source, bounds>>

(* mark_in_progress: an operator took the order up. *)
PickUp(w) ==
    /\ At(w, "idle") /\ status \notin Final
    /\ Begin(w, "stage", "IN_PROGRESS")
    /\ UNCHANGED <<faults, status, configured, shop, source, bounds>>

(* evaluate_and_finalize: the decision, committed before the pipeline.     *)
(* Mutant: a final order is decided again.                                 *)
DecideAgain(w) ==
    /\ At(w, "idle")
    /\ status' \in Final
    /\ Goto(w, "run")
    /\ UNCHANGED <<faults, configured, shop, source, bounds>>
Decide(w) ==
    /\ At(w, "idle") /\ status = "PENDING"
    /\ status' \in Final
    /\ Goto(w, "run")
    /\ UNCHANGED <<faults, configured, shop, source, bounds>>

(* A duplicate signal, the panel's retry or startup recovery. *)
RunAgain(w) ==
    /\ At(w, "idle")
    /\ Goto(w, "run")
    /\ UNCHANGED <<faults, status, configured, shop, source, bounds>>

(* run_pipeline acts on the status it reads here. *)
RunPipeline(w) ==
    /\ At(w, "run")
    /\ IF status \in Final THEN Begin(w, "prepare", status) ELSE Finish(w)
    /\ UNCHANGED <<faults, status, configured, shop, source, bounds>>

(* manual_override: the store only when results are dispatched too. *)
Override(w) ==
    /\ At(w, "idle") /\ overrides < MaxOverrides
    /\ overrides' = overrides + 1
    /\ status' \in OrderStatus
    /\ IF status' = "PENDING" THEN UNCHANGED job
       ELSE \E step \in {"prepare", "stage"} : Begin(w, step, status')
    /\ UNCHANGED <<faults, configured, shop, source, crashes, edits>>

------------------------------------------------------------------------------
(* StoreDispatchService *)

(* ensure_call: ON CONFLICT DO NOTHING.  Mutant: DO UPDATE. *)
EnsureNewCall(outcome) == [state |-> "PENDING", outcome |-> outcome]
EnsureCall(outcome) ==
    IF call = NoCall THEN [state |-> "PENDING", outcome |-> outcome] ELSE call

(* prepare, and run_pipeline goes on with process.  Mutant: it does not. *)
PrepareOnly(w) ==
    /\ At(w, "prepare")
    /\ call' = IF job[w].goal \in StoreOn THEN EnsureCall(job[w].goal) ELSE call
    /\ Goto(w, "stage")
    /\ UNCHANGED <<faults, status, configured, store, notes, source, bounds>>
PrepareCall(w) ==
    /\ At(w, "prepare")
    /\ IF job[w].goal \in StoreOn
       THEN call' = EnsureCall(job[w].goal) /\ Goto(w, "read")
       ELSE UNCHANGED call /\ Goto(w, "stage")
    /\ UNCHANGED <<faults, status, configured, store, notes, source, bounds>>

(* process, up to its claim *)
ReadCall(w) ==
    /\ At(w, "read")
    /\ Goto(w, IF configured THEN "claim" ELSE "unconfigured")
    /\ UNCHANGED <<faults, status, configured, shop, source, bounds>>

(* Without credentials the row is failed unseen, whatever its state. *)
MarkUnconfigured(w) ==
    /\ At(w, "unconfigured")
    /\ call' = [call EXCEPT !.state = "FAILED"]
    /\ Goto(w, "stage")
    /\ UNCHANGED <<faults, status, configured, store, notes, source, bounds>>

(* claim.  Mutant: a row that is being sent can be claimed. *)
ClaimableOrSending == {"PENDING", "FAILED", "SENDING"}
Claimable == {"PENDING", "FAILED"}
ClaimCall(w) ==
    /\ At(w, "claim")
    /\ IF call.state \in Claimable
       THEN call' = [call EXCEPT !.state = "SENDING"] /\ Goto(w, "status")
       ELSE UNCHANGED call /\ Goto(w, "stage")
    /\ UNCHANGED <<faults, status, configured, store, notes, source, bounds>>

(* update_order: PUT of the status.  Mutant: its error is not caught. *)
SetStatusUncaught(w) ==
    /\ At(w, "status")
    /\ \/ /\ store' = call.outcome
          /\ Goto(w, IF call.outcome \in NoteOn THEN "note" ELSE "sent")
       \/ /\ "status_refused" \in faults
          /\ UNCHANGED store /\ Finish(w)
    /\ UNCHANGED <<faults, status, configured, call, notes, source, bounds>>
SetStatus(w) ==
    /\ At(w, "status")
    /\ \/ /\ store' = call.outcome
          /\ \/ Goto(w, IF call.outcome \in NoteOn THEN "note" ELSE "sent")
             \/ "status_lost" \in faults /\ Goto(w, "failed")
       \/ /\ "status_refused" \in faults
          /\ UNCHANGED store /\ Goto(w, "failed")
    /\ UNCHANGED <<faults, status, configured, call, notes, source, bounds>>

(* update_order: POST of the note, after the status *)
AddNote(w) ==
    /\ At(w, "note")
    /\ \/ /\ notes' = IF notes < NoteCap THEN notes + 1 ELSE notes
          /\ \/ Goto(w, "sent")
             \/ "note_lost" \in faults /\ Goto(w, "failed")
       \/ /\ "note_refused" \in faults
          /\ UNCHANGED notes /\ Goto(w, "failed")
    /\ UNCHANGED <<faults, status, configured, call, store, source, bounds>>

(* mark_sent, mark_failed *)
MarkCall(w) ==
    /\ At(w, "sent") \/ At(w, "failed")
    /\ call' = [call EXCEPT !.state = IF At(w, "sent") THEN "SENT" ELSE "FAILED"]
    /\ Goto(w, "stage")
    /\ UNCHANGED <<faults, status, configured, store, notes, source, bounds>>

------------------------------------------------------------------------------
(* SourceReactionService *)

(* Mutant: the switch of the stage is not looked at. *)
DueUnlessLater(new) == stage # new /\ Rank[stage] <= Rank[new]
Due(new) == new \in Reacts /\ stage # new /\ Rank[stage] <= Rank[new]

CheckStage(w) ==
    /\ At(w, "stage")
    /\ IF Due(job[w].goal) THEN Goto(w, "react") ELSE Finish(w)
    /\ UNCHANGED <<faults, status, configured, shop, source, bounds>>

(* set_reaction: a bot has one reaction on a message. *)
React(w) ==
    /\ At(w, "react")
    /\ \/ /\ shown' = job[w].goal
          /\ \/ Goto(w, "write")
             \/ "reaction_lost" \in faults /\ Finish(w)
       \/ /\ "reaction_refused" \in faults
          /\ UNCHANGED shown /\ Finish(w)
    /\ UNCHANGED <<faults, status, configured, shop, stage, bounds>>

WriteStage(w) ==
    /\ At(w, "write")
    /\ stage' = job[w].goal
    /\ Finish(w)
    /\ UNCHANGED <<faults, status, configured, shop, shown, bounds>>

------------------------------------------------------------------------------
(* receive_value: an administrator completes or empties the credentials (a *)
(* base URL of slashes is stored as the empty string).                     *)
EditStore ==
    /\ edits < MaxEdits /\ edits' = edits + 1
    /\ configured' = ~configured
    /\ UNCHANGED <<faults, status, shop, source, job, overrides, crashes>>

(* Nothing releases a call that is being sent: release_stale has no caller. *)
Crash ==
    /\ crashes < MaxCrashes /\ crashes' = crashes + 1
    /\ job' = [w \in Workers |-> Idle]
    /\ UNCHANGED <<faults, status, configured, shop, source, overrides, edits>>

Task(w) ==
    \/ RunPipeline(w) \/ PrepareCall(w) \/ ReadCall(w) \/ MarkUnconfigured(w)
    \/ ClaimCall(w) \/ SetStatus(w) \/ AddNote(w) \/ MarkCall(w)
    \/ CheckStage(w) \/ React(w) \/ WriteStage(w)

Next ==
    \/ \E w \in Workers :
          Deliver(w) \/ PickUp(w) \/ Decide(w) \/ RunAgain(w) \/ Override(w) \/ Task(w)
    \/ EditStore \/ Crash

Spec == Init /\ [][Next]_vars
FairSpec == Spec /\ \A w \in Workers : WF_vars(Task(w))

------------------------------------------------------------------------------
(* Properties *)

Calling(w) == job[w].pc \in {"status", "note", "sent", "failed"}

(* Two tasks never call the store for one order at the same time: the row  *)
(* is claimed before the call.  It takes an unconditional mark_failed, by  *)
(* a task that finds no credentials, to break it.                          *)
OneStoreCaller ==
    edits = 0 => \A v, w \in Workers : Calling(v) /\ Calling(w) => v = w

(* The note is on the store's order once, over retries, crashes and        *)
(* overrides, unless an answer to it was lost: the row is claimed from     *)
(* PENDING or FAILED only and the note is the last call before SENT.       *)
NotedOnce == edits = 0 /\ "note_lost" \notin faults => notes <= 1

(* A row that is SENT stands for a status the store has.                   *)
SentWasTold == call.state = "SENT" => store = call.outcome

(* Without an administrator's override, what the store and the source      *)
(* channel are told is the status of the order, although the pipeline acts *)
(* on a status read in an earlier transaction.                             *)
OnlyDecisionsGoOut ==
    overrides = 0 => store \in {Nothing, status} /\ shown \notin Final \ {status}

(* As long as the process does not die, the store update of a decided      *)
(* order is in the hands of a task until it is sent or has failed: no row  *)
(* is missing, waiting or being sent for good (run_pipeline, prepare,      *)
(* claim, mark_failed on every error).                                     *)
Waiting(w) == job[w].pc \in {"read", "unconfigured", "claim"}
UpdateIsInHand ==
    crashes = 0 =>
       /\ call = NoCall /\ status \in StoreOn /\ overrides = 0 =>
             \E w \in Workers : job[w].pc \in {"run", "prepare"}
       /\ call.state = "PENDING" => \E w \in Workers : Waiting(w)
       /\ call.state = "SENDING" => \E w \in Workers : Calling(w)

(* A row being sent is settled once its task goes on; after a crash        *)
(* nothing settles it.                                                     *)
CallSettles == call.state = "SENDING" ~> call.state # "SENDING" \/ crashes > 0

(* "A late RECEIVED must never undo a SUCCESS already shown": without an   *)
(* override the source message goes on to later stages only.               *)
LaterStageStays == [][overrides' = 0 => Rank[shown'] >= Rank[shown]]_vars
===============================================================================
