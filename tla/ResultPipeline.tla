---------------------------- MODULE ResultPipeline ----------------------------
(***************************************************************************)
(* The result pipeline of one order: OrderFinalizer, DispatchService and   *)
(* AcknowledgementService (app/services/finalizer.py, app/dispatch/        *)
(* service.py, app/acknowledgements/service.py) over their repositories.   *)
(*                                                                         *)
(* Every update of Telegram is handled by an asyncio task, a worker here.  *)
(* An action is one database transaction (session_scope) or one Telegram   *)
(* call, and job[w].pc names the next one; workers interleave between      *)
(* them.  Where a transaction reads first and writes later without a row   *)
(* lock, under READ COMMITTED, the read and the write are two actions.     *)
(* A crash may come between any two actions and takes every worker.        *)
(*                                                                         *)
(* One order suffices: no transaction but the recovery query reads the     *)
(* rows of two orders.                                                     *)
(***************************************************************************)
EXTENDS Naturals, FiniteSets, AckPolicy

CONSTANTS
    Workers,        \* handler tasks that may run at the same time
    Destinations,   \* enabled result destinations of the order's source
    OutcomeOf,      \* destination |-> "SUCCESS" or "FAILED"
    Required,       \* destinations flagged `required`
    Primary,        \* destinations flagged `is_primary`
    Policy,         \* outcome |-> dispatch policy of its acknowledgement
    AckEnabled,     \* outcomes whose acknowledgement is configured and enabled
    RetryAck,       \* retry_enabled of the acknowledgement config
    MaxAckRetry,    \* max_retry_count of the acknowledgement config
    Faults,         \* what may go wrong, a subset of FaultKinds
    AdminActions,   \* what administrators do: see AdminKinds
    MaxCrashes,     \* bound: crashes in a behaviour
    CopyCap         \* bound: a destination's copies are counted up to this

Final == {"SUCCESS", "FAILED"}
FaultKinds == {"refused",        \* Telegram rejects a call, nothing is posted
               "lost_reply",     \* a call took effect, its answer timed out
               "attachment",     \* the order is posted, its attachments fail
               "no_target",      \* no message to put the reaction on
               "quick_restart"}  \* restarts within the two minute cutoff
AdminKinds == {"retry", "override", "reopen"}

ASSUME DestinationsAssumption ==
    /\ IsFiniteSet(Destinations)
    /\ OutcomeOf \in [Destinations -> Final]
    /\ Required \subseteq Destinations
    /\ Primary \subseteq Destinations
ASSUME ConfigAssumption ==
    /\ Policy \in [Final -> DispatchPolicy]
    /\ AckEnabled \subseteq Final
    /\ RetryAck \in BOOLEAN
    /\ MaxAckRetry \in Nat \ {0}
ASSUME BoundsAssumption ==
    /\ Faults \subseteq FaultKinds
    /\ AdminActions \subseteq AdminKinds
    /\ MaxCrashes \in Nat
    /\ CopyCap \in Nat \ {0, 1}

VARIABLES
    order,      \* the orders row: status, dispatchState, ack, ackAttempts
    row,        \* destination |-> status of its result_dispatches row
    job,        \* worker |-> what its task holds in memory
    phase,      \* "up", "down", or "recovering": recover() before polling
    crashes,    \* crashes so far
    young,      \* what the last restart found changed since its cutoff
    copies,     \* destination |-> copies of the result Telegram delivered
    reactions   \* outcome |-> times its reaction was set, up to CopyCap

vars == <<order, row, job, phase, crashes, young, copies, reactions>>

------------------------------------------------------------------------------
(* Values *)

OrderStatus == {"PENDING", "SUCCESS", "FAILED", "CONFLICT"}
OrderDispatchState == {"NOT_REQUIRED", "PENDING", "SENT", "PARTIAL", "FAILED"}
AckStatus == {"NOT_REQUIRED", "PENDING", "APPLYING", "APPLIED", "FAILED"}
RowStatus == {"ABSENT", "PENDING", "SENDING", "SENT", "FAILED"}

Orders == [status : OrderStatus, dispatchState : OrderDispatchState,
           ack : AckStatus, ackAttempts : 0 .. MaxAckRetry]

Steps == {"idle", "decide", "read", "prepare", "arm", "disarm", "list",
          "claim", "post", "markSent", "markFailed", "tally", "refresh",
          "ackCheck", "ackSkip", "ackGate", "ackClaim", "react",
          "ackApplied", "ackFailed"}

(* status: the outcome the task works for; arming: what it does to the     *)
(* acknowledgement before dispatching; acks: whether it processes the      *)
(* acknowledgement at all; queue: rows still to send; cur: the row it has  *)
(* claimed; seen: the dispatch state it computed and will write.           *)
NoRow == "none"
Jobs == [pc : Steps, status : OrderStatus, arming : {"arm", "keep", "disarm"},
         acks : BOOLEAN, queue : SUBSET Destinations,
         cur : Destinations \cup {NoRow}, seen : OrderDispatchState]

Idle == [pc |-> "idle", status |-> "PENDING", arming |-> "keep", acks |-> TRUE,
         queue |-> {}, cur |-> NoRow, seen |-> "NOT_REQUIRED"]

TypeOK ==
    /\ order \in Orders
    /\ row \in [Destinations -> RowStatus]
    /\ job \in [Workers -> Jobs]
    /\ phase \in {"up", "down", "recovering"}
    /\ crashes \in 0 .. MaxCrashes
    /\ young \in [rows : SUBSET Destinations, ack : BOOLEAN]
    /\ copies \in [Destinations -> 0 .. CopyCap]
    /\ reactions \in [Final -> 0 .. CopyCap]

Rows == {d \in Destinations : row[d] # "ABSENT"}
SentRows == {d \in Destinations : row[d] = "SENT"}
SendingRows == {d \in Destinations : row[d] = "SENDING"}

(* Statuses a row may be claimed from.  Mutant: a row being sent as well. *)
UnsentOrSending == {"PENDING", "FAILED", "SENDING"}
Unsent == {"PENDING", "FAILED"}

(* Enabled destinations of an outcome.  Mutant: of any outcome. *)
DestinationsForAny(status) == Destinations
DestinationsFor(status) == {d \in Destinations : OutcomeOf[d] = status}

(* policy_satisfied over the rows as they are.  Mutant: a row that is     *)
(* merely no longer outstanding counts as delivered.                      *)
GateOpenOnceTried(status) ==
    PolicySatisfied(Policy[status], Rows, {d \in Rows : row[d] \in {"SENT", "FAILED"}},
                    Required, Primary)
GateOpen(status) ==
    PolicySatisfied(Policy[status], Rows, SentRows, Required, Primary)

OneMore(n) == IF n < CopyCap THEN n + 1 ELSE n

Init ==
    /\ order = [status |-> "PENDING", dispatchState |-> "NOT_REQUIRED",
                ack |-> "NOT_REQUIRED", ackAttempts |-> 0]
    /\ row = [d \in Destinations |-> "ABSENT"]
    /\ job = [w \in Workers |-> Idle]
    /\ phase = "up"
    /\ crashes = 0
    /\ young = [rows |-> {}, ack |-> FALSE]
    /\ copies = [d \in Destinations |-> 0]
    /\ reactions = [s \in Final |-> 0]

------------------------------------------------------------------------------
(* Moves of a task *)

At(w, step) == job[w].pc = step
Goto(w, step) == job' = [job EXCEPT ![w].pc = step]
Finish(w) == job' = [job EXCEPT ![w] = Idle]

------------------------------------------------------------------------------
(* What starts a task *)

(* Signals of operators reach SignalService.apply, which ignores an order  *)
(* it reads as final and otherwise evaluates the rules.                    *)
SignalArrives(w) ==
    /\ phase = "up" /\ At(w, "idle")
    /\ order.status \notin Final
    /\ Goto(w, "decide")
    /\ UNCHANGED <<order, row, phase, crashes, young, copies, reactions>>

(* The retry button of the order screen. *)
Retry(w) ==
    /\ "retry" \in AdminActions
    /\ phase = "up" /\ At(w, "idle")
    /\ Goto(w, "read")
    /\ UNCHANGED <<order, row, phase, crashes, young, copies, reactions>>

(* manual_override: its transaction, under the row lock, accepts any       *)
(* current status; the two flags come from the buttons of the prompt.      *)
Override(w) ==
    /\ "override" \in AdminActions
    /\ phase = "up" /\ At(w, "idle")
    /\ \E new \in Final, dispatch, acknowledge \in BOOLEAN :
         /\ order' = [order EXCEPT !.status = new]
         /\ job' = IF dispatch
                   THEN [job EXCEPT ![w] = [Idle EXCEPT
                            !.pc = "prepare", !.status = new,
                            !.arming = IF acknowledge THEN "arm" ELSE "disarm",
                            !.acks = acknowledge]]
                   ELSE job
    /\ UNCHANGED <<row, phase, crashes, young, copies, reactions>>

(* manual_override to PENDING: the acknowledgement is cleared, the outbox  *)
(* rows stay, and nothing else runs.                                       *)
Reopen(w) ==
    /\ "reopen" \in AdminActions
    /\ phase = "up" /\ At(w, "idle")
    /\ order' = [order EXCEPT !.status = "PENDING", !.ack = "NOT_REQUIRED"]
    /\ UNCHANGED <<row, job, phase, crashes, young, copies, reactions>>

------------------------------------------------------------------------------
(* OrderFinalizer *)

(* _decide_and_persist, under the row lock.  The rule engine is a choice:  *)
(* RuleEngine says what it may be.  Only a PENDING order moves: `transi-   *)
(* tion` expects that status, and a final order is left alone; a task      *)
(* that finds the order final, or made it so, goes on with run_pipeline.   *)
Decide(w) ==
    /\ At(w, "decide")
    /\ \E decision \in OrderStatus :
         LET moves == order.status = "PENDING" /\ decision # "PENDING"
             after == IF moves THEN decision ELSE order.status
         IN  /\ order' = [order EXCEPT !.status = after]
             /\ IF after \in Final THEN Goto(w, "read") ELSE Finish(w)
    /\ UNCHANGED <<row, phase, crashes, young, copies, reactions>>

(* First transaction of run_pipeline: what it reads here decides whether   *)
(* the task prepares the outbox and arms the acknowledgement later.        *)
ReadOrder(w) ==
    /\ At(w, "read")
    /\ IF order.status \notin Final THEN Finish(w)
       ELSE LET arming == IF order.ack = "NOT_REQUIRED" THEN "arm" ELSE "keep"
                next == IF Rows = {} THEN "prepare"
                        ELSE IF arming = "arm" THEN "arm" ELSE "list"
            IN  job' = [job EXCEPT ![w] = [Idle EXCEPT
                           !.pc = next, !.status = order.status, !.arming = arming]]
    /\ UNCHANGED <<order, row, phase, crashes, young, copies, reactions>>

------------------------------------------------------------------------------
(* DispatchService *)

(* prepare: one row per enabled destination of the status, never a second  *)
(* one (ON CONFLICT DO NOTHING).  Mutant: ON CONFLICT DO UPDATE.           *)
PrepareDispatchUpsert(w) ==
    LET mine == DestinationsFor(job[w].status) IN
    /\ At(w, "prepare")
    /\ row' = [d \in Destinations |-> IF d \in mine THEN "PENDING" ELSE row[d]]
    /\ order' = [order EXCEPT !.dispatchState =
                   IF mine = {} THEN "NOT_REQUIRED" ELSE "PENDING"]
    /\ Goto(w, IF job[w].arming = "keep" THEN "list" ELSE job[w].arming)
    /\ UNCHANGED <<phase, crashes, young, copies, reactions>>

PrepareDispatch(w) ==
    LET mine == DestinationsFor(job[w].status) IN
    /\ At(w, "prepare")
    /\ row' = [d \in Destinations |->
                 IF d \in mine /\ row[d] = "ABSENT" THEN "PENDING" ELSE row[d]]
    /\ order' = [order EXCEPT !.dispatchState =
                   IF mine = {} THEN "NOT_REQUIRED" ELSE "PENDING"]
    /\ Goto(w, IF job[w].arming = "keep" THEN "list" ELSE job[w].arming)
    /\ UNCHANGED <<phase, crashes, young, copies, reactions>>

(* process: the outstanding rows of the order, whatever their outcome. *)
ListOutstanding(w) ==
    /\ At(w, "list")
    /\ job' = [job EXCEPT ![w].pc = "claim",
                          ![w].queue = {d \in Destinations : row[d] \in Unsent}]
    /\ UNCHANGED <<order, row, phase, crashes, young, copies, reactions>>

(* claim_dispatch: a conditional UPDATE.  The code visits the rows by id;  *)
(* any order is allowed here.                                              *)
ClaimRow(w) ==
    /\ At(w, "claim")
    /\ \E d \in job[w].queue :
         LET rest == job[w].queue \ {d} IN
         IF row[d] \in Unsent
         THEN /\ row' = [row EXCEPT ![d] = "SENDING"]
              /\ job' = [job EXCEPT ![w].pc = "post", ![w].queue = rest, ![w].cur = d]
         ELSE /\ job' = [job EXCEPT ![w].queue = rest]
              /\ UNCHANGED row
    /\ UNCHANGED <<order, phase, crashes, young, copies, reactions>>

QueueDone(w) ==
    /\ At(w, "claim") /\ job[w].queue = {}
    /\ Goto(w, "tally")
    /\ UNCHANGED <<order, row, phase, crashes, young, copies, reactions>>

(* send_composed and send_attachments.  with_retry sends again when the    *)
(* answer is lost, or gives up; attachments that fail after the order was  *)
(* posted fail the whole dispatch.                                         *)
Post(w) ==
    LET d == job[w].cur
        posted == copies' = [copies EXCEPT ![d] = OneMore(@)]
    IN  /\ At(w, "post")
        /\ \/ posted /\ Goto(w, "markSent")
           \/ "refused" \in Faults /\ UNCHANGED copies /\ Goto(w, "markFailed")
           \/ "lost_reply" \in Faults /\ posted /\ UNCHANGED job
           \/ Faults \cap {"lost_reply", "attachment"} # {} /\ posted /\ Goto(w, "markFailed")
        /\ UNCHANGED <<order, row, phase, crashes, young, reactions>>

MarkRow(w, step, status) ==
    /\ At(w, step)
    /\ row' = [row EXCEPT ![job[w].cur] = status]
    /\ job' = [job EXCEPT ![w].pc = "claim", ![w].cur = NoRow]
    /\ UNCHANGED <<order, phase, crashes, young, copies, reactions>>

MarkSent(w) == MarkRow(w, "markSent", "SENT")

(* Mutant: the failure path records the row as sent. *)
MarkFailedAsSent(w) == MarkRow(w, "markFailed", "SENT")
MarkFailed(w) == MarkRow(w, "markFailed", "FAILED")

(* The summary refresh_state writes on the order.  Mutants: a value of     *)
(* another enumeration; one delivery makes the order SENT.                 *)
SummaryOfDelivery ==
    IF Rows = {} THEN "NOT_REQUIRED" ELSE IF Rows = SentRows THEN "DELIVERED" ELSE "PENDING"
SummaryOptimistic ==
    IF Rows = {} THEN "NOT_REQUIRED"
    ELSE IF SentRows # {} THEN "SENT"
    ELSE IF \E d \in Rows : row[d] = "FAILED" THEN "FAILED"
    ELSE "PENDING"
Summary ==
    IF Rows = {} THEN "NOT_REQUIRED"
    ELSE IF Rows = SentRows THEN "SENT"
    ELSE IF SentRows # {} THEN "PARTIAL"
    ELSE IF \E d \in Rows : row[d] = "FAILED" THEN "FAILED"
    ELSE "PENDING"

(* refresh_state reads the rows ... *)
TallyRows(w) ==
    /\ At(w, "tally")
    /\ job' = [job EXCEPT ![w].pc = "refresh", ![w].seen = Summary]
    /\ UNCHANGED <<order, row, phase, crashes, young, copies, reactions>>

(* ... and writes what it computed. *)
RefreshState(w) ==
    /\ At(w, "refresh")
    /\ order' = [order EXCEPT !.dispatchState = job[w].seen]
    /\ IF job[w].acks THEN Goto(w, "ackCheck") ELSE Finish(w)
    /\ UNCHANGED <<row, phase, crashes, young, copies, reactions>>

------------------------------------------------------------------------------
(* AcknowledgementService *)

(* prepare: writes over whatever the acknowledgement is by now. *)
ArmAck(w) ==
    /\ At(w, "arm")
    /\ order' = [order EXCEPT !.ack =
                   IF job[w].status \in AckEnabled THEN "PENDING" ELSE "NOT_REQUIRED"]
    /\ Goto(w, "list")
    /\ UNCHANGED <<row, phase, crashes, young, copies, reactions>>

(* An override that was told not to acknowledge. *)
DisarmAck(w) ==
    /\ At(w, "disarm")
    /\ order' = [order EXCEPT !.ack = "NOT_REQUIRED"]
    /\ Goto(w, "list")
    /\ UNCHANGED <<row, phase, crashes, young, copies, reactions>>

AckExhausted ==
    order.ack = "FAILED" /\ (~RetryAck \/ order.ackAttempts >= MaxAckRetry)

(* process reads the order and its configuration ... *)
CheckAck(w) ==
    /\ At(w, "ackCheck")
    /\ IF order.status \notin Final \/ order.ack \in {"APPLIED", "NOT_REQUIRED"}
       THEN Finish(w)
       ELSE IF order.status \notin AckEnabled THEN Goto(w, "ackSkip")
       ELSE IF AckExhausted THEN Finish(w)
       ELSE job' = [job EXCEPT ![w].pc = "ackGate", ![w].status = order.status]
    /\ UNCHANGED <<order, row, phase, crashes, young, copies, reactions>>

(* ... then the outbox rows, and resolves the target message.  Mutant: a   *)
(* closed gate gives the acknowledgement up.                               *)
CheckGateOnce(w) ==
    /\ At(w, "ackGate")
    /\ IF GateOpen(job[w].status)
       THEN Goto(w, "ackClaim") /\ UNCHANGED order
       ELSE Finish(w) /\ order' = [order EXCEPT !.ack = "NOT_REQUIRED"]
    /\ UNCHANGED <<row, phase, crashes, young, copies, reactions>>

CheckGate(w) ==
    /\ At(w, "ackGate")
    /\ \/ ~GateOpen(job[w].status) /\ Finish(w) /\ UNCHANGED order
       \/ GateOpen(job[w].status) /\ Goto(w, "ackClaim") /\ UNCHANGED order
       \/ /\ GateOpen(job[w].status) /\ "no_target" \in Faults
          /\ order' = [order EXCEPT !.ack = "FAILED"]
          /\ Finish(w)
    /\ UNCHANGED <<row, phase, crashes, young, copies, reactions>>

(* claim_acknowledgement: the conditional UPDATE looks at the acknowledge- *)
(* ment only, not at the order's status or its rows.  Attempts matter only *)
(* up to the budget, so they are counted up to it.                         *)
ClaimAck(w) ==
    /\ At(w, "ackClaim")
    /\ IF order.ack \in {"PENDING", "FAILED"}
       THEN /\ order' = [order EXCEPT !.ack = "APPLYING",
                  !.ackAttempts = IF @ < MaxAckRetry THEN @ + 1 ELSE @]
            /\ Goto(w, "react")
       ELSE Finish(w) /\ UNCHANGED order
    /\ UNCHANGED <<row, phase, crashes, young, copies, reactions>>

React(w) ==
    LET shown == reactions' = [reactions EXCEPT ![job[w].status] = OneMore(@)]
    IN  /\ At(w, "react")
        /\ \/ shown /\ Goto(w, "ackApplied")
           \/ "refused" \in Faults /\ UNCHANGED reactions /\ Goto(w, "ackFailed")
           \/ "lost_reply" \in Faults /\ shown /\ Goto(w, "ackFailed")
        /\ UNCHANGED <<order, row, phase, crashes, young, copies>>

MarkAck(w, step, status) ==
    /\ At(w, step)
    /\ order' = [order EXCEPT !.ack = status]
    /\ Finish(w)
    /\ UNCHANGED <<row, phase, crashes, young, copies, reactions>>

AckApplied(w) == MarkAck(w, "ackApplied", "APPLIED")
AckFailed(w) == MarkAck(w, "ackFailed", "FAILED")

(* Armed, but disabled for the status the order has by now. *)
AckSkipped(w) == MarkAck(w, "ackSkip", "NOT_REQUIRED")

------------------------------------------------------------------------------
(* Crash, restart and recover() *)

Crash ==
    /\ phase # "down" /\ crashes < MaxCrashes
    /\ crashes' = crashes + 1
    /\ phase' = "down"
    /\ job' = [w \in Workers |-> Idle]
    /\ UNCHANGED <<order, row, young, copies, reactions>>

(* orders_needing_recovery.  Mutant: it looks at the dispatch state only. *)
NeedsRecoveryOfDispatch(o) ==
    /\ o.status \in Final
    /\ o.dispatchState \in {"PENDING", "PARTIAL", "FAILED"}
NeedsRecovery(o) ==
    /\ o.status \in Final
    /\ \/ o.dispatchState \in {"PENDING", "PARTIAL", "FAILED"}
       \/ o.ack \in {"PENDING", "APPLYING"}

(* release_stale_dispatches of the rows last changed before the cutoff.    *)
(* Mutant: never called.                                                   *)
NoReleasedRows(old) == row
ReleasedRows(old) == [d \in Destinations |-> IF d \in old THEN "PENDING" ELSE row[d]]

(* release_stale_acknowledgements.  Mutant: never called. *)
NoReleasedAck(old) == order.ack
ReleasedAck(old) == IF old /\ order.ack = "APPLYING" THEN "PENDING" ELSE order.ack

(* Startup releases what was in flight, if its last change is older than   *)
(* the cutoff, and resumes the order if the query selects it, before any   *)
(* update is polled.  What is younger stays claimed until another restart: *)
(* no column records that, `young` does, to state the properties.          *)
Restart(w) ==
    /\ phase = "down"
    /\ \E old \in SUBSET SendingRows, ackOld \in BOOLEAN :
         /\ "quick_restart" \notin Faults => ackOld /\ old = SendingRows
         /\ row' = ReleasedRows(old)
         /\ order' = [order EXCEPT !.ack = ReleasedAck(ackOld)]
         /\ young' = [rows |-> SendingRows \ old, ack |-> order.ack = "APPLYING" /\ ~ackOld]
    /\ IF NeedsRecovery(order')
       THEN phase' = "recovering" /\ Goto(w, "read")
       ELSE phase' = "up" /\ UNCHANGED job
    /\ UNCHANGED <<crashes, copies, reactions>>

StartPolling ==
    /\ phase = "recovering"
    /\ \A w \in Workers : At(w, "idle")
    /\ phase' = "up"
    /\ UNCHANGED <<order, row, job, crashes, young, copies, reactions>>

------------------------------------------------------------------------------

Arrival(w) == SignalArrives(w) \/ Retry(w) \/ Override(w) \/ Reopen(w)

Finalizer(w) == Decide(w) \/ ReadOrder(w)

Dispatch(w) ==
    \/ PrepareDispatch(w) \/ ListOutstanding(w)
    \/ ClaimRow(w) \/ QueueDone(w) \/ Post(w) \/ MarkSent(w) \/ MarkFailed(w)
    \/ TallyRows(w) \/ RefreshState(w)

Acknowledgement(w) ==
    \/ ArmAck(w) \/ DisarmAck(w) \/ CheckAck(w) \/ CheckGate(w)
    \/ ClaimAck(w) \/ React(w) \/ AckApplied(w) \/ AckFailed(w) \/ AckSkipped(w)

Task(w) == Finalizer(w) \/ Dispatch(w) \/ Acknowledgement(w)

Next ==
    \/ \E w \in Workers : Arrival(w) \/ Task(w) \/ Restart(w)
    \/ Crash \/ StartPolling

Spec == Init /\ [][Next]_vars

(* asyncio resumes a task whose database or Telegram call returned, and    *)
(* every call returns or raises (the gateway's timeouts); the supervisor   *)
(* restarts a dead process.  Nothing obliges operators or administrators.  *)
Fairness ==
    /\ \A w \in Workers : WF_vars(Task(w))
    /\ WF_vars(\E w \in Workers : Restart(w))
    /\ WF_vars(StartPolling)

FairSpec == Spec /\ Fairness

------------------------------------------------------------------------------
(* Safety *)

(* No destination gets the result of an order twice: the claim is what     *)
(* makes sends of concurrent tasks, retries and overrides exclude each     *)
(* other (claim_dispatch, manual_override's comment on re-opening).        *)
NeverDeliveredTwice == \A d \in Destinations : copies[d] <= 1

(* A row says SENT only of a result Telegram accepted, whatever failed,    *)
(* crashed or was lost (mark_dispatch_sent).                               *)
SentMeansDelivered == \A d \in Destinations : row[d] = "SENT" => copies[d] >= 1

InFlight == {"post", "markSent", "markFailed"}
Applying == {"react", "ackApplied", "ackFailed"}

(* Between claim and outcome a row has one owner, even after a restart     *)
(* released the rows of dead tasks (claim_dispatch, release_stale_...).    *)
OneOwnerPerRow ==
    \A v, w \in Workers :
        v # w /\ job[v].pc \in InFlight /\ job[w].pc \in InFlight
            => job[v].cur # job[w].cur

(* While the bot runs, a row in SENDING or an acknowledgement in APPLYING  *)
(* belongs to a live task, except what changed in the two minutes before   *)
(* the process started: only a restart within the cutoff leaves anything   *)
(* claimed, and only what is that young (release_stale_..., recover).      *)
NothingStuck ==
    phase # "down" =>
        /\ \A d \in Destinations \ young.rows : row[d] = "SENDING" =>
              \E w \in Workers : job[w].pc \in InFlight /\ job[w].cur = d
        /\ order.ack = "APPLYING" /\ ~young.ack =>
              \E w \in Workers : job[w].pc \in Applying

(* The recovery query selects every order with a row still to be sent,     *)
(* though the summary it looks at is written by racing tasks, each from    *)
(* rows it read earlier (refresh_state, orders_needing_recovery).          *)
OutstandingIsRecoverable ==
    (\E d \in Destinations : row[d] \in {"PENDING", "SENDING", "FAILED"})
        => NeedsRecovery(order)

(* A row that is SENT is never queued again, by no pipeline, override or   *)
(* restart.                                                                *)
SentIsForGood ==
    [][\A d \in Destinations : row[d] = "SENT" => row'[d] = "SENT"]_vars

(* A reaction appears only when the policy accepts what reached the        *)
(* destinations of the outcome the reaction announces                      *)
(* (AcknowledgementService.process: "never acknowledge an order whose      *)
(* result did not actually reach its destination").                        *)
ReactionOnlyAfterDelivery ==
    [][\A s \in Final : reactions'[s] # reactions[s] =>
          PolicySatisfied(Policy[s], DestinationsFor(s), SentRows, Required, Primary)]_vars

------------------------------------------------------------------------------
(* Liveness *)

Settled ==
    /\ DestinationsFor(order.status) \subseteq SentRows
    /\ order.status \in AckEnabled => order.ack = "APPLIED"

(* Once an order is final its result reaches every destination and the     *)
(* acknowledgement is applied, however the sends were split between tasks  *)
(* (run_pipeline).                                                         *)
FinalIsSettled == order.status \in Final ~> Settled

(* That much holds as long as the process does not die. *)
SettledUnlessCrashed == order.status \in Final ~> Settled \/ crashes > 0

(* What the outbox holds is sent, over crashes and restarts however soon,  *)
(* or was being sent less than two minutes before a restart; a later one   *)
(* that finds it older makes the property begin anew (recover).            *)
QueuedIsSent ==
    \A d \in Destinations :
        row[d] \in {"PENDING", "SENDING"} ~> row[d] = "SENT" \/ d \in young.rows

(* A row left in SENDING, without which the policy is not satisfied.       *)
GateStuck ==
    /\ order.status \in Final
    /\ ~PolicySatisfied(Policy[order.status], Rows, Rows \ young.rows, Required, Primary)

(* And what is armed is applied, unless a restart left it in APPLYING or   *)
(* left in SENDING a row that the policy waits for (recover).              *)
ArmedIsApplied ==
    order.ack \in {"PENDING", "APPLYING"}
        ~> order.ack = "APPLIED" \/ young.ack \/ GateStuck

------------------------------------------------------------------------------
(* Refinement *)

Delivery == INSTANCE ResultDelivery WITH
    outcome <- IF order.status \in Final THEN order.status ELSE "OPEN",
    acknowledged <- \E s \in Final : reactions[s] > 0

(* The pipeline does what ResultDelivery promises. *)
Implements == Delivery!DeliverySpec

===============================================================================
