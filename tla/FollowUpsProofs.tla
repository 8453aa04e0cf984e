---------------------------- MODULE FollowUpsProofs ----------------------------
(* Theorems about FollowUps, for every number of tasks, every store and    *)
(* reaction configuration, and every set of faults.                        *)
EXTENDS FollowUps, TLAPS

------------------------------------------------------------------------------
(* Types.  A task past prepare has a row to work on, and one that reacts   *)
(* has a stage with a reaction.                                            *)

CallSteps == {"read", "unconfigured", "claim", "status", "note", "sent", "failed"}
CallExists == \A w \in Workers : job[w].pc \in CallSteps => call # NoCall
GoalReacts == \A w \in Workers : job[w].pc \in {"react", "write"} => job[w].goal \in Reacts
Typed == TypeOK /\ CallExists /\ GoalReacts

LEMMA IdleType == Idle \in Jobs /\ Idle.pc = "idle" /\ Idle.goal = Nothing
  BY DEF Idle, Jobs, Steps

LEMMA GotoType ==
  ASSUME NEW w \in Workers, job \in [Workers -> Jobs], NEW step \in Steps, Goto(w, step)
  PROVE  /\ job' \in [Workers -> Jobs]
         /\ job'[w].pc = step /\ job'[w].goal = job[w].goal
         /\ \A v \in Workers \ {w} : job'[v] = job[v]
  BY DEF Goto, Jobs

LEMMA BeginType ==
  ASSUME NEW w \in Workers, job \in [Workers -> Jobs], NEW step \in Steps,
         NEW goal \in Stages, Begin(w, step, goal)
  PROVE  /\ job' \in [Workers -> Jobs]
         /\ job'[w].pc = step /\ job'[w].goal = goal
         /\ \A v \in Workers \ {w} : job'[v] = job[v]
  BY DEF Begin, Jobs

LEMMA FinishType ==
  ASSUME NEW w \in Workers, job \in [Workers -> Jobs], Finish(w)
  PROVE  /\ job' \in [Workers -> Jobs]
         /\ job'[w].pc = "idle" /\ job'[w].goal = Nothing
         /\ \A v \in Workers \ {w} : job'[v] = job[v]
  BY IdleType DEF Finish

LEMMA CallType ==
  ASSUME call \in Calls, call # NoCall, NEW state \in CallState
  PROVE  /\ [call EXCEPT !.state = state] \in Calls
         /\ [call EXCEPT !.state = state] # NoCall
         /\ [call EXCEPT !.state = state].state = state
         /\ [call EXCEPT !.state = state].outcome = call.outcome
         /\ call.outcome \in StoreOn
  BY DEF Calls, NoCall, CallState, Nothing

LEMMA NewCall ==
  ASSUME call \in Calls, NEW outcome \in StoreOn
  PROVE  /\ EnsureCall(outcome) \in Calls /\ EnsureCall(outcome) # NoCall
         /\ EnsureCall(outcome) = call \/ call = NoCall
         /\ EnsureCall(outcome).state \in CallState
         /\ call = NoCall => EnsureCall(outcome) = [state |-> "PENDING", outcome |-> outcome]
  BY DEF EnsureCall, Calls, NoCall, CallState, Nothing

LEMMA TypedInit == Init => Typed
  BY FollowUpsAssumption, IdleType
  DEF Init, Typed, TypeOK, CallExists, GoalReacts, CallSteps, OrderStatus, Calls, Idle

LEMMA TypedStep == Typed /\ [Next]_vars => Typed'
  <1> SUFFICES ASSUME Typed, [Next]_vars PROVE Typed'
    OBVIOUS
  <1> USE FollowUpsAssumption DEF Typed, TypeOK
  <1> USE DEF CallExists, GoalReacts, CallSteps, At
  <1>1. ASSUME NEW w \in Workers, Deliver(w) PROVE Typed'
    BY <1>1, BeginType DEF Deliver, shop, source, bounds, Steps, Stages
  <1>2. ASSUME NEW w \in Workers, PickUp(w) PROVE Typed'
    BY <1>2, BeginType DEF PickUp, shop, source, bounds, Steps, Stages
  <1>3. ASSUME NEW w \in Workers, Decide(w) PROVE Typed'
    BY <1>3, GotoType DEF Decide, shop, source, bounds, Steps, OrderStatus
  <1>4. ASSUME NEW w \in Workers, RunAgain(w) PROVE Typed'
    BY <1>4, GotoType DEF RunAgain, shop, source, bounds, Steps
  <1>5. ASSUME NEW w \in Workers, RunPipeline(w) PROVE Typed'
    <2>1. CASE status \in Final
      BY <1>5, <2>1, BeginType DEF RunPipeline, shop, source, bounds, Steps, Stages
    <2>2. CASE status \notin Final
      BY <1>5, <2>2, FinishType, IdleType DEF RunPipeline, shop, source, bounds
    <2> QED
      BY <2>1, <2>2
  <1>6. ASSUME NEW w \in Workers, Override(w) PROVE Typed'
    <2>1. overrides' \in 0 .. MaxOverrides
      BY <1>6 DEF Override
    <2>2. CASE status' = "PENDING"
      BY <1>6, <2>1, <2>2 DEF Override, shop, source
    <2>3. CASE status' # "PENDING"
      <3>1. PICK step \in {"prepare", "stage"} : Begin(w, step, status')
        BY <1>6, <2>3 DEF Override
      <3>2. status' \in Stages /\ step \in Steps
        BY <1>6, <2>3 DEF Override, OrderStatus, Stages, Steps
      <3>3. job' \in [Workers -> Jobs] /\ job'[w].pc \in {"prepare", "stage"}
            /\ \A v \in Workers \ {w} : job'[v] = job[v]
        BY <3>1, <3>2, BeginType
      <3> QED
        BY <1>6, <2>1, <3>3 DEF Override, shop, source
    <2> QED
      BY <2>2, <2>3
  <1>7. ASSUME NEW w \in Workers, PrepareCall(w) PROVE Typed'
    <2>1. CASE job[w].goal \in StoreOn
      BY <1>7, <2>1, GotoType, NewCall DEF PrepareCall, source, bounds, Steps
    <2>2. CASE job[w].goal \notin StoreOn
      BY <1>7, <2>2, GotoType DEF PrepareCall, source, bounds, Steps
    <2> QED
      BY <2>1, <2>2
  <1>8. ASSUME NEW w \in Workers, ReadCall(w) PROVE Typed'
    BY <1>8, GotoType DEF ReadCall, shop, source, bounds, Steps
  <1>9. ASSUME NEW w \in Workers, MarkUnconfigured(w) PROVE Typed'
    BY <1>9, GotoType, CallType DEF MarkUnconfigured, source, bounds, Steps, CallState
  <1>10. ASSUME NEW w \in Workers, ClaimCall(w) PROVE Typed'
    <2>1. CASE call.state \in Claimable
      BY <1>10, <2>1, GotoType, CallType DEF ClaimCall, source, bounds, Steps, CallState
    <2>2. CASE call.state \notin Claimable
      BY <1>10, <2>2, GotoType DEF ClaimCall, source, bounds, Steps
    <2> QED
      BY <2>1, <2>2
  <1>11. ASSUME NEW w \in Workers, SetStatus(w) PROVE Typed'
    <2>1. call.outcome \in StoreOn
      BY <1>11, CallType DEF SetStatus, CallState
    <2>2. PICK step \in {"note", "sent", "failed"} : Goto(w, step)
      BY <1>11 DEF SetStatus
    <2>3. /\ job' \in [Workers -> Jobs] /\ job'[w].pc = step
          /\ \A v \in Workers \ {w} : job'[v] = job[v]
      BY <2>2, GotoType DEF Steps
    <2> QED
      BY <1>11, <2>1, <2>3 DEF SetStatus, source, bounds
  <1>12. ASSUME NEW w \in Workers, AddNote(w) PROVE Typed'
    <2>1. notes' \in 0 .. NoteCap
      BY <1>12 DEF AddNote
    <2>2. PICK step \in {"sent", "failed"} : Goto(w, step)
      BY <1>12 DEF AddNote
    <2>3. /\ job' \in [Workers -> Jobs] /\ job'[w].pc = step
          /\ \A v \in Workers \ {w} : job'[v] = job[v]
      BY <2>2, GotoType DEF Steps
    <2> QED
      BY <1>12, <2>1, <2>3 DEF AddNote, source, bounds
  <1>13. ASSUME NEW w \in Workers, MarkCall(w) PROVE Typed'
    BY <1>13, GotoType, CallType DEF MarkCall, source, bounds, Steps, CallState
  <1>14. ASSUME NEW w \in Workers, CheckStage(w) PROVE Typed'
    <2>1. CASE Due(job[w].goal)
      BY <1>14, <2>1, GotoType DEF CheckStage, Due, shop, source, bounds, Steps
    <2>2. CASE ~Due(job[w].goal)
      BY <1>14, <2>2, FinishType, IdleType DEF CheckStage, shop, source, bounds
    <2> QED
      BY <2>1, <2>2
  <1>15. ASSUME NEW w \in Workers, React(w) PROVE Typed'
    <2>1. shown' \in Reacts \cup {Nothing}
      BY <1>15 DEF React
    <2>2. CASE Goto(w, "write")
      BY <1>15, <2>1, <2>2, GotoType DEF React, shop, bounds, Steps
    <2>3. CASE Finish(w)
      BY <1>15, <2>1, <2>3, FinishType, IdleType DEF React, shop, bounds
    <2> QED
      BY <1>15, <2>2, <2>3 DEF React
  <1>16. ASSUME NEW w \in Workers, WriteStage(w) PROVE Typed'
    BY <1>16, FinishType, IdleType DEF WriteStage, shop, bounds
  <1>17. ASSUME EditStore PROVE Typed'
    BY <1>17 DEF EditStore, shop, source
  <1>18. ASSUME Crash PROVE Typed'
    BY <1>18, IdleType DEF Crash, shop, source
  <1>19. ASSUME UNCHANGED vars PROVE Typed'
    BY <1>19 DEF vars, shop, source, bounds
  <1> QED
    BY <1>1, <1>2, <1>3, <1>4, <1>5, <1>6, <1>7, <1>8, <1>9, <1>10, <1>11, <1>12,
       <1>13, <1>14, <1>15, <1>16, <1>17, <1>18, <1>19 DEF Next, Task

(* The state of the order, of its store call and of its stage is well      *)
(* typed in every reachable state: no task marks a call that has no row    *)
(* (store.py) and no stage without a reaction is written                   *)
(* (source_reactions.py).                                                  *)
THEOREM TypeCorrect == Spec => []TypeOK
  BY TypedInit, TypedStep, PTL DEF Spec, Typed

(* Every reachable state satisfies Typed: besides, a task past prepare has *)
(* a row to mark, one that reacts a stage with a reaction.                *)
THEOREM TypedAlways == Spec => []Typed
  BY TypedInit, TypedStep, PTL DEF Spec

------------------------------------------------------------------------------
(* One store caller: while no credentials were edited, whoever calls the   *)
(* store holds the claim.                                                  *)

Exclusive ==
    edits = 0 =>
        /\ configured
        /\ \A w \in Workers : job[w].pc # "unconfigured"
        /\ \A w \in Workers : Calling(w) => call.state = "SENDING"
        /\ \A v, w \in Workers : Calling(v) /\ Calling(w) => v = w

LEMMA ExclusiveInit == Init => Exclusive
  BY IdleType DEF Init, Exclusive, Calling

LEMMA ExclusiveStep == Typed /\ Exclusive /\ [Next]_vars => Exclusive'
  <1> SUFFICES ASSUME Typed, Exclusive, [Next]_vars, edits' = 0 PROVE Exclusive'
    BY DEF Exclusive
  <1>0. job \in [Workers -> Jobs] /\ call \in Calls /\ edits \in Nat
    BY FollowUpsAssumption DEF Typed, TypeOK
  <1> USE <1>0 DEF Exclusive, Calling, At
  <1>1. ASSUME NEW w \in Workers, Deliver(w) \/ PickUp(w) PROVE Exclusive'
    BY <1>1, BeginType DEF Deliver, PickUp, shop, bounds, Steps, Stages
  <1>2. ASSUME NEW w \in Workers, Decide(w) \/ RunAgain(w) PROVE Exclusive'
    BY <1>2, GotoType DEF Decide, RunAgain, shop, bounds, Steps
  <1>3. ASSUME NEW w \in Workers, RunPipeline(w) PROVE Exclusive'
    <2>1. CASE status \in Final
      BY <1>3, <2>1, BeginType DEF RunPipeline, shop, bounds, Steps, Stages
    <2>2. CASE status \notin Final
      BY <1>3, <2>2, FinishType DEF RunPipeline, shop, bounds
    <2> QED
      BY <2>1, <2>2
  <1>4. ASSUME NEW w \in Workers, Override(w) PROVE Exclusive'
    <2>1. CASE status' = "PENDING"
      BY <1>4, <2>1 DEF Override, shop
    <2>2. CASE status' # "PENDING"
      <3>1. PICK step \in {"prepare", "stage"} : Begin(w, step, status')
        BY <1>4, <2>2 DEF Override
      <3>2. status' \in Stages /\ step \in Steps
        BY <1>4, <2>2 DEF Override, OrderStatus, Stages, Steps
      <3>3. job'[w].pc \in {"prepare", "stage"} /\ \A v \in Workers \ {w} : job'[v] = job[v]
        BY <3>1, <3>2, BeginType
      <3> QED
        BY <1>4, <3>3 DEF Override, shop
    <2> QED
      BY <2>1, <2>2
  <1>5. ASSUME NEW w \in Workers, PrepareCall(w) PROVE Exclusive'
    <2>1. CASE job[w].goal \in StoreOn
      <3>1. \/ call' = call
            \/ call = NoCall
        BY <1>5, <2>1, NewCall DEF PrepareCall
      <3>2. \A v \in Workers : Calling(v) => call' = call
        BY <3>1 DEF Typed, CallExists, CallSteps
      <3> QED
        BY <1>5, <2>1, <3>2, GotoType DEF PrepareCall, bounds, Steps
    <2>2. CASE job[w].goal \notin StoreOn
      BY <1>5, <2>2, GotoType DEF PrepareCall, bounds, Steps
    <2> QED
      BY <2>1, <2>2
  <1>6. ASSUME NEW w \in Workers, ReadCall(w) PROVE Exclusive'
    BY <1>6, GotoType DEF ReadCall, shop, bounds, Steps
  <1>7. ASSUME NEW w \in Workers, MarkUnconfigured(w) PROVE Exclusive'
    BY <1>7 DEF MarkUnconfigured, bounds
  <1>8. ASSUME NEW w \in Workers, ClaimCall(w) PROVE Exclusive'
    <2>1. CASE call.state \in Claimable
      <3>1. \A v \in Workers : ~Calling(v)
        BY <1>8, <2>1 DEF Claimable, ClaimCall, bounds
      <3>2. call'.state = "SENDING"
        BY <1>8, <2>1 DEF ClaimCall, Calls, NoCall
      <3> QED
        BY <1>8, <2>1, <3>1, <3>2, GotoType DEF ClaimCall, bounds, Steps
    <2>2. CASE call.state \notin Claimable
      BY <1>8, <2>2, GotoType DEF ClaimCall, bounds, Steps
    <2> QED
      BY <2>1, <2>2
  <1>9. ASSUME NEW w \in Workers, SetStatus(w) \/ AddNote(w) PROVE Exclusive'
    <2>1. PICK step \in {"note", "sent", "failed"} : Goto(w, step)
      BY <1>9 DEF SetStatus, AddNote
    <2>2. job'[w].pc = step /\ \A v \in Workers \ {w} : job'[v] = job[v]
      BY <2>1, GotoType DEF Steps
    <2> QED
      BY <1>9, <2>2 DEF SetStatus, AddNote, bounds
  <1>10. ASSUME NEW w \in Workers, MarkCall(w) PROVE Exclusive'
    <2>1. \A v \in Workers \ {w} : ~Calling(v)
      BY <1>10 DEF MarkCall, bounds
    <2> QED
      BY <1>10, <2>1, GotoType DEF MarkCall, bounds, Steps
  <1>11. ASSUME NEW w \in Workers, CheckStage(w) PROVE Exclusive'
    <2>1. CASE Due(job[w].goal)
      BY <1>11, <2>1, GotoType DEF CheckStage, shop, bounds, Steps
    <2>2. CASE ~Due(job[w].goal)
      BY <1>11, <2>2, FinishType DEF CheckStage, shop, bounds
    <2> QED
      BY <2>1, <2>2
  <1>12. ASSUME NEW w \in Workers, React(w) \/ WriteStage(w) PROVE Exclusive'
    <2>1. Goto(w, "write") \/ Finish(w)
      BY <1>12 DEF React, WriteStage
    <2>2. job'[w].pc \in {"write", "idle"} /\ \A v \in Workers \ {w} : job'[v] = job[v]
      BY <2>1, GotoType, FinishType DEF Steps
    <2> QED
      BY <1>12, <2>2 DEF React, WriteStage, shop, bounds
  <1>13. ASSUME EditStore PROVE Exclusive'
    BY <1>13 DEF EditStore
  <1>14. ASSUME Crash PROVE Exclusive'
    BY <1>14, IdleType DEF Crash, shop
  <1>15. ASSUME UNCHANGED vars PROVE Exclusive'
    BY <1>15 DEF vars, shop, bounds
  <1> QED
    BY <1>1, <1>2, <1>3, <1>4, <1>5, <1>6, <1>7, <1>8, <1>9, <1>10, <1>11, <1>12,
       <1>13, <1>14, <1>15 DEF Next, Task

(* Two tasks never call the store for one order at a time: the row is      *)
(* claimed before update_order is called (store.py:128-132).               *)
THEOREM CallersExclude == Spec => []OneStoreCaller
  <1>1. Exclusive => OneStoreCaller
    BY DEF Exclusive, OneStoreCaller
  <1> QED
    BY <1>1, TypedAlways, ExclusiveInit, ExclusiveStep, PTL DEF Spec

------------------------------------------------------------------------------
(* What a SENT row stands for *)

Told ==
    /\ store \in {Nothing, call.outcome}
    /\ \A w \in Workers : job[w].pc \in {"note", "sent"} => store = call.outcome
    /\ SentWasTold

LEMMA ToldInit == Init => Told
  BY IdleType DEF Init, Told, SentWasTold, NoCall, Nothing

LEMMA ToldStep == Typed /\ Told /\ [Next]_vars => Told'
  <1> SUFFICES ASSUME Typed, Told, [Next]_vars PROVE Told'
    OBVIOUS
  <1>0. job \in [Workers -> Jobs] /\ call \in Calls
    BY DEF Typed, TypeOK
  <1> USE <1>0 DEF Told, SentWasTold, At
  <1>1. ASSUME NEW w \in Workers, Deliver(w) \/ PickUp(w) PROVE Told'
    BY <1>1, BeginType DEF Deliver, PickUp, shop, Steps, Stages
  <1>2. ASSUME NEW w \in Workers, Decide(w) \/ RunAgain(w) \/ ReadCall(w) PROVE Told'
    <2>1. PICK step \in {"run", "claim", "unconfigured"} : Goto(w, step)
      BY <1>2 DEF Decide, RunAgain, ReadCall
    <2>2. job'[w].pc = step /\ \A v \in Workers \ {w} : job'[v] = job[v]
      BY <2>1, GotoType DEF Steps
    <2> QED
      BY <1>2, <2>2 DEF Decide, RunAgain, ReadCall, shop
  <1>3. ASSUME NEW w \in Workers, RunPipeline(w) PROVE Told'
    <2>1. CASE status \in Final
      BY <1>3, <2>1, BeginType DEF RunPipeline, shop, Steps, Stages
    <2>2. CASE status \notin Final
      BY <1>3, <2>2, FinishType DEF RunPipeline, shop
    <2> QED
      BY <2>1, <2>2
  <1>4. ASSUME NEW w \in Workers, Override(w) PROVE Told'
    <2>1. CASE status' = "PENDING"
      BY <1>4, <2>1 DEF Override, shop
    <2>2. CASE status' # "PENDING"
      <3>1. PICK step \in {"prepare", "stage"} : Begin(w, step, status')
        BY <1>4, <2>2 DEF Override
      <3>2. status' \in Stages /\ step \in Steps
        BY <1>4, <2>2 DEF Override, OrderStatus, Stages, Steps
      <3>3. job'[w].pc \in {"prepare", "stage"} /\ \A v \in Workers \ {w} : job'[v] = job[v]
        BY <3>1, <3>2, BeginType
      <3> QED
        BY <1>4, <3>3 DEF Override, shop
    <2> QED
      BY <2>1, <2>2
  <1>5. ASSUME NEW w \in Workers, PrepareCall(w) PROVE Told'
    <2>1. \A v \in Workers : job'[v].pc \in {"note", "sent"} =>
            job[v].pc \in {"note", "sent"} /\ call # NoCall
      BY <1>5, GotoType DEF PrepareCall, Steps, Typed, CallExists, CallSteps
    <2>2. CASE call' = call
      BY <1>5, <2>1, <2>2 DEF PrepareCall
    <2>3. CASE call' # call
      <3>1. call = NoCall /\ call' = [state |-> "PENDING", outcome |-> job[w].goal]
        BY <1>5, <2>3, NewCall DEF PrepareCall
      <3>2. store = Nothing
        BY <3>1 DEF NoCall
      <3> QED
        BY <1>5, <2>1, <3>1, <3>2 DEF PrepareCall
    <2> QED
      BY <2>2, <2>3
  <1>6. ASSUME NEW w \in Workers, MarkUnconfigured(w) \/ ClaimCall(w) \/ MarkCall(w) PROVE Told'
    <2>1. call # NoCall
      BY <1>6 DEF MarkUnconfigured, ClaimCall, MarkCall, Typed, CallExists, CallSteps
    <2>2. call'.outcome = call.outcome
      BY <1>6, <2>1, CallType DEF MarkUnconfigured, ClaimCall, MarkCall, CallState
    <2>3. call'.state = "SENT" => call.state = "SENT" \/ At(w, "sent")
      BY <1>6, <2>1, CallType DEF MarkUnconfigured, ClaimCall, MarkCall, CallState
    <2>4. PICK step \in {"stage", "status"} : Goto(w, step)
      BY <1>6 DEF MarkUnconfigured, ClaimCall, MarkCall
    <2>5. job'[w].pc = step /\ \A v \in Workers \ {w} : job'[v] = job[v]
      BY <2>4, GotoType DEF Steps
    <2>6. store' = store
      BY <1>6 DEF MarkUnconfigured, ClaimCall, MarkCall
    <2> QED
      BY <2>2, <2>3, <2>5, <2>6
  <1>7. ASSUME NEW w \in Workers, SetStatus(w) PROVE Told'
    <2>1. PICK step \in {"note", "sent", "failed"} : Goto(w, step)
      BY <1>7 DEF SetStatus
    <2>2. job'[w].pc = step /\ \A v \in Workers \ {w} : job'[v] = job[v]
      BY <2>1, GotoType DEF Steps
    <2>3. CASE store' = call.outcome
      BY <1>7, <2>2, <2>3 DEF SetStatus
    <2>4. CASE Goto(w, "failed") /\ store' = store
      BY <1>7, <2>2, <2>4, GotoType DEF SetStatus, Steps
    <2> QED
      BY <1>7, <2>3, <2>4 DEF SetStatus
  <1>8. ASSUME NEW w \in Workers, AddNote(w) PROVE Told'
    <2>1. PICK step \in {"sent", "failed"} : Goto(w, step)
      BY <1>8 DEF AddNote
    <2>2. job'[w].pc = step /\ \A v \in Workers \ {w} : job'[v] = job[v]
      BY <2>1, GotoType DEF Steps
    <2> QED
      BY <1>8, <2>2 DEF AddNote
  <1>9. ASSUME NEW w \in Workers, CheckStage(w) \/ React(w) \/ WriteStage(w) PROVE Told'
    <2>1. Goto(w, "react") \/ Goto(w, "write") \/ Finish(w)
      BY <1>9 DEF CheckStage, React, WriteStage
    <2>2. /\ job'[w].pc \in {"react", "write", "idle"}
          /\ \A v \in Workers \ {w} : job'[v] = job[v]
      BY <2>1, GotoType, FinishType DEF Steps
    <2> QED
      BY <1>9, <2>2 DEF CheckStage, React, WriteStage, shop
  <1>10. ASSUME EditStore \/ UNCHANGED vars PROVE Told'
    BY <1>10 DEF EditStore, vars, shop
  <1>11. ASSUME Crash PROVE Told'
    BY <1>11, IdleType DEF Crash, shop
  <1> QED
    BY <1>1, <1>2, <1>3, <1>4, <1>5, <1>6, <1>7, <1>8, <1>9, <1>10, <1>11 DEF Next, Task

(* A row that is SENT stands for a status the store has: mark_sent comes   *)
(* after the calls (store.py:155-172), and no other step writes SENT.      *)
THEOREM SentIsTold == Spec => []SentWasTold
  <1>1. Told => SentWasTold
    BY DEF Told
  <1> QED
    BY <1>1, TypedAlways, ToldInit, ToldStep, PTL DEF Spec

------------------------------------------------------------------------------
(* The note: it is added between the claim and the SENT of one row, and    *)
(* with one caller at a time nobody is before it when it has been added.   *)

Noted ==
    edits = 0 /\ "note_lost" \notin faults =>
        \/ notes = 0
        \/ /\ notes = 1
           /\ \/ call.state = "SENT"
              \/ /\ call.state = "SENDING"
                 /\ \A w \in Workers : job[w].pc \notin {"status", "note", "failed"}

LEMMA NotedInit == Init => Noted
  BY DEF Init, Noted

LEMMA NotedStep == Typed /\ Exclusive /\ Noted /\ [Next]_vars => Noted'
  <1> SUFFICES ASSUME Typed, Exclusive, Noted, [Next]_vars,
                      edits' = 0, "note_lost" \notin faults'
               PROVE  Noted'
    BY DEF Noted
  <1>0. /\ job \in [Workers -> Jobs] /\ call \in Calls /\ edits \in Nat
        /\ notes \in Nat /\ NoteCap \in Nat \ {0}
    BY FollowUpsAssumption DEF Typed, TypeOK
  <1> USE <1>0 DEF Noted, At
  <1>1. ASSUME NEW w \in Workers,
               Deliver(w) \/ PickUp(w) \/ Override(w) \/ Decide(w) \/ RunAgain(w)
        PROVE  Noted'
    <2>1. CASE UNCHANGED job
      BY <1>1, <2>1 DEF Deliver, PickUp, Override, Decide, RunAgain, shop, bounds
    <2>2. CASE \E step \in {"run", "prepare", "stage"}, goal \in Stages :
                  Goto(w, step) \/ Begin(w, step, goal)
      <3>1. /\ job'[w].pc \in {"run", "prepare", "stage"}
            /\ \A v \in Workers \ {w} : job'[v] = job[v]
        BY <2>2, GotoType, BeginType DEF Steps
      <3> QED
        BY <1>1, <3>1 DEF Deliver, PickUp, Override, Decide, RunAgain, shop, bounds
    <2> QED
      BY <1>1, <2>1, <2>2 DEF Deliver, PickUp, Override, Decide, RunAgain, OrderStatus, Stages
  <1>2. ASSUME NEW w \in Workers, RunPipeline(w) \/ ReadCall(w) PROVE Noted'
    <2>1. \/ \E goal \in Stages : Begin(w, "prepare", goal)
          \/ \E step \in {"claim", "unconfigured"} : Goto(w, step)
          \/ Finish(w)
      BY <1>2 DEF RunPipeline, ReadCall, Stages
    <2>2. /\ job'[w].pc \notin {"status", "note", "failed"}
          /\ \A v \in Workers \ {w} : job'[v] = job[v]
      BY <2>1, GotoType, BeginType, FinishType DEF Steps
    <2> QED
      BY <1>2, <2>2 DEF RunPipeline, ReadCall, shop, bounds
  <1>3. ASSUME NEW w \in Workers, PrepareCall(w) PROVE Noted'
    <2>1. call' = call \/ call = NoCall
      BY <1>3, NewCall DEF PrepareCall
    <2>2. CASE call = NoCall
      BY <1>3, <2>2 DEF PrepareCall, bounds, NoCall, Nothing
    <2>3. CASE call' = call
      <3>1. /\ job'[w].pc \in {"read", "stage"}
            /\ \A v \in Workers \ {w} : job'[v] = job[v]
        BY <1>3, GotoType DEF PrepareCall, Steps
      <3> QED
        BY <1>3, <2>3, <3>1 DEF PrepareCall, bounds
    <2> QED
      BY <2>1, <2>2, <2>3
  <1>4. ASSUME NEW w \in Workers, MarkUnconfigured(w) PROVE Noted'
    BY <1>4 DEF MarkUnconfigured, bounds, Exclusive
  <1>5. ASSUME NEW w \in Workers, ClaimCall(w) PROVE Noted'
    <2>1. CASE call.state \in Claimable
      BY <1>5, <2>1 DEF ClaimCall, Claimable, bounds
    <2>2. CASE call.state \notin Claimable
      BY <1>5, <2>2, GotoType DEF ClaimCall, bounds, Steps
    <2> QED
      BY <2>1, <2>2
  <1>6. ASSUME NEW w \in Workers, SetStatus(w) \/ AddNote(w) PROVE Noted'
    <2>1. notes = 0
      <3>1. call.state = "SENDING"
        BY <1>6 DEF Exclusive, Calling, SetStatus, AddNote, bounds
      <3> QED
        BY <1>6, <3>1 DEF SetStatus, AddNote, bounds
    <2>2. CASE SetStatus(w)
      BY <2>1, <2>2 DEF SetStatus
    <2>3. CASE AddNote(w) /\ notes' = notes
      BY <2>1, <2>3
    <2>4. CASE AddNote(w) /\ notes' = 1
      <3>1. Goto(w, "sent")
        BY <2>1, <2>4 DEF AddNote
      <3>2. job'[w].pc = "sent" /\ \A v \in Workers \ {w} : job'[v] = job[v]
        BY <3>1, GotoType DEF Steps
      <3>3. \A v \in Workers \ {w} : ~Calling(v)
        BY <2>4 DEF Exclusive, Calling, AddNote, bounds
      <3>4. call'.state = "SENDING"
        BY <2>4 DEF Exclusive, Calling, AddNote, bounds
      <3> QED
        BY <2>4, <3>2, <3>3, <3>4 DEF Calling
    <2> QED
      BY <1>6, <2>1, <2>2, <2>3, <2>4 DEF AddNote
  <1>7. ASSUME NEW w \in Workers, MarkCall(w) PROVE Noted'
    <2>1. CASE notes = 0
      BY <1>7, <2>1 DEF MarkCall
    <2>2. CASE notes = 1
      <3>1. call.state = "SENDING"
        BY <1>7 DEF Exclusive, Calling, MarkCall, bounds
      <3>2. At(w, "sent")
        BY <1>7, <2>2, <3>1 DEF MarkCall, bounds
      <3>3. call # NoCall
        BY <3>1 DEF NoCall, Nothing
      <3>4. call'.state = "SENT"
        BY <1>7, <3>2, <3>3, CallType DEF MarkCall, CallState
      <3> QED
        BY <1>7, <2>2, <3>4 DEF MarkCall
    <2> QED
      BY <1>7, <2>1, <2>2 DEF MarkCall, bounds
  <1>8. ASSUME NEW w \in Workers, CheckStage(w) \/ React(w) \/ WriteStage(w) PROVE Noted'
    <2>1. Goto(w, "react") \/ Goto(w, "write") \/ Finish(w)
      BY <1>8 DEF CheckStage, React, WriteStage
    <2>2. /\ job'[w].pc \in {"react", "write", "idle"}
          /\ \A v \in Workers \ {w} : job'[v] = job[v]
      BY <2>1, GotoType, FinishType DEF Steps
    <2> QED
      BY <1>8, <2>2 DEF CheckStage, React, WriteStage, shop, bounds
  <1>9. ASSUME EditStore PROVE Noted'
    BY <1>9 DEF EditStore
  <1>10. ASSUME Crash PROVE Noted'
    BY <1>10, IdleType DEF Crash, shop
  <1>11. ASSUME UNCHANGED vars PROVE Noted'
    BY <1>11 DEF vars, shop, bounds
  <1> QED
    BY <1>1, <1>2, <1>3, <1>4, <1>5, <1>6, <1>7, <1>8, <1>9, <1>10, <1>11 DEF Next, Task

(* The store's order carries the note once over every retry, override and  *)
(* crash, as long as no answer to the note is lost and no credentials are  *)
(* edited (store.py:128-172, woocommerce.py:137-147).                      *)
THEOREM NoteIsAddedOnce == Spec => []NotedOnce
  <1>1. Noted => NotedOnce
    BY DEF Noted, NotedOnce
  <1> QED
    BY <1>1, TypedAlways, ExclusiveInit, ExclusiveStep, NotedInit, NotedStep, PTL DEF Spec

------------------------------------------------------------------------------
(* Without an override the status is decided once, so every final status a *)
(* task or the row carries is that of the order.                           *)

Decided ==
    overrides = 0 =>
        /\ call.outcome \in Final => call.outcome = status
        /\ store \in Final => store = status
        /\ shown \in Final => shown = status
        /\ \A w \in Workers : job[w].goal \in Final => job[w].goal = status

LEMMA DecidedInit == Init => Decided
  BY IdleType DEF Init, Decided, NoCall, Nothing, Final

LEMMA DecidedStep == Typed /\ Told /\ Decided /\ [Next]_vars => Decided'
  <1> SUFFICES ASSUME Typed, Told, Decided, [Next]_vars, overrides' = 0 PROVE Decided'
    BY DEF Decided
  <1>0. job \in [Workers -> Jobs] /\ call \in Calls /\ overrides \in Nat
    BY FollowUpsAssumption DEF Typed, TypeOK
  <1> USE <1>0 DEF Decided, At
  <1>1. ASSUME NEW w \in Workers, Deliver(w) \/ PickUp(w) PROVE Decided'
    <2>1. \E goal \in Stages \ Final : Begin(w, "stage", goal)
      BY <1>1 DEF Deliver, PickUp, Stages, Final
    <2>2. job'[w].goal \notin Final /\ \A v \in Workers \ {w} : job'[v] = job[v]
      BY <2>1, BeginType DEF Steps
    <2> QED
      BY <1>1, <2>2 DEF Deliver, PickUp, shop, source, bounds
  <1>2. ASSUME NEW w \in Workers, Decide(w) PROVE Decided'
    <2>1. job'[w].goal = job[w].goal /\ \A v \in Workers \ {w} : job'[v] = job[v]
      BY <1>2, GotoType DEF Decide, Steps
    <2>2. "PENDING" \notin Final
      BY DEF Final
    <2>3. \A v \in Workers : job[v].goal \notin Final
      BY <1>2, <2>2 DEF Decide, bounds
    <2>4. call.outcome \notin Final /\ store \notin Final /\ shown \notin Final
      BY <1>2, <2>2 DEF Decide, bounds
    <2> QED
      BY <1>2, <2>1, <2>3, <2>4 DEF Decide, shop, source
  <1>3. ASSUME NEW w \in Workers, RunAgain(w) \/ ReadCall(w) PROVE Decided'
    <2>1. \E step \in {"run", "claim", "unconfigured"} : Goto(w, step)
      BY <1>3 DEF RunAgain, ReadCall
    <2>2. job'[w].goal = job[w].goal /\ \A v \in Workers \ {w} : job'[v] = job[v]
      BY <2>1, GotoType DEF Steps
    <2> QED
      BY <1>3, <2>2 DEF RunAgain, ReadCall, shop, source, bounds
  <1>4. ASSUME NEW w \in Workers, RunPipeline(w) PROVE Decided'
    <2>1. job'[w].goal \in {status, Nothing} /\ \A v \in Workers \ {w} : job'[v] = job[v]
      BY <1>4, BeginType, FinishType DEF RunPipeline, Steps, Stages
    <2>2. Nothing \notin Final
      BY DEF Nothing, Final
    <2> QED
      BY <1>4, <2>1, <2>2 DEF RunPipeline, shop, source, bounds
  <1>5. ASSUME NEW w \in Workers, Override(w) PROVE Decided'
    BY <1>5 DEF Override
  <1>6. ASSUME NEW w \in Workers, PrepareCall(w) PROVE Decided'
    <2>1. job'[w].goal = job[w].goal /\ \A v \in Workers \ {w} : job'[v] = job[v]
      BY <1>6, GotoType DEF PrepareCall, Steps
    <2>2. \/ call' = call
          \/ call'.outcome = job[w].goal
      BY <1>6, NewCall DEF PrepareCall
    <2> QED
      BY <1>6, <2>1, <2>2 DEF PrepareCall, source, bounds
  <1>7. ASSUME NEW w \in Workers, MarkUnconfigured(w) \/ ClaimCall(w) \/ MarkCall(w)
        PROVE  Decided'
    <2>1. call # NoCall
      BY <1>7 DEF MarkUnconfigured, ClaimCall, MarkCall, Typed, CallExists, CallSteps
    <2>2. call'.outcome = call.outcome
      BY <1>7, <2>1, CallType DEF MarkUnconfigured, ClaimCall, MarkCall, CallState
    <2>3. \E step \in {"stage", "status"} : Goto(w, step)
      BY <1>7 DEF MarkUnconfigured, ClaimCall, MarkCall
    <2>4. job'[w].goal = job[w].goal /\ \A v \in Workers \ {w} : job'[v] = job[v]
      BY <2>3, GotoType DEF Steps
    <2> QED
      BY <1>7, <2>2, <2>4 DEF MarkUnconfigured, ClaimCall, MarkCall, source, bounds
  <1>8. ASSUME NEW w \in Workers, SetStatus(w) \/ AddNote(w) PROVE Decided'
    <2>1. \E step \in {"note", "sent", "failed"} : Goto(w, step)
      BY <1>8 DEF SetStatus, AddNote
    <2>2. job'[w].goal = job[w].goal /\ \A v \in Workers \ {w} : job'[v] = job[v]
      BY <2>1, GotoType DEF Steps
    <2>3. store' \in {store, call.outcome}
      BY <1>8 DEF SetStatus, AddNote
    <2> QED
      BY <1>8, <2>2, <2>3 DEF SetStatus, AddNote, source, bounds
  <1>9. ASSUME NEW w \in Workers, CheckStage(w) \/ React(w) \/ WriteStage(w) PROVE Decided'
    <2>1. Goto(w, "react") \/ Goto(w, "write") \/ Finish(w)
      BY <1>9 DEF CheckStage, React, WriteStage
    <2>2. /\ job'[w].goal \in {job[w].goal, Nothing}
          /\ \A v \in Workers \ {w} : job'[v] = job[v]
      BY <2>1, GotoType, FinishType DEF Steps
    <2>3. shown' \in {shown, job[w].goal}
      BY <1>9 DEF CheckStage, React, WriteStage, source
    <2>4. Nothing \notin Final
      BY DEF Nothing, Final
    <2> QED
      BY <1>9, <2>2, <2>3, <2>4 DEF CheckStage, React, WriteStage, shop, bounds
  <1>10. ASSUME EditStore \/ UNCHANGED vars PROVE Decided'
    BY <1>10 DEF EditStore, vars, shop, source, bounds
  <1>11. ASSUME Crash PROVE Decided'
    <2>1. Nothing \notin Final
      BY DEF Nothing, Final
    <2> QED
      BY <1>11, <2>1, IdleType DEF Crash, shop, source
  <1> QED
    BY <1>1, <1>2, <1>3, <1>4, <1>5, <1>6, <1>7, <1>8, <1>9, <1>10, <1>11 DEF Next, Task

(* Without an override, what the store and the source channel are told is  *)
(* the status of the order, although run_pipeline acts on a status read in *)
(* an earlier transaction (finalizer.py:205-231).                          *)
THEOREM DecisionsGoOut == Spec => []OnlyDecisionsGoOut
  <1>1. Typed /\ Decided => OnlyDecisionsGoOut
    BY FollowUpsAssumption DEF Typed, TypeOK, Decided, OnlyDecisionsGoOut
  <1> QED
    BY <1>1, TypedAlways, ToldInit, ToldStep, DecidedInit, DecidedStep, PTL DEF Spec

------------------------------------------------------------------------------
(* The update is in hand: as long as the process did not die, a decided    *)
(* order has a task that will write its row, and a row that is waiting or  *)
(* being sent the task that goes on with it.                               *)

PreparesFinal == \A w \in Workers : job[w].pc = "prepare" => job[w].goal \in Final
InHand == PreparesFinal /\ UpdateIsInHand

LEMMA InHandInit == Init => InHand
  BY FollowUpsAssumption, IdleType
  DEF Init, InHand, PreparesFinal, UpdateIsInHand, NoCall, Nothing, Final

(* A step of one task leaves what the others have in hand with them. *)
LEMMA HandedOver ==
  ASSUME InHand, UNCHANGED crashes, NEW w \in Workers,
         \A v \in Workers \ {w} : job'[v] = job[v],
         job'[w].pc = "prepare" => job'[w].goal \in Final,
         call' = NoCall /\ status' \in StoreOn /\ overrides' = 0 =>
            \/ job'[w].pc \in {"run", "prepare"}
            \/ /\ call = NoCall /\ status \in StoreOn /\ overrides = 0
               /\ job[w].pc \notin {"run", "prepare"},
         call'.state = "PENDING" => Waiting(w)' \/ (call.state = "PENDING" /\ ~Waiting(w)),
         call'.state = "SENDING" => Calling(w)' \/ (call.state = "SENDING" /\ ~Calling(w))
  PROVE  InHand'
  <1>1. PreparesFinal'
    BY DEF InHand, PreparesFinal
  <1>2. ASSUME crashes = 0, call' = NoCall, status' \in StoreOn, overrides' = 0
        PROVE  \E v \in Workers : job'[v].pc \in {"run", "prepare"}
    BY <1>2 DEF InHand, UpdateIsInHand
  <1>3. ASSUME crashes = 0, call'.state = "PENDING" PROVE \E v \in Workers : Waiting(v)'
    BY <1>3 DEF InHand, UpdateIsInHand, Waiting
  <1>4. ASSUME crashes = 0, call'.state = "SENDING" PROVE \E v \in Workers : Calling(v)'
    BY <1>4 DEF InHand, UpdateIsInHand, Calling
  <1> QED
    BY <1>1, <1>2, <1>3, <1>4 DEF InHand, UpdateIsInHand

LEMMA InHandStep == Typed /\ Decided /\ InHand /\ [Next]_vars => InHand'
  <1> SUFFICES ASSUME Typed, Decided, InHand, [Next]_vars PROVE InHand'
    OBVIOUS
  <1>0. /\ job \in [Workers -> Jobs] /\ call \in Calls /\ crashes \in Nat /\ overrides \in Nat
        /\ StoreOn \subseteq Final /\ status \in OrderStatus
        /\ call = NoCall => call.state = Nothing
    BY FollowUpsAssumption DEF Typed, TypeOK, NoCall
  <1> USE <1>0 DEF At
  <1>1. ASSUME NEW w \in Workers, Deliver(w) \/ PickUp(w) PROVE InHand'
    <2>1. job'[w].pc = "stage" /\ \A v \in Workers \ {w} : job'[v] = job[v]
      BY <1>1, BeginType DEF Deliver, PickUp, Steps, Stages
    <2> QED
      BY <1>1, <2>1, HandedOver DEF Deliver, PickUp, shop, bounds, Waiting, Calling
  <1>2. ASSUME NEW w \in Workers, Decide(w) \/ RunAgain(w) PROVE InHand'
    <2>1. job'[w].pc = "run" /\ \A v \in Workers \ {w} : job'[v] = job[v]
      BY <1>2, GotoType DEF Decide, RunAgain, Steps
    <2> QED
      BY <1>2, <2>1, HandedOver DEF Decide, RunAgain, shop, bounds, Waiting, Calling
  <1>3. ASSUME NEW w \in Workers, RunPipeline(w) PROVE InHand'
    <2>1. /\ \A v \in Workers \ {w} : job'[v] = job[v]
          /\ IF status \in Final THEN job'[w].pc = "prepare" /\ job'[w].goal = status
                                 ELSE job'[w].pc = "idle"
      BY <1>3, BeginType, FinishType DEF RunPipeline, Steps, Stages
    <2> QED
      BY <1>3, <2>1, HandedOver DEF RunPipeline, shop, bounds, Waiting, Calling
  <1>4. ASSUME NEW w \in Workers, Override(w) PROVE InHand'
    <2>1. overrides' # 0 /\ UNCHANGED <<call, crashes>>
      BY <1>4 DEF Override, shop
    <2>2. CASE UNCHANGED job
      BY <2>1, <2>2 DEF InHand, PreparesFinal, UpdateIsInHand, Waiting, Calling
    <2>3. CASE status' \in Final /\ \E step \in {"prepare", "stage"} : Begin(w, step, status')
      <3>1. /\ job'[w].pc \in {"prepare", "stage"} /\ job'[w].goal \in Final
            /\ \A v \in Workers \ {w} : job'[v] = job[v]
        BY <2>3, BeginType DEF Steps, Stages
      <3> QED
        BY <1>4, <2>1, <3>1, HandedOver DEF Override, Waiting, Calling
    <2> QED
      BY <1>4, <2>2, <2>3 DEF Override, OrderStatus, Final
  (* Without an override the row is made for the status of the order. *)
  <1>5. ASSUME NEW w \in Workers, PrepareCall(w) PROVE InHand'
    <2>1. job[w].goal \in Final /\ (overrides = 0 => job[w].goal = status)
      BY <1>5 DEF PrepareCall, InHand, PreparesFinal, Decided
    <2>2. UNCHANGED <<status, overrides, crashes>>
      BY <1>5 DEF PrepareCall, bounds
    <2>3. CASE job[w].goal \in StoreOn
      <3>1. job'[w].pc = "read" /\ \A v \in Workers \ {w} : job'[v] = job[v]
        BY <1>5, <2>3, GotoType DEF PrepareCall, Steps
      <3>2. call' # NoCall /\ (call' = call \/ call'.state = "PENDING")
        BY <1>5, <2>3, NewCall DEF PrepareCall
      <3> QED
        BY <1>5, <2>2, <3>1, <3>2, HandedOver DEF PrepareCall, Waiting, Calling
    <2>4. CASE job[w].goal \notin StoreOn
      <3>1. job'[w].pc = "stage" /\ \A v \in Workers \ {w} : job'[v] = job[v]
        BY <1>5, <2>4, GotoType DEF PrepareCall, Steps
      <3>2. UNCHANGED call /\ ~(status' \in StoreOn /\ overrides' = 0)
        BY <1>5, <2>1, <2>2, <2>4 DEF PrepareCall
      <3> QED
        BY <1>5, <2>2, <3>1, <3>2, HandedOver DEF PrepareCall, Waiting, Calling
    <2> QED
      BY <2>3, <2>4
  <1>6. ASSUME NEW w \in Workers, ReadCall(w) PROVE InHand'
    <2>1. job'[w].pc \in {"claim", "unconfigured"} /\ \A v \in Workers \ {w} : job'[v] = job[v]
      BY <1>6, GotoType DEF ReadCall, Steps
    <2>2. job[w].pc = "read" /\ UNCHANGED <<call, status, overrides, crashes>>
      BY <1>6 DEF ReadCall, shop, bounds
    <2> QED
      BY <2>1, <2>2, HandedOver DEF Waiting, Calling
  <1>7. ASSUME NEW w \in Workers, MarkUnconfigured(w) \/ MarkCall(w) PROVE InHand'
    <2>1. call # NoCall
      BY <1>7 DEF MarkUnconfigured, MarkCall, Typed, CallExists, CallSteps
    <2>2. PICK state \in {"SENT", "FAILED"} : call' = [call EXCEPT !.state = state]
      BY <1>7 DEF MarkUnconfigured, MarkCall
    <2>3. call' # NoCall /\ call'.state = state
      BY <2>1, <2>2, CallType DEF CallState
    <2>4. job'[w].pc = "stage" /\ \A v \in Workers \ {w} : job'[v] = job[v]
      BY <1>7, GotoType DEF MarkUnconfigured, MarkCall, Steps
    <2> QED
      BY <1>7, <2>3, <2>4, HandedOver DEF MarkUnconfigured, MarkCall, bounds
  (* The task that loses the claim leaves the row with the one that won. *)
  <1>8. ASSUME NEW w \in Workers, ClaimCall(w) PROVE InHand'
    <2>1. call # NoCall
      BY <1>8 DEF ClaimCall, Typed, CallExists, CallSteps
    <2>2. CASE call.state \in Claimable
      <3>1. call' # NoCall /\ call'.state = "SENDING"
        BY <1>8, <2>1, <2>2, CallType DEF ClaimCall, CallState
      <3>2. job'[w].pc = "status" /\ \A v \in Workers \ {w} : job'[v] = job[v]
        BY <1>8, <2>2, GotoType DEF ClaimCall, Steps
      <3> QED
        BY <1>8, <3>1, <3>2, HandedOver DEF ClaimCall, bounds, Calling
    <2>3. CASE call.state \notin Claimable
      <3>1. job'[w].pc = "stage" /\ \A v \in Workers \ {w} : job'[v] = job[v]
        BY <1>8, <2>3, GotoType DEF ClaimCall, Steps
      <3>2. UNCHANGED call /\ call.state # "PENDING"
        BY <1>8, <2>3 DEF ClaimCall, Claimable
      <3> QED
        BY <1>8, <2>1, <3>1, <3>2, HandedOver DEF ClaimCall, bounds, Calling
    <2> QED
      BY <2>2, <2>3
  <1>9. ASSUME NEW w \in Workers, SetStatus(w) \/ AddNote(w) PROVE InHand'
    <2>1. PICK step \in {"note", "sent", "failed"} : Goto(w, step)
      BY <1>9 DEF SetStatus, AddNote
    <2>2. job'[w].pc = step /\ \A v \in Workers \ {w} : job'[v] = job[v]
      BY <2>1, GotoType DEF Steps
    <2>3. job[w].pc \in {"status", "note"} /\ UNCHANGED <<call, status, overrides, crashes>>
      BY <1>9 DEF SetStatus, AddNote, bounds
    <2> QED
      BY <2>2, <2>3, HandedOver DEF Waiting, Calling
  <1>10. ASSUME NEW w \in Workers, CheckStage(w) \/ React(w) \/ WriteStage(w) PROVE InHand'
    <2>1. Goto(w, "react") \/ Goto(w, "write") \/ Finish(w)
      BY <1>10 DEF CheckStage, React, WriteStage
    <2>2. /\ job'[w].pc \in {"react", "write", "idle"}
          /\ \A v \in Workers \ {w} : job'[v] = job[v]
      BY <2>1, GotoType, FinishType DEF Steps
    <2> QED
      BY <1>10, <2>2, HandedOver
      DEF CheckStage, React, WriteStage, shop, bounds, Waiting, Calling
  <1>11. ASSUME EditStore \/ UNCHANGED vars PROVE InHand'
    <2>1. UNCHANGED <<job, call, status, overrides, crashes>>
      BY <1>11 DEF EditStore, vars, shop, bounds
    <2> QED
      BY <2>1 DEF InHand, PreparesFinal, UpdateIsInHand, Waiting, Calling
  <1>12. ASSUME Crash PROVE InHand'
    BY <1>12, IdleType DEF Crash, InHand, PreparesFinal, UpdateIsInHand
  <1> QED
    BY <1>1, <1>2, <1>3, <1>4, <1>5, <1>6, <1>7, <1>8, <1>9, <1>10, <1>11, <1>12
    DEF Next, Task

(* As long as the process lives, the store update of a decided order is    *)
(* with a task until it is sent or failed, for any number of tasks, any    *)
(* faults of the store and any edits of its credentials (store.py:97-172). *)
THEOREM UpdatesAreInHand == Spec => []UpdateIsInHand
  <1>1. InHand => UpdateIsInHand
    BY DEF InHand
  <1> QED
    BY <1>1, TypedAlways, ToldInit, ToldStep, DecidedInit, DecidedStep, InHandInit, InHandStep,
       PTL DEF Spec

------------------------------------------------------------------------------
(* A later stage stays, where one task at a time applies stages, none dies *)
(* between the reaction and its record, and no answer to it is lost: each  *)
(* of the three lets the column fall behind what the message shows.        *)

OneAtATime ==
    /\ \A v, w \in Workers : v = w
    /\ MaxCrashes = 0
    /\ \A f \in FaultSets : "reaction_lost" \notin f

(* The column is what the message shows, or is about to be. *)
Recorded ==
    \A w \in Workers :
        /\ shown = IF At(w, "write") THEN job[w].goal ELSE stage
        /\ At(w, "react") => Rank[stage] <= Rank[job[w].goal]

LEMMA RecordedInit == Init => Recorded
  BY IdleType DEF Init, Recorded, At

(* A task that is neither reacting nor recording before or after. *)
LEMMA Elsewhere ==
  ASSUME OneAtATime, Recorded, UNCHANGED source, NEW w \in Workers,
         ~At(w, "write"), ~At(w, "write")', ~At(w, "react")'
  PROVE  Recorded'
  BY DEF OneAtATime, Recorded, At, source

LEMMA RecordedStep ==
  ASSUME OneAtATime, Typed, Recorded, [Next]_vars
  PROVE  Recorded'
  <1>0. job \in [Workers -> Jobs]
    BY DEF Typed, TypeOK
  <1>1. ASSUME NEW w \in Workers, Deliver(w) \/ PickUp(w) PROVE Recorded'
    <2>1. job'[w].pc = "stage"
      BY <1>0, <1>1, BeginType DEF Deliver, PickUp, Steps, Stages
    <2> QED
      BY <1>1, <2>1, Elsewhere DEF Deliver, PickUp, At
  <1>2. ASSUME NEW w \in Workers, Decide(w) \/ RunAgain(w) PROVE Recorded'
    <2>1. job'[w].pc = "run"
      BY <1>0, <1>2, GotoType DEF Decide, RunAgain, Steps
    <2> QED
      BY <1>2, <2>1, Elsewhere DEF Decide, RunAgain, At
  <1>3. ASSUME NEW w \in Workers, RunPipeline(w) PROVE Recorded'
    <2>1. job'[w].pc \in {"prepare", "idle"}
      BY <1>0, <1>3, BeginType, FinishType DEF RunPipeline, Steps, Stages
    <2> QED
      BY <1>3, <2>1, Elsewhere DEF RunPipeline, At
  <1>4. ASSUME NEW w \in Workers, Override(w) PROVE Recorded'
    <2>1. CASE UNCHANGED job
      BY <1>4, <2>1, Elsewhere DEF Override, At
    <2>2. CASE status' \in Final /\ \E step \in {"prepare", "stage"} : Begin(w, step, status')
      <3>1. job'[w].pc \in {"prepare", "stage"}
        BY <1>0, <2>2, BeginType DEF Steps, Stages
      <3> QED
        BY <1>4, <3>1, Elsewhere DEF Override, At
    <2> QED
      BY <1>4, <2>1, <2>2 DEF Override, OrderStatus, Final
  <1>5. ASSUME NEW w \in Workers,
               \/ PrepareCall(w) \/ ReadCall(w) \/ MarkUnconfigured(w) \/ ClaimCall(w)
               \/ SetStatus(w) \/ AddNote(w) \/ MarkCall(w)
        PROVE  Recorded'
    <2>1. \E step \in Steps \ {"react", "write"} : Goto(w, step)
      BY <1>5 DEF PrepareCall, ReadCall, MarkUnconfigured, ClaimCall, SetStatus, AddNote,
           MarkCall, Steps
    <2>2. job'[w].pc \notin {"react", "write"}
      BY <1>0, <2>1, GotoType
    <2>3. UNCHANGED source /\ ~At(w, "write")
      BY <1>5 DEF PrepareCall, ReadCall, MarkUnconfigured, ClaimCall, SetStatus, AddNote,
           MarkCall, At
    <2> QED
      BY <2>2, <2>3, Elsewhere DEF At
  <1>6. ASSUME NEW w \in Workers, CheckStage(w) PROVE Recorded'
    <2>1. CASE Due(job[w].goal)
      <3>1. job'[w].pc = "react" /\ job'[w].goal = job[w].goal
        BY <1>0, <1>6, <2>1, GotoType DEF CheckStage, Steps
      <3> QED
        BY <1>6, <2>1, <3>1 DEF CheckStage, Due, Recorded, OneAtATime, At, source
    <2>2. CASE ~Due(job[w].goal)
      <3>1. job'[w].pc = "idle"
        BY <1>0, <1>6, <2>2, FinishType DEF CheckStage
      <3> QED
        BY <1>6, <3>1, Elsewhere DEF CheckStage, At
    <2> QED
      BY <2>1, <2>2
  <1>7. ASSUME NEW w \in Workers, React(w) PROVE Recorded'
    <2>1. "reaction_lost" \notin faults
      BY DEF OneAtATime, Typed, TypeOK
    <2>2. CASE shown' = job[w].goal /\ Goto(w, "write")
      <3>1. job'[w].pc = "write" /\ job'[w].goal = job[w].goal
        BY <1>0, <2>2, GotoType DEF Steps
      <3> QED
        BY <2>2, <3>1 DEF Recorded, OneAtATime, At
    <2>3. CASE UNCHANGED shown /\ Finish(w)
      <3>1. job'[w].pc = "idle"
        BY <1>0, <2>3, FinishType
      <3> QED
        BY <1>7, <2>3, <3>1, Elsewhere DEF React, At, source
    <2> QED
      BY <1>7, <2>1, <2>2, <2>3 DEF React
  <1>8. ASSUME NEW w \in Workers, WriteStage(w) PROVE Recorded'
    <2>1. job'[w].pc = "idle" /\ stage' = job[w].goal /\ shown' = shown /\ At(w, "write")
      BY <1>0, <1>8, FinishType DEF WriteStage
    <2> QED
      BY <2>1 DEF Recorded, OneAtATime, At
  <1>9. ASSUME EditStore \/ UNCHANGED vars PROVE Recorded'
    BY <1>9 DEF EditStore, vars, source, Recorded, At
  <1>10. ~Crash
    BY FollowUpsAssumption DEF OneAtATime, Crash, Typed, TypeOK
  <1> QED
    BY <1>1, <1>2, <1>3, <1>4, <1>5, <1>6, <1>7, <1>8, <1>9, <1>10 DEF Next, Task

(* "A late RECEIVED must never undo a SUCCESS already shown" holds of one  *)
(* task at a time: apply compares with the column, and the column is what  *)
(* the source message shows (source_reactions.py:66-134).                  *)
THEOREM LaterStaysOneAtATime ==
  ASSUME OneAtATime
  PROVE  Spec => LaterStageStays
  <1>1. Typed /\ Recorded /\ [Next]_vars => Recorded'
    BY RecordedStep
  <1>2. Typed /\ Recorded /\ [Next]_vars => [overrides' = 0 => Rank[shown'] >= Rank[shown]]_vars
    <2> SUFFICES ASSUME Typed, Recorded, [Next]_vars PROVE Rank[shown'] >= Rank[shown]
      OBVIOUS
    <2>1. shown \in DOMAIN Rank /\ \A s \in DOMAIN Rank : Rank[s] \in Nat
      BY FollowUpsAssumption DEF Typed, TypeOK, Rank, Stages, Final, Nothing
    <2>2. CASE UNCHANGED shown
      BY <2>1, <2>2
    <2>3. ASSUME NEW w \in Workers, React(w), shown' = job[w].goal
          PROVE  Rank[shown'] >= Rank[shown]
      <3>1. shown = stage /\ Rank[stage] <= Rank[job[w].goal]
        BY <2>3 DEF Recorded, React, At
      <3>2. Rank[job[w].goal] \in Nat
        BY <2>1, FollowUpsAssumption, <2>3
        DEF Typed, TypeOK, Jobs, Rank
      <3> QED
        BY <2>1, <2>3, <3>1, <3>2
    <2>4. UNCHANGED shown \/ \E w \in Workers : React(w) /\ shown' = job[w].goal
      BY DEF Next, Deliver, PickUp, Decide, RunAgain, Override, Task, RunPipeline, PrepareCall,
         ReadCall, MarkUnconfigured, ClaimCall, SetStatus, AddNote, MarkCall, CheckStage, React,
         WriteStage, EditStore, Crash, source, vars
    <2> QED
      BY <2>2, <2>3, <2>4
  <1> QED
    BY <1>1, <1>2, TypedAlways, RecordedInit, PTL DEF Spec, LaterStageStays
===============================================================================
