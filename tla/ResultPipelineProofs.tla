------------------------- MODULE ResultPipelineProofs -------------------------
(* Theorems about ResultPipeline, for every number of workers and          *)
(* destinations and every configuration.                                   *)
EXTENDS ResultPipeline, TLAPS

------------------------------------------------------------------------------
(* Types *)

(* A task that is between claim and outcome holds a row, and a task at one *)
(* of the outcome-specific steps works for a final outcome.                *)
JobOK ==
    \A w \in Workers :
        /\ job[w].pc \in InFlight => job[w].cur \in Destinations
        /\ job[w].pc \in {"ackGate", "ackClaim"} \cup Applying => job[w].status \in Final

TypeInv == TypeOK /\ JobOK

LEMMA IdleType == Idle \in Jobs
  BY DEF Idle, Jobs, Steps, OrderStatus, NoRow, OrderDispatchState

LEMMA SummaryType == Summary \in OrderDispatchState
  BY DEF Summary, OrderDispatchState

LEMMA OneMoreType == \A n \in 0 .. CopyCap : OneMore(n) \in 0 .. CopyCap
  BY BoundsAssumption DEF OneMore

LEMMA TypeInit == Init => TypeInv
  <1> SUFFICES ASSUME Init PROVE TypeInv
    OBVIOUS
  <1>1. order \in Orders
    BY ConfigAssumption DEF Init, Orders, OrderStatus, OrderDispatchState, AckStatus
  <1>2. job \in [Workers -> Jobs]
    BY IdleType DEF Init
  <1>3. JobOK
    BY DEF Init, JobOK, Idle, InFlight, Applying
  <1> QED
    BY <1>1, <1>2, <1>3, BoundsAssumption DEF Init, TypeInv, TypeOK, RowStatus

(* What a task holds is well typed if its new record is. *)
HoldsOK(j) ==
    /\ j.pc \in InFlight => j.cur \in Destinations
    /\ j.pc \in {"ackGate", "ackClaim"} \cup Applying => j.status \in Final

LEMMA IdleHolds == HoldsOK(Idle)
  BY DEF HoldsOK, Idle, InFlight, Applying

LEMMA JobStep ==
  ASSUME TypeInv, NEW w \in Workers, NEW j \in Jobs, HoldsOK(j),
         job' = [job EXCEPT ![w] = j]
  PROVE  job' \in [Workers -> Jobs] /\ JobOK'
  <1>1. job \in [Workers -> Jobs]
    BY DEF TypeInv, TypeOK
  <1>2. \A v \in Workers : job'[v] = j \/ job'[v] = job[v]
    BY <1>1
  <1>3. \A v \in Workers : HoldsOK(job[v])
    BY DEF TypeInv, JobOK, HoldsOK
  <1>4. \A v \in Workers : HoldsOK(job'[v])
    BY <1>2, <1>3
  <1> QED
    BY <1>1, <1>4 DEF JobOK, HoldsOK

LEMMA FinishType ==
  ASSUME TypeInv, NEW w \in Workers, Finish(w)
  PROVE  job' \in [Workers -> Jobs] /\ JobOK'
  BY JobStep, IdleType, IdleHolds DEF Finish

LEMMA GotoType ==
  ASSUME TypeInv, NEW w \in Workers, NEW step \in Steps, Goto(w, step),
         step \in InFlight => job[w].cur \in Destinations,
         step \in {"ackGate", "ackClaim"} \cup Applying => job[w].status \in Final
  PROVE  job' \in [Workers -> Jobs] /\ JobOK'
  <1> DEFINE j == [job[w] EXCEPT !.pc = step]
  <1>1. job[w] \in Jobs
    BY DEF TypeInv, TypeOK
  <1>2. j \in Jobs /\ HoldsOK(j)
    BY <1>1 DEF Jobs, HoldsOK
  <1>3. job' = [job EXCEPT ![w] = j]
    BY DEF Goto
  <1> QED
    BY <1>2, <1>3, JobStep

LEMMA TypeStep == TypeInv /\ [Next]_vars => TypeInv'
  <1> SUFFICES ASSUME TypeInv, [Next]_vars PROVE TypeInv'
    OBVIOUS
  <1> USE DEF TypeInv
  <1>o. order \in Orders
    BY DEF TypeOK
  <1>j. \A w \in Workers : job[w] \in Jobs
    BY DEF TypeOK
  <1>1. ASSUME NEW w \in Workers, Arrival(w) PROVE TypeInv'
    <2>1. CASE SignalArrives(w)
      BY <2>1, GotoType DEF SignalArrives, Steps, InFlight, Applying, TypeOK
    <2>2. CASE Retry(w)
      BY <2>2, GotoType DEF Retry, Steps, InFlight, Applying, TypeOK
    <2>3. CASE Override(w)
      <3>1. PICK new \in Final, dispatch \in BOOLEAN, acknowledge \in BOOLEAN :
              /\ order' = [order EXCEPT !.status = new]
              /\ job' = IF dispatch
                        THEN [job EXCEPT ![w] = [Idle EXCEPT
                                !.pc = "prepare", !.status = new,
                                !.arming = IF acknowledge THEN "arm" ELSE "disarm",
                                !.acks = acknowledge]]
                        ELSE job
        BY <2>3 DEF Override
      <3>2. order' \in Orders
        BY <3>1, <1>o DEF Orders, OrderStatus, Final
      <3>3. CASE dispatch
        <4> DEFINE j == [Idle EXCEPT !.pc = "prepare", !.status = new,
                           !.arming = IF acknowledge THEN "arm" ELSE "disarm",
                           !.acks = acknowledge]
        <4>1. j \in Jobs /\ HoldsOK(j)
          BY DEF Idle, Jobs, HoldsOK, Steps, Final, OrderStatus, NoRow,
                 OrderDispatchState, InFlight, Applying
        <4>2. job' = [job EXCEPT ![w] = j]
          BY <3>1, <3>3
        <4>3. job' \in [Workers -> Jobs] /\ JobOK'
          BY <4>1, <4>2, JobStep
        <4> QED
          BY <2>3, <3>2, <4>3 DEF Override, TypeOK
      <3>4. CASE ~dispatch
        BY <2>3, <3>1, <3>2, <3>4 DEF Override, TypeOK, JobOK
      <3> QED
        BY <3>3, <3>4
    <2>4. CASE Reopen(w)
      BY <2>4 DEF Reopen, Orders, OrderStatus, AckStatus, TypeOK, JobOK
    <2> QED
      BY <1>1, <2>1, <2>2, <2>3, <2>4 DEF Arrival
  <1>2. ASSUME NEW w \in Workers, Finalizer(w) PROVE TypeInv'
    <2>1. CASE Decide(w)
      <3>1. order' \in Orders
        BY <2>1, <1>o DEF Decide, Orders
      <3>2. Goto(w, "read") \/ Finish(w)
        BY <2>1 DEF Decide
      <3> QED
        BY <2>1, <3>1, <3>2, GotoType, FinishType DEF Decide, TypeOK, Steps, InFlight, Applying
    <2>2. CASE ReadOrder(w)
      <3>1. CASE Finish(w)
        BY <2>2, <3>1, FinishType DEF ReadOrder, TypeOK
      <3>2. CASE ~Finish(w)
        <4>1. PICK a \in {"arm", "keep"}, next \in {"prepare", "arm", "list"} :
                job' = [job EXCEPT ![w] = [Idle EXCEPT
                          !.pc = next, !.status = order.status, !.arming = a]]
          BY <2>2, <3>2 DEF ReadOrder
        <4> DEFINE j == [Idle EXCEPT !.pc = next, !.status = order.status, !.arming = a]
        <4>2. j \in Jobs /\ HoldsOK(j)
          BY <1>o DEF Orders, Idle, Jobs, HoldsOK, Steps, OrderStatus, NoRow,
                     OrderDispatchState, InFlight, Applying
        <4> QED
          BY <2>2, <4>1, <4>2, JobStep DEF ReadOrder, TypeOK
      <3> QED
        BY <3>1, <3>2
    <2> QED
      BY <1>2, <2>1, <2>2 DEF Finalizer
  <1>3. ASSUME NEW w \in Workers, Dispatch(w) PROVE TypeInv'
    <2>1. CASE PrepareDispatch(w)
      <3>1. order' \in Orders
        BY <2>1, <1>o DEF PrepareDispatch, Orders, OrderDispatchState
      <3>2. row' \in [Destinations -> RowStatus]
        BY <2>1 DEF PrepareDispatch, RowStatus, TypeOK
      <3>3. PICK step \in {"list", "arm", "disarm"} : Goto(w, step)
        BY <2>1, <1>j DEF PrepareDispatch, Jobs
      <3>4. job' \in [Workers -> Jobs] /\ JobOK'
        BY <3>3, GotoType DEF Steps, InFlight, Applying
      <3> QED
        BY <2>1, <3>1, <3>2, <3>4 DEF PrepareDispatch, TypeOK
    <2>2. CASE ListOutstanding(w)
      <3> DEFINE j == [job[w] EXCEPT !.pc = "claim",
                         !.queue = {d \in Destinations : row[d] \in Unsent}]
      <3>1. j \in Jobs /\ HoldsOK(j)
        BY <1>j DEF Jobs, HoldsOK, Steps, InFlight, Applying
      <3>2. job' = [job EXCEPT ![w] = j]
        BY <2>2 DEF ListOutstanding, TypeOK
      <3> QED
        BY <2>2, <3>1, <3>2, JobStep DEF ListOutstanding, TypeOK
    <2>3. CASE ClaimRow(w)
      <3>1. PICK d \in job[w].queue :
              LET rest == job[w].queue \ {d} IN
              IF row[d] \in Unsent
              THEN /\ row' = [row EXCEPT ![d] = "SENDING"]
                   /\ job' = [job EXCEPT ![w].pc = "post", ![w].queue = rest, ![w].cur = d]
              ELSE /\ job' = [job EXCEPT ![w].queue = rest]
                   /\ UNCHANGED row
        BY <2>3 DEF ClaimRow
      <3>2. d \in Destinations
        BY <1>j DEF Jobs
      <3>3. row' \in [Destinations -> RowStatus]
        BY <3>1, <3>2 DEF RowStatus, TypeOK
      <3> DEFINE rest == job[w].queue \ {d}
                 j == IF row[d] \in Unsent
                      THEN [job[w] EXCEPT !.pc = "post", !.queue = rest, !.cur = d]
                      ELSE [job[w] EXCEPT !.queue = rest]
      <3>4. j \in Jobs /\ HoldsOK(j)
        BY <1>j, <3>2, <2>3 DEF Jobs, HoldsOK, Steps, InFlight, Applying, ClaimRow, At
      <3>5. job' = [job EXCEPT ![w] = j]
        BY <3>1 DEF TypeOK
      <3> QED
        BY <2>3, <3>3, <3>4, <3>5, JobStep DEF ClaimRow, TypeOK
    <2>4. CASE QueueDone(w)
      BY <2>4, GotoType DEF QueueDone, Steps, InFlight, Applying, TypeOK
    <2>5. CASE Post(w)
      <3>1. job[w].cur \in Destinations
        BY <2>5 DEF Post, At, JobOK, InFlight
      <3>2. copies' \in [Destinations -> 0 .. CopyCap]
        BY <2>5, OneMoreType, <3>1 DEF Post, TypeOK
      <3>3. UNCHANGED job \/ Goto(w, "markSent") \/ Goto(w, "markFailed")
        BY <2>5 DEF Post
      <3>4. job' \in [Workers -> Jobs] /\ JobOK'
        BY <3>1, <3>3, GotoType DEF Steps, InFlight, Applying, JobOK, TypeOK
      <3> QED
        BY <2>5, <3>2, <3>4 DEF Post, TypeOK
    <2>6. CASE MarkSent(w) \/ MarkFailed(w)
      <3>1. PICK status \in {"SENT", "FAILED"}, step \in {"markSent", "markFailed"} :
              MarkRow(w, step, status)
        BY <2>6 DEF MarkSent, MarkFailed
      <3>2. row' \in [Destinations -> RowStatus]
        BY <3>1 DEF MarkRow, RowStatus, TypeOK
      <3> DEFINE j == [job[w] EXCEPT !.pc = "claim", !.cur = NoRow]
      <3>3. j \in Jobs /\ HoldsOK(j)
        BY <1>j DEF Jobs, HoldsOK, Steps, InFlight, Applying
      <3>4. job' = [job EXCEPT ![w] = j]
        BY <3>1 DEF MarkRow, TypeOK
      <3> QED
        BY <3>1, <3>2, <3>3, <3>4, JobStep DEF MarkRow, TypeOK
    <2>7. CASE TallyRows(w)
      <3> DEFINE j == [job[w] EXCEPT !.pc = "refresh", !.seen = Summary]
      <3>1. j \in Jobs /\ HoldsOK(j)
        BY <1>j, SummaryType DEF Jobs, HoldsOK, Steps, InFlight, Applying
      <3>2. job' = [job EXCEPT ![w] = j]
        BY <2>7 DEF TallyRows, TypeOK
      <3> QED
        BY <2>7, <3>1, <3>2, JobStep DEF TallyRows, TypeOK
    <2>8. CASE RefreshState(w)
      <3>1. order' \in Orders
        BY <2>8, <1>o, <1>j DEF RefreshState, Orders, Jobs
      <3>2. Goto(w, "ackCheck") \/ Finish(w)
        BY <2>8 DEF RefreshState
      <3> QED
        BY <2>8, <3>1, <3>2, GotoType, FinishType
        DEF RefreshState, TypeOK, Steps, InFlight, Applying
    <2> QED
      BY <1>3, <2>1, <2>2, <2>3, <2>4, <2>5, <2>6, <2>7, <2>8 DEF Dispatch
  <1>4. ASSUME NEW w \in Workers, Acknowledgement(w) PROVE TypeInv'
    <2>1. CASE ArmAck(w) \/ DisarmAck(w)
      <3>1. order' \in Orders /\ Goto(w, "list")
        BY <2>1, <1>o DEF ArmAck, DisarmAck, Orders, AckStatus
      <3> QED
        BY <2>1, <3>1, GotoType DEF ArmAck, DisarmAck, TypeOK, Steps, InFlight, Applying
    <2>2. CASE CheckAck(w)
      <3>1. CASE Finish(w)
        BY <2>2, <3>1, FinishType DEF CheckAck, TypeOK
      <3>2. CASE Goto(w, "ackSkip")
        BY <2>2, <3>2, GotoType DEF CheckAck, TypeOK, Steps, InFlight, Applying
      <3>3. CASE ~Finish(w) /\ ~Goto(w, "ackSkip")
        <4> DEFINE j == [job[w] EXCEPT !.pc = "ackGate", !.status = order.status]
        <4>1. order.status \in Final /\ job' = [job EXCEPT ![w] = j]
          BY <2>2, <3>3 DEF CheckAck, TypeOK
        <4>2. j \in Jobs /\ HoldsOK(j)
          BY <1>j, <1>o, <4>1 DEF Jobs, Orders, HoldsOK, Steps, InFlight, Applying
        <4> QED
          BY <2>2, <4>1, <4>2, JobStep DEF CheckAck, TypeOK
      <3> QED
        BY <3>1, <3>2, <3>3
    <2>3. CASE CheckGate(w)
      <3>1. order' \in Orders
        BY <2>3, <1>o DEF CheckGate, Orders, AckStatus
      <3>2. job[w].status \in Final
        BY <2>3 DEF CheckGate, At, JobOK
      <3>3. Goto(w, "ackClaim") \/ Finish(w)
        BY <2>3 DEF CheckGate
      <3> QED
        BY <2>3, <3>1, <3>2, <3>3, GotoType, FinishType
        DEF CheckGate, TypeOK, Steps, InFlight
    <2>4. CASE ClaimAck(w)
      <3>1. \A n \in 0 .. MaxAckRetry :
              (IF n < MaxAckRetry THEN n + 1 ELSE n) \in 0 .. MaxAckRetry
        BY ConfigAssumption
      <3>2. order' \in Orders
        BY <2>4, <1>o, <3>1 DEF ClaimAck, Orders, AckStatus
      <3>3. job[w].status \in Final
        BY <2>4 DEF ClaimAck, At, JobOK
      <3>4. Goto(w, "react") \/ Finish(w)
        BY <2>4 DEF ClaimAck
      <3> QED
        BY <2>4, <3>2, <3>3, <3>4, GotoType, FinishType
        DEF ClaimAck, TypeOK, Steps, InFlight
    <2>5. CASE React(w)
      <3>1. job[w].status \in Final
        BY <2>5 DEF React, At, JobOK, Applying
      <3>2. reactions' \in [Final -> 0 .. CopyCap]
        BY <2>5, <3>1, OneMoreType DEF React, TypeOK
      <3>3. Goto(w, "ackApplied") \/ Goto(w, "ackFailed")
        BY <2>5 DEF React
      <3> QED
        BY <2>5, <3>1, <3>2, <3>3, GotoType DEF React, TypeOK, Steps, InFlight
    <2>6. CASE AckApplied(w) \/ AckFailed(w) \/ AckSkipped(w)
      <3>1. order' \in Orders /\ Finish(w)
        BY <2>6, <1>o DEF AckApplied, AckFailed, AckSkipped, MarkAck, Orders, AckStatus
      <3> QED
        BY <2>6, <3>1, FinishType DEF AckApplied, AckFailed, AckSkipped, MarkAck, TypeOK
    <2> QED
      BY <1>4, <2>1, <2>2, <2>3, <2>4, <2>5, <2>6 DEF Acknowledgement
  <1>5. ASSUME NEW w \in Workers, Restart(w) PROVE TypeInv'
    <2>1. order' \in Orders /\ row' \in [Destinations -> RowStatus]
      BY <1>5, <1>o DEF Restart, ReleasedRows, ReleasedAck, Orders, AckStatus, RowStatus, TypeOK
    <2>2. Goto(w, "read") \/ UNCHANGED job
      BY <1>5 DEF Restart
    <2>3. job' \in [Workers -> Jobs] /\ JobOK'
      BY <2>2, GotoType DEF Steps, InFlight, Applying, TypeOK, JobOK
    <2>4. young' \in [rows : SUBSET Destinations, ack : BOOLEAN]
      BY <1>5 DEF Restart, SendingRows
    <2> QED
      BY <1>5, <2>1, <2>3, <2>4 DEF Restart, TypeOK
  <1>6. CASE Crash
    <2>1. job' \in [Workers -> Jobs] /\ JobOK'
      BY <1>6, IdleType, IdleHolds DEF Crash, JobOK, HoldsOK
    <2> QED
      BY <1>6, <2>1, BoundsAssumption DEF Crash, TypeOK
  <1>7. CASE StartPolling
    BY <1>7 DEF StartPolling, TypeOK, JobOK
  <1>8. CASE UNCHANGED vars
    BY <1>8 DEF vars, TypeOK, JobOK
  <1> QED
    BY <1>1, <1>2, <1>3, <1>4, <1>5, <1>6, <1>7, <1>8 DEF Next, Task

(* Every variable keeps its type, and every task the type of what it holds *)
(* (the columns and enumerations of app/database/models).                  *)
THEOREM TypeCorrect == Spec => []TypeOK
  <1>1. TypeInv => TypeOK
    BY DEF TypeInv
  <1> QED
    BY TypeInit, TypeStep, <1>1, PTL DEF Spec

------------------------------------------------------------------------------
(* Claims *)

(* A claimed row is SENDING until its owner marks it, and nobody works     *)
(* while the process is down, so recover() never takes a row from a task.  *)
ClaimInv ==
    /\ TypeInv
    /\ OneOwnerPerRow
    /\ \A w \in Workers : job[w].pc \in InFlight => row[job[w].cur] = "SENDING"
    /\ \A w \in Workers : job[w].pc = "markSent" => copies[job[w].cur] >= 1
    /\ \A d \in Destinations : row[d] = "SENT" => copies[d] >= 1
    /\ phase = "down" => \A w \in Workers : job[w].pc = "idle"

LEMMA OneMoreGrows == \A n \in 0 .. CopyCap : OneMore(n) >= n /\ OneMore(n) >= 1
  BY BoundsAssumption DEF OneMore

(* A step of one task that claims nothing and marks nothing. *)
LEMMA ClaimFrame ==
  ASSUME ClaimInv, TypeInv', phase' = phase, phase # "down", NEW w \in Workers,
         \A v \in Workers \ {w} : job'[v] = job[v],
         job'[w].pc \in InFlight => job[w].pc = job'[w].pc /\ job'[w].cur = job[w].cur,
         \A d \in Destinations : row[d] = "SENDING" => row'[d] = "SENDING",
         \A d \in Destinations : row'[d] = "SENT" => row[d] = "SENT",
         copies' = copies
  PROVE  ClaimInv'
  <1>1. \A v \in Workers : job'[v].pc \in InFlight =>
            job[v].pc = job'[v].pc /\ job'[v].cur = job[v].cur
    OBVIOUS
  <1>2. OneOwnerPerRow'
    BY <1>1 DEF ClaimInv, OneOwnerPerRow
  <1>3. \A v \in Workers : job[v].pc \in InFlight => job[v].cur \in Destinations
    BY DEF ClaimInv, TypeInv, JobOK
  <1>4. \A v \in Workers : job'[v].pc \in InFlight => row'[job'[v].cur] = "SENDING"
    BY <1>1, <1>3 DEF ClaimInv
  <1>5. \A v \in Workers : job'[v].pc = "markSent" => copies'[job'[v].cur] >= 1
    BY <1>1 DEF ClaimInv, InFlight
  <1> QED
    BY <1>2, <1>4, <1>5 DEF ClaimInv

LEMMA GotoFrame ==
  ASSUME TypeInv, NEW w \in Workers, NEW step, Goto(w, step)
  PROVE  /\ \A v \in Workers \ {w} : job'[v] = job[v]
         /\ job'[w].pc = step
         /\ job'[w].cur = job[w].cur
  <1>1. job \in [Workers -> Jobs]
    BY DEF TypeInv, TypeOK
  <1>2. job' = [job EXCEPT ![w] = [job[w] EXCEPT !.pc = step]]
    BY DEF Goto
  <1>3. \A v \in Workers \ {w} : job'[v] = job[v]
    BY <1>1, <1>2
  <1>4. job'[w] = [job[w] EXCEPT !.pc = step]
    BY <1>1, <1>2
  <1> QED
    BY <1>1, <1>3, <1>4 DEF Jobs

LEMMA FinishFrame ==
  ASSUME TypeInv, NEW w \in Workers, Finish(w)
  PROVE  /\ \A v \in Workers \ {w} : job'[v] = job[v]
         /\ job'[w].pc = "idle"
  BY DEF TypeInv, TypeOK, Finish, Idle

LEMMA ClaimInit == Init => ClaimInv
  <1> SUFFICES ASSUME Init PROVE ClaimInv
    OBVIOUS
  <1>1. TypeInv
    BY TypeInit
  <1>2. \A w \in Workers : job[w].pc = "idle"
    BY DEF Init, Idle
  <1>3. \A d \in Destinations : row[d] = "ABSENT"
    BY DEF Init
  <1> QED
    BY <1>1, <1>2, <1>3 DEF ClaimInv, OneOwnerPerRow, InFlight

LEMMA ClaimStep == ClaimInv /\ [Next]_vars => ClaimInv'
  <1> SUFFICES ASSUME ClaimInv, [Next]_vars PROVE ClaimInv'
    OBVIOUS
  <1>t. TypeInv /\ TypeInv'
    BY TypeStep DEF ClaimInv
  <1>j. /\ \A w \in Workers : job[w] \in Jobs
        /\ job \in [Workers -> Jobs]
        /\ \A w \in Workers : job[w].pc \in InFlight => job[w].cur \in Destinations
    BY <1>t DEF TypeInv, TypeOK, JobOK
  <1>p. \A w \in Workers : job[w].pc # "idle" => phase # "down"
    BY DEF ClaimInv
  <1>1. ASSUME NEW w \in Workers, Arrival(w) PROVE ClaimInv'
    <2>1. phase # "down" /\ UNCHANGED <<row, phase, copies>>
      BY <1>1 DEF Arrival, SignalArrives, Retry, Override, Reopen
    <2>2. CASE SignalArrives(w) \/ Retry(w)
      <3>1. PICK step \in {"decide", "read"} : Goto(w, step)
        BY <2>2 DEF SignalArrives, Retry
      <3> QED
        BY <2>1, <3>1, <1>t, GotoFrame, ClaimFrame DEF InFlight
    <2>3. CASE Override(w) \/ Reopen(w)
      <3>1. /\ \A v \in Workers \ {w} : job'[v] = job[v]
            /\ job'[w].pc \in {"idle", "prepare"}
        <4>1. CASE Override(w)
          BY <4>1, <1>j DEF Override, At, Idle
        <4>2. CASE Reopen(w)
          BY <4>2, <1>j DEF Reopen, At
        <4> QED
          BY <2>3, <4>1, <4>2
      <3> QED
        BY <2>1, <3>1, <1>t, ClaimFrame DEF InFlight
    <2> QED
      BY <1>1, <2>2, <2>3 DEF Arrival
  <1>2. ASSUME NEW w \in Workers, Finalizer(w) PROVE ClaimInv'
    <2>1. phase # "down" /\ UNCHANGED <<row, phase, copies>>
      BY <1>2, <1>p DEF Finalizer, Decide, ReadOrder, At
    <2>2. CASE Decide(w)
      BY <2>1, <2>2, <1>t, GotoFrame, FinishFrame, ClaimFrame DEF Decide, InFlight
    <2>3. CASE ReadOrder(w)
      <3>1. /\ \A v \in Workers \ {w} : job'[v] = job[v]
            /\ job'[w].pc \in {"idle", "prepare", "arm", "list"}
        <4>1. CASE Finish(w)
          BY <4>1, <1>t, FinishFrame
        <4>2. CASE ~Finish(w)
          <5>1. PICK b \in {"arm", "keep"}, next \in {"prepare", "arm", "list"} :
                  job' = [job EXCEPT ![w] = [Idle EXCEPT
                            !.pc = next, !.status = order.status, !.arming = b]]
            BY <2>3, <4>2 DEF ReadOrder
          <5>2. job'[w].pc = next
            BY <5>1, <1>j DEF Idle
          <5> QED
            BY <5>1, <5>2, <1>j
        <4> QED
          BY <4>1, <4>2
      <3> QED
        BY <2>1, <3>1, <1>t, ClaimFrame DEF InFlight
    <2> QED
      BY <1>2, <2>2, <2>3 DEF Finalizer
  <1>3. ASSUME NEW w \in Workers, Dispatch(w) PROVE ClaimInv'
    <2>1. phase # "down" /\ phase' = phase
      BY <1>3, <1>p DEF Dispatch, PrepareDispatch, ListOutstanding, ClaimRow, QueueDone,
           Post, MarkSent, MarkFailed, MarkRow, TallyRows, RefreshState, At
    <2>2. CASE PrepareDispatch(w)
      <3>1. PICK step \in {"list", "arm", "disarm"} : Goto(w, step)
        BY <2>2, <1>j DEF PrepareDispatch, Jobs
      <3>2. \A d \in Destinations : row'[d] = row[d] \/ (row[d] = "ABSENT" /\ row'[d] = "PENDING")
        BY <2>2 DEF PrepareDispatch
      <3> QED
        BY <2>1, <2>2, <3>1, <3>2, <1>t, GotoFrame, ClaimFrame DEF PrepareDispatch, InFlight
    <2>3. CASE ListOutstanding(w) \/ TallyRows(w)
      <3>1. /\ \A v \in Workers \ {w} : job'[v] = job[v]
            /\ job'[w].pc \in {"claim", "refresh"}
        BY <2>3, <1>j DEF ListOutstanding, TallyRows, Jobs
      <3> QED
        BY <2>1, <2>3, <3>1, <1>t, ClaimFrame DEF ListOutstanding, TallyRows, InFlight
    <2>4. CASE ClaimRow(w)
      <3>1. PICK d \in job[w].queue :
              LET rest == job[w].queue \ {d} IN
              IF row[d] \in Unsent
              THEN /\ row' = [row EXCEPT ![d] = "SENDING"]
                   /\ job' = [job EXCEPT ![w].pc = "post", ![w].queue = rest, ![w].cur = d]
              ELSE /\ job' = [job EXCEPT ![w].queue = rest]
                   /\ UNCHANGED row
        BY <2>4 DEF ClaimRow
      <3>2. d \in Destinations /\ row \in [Destinations -> RowStatus]
        BY <1>j, <1>t DEF Jobs, TypeInv, TypeOK
      <3>3. CASE row[d] \in Unsent
        <4>1. job' = [job EXCEPT ![w] = [job[w] EXCEPT !.pc = "post",
                                           !.queue = job[w].queue \ {d}, !.cur = d]]
          BY <3>1, <3>3, <1>j
        <4>2. /\ \A v \in Workers \ {w} : job'[v] = job[v]
              /\ job'[w].pc = "post" /\ job'[w].cur = d
          BY <4>1, <1>j DEF Jobs
        <4>3. row' = [row EXCEPT ![d] = "SENDING"]
          BY <3>1, <3>3
        <4>4. \A v \in Workers : job[v].pc \in InFlight => job[v].cur # d
          BY <3>3, <1>j DEF ClaimInv, Unsent
        <4>5. OneOwnerPerRow'
          BY <4>2, <4>4 DEF ClaimInv, OneOwnerPerRow
        <4>6. \A v \in Workers : job'[v].pc \in InFlight => row'[job'[v].cur] = "SENDING"
          BY <4>2, <4>3, <3>2, <1>j DEF ClaimInv
        <4>7. /\ \A v \in Workers : job'[v].pc = "markSent" => copies'[job'[v].cur] >= 1
              /\ \A e \in Destinations : row'[e] = "SENT" => copies'[e] >= 1
          BY <2>4, <4>2, <4>3, <3>2 DEF ClaimInv, ClaimRow
        <4> QED
          BY <2>1, <4>5, <4>6, <4>7, <1>t DEF ClaimInv
      <3>4. CASE row[d] \notin Unsent
        <4>1. job' = [job EXCEPT ![w] = [job[w] EXCEPT !.queue = job[w].queue \ {d}]] /\ row' = row
          BY <3>1, <3>4, <1>j
        <4>2. /\ \A v \in Workers \ {w} : job'[v] = job[v]
              /\ job'[w].pc = job[w].pc /\ job'[w].cur = job[w].cur
          BY <4>1, <1>j DEF Jobs
        <4> QED
          BY <2>1, <2>4, <4>1, <4>2, <1>t, ClaimFrame DEF ClaimRow
      <3> QED
        BY <3>3, <3>4
    <2>5. CASE QueueDone(w)
      BY <2>1, <2>5, <1>t, GotoFrame, ClaimFrame DEF QueueDone, InFlight
    <2>6. CASE Post(w)
      <3> DEFINE d == job[w].cur
      <3>1. job[w].pc \in InFlight /\ d \in Destinations
        BY <2>6, <1>j DEF Post, At, InFlight
      <3>2. copies \in [Destinations -> 0 .. CopyCap]
        BY <1>t DEF TypeInv, TypeOK
      <3>3. copies' = [copies EXCEPT ![d] = OneMore(copies[d])] \/ copies' = copies
        BY <2>6 DEF Post
      <3>4. copies' \in [Destinations -> 0 .. CopyCap]
        BY <1>t DEF TypeInv, TypeOK
      <3>5. \A e \in Destinations : copies'[e] >= copies[e]
        BY <3>1, <3>2, <3>3, OneMoreGrows
      <3>6. \/ job' = job
            \/ Goto(w, "markSent") /\ copies' = [copies EXCEPT ![d] = OneMore(copies[d])]
            \/ Goto(w, "markFailed")
        BY <2>6 DEF Post
      <3>7. /\ \A v \in Workers \ {w} : job'[v] = job[v]
            /\ job'[w].cur = d
            /\ job'[w].pc \in InFlight
            /\ job'[w].pc = "markSent" => copies'[d] >= 1
        <4>1. CASE job' = job
          BY <4>1, <3>1, <2>6 DEF Post, At
        <4>2. CASE Goto(w, "markSent") /\ copies' = [copies EXCEPT ![d] = OneMore(copies[d])]
          BY <4>2, <3>1, <3>2, <1>t, GotoFrame, OneMoreGrows DEF InFlight
        <4>3. CASE Goto(w, "markFailed")
          BY <4>3, <1>t, GotoFrame DEF InFlight
        <4> QED
          BY <3>6, <4>1, <4>2, <4>3
      <3>8. UNCHANGED row
        BY <2>6 DEF Post
      <3>9. OneOwnerPerRow'
        BY <3>1, <3>7 DEF ClaimInv, OneOwnerPerRow
      <3>10. \A v \in Workers : job'[v].pc \in InFlight => row'[job'[v].cur] = "SENDING"
        BY <3>1, <3>7, <3>8 DEF ClaimInv
      <3>11. \A v \in Workers : job'[v].pc = "markSent" => copies'[job'[v].cur] >= 1
        <4> SUFFICES ASSUME NEW v \in Workers, v # w, job'[v].pc = "markSent"
                     PROVE  copies'[job'[v].cur] >= 1
          BY <3>7
        <4>1. job'[v] = job[v] /\ job[v].cur \in Destinations /\ copies[job[v].cur] >= 1
          BY <3>7, <1>j DEF ClaimInv, InFlight
        <4> QED
          BY <4>1, <3>2, <3>4, <3>5
      <3>12. \A e \in Destinations : row'[e] = "SENT" => copies'[e] >= 1
        BY <3>2, <3>4, <3>5, <3>8 DEF ClaimInv
      <3> QED
        BY <2>1, <3>9, <3>10, <3>11, <3>12, <1>t DEF ClaimInv
    <2>7. CASE MarkSent(w) \/ MarkFailed(w)
      <3> DEFINE d == job[w].cur
      <3>1. PICK status \in {"SENT", "FAILED"}, step \in {"markSent", "markFailed"} :
              MarkRow(w, step, status) /\ (status = "SENT" => step = "markSent")
        BY <2>7 DEF MarkSent, MarkFailed
      <3>2. job[w].pc \in InFlight /\ d \in Destinations /\ row \in [Destinations -> RowStatus]
        BY <3>1, <1>j, <1>t DEF MarkRow, At, InFlight, TypeInv, TypeOK
      <3>3. /\ job' = [job EXCEPT ![w] = [job[w] EXCEPT !.pc = "claim", !.cur = NoRow]]
            /\ row' = [row EXCEPT ![d] = status]
            /\ UNCHANGED copies
        BY <3>1, <1>j DEF MarkRow
      <3>4. (\A v \in Workers \ {w} : job'[v] = job[v]) /\ job'[w].pc = "claim"
        BY <3>3, <1>j DEF Jobs
      <3>5. \A v \in Workers : job'[v].pc \in InFlight =>
                v # w /\ job'[v] = job[v] /\ job[v].cur # d
        BY <3>2, <3>4 DEF ClaimInv, OneOwnerPerRow, InFlight
      <3>6. OneOwnerPerRow'
        BY <3>5 DEF ClaimInv, OneOwnerPerRow
      <3>7. \A v \in Workers : job'[v].pc \in InFlight => row'[job'[v].cur] = "SENDING"
        BY <3>2, <3>3, <3>5, <1>j DEF ClaimInv
      <3>8. \A v \in Workers : job'[v].pc = "markSent" => copies'[job'[v].cur] >= 1
        BY <3>3, <3>5 DEF ClaimInv, InFlight
      <3>9. status = "SENT" => copies[d] >= 1
        BY <3>1 DEF MarkRow, At, ClaimInv
      <3>10. \A e \in Destinations : row'[e] = "SENT" => copies'[e] >= 1
        BY <3>2, <3>3, <3>9 DEF ClaimInv
      <3> QED
        BY <2>1, <3>6, <3>7, <3>8, <3>10, <1>t DEF ClaimInv
    <2>8. CASE RefreshState(w)
      BY <2>1, <2>8, <1>t, GotoFrame, FinishFrame, ClaimFrame DEF RefreshState, InFlight
    <2> QED
      BY <1>3, <2>2, <2>3, <2>4, <2>5, <2>6, <2>7, <2>8 DEF Dispatch
  <1>4. ASSUME NEW w \in Workers, Acknowledgement(w) PROVE ClaimInv'
    <2>1. phase # "down" /\ UNCHANGED <<row, phase, copies>>
      BY <1>4, <1>p DEF Acknowledgement, ArmAck, DisarmAck, CheckAck, CheckGate, ClaimAck,
           React, AckApplied, AckFailed, AckSkipped, MarkAck, At
    <2>2. CASE CheckAck(w)
      <3>1. (\A v \in Workers \ {w} : job'[v] = job[v]) /\ job'[w].pc \in {"idle", "ackSkip", "ackGate"}
        BY <2>2, <1>j DEF CheckAck, Goto, Finish, Idle, Jobs
      <3> QED
        BY <2>1, <3>1, <1>t, ClaimFrame DEF InFlight
    <2>3. CASE ~CheckAck(w)
      <3>1. \/ Finish(w)
            \/ \E step \in {"list", "ackClaim", "react", "ackApplied", "ackFailed"} : Goto(w, step)
        BY <1>4, <2>3 DEF Acknowledgement, ArmAck, DisarmAck, CheckGate, ClaimAck, React,
             AckApplied, AckFailed, AckSkipped, MarkAck
      <3> QED
        BY <2>1, <3>1, <1>t, GotoFrame, FinishFrame, ClaimFrame DEF InFlight
    <2> QED
      BY <2>2, <2>3
  <1>5. ASSUME NEW w \in Workers, Restart(w) PROVE ClaimInv'
    <2>1. \A v \in Workers : job[v].pc = "idle"
      BY <1>5 DEF Restart, ClaimInv
    <2>2. phase' # "down" /\ UNCHANGED copies /\ (Goto(w, "read") \/ UNCHANGED job)
      BY <1>5 DEF Restart
    <2>3. \A v \in Workers : job'[v].pc \notin InFlight
      BY <2>1, <2>2, <1>t, GotoFrame DEF InFlight
    <2>4. \A d \in Destinations : row'[d] = "SENT" => row[d] = "SENT"
      BY <1>5 DEF Restart, ReleasedRows
    <2> QED
      BY <2>2, <2>3, <2>4, <1>t DEF ClaimInv, OneOwnerPerRow, InFlight
  <1>6. CASE Crash
    <2>1. \A v \in Workers : job'[v].pc = "idle"
      BY <1>6 DEF Crash, Idle
    <2> QED
      BY <1>6, <2>1, <1>t DEF Crash, ClaimInv, OneOwnerPerRow, InFlight
  <1>7. CASE StartPolling
    BY <1>7, <1>t DEF StartPolling, ClaimInv, OneOwnerPerRow
  <1>8. CASE UNCHANGED vars
    BY <1>8, <1>t DEF vars, ClaimInv, OneOwnerPerRow
  <1> QED
    BY <1>1, <1>2, <1>3, <1>4, <1>5, <1>6, <1>7, <1>8 DEF Next, Task

(* No two tasks ever hold the same row between claim and outcome, for any  *)
(* number of tasks, crashes and restarts (claim_dispatch,                  *)
(* release_stale_dispatches).                                              *)
THEOREM ClaimsExclude == Spec => []OneOwnerPerRow
  <1>1. Spec => []ClaimInv
    BY ClaimInit, ClaimStep, PTL DEF Spec
  <1>2. ClaimInv => OneOwnerPerRow
    BY DEF ClaimInv
  <1> QED
    BY <1>1, <1>2, PTL

(* A row says SENT only of a result that was delivered, under every fault  *)
(* (mark_dispatch_sent).                                                   *)
THEOREM SentIsDelivered == Spec => []SentMeansDelivered
  <1>1. Spec => []ClaimInv
    BY ClaimInit, ClaimStep, PTL DEF Spec
  <1>2. ClaimInv => SentMeansDelivered
    BY DEF ClaimInv, SentMeansDelivered
  <1> QED
    BY <1>1, <1>2, PTL

------------------------------------------------------------------------------
(* Deliveries *)

(* A copy has been posted exactly when the row is SENT or its owner is     *)
(* about to say so.                                                        *)
DeliveryInv ==
    /\ ClaimInv
    /\ phase = "up"
    /\ \A d \in Destinations : copies[d] <= 1
    /\ \A d \in Destinations : copies[d] = 1 =>
          \/ row[d] = "SENT"
          \/ \E w \in Workers : job[w].pc = "markSent" /\ job[w].cur = d

(* What the theorem needs of the environment: the process does not die and *)
(* a send that raises posted nothing.                                      *)
NoHalfSends == MaxCrashes = 0 /\ Faults \cap {"lost_reply", "attachment"} = {}

LEMMA DeliveryInit == Init => DeliveryInv
  <1> SUFFICES ASSUME Init PROVE DeliveryInv
    OBVIOUS
  <1>1. \A d \in Destinations : copies[d] = 0
    BY DEF Init
  <1> QED
    BY <1>1, ClaimInit DEF DeliveryInv, Init

(* A task writes its own memory only. *)
LEMMA OnlyOwnJob ==
  ASSUME TypeInv, NEW w \in Workers, Arrival(w) \/ Task(w)
  PROVE  \A v \in Workers \ {w} : job'[v] = job[v]
  <1> USE DEF TypeInv, TypeOK, Goto, Finish
  <1>1. CASE Arrival(w)
    BY <1>1 DEF Arrival, SignalArrives, Retry, Override, Reopen
  <1>2. CASE Finalizer(w)
    BY <1>2 DEF Finalizer, Decide, ReadOrder
  <1>3. CASE Dispatch(w)
    BY <1>3 DEF Dispatch, PrepareDispatch, ListOutstanding, ClaimRow, QueueDone, Post,
         MarkSent, MarkFailed, MarkRow, TallyRows, RefreshState
  <1>4. CASE Acknowledgement(w)
    BY <1>4 DEF Acknowledgement, ArmAck, DisarmAck, CheckAck, CheckGate, ClaimAck, React,
         AckApplied, AckFailed, AckSkipped, MarkAck
  <1> QED
    BY <1>1, <1>2, <1>3, <1>4 DEF Task

(* A step that posts nothing and takes no one off "markSent". *)
LEMMA DeliveryFrame ==
  ASSUME DeliveryInv, ClaimInv', phase' = phase, copies' = copies, NEW w \in Workers,
         \A v \in Workers \ {w} : job'[v] = job[v],
         job[w].pc # "markSent",
         \A d \in Destinations : row[d] = "SENT" => row'[d] = "SENT"
  PROVE  DeliveryInv'
  <1> SUFFICES ASSUME NEW d \in Destinations, copies[d] = 1
               PROVE  \/ row'[d] = "SENT"
                      \/ \E v \in Workers : job'[v].pc = "markSent" /\ job'[v].cur = d
    BY DEF DeliveryInv
  <1>1. CASE row[d] = "SENT"
    BY <1>1
  <1>2. CASE \E v \in Workers : job[v].pc = "markSent" /\ job[v].cur = d
    <2>1. PICK v \in Workers : job[v].pc = "markSent" /\ job[v].cur = d
      BY <1>2
    <2>2. job'[v] = job[v]
      BY <2>1
    <2> QED
      BY <2>1, <2>2
  <1> QED
    BY <1>1, <1>2 DEF DeliveryInv

LEMMA DeliveryStep ==
  ASSUME NoHalfSends
  PROVE  DeliveryInv /\ [Next]_vars => DeliveryInv'
  <1> SUFFICES ASSUME DeliveryInv, [Next]_vars PROVE DeliveryInv'
    OBVIOUS
  <1>c. ClaimInv /\ ClaimInv' /\ TypeInv
    BY ClaimStep DEF DeliveryInv, ClaimInv
  <1>t. /\ row \in [Destinations -> RowStatus]
        /\ copies \in [Destinations -> 0 .. CopyCap]
        /\ job \in [Workers -> Jobs]
        /\ \A w \in Workers : job[w].pc \in InFlight => job[w].cur \in Destinations
    BY <1>c DEF TypeInv, TypeOK, JobOK
  <1>1. ASSUME NEW w \in Workers, Arrival(w) PROVE DeliveryInv'
    <2>1. UNCHANGED <<row, phase, copies>> /\ job[w].pc = "idle"
      BY <1>1 DEF Arrival, SignalArrives, Retry, Override, Reopen, At
    <2> QED
      BY <1>1, <1>c, <2>1, OnlyOwnJob, DeliveryFrame
  <1>2. ASSUME NEW w \in Workers, Finalizer(w) \/ Acknowledgement(w) PROVE DeliveryInv'
    <2>1. UNCHANGED <<row, phase, copies>> /\ job[w].pc # "markSent"
      BY <1>2 DEF Finalizer, Decide, ReadOrder, Acknowledgement, ArmAck, DisarmAck, CheckAck,
           CheckGate, ClaimAck, React, AckApplied, AckFailed, AckSkipped, MarkAck, At
    <2> QED
      BY <1>2, <1>c, <2>1, OnlyOwnJob, DeliveryFrame DEF Task
  <1>3. ASSUME NEW w \in Workers, Dispatch(w), ~Post(w), ~MarkSent(w), ~MarkFailed(w)
        PROVE  DeliveryInv'
    <2>1. UNCHANGED <<phase, copies>> /\ job[w].pc # "markSent"
      BY <1>3 DEF Dispatch, PrepareDispatch, ListOutstanding, ClaimRow, QueueDone, TallyRows,
           RefreshState, At
    <2>2. \A d \in Destinations : row[d] = "SENT" => row'[d] = "SENT"
      BY <1>3, <1>t DEF Dispatch, PrepareDispatch, ListOutstanding, ClaimRow, QueueDone,
           TallyRows, RefreshState, Unsent
    <2> QED
      BY <1>3, <1>c, <2>1, <2>2, OnlyOwnJob, DeliveryFrame DEF Task
  <1>4. ASSUME NEW w \in Workers, Post(w) PROVE DeliveryInv'
    <2> DEFINE d == job[w].cur
    <2>1. /\ job[w].pc = "post" /\ d \in Destinations /\ row[d] = "SENDING"
          /\ UNCHANGED <<row, phase>>
      BY <1>4, <1>c, <1>t DEF Post, At, InFlight, ClaimInv
    <2>2. copies[d] = 0
      <3>1. \A v \in Workers : ~(job[v].pc = "markSent" /\ job[v].cur = d)
        BY <2>1, <1>c DEF ClaimInv, OneOwnerPerRow, InFlight
      <3> QED
        BY <2>1, <3>1, <1>t DEF DeliveryInv
    <2>3. CASE Goto(w, "markSent") /\ copies' = [copies EXCEPT ![d] = OneMore(@)]
      <3>1. copies' = [copies EXCEPT ![d] = 1]
        <4>1. OneMore(0) = 1
          BY BoundsAssumption DEF OneMore
        <4> QED
          BY <2>2, <2>3, <4>1, <2>1, <1>t
      <3>2. /\ job'[w].pc = "markSent" /\ job'[w].cur = d
            /\ \A v \in Workers \ {w} : job'[v] = job[v]
        BY <2>3, <1>c, GotoFrame
      <3>3. \A e \in Destinations : copies'[e] <= 1
        BY <3>1, <1>t DEF DeliveryInv
      <3>4. ASSUME NEW e \in Destinations, copies'[e] = 1
            PROVE  \/ row'[e] = "SENT"
                   \/ \E v \in Workers : job'[v].pc = "markSent" /\ job'[v].cur = e
        <4>1. CASE e = d
          BY <4>1, <3>2
        <4>2. CASE e # d /\ row[e] = "SENT"
          BY <4>2, <2>1
        <4>3. CASE e # d /\ row[e] # "SENT"
          <5>1. PICK v \in Workers : job[v].pc = "markSent" /\ job[v].cur = e
            BY <4>3, <3>1, <3>4, <1>t DEF DeliveryInv
          <5> QED
            BY <5>1, <2>1, <3>2
        <4> QED
          BY <4>1, <4>2, <4>3
      <3> QED
        BY <3>3, <3>4, <2>1, <1>c DEF DeliveryInv
    <2>4. CASE copies' = copies /\ Goto(w, "markFailed")
      BY <2>1, <2>4, <1>c, GotoFrame, DeliveryFrame
    <2> QED
      BY <1>4, <2>3, <2>4 DEF Post, NoHalfSends
  <1>5. ASSUME NEW w \in Workers, NEW step \in {"markSent", "markFailed"},
               NEW status \in {"SENT", "FAILED"}, MarkRow(w, step, status),
               (step = "markSent") <=> (status = "SENT")
        PROVE  DeliveryInv'
    <2> DEFINE d == job[w].cur
    <2>1. /\ job[w].pc = step /\ job[w].pc \in InFlight /\ d \in Destinations
          /\ row[d] = "SENDING" /\ UNCHANGED <<phase, copies>>
          /\ row' = [row EXCEPT ![d] = status]
      BY <1>5, <1>c, <1>t DEF MarkRow, At, InFlight, ClaimInv
    <2>2. \A v \in Workers \ {w} : job'[v] = job[v]
      BY <1>5, <1>t DEF MarkRow
    <2>3. ASSUME NEW e \in Destinations, copies[e] = 1
          PROVE  \/ row'[e] = "SENT"
                 \/ \E v \in Workers : job'[v].pc = "markSent" /\ job'[v].cur = e
      <3>1. CASE row[e] = "SENT"
        BY <3>1, <2>1, <1>t
      <3>2. CASE row[e] # "SENT"
        <4>1. PICK v \in Workers : job[v].pc = "markSent" /\ job[v].cur = e
          BY <3>2, <2>3 DEF DeliveryInv
        <4>2. CASE v = w
          BY <4>1, <4>2, <2>1, <1>5, <1>t
        <4>3. CASE v # w
          BY <4>1, <4>3, <2>2
        <4> QED
          BY <4>2, <4>3
      <3> QED
        BY <3>1, <3>2
    <2> QED
      BY <2>1, <2>3, <1>c DEF DeliveryInv
  <1>6. ASSUME NEW w \in Workers, Restart(w) PROVE DeliveryInv'
    BY <1>6 DEF Restart, DeliveryInv
  <1>7. CASE Crash
    BY <1>7, <1>c DEF Crash, NoHalfSends, TypeInv, TypeOK
  <1>8. CASE StartPolling
    BY <1>8 DEF StartPolling, DeliveryInv
  <1>9. CASE UNCHANGED vars
    BY <1>9, <1>c DEF vars, DeliveryInv
  <1> QED
    BY <1>1, <1>2, <1>3, <1>4, <1>5, <1>6, <1>7, <1>8, <1>9
    DEF Next, Task, Dispatch, MarkSent, MarkFailed

(* As long as the process lives and a send that raises posted nothing, no  *)
(* destination gets a result twice, whatever tasks, retries, overrides and *)
(* re-openings do (claim_dispatch, manual_override).                       *)
THEOREM DeliveredOnce ==
  ASSUME NoHalfSends
  PROVE  Spec => []NeverDeliveredTwice
  <1>1. DeliveryInv /\ [Next]_vars => DeliveryInv'
    BY DeliveryStep
  <1>2. DeliveryInv => NeverDeliveredTwice
    BY DEF DeliveryInv, NeverDeliveredTwice
  <1> QED
    BY DeliveryInit, <1>1, <1>2, PTL DEF Spec

------------------------------------------------------------------------------
(* Recovery *)

Dispatching == {"arm", "disarm", "list", "claim", "tally", "refresh"} \cup InFlight

(* Without overrides the outcome never changes, so the rows are created    *)
(* all at once, for that outcome; a summary computed from them can be old  *)
(* when it is written, but "nothing outstanding" never becomes false.      *)
RecoveryInv ==
    /\ ClaimInv
    /\ Rows # {} => order.status \in Final
    /\ Rows = {} \/ Rows = DestinationsFor(order.status)
    /\ \A w \in Workers :
         /\ job[w].pc = "prepare" => order.status \in Final /\ job[w].status = order.status
         /\ job[w].pc \in Dispatching =>
               order.status \in Final /\ Rows = DestinationsFor(order.status)
         /\ job[w].pc = "refresh" =>
               /\ job[w].seen = "SENT" => Rows = SentRows
               /\ job[w].seen = "NOT_REQUIRED" => Rows = {}
    /\ order.dispatchState \in {"SENT", "NOT_REQUIRED"} => Rows = SentRows

NoOverrides == AdminActions \cap {"override", "reopen"} = {}

LEMMA RecoveryInit == Init => RecoveryInv
  <1> SUFFICES ASSUME Init PROVE RecoveryInv
    OBVIOUS
  <1>1. Rows = {} /\ SentRows = {}
    BY DEF Init, Rows, SentRows
  <1>2. \A w \in Workers : job[w].pc = "idle"
    BY DEF Init, Idle
  <1> QED
    BY <1>1, <1>2, ClaimInit DEF RecoveryInv, Dispatching, InFlight

LEMMA RecoveryFrame ==
  ASSUME RecoveryInv, ClaimInv', NEW w \in Workers,
         order'.status = order.status, Rows' = Rows, SentRows \subseteq SentRows',
         \A v \in Workers \ {w} : job'[v] = job[v],
         job'[w].pc = "prepare" => order.status \in Final /\ job'[w].status = order.status,
         job'[w].pc \in Dispatching =>
             order.status \in Final /\ Rows = DestinationsFor(order.status),
         job'[w].pc = "refresh" =>
             /\ job'[w].seen = "SENT" => Rows = SentRows
             /\ job'[w].seen = "NOT_REQUIRED" => Rows = {},
         order'.dispatchState \in {"SENT", "NOT_REQUIRED"} => Rows = SentRows
  PROVE  RecoveryInv'
  <1>1. SentRows' \subseteq Rows'
    BY DEF SentRows, Rows
  <1>2. Rows = SentRows => Rows' = SentRows'
    BY <1>1
  <1>3. DestinationsFor(order'.status) = DestinationsFor(order.status)
    OBVIOUS
  <1>4. \A v \in Workers :
          /\ job'[v].pc = "prepare" => order'.status \in Final /\ job'[v].status = order'.status
          /\ job'[v].pc \in Dispatching =>
                order'.status \in Final /\ Rows' = DestinationsFor(order'.status)
          /\ job'[v].pc = "refresh" =>
                /\ job'[v].seen = "SENT" => Rows' = SentRows'
                /\ job'[v].seen = "NOT_REQUIRED" => Rows' = {}
    <2> SUFFICES ASSUME NEW v \in Workers
                 PROVE  /\ job'[v].pc = "prepare" =>
                              order'.status \in Final /\ job'[v].status = order'.status
                        /\ job'[v].pc \in Dispatching =>
                              order'.status \in Final /\ Rows' = DestinationsFor(order'.status)
                        /\ job'[v].pc = "refresh" =>
                              /\ job'[v].seen = "SENT" => Rows' = SentRows'
                              /\ job'[v].seen = "NOT_REQUIRED" => Rows' = {}
      OBVIOUS
    <2>1. CASE v = w
      BY <2>1, <1>2, <1>3
    <2>2. CASE v # w
      BY <2>2, <1>2, <1>3 DEF RecoveryInv
    <2> QED
      BY <2>1, <2>2
  <1> QED
    BY <1>2, <1>3, <1>4 DEF RecoveryInv, DestinationsFor

LEMMA RecoveryStep ==
  ASSUME NoOverrides
  PROVE  RecoveryInv /\ [Next]_vars => RecoveryInv'
  <1> SUFFICES ASSUME RecoveryInv, [Next]_vars PROVE RecoveryInv'
    OBVIOUS
  <1>c. ClaimInv /\ ClaimInv' /\ TypeInv
    BY ClaimStep DEF RecoveryInv, ClaimInv
  <1>t. /\ order \in Orders
        /\ row \in [Destinations -> RowStatus]
        /\ job \in [Workers -> Jobs]
        /\ \A w \in Workers : job[w] \in Jobs
        /\ \A w \in Workers : job[w].pc \in InFlight =>
              job[w].cur \in Destinations /\ row[job[w].cur] = "SENDING"
    BY <1>c DEF TypeInv, TypeOK, JobOK, ClaimInv
  <1>s. row' = row => Rows' = Rows /\ SentRows' = SentRows
    BY DEF Rows, SentRows
  <1>1. ASSUME NEW w \in Workers, SignalArrives(w) \/ Retry(w) PROVE RecoveryInv'
    <2>1. PICK step \in {"decide", "read"} : Goto(w, step)
      BY <1>1 DEF SignalArrives, Retry
    <2>2. UNCHANGED <<order, row>>
      BY <1>1 DEF SignalArrives, Retry
    <2>3. job'[w].pc \in {"decide", "read"} /\ \A v \in Workers \ {w} : job'[v] = job[v]
      BY <2>1, <1>c, GotoFrame
    <2> QED
      BY <2>2, <2>3, <1>c, <1>s, RecoveryFrame DEF RecoveryInv, Dispatching, InFlight
  <1>2. ASSUME NEW w \in Workers, Decide(w) PROVE RecoveryInv'
    <2>1. UNCHANGED row /\ (Goto(w, "read") \/ Finish(w))
      BY <1>2 DEF Decide
    <2>2. job'[w].pc \in {"idle", "read"} /\ \A v \in Workers \ {w} : job'[v] = job[v]
      BY <2>1, <1>c, GotoFrame, FinishFrame
    <2>3. order'.dispatchState = order.dispatchState
      BY <1>2, <1>t DEF Decide, Orders
    <2>4. CASE order'.status = order.status
      BY <2>1, <2>2, <2>3, <2>4, <1>c, <1>s, RecoveryFrame DEF RecoveryInv, Dispatching, InFlight
    <2>5. CASE order'.status # order.status
      <3>1. order.status = "PENDING"
        BY <1>2, <2>5, <1>t DEF Decide, Orders
      <3>2. Rows = {} /\ \A v \in Workers : job[v].pc \notin {"prepare"} \cup Dispatching
        BY <3>1 DEF RecoveryInv, Final
      <3>3. \A v \in Workers : job'[v].pc \notin {"prepare"} \cup Dispatching
        BY <2>2, <3>2 DEF Dispatching, InFlight
      <3>4. Rows' = {} /\ SentRows' = {}
        BY <2>1, <3>2, <1>s DEF Rows, SentRows
      <3> QED
        BY <3>3, <3>4, <1>c DEF RecoveryInv, Dispatching
    <2> QED
      BY <2>4, <2>5
  <1>3. ASSUME NEW w \in Workers, ReadOrder(w) PROVE RecoveryInv'
    <2>1. UNCHANGED <<order, row>>
      BY <1>3 DEF ReadOrder
    <2>2. CASE Finish(w)
      BY <2>1, <2>2, <1>c, <1>s, FinishFrame, RecoveryFrame DEF RecoveryInv, Dispatching, InFlight
    <2>3. CASE ~Finish(w)
      <3>1. PICK b \in {"arm", "keep"}, next \in {"prepare", "arm", "list"} :
              /\ job' = [job EXCEPT ![w] = [Idle EXCEPT
                            !.pc = next, !.status = order.status, !.arming = b]]
              /\ order.status \in Final
              /\ next # "prepare" => Rows # {}
        BY <1>3, <2>3 DEF ReadOrder
      <3>2. job'[w] = [Idle EXCEPT !.pc = next, !.status = order.status, !.arming = b]
        BY <3>1, <1>t
      <3>3. job'[w].pc = next /\ job'[w].status = order.status
        BY <3>2 DEF Idle
      <3>4. \A v \in Workers \ {w} : job'[v] = job[v]
        BY <3>1, <1>t
      <3>5. next \in Dispatching => Rows = DestinationsFor(order.status)
        BY <3>1 DEF RecoveryInv, Dispatching, InFlight
      <3> QED
        BY <2>1, <3>1, <3>3, <3>4, <3>5, <1>c, <1>s, RecoveryFrame DEF RecoveryInv
    <2> QED
      BY <2>2, <2>3
  <1>4. ASSUME NEW w \in Workers, PrepareDispatch(w) PROVE RecoveryInv'
    <2> DEFINE mine == DestinationsFor(order.status)
    <2>1. order.status \in Final /\ job[w].status = order.status
      BY <1>4 DEF PrepareDispatch, At, RecoveryInv
    <2>2. row' = [d \in Destinations |->
                    IF d \in mine /\ row[d] = "ABSENT" THEN "PENDING" ELSE row[d]]
      BY <1>4, <2>1 DEF PrepareDispatch
    <2>3. order'.status = order.status
          /\ order'.dispatchState = IF mine = {} THEN "NOT_REQUIRED" ELSE "PENDING"
      BY <1>4, <2>1, <1>t DEF PrepareDispatch, Orders
    <2>4. Rows' = mine
      BY <2>2 DEF Rows, RecoveryInv, DestinationsFor
    <2>5. SentRows' = SentRows
      BY <2>2 DEF SentRows
    <2>6. PICK step \in {"list", "arm", "disarm"} : Goto(w, step)
      BY <1>4, <1>t DEF PrepareDispatch, Jobs
    <2>7. job'[w].pc = step /\ \A v \in Workers \ {w} : job'[v] = job[v]
      BY <2>6, <1>c, GotoFrame
    <2>8. Rows = SentRows /\ Rows # {} => Rows' = SentRows'
      BY <2>4, <2>5 DEF RecoveryInv
    <2>9. ASSUME NEW v \in Workers
          PROVE  /\ job'[v].pc = "prepare" => job'[v].status = order.status
                 /\ job'[v].pc = "refresh" =>
                       /\ job'[v].seen = "SENT" => Rows' = SentRows'
                       /\ job'[v].seen = "NOT_REQUIRED" => Rows' = {}
      <3>1. CASE v = w
        BY <2>7, <3>1
      <3>2. CASE v # w
        <4>1. job'[v] = job[v]
          BY <2>7, <3>2
        <4>2. job[v].pc = "refresh" => Rows' = Rows
          BY <2>4 DEF RecoveryInv, Dispatching
        <4> QED
          BY <4>1, <4>2, <2>5 DEF RecoveryInv
      <3> QED
        BY <3>1, <3>2
    <2>10. order'.dispatchState = "NOT_REQUIRED" => Rows' = {} /\ SentRows' = {}
      BY <2>3, <2>4, <2>5 DEF SentRows, Rows, RecoveryInv
    <2>11. order'.dispatchState # "SENT"
      BY <2>3
    <2>12. DestinationsFor(order'.status) = mine
      BY <2>3
    <2> QED
      BY <2>1, <2>3, <2>4, <2>9, <2>10, <2>11, <2>12, <1>c DEF RecoveryInv
  <1>5. ASSUME NEW w \in Workers,
               ListOutstanding(w) \/ ClaimRow(w) \/ QueueDone(w) \/ Post(w)
                 \/ MarkSent(w) \/ MarkFailed(w)
        PROVE  RecoveryInv'
    <2>1. UNCHANGED order /\ job[w].pc \in Dispatching
      BY <1>5 DEF ListOutstanding, ClaimRow, QueueDone, Post, MarkSent, MarkFailed, MarkRow, At,
           Dispatching, InFlight
    <2>2. \A d \in Destinations :
            (row'[d] # "ABSENT" <=> row[d] # "ABSENT") /\ (row[d] = "SENT" => row'[d] = "SENT")
      BY <1>5, <1>t DEF ListOutstanding, ClaimRow, QueueDone, Post, MarkSent, MarkFailed,
           MarkRow, At, Unsent, InFlight, Jobs
    <2>3. Rows' = Rows /\ SentRows \subseteq SentRows'
      BY <2>2 DEF Rows, SentRows
    <2>4. \A v \in Workers \ {w} : job'[v] = job[v]
      BY <1>5, <1>c, OnlyOwnJob DEF Task, Dispatch
    <2>5. job'[w].pc \notin {"prepare", "refresh"}
      <3>1. CASE QueueDone(w)
        BY <3>1, <1>c, GotoFrame DEF QueueDone
      <3>2. CASE Post(w)
        BY <3>2, <1>c, GotoFrame DEF Post, At
      <3>3. CASE ListOutstanding(w) \/ MarkSent(w) \/ MarkFailed(w)
        BY <3>3, <1>t DEF ListOutstanding, MarkSent, MarkFailed, MarkRow, Jobs
      <3>4. CASE ClaimRow(w)
        BY <3>4, <1>t DEF ClaimRow, At, Jobs
      <3> QED
        BY <1>5, <3>1, <3>2, <3>3, <3>4
    <2> QED
      BY <2>1, <2>3, <2>4, <2>5, <1>c, RecoveryFrame DEF RecoveryInv
  <1>6. ASSUME NEW w \in Workers, TallyRows(w) PROVE RecoveryInv'
    <2>1. UNCHANGED <<order, row>> /\ job[w].pc \in Dispatching
      BY <1>6 DEF TallyRows, At, Dispatching
    <2>2. job'[w].pc = "refresh" /\ job'[w].seen = Summary
          /\ \A v \in Workers \ {w} : job'[v] = job[v]
      BY <1>6, <1>t DEF TallyRows, Jobs
    <2>3. (Summary = "SENT" => Rows = SentRows) /\ (Summary = "NOT_REQUIRED" => Rows = {})
      BY DEF Summary
    <2> QED
      BY <2>1, <2>2, <2>3, <1>c, <1>s, RecoveryFrame DEF RecoveryInv
  <1>7. ASSUME NEW w \in Workers, RefreshState(w) PROVE RecoveryInv'
    <2>1. UNCHANGED row /\ job[w].pc = "refresh"
          /\ order'.status = order.status /\ order'.dispatchState = job[w].seen
      BY <1>7, <1>t DEF RefreshState, At, Orders
    <2>2. Rows = {} => Rows = SentRows
      BY DEF Rows, SentRows
    <2>3. job[w].seen \in {"SENT", "NOT_REQUIRED"} => Rows = SentRows
      BY <2>1, <2>2 DEF RecoveryInv
    <2>4. job'[w].pc \in {"ackCheck", "idle"} /\ \A v \in Workers \ {w} : job'[v] = job[v]
      BY <1>7, <1>c, GotoFrame, FinishFrame DEF RefreshState
    <2> QED
      BY <2>1, <2>3, <2>4, <1>c, <1>s, RecoveryFrame DEF Dispatching, InFlight
  <1>8. ASSUME NEW w \in Workers, Acknowledgement(w) PROVE RecoveryInv'
    <2>1. UNCHANGED row /\ order'.status = order.status
          /\ order'.dispatchState = order.dispatchState
      BY <1>8, <1>t DEF Acknowledgement, ArmAck, DisarmAck, CheckAck, CheckGate, ClaimAck,
           React, AckApplied, AckFailed, AckSkipped, MarkAck, Orders
    <2>2. \A v \in Workers \ {w} : job'[v] = job[v]
      BY <1>8, <1>c, OnlyOwnJob DEF Task
    <2>3. CASE ArmAck(w) \/ DisarmAck(w)
      <3>1. job[w].pc \in Dispatching /\ Goto(w, "list")
        BY <2>3 DEF ArmAck, DisarmAck, At, Dispatching
      <3>2. job'[w].pc = "list"
        BY <3>1, <1>c, GotoFrame
      <3> QED
        BY <2>1, <2>2, <3>1, <3>2, <1>c, <1>s, RecoveryFrame DEF RecoveryInv
    <2>4. CASE CheckAck(w)
      <3>1. job'[w].pc \in {"idle", "ackSkip", "ackGate"}
        BY <2>4, <1>t DEF CheckAck, Goto, Finish, Idle, Jobs
      <3> QED
        BY <2>1, <2>2, <3>1, <1>c, <1>s, RecoveryFrame DEF RecoveryInv, Dispatching, InFlight
    <2>5. CASE ~ArmAck(w) /\ ~DisarmAck(w) /\ ~CheckAck(w)
      <3>1. \/ Finish(w)
            \/ \E step \in {"ackClaim", "react", "ackApplied", "ackFailed"} : Goto(w, step)
        BY <1>8, <2>5 DEF Acknowledgement, CheckGate, ClaimAck, React, AckApplied, AckFailed,
             AckSkipped, MarkAck
      <3>2. job'[w].pc \in {"idle", "ackClaim", "react", "ackApplied", "ackFailed"}
        BY <3>1, <1>c, GotoFrame, FinishFrame
      <3> QED
        BY <2>1, <2>2, <3>2, <1>c, <1>s, RecoveryFrame DEF RecoveryInv, Dispatching, InFlight
    <2> QED
      BY <2>3, <2>4, <2>5
  <1>9. ASSUME NEW w \in Workers, Restart(w) PROVE RecoveryInv'
    <2>1. \A v \in Workers : job[v].pc = "idle"
      BY <1>9, <1>c DEF Restart, ClaimInv
    <2>2. \A d \in Destinations :
            (row'[d] # "ABSENT" <=> row[d] # "ABSENT") /\ (row[d] = "SENT" => row'[d] = "SENT")
      BY <1>9 DEF Restart, ReleasedRows, SendingRows
    <2>3. Rows' = Rows /\ SentRows \subseteq SentRows'
      BY <2>2 DEF Rows, SentRows
    <2>4. order'.status = order.status /\ order'.dispatchState = order.dispatchState
      BY <1>9, <1>t DEF Restart, Orders
    <2>5. job'[w].pc \in {"idle", "read"} /\ \A v \in Workers \ {w} : job'[v] = job[v]
      BY <1>9, <2>1, <1>c, GotoFrame DEF Restart
    <2> QED
      BY <2>3, <2>4, <2>5, <1>c, RecoveryFrame DEF RecoveryInv, Dispatching, InFlight
  <1>10. CASE Crash
    <2>1. UNCHANGED <<order, row>> /\ \A v \in Workers : job'[v].pc = "idle"
      BY <1>10 DEF Crash, Idle
    <2> QED
      BY <2>1, <1>c, <1>s DEF RecoveryInv, Dispatching, InFlight, DestinationsFor
  <1>11. CASE StartPolling \/ UNCHANGED vars
    BY <1>11, <1>c, <1>s DEF StartPolling, vars, RecoveryInv, DestinationsFor
  <1> QED
    BY <1>1, <1>2, <1>3, <1>4, <1>5, <1>6, <1>7, <1>8, <1>9, <1>10, <1>11
    DEF Next, Arrival, Task, Finalizer, Dispatch, Override, Reopen, NoOverrides

(* Without overrides the recovery query always selects an order that still *)
(* has a row to send, for any number of tasks and crashes, although the    *)
(* summary it reads is written without a lock (refresh_state,              *)
(* orders_needing_recovery).                                               *)
THEOREM Recoverable ==
  ASSUME NoOverrides
  PROVE  Spec => []OutstandingIsRecoverable
  <1>1. RecoveryInv /\ [Next]_vars => RecoveryInv'
    BY RecoveryStep
  <1>2. RecoveryInv => OutstandingIsRecoverable
    <2> SUFFICES ASSUME RecoveryInv, NEW d \in Destinations,
                        row[d] \in {"PENDING", "SENDING", "FAILED"}
                 PROVE  NeedsRecovery(order)
      BY DEF OutstandingIsRecoverable
    <2>1. d \in Rows /\ d \notin SentRows
      BY DEF Rows, SentRows
    <2>2. order.dispatchState \in {"PENDING", "PARTIAL", "FAILED"}
      BY <2>1 DEF RecoveryInv, ClaimInv, TypeInv, TypeOK, Orders, OrderDispatchState
    <2> QED
      BY <2>1, <2>2 DEF RecoveryInv, NeedsRecovery
  <1> QED
    BY RecoveryInit, <1>1, <1>2, PTL DEF Spec

------------------------------------------------------------------------------
(* What is sent stays sent *)

LEMMA SentStep == ClaimInv /\ [Next]_vars =>
                    \A d \in Destinations : row[d] = "SENT" => row'[d] = "SENT"
  <1> SUFFICES ASSUME ClaimInv, [Next]_vars, NEW d \in Destinations, row[d] = "SENT"
               PROVE  row'[d] = "SENT"
    OBVIOUS
  <1>t. /\ row \in [Destinations -> RowStatus]
        /\ \A w \in Workers : job[w].queue \subseteq Destinations
        /\ \A w \in Workers : job[w].pc \in InFlight =>
              job[w].cur \in Destinations /\ job[w].cur # d
    BY DEF ClaimInv, TypeInv, TypeOK, JobOK, Jobs
  <1>1. ASSUME NEW w \in Workers, Dispatch(w) PROVE row'[d] = "SENT"
    <2>1. CASE PrepareDispatch(w)
      BY <2>1 DEF PrepareDispatch
    <2>2. CASE ClaimRow(w)
      BY <2>2, <1>t DEF ClaimRow, Unsent
    <2>3. CASE MarkSent(w) \/ MarkFailed(w)
      BY <2>3, <1>t DEF MarkSent, MarkFailed, MarkRow, At, InFlight
    <2>4. CASE UNCHANGED row
      BY <2>4
    <2> QED
      BY <1>1, <2>1, <2>2, <2>3, <2>4
      DEF Dispatch, ListOutstanding, QueueDone, Post, TallyRows, RefreshState
  <1>2. ASSUME NEW w \in Workers, Arrival(w) \/ Finalizer(w) \/ Acknowledgement(w)
        PROVE  row'[d] = "SENT"
    BY <1>2 DEF Arrival, SignalArrives, Retry, Override, Reopen, Finalizer, Decide, ReadOrder,
         Acknowledgement, ArmAck, DisarmAck, CheckAck, CheckGate, ClaimAck, React, AckApplied,
         AckFailed, AckSkipped, MarkAck
  <1>3. ASSUME NEW w \in Workers, Restart(w) PROVE row'[d] = "SENT"
    BY <1>3 DEF Restart, ReleasedRows, SendingRows
  <1>4. CASE Crash \/ StartPolling \/ UNCHANGED vars
    BY <1>4 DEF Crash, StartPolling, vars
  <1> QED
    BY <1>1, <1>2, <1>3, <1>4 DEF Next, Task

(* No pipeline, retry, override, re-opening, crash or restart ever queues  *)
(* again a row that is SENT (prepare, claim_dispatch, mark_dispatch_*,     *)
(* release_stale_dispatches).                                              *)
THEOREM SentForGood == Spec => SentIsForGood
  <1>1. Spec => []ClaimInv
    BY ClaimInit, ClaimStep, PTL DEF Spec
  <1>2. ClaimInv /\ [Next]_vars =>
          [\A d \in Destinations : row[d] = "SENT" => row'[d] = "SENT"]_vars
    BY SentStep
  <1> QED
    BY <1>1, <1>2, PTL DEF Spec, SentIsForGood

------------------------------------------------------------------------------
(* Nothing is stuck *)

(* The invariant is NothingStuck itself, on top of ClaimInv: a restart     *)
(* releases what is older than its cutoff, and `young` is the rest.        *)
StuckInv == ClaimInv /\ NothingStuck

(* A step of a task that neither is sending or reacting nor takes up       *)
(* anything new.                                                           *)
LEMMA StuckFrame ==
  ASSUME StuckInv, ClaimInv', UNCHANGED <<phase, young>>, NEW w \in Workers,
         \A v \in Workers \ {w} : job'[v] = job[v],
         job[w].pc \notin InFlight \cup Applying,
         \A d \in Destinations : row'[d] = "SENDING" => row[d] = "SENDING",
         order'.ack = "APPLYING" => order.ack = "APPLYING"
  PROVE  StuckInv'
  <1> SUFFICES ASSUME phase # "down" PROVE NothingStuck'
    BY DEF StuckInv, NothingStuck
  <1>1. \A v \in Workers : job[v].pc \in InFlight \cup Applying => job'[v] = job[v]
    OBVIOUS
  <1>2. ASSUME NEW d \in Destinations \ young.rows, row'[d] = "SENDING"
        PROVE  \E v \in Workers : job'[v].pc \in InFlight /\ job'[v].cur = d
    BY <1>1, <1>2 DEF StuckInv, NothingStuck
  <1>3. order'.ack = "APPLYING" /\ ~young.ack => \E v \in Workers : job'[v].pc \in Applying
    BY <1>1 DEF StuckInv, NothingStuck
  <1> QED
    BY <1>2, <1>3 DEF NothingStuck

LEMMA StuckInit == Init => StuckInv
  BY ClaimInit DEF Init, StuckInv, NothingStuck

LEMMA StuckStep == StuckInv /\ [Next]_vars => StuckInv'
  <1> SUFFICES ASSUME StuckInv, [Next]_vars PROVE StuckInv'
    OBVIOUS
  <1>c. ClaimInv /\ ClaimInv' /\ TypeInv
    BY ClaimStep DEF StuckInv, ClaimInv
  <1>t. /\ order \in Orders
        /\ row \in [Destinations -> RowStatus]
        /\ job \in [Workers -> Jobs]
        /\ \A w \in Workers : job[w] \in Jobs
        /\ \A w \in Workers : job[w].pc \in InFlight => job[w].cur \in Destinations
        /\ \A w \in Workers : job[w].pc # "idle" => phase # "down"
    BY <1>c DEF TypeInv, TypeOK, JobOK, ClaimInv
  <1>1. ASSUME NEW w \in Workers, Arrival(w) \/ Finalizer(w) PROVE StuckInv'
    <2>1. /\ UNCHANGED <<row, phase, young>>
          /\ job[w].pc \notin InFlight \cup Applying
          /\ order'.ack = "APPLYING" => order.ack = "APPLYING"
      BY <1>1, <1>t DEF Arrival, SignalArrives, Retry, Override, Reopen, Finalizer, Decide,
           ReadOrder, At, InFlight, Applying, Orders
    <2> QED
      BY <1>1, <2>1, <1>c, OnlyOwnJob, StuckFrame DEF Task
  <1>2. ASSUME NEW w \in Workers,
               PrepareDispatch(w) \/ ListOutstanding(w) \/ QueueDone(w) \/ TallyRows(w)
                 \/ RefreshState(w)
        PROVE  StuckInv'
    <2>1. /\ UNCHANGED <<phase, young>>
          /\ job[w].pc \notin InFlight \cup Applying
          /\ order'.ack = order.ack
      BY <1>2, <1>t DEF PrepareDispatch, ListOutstanding, QueueDone, TallyRows, RefreshState,
           At, InFlight, Applying, Orders
    <2>2. \A d \in Destinations : row'[d] = "SENDING" => row[d] = "SENDING"
      BY <1>2 DEF PrepareDispatch, ListOutstanding, QueueDone, TallyRows, RefreshState
    <2> QED
      BY <1>2, <2>1, <2>2, <1>c, OnlyOwnJob, StuckFrame DEF Task, Dispatch
  <1>3. ASSUME NEW w \in Workers, ClaimRow(w) PROVE StuckInv'
    <2>1. PICK d \in job[w].queue :
            LET rest == job[w].queue \ {d} IN
            IF row[d] \in Unsent
            THEN /\ row' = [row EXCEPT ![d] = "SENDING"]
                 /\ job' = [job EXCEPT ![w].pc = "post", ![w].queue = rest, ![w].cur = d]
            ELSE /\ job' = [job EXCEPT ![w].queue = rest]
                 /\ UNCHANGED row
      BY <1>3 DEF ClaimRow
    <2>2. /\ UNCHANGED <<order, phase, young>>
          /\ job[w].pc \notin InFlight \cup Applying
          /\ \A v \in Workers \ {w} : job'[v] = job[v]
      BY <1>3, <1>c, OnlyOwnJob DEF ClaimRow, At, InFlight, Applying, Task, Dispatch
    <2>3. CASE row[d] \in Unsent
      <3>1. job'[w].pc = "post" /\ job'[w].cur = d
        BY <2>1, <2>3, <1>t DEF Jobs
      <3>2. \A e \in Destinations : row'[e] = "SENDING" => e = d \/ row[e] = "SENDING"
        BY <2>1, <2>3, <1>t
      <3>3. \A v \in Workers : job[v].pc \in InFlight \cup Applying => job'[v] = job[v]
        BY <2>2
      <3>4. ASSUME NEW e \in Destinations \ young.rows, row'[e] = "SENDING", phase # "down"
            PROVE  \E v \in Workers : job'[v].pc \in InFlight /\ job'[v].cur = e
        <4>1. CASE e = d
          BY <4>1, <3>1 DEF InFlight
        <4>2. CASE e # d
          BY <4>2, <3>2, <3>3, <3>4 DEF StuckInv, NothingStuck
        <4> QED
          BY <4>1, <4>2
      <3>5. phase # "down" /\ order.ack = "APPLYING" /\ ~young.ack => \E v \in Workers : job'[v].pc \in Applying
        BY <3>3 DEF StuckInv, NothingStuck
      <3> QED
        BY <2>2, <3>4, <3>5, <1>c DEF StuckInv, NothingStuck
    <2>4. CASE row[d] \notin Unsent
      BY <2>1, <2>2, <2>4, <1>c, StuckFrame
    <2> QED
      BY <2>3, <2>4
  <1>4. ASSUME NEW w \in Workers, Post(w) PROVE StuckInv'
    <2>1. UNCHANGED <<order, row, phase, young>> /\ job[w].pc \in InFlight /\ job[w].pc \notin Applying
      BY <1>4 DEF Post, At, InFlight, Applying
    <2>2. UNCHANGED job \/ Goto(w, "markSent") \/ Goto(w, "markFailed")
      BY <1>4 DEF Post
    <2>3. /\ job'[w].pc \in InFlight /\ job'[w].cur = job[w].cur
          /\ \A v \in Workers \ {w} : job'[v] = job[v]
      BY <2>1, <2>2, <1>c, GotoFrame DEF InFlight
    <2>4. ASSUME NEW d \in Destinations \ young.rows, row[d] = "SENDING", phase # "down"
          PROVE  \E v \in Workers : job'[v].pc \in InFlight /\ job'[v].cur = d
      <3>1. PICK v \in Workers : job[v].pc \in InFlight /\ job[v].cur = d
        BY <2>4 DEF StuckInv, NothingStuck
      <3> QED
        BY <3>1, <2>3
    <2>5. phase # "down" /\ order.ack = "APPLYING" /\ ~young.ack => \E v \in Workers : job'[v].pc \in Applying
      BY <2>1, <2>3 DEF StuckInv, NothingStuck
    <2> QED
      BY <2>1, <2>4, <2>5, <1>c DEF StuckInv, NothingStuck
  <1>5. ASSUME NEW w \in Workers, MarkSent(w) \/ MarkFailed(w) PROVE StuckInv'
    <2>1. PICK status \in {"SENT", "FAILED"}, step \in {"markSent", "markFailed"} :
            MarkRow(w, step, status)
      BY <1>5 DEF MarkSent, MarkFailed
    <2>2. /\ UNCHANGED <<order, phase, young>> /\ row' = [row EXCEPT ![job[w].cur] = status]
          /\ job[w].pc \in InFlight /\ job[w].pc \notin Applying
      BY <2>1 DEF MarkRow, At, InFlight, Applying
    <2>3. \A v \in Workers \ {w} : job'[v] = job[v]
      BY <1>5, <1>c, OnlyOwnJob DEF Task, Dispatch
    <2>4. ASSUME NEW d \in Destinations \ young.rows, row'[d] = "SENDING", phase # "down"
          PROVE  \E v \in Workers : job'[v].pc \in InFlight /\ job'[v].cur = d
      <3>1. d # job[w].cur /\ row[d] = "SENDING"
        BY <2>2, <2>4, <1>t
      <3>2. PICK v \in Workers : job[v].pc \in InFlight /\ job[v].cur = d
        BY <3>1, <2>4 DEF StuckInv, NothingStuck
      <3> QED
        BY <3>1, <3>2, <2>3
    <2>5. phase # "down" /\ order.ack = "APPLYING" /\ ~young.ack => \E v \in Workers : job'[v].pc \in Applying
      BY <2>2, <2>3 DEF StuckInv, NothingStuck
    <2> QED
      BY <2>2, <2>4, <2>5, <1>c DEF StuckInv, NothingStuck
  <1>6. ASSUME NEW w \in Workers,
               ArmAck(w) \/ DisarmAck(w) \/ CheckAck(w) \/ CheckGate(w) \/ AckSkipped(w)
        PROVE  StuckInv'
    <2>1. /\ UNCHANGED <<row, phase, young>>
          /\ job[w].pc \notin InFlight \cup Applying
          /\ order'.ack = "APPLYING" => order.ack = "APPLYING"
      BY <1>6, <1>t DEF ArmAck, DisarmAck, CheckAck, CheckGate, AckSkipped, MarkAck, At,
           InFlight, Applying, Orders
    <2> QED
      BY <1>6, <2>1, <1>c, OnlyOwnJob, StuckFrame DEF Task, Acknowledgement
  <1>7. ASSUME NEW w \in Workers, ClaimAck(w) \/ React(w) PROVE StuckInv'
    <2>1. /\ UNCHANGED <<row, phase, young>> /\ job[w].pc \notin InFlight
          /\ \A v \in Workers \ {w} : job'[v] = job[v]
      BY <1>7, <1>c, OnlyOwnJob DEF ClaimAck, React, At, InFlight, Task, Acknowledgement
    <2>2. order'.ack = "APPLYING" => order.ack = "APPLYING" \/ job'[w].pc \in Applying
      BY <1>7, <1>c, GotoFrame DEF ClaimAck, React, Applying
    <2>3. job[w].pc \in Applying => job'[w].pc \in Applying
      BY <1>7, <1>c, GotoFrame DEF ClaimAck, React, At, Applying
    <2>4. ASSUME NEW d \in Destinations \ young.rows, row[d] = "SENDING", phase # "down"
          PROVE  \E v \in Workers : job'[v].pc \in InFlight /\ job'[v].cur = d
      <3>1. PICK v \in Workers : job[v].pc \in InFlight /\ job[v].cur = d
        BY <2>4 DEF StuckInv, NothingStuck
      <3> QED
        BY <3>1, <2>1
    <2>5. ASSUME phase # "down", order'.ack = "APPLYING", ~young.ack
          PROVE  \E v \in Workers : job'[v].pc \in Applying
      <3>1. CASE job'[w].pc \in Applying
        BY <3>1
      <3>2. CASE job'[w].pc \notin Applying
        <4>1. PICK v \in Workers : job[v].pc \in Applying
          BY <2>2, <2>5, <3>2 DEF StuckInv, NothingStuck
        <4> QED
          BY <4>1, <2>1, <2>3, <3>2
      <3> QED
        BY <3>1, <3>2
    <2> QED
      BY <2>1, <2>4, <2>5, <1>c DEF StuckInv, NothingStuck
  <1>8. ASSUME NEW w \in Workers, AckApplied(w) \/ AckFailed(w) PROVE StuckInv'
    <2>1. /\ UNCHANGED <<row, phase, young>> /\ job[w].pc \notin InFlight
          /\ order'.ack # "APPLYING"
      BY <1>8, <1>t DEF AckApplied, AckFailed, MarkAck, At, InFlight, Orders
    <2>2. \A v \in Workers \ {w} : job'[v] = job[v]
      BY <1>8, <1>c, OnlyOwnJob DEF Task, Acknowledgement
    <2>3. ASSUME NEW d \in Destinations \ young.rows, row[d] = "SENDING", phase # "down"
          PROVE  \E v \in Workers : job'[v].pc \in InFlight /\ job'[v].cur = d
      <3>1. PICK v \in Workers : job[v].pc \in InFlight /\ job[v].cur = d
        BY <2>3 DEF StuckInv, NothingStuck
      <3> QED
        BY <3>1, <2>1, <2>2
    <2> QED
      BY <2>1, <2>3, <1>c DEF StuckInv, NothingStuck
  <1>9. ASSUME NEW w \in Workers, Restart(w) PROVE StuckInv'
    <2>1. PICK old \in SUBSET SendingRows, ackOld \in BOOLEAN :
            /\ row' = ReleasedRows(old)
            /\ order' = [order EXCEPT !.ack = ReleasedAck(ackOld)]
            /\ young' = [rows |-> SendingRows \ old,
                         ack |-> order.ack = "APPLYING" /\ ~ackOld]
      BY <1>9 DEF Restart
    <2>2. \A d \in Destinations : row'[d] = "SENDING" => d \in young'.rows
      BY <2>1 DEF ReleasedRows, SendingRows
    <2>3. order'.ack = "APPLYING" => young'.ack
      BY <2>1, <1>t DEF ReleasedAck, Orders
    <2> QED
      BY <2>2, <2>3, <1>c DEF StuckInv, NothingStuck
  <1>10. CASE Crash
    BY <1>10, <1>c DEF Crash, StuckInv, NothingStuck
  <1>11. CASE StartPolling
    BY <1>11, <1>c DEF StartPolling, StuckInv, NothingStuck
  <1>12. CASE UNCHANGED vars
    BY <1>12, <1>c DEF vars, StuckInv, NothingStuck
  <1> QED
    BY <1>1, <1>2, <1>3, <1>4, <1>5, <1>6, <1>7, <1>8, <1>9, <1>10, <1>11, <1>12
    DEF Next, Task, Dispatch, Acknowledgement

(* While the bot is up every row in SENDING and every acknowledgement in   *)
(* APPLYING has a live task that will settle it, whatever failed, crashed  *)
(* or was overridden, except those that changed less than two minutes      *)
(* before the last restart, however soon restarts come                     *)
(* (release_stale_dispatches, release_stale_acknowledgements).             *)
THEOREM NothingIsStuck == Spec => []NothingStuck
  <1>1. StuckInv /\ [Next]_vars => StuckInv'
    BY StuckStep
  <1>2. StuckInv => NothingStuck
    BY DEF StuckInv
  <1> QED
    BY StuckInit, <1>1, <1>2, PTL DEF Spec

------------------------------------------------------------------------------
(* The acknowledgement *)

Acknowledging == {"ackCheck", "ackSkip", "ackGate", "ackClaim"} \cup Applying

(* A task reaches the acknowledgement after it dispatched, so the rows are *)
(* those of the outcome; and rows and deliveries only ever come on top of  *)
(* those the gate was opened for, so it is still open when the reaction is *)
(* set, several transactions later.                                        *)
GateInv ==
    /\ RecoveryInv
    /\ \A w \in Workers :
         /\ job[w].pc \in Acknowledging =>
               order.status \in Final /\ Rows = DestinationsFor(order.status)
         /\ job[w].pc \in {"ackGate", "ackClaim"} \cup Applying => job[w].status = order.status
         /\ job[w].pc \in {"ackClaim"} \cup Applying => GateOpen(order.status)

(* The policy never takes back its consent when more is delivered. *)
LEMMA PolicyIsMonotone ==
  ASSUME NEW policy, NEW rows, NEW sent, NEW more, NEW required, NEW primary,
         sent \subseteq more, PolicySatisfied(policy, rows, sent, required, primary)
  PROVE  PolicySatisfied(policy, rows, more, required, primary)
  BY DEF PolicySatisfied

LEMMA GateInit == Init => GateInv
  BY RecoveryInit DEF Init, Idle, GateInv, Acknowledging, Applying

(* A step of a task that ends up at none of the acknowledgement's steps,   *)
(* or at one it has a right to be at.                                      *)
LEMMA GateFrame ==
  ASSUME GateInv, RecoveryInv', NEW w \in Workers,
         order.status \in Final => order'.status = order.status,
         Rows' = Rows, SentRows \subseteq SentRows',
         \A v \in Workers \ {w} : job'[v] = job[v],
         job'[w].pc \in Acknowledging =>
             order.status \in Final /\ Rows = DestinationsFor(order.status),
         job'[w].pc \in {"ackGate", "ackClaim"} \cup Applying => job'[w].status = order.status,
         job'[w].pc \in {"ackClaim"} \cup Applying => GateOpen(order.status)
  PROVE  GateInv'
  <1>1. ASSUME order.status \in Final, GateOpen(order.status)
        PROVE  GateOpen(order.status)'
    <2>1. order'.status = order.status
      BY <1>1
    <2>2. PolicySatisfied(Policy[order.status], Rows, SentRows', Required, Primary)
      BY <1>1, PolicyIsMonotone DEF GateOpen
    <2> QED
      BY <2>1, <2>2 DEF GateOpen
  <1>2. ASSUME order.status \in Final
        PROVE  DestinationsFor(order.status)' = DestinationsFor(order.status)
    BY <1>2 DEF DestinationsFor
  <1>3. Acknowledging' = Acknowledging
    BY DEF Acknowledging, Applying
  <1>4. ASSUME NEW v \in Workers
        PROVE  /\ job'[v].pc \in Acknowledging =>
                      order.status \in Final /\ Rows = DestinationsFor(order.status)
               /\ job'[v].pc \in {"ackGate", "ackClaim"} \cup Applying =>
                      job'[v].status = order.status
               /\ job'[v].pc \in {"ackClaim"} \cup Applying => GateOpen(order.status)
    <2>1. CASE v = w
      BY <2>1
    <2>2. CASE v # w
      BY <2>2 DEF GateInv
    <2> QED
      BY <2>1, <2>2
  <1> SUFFICES ASSUME NEW v \in Workers
               PROVE  /\ job'[v].pc \in Acknowledging =>
                             order'.status \in Final /\ Rows' = DestinationsFor(order.status)'
                      /\ job'[v].pc \in {"ackGate", "ackClaim"} \cup Applying =>
                             job'[v].status = order'.status
                      /\ job'[v].pc \in {"ackClaim"} \cup Applying => GateOpen(order.status)'
    BY <1>3 DEF GateInv, Applying
  <1>5. {"ackGate", "ackClaim"} \cup Applying \subseteq Acknowledging
    BY DEF Acknowledging
  <1> QED
    BY <1>1, <1>2, <1>4, <1>5

LEMMA GateStep ==
  ASSUME NoOverrides
  PROVE  GateInv /\ [Next]_vars => GateInv'
  <1> SUFFICES ASSUME GateInv, [Next]_vars PROVE GateInv'
    OBVIOUS
  <1>c. RecoveryInv /\ RecoveryInv' /\ ClaimInv /\ TypeInv
    BY RecoveryStep DEF GateInv, RecoveryInv, ClaimInv
  <1>t. /\ order \in Orders
        /\ row \in [Destinations -> RowStatus]
        /\ job \in [Workers -> Jobs]
        /\ \A w \in Workers : job[w] \in Jobs
    BY <1>c DEF TypeInv, TypeOK
  <1>s. row' = row => Rows' = Rows /\ SentRows \subseteq SentRows'
    BY DEF Rows, SentRows
  <1>1. ASSUME NEW w \in Workers, SignalArrives(w) \/ Retry(w) PROVE GateInv'
    <2>1. /\ UNCHANGED <<order, row>>
          /\ job'[w].pc \in {"decide", "read"}
      BY <1>1, <1>c, GotoFrame DEF SignalArrives, Retry
    <2>2. \A v \in Workers \ {w} : job'[v] = job[v]
      BY <1>1, <1>c, OnlyOwnJob DEF Arrival
    <2> QED
      BY <2>1, <2>2, <1>c, <1>s, GateFrame DEF Acknowledging, Applying
  <1>2. ASSUME NEW w \in Workers, Finalizer(w) PROVE GateInv'
    <2>1. UNCHANGED row /\ (order.status \in Final => order'.status = order.status)
      BY <1>2, <1>t DEF Finalizer, Decide, ReadOrder, Orders, Final
    <2>2. job'[w].pc \in {"idle", "read", "prepare", "arm", "list"}
      <3>1. CASE Decide(w)
        BY <3>1, <1>c, GotoFrame, FinishFrame DEF Decide
      <3>2. CASE ReadOrder(w)
        <4>1. CASE Finish(w)
          BY <4>1, <1>c, FinishFrame
        <4>2. CASE ~Finish(w)
          <5>1. PICK b \in {"arm", "keep"}, next \in {"prepare", "arm", "list"} :
                  job' = [job EXCEPT ![w] = [Idle EXCEPT
                            !.pc = next, !.status = order.status, !.arming = b]]
            BY <3>2, <4>2 DEF ReadOrder
          <5> QED
            BY <5>1, <1>t DEF Idle
        <4> QED
          BY <4>1, <4>2
      <3> QED
        BY <1>2, <3>1, <3>2 DEF Finalizer
    <2>3. \A v \in Workers \ {w} : job'[v] = job[v]
      BY <1>2, <1>c, OnlyOwnJob DEF Task
    <2> QED
      BY <2>1, <2>2, <2>3, <1>c, <1>s, GateFrame DEF Acknowledging, Applying
  <1>3. ASSUME NEW w \in Workers, PrepareDispatch(w) PROVE GateInv'
    <2>1. /\ order.status \in Final /\ job[w].status = order.status
          /\ order'.status = order.status
      BY <1>3, <1>c, <1>t DEF PrepareDispatch, At, RecoveryInv, Orders
    <2>2. job'[w].pc \in {"list", "arm", "disarm"}
      BY <1>3, <1>c, <1>t, GotoFrame DEF PrepareDispatch, Jobs
    <2>3. \A v \in Workers \ {w} : job'[v] = job[v]
      BY <1>3, <1>c, OnlyOwnJob DEF Task, Dispatch
    <2>4. CASE Rows = DestinationsFor(order.status)
      <3>1. row' = row
        BY <1>3, <2>1, <2>4, <1>t DEF PrepareDispatch, Rows
      <3> QED
        BY <2>1, <2>2, <2>3, <3>1, <1>c, <1>s, GateFrame DEF Acknowledging, Applying
    <2>5. CASE Rows # DestinationsFor(order.status)
      <3>1. \A v \in Workers : job'[v].pc \notin Acknowledging
        BY <2>2, <2>3, <2>5 DEF GateInv, Acknowledging, Applying
      <3> QED
        BY <3>1, <1>c DEF GateInv, Acknowledging, Applying
    <2> QED
      BY <2>4, <2>5
  <1>4. ASSUME NEW w \in Workers, Dispatch(w), ~PrepareDispatch(w) PROVE GateInv'
    <2>1. order'.status = order.status /\ job[w].pc \in Dispatching
      BY <1>4, <1>t DEF Dispatch, ListOutstanding, ClaimRow, QueueDone, Post, MarkSent,
           MarkFailed, MarkRow, TallyRows, RefreshState, At, Dispatching, InFlight, Orders
    <2>2. Rows = DestinationsFor(order.status) /\ order.status \in Final
      BY <2>1, <1>c DEF RecoveryInv
    <2>3. \A d \in Destinations : row[d] = "SENT" => row'[d] = "SENT"
      BY <1>c, SentStep
    <2>4. \A d \in Destinations : row'[d] # "ABSENT" <=> row[d] # "ABSENT"
      BY <1>4, <1>c, <1>t DEF Dispatch, ListOutstanding, ClaimRow, QueueDone, Post, MarkSent,
           MarkFailed, MarkRow, TallyRows, RefreshState, At, Unsent, ClaimInv, InFlight
    <2>5. Rows' = Rows /\ SentRows \subseteq SentRows'
      BY <2>3, <2>4 DEF Rows, SentRows
    <2>6. \A v \in Workers \ {w} : job'[v] = job[v]
      BY <1>4, <1>c, OnlyOwnJob DEF Task
    <2>7. job'[w].pc \notin {"ackGate", "ackClaim"} \cup Applying
      <3>1. CASE QueueDone(w) \/ RefreshState(w)
        BY <3>1, <1>c, GotoFrame, FinishFrame DEF QueueDone, RefreshState, Applying
      <3>2. CASE Post(w)
        BY <3>2, <1>c, GotoFrame DEF Post, At, Applying
      <3>3. CASE ListOutstanding(w) \/ MarkSent(w) \/ MarkFailed(w) \/ TallyRows(w)
        BY <3>3, <1>t DEF ListOutstanding, MarkSent, MarkFailed, MarkRow, TallyRows, Jobs, Applying
      <3>4. CASE ClaimRow(w)
        BY <3>4, <1>t DEF ClaimRow, At, Jobs, Applying
      <3> QED
        BY <1>4, <3>1, <3>2, <3>3, <3>4 DEF Dispatch
    <2> QED
      BY <2>1, <2>2, <2>5, <2>6, <2>7, <1>c, GateFrame
  <1>5. ASSUME NEW w \in Workers, Acknowledgement(w) PROVE GateInv'
    <2>1. UNCHANGED row /\ order'.status = order.status
      BY <1>5, <1>t DEF Acknowledgement, ArmAck, DisarmAck, CheckAck, CheckGate, ClaimAck,
           React, AckApplied, AckFailed, AckSkipped, MarkAck, Orders
    <2>2. \A v \in Workers \ {w} : job'[v] = job[v]
      BY <1>5, <1>c, OnlyOwnJob DEF Task
    <2>3. CASE ArmAck(w) \/ DisarmAck(w) \/ AckApplied(w) \/ AckFailed(w) \/ AckSkipped(w)
      <3>1. job'[w].pc \in {"list", "idle"}
        BY <2>3, <1>c, GotoFrame, FinishFrame
        DEF ArmAck, DisarmAck, AckApplied, AckFailed, AckSkipped, MarkAck
      <3> QED
        BY <2>1, <2>2, <3>1, <1>c, <1>s, GateFrame DEF Acknowledging, Applying
    <2>4. CASE CheckAck(w)
      <3>1. /\ job'[w].pc \in {"idle", "ackSkip", "ackGate"}
            /\ job'[w].pc = "ackGate" => job'[w].status = order.status
        BY <2>4, <1>t DEF CheckAck, Goto, Finish, Idle, Jobs
      <3>2. order.status \in Final /\ Rows = DestinationsFor(order.status)
        BY <2>4 DEF CheckAck, At, GateInv, Acknowledging
      <3> QED
        BY <2>1, <2>2, <3>1, <3>2, <1>c, <1>s, GateFrame DEF Applying
    <2>5. CASE CheckGate(w)
      <3>1. /\ order.status \in Final /\ Rows = DestinationsFor(order.status)
            /\ job[w].status = order.status
        BY <2>5 DEF CheckGate, At, GateInv, Acknowledging
      <3>2. Finish(w) \/ (Goto(w, "ackClaim") /\ GateOpen(order.status))
        BY <2>5, <3>1 DEF CheckGate
      <3>3. /\ job'[w].pc \in {"idle", "ackClaim"}
            /\ job'[w].pc = "ackClaim" =>
                  GateOpen(order.status) /\ job'[w].status = order.status
        <4>1. CASE Finish(w)
          BY <4>1, <1>c, FinishFrame
        <4>2. CASE Goto(w, "ackClaim")
          BY <4>2, <3>1, <3>2, <1>t, <1>c, FinishFrame DEF Goto, Jobs
        <4> QED
          BY <3>2, <4>1, <4>2
      <3> QED
        BY <2>1, <2>2, <3>1, <3>3, <1>c, <1>s, GateFrame DEF Applying
    <2>6. CASE ClaimAck(w) \/ React(w)
      <3>1. /\ order.status \in Final /\ Rows = DestinationsFor(order.status)
            /\ job[w].status = order.status /\ GateOpen(order.status)
        BY <2>6 DEF ClaimAck, React, At, GateInv, Acknowledging, Applying
      <3>2. Finish(w) \/ \E step \in Applying : Goto(w, step)
        BY <2>6 DEF ClaimAck, React, Applying
      <3>3. job'[w].pc = "idle" \/ job'[w].status = job[w].status
        BY <3>2, <1>t DEF Goto, Finish, Idle, Jobs
      <3>4. "idle" \notin Acknowledging
        BY DEF Acknowledging, Applying
      <3> QED
        BY <2>1, <2>2, <3>1, <3>3, <3>4, <1>c, <1>s, GateFrame DEF Acknowledging
    <2> QED
      BY <1>5, <2>3, <2>4, <2>5, <2>6 DEF Acknowledgement
  <1>6. ASSUME NEW w \in Workers, Restart(w) PROVE GateInv'
    <2>1. \A v \in Workers : job[v].pc = "idle"
      BY <1>6, <1>c DEF Restart, ClaimInv
    <2>2. Goto(w, "read") \/ UNCHANGED job
      BY <1>6 DEF Restart
    <2>3. \A v \in Workers : job'[v].pc \in {"idle", "read"}
      BY <2>1, <2>2, <1>c, GotoFrame
    <2> QED
      BY <2>3, <1>c DEF GateInv, Acknowledging, Applying
  <1>7. CASE Crash
    <2>1. \A v \in Workers : job'[v].pc = "idle"
      BY <1>7 DEF Crash, Idle
    <2> QED
      BY <2>1, <1>c DEF GateInv, Acknowledging, Applying
  <1>8. CASE StartPolling \/ UNCHANGED vars
    <2>1. UNCHANGED <<order, row, job>>
      BY <1>8 DEF StartPolling, vars
    <2> QED
      BY <2>1, <1>c DEF GateInv, Rows, SentRows, GateOpen, DestinationsFor
  <1> QED
    BY <1>1, <1>2, <1>3, <1>4, <1>5, <1>6, <1>7, <1>8
    DEF Next, Arrival, Task, Override, Reopen, NoOverrides

(* Without overrides a reaction appears only when the policy accepts what  *)
(* reached the destinations of the outcome it announces, though the gate   *)
(* was checked two transactions earlier and other tasks, crashes and lost  *)
(* answers came between (AcknowledgementService.process).                  *)
THEOREM ReactionsFollowDelivery ==
  ASSUME NoOverrides
  PROVE  Spec => ReactionOnlyAfterDelivery
  <1> DEFINE Justified ==
        \A s \in Final : reactions'[s] # reactions[s] =>
          PolicySatisfied(Policy[s], DestinationsFor(s), SentRows, Required, Primary)
  <1>1. GateInv /\ [Next]_vars => GateInv'
    BY GateStep
  <1>2. GateInv /\ [Next]_vars => [Justified]_vars
    <2> SUFFICES ASSUME GateInv, Next, NEW s \in Final, reactions'[s] # reactions[s]
                 PROVE  PolicySatisfied(Policy[s], DestinationsFor(s), SentRows, Required, Primary)
      OBVIOUS
    <2>1. PICK w \in Workers : React(w)
      BY DEF Next, Arrival, SignalArrives, Retry, Override, Reopen, Task, Finalizer, Decide,
         ReadOrder, Dispatch, PrepareDispatch, ListOutstanding, ClaimRow, QueueDone, Post,
         MarkSent, MarkFailed, MarkRow, TallyRows, RefreshState, Acknowledgement, ArmAck,
         DisarmAck, CheckAck, CheckGate, ClaimAck, AckApplied, AckFailed, AckSkipped, MarkAck,
         Restart, Crash, StartPolling
    <2>2. /\ job[w].status = order.status
          /\ Rows = DestinationsFor(order.status) /\ GateOpen(order.status)
      BY <2>1 DEF React, At, GateInv, Acknowledging, Applying
    <2>3. s = job[w].status
      BY <2>1 DEF React, GateInv, RecoveryInv, ClaimInv, TypeInv, TypeOK
    <2> QED
      BY <2>2, <2>3 DEF GateOpen
  <1> QED
    BY GateInit, <1>1, <1>2, PTL DEF Spec, ReactionOnlyAfterDelivery

------------------------------------------------------------------------------
(* The promise is kept *)

LEMMA SamePolicy ==
  ASSUME NEW policy, NEW rows, NEW sent, NEW required, NEW primary
  PROVE  Delivery!PolicySatisfied(policy, rows, sent, required, primary)
           <=> PolicySatisfied(policy, rows, sent, required, primary)
  BY DEF PolicySatisfied, FlaggedOrAll, Delivery!PolicySatisfied, Delivery!FlaggedOrAll

(* The state ResultDelivery sees: what it is owed, what it got. *)
Outcome == IF order.status \in Final THEN order.status ELSE "OPEN"
Acknowledged == \E s \in Final : reactions[s] > 0
LEMMA Mapped ==
  /\ Delivery!Owed = {d \in Destinations : OutcomeOf[d] = Outcome}
  /\ Delivery!Delivered = {d \in Destinations : copies[d] > 0}
  BY DEF Delivery!Owed, Delivery!Delivered, Outcome

(* Every reader of the order who saw a final outcome still reads the same, *)
(* and what is outstanding or sent belongs to it.                          *)
PromiseInv == GateInv /\ DeliveryInv

LEMMA PromiseInit == Init => PromiseInv /\ Delivery!DeliveryInit
  <1> SUFFICES ASSUME Init PROVE Delivery!DeliveryInit
    BY GateInit, DeliveryInit DEF PromiseInv
  <1>1. order.status \notin Final /\ \A s \in Final : ~(reactions[s] > 0)
    BY DEF Init, Final
  <1>2. copies = [d \in Destinations |-> 0]
    BY DEF Init
  <1> QED
    BY <1>1, <1>2 DEF Delivery!DeliveryInit

LEMMA PromiseStep ==
  ASSUME NoOverrides, NoHalfSends
  PROVE  PromiseInv /\ [Next]_vars => PromiseInv'
  BY GateStep, DeliveryStep DEF PromiseInv

(* A step that touches neither the outcome, nor a copy, nor a reaction. *)
LEMMA Unseen ==
  ASSUME Outcome' = Outcome, copies' = copies, reactions' = reactions
  PROVE  UNCHANGED Delivery!deliveryVars
  BY DEF Delivery!deliveryVars, Outcome

(* _decide_and_persist closes the outcome, once. *)
LEMMA DecideSimulates ==
  ASSUME PromiseInv, NEW w \in Workers, Decide(w)
  PROVE  [Delivery!DeliveryNext]_(Delivery!deliveryVars)
  <1>1. UNCHANGED <<copies, reactions>>
    BY DEF Decide
  <1>2. order.status # "PENDING" => order' = order
    BY DEF Decide, PromiseInv, GateInv, RecoveryInv, ClaimInv, TypeInv, TypeOK, Orders
  <1>3. CASE Outcome' = Outcome
    BY <1>1, <1>3, Unseen
  <1>4. CASE Outcome' # Outcome
    <2>1. order.status \notin Final /\ order'.status \in Final
      BY <1>2, <1>4 DEF Outcome, Final
    <2>2. Delivery!Finalise(order'.status)
      BY <1>1, <2>1 DEF Delivery!Finalise
    <2> QED
      BY <2>1, <2>2 DEF Delivery!DeliveryNext, Final
  <1> QED
    BY <1>3, <1>4

(* A call of Telegram that succeeds delivers a copy that was still owed,   *)
(* to a destination that had none.                                         *)
LEMMA PostSimulates ==
  ASSUME NoHalfSends, PromiseInv, PromiseInv', NEW w \in Workers, Post(w)
  PROVE  [Delivery!DeliveryNext]_(Delivery!deliveryVars)
  <1> DEFINE d == job[w].cur
  <1>1. /\ UNCHANGED <<order, row, reactions>> /\ job[w].pc = "post"
        /\ d \in Destinations /\ row[d] = "SENDING"
    BY DEF Post, At, PromiseInv, GateInv, RecoveryInv, ClaimInv, TypeInv, JobOK, InFlight
  <1>2. order.status \in Final /\ Rows = DestinationsFor(order.status)
    BY <1>1 DEF PromiseInv, GateInv, RecoveryInv, Dispatching, InFlight
  <1>3. copies \in [Destinations -> 0 .. CopyCap]
    BY DEF PromiseInv, GateInv, RecoveryInv, ClaimInv, TypeInv, TypeOK
  <1>4. CASE copies' = copies
    BY <1>1, <1>4, Unseen DEF Outcome
  <1>5. CASE copies' = [copies EXCEPT ![d] = OneMore(copies[d])]
    <2>1. d \in Delivery!Owed
      BY <1>1, <1>2, Mapped DEF Rows, DestinationsFor, Outcome
    <2>2. copies[d] = 0 /\ copies' = [copies EXCEPT ![d] = 1]
      <3>1. copies'[d] = OneMore(copies[d]) /\ copies'[d] <= 1
        BY <1>1, <1>3, <1>5 DEF PromiseInv, DeliveryInv
      <3>2. copies[d] \in 0 .. CopyCap
        BY <1>1, <1>3
      <3>3. copies[d] = 0 /\ OneMore(copies[d]) = 1
        BY <3>1, <3>2, BoundsAssumption DEF OneMore
      <3> QED
        BY <1>5, <3>3
    <2>3. Delivery!Deliver(d)
      BY <1>1, <2>1, <2>2 DEF Delivery!Deliver, Outcome
    <2> QED
      BY <1>1, <2>3 DEF Delivery!DeliveryNext
  <1> QED
    BY <1>4, <1>5 DEF Post

(* set_reaction acknowledges an outcome whose policy accepts what has been *)
(* delivered: the rows it was judged by say no more than Telegram did.     *)
LEMMA ReactSimulates ==
  ASSUME NoHalfSends, PromiseInv, NEW w \in Workers, React(w)
  PROVE  [Delivery!DeliveryNext]_(Delivery!deliveryVars)
  <1>1. /\ order.status \in Final /\ Rows = DestinationsFor(order.status)
        /\ job[w].status = order.status /\ GateOpen(order.status)
    BY DEF React, At, PromiseInv, GateInv, Acknowledging, Applying
  <1>2. UNCHANGED <<order, copies>>
    BY DEF React
  <1>3. SentRows \subseteq Delivery!Delivered
    BY Mapped DEF SentRows, PromiseInv, DeliveryInv, ClaimInv, TypeInv, TypeOK
  <1>4. Delivery!Owed = Rows
    BY <1>1, Mapped DEF DestinationsFor, Outcome
  <1>5. Delivery!PolicySatisfied(Policy[order.status], Delivery!Owed, Delivery!Delivered,
                                 Required, Primary)
    BY <1>1, <1>3, <1>4, PolicyIsMonotone, SamePolicy DEF GateOpen
  <1>6. reactions \in [Final -> 0 .. CopyCap]
    BY DEF PromiseInv, DeliveryInv, ClaimInv, TypeInv, TypeOK
  <1>7. CASE reactions' = reactions
    BY <1>2, <1>7, Unseen DEF Outcome
  <1>8. CASE reactions' = [reactions EXCEPT ![job[w].status] = OneMore(reactions[job[w].status])]
    <2>1. reactions'[order.status] = OneMore(reactions[order.status])
      BY <1>1, <1>6, <1>8
    <2>2. reactions'[order.status] > 0
      <3>1. reactions[order.status] \in 0 .. CopyCap
        BY <1>1, <1>6
      <3> QED
        BY <2>1, <3>1, BoundsAssumption DEF OneMore
    <2>3. Acknowledged'
      BY <1>1, <2>2 DEF Acknowledged
    <2>4. Delivery!Acknowledge
      BY <1>1, <1>2, <1>5, <2>3 DEF Delivery!Acknowledge, Acknowledged, Final
    <2> QED
      BY <2>4 DEF Delivery!DeliveryNext
  <1> QED
    BY <1>7, <1>8 DEF React

(* Every other step is one ResultDelivery does not see. *)
LEMMA OthersStutter ==
  ASSUME NoOverrides, NoHalfSends, PromiseInv, [Next]_vars,
         \A w \in Workers : ~Decide(w) /\ ~Post(w) /\ ~React(w)
  PROVE  UNCHANGED Delivery!deliveryVars
  <1>t. order \in Orders
    BY DEF PromiseInv, DeliveryInv, ClaimInv, TypeInv, TypeOK
  <1>1. ASSUME NEW w \in Workers, Arrival(w) PROVE UNCHANGED <<order, copies, reactions>>
    BY <1>1 DEF Arrival, SignalArrives, Retry, Override, Reopen, NoOverrides
  <1>2. ASSUME NEW w \in Workers, Task(w)
        PROVE  order'.status = order.status /\ UNCHANGED <<copies, reactions>>
    <2>1. CASE Finalizer(w)
      BY <2>1 DEF Finalizer, ReadOrder
    <2>2. CASE Dispatch(w)
      BY <2>2, <1>t DEF Dispatch, PrepareDispatch, ListOutstanding, ClaimRow, QueueDone,
           MarkSent, MarkFailed, MarkRow, TallyRows, RefreshState, Orders
    <2>3. CASE Acknowledgement(w)
      BY <2>3, <1>t DEF Acknowledgement, ArmAck, DisarmAck, CheckAck, CheckGate, ClaimAck,
           AckApplied, AckFailed, AckSkipped, MarkAck, Orders
    <2> QED
      BY <1>2, <2>1, <2>2, <2>3 DEF Task
  <1>3. ASSUME NEW w \in Workers, Restart(w)
        PROVE  order'.status = order.status /\ UNCHANGED <<copies, reactions>>
    BY <1>3, <1>t DEF Restart, Orders
  <1>4. Crash \/ StartPolling \/ UNCHANGED vars => UNCHANGED <<order, copies, reactions>>
    BY DEF Crash, StartPolling, vars
  <1>5. order'.status = order.status /\ UNCHANGED <<copies, reactions>>
    BY <1>1, <1>2, <1>3, <1>4 DEF Next
  <1> QED
    BY <1>5, Unseen DEF Outcome

(* The pipeline, with its workers, claims, rows and retries, keeps the     *)
(* promise of ResultDelivery: the outcome is decided once, only the        *)
(* destinations it is owed to get the result, each at most once, and the   *)
(* acknowledgement waits for the policy (run_pipeline).  It needs a        *)
(* process that lives, sends that do not half succeed, and no overrides.   *)
THEOREM PromiseKept ==
  ASSUME NoOverrides, NoHalfSends
  PROVE  Spec => Implements
  <1>1. PromiseInv /\ [Next]_vars => PromiseInv'
    BY PromiseStep
  <1>2. PromiseInv /\ PromiseInv' /\ [Next]_vars => [Delivery!DeliveryNext]_(Delivery!deliveryVars)
    <2> SUFFICES ASSUME PromiseInv, PromiseInv', [Next]_vars
                 PROVE  [Delivery!DeliveryNext]_(Delivery!deliveryVars)
      OBVIOUS
    <2>1. CASE \E w \in Workers : Decide(w)
      BY <2>1, DecideSimulates
    <2>2. CASE \E w \in Workers : Post(w)
      BY <2>2, PostSimulates
    <2>3. CASE \E w \in Workers : React(w)
      BY <2>3, ReactSimulates
    <2>4. CASE \A w \in Workers : ~Decide(w) /\ ~Post(w) /\ ~React(w)
      BY <2>4, OthersStutter
    <2> QED
      BY <2>1, <2>2, <2>3, <2>4
  <1> QED
    BY PromiseInit, <1>1, <1>2, PTL DEF Spec, Implements, Delivery!DeliverySpec

==============================================================================
