---------------------------- MODULE DecisionProofs -----------------------------
(* Theorems about Decision, for every number of tasks and members and      *)
(* every configuration of the rules.                                       *)
EXTENDS Decision, TLAPS

------------------------------------------------------------------------------
(* Types *)

LEMMA IdleType == Idle \in Jobs
  BY DEF Idle, Jobs, Steps

LEMMA DecisionType == \A active : Decision(active) \in OrderStatus
  BY DEF Decision, OrderStatus, Final

LEMMA SignalsOfReaction == \A emoji : ReactionSignals(emoji) \subseteq Signals
  BY DEF ReactionSignals, Signals, Keys

LEMMA SignalsGiven ==
  \A m, signals : FromOperator(m, signals) \subseteq Signals
  BY DEF FromOperator, EnabledSignals

LEMMA HandleType ==
  ASSUME NEW w \in Workers, job \in [Workers -> Jobs], NEW m \in Members,
         NEW gives \in SUBSET Signals, NEW takes \in SUBSET Signals,
         Handle(w, m, gives, takes)
  PROVE  job' \in [Workers -> Jobs]
  <1>1. [pc |-> "check", by |-> m, gives |-> gives, takes |-> takes] \in Jobs
    BY DEF Jobs, Steps
  <1> QED
    BY <1>1 DEF Handle

LEMMA GotoType ==
  ASSUME NEW w \in Workers, job \in [Workers -> Jobs], NEW step \in Steps,
         Goto(w, step)
  PROVE  job' \in [Workers -> Jobs]
  BY DEF Goto, Jobs

LEMMA FinishType ==
  ASSUME NEW w \in Workers, job \in [Workers -> Jobs], Finish(w)
  PROVE  job' \in [Workers -> Jobs]
  BY IdleType DEF Finish

LEMMA TypeInit == Init => TypeOK
  BY DecisionAssumption, IdleType DEF Init, TypeOK, OrderStatus

LEMMA TypeStep == TypeOK /\ [Next]_vars => TypeOK'
  <1> SUFFICES ASSUME TypeOK, [Next]_vars PROVE TypeOK'
    OBVIOUS
  <1> USE DEF TypeOK
  <1>1. ASSUME NEW w \in Workers, Reply(w) PROVE TypeOK'
    <2>1. PICK m \in Members, reply \in Replies : Handle(w, m, FromOperator(m, reply), {})
      BY <1>1 DEF Reply
    <2>2. job' \in [Workers -> Jobs]
      BY <2>1, HandleType, SignalsGiven
    <2> QED
      BY <1>1, <2>2 DEF Reply, bounds
  <1>2. ASSUME NEW w \in Workers, React(w) PROVE TypeOK'
    <2>1. PICK m \in Members, emoji \in Emojis \cup {NoEmoji} :
            LET gives == FromOperator(m, ReactionSignals(emoji)) IN
            /\ shown' = [shown EXCEPT ![m] = emoji]
            /\ Handle(w, m, gives, IF gives = {} THEN ReactionSignals(shown[m]) ELSE {})
      BY <1>2 DEF React
    <2>2. job' \in [Workers -> Jobs]
      <3> DEFINE gives == FromOperator(m, ReactionSignals(emoji))
                 takes == IF gives = {} THEN ReactionSignals(shown[m]) ELSE {}
      <3>1. gives \in SUBSET Signals
        BY SignalsGiven
      <3>2. takes \in SUBSET Signals
        BY SignalsOfReaction
      <3>3. Handle(w, m, gives, takes)
        BY <2>1
      <3> HIDE DEF gives, takes
      <3> QED
        BY <3>1, <3>2, <3>3, HandleType
    <2>3. shown' \in [Members -> Emojis \cup {NoEmoji}]
      BY <2>1
    <2> QED
      BY <1>2, <2>2, <2>3 DEF React, bounds
  <1>3. ASSUME NEW w \in Workers, CheckOpen(w) PROVE TypeOK'
    <2>1. job' \in [Workers -> Jobs]
      BY <1>3, GotoType, FinishType DEF CheckOpen, Steps
    <2> QED
      BY <1>3, <2>1 DEF CheckOpen, bounds
  <1>4. ASSUME NEW w \in Workers, Record(w) PROVE TypeOK'
    <2>1. job' \in [Workers -> Jobs]
      BY <1>4, GotoType DEF Record, Steps
    <2>2. job[w].by \in Members \cup {Nobody}
      BY DEF Jobs
    <2>3. signal' \in [Signals -> Members \cup {Nobody}]
      BY <1>4, <2>2 DEF Record
    <2> QED
      BY <1>4, <2>1, <2>3 DEF Record, bounds
  <1>5. ASSUME NEW w \in Workers, Deactivate(w) PROVE TypeOK'
    BY <1>5, FinishType DEF Deactivate, bounds
  <1>6. ASSUME NEW w \in Workers, Decide(w) PROVE TypeOK'
    <2>1. status' \in OrderStatus
      BY <1>6, DecisionType DEF Decide
    <2> QED
      BY <1>6, <2>1, FinishType DEF Decide, bounds
  <1>7. ASSUME Override PROVE TypeOK'
    <2>1. overrides' \in 0 .. MaxOverrides
      BY <1>7, DecisionAssumption DEF Override
    <2> QED
      BY <1>7, <2>1 DEF Override, OrderStatus, Final
  <1>8. ASSUME Crash PROVE TypeOK'
    <2>1. crashes' \in 0 .. MaxCrashes
      BY <1>8, DecisionAssumption DEF Crash
    <2> QED
      BY <1>8, <2>1, IdleType DEF Crash
  <1>9. ASSUME UNCHANGED vars PROVE TypeOK'
    BY <1>9 DEF vars
  <1> QED
    BY <1>1, <1>2, <1>3, <1>4, <1>5, <1>6, <1>7, <1>8, <1>9 DEF Next, Task

(* Every reachable state is well typed. *)
THEOREM TypeCorrect == Spec => []TypeOK
  BY TypeInit, TypeStep, PTL DEF Spec

------------------------------------------------------------------------------
(* Missed matches *)

(* More signals satisfy a rule as well, and the decision is open only when *)
(* neither rule is satisfied.                                              *)
LEMMA MatchedGrows ==
  ASSUME NEW o, NEW few, NEW many, few \subseteq many, Matched(o, few)
  PROVE  Matched(o, many)
  BY DEF Matched

LEMMA OpenDecision ==
  \A active : Decision(active) = "PENDING"
                <=> ~Matched("SUCCESS", active) /\ ~Matched("FAILED", active)
  BY DEF Decision

LEMMA StaysOpen ==
  ASSUME NEW few, NEW many, few \subseteq many, Decision(many) = "PENDING"
  PROVE  Decision(few) = "PENDING"
  BY MatchedGrows, OpenDecision

(* Undisturbed: no crash and no administrator has interfered. *)
Undisturbed == overrides = 0 /\ crashes = 0

(* While the stored signals satisfy a rule nobody applied, some task has   *)
(* recorded and is about to decide.                                        *)
MatchInv ==
    /\ TypeOK
    /\ Undisturbed /\ status = "PENDING" /\ Decision(Active) # "PENDING"
          => \E w \in Workers : At(w, "decide")

LEMMA MatchInit == Init => MatchInv
  <1> SUFFICES ASSUME Init PROVE MatchInv
    OBVIOUS
  <1>1. Active = {}
    BY DEF Init, Active
  <1>2. \A o \in Final : ~Matched(o, {})
    BY DEF Matched
  <1>3. Decision(Active) = "PENDING"
    BY <1>1, <1>2, OpenDecision DEF Final
  <1> QED
    BY <1>3, TypeInit DEF MatchInv

LEMMA MatchStep == MatchInv /\ [Next]_vars => MatchInv'
  <1> SUFFICES ASSUME MatchInv, [Next]_vars,
                      Undisturbed', status' = "PENDING", Decision(Active') # "PENDING"
               PROVE  \E w \in Workers : At(w, "decide")'
    BY TypeStep DEF MatchInv, Active
  <1>0. TypeOK
    BY DEF MatchInv
  <1>1. ASSUME NEW w \in Workers, Reply(w) \/ React(w) \/ CheckOpen(w)
        PROVE  \E v \in Workers : At(v, "decide")'
    <2>1. Undisturbed /\ status = "PENDING" /\ Active' = Active
      BY <1>1 DEF Reply, React, CheckOpen, bounds, Undisturbed, Active
    <2>2. PICK v \in Workers : At(v, "decide")
      BY <2>1 DEF MatchInv
    <2>3. v # w
      BY <1>1, <2>2 DEF Reply, React, CheckOpen, At
    <2>4. job'[v] = job[v]
      BY <1>0, <1>1, <2>3 DEF Reply, React, CheckOpen, Handle, Goto, Finish, TypeOK
    <2> QED
      BY <2>2, <2>4 DEF At
  <1>2. ASSUME NEW w \in Workers, Record(w)
        PROVE  \E v \in Workers : At(v, "decide")'
    <2>1. job'[w].pc = "decide"
      BY <1>0, <1>2 DEF Record, Goto, TypeOK, Jobs
    <2> QED
      BY <2>1 DEF At
  <1>3. ASSUME NEW w \in Workers, Deactivate(w)
        PROVE  \E v \in Workers : At(v, "decide")'
    <2>1. Active' \subseteq Active
      BY <1>3 DEF Deactivate, Active
    <2>2. Decision(Active) # "PENDING"
      BY <2>1, StaysOpen
    <2>3. PICK v \in Workers : At(v, "decide")
      BY <1>3, <2>2 DEF MatchInv, Deactivate, bounds, Undisturbed
    <2>4. job'[v] = job[v]
      BY <1>0, <1>3, <2>3 DEF Deactivate, Finish, At, TypeOK
    <2> QED
      BY <2>3, <2>4 DEF At
  <1>4. ASSUME NEW w \in Workers, Decide(w)
        PROVE  FALSE
    <2>1. Active' = Active
      BY <1>4 DEF Decide, Active
    <2>2. status' = Decision(Active) \/ status \notin OpenToDecision
      BY <1>4, <2>1 DEF Decide
    <2>3. status' = status \/ status' = Decision(Active)
      BY <1>4 DEF Decide
    <2> QED
      BY <2>1, <2>2, <2>3 DEF OpenToDecision
  <1>5. ASSUME Override \/ Crash PROVE FALSE
    BY <1>0, <1>5 DEF Override, Crash, Undisturbed, TypeOK
  <1>6. CASE UNCHANGED vars
    BY <1>6 DEF vars, MatchInv, Undisturbed, Active, At
  <1> QED
    BY <1>1, <1>2, <1>3, <1>4, <1>5, <1>6 DEF Next, Task

(* Once no update is being handled, the order was decided by every rule    *)
(* its stored signals satisfy, however the tasks that recorded them raced  *)
(* (SignalService.apply, _decide_and_persist).                             *)
THEOREM NothingMissed == Spec => []NoMatchIsMissed
  <1>1. MatchInv => NoMatchIsMissed
    BY DEF MatchInv, NoMatchIsMissed, Undisturbed, Quiet, At
  <1> QED
    BY MatchInit, MatchStep, <1>1, PTL DEF Spec

------------------------------------------------------------------------------
(* Who decides *)

(* A decided order changes status by an override only. *)
LEMMA StatusStep ==
  [Next]_vars /\ status # "PENDING" => status' = status \/ overrides' = overrides + 1
  <1> SUFFICES ASSUME [Next]_vars, status # "PENDING"
               PROVE  status' = status \/ overrides' = overrides + 1
    OBVIOUS
  <1>1. ASSUME NEW w \in Workers, Reply(w) \/ React(w) \/ CheckOpen(w) \/ Record(w) \/ Deactivate(w)
        PROVE  status' = status
    BY <1>1 DEF Reply, React, CheckOpen, Record, Deactivate
  <1>2. ASSUME NEW w \in Workers, Decide(w) PROVE status' = status
    BY <1>2 DEF Decide, OpenToDecision
  <1> QED
    BY <1>1, <1>2 DEF Next, Task, Override, Crash, vars

(* SUCCESS, FAILED and CONFLICT are reversed by administrators only        *)
(* (transition with expected_statuses, under the lock of the order).       *)
THEOREM DecisionsStand == Spec => OnlyAdminsReverse
  <1>1. [Next]_vars => [status # "PENDING" => status' = status \/ overrides' = overrides + 1]_vars
    BY StatusStep
  <1> QED
    BY <1>1, PTL DEF Spec, OnlyAdminsReverse

(* What is stored, and what a task is about to store, comes from an        *)
(* operator.                                                               *)
OperatorInv ==
    /\ TypeOK
    /\ \A s \in Signals : signal[s] \in Operators \cup {Nobody}
    /\ \A w \in Workers : job[w].gives # {} => job[w].by \in Operators

LEMMA OperatorInit == Init => OperatorInv
  BY TypeInit DEF Init, OperatorInv, Idle

LEMMA GivesOfOperator ==
  ASSUME OperatorInv, NEW w \in Workers, NEW m \in Members, NEW signals, NEW takes,
         Handle(w, m, FromOperator(m, signals), takes)
  PROVE  \A v \in Workers : job'[v].gives # {} => job'[v].by \in Operators
  <1> DEFINE gives == FromOperator(m, signals)
  <1>1. gives # {} => m \in Operators
    BY DEF FromOperator
  <1>2. Handle(w, m, gives, takes)
    OBVIOUS
  <1> HIDE DEF gives
  <1> QED
    BY <1>1, <1>2 DEF Handle, OperatorInv, TypeOK

LEMMA OperatorStep == OperatorInv /\ [Next]_vars => OperatorInv'
  <1> SUFFICES ASSUME OperatorInv, [Next]_vars PROVE OperatorInv'
    OBVIOUS
  <1>0. TypeOK /\ TypeOK'
    BY TypeStep DEF OperatorInv
  <1>1. ASSUME NEW w \in Workers, Reply(w) PROVE OperatorInv'
    <2>1. \A v \in Workers : job'[v].gives # {} => job'[v].by \in Operators
      BY <1>1, GivesOfOperator DEF Reply
    <2> QED
      BY <1>0, <1>1, <2>1 DEF Reply, OperatorInv
  <1>2. ASSUME NEW w \in Workers, React(w) PROVE OperatorInv'
    <2>1. PICK m \in Members, emoji \in Emojis \cup {NoEmoji}, takes \in SUBSET Signals :
            Handle(w, m, FromOperator(m, ReactionSignals(emoji)), takes)
      BY <1>2, SignalsOfReaction DEF React
    <2>2. \A v \in Workers : job'[v].gives # {} => job'[v].by \in Operators
      BY <2>1, GivesOfOperator
    <2> QED
      BY <1>0, <1>2, <2>2 DEF React, OperatorInv
  <1>3. ASSUME NEW w \in Workers, CheckOpen(w) \/ Decide(w) PROVE OperatorInv'
    <2>1. \A v \in Workers : job'[v].gives # {} => job'[v].by \in Operators
      BY <1>0, <1>3 DEF CheckOpen, Decide, Goto, Finish, Idle, OperatorInv, TypeOK, Jobs
    <2> QED
      BY <1>0, <1>3, <2>1 DEF CheckOpen, Decide, OperatorInv
  <1>4. ASSUME NEW w \in Workers, Record(w) PROVE OperatorInv'
    <2>1. \A v \in Workers : job'[v].gives = job[v].gives /\ job'[v].by = job[v].by
      BY <1>0, <1>4 DEF Record, Goto, TypeOK, Jobs
    <2>2. \A s \in Signals : signal'[s] \in Operators \cup {Nobody}
      BY <1>4 DEF Record, OperatorInv
    <2> QED
      BY <1>0, <2>1, <2>2 DEF OperatorInv
  <1>5. ASSUME NEW w \in Workers, Deactivate(w) PROVE OperatorInv'
    <2>1. \A v \in Workers : job'[v] = job[v] \/ job'[v] = Idle
      BY <1>0, <1>5 DEF Deactivate, Finish, TypeOK
    <2>2. \A s \in Signals : signal'[s] \in Operators \cup {Nobody}
      BY <1>5 DEF Deactivate, OperatorInv
    <2> QED
      BY <1>0, <2>1, <2>2 DEF OperatorInv, Idle
  <1>6. CASE Override
    BY <1>0, <1>6 DEF Override, OperatorInv
  <1>7. CASE Crash
    BY <1>0, <1>7 DEF Crash, OperatorInv, Idle
  <1>8. CASE UNCHANGED vars
    BY <1>0, <1>8 DEF vars, OperatorInv
  <1> QED
    BY <1>1, <1>2, <1>3, <1>4, <1>5, <1>6, <1>7, <1>8 DEF Next, Task

(* "Only an authorized operator can produce a signal", whoever else        *)
(* replies, reacts or takes reactions back.                                *)
THEOREM SignalsAreOperators == Spec => []OnlyOperatorsSignal
  <1>1. OperatorInv => OnlyOperatorsSignal
    BY DEF OperatorInv, OnlyOperatorsSignal, Active
  <1> QED
    BY OperatorInit, OperatorStep, <1>1, PTL DEF Spec

===============================================================================
