----------------------------- MODULE IntakeProofs ------------------------------
(* Theorems about Intake, for every set of posts, albums, work groups and  *)
(* tasks.                                                                  *)
EXTENDS Intake, FiniteSetTheorems, TLAPS

------------------------------------------------------------------------------
(* Tasks *)

(* A step moves one task at most; the rest of the proofs looks at the      *)
(* record that task holds afterwards.                                      *)
JobType == job \in [Workers -> Jobs]

LEMMA IdleType == Idle \in Jobs
  BY DEF Idle, Jobs, Steps, NoDelivery

LEMMA Schedules ==
  ASSUME JobType, NEW w \in Workers, NEW step \in Steps, NEW h \in Posts,
         GotoWith(w, step, h)
  PROVE  /\ JobType'
         /\ job'[w] = [job[w] EXCEPT !.pc = step, !.head = h]
         /\ \A v \in Workers \ {w} : job'[v] = job[v]
  <1> DEFINE moved == [job[w] EXCEPT !.pc = step, !.head = h]
  <1>1. moved \in Jobs
    BY DEF JobType, Jobs
  <1>2. job' = [job EXCEPT ![w] = moved]
    BY DEF GotoWith, JobType
  <1> HIDE DEF moved
  <1>3. JobType' /\ job'[w] = moved /\ \A v \in Workers \ {w} : job'[v] = job[v]
    BY <1>1, <1>2 DEF JobType
  <1> QED
    BY <1>3 DEF moved

LEMMA Moves ==
  ASSUME JobType, NEW w \in Workers, NEW step \in Steps, Goto(w, step)
  PROVE  /\ JobType'
         /\ job'[w] = [job[w] EXCEPT !.pc = step]
         /\ \A v \in Workers \ {w} : job'[v] = job[v]
  BY DEF JobType, Goto, Jobs

LEMMA Finishes ==
  ASSUME JobType, NEW w \in Workers, Finish(w)
  PROVE  /\ JobType'
         /\ job'[w] = Idle
         /\ \A v \in Workers \ {w} : job'[v] = job[v]
  BY IdleType DEF JobType, Finish

LEMMA RoutingMoves ==
  ASSUME JobType, NEW w \in Workers, Routing(w) \/ Restart(w)
  PROVE  /\ JobType'
         /\ job'[w].pc \in {"list", "claim", "compose", "send", "complete", "fail", "idle"}
         /\ \A v \in Workers \ {w} : job'[v] = job[v]
  <1>j. job[w] \in Jobs
    BY DEF JobType
  <1>1. CASE Route(w) \/ Send(w)
    <2>1. PICK step \in {"list", "complete", "fail"} : Goto(w, step)
      BY <1>1 DEF Route, Send
    <2>2. /\ JobType' /\ job'[w] = [job[w] EXCEPT !.pc = step]
          /\ \A v \in Workers \ {w} : job'[v] = job[v]
      BY <2>1, Moves DEF Steps
    <2>3. job'[w].pc = step
      BY <2>2, <1>j DEF Jobs
    <2> QED
      BY <2>2, <2>3
  <1>2. CASE QueueDone(w)
    BY <1>2, Finishes DEF QueueDone, Idle
  <1>3. CASE List(w)
    BY <1>3, <1>j DEF List, JobType, Jobs, Steps, Undelivered
  <1>4. CASE Claim(w)
    <2>1. PICK d \in job[w].queue :
             job' \in {[job EXCEPT ![w].pc = "compose", ![w].queue = job[w].queue \ {d},
                                  ![w].cur = d],
                       [job EXCEPT ![w].queue = job[w].queue \ {d}]}
      BY <1>4 DEF Claim
    <2>2. d \in Deliveries /\ job[w].queue \ {d} \in SUBSET Deliveries /\ job[w].pc = "claim"
      BY <1>j, <1>4 DEF Jobs, Claim, At
    <2> QED
      BY <2>1, <2>2, <1>j DEF JobType, Jobs, Steps
  <1>5. CASE Compose(w)
    BY <1>5, <1>j DEF Compose, JobType, Jobs, Steps, PartsOf
  <1>6. CASE Complete(w) \/ Fail(w)
    BY <1>6, <1>j DEF Complete, Fail, Mark, JobType, Jobs, Steps
  <1>7. CASE Restart(w)
    BY <1>7, <1>j DEF Restart, JobType, Jobs, Steps, Undelivered
  <1> QED
    BY <1>1, <1>2, <1>3, <1>4, <1>5, <1>6, <1>7 DEF Routing

------------------------------------------------------------------------------
(* Orders *)

(* The rows of orders and counters, and what tasks and timers know of      *)
(* them: a task or timer that will route holds the head of an order.       *)
RowType ==
    /\ JobType
    /\ queued \subseteq Posts
    /\ day \in 1 .. Days
    /\ counter \in [1 .. Days -> Nat]
    /\ number \in [Posts -> {NoNumber} \cup ((1 .. Days) \X (Nat \ {0}))]
    /\ partOf \in [Posts -> Posts \cup {NoPost}]
    /\ timer \in [Albums -> Posts \cup {NoPost}]

TakingIn == {"lookup", "create", "attach", "schedule"}

RoutesHeads ==
    /\ \A w \in Workers :
          /\ job[w].pc \in TakingIn => job[w].post \in Posts
          /\ job[w].pc \in {"schedule", "route"} => job[w].head \in Heads
    /\ \A a \in Albums : timer[a] # NoPost => timer[a] \in Heads

OrderInv == RowType /\ RoutesHeads /\ AlbumIsOneOrder

LEMMA OrderInit == Init => OrderInv
  <1> SUFFICES ASSUME Init PROVE OrderInv
    OBVIOUS
  <1>1. RowType
    BY IntakeAssumption, IdleType DEF Init, RowType, JobType
  <1>2. Heads = {}
    BY DEF Init, Heads
  <1> QED
    BY <1>1, <1>2 DEF Init, OrderInv, RoutesHeads, AlbumIsOneOrder, Idle, TakingIn

(* Steps that leave the orders alone. *)
LEMMA SameOrders ==
  ASSUME OrderInv, RowType', UNCHANGED <<number, partOf>>,
         \A a \in Albums : timer'[a] \in {NoPost, timer[a]} \cup Heads,
         \A w \in Workers :
            /\ job'[w].pc \in TakingIn => job'[w].post \in Posts
            /\ job'[w].pc \in {"schedule", "route"} => job'[w].head \in Heads
  PROVE  OrderInv'
  <1>1. Heads' = Heads
    BY DEF Heads
  <1>2. RoutesHeads'
    BY <1>1 DEF OrderInv, RoutesHeads
  <1>3. AlbumIsOneOrder'
    BY <1>1 DEF OrderInv, AlbumIsOneOrder
  <1> QED
    BY <1>2, <1>3 DEF OrderInv

(* A post is stored as a part of an order it belongs to. *)
LEMMA AttachStep ==
  ASSUME OrderInv, NEW w \in Workers, NEW h, h \in OrdersOf(job[w].post),
         job[w].post \in Posts,
         partOf' = Attached(job[w].post, h), GotoWith(w, "schedule", h),
         UNCHANGED <<queued, day, counter, number, timer>>
  PROVE  OrderInv'
  <1>1. h \in Heads /\ h \in Posts /\ (h = job[w].post \/ SameAlbum(h, job[w].post))
    BY DEF OrdersOf, Heads
  <1>2. JobType /\ "schedule" \in Steps
    BY DEF OrderInv, RowType, Steps
  <1>3. /\ JobType'
        /\ job'[w] = [job[w] EXCEPT !.pc = "schedule", !.head = h]
        /\ \A v \in Workers \ {w} : job'[v] = job[v]
    BY <1>1, <1>2, Schedules
  <1>4. Heads' = Heads
    BY DEF Heads
  <1>5. \A p \in Posts : \/ partOf'[p] = partOf[p]
                         \/ p = job[w].post /\ partOf'[p] = h
    BY DEF Attached, OrderInv, RowType
  <1>6. partOf' \in [Posts -> Posts \cup {NoPost}]
    BY <1>1 DEF Attached, OrderInv, RowType
  <1>7. RowType'
    BY <1>3, <1>6 DEF OrderInv, RowType
  <1>8. RoutesHeads'
    <2>1. job[w] \in Jobs
      BY <1>2 DEF JobType
    <2>2. job'[w].head = h /\ job'[w].post = job[w].post
      BY <1>3, <2>1 DEF Jobs
    <2> QED
      BY <1>1, <1>3, <1>4, <2>2 DEF OrderInv, RoutesHeads
  <1>9. AlbumIsOneOrder'
    <2>1. \A p \in Posts : partOf'[p] # NoPost =>
             partOf'[p] \in Heads /\ (partOf'[p] = p \/ SameAlbum(partOf'[p], p))
      BY <1>1, <1>5 DEF OrderInv, AlbumIsOneOrder
    <2> QED
      BY <1>4, <2>1 DEF OrderInv, AlbumIsOneOrder
  <1> QED
    BY <1>7, <1>8, <1>9 DEF OrderInv

(* A post becomes an order only while its album has none. *)
LEMMA CreateStep ==
  ASSUME OrderInv, NEW w \in Workers, Create(w), OrdersOf(job[w].post) = {}
  PROVE  /\ OrderInv'
         /\ Heads' = Heads \cup {job[w].post} /\ job[w].post \notin Heads
         /\ number' = [number EXCEPT ![job[w].post] = <<day, counter[day] + 1>>]
         /\ counter' = [counter EXCEPT ![day] = @ + 1]
  <1> DEFINE p == job[w].post
             taken == <<day, counter[day] + 1>>
  <1>1. p \in Posts
    BY DEF OrderInv, RoutesHeads, Create, At, TakingIn
  <1>2. /\ counter' = [counter EXCEPT ![day] = @ + 1]
        /\ number' = [number EXCEPT ![p] = taken]
        /\ partOf' = Attached(p, p)
        /\ GotoWith(w, "schedule", p)
        /\ UNCHANGED <<queued, day, timer>>
    BY DEF Create
  <1>3. taken \in (1 .. Days) \X (Nat \ {0}) /\ taken # NoNumber
    BY DEF OrderInv, RowType, NoNumber
  <1>4. p \notin Heads
    BY <1>1 DEF OrdersOf
  <1>5. Heads' = Heads \cup {p}
    BY <1>1, <1>2, <1>3 DEF Heads, OrderInv, RowType
  <1>6. /\ JobType'
        /\ job'[w] = [job[w] EXCEPT !.pc = "schedule", !.head = p]
        /\ \A v \in Workers \ {w} : job'[v] = job[v]
    <2>1. JobType /\ "schedule" \in Steps
      BY DEF OrderInv, RowType, Steps
    <2> QED
      BY <1>1, <1>2, <2>1, Schedules
  <1>7. RowType'
    <2>1. number' \in [Posts -> {NoNumber} \cup ((1 .. Days) \X (Nat \ {0}))]
      BY <1>2, <1>3 DEF OrderInv, RowType
    <2>2. counter' \in [1 .. Days -> Nat]
      BY <1>2 DEF OrderInv, RowType
    <2>3. partOf' \in [Posts -> Posts \cup {NoPost}]
      BY <1>1, <1>2 DEF Attached, OrderInv, RowType
    <2> QED
      BY <1>2, <1>6, <2>1, <2>2, <2>3 DEF OrderInv, RowType
  <1>8. RoutesHeads'
    <2>1. job[w] \in Jobs
      BY DEF OrderInv, RowType, JobType
    <2>2. job'[w].head = p /\ job'[w].post = p
      BY <1>6, <2>1 DEF Jobs
    <2> QED
      BY <1>1, <1>2, <1>5, <1>6, <2>2 DEF OrderInv, RoutesHeads
  <1>9. AlbumIsOneOrder'
    <2>1. \A h \in Heads : ~SameAlbum(h, p)
      BY DEF OrdersOf
    <2>2. \A g, h \in Heads' : SameAlbum(g, h) => g = h
      BY <1>5, <2>1 DEF OrderInv, AlbumIsOneOrder, SameAlbum
    <2>3. \A q \in Posts : partOf'[q] # NoPost =>
             partOf'[q] \in Heads' /\ (partOf'[q] = q \/ SameAlbum(partOf'[q], q))
      BY <1>1, <1>2, <1>5 DEF Attached, OrderInv, RowType, AlbumIsOneOrder
    <2> QED
      BY <2>2, <2>3 DEF AlbumIsOneOrder
  <1> QED
    BY <1>2, <1>4, <1>5, <1>7, <1>8, <1>9 DEF OrderInv

(* A step of one task that leaves the orders alone. *)
LEMMA OneTask ==
  ASSUME OrderInv, NEW w \in Workers, JobType',
         \A v \in Workers \ {w} : job'[v] = job[v],
         job'[w].pc \in TakingIn => job'[w].post \in Posts,
         job'[w].pc \in {"schedule", "route"} => job'[w].head \in Heads,
         UNCHANGED <<day, counter, number, partOf>>, queued' \subseteq Posts,
         timer' \in [Albums -> Posts \cup {NoPost}],
         \A a \in Albums : timer'[a] \in {NoPost, timer[a]} \cup Heads
  PROVE  OrderInv'
  <1>1. RowType'
    BY DEF OrderInv, RowType
  <1> QED
    BY <1>1, SameOrders DEF OrderInv, RoutesHeads

LEMMA OrderStep == OrderInv /\ [Next]_vars => OrderInv'
  <1> SUFFICES ASSUME OrderInv, [Next]_vars PROVE OrderInv'
    OBVIOUS
  <1>t. /\ RowType /\ JobType /\ RoutesHeads
        /\ \A w \in Workers : job[w] \in Jobs
    BY DEF OrderInv, RowType, JobType
  <1>1. ASSUME NEW w \in Workers, Receive(w) PROVE OrderInv'
    <2>1. PICK p \in queued :
             job' = IF p \in ledger THEN job
                    ELSE [job EXCEPT ![w] = [Idle EXCEPT !.pc = "lookup", !.post = p]]
      BY <1>1 DEF Receive
    <2>2. p \in Posts /\ queued' \subseteq Posts /\ UNCHANGED <<day, counter, number, partOf, timer>>
      BY <1>1, <1>t DEF Receive, RowType
    <2>3. CASE job' = job
      BY <2>2, <2>3, <1>t, OneTask DEF RowType, RoutesHeads, JobType
    <2>4. CASE job' = [job EXCEPT ![w] = [Idle EXCEPT !.pc = "lookup", !.post = p]]
      <3>1. JobType' /\ job'[w] = [Idle EXCEPT !.pc = "lookup", !.post = p]
            /\ \A v \in Workers \ {w} : job'[v] = job[v]
        BY <2>2, <2>4, <1>t, IdleType DEF JobType, Jobs, Idle, Steps
      <3>2. job'[w].pc = "lookup" /\ job'[w].post = p
        BY <3>1 DEF Idle
      <3> QED
        BY <2>2, <3>1, <3>2, <1>t, OneTask DEF RowType
    <2> QED
      BY <2>1, <2>3, <2>4
  <1>2. ASSUME NEW w \in Workers, TimerFires(w) PROVE OrderInv'
    <2>1. PICK a \in Albums :
             /\ timer[a] # NoPost
             /\ timer' = [timer EXCEPT ![a] = NoPost]
             /\ GotoWith(w, "route", timer[a])
      BY <1>2 DEF TimerFires
    <2>2. timer[a] \in Heads /\ timer[a] \in Posts /\ "route" \in Steps
      BY <2>1, <1>t DEF RoutesHeads, Heads, Steps
    <2>3. /\ JobType'
          /\ job'[w] = [job[w] EXCEPT !.pc = "route", !.head = timer[a]]
          /\ \A v \in Workers \ {w} : job'[v] = job[v]
      BY <2>1, <2>2, <1>t, Schedules
    <2>4. job'[w].pc = "route" /\ job'[w].head \in Heads
      BY <2>2, <2>3, <1>t DEF Jobs
    <2>5. timer' \in [Albums -> Posts \cup {NoPost}]
          /\ \A b \in Albums : timer'[b] \in {NoPost, timer[b]}
      BY <2>1, <1>t DEF RowType
    <2>6. UNCHANGED <<queued, day, counter, number, partOf>>
      BY <1>2 DEF TimerFires, rows
    <2> QED
      BY <2>3, <2>4, <2>5, <2>6, <1>t, OneTask DEF TakingIn, RowType
  <1>3. ASSUME NEW w \in Workers, Lookup(w) PROVE OrderInv'
    <2>1. job[w].post \in Posts /\ UNCHANGED <<queued, day, counter, number, timer>>
      BY <1>3, <1>t DEF Lookup, At, RoutesHeads, TakingIn
    <2>2. CASE \E h \in OrdersOf(job[w].post) :
                 partOf' = Attached(job[w].post, h) /\ GotoWith(w, "schedule", h)
      BY <2>1, <2>2, AttachStep
    <2>3. CASE Finish(w) /\ UNCHANGED partOf
      <3>1. JobType' /\ job'[w] = Idle /\ \A v \in Workers \ {w} : job'[v] = job[v]
        BY <2>3, <1>t, Finishes
      <3> QED
        BY <3>1, <2>1, <2>3, <1>t, OneTask DEF Idle, TakingIn, RowType
    <2>4. CASE Goto(w, "create") /\ UNCHANGED partOf
      <3>1. /\ JobType' /\ job'[w] = [job[w] EXCEPT !.pc = "create"]
            /\ \A v \in Workers \ {w} : job'[v] = job[v]
        BY <2>4, <1>t, Moves DEF Steps
      <3>2. job'[w].pc = "create" /\ job'[w].post = job[w].post
        BY <3>1, <1>t DEF Jobs
      <3> QED
        BY <3>1, <3>2, <2>1, <2>4, <1>t, OneTask DEF TakingIn, RowType
    <2> QED
      BY <1>3, <2>2, <2>3, <2>4 DEF Lookup
  <1>4. ASSUME NEW w \in Workers, Create(w) PROVE OrderInv'
    <2>1. CASE OrdersOf(job[w].post) = {}
      BY <1>4, <2>1, CreateStep
    <2>2. CASE OrdersOf(job[w].post) # {}
      <3>1. Goto(w, "attach") /\ UNCHANGED <<queued, day, counter, number, partOf, timer>>
        BY <1>4, <2>2 DEF Create
      <3>2. /\ JobType' /\ job'[w] = [job[w] EXCEPT !.pc = "attach"]
            /\ \A v \in Workers \ {w} : job'[v] = job[v]
        BY <3>1, <1>t, Moves DEF Steps
      <3>3. job'[w].pc = "attach" /\ job'[w].post \in Posts
        BY <1>4, <3>2, <1>t DEF Jobs, Create, At, RoutesHeads, TakingIn
      <3> QED
        BY <3>1, <3>2, <3>3, <1>t, OneTask DEF RowType
    <2> QED
      BY <2>1, <2>2
  <1>5. ASSUME NEW w \in Workers, AttachAfterRace(w) PROVE OrderInv'
    BY <1>5, <1>t, AttachStep DEF AttachAfterRace, At, RoutesHeads, TakingIn
  <1>6. ASSUME NEW w \in Workers, Schedule(w) PROVE OrderInv'
    <2> DEFINE album == AlbumOf[job[w].post]
    <2>1. /\ job[w].head \in Heads /\ job[w].head \in Posts /\ job[w].post \in Posts
          /\ UNCHANGED <<queued, day, counter, number, partOf>>
      BY <1>6, <1>t DEF Schedule, At, RoutesHeads, Heads, TakingIn, rows
    <2>2. CASE album = NoAlbum
      <3>1. Goto(w, "route") /\ UNCHANGED timer
        BY <1>6, <2>2 DEF Schedule
      <3>2. /\ JobType' /\ job'[w] = [job[w] EXCEPT !.pc = "route"]
            /\ \A v \in Workers \ {w} : job'[v] = job[v]
        BY <3>1, <1>t, Moves DEF Steps
      <3>3. job'[w].pc = "route" /\ job'[w].head = job[w].head
        BY <3>2, <1>t DEF Jobs
      <3> QED
        BY <2>1, <3>1, <3>2, <3>3, <1>t, OneTask DEF TakingIn, RowType
    <2>3. CASE album # NoAlbum
      <3>1. Finish(w) /\ timer' = [timer EXCEPT ![album] = job[w].head]
        BY <1>6, <2>3 DEF Schedule
      <3>2. JobType' /\ job'[w] = Idle /\ \A v \in Workers \ {w} : job'[v] = job[v]
        BY <3>1, <1>t, Finishes
      <3>3. /\ timer' \in [Albums -> Posts \cup {NoPost}]
            /\ \A a \in Albums : timer'[a] \in {NoPost, timer[a]} \cup Heads
        BY <2>1, <3>1, <1>t DEF RowType
      <3> QED
        BY <2>1, <3>2, <3>3, <1>t, OneTask DEF Idle, TakingIn, RowType
    <2> QED
      BY <2>2, <2>3
  <1>7. ASSUME NEW w \in Workers, Routing(w) \/ Restart(w) PROVE OrderInv'
    <2>1. /\ JobType' /\ job'[w].pc \notin TakingIn \cup {"route"}
          /\ \A v \in Workers \ {w} : job'[v] = job[v]
      BY <1>7, <1>t, RoutingMoves DEF TakingIn
    <2>2. UNCHANGED <<queued, day, counter, number, partOf, timer>>
      BY <1>7 DEF Routing, Route, List, Claim, QueueDone, Compose, Send, Complete, Fail, Mark,
           Restart, rows
    <2> QED
      BY <2>1, <2>2, <1>t, OneTask DEF TakingIn, RowType
  <1>8. CASE Crash
    <2>1. /\ job' = [w \in Workers |-> Idle] /\ timer' = [a \in Albums |-> NoPost]
          /\ queued' \subseteq Posts
          /\ UNCHANGED <<day, counter, number, partOf>>
      BY <1>8, <1>t DEF Crash, RowType
    <2>2. RowType'
      BY <2>1, <1>t, IdleType DEF RowType, JobType
    <2> QED
      BY <2>1, <2>2, SameOrders DEF Idle, TakingIn
  <1>9. CASE NextDay \/ StartPolling \/ UNCHANGED vars
    <2>1. UNCHANGED <<queued, counter, number, partOf, timer, job>> /\ day' \in 1 .. Days
      BY <1>9, <1>t, IntakeAssumption DEF NextDay, StartPolling, vars, rows, RowType
    <2>2. RowType'
      BY <2>1, <1>t DEF RowType, JobType
    <2> QED
      BY <2>1, <2>2, <1>t, SameOrders DEF RoutesHeads
  <1> QED
    BY <1>1, <1>2, <1>3, <1>4, <1>5, <1>6, <1>7, <1>8, <1>9 DEF Next, Handler

(* The parts of an album make one order whatever order they come in, are   *)
(* redelivered in or race in, for any number of posts and tasks (the       *)
(* unique indexes of `orders`, the savepoint of ingest, and its second     *)
(* look after a violation).                                                *)
THEOREM OneOrderPerAlbum == Spec => []AlbumIsOneOrder
  <1>1. OrderInv => AlbumIsOneOrder
    BY DEF OrderInv
  <1> QED
    BY OrderInit, OrderStep, <1>1, PTL DEF Spec

------------------------------------------------------------------------------
(* Deliveries *)

HeadsAreParts == \A h \in Heads : partOf[h] = h

(* Orders and their first parts stay. *)
LEMMA HeadsStay ==
  ASSUME OrderInv, HeadsAreParts, [Next]_vars
  PROVE  HeadsAreParts' /\ Heads \subseteq Heads'
  <1>t. RowType /\ RoutesHeads
    BY DEF OrderInv
  <1>1. ASSUME NEW w \in Workers, Create(w), OrdersOf(job[w].post) = {}
        PROVE  HeadsAreParts' /\ Heads \subseteq Heads'
    <2> DEFINE p == job[w].post
    <2>1. p \in Posts /\ partOf' = Attached(p, p)
      BY <1>1, <1>t DEF Create, At, RoutesHeads, TakingIn
    <2>2. Heads' = Heads \cup {p} /\ p \notin Heads
      BY <1>1, CreateStep
    <2>3. partOf[p] = NoPost
      BY <1>1, <2>1 DEF OrderInv, AlbumIsOneOrder, OrdersOf
    <2>4. partOf' = [partOf EXCEPT ![p] = p]
      BY <2>1, <2>3 DEF Attached
    <2> QED
      BY <2>1, <2>2, <2>4, <1>t DEF HeadsAreParts, RowType
  <1>2. ASSUME NEW w \in Workers, NEW h, partOf' = Attached(job[w].post, h), UNCHANGED number
        PROVE  HeadsAreParts' /\ Heads \subseteq Heads'
    <2>1. Heads' = Heads
      BY <1>2 DEF Heads
    <2>2. \A p \in Posts : partOf[p] # NoPost => partOf'[p] = partOf[p]
      BY <1>2, <1>t DEF Attached, RowType
    <2> QED
      BY <2>1, <2>2, IntakeAssumption DEF HeadsAreParts, Heads, NoPost
  <1>3. CASE UNCHANGED <<number, partOf>>
    BY <1>3 DEF HeadsAreParts, Heads
  <1>4. ASSUME NEW w \in Workers, Lookup(w) \/ Create(w) \/ AttachAfterRace(w)
        PROVE  HeadsAreParts' /\ Heads \subseteq Heads'
    BY <1>1, <1>2, <1>3, <1>4 DEF Lookup, Create, AttachAfterRace
  <1>5. ASSUME NEW w \in Workers,
               Receive(w) \/ TimerFires(w) \/ Schedule(w) \/ Routing(w) \/ Restart(w)
        PROVE  UNCHANGED <<number, partOf>>
    BY <1>5 DEF Receive, TimerFires, Schedule, Routing, Route, List, Claim, QueueDone, Compose,
         Send, Complete, Fail, Mark, Restart, rows
  <1>6. CASE NextDay \/ Crash \/ StartPolling \/ UNCHANGED vars
    BY <1>3, <1>6 DEF NextDay, Crash, StartPolling, rows, vars
  <1> QED
    BY <1>3, <1>4, <1>5, <1>6 DEF Next, Handler

(* A task between claim and outcome owns its row; nothing was sent for a   *)
(* row that may still be claimed.                                          *)
OutboxType ==
    /\ delivery \in [Deliveries -> DeliveryStatus]
    /\ received \in [Deliveries -> SUBSET Posts]
    /\ copies \in [Deliveries -> 0 .. CopyCap]

Owning == {"compose", "send", "complete", "fail"}

Claims ==
    /\ \A w \in Workers :
          job[w].pc \in Owning => job[w].cur \in Deliveries /\ delivery[job[w].cur] = "SENDING"
    /\ \A v, w \in Workers :
          job[v].pc \in Owning /\ job[w].pc \in Owning /\ job[v].cur = job[w].cur => v = w

Unsent ==
    /\ \A w \in Workers : job[w].pc \in {"compose", "send", "fail"} => copies[job[w].cur] = 0
    /\ \A d \in Deliveries : copies[d] # 0 => delivery[d] \in {"SENDING", "DELIVERED"}

HeadsArrive ==
    /\ \A d \in Deliveries : delivery[d] # "ABSENT" => d[1] \in Heads
    /\ \A w \in Workers :
          /\ job[w].pc = "send" => job[w].cur[1] \in job[w].parts
          /\ job[w].pc = "complete" => job[w].cur[1] \in received[job[w].cur]

OutboxInv ==
    /\ OrderInv /\ HeadsAreParts /\ OutboxType /\ Claims /\ Unsent
    /\ HeadsArrive /\ DeliveredOnce /\ DeliveredMeansReceived

LEMMA OutboxInit == Init => OutboxInv
  <1> SUFFICES ASSUME Init PROVE OutboxInv
    OBVIOUS
  <1>1. Heads = {}
    BY DEF Init, Heads
  <1>2. OutboxType
    BY IntakeAssumption DEF Init, OutboxType, DeliveryStatus
  <1>3. Claims /\ Unsent /\ HeadsArrive
    BY <1>1 DEF Init, Claims, Unsent, HeadsArrive, Idle, Owning
  <1>4. DeliveredOnce /\ DeliveredMeansReceived
    BY DEF Init, DeliveredOnce, DeliveredMeansReceived
  <1> QED
    BY <1>1, <1>2, <1>3, <1>4, OrderInit DEF OutboxInv, HeadsAreParts

(* A step that leaves the outbox alone, and no new task owning a row. *)
LEMMA SameOutbox ==
  ASSUME OutboxInv, OrderInv', HeadsAreParts', Heads \subseteq Heads', UNCHANGED outbox,
         \A w \in Workers : job'[w].pc \in Owning => job'[w] = job[w]
  PROVE  OutboxInv'
  <1>1. OutboxType' /\ DeliveredOnce' /\ DeliveredMeansReceived'
    BY DEF OutboxInv, OutboxType, outbox, groups, DeliveredOnce, DeliveredMeansReceived
  <1>2. Claims'
    BY DEF OutboxInv, Claims, outbox
  <1>3. Unsent'
    BY DEF OutboxInv, Unsent, outbox, groups, Owning
  <1>4. HeadsArrive'
    BY DEF OutboxInv, HeadsArrive, outbox, groups, Owning
  <1> QED
    BY <1>1, <1>2, <1>3, <1>4 DEF OutboxInv

(* The tasks of the other steps own no row. *)
LEMMA NoNewOwner ==
  ASSUME OrderInv, NEW w \in Workers,
         \/ Receive(w) \/ TimerFires(w) \/ Handler(w)
         \/ Route(w) \/ List(w) \/ QueueDone(w) \/ Restart(w)
  PROVE  \A v \in Workers : job'[v].pc \in Owning => job'[v] = job[v]
  <1>t. JobType /\ job[w] \in Jobs
    BY DEF OrderInv, RowType, JobType
  <1>1. ASSUME \A v \in Workers \ {w} : job'[v] = job[v], job'[w].pc \notin Owning
        PROVE  \A v \in Workers : job'[v].pc \in Owning => job'[v] = job[v]
    BY <1>1
  <1>2. ASSUME Finish(w) \/ \E step \in {"create", "attach", "route", "list"} : Goto(w, step)
        PROVE  \A v \in Workers : job'[v].pc \in Owning => job'[v] = job[v]
    BY <1>1, <1>2, <1>t, Finishes DEF Goto, JobType, Jobs, Idle, Owning
  <1>3. ASSUME NEW step \in {"schedule", "route"}, NEW h, GotoWith(w, step, h)
        PROVE  \A v \in Workers : job'[v].pc \in Owning => job'[v] = job[v]
    BY <1>1, <1>3, <1>t DEF GotoWith, JobType, Jobs, Owning
  <1>4. CASE Receive(w)
    BY <1>1, <1>4, <1>t DEF Receive, JobType, Idle, Owning
  <1>5. CASE TimerFires(w)
    BY <1>3, <1>5 DEF TimerFires
  <1>6. CASE Lookup(w)
    BY <1>2, <1>3, <1>6 DEF Lookup
  <1>7. CASE Create(w)
    BY <1>2, <1>3, <1>7 DEF Create
  <1>8. CASE AttachAfterRace(w)
    BY <1>3, <1>8 DEF AttachAfterRace
  <1>9. CASE Schedule(w)
    BY <1>2, <1>9 DEF Schedule
  <1>10. CASE Route(w) \/ QueueDone(w)
    BY <1>2, <1>10 DEF Route, QueueDone
  <1>11. CASE List(w) \/ Restart(w)
    BY <1>1, <1>11, <1>t DEF List, Restart, JobType, Jobs, Owning
  <1> QED
    BY <1>4, <1>5, <1>6, <1>7, <1>8, <1>9, <1>10, <1>11 DEF Handler

LEMMA OutboxStep == OutboxInv /\ [Next]_vars => OutboxInv'
  <1> SUFFICES ASSUME OutboxInv, [Next]_vars PROVE OutboxInv'
    OBVIOUS
  <1>t. /\ OrderInv /\ OutboxType /\ JobType /\ RoutesHeads
        /\ \A w \in Workers : job[w] \in Jobs
    BY DEF OutboxInv, OrderInv, RowType, JobType
  <1>h. OrderInv' /\ HeadsAreParts' /\ Heads \subseteq Heads'
    BY OrderStep, HeadsStay DEF OutboxInv
  <1>1. ASSUME NEW w \in Workers,
               \/ Receive(w) \/ TimerFires(w) \/ Handler(w)
               \/ List(w) \/ QueueDone(w) \/ Restart(w)
        PROVE  OutboxInv'
    <2>1. UNCHANGED outbox
      BY <1>1 DEF Receive, TimerFires, Handler, Lookup, Create, AttachAfterRace, Schedule, List,
           QueueDone, Restart
    <2> QED
      BY <1>1, <1>t, <1>h, <2>1, NoNewOwner, SameOutbox
  <1>2. ASSUME NEW w \in Workers, Route(w) PROVE OutboxInv'
    <2>1. \A v \in Workers : job'[v].pc \in Owning => job'[v] = job[v]
      BY <1>2, <1>t, NoNewOwner
    <2>2. job[w].head \in Heads /\ UNCHANGED <<received, copies>>
      BY <1>2, <1>t DEF Route, At, RoutesHeads, groups
    <2>3. \A d \in Deliveries :
             \/ delivery'[d] = delivery[d]
             \/ delivery[d] = "ABSENT" /\ delivery'[d] = "PENDING" /\ d[1] \in Heads
      BY <1>2, <2>2 DEF Route, Ensured
    <2>4. OutboxType'
      BY <1>2, <2>2, <1>t DEF Route, Ensured, OutboxType, DeliveryStatus
    <2>5. Claims'
      BY <2>1, <2>3 DEF OutboxInv, Claims
    <2>6. Unsent' /\ DeliveredOnce' /\ DeliveredMeansReceived'
      BY <2>1, <2>2, <2>3 DEF OutboxInv, Unsent, DeliveredOnce, DeliveredMeansReceived, Owning
    <2>7. HeadsArrive'
      BY <2>1, <2>2, <2>3, <1>h DEF OutboxInv, HeadsArrive, Owning
    <2> QED
      BY <1>h, <2>4, <2>5, <2>6, <2>7 DEF OutboxInv
  <1>3. ASSUME NEW w \in Workers, Claim(w) PROVE OutboxInv'
    <2>1. PICK d \in job[w].queue :
             IF d \in Undelivered
             THEN /\ delivery' = [delivery EXCEPT ![d] = "SENDING"]
                  /\ job' = [job EXCEPT ![w].pc = "compose",
                               ![w].queue = job[w].queue \ {d}, ![w].cur = d]
             ELSE /\ job' = [job EXCEPT ![w].queue = job[w].queue \ {d}]
                  /\ UNCHANGED delivery
      BY <1>3 DEF Claim
    <2>2. job[w].pc = "claim" /\ UNCHANGED <<received, copies>>
      BY <1>3 DEF Claim, At, groups
    <2>3. CASE d \notin Undelivered
      <3>1. \A v \in Workers : job'[v].pc \in Owning => job'[v] = job[v]
        BY <2>1, <2>2, <2>3, <1>t DEF JobType, Jobs, Owning
      <3> QED
        BY <2>1, <2>2, <2>3, <3>1, <1>h, SameOutbox DEF outbox, groups
    <2>4. CASE d \in Undelivered
      <3>1. d \in Deliveries /\ delivery[d] \in {"PENDING", "FAILED"}
        BY <2>4 DEF Undelivered
      <3>2. delivery' = [delivery EXCEPT ![d] = "SENDING"]
        BY <2>1, <2>4
      <3>3. /\ job'[w].pc = "compose" /\ job'[w].cur = d
            /\ \A v \in Workers \ {w} : job'[v] = job[v]
        BY <2>1, <2>4, <1>t DEF JobType, Jobs
      <3>4. OutboxType'
        BY <2>2, <3>2, <1>t DEF OutboxType, DeliveryStatus
      <3>5. Claims'
        BY <3>1, <3>2, <3>3, <1>t DEF OutboxInv, Claims, OutboxType
      <3>6. copies[d] = 0 /\ d[1] \in Heads
        BY <3>1 DEF OutboxInv, Unsent, HeadsArrive
      <3>7. Unsent'
        BY <2>2, <3>1, <3>2, <3>3, <3>6, <1>t DEF OutboxInv, Unsent, OutboxType
      <3>8. HeadsArrive'
        BY <2>2, <3>2, <3>3, <3>6, <1>h, <1>t DEF OutboxInv, HeadsArrive, OutboxType
      <3>9. DeliveredOnce' /\ DeliveredMeansReceived'
        BY <2>2, <3>2, <1>t DEF OutboxInv, DeliveredOnce, DeliveredMeansReceived, OutboxType
      <3> QED
        BY <1>h, <3>4, <3>5, <3>7, <3>8, <3>9 DEF OutboxInv
    <2> QED
      BY <2>3, <2>4
  <1>4. ASSUME NEW w \in Workers, Compose(w) PROVE OutboxInv'
    <2>1. /\ job'[w].pc = "send" /\ job'[w].cur = job[w].cur
          /\ job'[w].parts = PartsOf(job[w].cur[1])
          /\ \A v \in Workers \ {w} : job'[v] = job[v]
      BY <1>4, <1>t DEF Compose, JobType, Jobs
    <2>2. job[w].pc = "compose" /\ UNCHANGED <<delivery, received, copies>>
      BY <1>4 DEF Compose, At, outbox, groups
    <2>3. job[w].cur \in Deliveries /\ job[w].cur[1] \in Heads
      BY <2>2 DEF OutboxInv, Claims, HeadsArrive, Owning
    <2>4. job[w].cur[1] \in PartsOf(job[w].cur[1])
      BY <2>3 DEF OutboxInv, HeadsAreParts, PartsOf, Heads
    <2>5. OutboxType' /\ DeliveredOnce' /\ DeliveredMeansReceived'
      BY <2>2 DEF OutboxInv, OutboxType, DeliveredOnce, DeliveredMeansReceived
    <2>6. Claims' /\ Unsent'
      BY <2>1, <2>2 DEF OutboxInv, Claims, Unsent, Owning
    <2>7. HeadsArrive'
      BY <2>1, <2>2, <2>4, <1>h DEF OutboxInv, HeadsArrive
    <2> QED
      BY <1>h, <2>5, <2>6, <2>7 DEF OutboxInv
  <1>5. ASSUME NEW w \in Workers, Send(w) PROVE OutboxInv'
    <2> DEFINE d == job[w].cur
    <2>1. job[w].pc = "send" /\ UNCHANGED delivery
      BY <1>5 DEF Send, At
    <2>2. /\ d \in Deliveries /\ delivery[d] = "SENDING" /\ copies[d] = 0
          /\ d[1] \in job[w].parts /\ job[w].parts \in SUBSET Posts
      BY <2>1, <1>t DEF OutboxInv, Claims, Unsent, HeadsArrive, Owning, Jobs
    <2>3. /\ received' \in {received, [received EXCEPT ![d] = @ \cup job[w].parts]}
          /\ copies' \in {copies, [copies EXCEPT ![d] = 1]}
          /\ \/ /\ Goto(w, "complete")
                /\ received' = [received EXCEPT ![d] = @ \cup job[w].parts]
             \/ Goto(w, "fail") /\ copies' = copies
      BY <1>5, <2>2, <1>t, IntakeAssumption DEF Send, groups, OutboxType
    <2>4. /\ job'[w].pc \in {"complete", "fail"} /\ job'[w].cur = d
          /\ \A v \in Workers \ {w} : job'[v] = job[v]
          /\ job'[w].pc = "complete" => d[1] \in received'[d]
          /\ job'[w].pc = "fail" => copies' = copies
      <3>1. CASE Goto(w, "complete") /\ received' = [received EXCEPT ![d] = @ \cup job[w].parts]
        BY <2>2, <3>1, <1>t DEF Goto, JobType, Jobs, OutboxType
      <3>2. CASE Goto(w, "fail") /\ copies' = copies
        BY <3>2, <1>t DEF Goto, JobType, Jobs
      <3> QED
        BY <2>3, <3>1, <3>2
    <2>5. /\ OutboxType' /\ DeliveredOnce'
          /\ \A e \in Deliveries : received[e] \subseteq received'[e]
      BY <2>1, <2>2, <2>3, <1>t, IntakeAssumption DEF OutboxInv, OutboxType, DeliveredOnce
    <2>6. Claims'
      BY <2>1, <2>2, <2>4 DEF OutboxInv, Claims, Owning
    <2>7. Unsent'
      <3>1. \A v \in Workers \ {w} : job[v].pc \in Owning => job[v].cur \in Deliveries \ {d}
        BY <2>1 DEF OutboxInv, Claims, Owning
      <3>2. \A e \in Deliveries \ {d} : copies'[e] = copies[e]
        BY <2>3, <1>t DEF OutboxType
      <3> QED
        BY <2>1, <2>2, <2>4, <3>1, <3>2 DEF OutboxInv, Unsent, Owning
    <2>8. HeadsArrive' /\ DeliveredMeansReceived'
      BY <2>1, <2>4, <2>5, <1>h DEF OutboxInv, HeadsArrive, DeliveredMeansReceived, Claims, Owning
    <2> QED
      BY <1>h, <2>5, <2>6, <2>7, <2>8 DEF OutboxInv
  <1>6. ASSUME NEW w \in Workers, Complete(w) \/ Fail(w) PROVE OutboxInv'
    <2> DEFINE d == job[w].cur
    <2>1. PICK status \in {"DELIVERED", "FAILED"} :
             /\ delivery' = [delivery EXCEPT ![d] = status]
             /\ job[w].pc = (IF status = "DELIVERED" THEN "complete" ELSE "fail")
             /\ Mark(w, job[w].pc, status)
      BY <1>6 DEF Complete, Fail, Mark, At
    <2>2. /\ d \in Deliveries /\ d[1] \in Heads
          /\ status = "DELIVERED" => d[1] \in received[d]
          /\ status = "FAILED" => copies[d] = 0
      BY <2>1 DEF OutboxInv, Claims, HeadsArrive, Unsent, Owning
    <2>3. job'[w].pc = "claim" /\ \A v \in Workers \ {w} : job'[v] = job[v]
      BY <2>1, <1>t DEF Mark, JobType, Jobs
    <2>4. UNCHANGED <<received, copies>>
      BY <2>1 DEF Mark, groups
    <2>5. \A v \in Workers : job'[v].pc \in Owning =>
             job'[v] = job[v] /\ job[v].cur \in Deliveries \ {d}
      BY <2>1, <2>3 DEF OutboxInv, Claims, Owning
    <2>6. OutboxType' /\ DeliveredOnce' /\ DeliveredMeansReceived'
      BY <2>1, <2>2, <2>4, <1>t
      DEF OutboxInv, OutboxType, DeliveryStatus, DeliveredOnce, DeliveredMeansReceived
    <2>7. Claims'
      BY <2>1, <2>5, <1>t DEF OutboxInv, Claims, OutboxType
    <2>8. Unsent'
      BY <2>1, <2>2, <2>4, <2>5, <1>t DEF OutboxInv, Unsent, OutboxType, Owning
    <2>9. HeadsArrive'
      BY <2>1, <2>2, <2>4, <2>5, <1>h, <1>t DEF OutboxInv, HeadsArrive, OutboxType, Owning
    <2> QED
      BY <1>h, <2>6, <2>7, <2>8, <2>9 DEF OutboxInv
  <1>7. CASE Crash
    BY <1>7, <1>h, SameOutbox DEF Crash, Idle, Owning
  <1>8. CASE NextDay \/ StartPolling \/ UNCHANGED vars
    BY <1>8, <1>h, SameOutbox DEF NextDay, StartPolling, vars, outbox, groups
  <1> QED
    BY <1>1, <1>2, <1>3, <1>4, <1>5, <1>6, <1>7, <1>8 DEF Next, Routing

(* A work group does not get an order twice after a send Telegram          *)
(* confirmed, however timers, album parts, redelivered posts and restarts  *)
(* meet (claim_delivery; a claimed row is never released).                 *)
THEOREM OrdersAreDeliveredOnce == Spec => []DeliveredOnce
  <1>1. OutboxInv => DeliveredOnce
    BY DEF OutboxInv
  <1> QED
    BY OutboxInit, OutboxStep, <1>1, PTL DEF Spec

(* A delivery is recorded as made only when the group has the order's head *)
(* message (compose, complete_delivery).                                   *)
THEOREM DeliveredIsReceived == Spec => []DeliveredMeansReceived
  <1>1. OutboxInv => DeliveredMeansReceived
    BY DEF OutboxInv
  <1> QED
    BY OutboxInit, OutboxStep, <1>1, PTL DEF Spec

------------------------------------------------------------------------------
(* No order is dropped: as long as the process did not die, what is being  *)
(* sent has its task, and what is still to send a task or a timer.         *)

Safe(d) ==
    \/ d[1] \in received[d] \/ delivery[d] = "FAILED"
    \/ \E w \in Workers : Carries(w, d)
    \/ \E a \in Albums : timer[a] = d[1]
Shaped(w) ==
    /\ job[w].pc \notin {"claim"} \cup Owning => job[w].queue = {}
    /\ job[w].pc \notin Owning => job[w].cur = NoDelivery
    /\ job[w].pc = "schedule" => job[w].head = job[w].post \/ SameAlbum(job[w].head, job[w].post)
    /\ job[w].pc = "list" => \A d \in Deliveries : d[1] = job[w].head => delivery[d] # "ABSENT"
    /\ \A d \in job[w].queue : delivery[d] # "ABSENT"
Owned(d) == \E w \in Workers : job[w].pc \in Owning /\ job[w].cur = d
TimersMatch == \A a \in Albums : timer[a] # NoPost => AlbumOf[timer[a]] = a
Carry ==
    /\ phase = "up" /\ TimersMatch
    /\ \A w \in Workers : Shaped(w)
    /\ \A d \in Deliveries : delivery[d] = "SENDING" => Owned(d)
    /\ \A d \in Deliveries : d[1] \in Heads => Safe(d)
CarryInv == OutboxInv /\ crashes \in Nat /\ (crashes = 0 => Carry)

LEMMA CarryInit == Init => CarryInv
  <1> SUFFICES ASSUME Init PROVE CarryInv
    OBVIOUS
  <1>1. Heads = {}
    BY DEF Init, Heads
  <1>2. \A w \in Workers : Shaped(w)
    BY DEF Init, Shaped, Idle, Owning
  <1> QED
    BY <1>1, <1>2, OutboxInit DEF Init, CarryInv, Carry, TimersMatch

(* A step of one task: what it carried, what had failed and what a timer   *)
(* held is either left alone or safe afterwards.                           *)
LEMMA Handover ==
  ASSUME OutboxInv, Carry, NEW w \in Workers,
         \A v \in Workers \ {w} : job'[v] = job[v],
         Shaped(w)', TimersMatch', phase' = phase,
         \A d \in Deliveries : delivery[d] # "ABSENT" => delivery'[d] # "ABSENT",
         \A d \in Deliveries : d[1] \in received[d] => d[1] \in received'[d],
         \A d \in Deliveries : delivery'[d] = "SENDING" =>
            \/ job'[w].pc \in Owning /\ job'[w].cur = d
            \/ delivery[d] = "SENDING" /\ ~(job[w].pc \in Owning /\ job[w].cur = d),
         \A d \in Deliveries : d[1] \in Heads' =>
            \/ Safe(d)'
            \/ /\ d[1] \in Heads /\ ~Carries(w, d)
               /\ delivery[d] = "FAILED" => delivery'[d] = "FAILED"
               /\ \A a \in Albums : timer[a] = d[1] => timer'[a] = d[1]
  PROVE  Carry'
  <1>t. \A v \in Workers : job[v] \in Jobs
    BY DEF OutboxInv, OrderInv, RowType, JobType
  <1>1. ASSUME NEW v \in Workers PROVE Shaped(v)'
    <2>1. CASE v = w
      BY <2>1
    <2>2. CASE v # w
      <3>1. job'[v] = job[v] /\ Shaped(v) /\ job[v].queue \in SUBSET Deliveries
        BY <2>2, <1>t DEF Carry, Jobs
      <3> QED
        BY <3>1 DEF Shaped
    <2> QED
      BY <2>1, <2>2
  <1>2. ASSUME NEW d \in Deliveries, delivery'[d] = "SENDING" PROVE Owned(d)'
    <2>1. CASE job'[w].pc \in Owning /\ job'[w].cur = d
      BY <2>1 DEF Owned
    <2>2. CASE delivery[d] = "SENDING" /\ ~(job[w].pc \in Owning /\ job[w].cur = d)
      <3>1. PICK v \in Workers : job[v].pc \in Owning /\ job[v].cur = d
        BY <2>2 DEF Carry, Owned
      <3>2. job'[v] = job[v]
        BY <2>2, <3>1
      <3> QED
        BY <3>1, <3>2 DEF Owned
    <2> QED
      BY <1>2, <2>1, <2>2
  <1>3. ASSUME NEW d \in Deliveries, d[1] \in Heads' PROVE Safe(d)'
    <2>1. CASE /\ d[1] \in Heads /\ ~Carries(w, d)
               /\ delivery[d] = "FAILED" => delivery'[d] = "FAILED"
               /\ \A a \in Albums : timer[a] = d[1] => timer'[a] = d[1]
      <3>1. Safe(d)
        BY <2>1 DEF Carry
      <3>2. ASSUME NEW v \in Workers, Carries(v, d) PROVE Carries(v, d)'
        <4>1. v # w
          BY <2>1, <3>2
        <4> QED
          BY <3>2, <4>1 DEF Carries
      <3> QED
        BY <2>1, <3>1, <3>2 DEF Safe
    <2> QED
      BY <1>3, <2>1
  <1> QED
    BY <1>1, <1>2, <1>3 DEF Carry

(* A task that takes in a post carries nothing. *)
LEMMA CarriesNothing ==
  ASSUME OutboxInv, Carry, NEW w \in Workers,
         job[w].pc \in {"idle", "lookup", "create", "attach"}, NEW d \in Deliveries
  PROVE  ~Carries(w, d) /\ job[w].pc \notin Owning
  <1>1. job[w].queue = {} /\ job[w].cur = NoDelivery /\ job[w].pc \notin Owning
    BY DEF Carry, Shaped, Owning
  <1>2. d # NoDelivery
    BY IntakeAssumption DEF Deliveries, NoDelivery, NoPost
  <1> QED
    BY <1>1, <1>2 DEF Carries

LEMMA IntakeCarries ==
  ASSUME CarryInv, crashes = 0, NEW w \in Workers,
         Receive(w) \/ TimerFires(w) \/ Lookup(w) \/ Create(w) \/ AttachAfterRace(w)
  PROVE  Carry'
  <1>t. /\ OutboxInv /\ OrderInv /\ RowType /\ JobType /\ RoutesHeads /\ Carry
        /\ job[w] \in Jobs /\ Shaped(w) /\ TimersMatch
    BY DEF CarryInv, OutboxInv, OrderInv, RowType, JobType, Carry
  <1>1. /\ job[w].pc \in {"idle", "lookup", "create", "attach"}
        /\ UNCHANGED <<delivery, received, phase>>
    BY DEF Receive, TimerFires, Lookup, Create, AttachAfterRace, At, outbox, groups, process
  <1>n. \A d \in Deliveries : ~Carries(w, d) /\ job[w].pc \notin Owning
    BY <1>1, <1>t, CarriesNothing
  <1>q. job[w].queue = {} /\ job[w].cur = NoDelivery
    BY <1>1, <1>t DEF Shaped, Owning
  (* Whatever it does to the orders, the task takes on a head, if any. *)
  <1>2. ASSUME \A v \in Workers \ {w} : job'[v] = job[v], job'[w] \in Jobs,
               job'[w].queue = {}, job'[w].cur = NoDelivery,
               job'[w].pc \notin {"claim", "list"} \cup Owning,
               job'[w].pc = "schedule" =>
                  job'[w].head = job'[w].post \/ SameAlbum(job'[w].head, job'[w].post),
               TimersMatch',
               \A d \in Deliveries : d[1] \in Heads' /\ d[1] \notin Heads => Safe(d)',
               \A d \in Deliveries, a \in Albums :
                  d[1] \in Heads /\ timer[a] = d[1] => timer'[a] = d[1] \/ Safe(d)'
        PROVE  Carry'
    <2>1. Shaped(w)'
      BY <1>2 DEF Shaped
    <2> QED
      BY <1>1, <1>2, <1>n, <1>t, <2>1, Handover
  <1>3. CASE Receive(w)
    <2>1. PICK p \in queued :
             job' = IF p \in ledger THEN job
                    ELSE [job EXCEPT ![w] = [Idle EXCEPT !.pc = "lookup", !.post = p]]
      BY <1>3 DEF Receive
    <2>2. UNCHANGED <<number, timer>> /\ p \in Posts
      BY <1>3, <1>t DEF Receive, RowType
    <2>3. Heads' = Heads /\ TimersMatch'
      BY <2>2, <1>t DEF Heads, TimersMatch
    <2>4. /\ job'[w] \in Jobs /\ \A v \in Workers \ {w} : job'[v] = job[v]
          /\ job'[w].queue = {} /\ job'[w].cur = NoDelivery
          /\ job'[w].pc \in {"idle", "lookup"}
      BY <1>3, <1>q, <1>t, <2>1, <2>2, IdleType DEF Receive, At, JobType, Jobs, Idle, Steps
    <2> QED
      BY <1>2, <2>2, <2>3, <2>4 DEF Owning
  <1>4. CASE TimerFires(w)
    <2>1. PICK b \in Albums :
             /\ timer[b] # NoPost
             /\ timer' = [timer EXCEPT ![b] = NoPost]
             /\ GotoWith(w, "route", timer[b])
      BY <1>4 DEF TimerFires
    <2>2. timer[b] \in Heads /\ timer[b] \in Posts /\ Heads' = Heads /\ "route" \in Steps
      BY <1>4, <2>1, <1>t DEF RoutesHeads, Heads, TimerFires, rows, Steps
    <2>3. /\ JobType'
          /\ job'[w] = [job[w] EXCEPT !.pc = "route", !.head = timer[b]]
          /\ \A v \in Workers \ {w} : job'[v] = job[v]
      BY <2>1, <2>2, <1>t, Schedules
    <2>4. /\ job'[w].pc = "route" /\ job'[w].head = timer[b]
          /\ job'[w].queue = {} /\ job'[w].cur = NoDelivery /\ job'[w] \in Jobs
      BY <1>q, <2>3, <1>t DEF Jobs, JobType
    <2>5. TimersMatch' /\ \A a \in Albums \ {b} : timer'[a] = timer[a]
      BY <2>1, <1>t DEF RowType, TimersMatch
    <2>6. \A d \in Deliveries : d[1] = timer[b] => Safe(d)'
      BY <2>4 DEF Safe, Carries
    <2> QED
      BY <1>2, <2>2, <2>3, <2>4, <2>5, <2>6 DEF Owning
  <1>5. ASSUME NEW h, h \in OrdersOf(job[w].post), GotoWith(w, "schedule", h),
               UNCHANGED <<number, timer>>
        PROVE  Carry'
    <2>1. h \in Posts /\ (h = job[w].post \/ SameAlbum(h, job[w].post)) /\ "schedule" \in Steps
      BY <1>5 DEF OrdersOf, Heads, Steps
    <2>2. /\ JobType' /\ job'[w] = [job[w] EXCEPT !.pc = "schedule", !.head = h]
          /\ \A v \in Workers \ {w} : job'[v] = job[v]
      BY <1>5, <2>1, <1>t, Schedules
    <2>3. /\ job'[w].pc = "schedule" /\ job'[w].head = h /\ job'[w].post = job[w].post
          /\ job'[w].queue = {} /\ job'[w].cur = NoDelivery /\ job'[w] \in Jobs
      BY <1>q, <2>2, <1>t DEF Jobs, JobType
    <2>4. Heads' = Heads /\ TimersMatch'
      BY <1>5, <1>t DEF Heads, TimersMatch
    <2> QED
      BY <1>2, <1>5, <2>1, <2>2, <2>3, <2>4 DEF Owning
  <1>6. ASSUME Finish(w) \/ (\E step \in {"create", "attach"} : Goto(w, step)),
               UNCHANGED <<number, timer>>
        PROVE  Carry'
    <2>1. /\ JobType' /\ \A v \in Workers \ {w} : job'[v] = job[v]
          /\ job'[w].pc \in {"idle", "create", "attach"}
          /\ job'[w].queue = {} /\ job'[w].cur = NoDelivery
      <3>1. CASE Finish(w)
        BY <3>1, <1>t, Finishes DEF Idle
      <3>2. CASE \E step \in {"create", "attach"} : Goto(w, step)
        <4>1. PICK step \in {"create", "attach"} : Goto(w, step)
          BY <3>2
        <4>2. /\ JobType' /\ job'[w] = [job[w] EXCEPT !.pc = step]
              /\ \A v \in Workers \ {w} : job'[v] = job[v]
          BY <4>1, <1>t, Moves DEF Steps
        <4> QED
          BY <4>2, <1>q, <1>t DEF Jobs
      <3> QED
        BY <1>6, <3>1, <3>2
    <2>2. Heads' = Heads /\ TimersMatch' /\ job'[w] \in Jobs
      BY <1>6, <1>t, <2>1 DEF Heads, TimersMatch, JobType
    <2> QED
      BY <1>2, <1>6, <2>1, <2>2 DEF Owning
  <1>7. CASE Lookup(w)
    BY <1>5, <1>6, <1>7 DEF Lookup
  <1>8. CASE AttachAfterRace(w)
    BY <1>5, <1>8 DEF AttachAfterRace
  <1>9. CASE Create(w)
    <2>1. CASE OrdersOf(job[w].post) # {}
      BY <1>6, <1>9, <2>1 DEF Create
    <2>2. CASE OrdersOf(job[w].post) = {}
      <3> DEFINE p == job[w].post
      <3>0. p \in Posts /\ "schedule" \in Steps /\ JobType
        BY <1>9, <1>t DEF Create, At, RoutesHeads, TakingIn, Steps
      <3>1. Heads' = Heads \cup {p}
        BY <1>9, <2>2, <1>t, CreateStep
      <3>2. GotoWith(w, "schedule", p) /\ UNCHANGED timer
        BY <1>9, <2>2 DEF Create
      <3>3. /\ JobType' /\ job'[w] = [job[w] EXCEPT !.pc = "schedule", !.head = p]
            /\ \A v \in Workers \ {w} : job'[v] = job[v]
        <4> HIDE DEF p
        <4> QED
          BY <3>0, <3>2, Schedules
      <3>4. /\ job'[w].pc = "schedule" /\ job'[w].head = p /\ job'[w].post = p
            /\ job'[w].queue = {} /\ job'[w].cur = NoDelivery /\ job'[w] \in Jobs
        BY <1>q, <3>3, <1>t DEF Jobs, JobType
      <3>5. TimersMatch'
        BY <3>2, <1>t DEF TimersMatch
      <3>6. \A d \in Deliveries : d[1] = p => Safe(d)'
        BY <3>4 DEF Safe, Carries
      <3> QED
        BY <1>2, <3>1, <3>2, <3>3, <3>4, <3>5, <3>6 DEF Owning
    <2> QED
      BY <2>1, <2>2
  <1> QED
    BY <1>3, <1>4, <1>7, <1>8, <1>9

(* The timer of an album that is replaced was one for the same order. *)
LEMMA ScheduleCarries ==
  ASSUME CarryInv, crashes = 0, NEW w \in Workers, Schedule(w)
  PROVE  Carry'
  <1> DEFINE h == job[w].head
             album == AlbumOf[job[w].post]
  <1>t. /\ OutboxInv /\ OrderInv /\ RowType /\ JobType /\ RoutesHeads /\ Carry
        /\ job[w] \in Jobs /\ Shaped(w) /\ TimersMatch
    BY DEF CarryInv, OutboxInv, OrderInv, RowType, JobType, Carry
  <1>1. /\ job[w].pc = "schedule" /\ UNCHANGED <<delivery, received, phase, number>>
        /\ job[w].post \in Posts /\ h \in Heads /\ h \in Posts
    BY <1>t DEF Schedule, At, outbox, groups, process, rows, RoutesHeads, TakingIn, Heads
  <1>2. job[w].queue = {} /\ job[w].cur = NoDelivery /\ Heads' = Heads
    BY <1>1, <1>t DEF Shaped, Owning, Heads
  <1>3. \A d \in Deliveries : Carries(w, d) => d[1] = h
    BY <1>1, <1>2, IntakeAssumption DEF Carries, Deliveries, NoDelivery, NoPost
  <1>4. CASE album = NoAlbum
    <2>1. Goto(w, "route") /\ UNCHANGED timer
      BY <1>4 DEF Schedule
    <2>2. /\ JobType' /\ job'[w] = [job[w] EXCEPT !.pc = "route"]
          /\ \A v \in Workers \ {w} : job'[v] = job[v]
      BY <2>1, <1>t, Moves DEF Steps
    <2>3. job'[w].pc = "route" /\ job'[w].head = h /\ job'[w].queue = {} /\ job'[w].cur = NoDelivery
      BY <1>2, <2>2, <1>t DEF Jobs
    <2>4. Shaped(w)' /\ TimersMatch'
      BY <2>1, <2>3, <1>t DEF Shaped, Owning, TimersMatch
    <2>5. \A d \in Deliveries : d[1] = h => Safe(d)'
      BY <2>3 DEF Safe, Carries
    <2> QED
      BY <1>1, <1>2, <1>3, <1>t, <2>1, <2>2, <2>4, <2>5, Handover DEF Owning
  <1>5. CASE album # NoAlbum
    <2>1. Finish(w) /\ timer' = [timer EXCEPT ![album] = h] /\ album \in Albums
      BY <1>1, <1>5 DEF Schedule, Albums
    <2>2. JobType' /\ job'[w] = Idle /\ \A v \in Workers \ {w} : job'[v] = job[v]
      BY <2>1, <1>t, Finishes
    <2>3. timer'[album] = h /\ \A a \in Albums \ {album} : timer'[a] = timer[a]
      BY <2>1, <1>t DEF RowType
    <2>4. AlbumOf[h] = album
      BY <1>1, <1>t DEF Shaped, SameAlbum
    <2>5. timer[album] # NoPost => timer[album] = h
      <3>1. timer[album] # NoPost => timer[album] \in Heads /\ SameAlbum(timer[album], h)
        BY <1>5, <2>1, <2>4, <1>t DEF RoutesHeads, TimersMatch, SameAlbum
      <3> QED
        BY <1>1, <1>t, <3>1 DEF OrderInv, AlbumIsOneOrder
    <2>6. Shaped(w)' /\ TimersMatch'
      BY <2>2, <2>3, <2>4, <1>t DEF Shaped, Idle, Owning, TimersMatch
    <2>7. \A d \in Deliveries : d[1] = h => Safe(d)'
      BY <2>1, <2>3 DEF Safe
    <2>8. \A d \in Deliveries, a \in Albums : timer[a] = d[1] => timer'[a] = d[1]
      <3>1. \A d \in Deliveries : d[1] # NoPost
        BY IntakeAssumption DEF Deliveries, NoPost
      <3> QED
        BY <2>3, <2>5, <3>1
    <2> QED
      BY <1>1, <1>2, <1>3, <1>t, <2>2, <2>6, <2>7, <2>8, Handover DEF Owning
  <1> QED
    BY <1>4, <1>5

(* Ensured leaves no group of the order without a row. *)
LEMMA RouteCarries ==
  ASSUME CarryInv, crashes = 0, NEW w \in Workers, Route(w) \/ List(w) \/ QueueDone(w)
  PROVE  Carry'
  <1> DEFINE h == job[w].head
  <1>t. /\ OutboxInv /\ OutboxType /\ HeadsArrive /\ JobType /\ Carry
        /\ job[w] \in Jobs /\ Shaped(w) /\ TimersMatch
    BY DEF CarryInv, OutboxInv, OrderInv, RowType, JobType, Carry
  <1>1. /\ UNCHANGED <<received, phase, number, timer>>
        /\ Heads' = Heads /\ TimersMatch'
    BY <1>t DEF Route, List, QueueDone, outbox, groups, process, rows, Heads, TimersMatch
  <1>2. CASE Route(w)
    <2>1. /\ JobType' /\ job'[w] = [job[w] EXCEPT !.pc = "list"]
          /\ \A v \in Workers \ {w} : job'[v] = job[v]
      BY <1>2, <1>t, Moves DEF Route, Steps
    <2>2. /\ job[w].pc = "route" /\ job[w].queue = {} /\ job[w].cur = NoDelivery
          /\ job'[w].pc = "list" /\ job'[w].head = h /\ job'[w].queue = {}
          /\ job'[w].cur = NoDelivery
      BY <1>2, <1>t, <2>1 DEF Route, At, Jobs, Shaped, Owning
    <2>3. \A d \in Deliveries :
             /\ delivery'[d] = IF d[1] = h /\ delivery[d] = "ABSENT" THEN "PENDING" ELSE delivery[d]
             /\ Carries(w, d) => d[1] = h
      BY <1>2, <2>2, IntakeAssumption
      DEF Route, Ensured, Carries, Deliveries, NoDelivery, NoPost
    <2>4. Shaped(w)'
      BY <2>2, <2>3 DEF Shaped, Owning
    <2>5. \A d \in Deliveries : d[1] = h => Safe(d)'
      BY <2>2 DEF Safe, Carries
    <2> QED
      BY <1>1, <1>t, <2>1, <2>2, <2>3, <2>4, <2>5, Handover DEF Owning
  <1>3. CASE List(w)
    <2>1. /\ job'[w].pc = "claim" /\ job'[w].cur = job[w].cur
          /\ job'[w].queue = {d \in Undelivered : d[1] = h}
          /\ job[w].pc = "list" /\ UNCHANGED delivery
          /\ \A v \in Workers \ {w} : job'[v] = job[v]
      BY <1>3, <1>t DEF List, JobType, Jobs, At, outbox
    <2>2. /\ job[w].queue = {} /\ job[w].cur = NoDelivery
          /\ \A d \in Deliveries : d[1] = h => delivery[d] # "ABSENT"
      BY <1>t, <2>1 DEF Shaped, Owning
    <2>3. Shaped(w)'
      BY <2>1, <2>2 DEF Shaped, Owning, Undelivered
    <2>4. \A d \in Deliveries : Carries(w, d) => d[1] = h
      BY <2>1, <2>2, IntakeAssumption DEF Carries, Deliveries, NoDelivery, NoPost
    (* What it does not take on is with another task, or arrived. *)
    <2>5. ASSUME NEW d \in Deliveries, d[1] = h PROVE Safe(d)'
      <3>1. delivery[d] \in {"PENDING", "FAILED", "SENDING", "DELIVERED"}
        BY <2>2, <2>5, <1>t DEF OutboxType, DeliveryStatus
      <3>2. CASE delivery[d] \in {"PENDING", "FAILED"}
        BY <2>1, <2>5, <3>2 DEF Safe, Carries, Undelivered
      <3>3. CASE delivery[d] = "DELIVERED"
        BY <1>1, <1>t, <3>3 DEF OutboxInv, DeliveredMeansReceived, Safe
      <3>4. CASE delivery[d] = "SENDING"
        <4>1. PICK v \in Workers : job[v].pc \in Owning /\ job[v].cur = d
          BY <1>t, <3>4 DEF Carry, Owned
        <4>2. v # w
          BY <2>1, <4>1 DEF Owning
        <4> QED
          BY <2>1, <4>1, <4>2 DEF Safe, Carries
      <3> QED
        BY <3>1, <3>2, <3>3, <3>4
    <2> QED
      BY <1>1, <1>t, <2>1, <2>3, <2>4, <2>5, Handover DEF Owning
  <1>4. CASE QueueDone(w)
    <2>1. /\ job'[w] = Idle /\ \A v \in Workers \ {w} : job'[v] = job[v]
          /\ job[w].pc = "claim" /\ job[w].queue = {} /\ UNCHANGED delivery
      BY <1>4, <1>t, Finishes DEF QueueDone, At, outbox
    <2>2. \A d \in Deliveries : ~Carries(w, d)
      BY <1>t, <2>1, IntakeAssumption
      DEF Shaped, Owning, Carries, Deliveries, NoDelivery, NoPost
    <2>3. Shaped(w)'
      BY <2>1 DEF Shaped, Idle, Owning
    <2> QED
      BY <1>1, <1>t, <2>1, <2>2, <2>3, Handover DEF Idle, Owning
  <1> QED
    BY <1>2, <1>3, <1>4

(* A row another task took first is with that task, or arrived or failed. *)
LEMMA ClaimCarries ==
  ASSUME CarryInv, crashes = 0, NEW w \in Workers, Claim(w)
  PROVE  Carry'
  <1>t. /\ OutboxInv /\ OutboxType /\ JobType /\ Carry
        /\ job[w] \in Jobs /\ Shaped(w) /\ TimersMatch
    BY DEF CarryInv, OutboxInv, OrderInv, RowType, JobType, Carry
  <1>1. /\ UNCHANGED <<received, phase, number, timer>>
        /\ Heads' = Heads /\ TimersMatch'
    BY <1>t DEF Claim, groups, process, rows, Heads, TimersMatch
  <1>2. PICK d \in job[w].queue :
           IF d \in Undelivered
           THEN /\ delivery' = [delivery EXCEPT ![d] = "SENDING"]
                /\ job' = [job EXCEPT ![w].pc = "compose",
                             ![w].queue = job[w].queue \ {d}, ![w].cur = d]
           ELSE /\ job' = [job EXCEPT ![w].queue = job[w].queue \ {d}]
                /\ UNCHANGED delivery
    BY DEF Claim
  <1>3. /\ job[w].pc = "claim" /\ job[w].cur = NoDelivery /\ job[w].queue \subseteq Deliveries
        /\ d \in Deliveries /\ delivery[d] # "ABSENT"
        /\ \A e \in job[w].queue : delivery[e] # "ABSENT"
    BY <1>2, <1>t DEF Claim, At, Jobs, Shaped, Owning
  <1>4. \A e \in Deliveries : Carries(w, e) => e \in job[w].queue
    BY <1>3, IntakeAssumption DEF Carries, Deliveries, NoDelivery, NoPost
  <1>5. CASE d \in Undelivered
    <2>1. /\ job'[w].pc = "compose" /\ job'[w].cur = d /\ job'[w].queue = job[w].queue \ {d}
          /\ \A v \in Workers \ {w} : job'[v] = job[v]
      BY <1>2, <1>5, <1>t DEF JobType, Jobs
    <2>2. /\ delivery'[d] = "SENDING" /\ delivery[d] \in {"PENDING", "FAILED"}
          /\ \A e \in Deliveries \ {d} : delivery'[e] = delivery[e]
      BY <1>2, <1>3, <1>5, <1>t DEF OutboxType, Undelivered
    <2>3. Shaped(w)'
      BY <2>1, <2>2, <1>3 DEF Shaped, Owning
    <2>4. \A e \in Deliveries : Carries(w, e) \/ e = d => Safe(e)'
      BY <1>4, <2>1 DEF Safe, Carries
    <2> QED
      BY <1>1, <1>3, <1>t, <2>1, <2>2, <2>3, <2>4, Handover DEF Owning
  <1>6. CASE d \notin Undelivered
    <2>1. /\ job'[w].pc = "claim" /\ job'[w].cur = NoDelivery
          /\ job'[w].queue = job[w].queue \ {d} /\ UNCHANGED delivery
          /\ \A v \in Workers \ {w} : job'[v] = job[v]
      BY <1>2, <1>3, <1>6, <1>t DEF JobType, Jobs
    <2>2. Shaped(w)'
      BY <2>1, <1>3 DEF Shaped, Owning
    <2>3. Safe(d)'
      <3>1. delivery[d] \in {"SENDING", "DELIVERED"}
        BY <1>3, <1>6, <1>t DEF OutboxType, DeliveryStatus, Undelivered
      <3>2. CASE delivery[d] = "DELIVERED"
        BY <1>1, <1>3, <1>t, <3>2 DEF OutboxInv, DeliveredMeansReceived, Safe
      <3>3. CASE delivery[d] = "SENDING"
        <4>1. PICK v \in Workers : job[v].pc \in Owning /\ job[v].cur = d
          BY <1>3, <1>t, <3>3 DEF Carry, Owned
        <4>2. v # w
          BY <1>3, <4>1 DEF Owning
        <4> QED
          BY <2>1, <4>1, <4>2 DEF Safe, Carries
      <3> QED
        BY <3>1, <3>2, <3>3
    <2>4. \A e \in Deliveries : Carries(w, e) => Safe(e)'
      BY <1>4, <2>1, <2>3 DEF Safe, Carries
    <2> QED
      BY <1>1, <1>3, <1>t, <2>1, <2>2, <2>4, Handover DEF Owning
  <1> QED
    BY <1>5, <1>6

(* A task keeps its row until the row says what came of it. *)
LEMMA SendCarries ==
  ASSUME CarryInv, crashes = 0, NEW w \in Workers,
         Compose(w) \/ Send(w) \/ Complete(w) \/ Fail(w)
  PROVE  Carry'
  <1>t. /\ OutboxInv /\ OutboxType /\ HeadsArrive /\ JobType /\ Carry
        /\ job[w] \in Jobs /\ Shaped(w) /\ TimersMatch
    BY DEF CarryInv, OutboxInv, OrderInv, RowType, JobType, Carry
  <1>1. /\ UNCHANGED <<phase, number, timer>>
        /\ Heads' = Heads /\ TimersMatch'
    BY <1>t DEF Compose, Send, Complete, Fail, Mark, outbox, groups, process, rows, Heads,
         TimersMatch
  <1>2. PICK d \in Deliveries :
           d = job[w].cur /\ job[w].pc \in Owning /\ delivery[d] = "SENDING"
    BY <1>t DEF Compose, Send, Complete, Fail, Mark, At, Owning, OutboxInv, Claims
  <1>3. /\ \A e \in Deliveries : Carries(w, e) => e = d \/ e \in job[w].queue
        /\ job[w].queue \subseteq Deliveries
        /\ \A e \in job[w].queue : delivery[e] # "ABSENT"
    BY <1>2, <1>t DEF Carries, Owning, Shaped, Jobs
  <1>4. CASE Compose(w) \/ Send(w)
    <2>1. /\ job'[w].pc \in Owning \ {"compose"} /\ job'[w].cur = d
          /\ job'[w].queue = job[w].queue
          /\ \A v \in Workers \ {w} : job'[v] = job[v]
      BY <1>2, <1>4, <1>t DEF Compose, Send, Goto, JobType, Jobs, Owning
    <2>2. /\ UNCHANGED delivery
          /\ \A e \in Deliveries : received[e] \subseteq received'[e]
      BY <1>2, <1>4, <1>t DEF Compose, Send, outbox, groups, OutboxType
    <2>3. Shaped(w)'
      BY <1>3, <2>1, <2>2 DEF Shaped, Owning
    <2>4. \A e \in Deliveries : Carries(w, e) => Safe(e)'
      BY <1>3, <2>1 DEF Safe, Carries
    <2> QED
      BY <1>1, <1>2, <1>t, <2>1, <2>2, <2>3, <2>4, Handover
  <1>5. CASE Complete(w) \/ Fail(w)
    <2>1. PICK status \in {"DELIVERED", "FAILED"} :
             /\ job[w].pc = (IF status = "DELIVERED" THEN "complete" ELSE "fail")
             /\ Mark(w, job[w].pc, status)
      BY <1>5 DEF Complete, Fail, Mark, At
    <2>2. /\ job'[w].pc = "claim" /\ job'[w].cur = NoDelivery
          /\ job'[w].queue = job[w].queue
          /\ \A v \in Workers \ {w} : job'[v] = job[v]
      BY <2>1, <1>t DEF Mark, JobType, Jobs
    <2>3. /\ delivery'[d] = status /\ UNCHANGED received
          /\ \A e \in Deliveries \ {d} : delivery'[e] = delivery[e]
      <3>1. delivery' = [delivery EXCEPT ![d] = status] /\ UNCHANGED received
        BY <1>2, <2>1 DEF Mark, groups
      <3> QED
        BY <1>2, <1>t, <3>1 DEF OutboxType
    <2>4. Shaped(w)'
      BY <1>3, <2>2, <2>3 DEF Shaped, Owning
    <2>5. Safe(d)'
      <3>1. CASE status = "FAILED"
        BY <2>3, <3>1 DEF Safe
      <3>2. CASE status = "DELIVERED"
        <4>1. job[w].pc = "complete"
          BY <2>1, <3>2
        <4>2. d[1] \in received[d]
          BY <1>2, <1>t, <4>1 DEF HeadsArrive
        <4> QED
          BY <2>3, <4>2 DEF Safe
      <3> QED
        BY <3>1, <3>2
    <2>6. \A e \in Deliveries : Carries(w, e) => Safe(e)'
      BY <1>3, <2>2, <2>5 DEF Safe, Carries
    <2> QED
      BY <1>1, <1>2, <1>t, <2>2, <2>3, <2>4, <2>6, Handover DEF Owning
  <1> QED
    BY <1>4, <1>5

LEMMA CarryStep == CarryInv /\ [Next]_vars => CarryInv'
  <1> SUFFICES ASSUME CarryInv, [Next]_vars PROVE CarryInv'
    OBVIOUS
  <1>1. OutboxInv' /\ crashes \in Nat
    BY OutboxStep DEF CarryInv
  <1>2. CASE Crash
    <2>1. crashes' \in Nat /\ crashes' # 0
      BY <1>1, <1>2 DEF Crash
    <2> QED
      BY <1>1, <2>1 DEF CarryInv
  <1>3. CASE UNCHANGED crashes
    <2> SUFFICES ASSUME crashes = 0 PROVE Carry'
      BY <1>1, <1>3 DEF CarryInv
    <2>1. Carry
      BY DEF CarryInv
    <2>2. ASSUME NEW w \in Workers, Restart(w) \/ StartPolling PROVE FALSE
      BY <2>1, <2>2 DEF Restart, StartPolling, Carry
    <2>3. CASE StartPolling
      BY <2>1, <2>3 DEF StartPolling, Carry
    <2>4. CASE NextDay \/ UNCHANGED vars
      <3>1. UNCHANGED <<number, timer, delivery, received, job, phase>>
        BY <2>4 DEF NextDay, vars, outbox, groups, process
      <3>2. TimersMatch' /\ Heads' = Heads /\ phase' = "up"
        BY <2>1, <3>1 DEF Carry, TimersMatch, Heads
      <3>3. \A w \in Workers : Shaped(w)'
        BY <2>1, <3>1 DEF Carry, Shaped
      <3>4. \A d \in Deliveries : delivery'[d] = "SENDING" => Owned(d)'
        BY <2>1, <3>1 DEF Carry, Owned
      <3>5. \A d \in Deliveries : Safe(d) => Safe(d)'
        BY <3>1 DEF Safe, Carries
      <3> QED
        BY <2>1, <3>2, <3>3, <3>4, <3>5 DEF Carry
    <2> QED
      <3>1. ASSUME NEW w \in Workers,
                   Receive(w) \/ TimerFires(w) \/ Handler(w) \/ Routing(w) \/ Restart(w)
            PROVE  Carry'
        BY <3>1, <2>2, IntakeCarries, ScheduleCarries, RouteCarries, ClaimCarries,
           SendCarries, Zenon DEF Handler, Routing
      <3>2. ~Crash
        BY <1>1, <1>3 DEF Crash
      <3> QED
        BY <2>3, <2>4, <3>1, <3>2, Zenon DEF Next
  <1> QED
    BY <1>2, <1>3 DEF Next, Receive, TimerFires, Handler, Lookup, Create, AttachAfterRace,
         Schedule, Routing, Route, List, Claim, QueueDone, Compose, Send, Complete, Fail, Mark,
         Restart, NextDay, StartPolling, process, vars

(* As long as the process lives, an order a group neither received nor     *)
(* refused has a task or a timer, for any number of posts, albums, groups  *)
(* and tasks (schedule_routing, _flush_album, process, claim_delivery).    *)
THEOREM NoneIsDropped == Spec => []NoOrderIsDropped
  <1>1. CarryInv => NoOrderIsDropped
    BY DEF CarryInv, Carry, Safe, NoOrderIsDropped
  <1> QED
    BY CarryInit, CarryStep, <1>1, PTL DEF Spec

------------------------------------------------------------------------------
(* Numbers *)

OfDay(d) == {h \in Heads : number[h][1] = d}

(* The number a new order takes is the next of its day. *)
LEMMA NumbersStep == OrderInv /\ NumbersAreDense /\ [Next]_vars => NumbersAreDense'
  <1> SUFFICES ASSUME OrderInv, NumbersAreDense, [Next]_vars PROVE NumbersAreDense'
    OBVIOUS
  <1>t. RowType
    BY DEF OrderInv
  <1>1. CASE UNCHANGED <<number, counter>>
    BY <1>1 DEF NumbersAreDense, Heads
  <1>2. ASSUME NEW w \in Workers, Create(w), OrdersOf(job[w].post) = {}
        PROVE  NumbersAreDense'
    <2> DEFINE p == job[w].post
               next == counter[day] + 1
    <2>1. /\ Heads' = Heads \cup {p} /\ p \notin Heads /\ Heads \subseteq Posts /\ p \in Posts
          /\ number' = [number EXCEPT ![p] = <<day, next>>]
          /\ counter' = [counter EXCEPT ![day] = next]
      BY <1>2, CreateStep DEF Create, At, OrderInv, RoutesHeads, TakingIn, Heads
    <2>2. number'[p] = <<day, next>> /\ \A h \in Heads : number'[h] = number[h]
      BY <2>1, <1>t DEF RowType
    <2>3. ASSUME NEW d \in 1 .. Days
          PROVE  /\ {number'[h][2] : h \in OfDay(d)'} = 1 .. counter'[d]
                 /\ Cardinality(OfDay(d)') = counter'[d]
      <3>1. /\ {number[h][2] : h \in OfDay(d)} = 1 .. counter[d]
            /\ Cardinality(OfDay(d)) = counter[d]
        BY <2>3 DEF NumbersAreDense, OfDay
      <3>2. {number'[h][2] : h \in OfDay(d)} = 1 .. counter[d]
        BY <2>2, <3>1 DEF OfDay
      <3>3. CASE d # day
        <4>1. OfDay(d)' = OfDay(d) /\ counter'[d] = counter[d]
          BY <2>1, <2>2, <3>3, <1>t DEF OfDay, RowType
        <4> QED
          BY <3>1, <3>2, <4>1
      <3>4. CASE d = day
        <4>1. OfDay(d)' = OfDay(d) \cup {p} /\ p \notin OfDay(d)
          BY <2>1, <2>2, <3>4 DEF OfDay
        <4>2. counter[d] \in Nat /\ counter'[d] = counter[d] + 1
          BY <2>1, <3>4, <1>t DEF RowType
        <4>3. {number'[h][2] : h \in OfDay(d)'} = {number'[h][2] : h \in OfDay(d)} \cup {next}
          BY <2>2, <4>1
        <4>4. {number'[h][2] : h \in OfDay(d)'} = 1 .. counter'[d]
          BY <3>2, <3>4, <4>2, <4>3
        <4>5. IsFiniteSet(OfDay(d))
          BY <2>1, FS_Subset, IntakeAssumption DEF OfDay
        <4>6. Cardinality(OfDay(d)') = Cardinality(OfDay(d)) + 1
          BY <4>1, <4>5, FS_AddElement
        <4> QED
          BY <3>1, <4>2, <4>4, <4>6
      <3> QED
        BY <3>3, <3>4
    <2> QED
      BY <2>3 DEF NumbersAreDense, OfDay
  <1>3. ASSUME NEW w \in Workers, Handler(w) PROVE NumbersAreDense'
    BY <1>1, <1>2, <1>3 DEF Handler, Lookup, Create, AttachAfterRace, Schedule, rows
  <1>4. ASSUME NEW w \in Workers, Receive(w) \/ TimerFires(w) \/ Routing(w) \/ Restart(w)
        PROVE  NumbersAreDense'
    BY <1>1, <1>4 DEF Receive, TimerFires, Routing, Route, List, Claim, QueueDone, Compose, Send,
         Complete, Fail, Mark, Restart, rows
  <1>5. CASE NextDay \/ Crash \/ StartPolling \/ UNCHANGED vars
    BY <1>1, <1>5 DEF NextDay, Crash, StartPolling, rows, vars
  <1> QED
    BY <1>3, <1>4, <1>5 DEF Next

(* The orders of a day carry the numbers 1 to the counter, each once: no   *)
(* race, rejection, redelivery or crash leaves a gap (allocate in the      *)
(* savepoint of ingest).                                                   *)
THEOREM NumbersHaveNoGap == Spec => []NumbersAreDense
  <1>1. Init => NumbersAreDense
    <2> SUFFICES ASSUME Init, NEW d \in 1 .. Days
                 PROVE  /\ {number[h][2] : h \in OfDay(d)} = 1 .. counter[d]
                        /\ Cardinality(OfDay(d)) = counter[d]
      BY DEF NumbersAreDense, OfDay
    <2>1. OfDay(d) = {} /\ counter[d] = 0
      BY DEF Init, OfDay, Heads
    <2> QED
      BY <2>1, FS_EmptySet
  <1> QED
    BY OrderInit, OrderStep, <1>1, NumbersStep, PTL DEF Spec

(* Every reachable state is well typed; the counters are bounded by the    *)
(* number of posts because numbers are never skipped.                      *)
THEOREM TypeCorrect == Spec => []TypeOK
  <1> DEFINE FrameType ==
        /\ queued \subseteq Posts /\ ledger \subseteq Posts /\ rejected \subseteq Posts
        /\ phase \in {"up", "down", "recovering"} /\ crashes \in 0 .. MaxCrashes
  <1>1. Init => FrameType
    BY IntakeAssumption DEF Init
  <1>2. FrameType /\ OrderInv /\ [Next]_vars => FrameType'
    <2> SUFFICES ASSUME FrameType, OrderInv, [Next]_vars PROVE FrameType'
      OBVIOUS
    <2>1. ASSUME NEW w \in Workers, Receive(w) PROVE FrameType'
      BY <2>1 DEF Receive, process
    <2>2. ASSUME NEW w \in Workers, Handler(w) PROVE FrameType'
      <3>1. job[w].pc \in TakingIn => job[w].post \in Posts
        BY DEF OrderInv, RoutesHeads
      <3>2. UNCHANGED <<queued, ledger, process>> /\ rejected' \subseteq Posts
        BY <2>2, <3>1
        DEF Handler, Lookup, Create, AttachAfterRace, Schedule, rows, At, TakingIn
      <3> QED
        BY <3>2 DEF process
    <2>3. ASSUME NEW w \in Workers, TimerFires(w) \/ Routing(w) \/ Restart(w) PROVE FrameType'
      BY <2>3 DEF TimerFires, Routing, Route, List, Claim, QueueDone, Compose, Send, Complete,
           Fail, Mark, Restart, rows, process
    <2>4. CASE Crash
      BY <2>4, IntakeAssumption DEF Crash
    <2>5. CASE NextDay \/ StartPolling \/ UNCHANGED vars
      BY <2>5 DEF NextDay, StartPolling, rows, process, vars
    <2> QED
      BY <2>1, <2>2, <2>3, <2>4, <2>5 DEF Next
  <1>3. FrameType /\ OutboxInv /\ NumbersAreDense => TypeOK
    <2> SUFFICES ASSUME FrameType, OutboxInv, NumbersAreDense PROVE TypeOK
      OBVIOUS
    <2>1. OrderInv /\ RowType /\ OutboxType
      BY DEF OutboxInv, OrderInv
    <2>2. ASSUME NEW d \in 1 .. Days PROVE counter[d] \in 0 .. Cardinality(Posts)
      <3>1. Cardinality(OfDay(d)) = counter[d]
        BY <2>2 DEF NumbersAreDense, OfDay
      <3>2. Cardinality(OfDay(d)) <= Cardinality(Posts) /\ Cardinality(Posts) \in Nat
        BY FS_Subset, FS_CardinalityType, IntakeAssumption DEF OfDay, Heads
      <3> QED
        BY <2>1, <3>1, <3>2 DEF RowType
    <2>3. ASSUME NEW p \in Posts
          PROVE  number[p] \in {NoNumber} \cup ((1 .. Days) \X (1 .. Cardinality(Posts)))
      <3>1. CASE p \notin Heads
        BY <3>1 DEF Heads
      <3>2. CASE p \in Heads
        <4>1. /\ number[p] \in (1 .. Days) \X (Nat \ {0})
              /\ number[p] = <<number[p][1], number[p][2]>>
          BY <3>2, <2>1 DEF RowType, Heads
        <4>2. number[p][2] \in 1 .. counter[number[p][1]]
          BY <3>2, <4>1 DEF NumbersAreDense
        <4>3. counter[number[p][1]] \in 0 .. Cardinality(Posts) /\ Cardinality(Posts) \in Nat
          BY <4>1, <2>2, FS_CardinalityType, IntakeAssumption
        <4> QED
          BY <4>1, <4>2, <4>3
      <3> QED
        BY <3>1, <3>2
    <2> QED
      BY <2>1, <2>2, <2>3 DEF TypeOK, RowType, OutboxType, JobType
  <1> QED
    BY OutboxInit, OutboxStep, NumbersHaveNoGap, <1>1, <1>2, <1>3, PTL DEF Spec, OutboxInv

===============================================================================
