-------------------------------- MODULE Intake --------------------------------
(***************************************************************************)
(* From a post in a source channel to a numbered order in the work groups: *)
(* OrderService (app/orders/service.py) over OrderRepository and           *)
(* CounterRepository, behind the update ledger of the idempotency          *)
(* middleware.  The posts are those of one source, one counter scope.      *)
(*                                                                         *)
(* As in ResultPipeline a worker is an asyncio task, an action one         *)
(* transaction or one Telegram call, and a crash takes every task and      *)
(* every album timer.  A timer may fire at any moment after it is set: the *)
(* two seconds of the debounce are no bound on what else happens.  A       *)
(* graceful shutdown fires them all, then the process is gone.             *)
(***************************************************************************)
EXTENDS Naturals, FiniteSets

CONSTANTS
    Workers,        \* tasks that may run at the same time
    Posts,          \* posts of the source
    AlbumOf,        \* post |-> its album (media_group_id), or NoAlbum
    NoAlbum,
    Numbered,       \* posts the order number gate accepts
    Groups,         \* work groups the source routes to
    Faults,         \* what may go wrong, a subset of IntakeFaults
    Days,           \* bound: business days 1 .. Days
    MaxCrashes,     \* bound: crashes in a behaviour
    CopyCap         \* bound: sends of a delivery are counted up to this

IntakeFaults == {"refused", "lost_reply", "backlog"}

ASSUME IntakeAssumption ==
    /\ IsFiniteSet(Posts) /\ IsFiniteSet(Groups)
    /\ "none" \notin Posts
    /\ Numbered \subseteq Posts
    /\ Faults \subseteq IntakeFaults
    /\ Days \in Nat \ {0} /\ MaxCrashes \in Nat /\ CopyCap \in Nat \ {0}

VARIABLES
    queued,     \* posts whose update Telegram has yet to hand over
    ledger,     \* posts whose update is in processed_updates
    day,        \* business_date()
    counter,    \* day |-> last_number of the daily counter
    number,     \* post |-> <<day, number>> of the order it is the head of
    partOf,     \* post |-> head of the order it is a source message of
    rejected,   \* posts refused, and deleted from the source
    timer,      \* album |-> head of the order its flush task will route
    delivery,   \* <<head, group>> |-> status of the order_deliveries row
    received,   \* <<head, group>> |-> posts the group received
    copies,     \* <<head, group>> |-> sends of the order Telegram confirmed
    job,        \* worker |-> what its task holds in memory
    phase,      \* "up", "down", or "recovering" before polling starts
    crashes

vars == <<queued, ledger, day, counter, number, partOf, rejected, timer,
          delivery, received, copies, job, phase, crashes>>
rows == <<queued, ledger, day, counter, number, partOf, rejected>>
groups == <<received, copies>>
outbox == <<delivery, groups>>
process == <<phase, crashes>>

NoPost == "none"
NoNumber == <<0, 0>>
Albums == {AlbumOf[p] : p \in Posts} \ {NoAlbum}
Deliveries == Posts \X Groups
DeliveryStatus == {"ABSENT", "PENDING", "SENDING", "DELIVERED", "FAILED"}
Steps == {"idle", "lookup", "create", "attach", "schedule", "route",
          "list", "claim", "compose", "send", "complete", "fail"}

NoDelivery == <<NoPost, NoPost>>
Jobs == [pc : Steps, post : Posts \cup {NoPost}, head : Posts \cup {NoPost},
         queue : SUBSET Deliveries, cur : Deliveries \cup {NoDelivery},
         parts : SUBSET Posts]
Idle == [pc |-> "idle", post |-> NoPost, head |-> NoPost, queue |-> {},
         cur |-> NoDelivery, parts |-> {}]

Heads == {p \in Posts : number[p] # NoNumber}
SameAlbum(p, q) == AlbumOf[p] # NoAlbum /\ AlbumOf[p] = AlbumOf[q]
PartsOf(h) == {p \in Posts : partOf[p] = h}

TypeOK ==
    /\ queued \subseteq Posts /\ ledger \subseteq Posts /\ rejected \subseteq Posts
    /\ day \in 1 .. Days
    /\ counter \in [1 .. Days -> 0 .. Cardinality(Posts)]
    /\ number \in [Posts -> {NoNumber} \cup ((1 .. Days) \X (1 .. Cardinality(Posts)))]
    /\ partOf \in [Posts -> Posts \cup {NoPost}]
    /\ timer \in [Albums -> Posts \cup {NoPost}]
    /\ delivery \in [Deliveries -> DeliveryStatus]
    /\ received \in [Deliveries -> SUBSET Posts]
    /\ copies \in [Deliveries -> 0 .. CopyCap]
    /\ job \in [Workers -> Jobs]
    /\ phase \in {"up", "down", "recovering"} /\ crashes \in 0 .. MaxCrashes

Init ==
    /\ queued = Posts /\ ledger = {} /\ rejected = {}
    /\ day = 1 /\ counter = [d \in 1 .. Days |-> 0]
    /\ number = [p \in Posts |-> NoNumber]
    /\ partOf = [p \in Posts |-> NoPost]
    /\ timer = [a \in Albums |-> NoPost]
    /\ delivery = [d \in Deliveries |-> "ABSENT"]
    /\ received = [d \in Deliveries |-> {}]
    /\ copies = [d \in Deliveries |-> 0]
    /\ job = [w \in Workers |-> Idle]
    /\ phase = "up" /\ crashes = 0

At(w, step) == job[w].pc = step
Goto(w, step) == job' = [job EXCEPT ![w].pc = step]
GotoWith(w, step, head) == job' = [job EXCEPT ![w].pc = step, ![w].head = head]
Finish(w) == job' = [job EXCEPT ![w] = Idle]

------------------------------------------------------------------------------
(* Intake *)

NextDay ==
    /\ day < Days
    /\ day' = day + 1
    /\ UNCHANGED <<queued, ledger, counter, number, partOf, rejected, timer, outbox, job, process>>

(* The middleware claims the update in a transaction of its own before the *)
(* handler runs, and drops one it finds claimed.                           *)
Receive(w) ==
    /\ phase = "up" /\ At(w, "idle")
    /\ \E p \in queued :
         /\ queued' = queued \ {p}
         /\ ledger' = ledger \cup {p}
         /\ job' = IF p \in ledger THEN job
                   ELSE [job EXCEPT ![w] = [Idle EXCEPT !.pc = "lookup", !.post = p]]
    /\ UNCHANGED <<day, counter, number, partOf, rejected, timer, outbox, process>>

(* Orders a post belongs to by one of the two unique indexes of `orders`.  *)
(* Mutant: the album index is not consulted.                               *)
OrdersOfPost(p) == Heads \cap {p}
OrdersOf(p) == {h \in Heads : h = p \/ SameAlbum(h, p)}

(* add_source_message: ON CONFLICT (chat_id, message_id) DO NOTHING. *)
Attached(p, h) ==
    IF partOf[p] = NoPost THEN [partOf EXCEPT ![p] = h] ELSE partOf

(* ingest, up to the savepoint: a known head is dropped, an album part is  *)
(* attached, one made while the process was down is dropped (the default   *)
(* of startup_guard), one without order number is refused (and deleted     *)
(* from the channel: deliver_rejection).                                   *)
Lookup(w) ==
    LET p == job[w].post
    IN  /\ At(w, "lookup")
        /\ \/ /\ p \in Heads
              /\ Finish(w) /\ UNCHANGED <<partOf, rejected>>
           \/ \E h \in OrdersOf(p) \ {p} :
                /\ p \notin Heads
                /\ partOf' = Attached(p, h)
                /\ GotoWith(w, "schedule", h)
                /\ UNCHANGED rejected
           \/ /\ OrdersOf(p) = {} /\ "backlog" \in Faults /\ crashes > 0
              /\ Finish(w) /\ UNCHANGED <<partOf, rejected>>
           \/ /\ OrdersOf(p) = {} /\ p \in Numbered
              /\ Goto(w, "create") /\ UNCHANGED <<partOf, rejected>>
           \/ /\ OrdersOf(p) = {} /\ p \notin Numbered
              /\ rejected' = rejected \cup {p}
              /\ Finish(w) /\ UNCHANGED partOf
        /\ UNCHANGED <<queued, ledger, day, counter, number, timer, outbox, process>>

(* allocate and create, in a savepoint: the upsert of the counter holds    *)
(* its row until the commit, so creations exclude each other, and a unique *)
(* index violation rolls the number back with the rest.  Mutant: the       *)
(* number is taken outside the savepoint.                                  *)
CreateKeepingNumber(w) ==
    LET p == job[w].post
        taken == <<day, counter[day] + 1>>
    IN  /\ At(w, "create")
        /\ counter' = [counter EXCEPT ![day] = @ + 1]
        /\ IF OrdersOf(p) # {}
           THEN Goto(w, "attach") /\ UNCHANGED <<number, partOf>>
           ELSE /\ number' = [number EXCEPT ![p] = taken]
                /\ partOf' = Attached(p, p)
                /\ GotoWith(w, "schedule", p)
        /\ UNCHANGED <<queued, ledger, day, rejected, timer, outbox, process>>

Create(w) ==
    LET p == job[w].post
        taken == <<day, counter[day] + 1>>
    IN  /\ At(w, "create")
        /\ IF OrdersOf(p) # {}
           THEN Goto(w, "attach") /\ UNCHANGED <<counter, number, partOf>>
           ELSE /\ counter' = [counter EXCEPT ![day] = @ + 1]
                /\ number' = [number EXCEPT ![p] = taken]
                /\ partOf' = Attached(p, p)
                /\ GotoWith(w, "schedule", p)
        /\ UNCHANGED <<queued, ledger, day, rejected, timer, outbox, process>>

AttachAfterRace(w) ==
    /\ At(w, "attach")
    /\ \E h \in OrdersOf(job[w].post) :
         /\ partOf' = Attached(job[w].post, h)
         /\ GotoWith(w, "schedule", h)
    /\ UNCHANGED <<queued, ledger, day, counter, number, rejected, timer, outbox, process>>

------------------------------------------------------------------------------
(* Routing *)

(* A single post is routed at once; a part of an album replaces the timer. *)
(* Mutant: the timer it replaces is cancelled and none is set.             *)
ScheduleCancelling(w) ==
    LET album == AlbumOf[job[w].post] IN
    /\ At(w, "schedule")
    /\ IF album = NoAlbum
       THEN Goto(w, "route") /\ UNCHANGED timer
       ELSE /\ timer' = [timer EXCEPT ![album] = IF @ = NoPost THEN job[w].head ELSE NoPost]
            /\ Finish(w)
    /\ UNCHANGED <<rows, outbox, process>>

Schedule(w) ==
    LET album == AlbumOf[job[w].post] IN
    /\ At(w, "schedule")
    /\ IF album = NoAlbum
       THEN Goto(w, "route") /\ UNCHANGED timer
       ELSE timer' = [timer EXCEPT ![album] = job[w].head] /\ Finish(w)
    /\ UNCHANGED <<rows, outbox, process>>

(* _flush_album, and flush_pending_albums for all of them. *)
TimerFires(w) ==
    /\ phase = "up" /\ At(w, "idle")
    /\ \E a \in Albums :
         /\ timer[a] # NoPost
         /\ timer' = [timer EXCEPT ![a] = NoPost]
         /\ GotoWith(w, "route", timer[a])
    /\ UNCHANGED <<rows, outbox, process>>

(* ensure_delivery for every group.  Mutant: ON CONFLICT DO UPDATE. *)
EnsuredAgain(h) ==
    [d \in Deliveries |-> IF d[1] = h THEN "PENDING" ELSE delivery[d]]
Ensured(h) ==
    [d \in Deliveries |->
        IF d[1] = h /\ delivery[d] = "ABSENT" THEN "PENDING" ELSE delivery[d]]

Route(w) ==
    /\ At(w, "route")
    /\ delivery' = Ensured(job[w].head)
    /\ Goto(w, "list")
    /\ UNCHANGED <<rows, timer, groups, process>>

(* Statuses a delivery may be claimed from. *)
Undelivered == {d \in Deliveries : delivery[d] \in {"PENDING", "FAILED"}}

List(w) ==
    /\ At(w, "list")
    /\ job' = [job EXCEPT ![w].pc = "claim",
                 ![w].queue = {d \in Undelivered : d[1] = job[w].head}]
    /\ UNCHANGED <<rows, timer, outbox, process>>

(* claim_delivery: a conditional UPDATE. *)
Claim(w) ==
    /\ At(w, "claim")
    /\ \E d \in job[w].queue :
         LET rest == job[w].queue \ {d} IN
         IF d \in Undelivered
         THEN /\ delivery' = [delivery EXCEPT ![d] = "SENDING"]
              /\ job' = [job EXCEPT ![w].pc = "compose", ![w].queue = rest, ![w].cur = d]
         ELSE /\ job' = [job EXCEPT ![w].queue = rest]
              /\ UNCHANGED delivery
    /\ UNCHANGED <<rows, timer, groups, process>>

QueueDone(w) ==
    /\ At(w, "claim") /\ job[w].queue = {}
    /\ Finish(w)
    /\ UNCHANGED <<rows, timer, outbox, process>>

(* compose works from the source messages stored by now. *)
Compose(w) ==
    /\ At(w, "compose")
    /\ job' = [job EXCEPT ![w].pc = "send", ![w].parts = PartsOf(job[w].cur[1])]
    /\ UNCHANGED <<rows, timer, outbox, process>>

Send(w) ==
    LET d == job[w].cur
        posted == received' = [received EXCEPT ![d] = @ \cup job[w].parts]
    IN  /\ At(w, "send")
        /\ \/ /\ posted /\ Goto(w, "complete")
              /\ copies' = [copies EXCEPT ![d] = IF @ < CopyCap THEN @ + 1 ELSE @]
           \/ /\ "refused" \in Faults
              /\ UNCHANGED groups /\ Goto(w, "fail")
           \/ /\ "lost_reply" \in Faults
              /\ posted /\ Goto(w, "fail") /\ UNCHANGED copies
        /\ UNCHANGED <<rows, timer, delivery, process>>

Mark(w, step, status) ==
    /\ At(w, step)
    /\ delivery' = [delivery EXCEPT ![job[w].cur] = status]
    /\ job' = [job EXCEPT ![w].pc = "claim", ![w].cur = NoDelivery, ![w].parts = {}]
    /\ UNCHANGED <<rows, timer, groups, process>>

(* Mutant: the status of a result dispatch. *)
CompleteAsSent(w) == Mark(w, "complete", "SENT")
Complete(w) == Mark(w, "complete", "DELIVERED")

(* Mutant: a refused delivery is recorded as delivered. *)
FailAsDelivered(w) == Mark(w, "fail", "DELIVERED")
Fail(w) == Mark(w, "fail", "FAILED")

------------------------------------------------------------------------------
(* Crash and restart *)

(* Telegram hands over again an update the process had not confirmed (one, *)
(* if any: the ledger drops each by itself).                               *)
Crash ==
    /\ phase # "down" /\ crashes < MaxCrashes
    /\ phase' = "down" /\ crashes' = crashes + 1
    /\ job' = [w \in Workers |-> Idle]
    /\ timer' = [a \in Albums |-> NoPost]
    /\ \E unconfirmed \in {{}} \cup {{p} : p \in Posts} : queued' = queued \cup unconfirmed
    /\ UNCHANGED <<ledger, day, counter, number, partOf, rejected, outbox>>

(* process_pending_deliveries, before polling: rows in PENDING or FAILED,  *)
(* of every order.  (The query stops at 100 rows; a model has fewer.)      *)
Restart(w) ==
    /\ phase = "down" /\ phase' = "recovering"
    /\ job' = [job EXCEPT ![w].pc = "claim", ![w].queue = Undelivered]
    /\ UNCHANGED <<rows, timer, outbox, crashes>>

StartPolling ==
    /\ phase = "recovering"
    /\ \A w \in Workers : At(w, "idle")
    /\ phase' = "up"
    /\ UNCHANGED <<rows, timer, outbox, job, crashes>>

------------------------------------------------------------------------------

Handler(w) ==
    \/ Lookup(w) \/ Create(w) \/ AttachAfterRace(w) \/ Schedule(w)

Routing(w) ==
    \/ Route(w) \/ List(w) \/ Claim(w) \/ QueueDone(w) \/ Compose(w)
    \/ Send(w) \/ Complete(w) \/ Fail(w)

Next ==
    \/ \E w \in Workers :
         \/ Receive(w) \/ TimerFires(w) \/ Handler(w) \/ Routing(w) \/ Restart(w)
    \/ NextDay \/ Crash \/ StartPolling

Spec == Init /\ [][Next]_vars

(* Calls return, timers fire, the supervisor restarts a dead process. *)
FairSpec ==
    /\ Spec
    /\ \A w \in Workers : WF_vars(Handler(w) \/ Routing(w))
    /\ WF_vars(\E w \in Workers : TimerFires(w))
    /\ WF_vars(\E w \in Workers : Receive(w))
    /\ WF_vars(\E w \in Workers : Restart(w)) /\ WF_vars(StartPolling)

------------------------------------------------------------------------------
(* Properties *)

(* The orders of a day are numbered 1, 2, 3 ... without gap or repetition, *)
(* whatever was refused, redelivered, crashed or lost its race             *)
(* (CounterRepository.allocate, ingest).                                   *)
NumbersAreDense ==
    \A d \in 1 .. Days :
        LET ofDay == {h \in Heads : number[h][1] = d} IN
        /\ {number[h][2] : h \in ofDay} = 1 .. counter[d]
        /\ Cardinality(ofDay) = counter[d]

(* However its parts race, an album is one order, and every stored part    *)
(* belongs to it ("An album is one order").                                *)
AlbumIsOneOrder ==
    /\ \A g, h \in Heads : SameAlbum(g, h) => g = h
    /\ \A p \in Posts : partOf[p] # NoPost =>
          partOf[p] \in Heads /\ (partOf[p] = p \/ SameAlbum(partOf[p], p))

(* No order is sent to a work group again after a send that succeeded, by  *)
(* no race of timers, no redelivery and no crash (ensure_delivery,         *)
(* claim_delivery: a claimed row is never released).                       *)
DeliveredOnce == \A d \in Deliveries : copies[d] <= 1

(* A row is DELIVERED only when the group received the order's head.       *)
DeliveredMeansReceived ==
    \A d \in Deliveries : delivery[d] = "DELIVERED" => d[1] \in received[d]

(* As long as the process does not die, an order that a work group neither *)
(* received nor refused is in the hands of a task or of an album's timer,  *)
(* however timers replace each other and tasks take each other's rows      *)
(* (schedule_routing, _flush_album, process, claim_delivery).              *)
Carries(w, d) ==
    \/ job[w].pc \in {"schedule", "route", "list"} /\ job[w].head = d[1]
    \/ d \in job[w].queue \/ d = job[w].cur
NoOrderIsDropped ==
    crashes = 0 => \A d \in Deliveries : d[1] \in Heads =>
        \/ d[1] \in received[d] \/ delivery[d] = "FAILED"
        \/ \E w \in Workers : Carries(w, d)
        \/ \E a \in Albums : timer[a] = d[1]

(* As long as the process does not die every order reaches every group     *)
(* Telegram does not refuse it for (schedule_routing, _flush_album).       *)
Tried(h) ==
    \A g \in Groups : h \in received[<<h, g>>] \/ delivery[<<h, g>>] = "FAILED"
RoutedUnlessCrashed == []<>(crashes > 0 \/ \A h \in Heads : Tried(h))

===============================================================================
