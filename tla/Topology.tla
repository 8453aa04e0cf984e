------------------------------- MODULE Topology --------------------------------
(***************************************************************************)
(* Sources, work groups, result destinations and the routes between them:  *)
(* handlers/admin/chats.py and routing.py over repositories/chats.py.      *)
(* db.rows holds the four tables, db.last the last id of each.  Titles are *)
(* left out.                                                               *)
(***************************************************************************)
EXTENDS PanelTasks

CONSTANTS
    Chats,          \* telegram chats
    Topics,         \* forum topics, 0 being the chat itself
    Statuses        \* SUCCESS and FAILED

Kinds == {"source", "workgroup", "dest", "route"}
Ids == 1 .. 3 + MaxPresses
All == 0                \* no source: a destination of every source
Absent == [row |-> None]
ChatRow == [chat : Chats, topic : Topics, enabled : BOOLEAN]
RouteRow == [source : Ids, group : Ids, enabled : BOOLEAN]
DestRow == [status : Statuses, chat : Chats, topic : Topics, source : Ids \cup {All},
            enabled : BOOLEAN, required : BOOLEAN, primary : BOOLEAN, position : Nat]
Row(kind) == CASE kind = "route" -> RouteRow [] kind = "dest" -> DestRow [] OTHER -> ChatRow
RowsAreTyped(d) == \A k \in Kinds, i \in Ids :
    /\ d.rows[k][i] = Absent \/ d.rows[k][i] \in Row(k)
    /\ i > d.last[k] => d.rows[k][i] = Absent

Data == [kind : (Kinds \ {"route"}) \cup {None}, status : Statuses \cup {None}, entity : Ids \cup {0}]
NoData == [kind |-> None, status |-> None, entity |-> 0]

Has(d, k, i) == d.rows[k][i] # Absent
Dests(d, s) == {i \in Ids : Has(d, "dest", i) /\ d.rows["dest"][i].status = s}

(* Foreign keys and unique indexes of the tables. *)
Refers(d, k, row) ==
    /\ k = "route" => Has(d, "source", row.source) /\ Has(d, "workgroup", row.group)
    /\ k = "dest" /\ row.source # All => Has(d, "source", row.source)
Key(k, row) ==
    CASE k = "route" -> <<row.source, row.group>>
      [] k = "dest" -> <<row.status, row.chat, row.topic, row.source>>
      [] OTHER -> <<row.chat, row.topic>>
Clashes(d, k, i, row) ==
    \E j \in Ids \ {i} : Has(d, k, j) /\ Key(k, d.rows[k][j]) = Key(k, row)

TypeOK ==
    /\ RowsAreTyped(db)
    /\ asked.state \in {None, "chat_id", "topic"} /\ asked.data \in Data
    /\ \A t \in Tasks : tx[t] = NoTx \/ RowsAreTyped(tx[t].seen)
    /\ presses \in 0 .. MaxPresses
    /\ \A k \in Kinds, i \in Ids : Has(db, k, i) =>
          Refers(db, k, db.rows[k][i]) /\ ~Clashes(db, k, i, db.rows[k][i])

Dest(s, c, src, siblings) ==
    [status |-> s, chat |-> c, topic |-> 0, source |-> src, enabled |-> TRUE,
     required |-> TRUE, primary |-> siblings = {}, position |-> Cardinality(siblings)]

(* A source, a work group, and destinations of a status: two in one chat,  *)
(* the first for that source alone; or two in two chats, the first for     *)
(* that source or for all, and a third in a topic of the second chat.      *)
Init ==
    /\ \E c, e \in Chats, n \in Topics, s \in Statuses, src \in {All, 1} :
          /\ IF c = e THEN src # All ELSE n # 0
          /\ db = [last |-> [k \in Kinds |-> CASE k = "dest" -> IF c = e THEN 2 ELSE 3
                                             [] k = "route" -> 0 [] OTHER -> 1],
                   rows |-> [k \in Kinds |-> [i \in Ids |->
                      CASE k \in {"source", "workgroup"} /\ i = 1 ->
                              [chat |-> c, topic |-> 0, enabled |-> TRUE]
                        [] k = "dest" /\ i = 1 -> Dest(s, c, src, {})
                        [] k = "dest" /\ i = 2 -> Dest(s, e, All, {1})
                        [] k = "dest" /\ i = 3 /\ c # e -> [Dest(s, e, All, {1, 2}) EXCEPT !.topic = n]
                        [] OTHER -> Absent]]]
    /\ asked = [state |-> None, data |-> NoData]
    /\ tx = [t \in Tasks |-> NoTx]
    /\ presses = 0

------------------------------------------------------------------------------
(* Buttons, chat ids and topics *)

PressAdd(t) ==
    \/ \E k \in {"source", "workgroup"} : Press(t, "ask_chat", k, None)
    \/ \E s \in Statuses : Press(t, "ask_chat", "dest", s)
    \/ Press(t, "leave", None, None)
SendText(t) ==
    \/ \E c \in Chats : Answer(t, "chat_id", c)
    \/ \E n \in Topics : Answer(t, "topic", n)
PressChat(t) ==
    \E k \in Kinds \ {"route"}, i \in Ids : i <= db.last[k] /\
        \/ \E op \in {"toggle", "ask_topic"} : Press(t, op, k, i)
        \/ k = "dest" /\ \E op \in {"required", "primary"} : Press(t, op, k, i)
PressDelete(t) ==
    \E k \in Kinds \ {"route"}, i \in Ids : i <= db.last[k] /\ Press(t, "delete", k, i)
PressSource(t) ==
    \E src \in Ids \cup {All}, i \in Ids :
        src <= db.last["source"] /\ i <= db.last["dest"] /\ Press(t, "srcset", src, i)
PressRoute(t) ==
    \E op \in {"toggle", "delete"}, i \in Ids : i <= db.last["route"] /\ Press(t, op, "route", i)
PressCreate(t) ==
    \E src, g \in Ids :
        src <= db.last["source"] /\ g <= db.last["workgroup"] /\ Press(t, "create", src, g)

------------------------------------------------------------------------------
(* Handlers.  They write the columns that differ from what they read; an   *)
(* UPDATE of a row that is gone fails, and so does what a foreign key or a *)
(* unique index refuses.                                                   *)

With(d, k, i, row) == [d EXCEPT !.rows[k][i] = row]
Writable(k, i, row) == Has(db, k, i) /\ Refers(db, k, row) /\ ~Clashes(db, k, i, row)
Updated(k, i, row) == IF Writable(k, i, row) THEN With(db, k, i, row) ELSE db
Enabled(t, k, i) ==
    IF tx[t].seen.rows[k][i].enabled \/ ~Has(db, k, i) THEN db
    ELSE [db EXCEPT !.rows[k][i].enabled = TRUE]
Insertable(k, row) == Refers(db, k, row) /\ ~Clashes(db, k, 0, row)
Inserted(k, row) ==
    LET i == db.last[k] + 1
    IN  IF Insertable(k, row) THEN [With(db, k, i, row) EXCEPT !.last[k] = i] ELSE db

PromptAdd(t) ==
    /\ Handles(t, "ask_chat")
    /\ Ask(t, "chat_id", [asked.data EXCEPT !.kind = tx[t].on, !.status = tx[t].value])
PromptTopic(t) ==
    /\ Handles(t, "ask_topic")
    /\ \E s \in {None} \cup (IF tx[t].on = "dest" THEN Statuses ELSE {}) :
          Ask(t, "topic", [asked.data EXCEPT !.kind = tx[t].on, !.status = s,
                                             !.entity = tx[t].value])
Leave(t) == Handles(t, "leave") /\ CommitAndClear(t, db, NoData)

(* receive_chat_id: no FSM data stands for a source.  A row for the same   *)
(* chat is enabled again; the first destination of a status is primary.    *)
Kind(data) == IF data.kind = None THEN "source" ELSE data.kind
Matches(k, data, c, row) ==
    /\ row.chat = c /\ row.topic = 0
    /\ k = "dest" => row.status = data.status /\ row.source = All
Fresh(seen, k, data, c) ==
    IF k = "dest" THEN Dest(data.status, c, All, Dests(seen, data.status))
    ELSE [chat |-> c, topic |-> 0, enabled |-> TRUE]
ReceiveChatId(t) ==
    /\ Handles(t, "chat_id")
    /\ LET seen == tx[t].seen
           k == Kind(tx[t].data)
           row == Fresh(seen, k, tx[t].data, tx[t].value)
           found == {i \in Ids : Has(seen, k, i) /\ Matches(k, tx[t].data, tx[t].value, seen.rows[k][i])}
           typed == k = "dest" => tx[t].data.status # None
       IN  \/ ~typed /\ Refuse(t)
           \/ typed /\ found = {} /\ ~Insertable(k, row) /\ Refuse(t)
           \/ /\ typed /\ found = {} /\ Insertable(k, row)
              /\ CommitAndClear(t, Inserted(k, row), NoData)
           \/ \E i \in found :
                 \/ ~Has(db, k, i) /\ Refuse(t)
                 \/ /\ Has(db, k, i) \/ seen.rows[k][i].enabled
                    /\ CommitAndClear(t, Enabled(t, k, i), NoData)

(* receive_topic writes the topic and then lists the rows, for which a     *)
(* destination needs a status: the keyboard shown after a change of source *)
(* has none.  A row that was gone when it was read stays so.               *)
ReceiveTopic(t) ==
    /\ Handles(t, "topic")
    /\ LET k == tx[t].data.kind
           i == tx[t].data.entity
           listed == k # None /\ i # 0 /\ (k = "dest" => tx[t].data.status # None)
           kept == Has(tx[t].seen, k, i) => tx[t].seen.rows[k][i].topic = tx[t].value
           row == [db.rows[k][i] EXCEPT !.topic = tx[t].value]
       IN  \/ ~listed /\ Refuse(t)
           \/ listed /\ kept /\ CommitAndClear(t, db, NoData)
           \/ listed /\ ~kept /\ ~Writable(k, i, row) /\ Refuse(t)
           \/ listed /\ ~kept /\ Writable(k, i, row) /\ CommitAndClear(t, Updated(k, i, row), NoData)

(* What a button changes of the row its handler saw. *)
Pressed(t, op) == Handles(t, op) /\ Has(tx[t].seen, tx[t].on, tx[t].value)
Toggle(t) ==
    /\ Pressed(t, "toggle")
    /\ LET k == tx[t].on
           i == tx[t].value
       IN  Commit(t, IF ~Has(db, k, i) THEN db
                     ELSE [db EXCEPT !.rows[k][i].enabled = ~tx[t].seen.rows[k][i].enabled])
ToggleRequired(t) ==
    /\ Pressed(t, "required")
    /\ LET i == tx[t].value
       IN  Commit(t, IF ~Has(db, "dest", i) THEN db ELSE
              [db EXCEPT !.rows["dest"][i].required = ~tx[t].seen.rows["dest"][i].required])

(* set_primary writes the flags that differ from what it read, and fails   *)
(* if a row of these is gone.  Mutant: only its own.                       *)
ReflaggedOne(seen, i) == {i}
Reflagged(seen, i) ==
    {j \in Dests(seen, seen.rows["dest"][i].status) :
        seen.rows["dest"][j].primary # (j = i)}
Marked(d, flags, primaries) ==
    [d EXCEPT !.rows["dest"] = [j \in Ids |->
        IF j \in flags THEN [d.rows["dest"][j] EXCEPT !.primary = j \in primaries]
        ELSE d.rows["dest"][j]]]
MakePrimary(t) ==
    /\ Pressed(t, "primary")
    /\ LET i == tx[t].value
           flags == Reflagged(tx[t].seen, i)
       IN  Commit(t, IF \E j \in flags : ~Has(db, "dest", j) THEN db ELSE Marked(db, flags, {i}))

SetSource(t) ==
    /\ Handles(t, "srcset") /\ Has(tx[t].seen, "dest", tx[t].value)
    /\ LET i == tx[t].value
       IN  Commit(t, IF \/ ~Has(db, "dest", i)
                        \/ tx[t].seen.rows["dest"][i].source = tx[t].on THEN db
                     ELSE Updated("dest", i, [db.rows["dest"][i] EXCEPT !.source = tx[t].on]))

CreateRoute(t) ==
    /\ Handles(t, "create")
    /\ LET seen == tx[t].seen
           row == [source |-> tx[t].on, group |-> tx[t].value, enabled |-> TRUE]
           found == {i \in Ids : Has(seen, "route", i) /\ Key("route", seen.rows["route"][i]) = Key("route", row)}
       IN  \/ found = {} /\ Commit(t, Inserted("route", row))
           \/ \E i \in found : Commit(t, Enabled(t, "route", i))

(* A source takes its routes and its own destinations with it, a group its *)
(* routes (ON DELETE CASCADE).  Mutant: only itself.                       *)
GoneAlone(k, i, k2, j) == k2 = k /\ j = i
Gone(k, i, k2, j) ==
    \/ k2 = k /\ j = i
    \/ k2 = "route" /\ Has(db, "route", j) /\
          \/ k = "source" /\ db.rows["route"][j].source = i
          \/ k = "workgroup" /\ db.rows["route"][j].group = i
    \/ k2 = "dest" /\ k = "source" /\ Has(db, "dest", j) /\ db.rows["dest"][j].source = i
Without(k, i) ==
    [db EXCEPT !.rows = [k2 \in Kinds |-> [j \in Ids |->
        IF Gone(k, i, k2, j) THEN Absent ELSE db.rows[k2][j]]]]

(* The first of those that remain, by position and id.  Mutant: nobody.    *)
HeirsNone(seen, i) == {}
Heirs(seen, i) ==
    LET rows == seen.rows["dest"]
        rest == Dests(seen, rows[i].status) \ {i}
    IN  IF ~rows[i].primary THEN {}
        ELSE {j \in rest : \A n \in rest :
                \/ rows[j].position < rows[n].position
                \/ (rows[j].position = rows[n].position /\ j <= n)}
Delete(t) ==
    /\ Pressed(t, "delete")
    /\ LET k == tx[t].on
           i == tx[t].value
           heirs == IF k = "dest" THEN Heirs(tx[t].seen, i) ELSE {}
       IN  Commit(t, IF \E j \in heirs : ~Has(db, "dest", j) THEN db
                     ELSE Marked(Without(k, i), heirs, heirs))

NoSuchRow(t) ==
    \/ /\ \E op \in {"toggle", "required", "primary", "delete"} : Handles(t, op)
       /\ ~Has(tx[t].seen, tx[t].on, tx[t].value) /\ Refuse(t)
    \/ Handles(t, "srcset") /\ ~Has(tx[t].seen, "dest", tx[t].value) /\ Refuse(t)

Next == \E t \in Tasks :
    \/ PressAdd(t) \/ SendText(t) \/ PressChat(t) \/ PressDelete(t) \/ PressSource(t)
    \/ PressRoute(t) \/ PressCreate(t) \/ Open(t)
    \/ PromptAdd(t) \/ PromptTopic(t) \/ Leave(t) \/ ReceiveChatId(t) \/ ReceiveTopic(t)
    \/ Toggle(t) \/ ToggleRequired(t) \/ MakePrimary(t) \/ SetSource(t)
    \/ CreateRoute(t) \/ Delete(t) \/ NoSuchRow(t)

Spec == Init /\ [][Next]_panel

------------------------------------------------------------------------------
(* list_for_source: the destinations of a source that has enabled ones of  *)
(* its own are these, of any other the shared ones.  Mutant: both.         *)
DestinationsMixed(d, s, src) ==
    {i \in Dests(d, s) : d.rows["dest"][i].enabled /\ d.rows["dest"][i].source \in {src, All}}
DestinationsOf(d, s, src) ==
    LET enabled == {i \in Dests(d, s) : d.rows["dest"][i].enabled}
        own == {i \in enabled : d.rows["dest"][i].source = src}
    IN  IF own # {} THEN own ELSE {i \in enabled : d.rows["dest"][i].source = All}

(* No chat gets the result of an order twice ("mixing the two would send   *)
(* every result twice", repositories/chats.py:251), whatever is added,     *)
(* bound to another source or moved to another topic, in whichever order.  *)
ResultsGoOnce ==
    \A s \in Statuses, src \in Ids : \A i, j \in DestinationsOf(db, s, src) :
        i # j => LET a == db.rows["dest"][i]
                     b == db.rows["dest"][j]
                 IN  a.chat # b.chat \/ a.topic # b.topic

Primaries(d, s) == {i \in Dests(d, s) : d.rows["dest"][i].primary}

(* One destination of a status is primary (README.md:238), the one the     *)
(* PRIMARY_DESTINATION policy waits for.  Two are only when a handler      *)
(* commits between the read and the commit of another.                     *)
DoublesByRace ==
    (\E s \in Statuses : Cardinality(Primaries(db, s)) <= 1 /\ Cardinality(Primaries(db', s)) > 1)
    => OnlyByRace

(* And none is, although there are destinations, only by such a race or    *)
(* when the deletion of a source takes the primary one with it.            *)
HasPrimary(d, s) == Dests(d, s) # {} => Primaries(d, s) # {}
KeepsPrimary ==
    (\E s \in Statuses : HasPrimary(db, s) /\ ~HasPrimary(db', s)) =>
       OnlyByRace \/ \E t \in Tasks : Commits(t) /\ tx[t].op = "delete" /\ tx[t].on = "source"
===============================================================================
