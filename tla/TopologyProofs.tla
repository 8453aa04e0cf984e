---------------------------- MODULE TopologyProofs -----------------------------
(* Theorems about sources, work groups, destinations and routes, for every *)
(* number of chats, topics and handlers that overlap.                      *)
EXTENDS Panel, FiniteSetTheorems, WellFoundedInduction, TLAPS

(* The chat itself is one of its topics. *)
WholeChats == 0 \in Topics

------------------------------------------------------------------------------
(* The tables, and what the constraints of the database keep of them *)

AnyRow == {Chat!Absent} \cup Chat!ChatRow \cup Chat!RouteRow \cup Chat!DestRow
Store == [last : [Chat!Kinds -> Nat], rows : [Chat!Kinds -> [Chat!Ids -> AnyRow]]]
Bound(d) == \A k \in Chat!Kinds, i \in Chat!Ids : Chat!Has(d, k, i) =>
    Chat!Refers(d, k, d.rows[k][i]) /\ ~Chat!Clashes(d, k, i, d.rows[k][i])
TopologySound(d) == d \in Store /\ Chat!RowsAreTyped(d) /\ Bound(d)

Of(ops, on, value) ==
    [op : ops, on : on, value : value, open : BOOLEAN, data : Chat!Data, seen : Store]
Presses ==
    Of({"ask_chat"}, {"source", "workgroup"}, {Chat!None}) \cup Of({"ask_chat"}, {"dest"}, Statuses) \cup
    Of({"leave"}, {Chat!None}, {Chat!None}) \cup Of({"chat_id"}, {Chat!None}, Chats) \cup
    Of({"topic"}, {Chat!None}, Topics) \cup Of({"toggle", "delete"}, Chat!Kinds, Chat!Ids) \cup
    Of({"ask_topic"}, Chat!Kinds \ {"route"}, Chat!Ids) \cup Of({"required", "primary"}, {"dest"}, Chat!Ids) \cup
    Of({"srcset"}, Chat!Ids \cup {Chat!All}, Chat!Ids) \cup Of({"create"}, Chat!Ids, Chat!Ids)
States == {Chat!None, "chat_id", "topic"}

TopologyInv ==
    /\ TopologySound(db)
    /\ asked \in [state : States, data : Chat!Data]
    /\ tx \in [Tasks -> Presses \cup {Chat!NoTx}]
    /\ \A t \in Tasks : tx[t] # Chat!NoTx => TopologySound(tx[t].seen)
    /\ presses \in 0 .. MaxPresses

LEMMA Shapes ==
  /\ Chat!Row("route") = Chat!RouteRow /\ Chat!Row("dest") = Chat!DestRow
  /\ Chat!Row("source") = Chat!ChatRow /\ Chat!Row("workgroup") = Chat!ChatRow
  /\ \A k \in Chat!Kinds : Chat!Row(k) \subseteq AnyRow
  /\ \A k \in Chat!Kinds : Chat!Absent \notin Chat!Row(k)
  <1>1. Chat!Row("route") = Chat!RouteRow /\ Chat!Row("dest") = Chat!DestRow
        /\ Chat!Row("source") = Chat!ChatRow /\ Chat!Row("workgroup") = Chat!ChatRow
    BY DEF Chat!Row
  <1>2. Chat!Absent \notin Chat!ChatRow /\ Chat!Absent \notin Chat!RouteRow /\ Chat!Absent \notin Chat!DestRow
    BY DEF Chat!Absent, Chat!ChatRow, Chat!RouteRow, Chat!DestRow
  <1> QED
    BY <1>1, <1>2 DEF Chat!Kinds, AnyRow

LEMMA Keys ==
  ASSUME NEW row
  PROVE  /\ Chat!Key("route", row) = <<row.source, row.group>>
         /\ Chat!Key("dest", row) = <<row.status, row.chat, row.topic, row.source>>
         /\ Chat!Key("source", row) = <<row.chat, row.topic>>
         /\ Chat!Key("workgroup", row) = <<row.chat, row.topic>>
  BY DEF Chat!Key

(* What rows refer to is part of their keys. *)
LEMMA Sources ==
  ASSUME NEW k \in Chat!Kinds, NEW row \in Chat!Row(k)
  PROVE  /\ k = "route" => row.source \in Chat!Ids /\ row.group \in Chat!Ids
         /\ k = "dest" => row.source \in Chat!Ids \cup {Chat!All}
  <1>1. ASSUME k = "route" PROVE row.source \in Chat!Ids /\ row.group \in Chat!Ids
    <2>1. row \in Chat!RouteRow
      BY <1>1, Shapes
    <2> QED
      BY <2>1 DEF Chat!RouteRow
  <1>2. ASSUME k = "dest" PROVE row.source \in Chat!Ids \cup {Chat!All}
    <2>1. row \in Chat!DestRow
      BY <1>2, Shapes
    <2> QED
      BY <2>1 DEF Chat!DestRow
  <1> QED
    BY <1>1, <1>2

LEMMA SameKeys ==
  ASSUME NEW k \in Chat!Kinds, NEW a, NEW b, Chat!Key(k, a) = Chat!Key(k, b)
  PROVE  /\ k = "route" => a.source = b.source /\ a.group = b.group
         /\ k = "dest" => a.source = b.source
  <1>1. ASSUME k = "route" PROVE a.source = b.source /\ a.group = b.group
    <2>1. <<a.source, a.group>> = <<b.source, b.group>>
      BY <1>1, Keys
    <2> QED
      BY <2>1
  <1>2. ASSUME k = "dest" PROVE a.source = b.source
    <2>1. <<a.status, a.chat, a.topic, a.source>> = <<b.status, b.chat, b.topic, b.source>>
      BY <1>2, Keys
    <2> QED
      BY <2>1
  <1> QED
    BY <1>1, <1>2

(* Rows that keep their key, and what they refer to, keep the constraints. *)
LEMMA Touched ==
  ASSUME NEW d, TopologySound(d), NEW new \in Store, new.last = d.last,
         \A k \in Chat!Kinds, i \in Chat!Ids :
            IF Chat!Has(d, k, i)
            THEN /\ new.rows[k][i] \in Chat!Row(k)
                 /\ Chat!Key(k, new.rows[k][i]) = Chat!Key(k, d.rows[k][i])
            ELSE new.rows[k][i] = Chat!Absent
  PROVE  TopologySound(new)
  <1>1. \A k \in Chat!Kinds, i \in Chat!Ids : Chat!Has(new, k, i) <=> Chat!Has(d, k, i)
    BY Shapes DEF Chat!Has
  <1>2. Chat!RowsAreTyped(new)
    BY <1>1 DEF Chat!RowsAreTyped, Chat!Has, TopologySound
  <1>3. ASSUME NEW k \in Chat!Kinds, NEW i \in Chat!Ids, Chat!Has(new, k, i)
        PROVE  Chat!Refers(new, k, new.rows[k][i]) /\ ~Chat!Clashes(new, k, i, new.rows[k][i])
    <2>1. Chat!Has(d, k, i) /\ Chat!Refers(d, k, d.rows[k][i]) /\ ~Chat!Clashes(d, k, i, d.rows[k][i])
          /\ Chat!Key(k, new.rows[k][i]) = Chat!Key(k, d.rows[k][i])
      BY <1>1, <1>3 DEF TopologySound, Bound
    <2>2. ~Chat!Clashes(new, k, i, new.rows[k][i])
      BY <1>1, <2>1 DEF Chat!Clashes
    <2>3. d.rows[k][i] \in Chat!Row(k) /\ new.rows[k][i] \in Chat!Row(k)
      BY <2>1 DEF TopologySound, Chat!RowsAreTyped, Chat!Has
    <2>4. CASE k = "route"
      <3>1. new.rows[k][i].source = d.rows[k][i].source /\ new.rows[k][i].group = d.rows[k][i].group
        BY <2>1, <2>4, SameKeys
      <3>2. d.rows[k][i].source \in Chat!Ids /\ d.rows[k][i].group \in Chat!Ids
        BY <2>3, <2>4, Sources
      <3> QED
        BY <1>1, <2>1, <2>2, <2>4, <3>1, <3>2 DEF Chat!Refers, Chat!Kinds
    <2>5. CASE k = "dest"
      <3>1. new.rows[k][i].source = d.rows[k][i].source
        BY <2>1, <2>5, SameKeys
      <3>2. d.rows[k][i].source \in Chat!Ids \cup {Chat!All}
        BY <2>3, <2>5, Sources
      <3> QED
        BY <1>1, <2>1, <2>2, <2>5, <3>1, <3>2 DEF Chat!Refers, Chat!Kinds
    <2> QED
      BY <2>2, <2>4, <2>5 DEF Chat!Refers
  <1> QED
    BY <1>2, <1>3 DEF TopologySound, Bound

(* A row that is written, or added, as the constraints allow. *)
LEMMA Put ==
  ASSUME NEW d, TopologySound(d), NEW k \in Chat!Kinds, NEW i \in Chat!Ids, NEW row \in Chat!Row(k),
         Chat!Refers(d, k, row), ~Chat!Clashes(d, k, i, row), NEW last \in [Chat!Kinds -> Nat],
         \A k2 \in Chat!Kinds : d.last[k2] <= last[k2], i <= last[k],
         NEW new, new = [Chat!With(d, k, i, row) EXCEPT !.last = last]
  PROVE  TopologySound(new)
  <1>d. d \in Store
    BY DEF TopologySound
  <1>1. new.last = last /\ new.rows = [d.rows EXCEPT ![k] = [d.rows[k] EXCEPT ![i] = row]]
    BY <1>d DEF Chat!With, Store
  <1>2. \A k2 \in Chat!Kinds, j \in Chat!Ids :
           new.rows[k2][j] = IF k2 = k /\ j = i THEN row ELSE d.rows[k2][j]
    BY <1>d, <1>1 DEF Store
  <1>3. new \in Store
    <2>1. row \in AnyRow
      BY Shapes
    <2>2. new.rows \in [Chat!Kinds -> [Chat!Ids -> AnyRow]]
      <3>1. d.rows \in [Chat!Kinds -> [Chat!Ids -> AnyRow]]
        BY <1>d DEF Store
      <3>2. [d.rows[k] EXCEPT ![i] = row] \in [Chat!Ids -> AnyRow]
        BY <2>1, <3>1
      <3>3. \A f \in [Chat!Ids -> AnyRow] :
              [d.rows EXCEPT ![k] = f] \in [Chat!Kinds -> [Chat!Ids -> AnyRow]]
        BY <3>1
      <3> QED
        BY <1>1, <3>2, <3>3
    <2>3. new = [last |-> last, rows |-> new.rows]
      BY <1>d DEF Chat!With, Store
    <2> QED
      BY <2>2, <2>3 DEF Store
  <1>4. row # Chat!Absent
    BY Shapes
  <1>5. \A k2 \in Chat!Kinds, j \in Chat!Ids : Chat!Has(d, k2, j) => Chat!Has(new, k2, j)
    BY <1>2, <1>4 DEF Chat!Has
  <1>6. Chat!RowsAreTyped(new)
    <2> SUFFICES ASSUME NEW k2 \in Chat!Kinds, NEW j \in Chat!Ids
                 PROVE  /\ new.rows[k2][j] = Chat!Absent \/ new.rows[k2][j] \in Chat!Row(k2)
                        /\ j > new.last[k2] => new.rows[k2][j] = Chat!Absent
      BY DEF Chat!RowsAreTyped
    <2>1. /\ d.rows[k2][j] = Chat!Absent \/ d.rows[k2][j] \in Chat!Row(k2)
          /\ j > d.last[k2] => d.rows[k2][j] = Chat!Absent
      BY DEF TopologySound, Chat!RowsAreTyped
    <2>2. d.last[k2] \in Nat /\ last[k2] \in Nat /\ j \in Int /\ d.last[k2] <= last[k2]
      BY <1>d DEF Store, Chat!Ids
    <2>3. j > last[k2] => j > d.last[k2]
      BY <2>2
    <2> QED
      BY <1>1, <1>2, <2>1, <2>2, <2>3
  <1>7. ASSUME NEW k2 \in Chat!Kinds, NEW j \in Chat!Ids, Chat!Has(new, k2, j)
        PROVE  Chat!Refers(new, k2, new.rows[k2][j]) /\ ~Chat!Clashes(new, k2, j, new.rows[k2][j])
    <2>1. CASE k2 = k /\ j = i
      <3>1. Chat!Refers(new, k, row)
        <4>1. k = "route" => row.source \in Chat!Ids /\ row.group \in Chat!Ids
          BY Sources
        <4>2. k = "dest" => row.source \in Chat!Ids \cup {Chat!All}
          BY Sources
        <4> QED
          BY <1>5, <4>1, <4>2 DEF Chat!Refers, Chat!Kinds
      <3>2. ~Chat!Clashes(new, k, i, row)
        BY <1>2 DEF Chat!Clashes, Chat!Has
      <3> QED
        BY <1>2, <2>1, <3>1, <3>2
    <2>2. CASE ~(k2 = k /\ j = i)
      <3> DEFINE old == d.rows[k2][j]
      <3>1. new.rows[k2][j] = old /\ Chat!Has(d, k2, j)
        BY <1>2, <1>7, <2>2 DEF Chat!Has
      <3>2. old \in Chat!Row(k2) /\ Chat!Refers(d, k2, old) /\ ~Chat!Clashes(d, k2, j, old)
        BY <3>1 DEF TopologySound, Chat!RowsAreTyped, Bound, Chat!Has
      <3>3. Chat!Refers(new, k2, old)
        <4>1. k2 = "route" => old.source \in Chat!Ids /\ old.group \in Chat!Ids
          BY <3>2, Sources
        <4>2. k2 = "dest" => old.source \in Chat!Ids \cup {Chat!All}
          BY <3>2, Sources
        <4> QED
          BY <1>5, <3>2, <4>1, <4>2 DEF Chat!Refers, Chat!Kinds
      <3>4. ~Chat!Clashes(new, k2, j, old)
        <4> SUFFICES ASSUME NEW n \in Chat!Ids \ {j}, Chat!Has(new, k2, n),
                            Chat!Key(k2, new.rows[k2][n]) = Chat!Key(k2, old)
                     PROVE  FALSE
          BY DEF Chat!Clashes
        <4>1. CASE k2 = k /\ n = i
          BY <1>2, <2>2, <3>1, <4>1 DEF Chat!Clashes
        <4>2. CASE ~(k2 = k /\ n = i)
          BY <1>2, <3>2, <4>2 DEF Chat!Clashes, Chat!Has
        <4> QED
          BY <4>1, <4>2
      <3> QED
        BY <3>1, <3>3, <3>4
    <2> QED
      BY <2>1, <2>2
  <1> QED
    BY <1>3, <1>6, <1>7 DEF TopologySound, Bound

------------------------------------------------------------------------------
(* Tasks *)

LEMMA TopologyPressHolds ==
  ASSUME NEW x \in Presses
  PROVE  /\ x.op # Chat!None /\ x.seen \in Store /\ x.data \in Chat!Data
         /\ x.op = "ask_chat" =>
               \/ x.on \in {"source", "workgroup"} /\ x.value = Chat!None
               \/ x.on = "dest" /\ x.value \in Statuses
         /\ x.op = "chat_id" => x.value \in Chats
         /\ x.op = "topic" => x.value \in Topics
         /\ x.op \in {"toggle", "delete"} => x.on \in Chat!Kinds /\ x.value \in Chat!Ids
         /\ x.op = "ask_topic" => x.on \in Chat!Kinds \ {"route"} /\ x.value \in Chat!Ids
         /\ x.op \in {"required", "primary"} => x.on = "dest" /\ x.value \in Chat!Ids
         /\ x.op = "srcset" => x.on \in Chat!Ids \cup {Chat!All} /\ x.value \in Chat!Ids
         /\ x.op = "create" => x.on \in Chat!Ids /\ x.value \in Chat!Ids
  BY DEF Presses, Of, Chat!None

LEMMA TopologyHandling ==
  ASSUME TopologyInv, NEW t \in Tasks, NEW op, op # Chat!None, Chat!Handles(t, op)
  PROVE  tx[t] \in Presses /\ tx[t].op = op /\ TopologySound(tx[t].seen)
  BY DEF TopologyInv, Chat!Handles, Chat!NoTx

LEMMA TopologyNoPrompt == Chat!NoData \in Chat!Data /\ Chat!None \in States
  BY DEF Chat!NoData, Chat!Data, States

LEMMA TopologyPressInv ==
  ASSUME TopologyInv, NEW t \in Tasks, NEW op, NEW on, NEW value, Chat!Press(t, op, on, value),
         [op |-> op, on |-> on, value |-> value, open |-> FALSE,
          data |-> asked.data, seen |-> db] \in Presses
  PROVE  TopologyInv'
  BY PanelAssumption DEF TopologyInv, Chat!Press

LEMMA TopologyOpenInv ==
  ASSUME TopologyInv, NEW t \in Tasks, Chat!Open(t)
  PROVE  TopologyInv'
  <1>d. db \in Store /\ TopologySound(db) /\ asked.data \in Chat!Data /\ tx \in [Tasks -> Presses \cup {Chat!NoTx}]
    BY DEF TopologyInv, TopologySound
  <1>1. tx[t] \in Presses
    BY <1>d DEF Chat!Open
  <1> DEFINE now == [tx[t] EXCEPT !.open = TRUE, !.data = asked.data, !.seen = db]
  <1>2. now \in Presses /\ now.seen = db
    BY <1>d, <1>1 DEF Presses, Of
  <1>3. tx' = [tx EXCEPT ![t] = now]
    BY <1>d, <1>1 DEF Chat!Open, Presses, Of
  <1>4. \A v \in Tasks : tx'[v] # Chat!NoTx => TopologySound(tx'[v].seen)
    BY <1>d, <1>2, <1>3 DEF TopologyInv
  <1> QED
    BY <1>d, <1>2, <1>3, <1>4 DEF Chat!Open, TopologyInv

LEMMA TopologyEndInv ==
  ASSUME TopologyInv, NEW t \in Tasks, NEW new, TopologySound(new), db' = new, Chat!End(t),
         asked' \in [state : States, data : Chat!Data]
  PROVE  TopologyInv'
  BY DEF TopologyInv, Chat!End

LEMMA TopologyCommitInv ==
  ASSUME TopologyInv, NEW t \in Tasks, NEW new, TopologySound(new), Chat!Commit(t, new)
  PROVE  TopologyInv'
  BY TopologyEndInv DEF Chat!Commit, TopologyInv

LEMMA TopologyClearInv ==
  ASSUME TopologyInv, NEW t \in Tasks, NEW new, TopologySound(new), Chat!CommitAndClear(t, new, Chat!NoData)
  PROVE  TopologyInv'
  BY TopologyEndInv, TopologyNoPrompt DEF Chat!CommitAndClear

LEMMA TopologyAskInv ==
  ASSUME TopologyInv, NEW t \in Tasks, NEW state \in States, NEW data \in Chat!Data,
         Chat!Ask(t, state, data)
  PROVE  TopologyInv'
  BY TopologyEndInv DEF Chat!Ask, TopologyInv

LEMMA TopologyRefuseInv ==
  ASSUME TopologyInv, NEW t \in Tasks, Chat!Refuse(t)
  PROVE  TopologyInv'
  BY TopologyCommitInv DEF Chat!Refuse, TopologyInv

(* Cardinality as Topology sees it. *)
LEMMA SameCardinality == ASSUME NEW S PROVE Chat!Cardinality(S) = Cardinality(S)
  BY DEF Chat!Cardinality, Cardinality

LEMMA DestTyped ==
  ASSUME WholeChats, NEW s \in Statuses, NEW c \in Chats, NEW src \in Chat!Ids \cup {Chat!All},
         NEW siblings \in SUBSET Chat!Ids
  PROVE  Chat!Dest(s, c, src, siblings) \in Chat!DestRow
  <1>1. IsFiniteSet(Chat!Ids)
    BY PanelAssumption, FS_Interval DEF Chat!Ids
  <1>2. Cardinality(siblings) \in Nat
    BY <1>1, FS_Subset, FS_CardinalityType
  <1> QED
    BY <1>2, SameCardinality DEF Chat!Dest, Chat!DestRow, WholeChats

LEMMA TopologyInit == WholeChats /\ Chat!Init => TopologyInv
  <1> SUFFICES ASSUME WholeChats, Chat!Init PROVE TopologyInv
    OBVIOUS
  <1>1. PICK c \in Chats, e \in Chats, n \in Topics, s \in Statuses, src \in {Chat!All, 1} :
          /\ IF c = e THEN src # Chat!All ELSE n # 0
          /\ db = [last |-> [k \in Chat!Kinds |-> CASE k = "dest" -> IF c = e THEN 2 ELSE 3
                                                  [] k = "route" -> 0 [] OTHER -> 1],
                   rows |-> [k \in Chat!Kinds |-> [i \in Chat!Ids |->
                      CASE k \in {"source", "workgroup"} /\ i = 1 ->
                              [chat |-> c, topic |-> 0, enabled |-> TRUE]
                        [] k = "dest" /\ i = 1 -> Chat!Dest(s, c, src, {})
                        [] k = "dest" /\ i = 2 -> Chat!Dest(s, e, Chat!All, {1})
                        [] k = "dest" /\ i = 3 /\ c # e ->
                              [Chat!Dest(s, e, Chat!All, {1, 2}) EXCEPT !.topic = n]
                        [] OTHER -> Chat!Absent]]]
    BY DEF Chat!Init
  <1> DEFINE chat == [chat |-> c, topic |-> 0, enabled |-> TRUE]
             first == Chat!Dest(s, c, src, {})
             second == Chat!Dest(s, e, Chat!All, {1})
             third == [Chat!Dest(s, e, Chat!All, {1, 2}) EXCEPT !.topic = n]
  <1>2. 1 \in Chat!Ids /\ 2 \in Chat!Ids /\ 3 \in Chat!Ids /\ Chat!All \notin Chat!Ids
    BY PanelAssumption DEF Chat!Ids, Chat!All
  <1>3. /\ chat \in Chat!ChatRow /\ first \in Chat!DestRow /\ second \in Chat!DestRow
        /\ third \in Chat!DestRow
    <2>1. Chat!Dest(s, e, Chat!All, {1, 2}) \in Chat!DestRow
      BY <1>2, DestTyped DEF WholeChats
    <2> QED
      BY <1>2, <2>1, DestTyped DEF Chat!ChatRow, Chat!DestRow, WholeChats
  <1>4. \A k \in Chat!Kinds, i \in Chat!Ids :
          db.rows[k][i] = IF k \in {"source", "workgroup"} /\ i = 1 THEN chat
                          ELSE IF k = "dest" /\ i = 1 THEN first
                          ELSE IF k = "dest" /\ i = 2 THEN second
                          ELSE IF k = "dest" /\ i = 3 /\ c # e THEN third ELSE Chat!Absent
    BY <1>1
  <1>5. /\ db.last \in [Chat!Kinds -> Nat]
        /\ db.last = [k \in Chat!Kinds |-> IF k = "dest" THEN (IF c = e THEN 2 ELSE 3)
                                           ELSE IF k = "route" THEN 0 ELSE 1]
    BY <1>1
  <1>6. \A k \in Chat!Kinds, i \in Chat!Ids : db.rows[k][i] \in AnyRow
    BY <1>3, <1>4 DEF AnyRow
  <1>7. db \in Store
    <2>1. DOMAIN db.rows = Chat!Kinds /\ \A k \in Chat!Kinds : db.rows[k] \in [Chat!Ids -> AnyRow]
      BY <1>1, <1>6
    <2>2. db.rows \in [Chat!Kinds -> [Chat!Ids -> AnyRow]]
      BY <1>1, <2>1
    <2> QED
      BY <1>1, <1>5, <2>2 DEF Store
  <1>8. Chat!RowsAreTyped(db)
    <2> SUFFICES ASSUME NEW k \in Chat!Kinds, NEW i \in Chat!Ids
                 PROVE  /\ db.rows[k][i] = Chat!Absent \/ db.rows[k][i] \in Chat!Row(k)
                        /\ i > db.last[k] => db.rows[k][i] = Chat!Absent
      BY DEF Chat!RowsAreTyped
    <2>1. db.rows[k][i] = Chat!Absent \/ db.rows[k][i] \in Chat!Row(k)
      BY <1>3, <1>4, Shapes
    <2> QED
      BY <1>4, <1>5, <2>1
  <1>9. Bound(db)
    <2>1. Chat!Has(db, "source", 1)
      BY <1>2, <1>3, <1>4, Shapes DEF Chat!Has, Chat!Kinds
    <2>2. /\ first.source = src /\ second.source = Chat!All /\ third.source = Chat!All
          /\ first.chat = c /\ second.chat = e /\ third.chat = e
          /\ second.topic = 0 /\ third.topic = n
      BY DEF Chat!Dest
    <2>k. ASSUME NEW a \in Chat!DestRow, NEW b \in Chat!DestRow,
                 a.chat # b.chat \/ a.source # b.source \/ a.topic # b.topic
          PROVE  Chat!Key("dest", a) # Chat!Key("dest", b)
      <3> SUFFICES ASSUME Chat!Key("dest", a) = Chat!Key("dest", b) PROVE FALSE
        OBVIOUS
      <3>1. <<a.status, a.chat, a.topic, a.source>> = <<b.status, b.chat, b.topic, b.source>>
        BY Keys
      <3> QED
        BY <2>k, <3>1
    <2>3. Chat!Key("dest", first) # Chat!Key("dest", second)
      BY <1>1, <1>3, <2>2, <2>k
    <2>7. c # e => /\ Chat!Key("dest", first) # Chat!Key("dest", third)
                   /\ Chat!Key("dest", second) # Chat!Key("dest", third)
      BY <1>1, <1>3, <2>2, <2>k
    <2> SUFFICES ASSUME NEW k \in Chat!Kinds, NEW i \in Chat!Ids, Chat!Has(db, k, i)
                 PROVE  Chat!Refers(db, k, db.rows[k][i]) /\ ~Chat!Clashes(db, k, i, db.rows[k][i])
      BY DEF Bound
    <2>4. CASE k \in {"source", "workgroup"}
      BY <1>4, <2>4 DEF Chat!Refers, Chat!Clashes, Chat!Has
    <2>5. CASE k = "dest"
      <3> HIDE DEF first, second, third
      <3>0. \A j \in Chat!Ids : db.rows["dest"][j] =
              IF j = 1 THEN first ELSE IF j = 2 THEN second
              ELSE IF j = 3 /\ c # e THEN third ELSE Chat!Absent
        BY <1>4 DEF Chat!Kinds
      <3>1. \A j \in Chat!Ids : Chat!Has(db, "dest", j) =>
              \/ j = 1 /\ db.rows["dest"][j] = first
              \/ j = 2 /\ db.rows["dest"][j] = second
              \/ j = 3 /\ c # e /\ db.rows["dest"][j] = third
        BY <3>0 DEF Chat!Has
      <3>2. Chat!Refers(db, k, db.rows[k][i])
        BY <2>1, <2>2, <2>5, <3>1 DEF Chat!Refers
      <3>3. ASSUME NEW j \in Chat!Ids \ {i}, Chat!Has(db, "dest", j)
            PROVE  Chat!Key("dest", db.rows["dest"][j]) # Chat!Key("dest", db.rows["dest"][i])
        BY <2>3, <2>5, <2>7, <3>1, <3>3
      <3> QED
        BY <2>5, <3>2, <3>3 DEF Chat!Clashes
    <2>6. CASE k = "route"
      BY <1>4, <2>6 DEF Chat!Has
    <2> QED
      BY <2>4, <2>5, <2>6 DEF Chat!Kinds
  <1> QED
    BY <1>7, <1>8, <1>9, TopologyNoPrompt, PanelAssumption DEF Chat!Init, TopologyInv, TopologySound

------------------------------------------------------------------------------
(* What handlers make of the tables *)

LEMMA Typed ==
  ASSUME NEW d, TopologySound(d), NEW k \in Chat!Kinds, NEW i \in Chat!Ids
  PROVE  IF Chat!Has(d, k, i) THEN d.rows[k][i] \in Chat!Row(k) ELSE d.rows[k][i] = Chat!Absent
  BY DEF TopologySound, Chat!RowsAreTyped, Chat!Has

(* A row without its flags: a change of them touches no key. *)
LEMMA Switched ==
  ASSUME NEW d, TopologySound(d), NEW k \in Chat!Kinds, NEW i \in Chat!Ids, Chat!Has(d, k, i), NEW on \in BOOLEAN
  PROVE  /\ TopologySound([d EXCEPT !.rows[k][i].enabled = on])
         /\ k = "dest" => TopologySound([d EXCEPT !.rows[k][i].required = on])
  <1>d. d \in Store /\ d.rows[k][i] \in Chat!Row(k)
    BY DEF TopologySound, Chat!RowsAreTyped, Chat!Has
  <1>1. ASSUME NEW row \in Chat!Row(k), Chat!Key(k, row) = Chat!Key(k, d.rows[k][i])
        PROVE  TopologySound([d EXCEPT !.rows[k][i] = row])
    <2> DEFINE new == [d EXCEPT !.rows[k][i] = row]
    <2>1. row \in AnyRow
      BY Shapes
    <2>2. new \in Store /\ new.last = d.last
      BY <1>d, <2>1 DEF Store
    <2>3. \A k2 \in Chat!Kinds, j \in Chat!Ids :
             new.rows[k2][j] = IF k2 = k /\ j = i THEN row ELSE d.rows[k2][j]
      BY <1>d DEF Store
    <2>4. \A k2 \in Chat!Kinds, j \in Chat!Ids :
             IF Chat!Has(d, k2, j) THEN /\ new.rows[k2][j] \in Chat!Row(k2)
                                        /\ Chat!Key(k2, new.rows[k2][j]) = Chat!Key(k2, d.rows[k2][j])
             ELSE new.rows[k2][j] = Chat!Absent
      BY <1>1, <2>3, Typed
    <2> QED
      BY <2>2, <2>4, Touched
  <1> DEFINE e == [d.rows[k][i] EXCEPT !.enabled = on]
             r == [d.rows[k][i] EXCEPT !.required = on]
  <1>2. e \in Chat!Row(k) /\ Chat!Key(k, e) = Chat!Key(k, d.rows[k][i])
    <2>1. CASE k = "route"
      <3>1. d.rows[k][i] \in Chat!RouteRow
        BY <1>d, <2>1, Shapes
      <3>2. e \in Chat!RouteRow /\ e.source = d.rows[k][i].source /\ e.group = d.rows[k][i].group
        BY <3>1 DEF Chat!RouteRow
      <3> QED
        BY <2>1, <3>2, Shapes, Keys
    <2>2. CASE k = "dest"
      <3>1. d.rows[k][i] \in Chat!DestRow
        BY <1>d, <2>2, Shapes
      <3>2. /\ e \in Chat!DestRow /\ e.status = d.rows[k][i].status /\ e.chat = d.rows[k][i].chat
            /\ e.topic = d.rows[k][i].topic /\ e.source = d.rows[k][i].source
        BY <3>1 DEF Chat!DestRow
      <3> QED
        BY <2>2, <3>2, Shapes, Keys
    <2>3. CASE k \in {"source", "workgroup"}
      <3>1. d.rows[k][i] \in Chat!ChatRow
        BY <1>d, <2>3, Shapes
      <3>2. e \in Chat!ChatRow /\ e.chat = d.rows[k][i].chat /\ e.topic = d.rows[k][i].topic
        BY <3>1 DEF Chat!ChatRow
      <3> QED
        BY <2>3, <3>2, Shapes, Keys
    <2> QED
      BY <2>1, <2>2, <2>3 DEF Chat!Kinds
  <1>3. ASSUME k = "dest" PROVE r \in Chat!Row(k) /\ Chat!Key(k, r) = Chat!Key(k, d.rows[k][i])
    <2>1. d.rows[k][i] \in Chat!DestRow
      BY <1>d, <1>3, Shapes
    <2>2. /\ r \in Chat!DestRow /\ r.status = d.rows[k][i].status /\ r.chat = d.rows[k][i].chat
          /\ r.topic = d.rows[k][i].topic /\ r.source = d.rows[k][i].source
      BY <2>1 DEF Chat!DestRow
    <2> QED
      BY <1>3, <2>2, Shapes, Keys
  <1>4. /\ [d EXCEPT !.rows[k][i].enabled = on] = [d EXCEPT !.rows[k][i] = e]
        /\ [d EXCEPT !.rows[k][i].required = on] = [d EXCEPT !.rows[k][i] = r]
    BY <1>d DEF Store
  <1> QED
    BY <1>1, <1>2, <1>3, <1>4

LEMMA MarkedSound ==
  ASSUME NEW d, TopologySound(d), NEW flags \in SUBSET Chat!Ids, NEW primaries,
         \A j \in flags : Chat!Has(d, "dest", j)
  PROVE  TopologySound(Chat!Marked(d, flags, primaries))
  <1>d. d \in Store /\ "dest" \in Chat!Kinds
    BY DEF TopologySound, Chat!Kinds
  <1> DEFINE new == Chat!Marked(d, flags, primaries)
             Mark(j) == [d.rows["dest"][j] EXCEPT !.primary = j \in primaries]
  <1>1. ASSUME NEW j \in flags
        PROVE  Mark(j) \in Chat!DestRow /\ Chat!Key("dest", Mark(j)) = Chat!Key("dest", d.rows["dest"][j])
    <2>1. d.rows["dest"][j] \in Chat!DestRow
      BY <1>1, <1>d, Shapes DEF TopologySound, Chat!RowsAreTyped, Chat!Has
    <2>2. (j \in primaries) \in BOOLEAN
      OBVIOUS
    <2>3. /\ Mark(j).status = d.rows["dest"][j].status /\ Mark(j).chat = d.rows["dest"][j].chat
          /\ Mark(j).topic = d.rows["dest"][j].topic /\ Mark(j).source = d.rows["dest"][j].source
      BY <2>1 DEF Chat!DestRow
    <2>4. Mark(j) \in Chat!DestRow
      BY <2>1, <2>2 DEF Chat!DestRow
    <2> QED
      BY <2>3, <2>4, Keys
  <1>2. \A k \in Chat!Kinds, j \in Chat!Ids :
           new.rows[k][j] = IF k = "dest" /\ j \in flags THEN Mark(j) ELSE d.rows[k][j]
    BY <1>d DEF Chat!Marked, Store
  <1>3. new \in Store /\ new.last = d.last
    <2>1. new.last = d.last /\ new.rows = [d.rows EXCEPT !["dest"] =
             [j \in Chat!Ids |-> IF j \in flags THEN Mark(j) ELSE d.rows["dest"][j]]]
      BY <1>d DEF Chat!Marked, Store
    <2>2. new.rows["dest"] \in [Chat!Ids -> AnyRow]
      BY <1>d, <1>1, <2>1 DEF Store, AnyRow
    <2>3. new.rows \in [Chat!Kinds -> [Chat!Ids -> AnyRow]]
      BY <1>d, <2>1, <2>2 DEF Store
    <2>4. new = [last |-> new.last, rows |-> new.rows]
      <3>1. \A rows : [d EXCEPT !.rows = rows] = [last |-> d.last, rows |-> rows]
        BY <1>d DEF Store
      <3>2. new = [d EXCEPT !.rows = new.rows]
        BY <2>1, <3>1 DEF Chat!Marked
      <3> QED
        BY <2>1, <3>1, <3>2
    <2> QED
      BY <1>d, <2>1, <2>3, <2>4 DEF Store
  <1>4. \A k \in Chat!Kinds, j \in Chat!Ids :
           IF Chat!Has(d, k, j) THEN /\ new.rows[k][j] \in Chat!Row(k)
                                     /\ Chat!Key(k, new.rows[k][j]) = Chat!Key(k, d.rows[k][j])
           ELSE new.rows[k][j] = Chat!Absent
    <2> SUFFICES ASSUME NEW k \in Chat!Kinds, NEW j \in Chat!Ids
                 PROVE  IF Chat!Has(d, k, j) THEN /\ new.rows[k][j] \in Chat!Row(k)
                                                  /\ Chat!Key(k, new.rows[k][j]) = Chat!Key(k, d.rows[k][j])
                        ELSE new.rows[k][j] = Chat!Absent
      OBVIOUS
    <2>1. CASE k = "dest" /\ j \in flags
      <3>1. new.rows[k][j] = Mark(j)
        BY <1>2, <2>1
      <3>2. Mark(j) \in Chat!Row("dest")
        BY <1>1, <2>1, Shapes
      <3> QED
        BY <1>1, <2>1, <3>1, <3>2
    <2>2. CASE ~(k = "dest" /\ j \in flags)
      BY <1>2, <2>2, Typed
    <2> QED
      BY <2>1, <2>2
  <1> QED
    BY <1>3, <1>4, Touched

(* The cascade leaves no row that refers to one that is gone. *)
LEMMA WithoutSound ==
  ASSUME TopologySound(db), NEW k \in Chat!Kinds, NEW i \in Chat!Ids
  PROVE  TopologySound(Chat!Without(k, i))
  <1>d. db \in Store
    BY DEF TopologySound
  <1> DEFINE new == Chat!Without(k, i)
  <1>1. \A k2 \in Chat!Kinds, j \in Chat!Ids :
           new.rows[k2][j] = IF Chat!Gone(k, i, k2, j) THEN Chat!Absent ELSE db.rows[k2][j]
    BY <1>d DEF Chat!Without, Store
  <1>2. new \in Store /\ new.last = db.last
    BY <1>d DEF Chat!Without, Store, AnyRow
  <1>3. Chat!RowsAreTyped(new)
    BY <1>1, <1>2 DEF Chat!RowsAreTyped, TopologySound
  <1>4. ASSUME NEW k2 \in Chat!Kinds, NEW j \in Chat!Ids, Chat!Has(new, k2, j)
        PROVE  Chat!Refers(new, k2, new.rows[k2][j]) /\ ~Chat!Clashes(new, k2, j, new.rows[k2][j])
    <2> DEFINE row == db.rows[k2][j]
    <2>1. ~Chat!Gone(k, i, k2, j) /\ new.rows[k2][j] = row /\ Chat!Has(db, k2, j)
      BY <1>1, <1>4 DEF Chat!Has
    <2>2. row \in Chat!Row(k2) /\ Chat!Refers(db, k2, row) /\ ~Chat!Clashes(db, k2, j, row)
      BY <2>1 DEF TopologySound, Chat!RowsAreTyped, Bound, Chat!Has
    <2>3. ~Chat!Clashes(new, k2, j, row)
      BY <1>1, <2>2 DEF Chat!Clashes, Chat!Has
    <2>4. CASE k2 = "route"
      <3>1. row.source \in Chat!Ids /\ row.group \in Chat!Ids
        BY <2>2, <2>4, Sources
      <3>2. Chat!Has(db, "source", row.source) /\ Chat!Has(db, "workgroup", row.group)
        BY <2>2, <2>4 DEF Chat!Refers
      <3>3. ~Chat!Gone(k, i, "source", row.source) /\ ~Chat!Gone(k, i, "workgroup", row.group)
        BY <2>1, <2>4 DEF Chat!Gone
      <3> QED
        BY <1>1, <2>1, <2>3, <2>4, <3>1, <3>2, <3>3 DEF Chat!Refers, Chat!Has, Chat!Kinds
    <2>5. CASE k2 = "dest"
      <3>1. row.source \in Chat!Ids \cup {Chat!All}
        BY <2>2, <2>5, Sources
      <3>2. row.source # Chat!All => Chat!Has(db, "source", row.source) /\ ~Chat!Gone(k, i, "source", row.source)
        BY <2>1, <2>2, <2>5 DEF Chat!Refers, Chat!Gone
      <3> QED
        BY <1>1, <2>1, <2>3, <2>5, <3>1, <3>2 DEF Chat!Refers, Chat!Has, Chat!Kinds
    <2> QED
      BY <2>1, <2>3, <2>4, <2>5 DEF Chat!Refers
  <1> QED
    BY <1>2, <1>3, <1>4 DEF TopologySound, Bound

LEMMA UpdatedSound ==
  ASSUME TopologySound(db), NEW k \in Chat!Kinds, NEW i \in Chat!Ids, NEW row \in Chat!Row(k)
  PROVE  TopologySound(Chat!Updated(k, i, row))
  <1>d. db \in Store
    BY DEF TopologySound
  <1>1. CASE Chat!Writable(k, i, row)
    <2>1. i <= db.last[k]
      BY <1>1, <1>d DEF Chat!Writable, Chat!Has, TopologySound, Chat!RowsAreTyped, Store, Chat!Ids
    <2>2. Chat!With(db, k, i, row) = [Chat!With(db, k, i, row) EXCEPT !.last = db.last]
      BY <1>d DEF Chat!With, Store
    <2>3. db.last \in [Chat!Kinds -> Nat] /\ \A k2 \in Chat!Kinds : db.last[k2] <= db.last[k2]
      BY <1>d DEF Store
    <2> QED
      BY <1>1, <2>1, <2>2, <2>3, Put DEF Chat!Writable, Chat!Updated
  <1> QED
    BY <1>1 DEF Chat!Updated

LEMMA InsertedSound ==
  ASSUME TopologySound(db), NEW k \in Chat!Kinds, NEW row \in Chat!Row(k)
  PROVE  TopologySound(Chat!Inserted(k, row))
  <1> DEFINE i == db.last[k] + 1
             last == [db.last EXCEPT ![k] = i]
             new == [Chat!With(db, k, i, row) EXCEPT !.last = last]
  <1>d. db \in Store /\ i \in Nat /\ 0 \notin Chat!Ids
    BY DEF TopologySound, Store, Chat!Ids
  <1>1. [Chat!With(db, k, i, row) EXCEPT !.last[k] = i] = new
    BY <1>d DEF Chat!With, Store
  <1>2. /\ last \in [Chat!Kinds -> Nat] /\ i <= last[k]
        /\ \A k2 \in Chat!Kinds : db.last[k2] <= last[k2]
    BY <1>d DEF Store
  <1>3. ASSUME Chat!Refers(db, k, row), ~Chat!Clashes(db, k, 0, row) PROVE TopologySound(new)
    <2>1. CASE i \in Chat!Ids
      <3>1. ~Chat!Clashes(db, k, i, row)
        BY <1>3, <1>d DEF Chat!Clashes
      <3> QED
        BY <1>2, <1>3, <2>1, <3>1, Put
    <2>2. CASE i \notin Chat!Ids
      <3>1. [db.rows[k] EXCEPT ![i] = row] = db.rows[k]
        BY <1>d, <2>2 DEF Store
      <3>2. new.rows = db.rows /\ new.last = last /\ new \in Store
        <4>1. Chat!With(db, k, i, row) =
                     [db EXCEPT !.rows = [db.rows EXCEPT ![k] = [db.rows[k] EXCEPT ![i] = row]]]
          BY DEF Chat!With
        <4>2. [db.rows EXCEPT ![k] = [db.rows[k] EXCEPT ![i] = row]] = db.rows
          BY <1>d, <3>1 DEF Store
        <4>3. Chat!With(db, k, i, row) = db
          BY <1>d, <4>1, <4>2 DEF Store
        <4> QED
          BY <1>d, <1>2, <4>3 DEF Store
      <3>3. Chat!RowsAreTyped(new)
        BY <1>d, <1>2, <3>2 DEF TopologySound, Chat!RowsAreTyped, Store, Chat!Ids
      <3>4. Bound(new)
        BY <3>2 DEF TopologySound, Bound, Chat!Has, Chat!Refers, Chat!Clashes
      <3> QED
        BY <3>2, <3>3, <3>4 DEF TopologySound
    <2> QED
      BY <2>1, <2>2
  <1> QED
    BY <1>1, <1>3 DEF Chat!Inserted, Chat!Insertable

------------------------------------------------------------------------------
(* Steps *)

LEMMA TopologyButtonStep ==
  ASSUME TopologyInv, NEW t \in Tasks,
         \/ Chat!PressAdd(t) \/ Chat!SendText(t) \/ Chat!PressChat(t) \/ Chat!PressDelete(t) \/ Chat!PressSource(t)
         \/ Chat!PressRoute(t) \/ Chat!PressCreate(t)
  PROVE  TopologyInv'
  <1> USE DEF Presses, Of
  <1>d. db \in Store /\ asked.data \in Chat!Data
    BY DEF TopologyInv, TopologySound
  <1>1. ASSUME NEW k \in {"source", "workgroup"}, Chat!Press(t, "ask_chat", k, Chat!None) PROVE TopologyInv'
    BY <1>d, <1>1, TopologyPressInv
  <1>2. ASSUME NEW s \in Statuses, Chat!Press(t, "ask_chat", "dest", s) PROVE TopologyInv'
    BY <1>d, <1>2, TopologyPressInv
  <1>3. ASSUME Chat!Press(t, "leave", Chat!None, Chat!None) PROVE TopologyInv'
    BY <1>d, <1>3, TopologyPressInv
  <1>4. ASSUME NEW c \in Chats, Chat!Press(t, "chat_id", Chat!None, c) PROVE TopologyInv'
    BY <1>d, <1>4, TopologyPressInv
  <1>5. ASSUME NEW n \in Topics, Chat!Press(t, "topic", Chat!None, n) PROVE TopologyInv'
    BY <1>d, <1>5, TopologyPressInv
  <1>6. ASSUME NEW op \in {"toggle", "delete"}, NEW k \in Chat!Kinds, NEW i \in Chat!Ids, Chat!Press(t, op, k, i)
        PROVE  TopologyInv'
    BY <1>d, <1>6, TopologyPressInv
  <1>7. ASSUME NEW k \in Chat!Kinds \ {"route"}, NEW i \in Chat!Ids, Chat!Press(t, "ask_topic", k, i)
        PROVE  TopologyInv'
    BY <1>d, <1>7, TopologyPressInv
  <1>8. ASSUME NEW op \in {"required", "primary"}, NEW i \in Chat!Ids, Chat!Press(t, op, "dest", i)
        PROVE  TopologyInv'
    BY <1>d, <1>8, TopologyPressInv
  <1>9. ASSUME NEW src \in Chat!Ids \cup {Chat!All}, NEW i \in Chat!Ids, Chat!Press(t, "srcset", src, i)
        PROVE  TopologyInv'
    BY <1>d, <1>9, TopologyPressInv
  <1>10. ASSUME NEW src \in Chat!Ids, NEW g \in Chat!Ids, Chat!Press(t, "create", src, g) PROVE TopologyInv'
    BY <1>d, <1>10, TopologyPressInv
  <1>11. CASE Chat!PressAdd(t)
    BY <1>11, <1>1, <1>2, <1>3 DEF Chat!PressAdd
  <1>12. CASE Chat!SendText(t)
    BY <1>12, <1>4, <1>5 DEF Chat!SendText, Chat!Answer
  <1>13. CASE Chat!PressChat(t)
    BY <1>13, <1>6, <1>7, <1>8 DEF Chat!PressChat
  <1>14. CASE Chat!PressDelete(t)
    BY <1>14, <1>6 DEF Chat!PressDelete
  <1>15. CASE Chat!PressRoute(t)
    BY <1>15, <1>6 DEF Chat!PressRoute, Chat!Kinds
  <1> QED
    BY <1>9, <1>10, <1>11, <1>12, <1>13, <1>14, <1>15 DEF Chat!PressSource, Chat!PressCreate

LEMMA TopologyPromptStep ==
  ASSUME TopologyInv, NEW t \in Tasks, Chat!PromptAdd(t) \/ Chat!PromptTopic(t) \/ Chat!Leave(t)
  PROVE  TopologyInv'
  <1>d. asked.data \in Chat!Data /\ TopologySound(db)
    BY DEF TopologyInv
  <1>1. CASE Chat!PromptAdd(t)
    <2> DEFINE data == [asked.data EXCEPT !.kind = tx[t].on, !.status = tx[t].value]
    <2>1. /\ tx[t].on \in {"source", "workgroup", "dest"}
          /\ tx[t].value \in Statuses \cup {Chat!None}
      BY <1>1, TopologyHandling, TopologyPressHolds DEF Chat!PromptAdd, Chat!None
    <2>2. data \in Chat!Data
      BY <1>d, <2>1 DEF Chat!Data, Chat!Kinds
    <2> QED
      BY <1>1, <2>2, TopologyAskInv DEF Chat!PromptAdd, States
  <1>2. CASE Chat!PromptTopic(t)
    <2>1. tx[t].on \in Chat!Kinds \ {"route"} /\ tx[t].value \in Chat!Ids
      BY <1>2, TopologyHandling, TopologyPressHolds DEF Chat!PromptTopic, Chat!None
    <2>2. PICK s \in {Chat!None} \cup Statuses :
             Chat!Ask(t, "topic", [asked.data EXCEPT !.kind = tx[t].on, !.status = s,
                                                     !.entity = tx[t].value])
      BY <1>2 DEF Chat!PromptTopic
    <2>3. [asked.data EXCEPT !.kind = tx[t].on, !.status = s, !.entity = tx[t].value] \in Chat!Data
      BY <1>d, <2>1 DEF Chat!Data
    <2> QED
      BY <2>2, <2>3, TopologyAskInv DEF States
  <1> QED
    BY <1>1, <1>2, <1>d, TopologyClearInv DEF Chat!Leave

(* What is inserted is a row of its table. *)
LEMMA FreshTyped ==
  ASSUME WholeChats, NEW seen, NEW data \in Chat!Data, NEW c \in Chats,
         Chat!Kind(data) = "dest" => data.status # Chat!None
  PROVE  Chat!Kind(data) \in Chat!Kinds /\ Chat!Fresh(seen, Chat!Kind(data), data, c) \in Chat!Row(Chat!Kind(data))
  <1>1. Chat!Kind(data) \in {"source", "workgroup", "dest"}
    BY DEF Chat!Kind, Chat!Data, Chat!Kinds
  <1>2. CASE Chat!Kind(data) = "dest"
    <2>1. data.status \in Statuses
      BY <1>2 DEF Chat!Data
    <2>2. Chat!Dests(seen, data.status) \in SUBSET Chat!Ids
      BY DEF Chat!Dests
    <2>3. Chat!Fresh(seen, "dest", data, c) \in Chat!DestRow
      BY <2>1, <2>2, DestTyped DEF Chat!Fresh
    <2> QED
      BY <1>2, <2>3, Shapes DEF Chat!Kinds
  <1>3. CASE Chat!Kind(data) # "dest"
    <2>1. Chat!Fresh(seen, Chat!Kind(data), data, c) \in Chat!ChatRow
      BY <1>3 DEF Chat!Fresh, Chat!ChatRow, WholeChats
    <2> QED
      BY <1>1, <1>3, <2>1, Shapes DEF Chat!Kinds
  <1> QED
    BY <1>2, <1>3

LEMMA EnabledSound ==
  ASSUME TopologySound(db), NEW t, NEW k \in Chat!Kinds, NEW i \in Chat!Ids
  PROVE  TopologySound(Chat!Enabled(t, k, i))
  BY Switched DEF Chat!Enabled

LEMMA TextStep ==
  ASSUME WholeChats, TopologyInv, NEW t \in Tasks, Chat!ReceiveChatId(t) \/ Chat!ReceiveTopic(t)
  PROVE  TopologyInv'
  <1>d. TopologySound(db)
    BY DEF TopologyInv
  <1>1. CASE Chat!ReceiveChatId(t)
    <2> DEFINE k == Chat!Kind(tx[t].data)
               new == Chat!Inserted(k, Chat!Fresh(tx[t].seen, k, tx[t].data, tx[t].value))
    <2>1. tx[t].data \in Chat!Data /\ tx[t].value \in Chats
      BY <1>1, TopologyHandling, TopologyPressHolds DEF Chat!ReceiveChatId, Chat!None
    <2>2. k \in Chat!Kinds
      BY <2>1 DEF Chat!Kind, Chat!Data, Chat!Kinds
    <2>3. CASE Chat!Refuse(t)
      BY <2>3, TopologyRefuseInv
    <2>4. CASE /\ k = "dest" => tx[t].data.status # Chat!None
               /\ Chat!CommitAndClear(t, new, Chat!NoData)
      BY <1>d, <2>1, <2>2, <2>4, FreshTyped, InsertedSound, TopologyClearInv
    <2>5. CASE \E i \in Chat!Ids : Chat!CommitAndClear(t, Chat!Enabled(t, k, i), Chat!NoData)
      BY <1>d, <2>2, <2>5, EnabledSound, TopologyClearInv
    <2> QED
      BY <1>1, <2>3, <2>4, <2>5 DEF Chat!ReceiveChatId
  <1>2. CASE Chat!ReceiveTopic(t)
    <2> DEFINE k == tx[t].data.kind
               i == tx[t].data.entity
               row == [db.rows[k][i] EXCEPT !.topic = tx[t].value]
    <2>1. tx[t].data \in Chat!Data /\ tx[t].value \in Topics
      BY <1>2, TopologyHandling, TopologyPressHolds DEF Chat!ReceiveTopic, Chat!None
    <2>2. CASE k = Chat!None \/ i = 0
      BY <1>2, <2>2, TopologyRefuseInv DEF Chat!ReceiveTopic
    <2>3. CASE k # Chat!None /\ i # 0
      <3>1. k \in Chat!Kinds \ {"route"} /\ i \in Chat!Ids
        BY <2>1, <2>3 DEF Chat!Data
      <3>2. ASSUME Chat!Has(db, k, i) PROVE row \in Chat!Row(k)
        <4>1. db.rows[k][i] \in Chat!Row(k)
          BY <1>d, <3>1, <3>2, Typed
        <4>2. CASE k = "dest"
          <5>1. db.rows[k][i] \in Chat!DestRow
            BY <4>1, <4>2, Shapes
          <5>2. row \in Chat!DestRow
            BY <2>1, <5>1 DEF Chat!DestRow
          <5> QED
            BY <4>2, <5>2, Shapes
        <4>3. CASE k # "dest"
          <5>1. Chat!Row(k) = Chat!ChatRow
            BY <3>1, <4>3, Shapes DEF Chat!Kinds
          <5> QED
            BY <2>1, <4>1, <5>1 DEF Chat!ChatRow
        <4> QED
          BY <4>2, <4>3
      <3>3. CASE Chat!CommitAndClear(t, db, Chat!NoData)
        BY <1>d, <3>3, TopologyClearInv
      <3>4. CASE Chat!Has(db, k, i) /\ Chat!CommitAndClear(t, Chat!Updated(k, i, row), Chat!NoData)
        BY <1>d, <3>1, <3>2, <3>4, UpdatedSound, TopologyClearInv
      <3>5. CASE Chat!Refuse(t)
        BY <3>5, TopologyRefuseInv
      <3> QED
        BY <1>2, <3>3, <3>4, <3>5 DEF Chat!ReceiveTopic, Chat!Writable
    <2> QED
      BY <2>2, <2>3
  <1> QED
    BY <1>1, <1>2

LEMMA RowStep ==
  ASSUME TopologyInv, NEW t \in Tasks,
         Chat!Toggle(t) \/ Chat!ToggleRequired(t) \/ Chat!MakePrimary(t) \/ Chat!SetSource(t) \/ Chat!CreateRoute(t)
  PROVE  TopologyInv'
  <1>d. TopologySound(db) /\ "dest" \in Chat!Kinds /\ "route" \in Chat!Kinds
    BY DEF TopologyInv, Chat!Kinds
  <1>1. CASE Chat!Toggle(t)
    <2>1. tx[t].on \in Chat!Kinds /\ tx[t].value \in Chat!Ids
      BY <1>1, TopologyHandling, TopologyPressHolds DEF Chat!Toggle, Chat!Pressed, Chat!None
    <2> QED
      BY <1>1, <1>d, <2>1, Switched, TopologyCommitInv DEF Chat!Toggle
  <1>2. CASE Chat!ToggleRequired(t)
    <2>1. tx[t].value \in Chat!Ids
      BY <1>2, TopologyHandling, TopologyPressHolds DEF Chat!ToggleRequired, Chat!Pressed, Chat!None
    <2> QED
      BY <1>2, <1>d, <2>1, Switched, TopologyCommitInv DEF Chat!ToggleRequired
  <1>3. CASE Chat!MakePrimary(t)
    <2> DEFINE i == tx[t].value
               flags == Chat!Reflagged(tx[t].seen, i)
    <2>1. flags \in SUBSET Chat!Ids
      BY DEF Chat!Reflagged, Chat!Dests
    <2>2. CASE Chat!Commit(t, db)
      BY <1>d, <2>2, TopologyCommitInv
    <2>3. CASE (\A j \in flags : Chat!Has(db, "dest", j)) /\ Chat!Commit(t, Chat!Marked(db, flags, {i}))
      BY <1>d, <2>1, <2>3, MarkedSound, TopologyCommitInv
    <2> QED
      BY <1>3, <2>2, <2>3 DEF Chat!MakePrimary
  <1>4. CASE Chat!SetSource(t)
    <2> DEFINE i == tx[t].value
               row == [db.rows["dest"][i] EXCEPT !.source = tx[t].on]
    <2>1. i \in Chat!Ids /\ tx[t].on \in Chat!Ids \cup {Chat!All}
      BY <1>4, TopologyHandling, TopologyPressHolds DEF Chat!SetSource, Chat!None
    <2>2. CASE Chat!Commit(t, db)
      BY <1>d, <2>2, TopologyCommitInv
    <2>3. CASE Chat!Has(db, "dest", i) /\ Chat!Commit(t, Chat!Updated("dest", i, row))
      <3>1. db.rows["dest"][i] \in Chat!DestRow
        BY <1>d, <2>1, <2>3, Typed, Shapes
      <3>2. row \in Chat!DestRow
        BY <2>1, <3>1 DEF Chat!DestRow
      <3> QED
        BY <1>d, <2>1, <2>3, <3>2, Shapes, UpdatedSound, TopologyCommitInv
    <2> QED
      BY <1>4, <2>2, <2>3 DEF Chat!SetSource
  <1>5. CASE Chat!CreateRoute(t)
    <2> DEFINE row == [source |-> tx[t].on, group |-> tx[t].value, enabled |-> TRUE]
    <2>1. tx[t].on \in Chat!Ids /\ tx[t].value \in Chat!Ids
      BY <1>5, TopologyHandling, TopologyPressHolds DEF Chat!CreateRoute, Chat!None
    <2>2. row \in Chat!Row("route")
      BY <2>1, Shapes DEF Chat!RouteRow
    <2>3. CASE Chat!Commit(t, Chat!Inserted("route", row))
      BY <1>d, <2>2, <2>3, InsertedSound, TopologyCommitInv
    <2>4. CASE \E i \in Chat!Ids : Chat!Commit(t, Chat!Enabled(t, "route", i))
      BY <1>d, <2>4, EnabledSound, TopologyCommitInv
    <2> QED
      BY <1>5, <2>3, <2>4 DEF Chat!CreateRoute
  <1> QED
    BY <1>1, <1>2, <1>3, <1>4, <1>5

LEMMA DeleteStep ==
  ASSUME TopologyInv, NEW t \in Tasks, Chat!Delete(t)
  PROVE  TopologyInv'
  <1> DEFINE k == tx[t].on
             i == tx[t].value
             heirs == IF k = "dest" THEN Chat!Heirs(tx[t].seen, i) ELSE {}
             rest == Chat!Without(k, i)
  <1>d. TopologySound(db) /\ db \in Store
    BY DEF TopologyInv, TopologySound
  <1>1. k \in Chat!Kinds /\ i \in Chat!Ids
    BY TopologyHandling, TopologyPressHolds DEF Chat!Delete, Chat!Pressed, Chat!None
  <1>2. TopologySound(rest)
    BY <1>d, <1>1, WithoutSound
  <1>3. heirs \in SUBSET Chat!Ids /\ i \notin heirs
    BY DEF Chat!Heirs, Chat!Dests
  <1>4. CASE Chat!Commit(t, db)
    BY <1>d, <1>4, TopologyCommitInv
  <1>5. CASE (\A j \in heirs : Chat!Has(db, "dest", j)) /\ Chat!Commit(t, Chat!Marked(rest, heirs, heirs))
    <2>1. ASSUME NEW j \in heirs PROVE Chat!Has(rest, "dest", j)
      <3>1. k = "dest" /\ j # i /\ j \in Chat!Ids
        BY <1>3, <2>1
      <3>2. ~Chat!Gone(k, i, "dest", j)
        BY <3>1 DEF Chat!Gone
      <3>3. rest.rows["dest"][j] = db.rows["dest"][j]
        BY <1>d, <3>1, <3>2 DEF Chat!Without, Store, Chat!Kinds
      <3> QED
        BY <1>5, <2>1, <3>3 DEF Chat!Has
    <2> QED
      BY <1>2, <1>3, <1>5, <2>1, MarkedSound, TopologyCommitInv
  <1> QED
    BY <1>4, <1>5 DEF Chat!Delete

LEMMA TopologyStep == WholeChats /\ TopologyInv /\ [Chat!Next]_panel => TopologyInv'
  <1> SUFFICES ASSUME WholeChats, TopologyInv, [Chat!Next]_panel PROVE TopologyInv'
    OBVIOUS
  <1>1. ASSUME NEW t \in Tasks, Chat!NoSuchRow(t) PROVE TopologyInv'
    BY <1>1, TopologyRefuseInv DEF Chat!NoSuchRow
  <1>2. CASE UNCHANGED panel
    BY <1>2 DEF TopologyInv, panel
  <1> QED
    BY <1>1, <1>2, TopologyButtonStep, TopologyOpenInv, TopologyPromptStep, TextStep, RowStep, DeleteStep
       DEF Chat!Next

------------------------------------------------------------------------------
(* Theorems *)

(* A screen stays what it is, and only its handlers act. *)
LEMMA TopologyOneScreen ==
  [Next]_<<panel, screen>> => screen' = screen /\ (screen = "chats" => [Chat!Next]_panel)
  BY DEF Next, panel

(* Every reachable state of the topology satisfies the invariant. *)
THEOREM TopologyAlways == WholeChats => (Spec => [](screen = "chats" => TopologyInv))
  <1> SUFFICES ASSUME WholeChats PROVE Spec => [](screen = "chats" => TopologyInv)
    OBVIOUS
  <1>1. Init => (screen = "chats" => TopologyInv)
    BY TopologyInit DEF Init
  <1>2. (screen = "chats" => TopologyInv) /\ [Next]_<<panel, screen>>
        => (screen = "chats" => TopologyInv)'
    BY TopologyOneScreen, TopologyStep
  <1> QED
    BY <1>1, <1>2, PTL DEF Spec

(* Every reachable state of the tables is well typed: no row refers to one *)
(* that was deleted, and none has the key of another.                      *)
THEOREM TopologyTypeCorrect == WholeChats => (Spec => [](screen = "chats" => Chat!TypeOK))
  <1> SUFFICES ASSUME WholeChats PROVE Spec => [](screen = "chats" => Chat!TypeOK)
    OBVIOUS
  <1>1. (screen = "chats" => TopologyInv) => (screen = "chats" => Chat!TypeOK)
    BY DEF TopologyInv, Chat!TypeOK, TopologySound, Bound, States
  <1> QED
    BY <1>1, TopologyAlways, PTL

(* However destinations are added, bound and moved, no chat is one of the  *)
(* destinations of an order's result twice: own and shared ones are never  *)
(* mixed, and those of one source have keys of their own.                  *)
THEOREM DestinationsAreDistinct == WholeChats => (Spec => []ResultsGoOnce)
  <1> SUFFICES ASSUME WholeChats PROVE Spec => []ResultsGoOnce
    OBVIOUS
  <1>1. ASSUME TopologyInv, NEW s \in Statuses, NEW src \in Chat!Ids,
               NEW i \in Chat!DestinationsOf(db, s, src), NEW j \in Chat!DestinationsOf(db, s, src), i # j
        PROVE  db.rows["dest"][i].chat # db.rows["dest"][j].chat
               \/ db.rows["dest"][i].topic # db.rows["dest"][j].topic
    <2> DEFINE a == db.rows["dest"][i]
               b == db.rows["dest"][j]
    <2>1. i \in Chat!Dests(db, s) /\ j \in Chat!Dests(db, s) /\ a.source = b.source
      BY <1>1 DEF Chat!DestinationsOf
    <2>2. /\ i \in Chat!Ids /\ j \in Chat!Ids /\ Chat!Has(db, "dest", i) /\ Chat!Has(db, "dest", j)
          /\ a.status = s /\ b.status = s
      BY <2>1 DEF Chat!Dests
    <2>3. ~Chat!Clashes(db, "dest", i, a)
      BY <1>1, <2>2 DEF TopologyInv, TopologySound, Bound, Chat!Kinds
    <2>4. Chat!Key("dest", a) # Chat!Key("dest", b)
      BY <1>1, <2>2, <2>3 DEF Chat!Clashes
    <2> QED
      BY <2>1, <2>2, <2>4, Keys
  <1>2. (screen = "chats" => TopologyInv) => ResultsGoOnce
    BY <1>1 DEF Chat!ResultsGoOnce, ResultsGoOnce
  <1> QED
    BY <1>2, TopologyAlways, PTL

------------------------------------------------------------------------------
(* One primary destination of a status *)

AtMostOne(d, s) == \A i, j \in Chat!Primaries(d, s) : i = j

LEMMA CountsOne ==
  ASSUME NEW d, NEW s
  PROVE  Cardinality(Chat!Primaries(d, s)) <= 1 <=> AtMostOne(d, s)
  <1> DEFINE P == Chat!Primaries(d, s)
  <1>1. IsFiniteSet(P) /\ Cardinality(P) \in Nat
    <2>1. IsFiniteSet(Chat!Ids) /\ P \subseteq Chat!Ids
      BY PanelAssumption, FS_Interval DEF Chat!Ids, Chat!Primaries, Chat!Dests
    <2> QED
      BY <2>1, FS_Subset, FS_CardinalityType
  <1>2. ASSUME Cardinality(P) <= 1, NEW i \in P, NEW j \in P, i # j PROVE FALSE
    <2>1. IsFiniteSet({i}) /\ Cardinality({i}) = 1 /\ j \notin {i}
      BY <1>2, FS_Singleton
    <2>2. Cardinality({i} \cup {j}) = 2
      BY <2>1, FS_AddElement
    <2>3. {i} \cup {j} \subseteq P
      BY <1>2
    <2>4. Cardinality({i} \cup {j}) <= Cardinality(P)
      BY <1>1, <2>3, FS_Subset
    <2> QED
      BY <1>1, <1>2, <2>2, <2>4
  <1>3. ASSUME AtMostOne(d, s) PROVE Cardinality(P) <= 1
    <2>1. CASE P = {}
      BY <2>1, FS_EmptySet
    <2>2. CASE P # {}
      <3>1. PICK i : P = {i}
        BY <1>3, <2>2 DEF AtMostOne
      <3> QED
        <4>1. Cardinality({i}) = 1
          BY FS_Singleton
        <4> QED
          BY <3>1, <4>1
    <2> QED
      BY <2>1, <2>2
  <1> QED
    BY <1>2, <1>3 DEF AtMostOne

(* Steps that leave the destinations and their flags alone. *)
KeepsFlags(d, new) ==
    \A i \in Chat!Ids :
       /\ Chat!Has(new, "dest", i) <=> Chat!Has(d, "dest", i)
       /\ Chat!Has(d, "dest", i) =>
             /\ new.rows["dest"][i].status = d.rows["dest"][i].status
             /\ new.rows["dest"][i].primary = d.rows["dest"][i].primary

LEMMA NoneGained ==
  ASSUME NEW d, NEW new, KeepsFlags(d, new), NEW s, AtMostOne(d, s)
  PROVE  AtMostOne(new, s)
  BY DEF KeepsFlags, AtMostOne, Chat!Primaries, Chat!Dests

LEMMA SwitchKeeps ==
  ASSUME NEW d, TopologySound(d), NEW k \in Chat!Kinds, NEW i \in Chat!Ids, Chat!Has(d, k, i), NEW on
  PROVE  /\ KeepsFlags(d, [d EXCEPT !.rows[k][i].enabled = on])
         /\ k = "dest" => KeepsFlags(d, [d EXCEPT !.rows["dest"][i].required = on])
  <1>d. d \in Store /\ "dest" \in Chat!Kinds
    BY DEF TopologySound, Chat!Kinds
  <1>1. ASSUME NEW j \in Chat!Ids, Chat!Has(d, "dest", j)
        PROVE  /\ d.rows["dest"][j] \in Chat!DestRow
               /\ [d.rows["dest"][j] EXCEPT !.enabled = on] # Chat!Absent
               /\ [d.rows["dest"][j] EXCEPT !.required = on] # Chat!Absent
    <2>1. d.rows["dest"][j] \in Chat!DestRow
      BY <1>1, <1>d, Typed, Shapes
    <2>2. "chat" \in DOMAIN d.rows["dest"][j] /\ "chat" \notin DOMAIN Chat!Absent
      BY <2>1 DEF Chat!DestRow, Chat!Absent
    <2>3. /\ "chat" \in DOMAIN [d.rows["dest"][j] EXCEPT !.enabled = on]
          /\ "chat" \in DOMAIN [d.rows["dest"][j] EXCEPT !.required = on]
      BY <2>2
    <2> QED
      BY <2>1, <2>2, <2>3
  <1>2. KeepsFlags(d, [d EXCEPT !.rows[k][i].enabled = on])
    <2> DEFINE new == [d EXCEPT !.rows[k][i].enabled = on]
    <2>1. \A j \in Chat!Ids : new.rows["dest"][j] =
             IF k = "dest" /\ j = i THEN [d.rows["dest"][j] EXCEPT !.enabled = on]
             ELSE d.rows["dest"][j]
      BY <1>d DEF Store
    <2> QED
      BY <1>1, <2>1 DEF KeepsFlags, Chat!Has, Chat!DestRow
  <1>3. ASSUME k = "dest" PROVE KeepsFlags(d, [d EXCEPT !.rows["dest"][i].required = on])
    <2> DEFINE new == [d EXCEPT !.rows["dest"][i].required = on]
    <2>1. \A j \in Chat!Ids : new.rows["dest"][j] =
             IF j = i THEN [d.rows["dest"][j] EXCEPT !.required = on]
             ELSE d.rows["dest"][j]
      BY <1>d DEF Store
    <2> QED
      BY <1>1, <1>3, <2>1 DEF KeepsFlags, Chat!Has, Chat!DestRow
  <1> QED
    BY <1>2, <1>3

LEMMA PutKeeps ==
  ASSUME TopologySound(db), NEW k \in Chat!Kinds, NEW i \in Chat!Ids, NEW row,
         k = "dest" => /\ Chat!Has(db, k, i) /\ row \in Chat!DestRow
                       /\ row.status = db.rows[k][i].status
                       /\ row.primary = db.rows[k][i].primary
  PROVE  KeepsFlags(db, Chat!Updated(k, i, row))
  <1>d. db \in Store /\ "dest" \in Chat!Kinds
    BY DEF TopologySound, Chat!Kinds
  <1>1. \A j \in Chat!Ids : Chat!With(db, k, i, row).rows["dest"][j] =
           IF k = "dest" /\ j = i THEN row ELSE db.rows["dest"][j]
    BY <1>d DEF Chat!With, Store
  <1>2. k = "dest" => row # Chat!Absent
    BY Shapes, <1>d
  <1> QED
    BY <1>1, <1>2 DEF Chat!Updated, KeepsFlags, Chat!Has

(* The first destination of a status is primary, the next ones are not. *)
LEMMA InsertedKeepsOne ==
  ASSUME TopologySound(db), NEW k \in Chat!Kinds, NEW row, NEW s, AtMostOne(db, s),
         k = "dest" => (row.primary <=> Chat!Dests(db, row.status) = {})
  PROVE  AtMostOne(Chat!Inserted(k, row), s)
  <1> DEFINE i == db.last[k] + 1
             new == [Chat!With(db, k, i, row) EXCEPT !.last[k] = i]
  <1>d. db \in Store /\ "dest" \in Chat!Kinds
    BY DEF TopologySound, Chat!Kinds
  <1>1. \A j \in Chat!Ids : new.rows["dest"][j] =
           IF k = "dest" /\ j = i THEN row ELSE db.rows["dest"][j]
    BY <1>d DEF Chat!With, Store
  <1>2. AtMostOne(new, s)
    <2>1. CASE k = "dest" /\ row.status = s /\ row.primary
      <3>1. Chat!Dests(db, s) = {}
        BY <2>1
      <3>2. \A j \in Chat!Ids : j # i => j \notin Chat!Primaries(new, s)
        BY <1>1, <3>1 DEF Chat!Primaries, Chat!Dests, Chat!Has
      <3> QED
        BY <3>2 DEF AtMostOne, Chat!Primaries, Chat!Dests
    <2>2. CASE ~(k = "dest" /\ row.status = s /\ row.primary)
      <3>1. \A j \in Chat!Primaries(new, s) : j \in Chat!Primaries(db, s)
        BY <1>1, <2>2 DEF Chat!Primaries, Chat!Dests, Chat!Has
      <3> QED
        BY <3>1 DEF AtMostOne
    <2> QED
      BY <2>1, <2>2
  <1> QED
    BY <1>2 DEF Chat!Inserted

LEMMA MarkedRows ==
  ASSUME NEW d, TopologySound(d), NEW flags \in SUBSET Chat!Ids, NEW primaries,
         \A j \in flags : Chat!Has(d, "dest", j)
  PROVE  \A j \in Chat!Ids :
            LET row == Chat!Marked(d, flags, primaries).rows["dest"][j] IN
            /\ j \notin flags => row = d.rows["dest"][j]
            /\ j \in flags => row.status = d.rows["dest"][j].status
                              /\ row.primary = (j \in primaries)
  <1>d. d \in Store /\ "dest" \in Chat!Kinds
    BY DEF TopologySound, Chat!Kinds
  <1>1. \A j \in Chat!Ids : Chat!Marked(d, flags, primaries).rows["dest"][j] =
           IF j \in flags THEN [d.rows["dest"][j] EXCEPT !.primary = j \in primaries]
           ELSE d.rows["dest"][j]
    BY <1>d DEF Chat!Marked, Store
  <1>2. \A j \in flags : d.rows["dest"][j] \in Chat!DestRow
    BY <1>d, Typed, Shapes
  <1> QED
    BY <1>1, <1>2 DEF Chat!DestRow

LEMMA MarkedHas ==
  ASSUME NEW d, TopologySound(d), NEW flags \in SUBSET Chat!Ids, NEW primaries,
         \A j \in flags : Chat!Has(d, "dest", j)
  PROVE  \A j \in Chat!Ids :
            Chat!Has(Chat!Marked(d, flags, primaries), "dest", j) <=> Chat!Has(d, "dest", j)
  <1>1. "dest" \in Chat!Kinds /\ d \in Store
    BY DEF TopologySound, Chat!Kinds
  <1>2. \A j \in flags : d.rows["dest"][j] \in Chat!DestRow
    BY <1>1, Typed, Shapes
  <1>3. \A j \in flags : [d.rows["dest"][j] EXCEPT !.primary = j \in primaries] # Chat!Absent
    <2>1. \A j \in flags : "chat" \in DOMAIN d.rows["dest"][j]
      BY <1>2 DEF Chat!DestRow
    <2>2. "chat" \notin DOMAIN Chat!Absent
      BY DEF Chat!Absent
    <2> QED
      BY <2>1, <2>2
  <1>4. \A j \in Chat!Ids : Chat!Marked(d, flags, primaries).rows["dest"][j] =
           IF j \in flags THEN [d.rows["dest"][j] EXCEPT !.primary = j \in primaries]
           ELSE d.rows["dest"][j]
    BY <1>1 DEF Chat!Marked, Store
  <1> QED
    BY <1>3, <1>4 DEF Chat!Has

(* A handler that saw the rows as they are clears every other flag. *)
LEMMA MarkKeepsOne ==
  ASSUME TopologySound(db), NEW i \in Chat!Ids, Chat!Has(db, "dest", i), NEW s, AtMostOne(db, s)
  PROVE  AtMostOne(Chat!Marked(db, Chat!Reflagged(db, i), {i}), s)
  <1> DEFINE flags == Chat!Reflagged(db, i)
             new == Chat!Marked(db, flags, {i})
             st == db.rows["dest"][i].status
  <1>1. flags \in SUBSET Chat!Ids /\ \A j \in flags : Chat!Has(db, "dest", j)
    BY DEF Chat!Reflagged, Chat!Dests
  <1>2. \A j \in Chat!Ids : /\ j \notin flags => new.rows["dest"][j] = db.rows["dest"][j]
                            /\ j \in flags => /\ new.rows["dest"][j].status = db.rows["dest"][j].status
                                              /\ new.rows["dest"][j].primary = (j = i)
    BY <1>1, MarkedRows
  <1>t. \A j \in Chat!Ids : Chat!Has(db, "dest", j) => db.rows["dest"][j].primary \in BOOLEAN
    <2>1. \A j \in Chat!Ids : Chat!Has(db, "dest", j) => db.rows["dest"][j] \in Chat!DestRow
      BY Typed, Shapes DEF Chat!Kinds
    <2> QED
      BY <2>1 DEF Chat!DestRow
  <1>n. \A j \in Chat!Ids : Chat!Has(new, "dest", j) => Chat!Has(db, "dest", j)
    BY <1>1, <1>2 DEF Chat!Has
  <1>3. CASE s = st
    <2>1. ASSUME NEW j \in Chat!Primaries(new, s) PROVE j = i
      <3>1. j \in Chat!Ids /\ Chat!Has(db, "dest", j) /\ new.rows["dest"][j].status = s
            /\ new.rows["dest"][j].primary
        BY <2>1, <1>n DEF Chat!Primaries, Chat!Dests
      <3>2. CASE j \in flags
        BY <1>2, <3>1, <3>2
      <3>3. CASE j \notin flags
        <4>1. j \in Chat!Dests(db, st) /\ db.rows["dest"][j].primary
          BY <1>2, <1>3, <3>1, <3>3 DEF Chat!Dests
        <4>2. db.rows["dest"][j].primary = (j = i)
          BY <3>3, <4>1 DEF Chat!Reflagged
        <4> QED
          BY <4>1, <4>2
      <3> QED
        BY <3>2, <3>3
    <2> QED
      BY <2>1 DEF AtMostOne
  <1>4. CASE s # st
    <2>1. \A j \in Chat!Primaries(new, s) : j \in Chat!Primaries(db, s)
      BY <1>2, <1>4, <1>n DEF Chat!Primaries, Chat!Dests, Chat!Reflagged
    <2> QED
      BY <2>1 DEF AtMostOne
  <1> QED
    BY <1>3, <1>4

(* One heir, and only of a primary destination. *)
LEMMA DeleteKeepsOne ==
  ASSUME TopologySound(db), NEW k \in Chat!Kinds, NEW i \in Chat!Ids, NEW s, AtMostOne(db, s),
         k = "dest" => Chat!Has(db, "dest", i)
  PROVE  LET heirs == IF k = "dest" THEN Chat!Heirs(db, i) ELSE {}
         IN  AtMostOne(Chat!Marked(Chat!Without(k, i), heirs, heirs), s)
  <1> DEFINE heirs == IF k = "dest" THEN Chat!Heirs(db, i) ELSE {}
             rest == Chat!Without(k, i)
             new == Chat!Marked(rest, heirs, heirs)
  <1>d. db \in Store /\ "dest" \in Chat!Kinds
    BY DEF TopologySound, Chat!Kinds
  <1>1. TopologySound(rest)
    BY WithoutSound
  <1>2. \A j \in Chat!Ids : rest.rows["dest"][j] =
           IF Chat!Gone(k, i, "dest", j) THEN Chat!Absent ELSE db.rows["dest"][j]
    BY <1>d DEF Chat!Without, Store
  <1>3. heirs \in SUBSET Chat!Ids /\ \A j \in heirs : k = "dest" /\ j # i /\ Chat!Has(db, "dest", j)
    BY DEF Chat!Heirs, Chat!Dests
  <1>4. \A j \in heirs : Chat!Has(rest, "dest", j) /\ rest.rows["dest"][j] = db.rows["dest"][j]
    BY <1>2, <1>3 DEF Chat!Gone, Chat!Has
  <1>5. \A j \in Chat!Ids : /\ j \notin heirs => new.rows["dest"][j] = rest.rows["dest"][j]
                            /\ j \in heirs => new.rows["dest"][j].status = db.rows["dest"][j].status
    BY <1>1, <1>3, <1>4, MarkedRows
  <1>6. \A j \in Chat!Primaries(new, s) :
           j \in heirs \/ (j \in Chat!Primaries(db, s) /\ ~(k = "dest" /\ j = i))
    <2> SUFFICES ASSUME NEW j \in Chat!Primaries(new, s), j \notin heirs
                 PROVE  j \in Chat!Primaries(db, s) /\ ~(k = "dest" /\ j = i)
      OBVIOUS
    <2>1. j \in Chat!Ids /\ Chat!Has(rest, "dest", j) /\ new.rows["dest"][j] = rest.rows["dest"][j]
      BY <1>5 DEF Chat!Primaries, Chat!Dests, Chat!Has
    <2>2. ~Chat!Gone(k, i, "dest", j) /\ rest.rows["dest"][j] = db.rows["dest"][j]
      BY <1>2, <2>1 DEF Chat!Has
    <2> QED
      BY <2>1, <2>2 DEF Chat!Primaries, Chat!Dests, Chat!Gone, Chat!Has
  <1>7. CASE heirs = {}
    BY <1>6, <1>7 DEF AtMostOne
  <1>8. CASE heirs # {}
    <2> DEFINE st == db.rows["dest"][i].status
    <2>1. k = "dest" /\ i \in Chat!Primaries(db, st)
      BY <1>8 DEF Chat!Heirs, Chat!Primaries, Chat!Dests
    <2>2. \A j \in heirs : j \in Chat!Dests(db, st) /\ db.rows["dest"][j].position \in Nat
      <3>1. \A j \in heirs : db.rows["dest"][j] \in Chat!DestRow
        BY <1>3, <1>d, Typed, Shapes
      <3> QED
        BY <2>1, <3>1 DEF Chat!Heirs, Chat!DestRow
    <2>3. CASE s = st
      <3>1. \A j \in Chat!Primaries(new, s) : j \in heirs
        BY <1>6, <2>1, <2>3 DEF AtMostOne
      <3>2. \A j, n \in heirs :
              \/ db.rows["dest"][j].position < db.rows["dest"][n].position
              \/ (db.rows["dest"][j].position = db.rows["dest"][n].position /\ j <= n)
        BY <2>1 DEF Chat!Heirs
      <3>3. \A j, n \in heirs : j = n
        BY <1>3, <2>2, <3>2 DEF Chat!Ids
      <3> QED
        BY <3>1, <3>3 DEF AtMostOne
    <2>4. CASE s # st
      <3>1. \A j \in Chat!Primaries(new, s) : j \notin heirs
        BY <1>5, <2>2, <2>4 DEF Chat!Primaries, Chat!Dests
      <3> QED
        BY <1>6, <3>1 DEF AtMostOne
    <2> QED
      BY <2>3, <2>4
  <1> QED
    BY <1>7, <1>8

LEMMA TopologyCommitting ==
  ASSUME TopologyInv, NEW t \in Tasks, NEW op, op # Chat!None, Chat!Handles(t, op), Chat!End(t)
  PROVE  Chat!Commits(t) /\ (~Chat!OnlyByRace => tx[t].seen = db)
  <1>1. tx[t] \in Presses /\ tx[t].op = op
    BY TopologyHandling
  <1>2. tx' = [tx EXCEPT ![t] = Chat!NoTx] /\ tx \in [Tasks -> Presses \cup {Chat!NoTx}]
    BY DEF Chat!End, TopologyInv
  <1>3. tx[t] # Chat!NoTx
    BY <1>1, TopologyPressHolds DEF Chat!NoTx
  <1>4. Chat!Commits(t)
    BY <1>1, <1>2, <1>3 DEF Chat!Commits, Chat!Handles
  <1> QED
    BY <1>4 DEF Chat!OnlyByRace, Chat!Current

(* What a step that races with nothing makes of the destinations. *)
Deleted(k, i) ==
    LET heirs == IF k = "dest" THEN Chat!Heirs(db, i) ELSE {}
    IN  Chat!Marked(Chat!Without(k, i), heirs, heirs)
FlagsChange ==
    \/ KeepsFlags(db, db')
    \/ \E k \in Chat!Kinds : \E row :
          /\ k = "dest" => (row.primary <=> Chat!Dests(db, row.status) = {})
          /\ db' = Chat!Inserted(k, row)
    \/ \E i \in Chat!Ids :
          Chat!Has(db, "dest", i) /\ db' = Chat!Marked(db, Chat!Reflagged(db, i), {i})
    \/ \E t \in Tasks, k \in Chat!Kinds, i \in Chat!Ids :
          /\ Chat!Commits(t) /\ tx[t].op = "delete" /\ tx[t].on = k
          /\ Chat!Has(db, k, i) /\ db' = Deleted(k, i)

LEMMA FlagsStep == TopologyInv /\ [Chat!Next]_panel /\ ~Chat!OnlyByRace => FlagsChange
  <1> SUFFICES ASSUME TopologyInv, [Chat!Next]_panel, ~Chat!OnlyByRace PROVE FlagsChange
    OBVIOUS
  <1>d. TopologySound(db) /\ "dest" \in Chat!Kinds /\ "route" \in Chat!Kinds
    BY DEF TopologyInv, Chat!Kinds
  <1>s. ASSUME db' = db PROVE FlagsChange
    BY <1>s DEF FlagsChange, KeepsFlags
  <1>f. ASSUME KeepsFlags(db, db') PROVE FlagsChange
    BY <1>f DEF FlagsChange
  <1>e. ASSUME NEW t \in Tasks, NEW k \in Chat!Kinds, NEW i \in Chat!Ids
        PROVE  KeepsFlags(db, Chat!Enabled(t, k, i))
    <2>1. CASE Chat!Has(db, k, i) /\ Chat!Enabled(t, k, i) = [db EXCEPT !.rows[k][i].enabled = TRUE]
      <3>1. KeepsFlags(db, [db EXCEPT !.rows[k][i].enabled = TRUE])
        BY <1>d, <2>1, SwitchKeeps
      <3> QED
        BY <2>1, <3>1
    <2>2. CASE Chat!Enabled(t, k, i) = db
      BY <2>2 DEF KeepsFlags
    <2> QED
      BY <2>1, <2>2 DEF Chat!Enabled
  <1>1. ASSUME NEW t \in Tasks,
               \/ Chat!PressAdd(t) \/ Chat!SendText(t) \/ Chat!PressChat(t) \/ Chat!PressDelete(t)
               \/ Chat!PressSource(t) \/ Chat!PressRoute(t) \/ Chat!PressCreate(t) \/ Chat!Open(t)
               \/ Chat!PromptAdd(t) \/ Chat!PromptTopic(t) \/ Chat!Leave(t) \/ Chat!NoSuchRow(t)
        PROVE  FlagsChange
    BY <1>1, <1>s
    DEF Chat!PressAdd, Chat!SendText, Chat!PressChat, Chat!PressDelete, Chat!PressSource,
       Chat!PressRoute, Chat!PressCreate, Chat!Answer,
        Chat!Press, Chat!Open, Chat!PromptAdd, Chat!PromptTopic, Chat!Leave, Chat!NoSuchRow, Chat!Ask, Chat!CommitAndClear, Chat!Refuse, Chat!Commit
  <1>2. ASSUME NEW t \in Tasks, Chat!ReceiveChatId(t) PROVE FlagsChange
    <2> DEFINE k == Chat!Kind(tx[t].data)
               row == Chat!Fresh(tx[t].seen, k, tx[t].data, tx[t].value)
    <2>1. tx[t].data \in Chat!Data /\ tx[t].seen = db
      BY <1>2, TopologyHandling, TopologyPressHolds, TopologyCommitting
      DEF Chat!ReceiveChatId, Chat!CommitAndClear, Chat!Refuse, Chat!Commit, Chat!None
    <2>2. k \in Chat!Kinds
      BY <2>1 DEF Chat!Kind, Chat!Data, Chat!Kinds
    <2>3. k = "dest" => (row.primary <=> Chat!Dests(db, row.status) = {})
      BY <2>1 DEF Chat!Fresh, Chat!Dest
    <2>4. CASE db' = Chat!Inserted(k, row)
      BY <2>2, <2>3, <2>4 DEF FlagsChange
    <2>5. CASE \E i \in Chat!Ids : db' = Chat!Enabled(t, k, i)
      BY <1>e, <1>f, <2>2, <2>5
    <2> QED
      BY <1>2, <1>s, <2>4, <2>5 DEF Chat!ReceiveChatId, Chat!CommitAndClear, Chat!Refuse,
         Chat!Commit
  <1>3. ASSUME NEW t \in Tasks, Chat!ReceiveTopic(t) PROVE FlagsChange
    <2> DEFINE k == tx[t].data.kind
               i == tx[t].data.entity
               row == [db.rows[k][i] EXCEPT !.topic = tx[t].value]
    <2>1. tx[t].data \in Chat!Data
      BY <1>3, TopologyHandling, TopologyPressHolds DEF Chat!ReceiveTopic, Chat!None
    <2>2. CASE k # Chat!None /\ i # 0 /\ Chat!Has(db, k, i) /\ db' = Chat!Updated(k, i, row)
      <3>1. k \in Chat!Kinds /\ i \in Chat!Ids
        BY <2>1, <2>2 DEF Chat!Data
      <3>2. k = "dest" => /\ Chat!Has(db, k, i) /\ row \in Chat!DestRow
                          /\ row.status = db.rows[k][i].status
                          /\ row.primary = db.rows[k][i].primary
        <4>1. k = "dest" => db.rows[k][i] \in Chat!DestRow
          BY <1>d, <2>2, <3>1, Typed, Shapes
        <4>2. tx[t].value \in Topics
          BY <1>3, TopologyHandling, TopologyPressHolds DEF Chat!ReceiveTopic, Chat!None
        <4> QED
          BY <2>2, <4>1, <4>2 DEF Chat!DestRow
      <3>3. KeepsFlags(db, Chat!Updated(k, i, row))
        BY <1>d, <3>1, <3>2, PutKeeps
      <3> QED
        BY <1>f, <2>2, <3>3
    <2> QED
      BY <1>3, <1>s, <2>2 DEF Chat!ReceiveTopic, Chat!CommitAndClear, Chat!Refuse,
         Chat!Commit, Chat!Writable
  <1>4. ASSUME NEW t \in Tasks, Chat!Toggle(t) PROVE FlagsChange
    <2>1. tx[t].on \in Chat!Kinds /\ tx[t].value \in Chat!Ids
      BY <1>4, TopologyHandling, TopologyPressHolds DEF Chat!Toggle, Chat!Pressed, Chat!None
    <2> QED
      <3> DEFINE k == tx[t].on
                 i == tx[t].value
                 new == [db EXCEPT !.rows[k][i].enabled = ~tx[t].seen.rows[k][i].enabled]
      <3>1. Chat!Has(db, k, i) => KeepsFlags(db, new)
        BY <1>d, <2>1, SwitchKeeps
      <3>2. db' = db \/ (Chat!Has(db, k, i) /\ db' = new)
        BY <1>4 DEF Chat!Toggle, Chat!Commit
      <3> QED
        BY <1>f, <1>s, <3>1, <3>2
  <1>5. ASSUME NEW t \in Tasks, Chat!ToggleRequired(t) PROVE FlagsChange
    <2>1. tx[t].value \in Chat!Ids
      BY <1>5, TopologyHandling, TopologyPressHolds DEF Chat!ToggleRequired, Chat!Pressed, Chat!None
    <2> QED
      BY <1>5, <1>d, <1>f, <1>s, <2>1, SwitchKeeps DEF Chat!ToggleRequired,
         Chat!Commit
  <1>6. ASSUME NEW t \in Tasks, Chat!MakePrimary(t) PROVE FlagsChange
    <2> DEFINE i == tx[t].value
    <2>1. /\ i \in Chat!Ids /\ tx[t].on = "dest" /\ tx[t].seen = db
          /\ Chat!Has(tx[t].seen, tx[t].on, i)
      BY <1>6, TopologyHandling, TopologyPressHolds, TopologyCommitting
         DEF Chat!MakePrimary, Chat!Pressed,
         Chat!Commit, Chat!None
    <2> QED
      BY <1>6, <1>s, <2>1 DEF Chat!MakePrimary, Chat!Commit, FlagsChange
  <1>7. ASSUME NEW t \in Tasks, Chat!SetSource(t) PROVE FlagsChange
    <2> DEFINE i == tx[t].value
               row == [db.rows["dest"][i] EXCEPT !.source = tx[t].on]
    <2>1. i \in Chat!Ids /\ tx[t].on \in Chat!Ids \cup {Chat!All}
      BY <1>7, TopologyHandling, TopologyPressHolds DEF Chat!SetSource, Chat!None
    <2>2. CASE Chat!Has(db, "dest", i) /\ db' = Chat!Updated("dest", i, row)
      <3>1. db.rows["dest"][i] \in Chat!DestRow
        BY <1>d, <2>1, <2>2, Typed, Shapes
      <3>2. /\ row \in Chat!DestRow
            /\ row.status = db.rows["dest"][i].status /\ row.primary = db.rows["dest"][i].primary
        BY <2>1, <3>1 DEF Chat!DestRow
      <3> QED
        <4>1. KeepsFlags(db, Chat!Updated("dest", i, row))
          BY <1>d, <2>1, <2>2, <3>2, PutKeeps
        <4> QED
          BY <1>f, <2>2, <4>1
    <2> QED
      BY <1>7, <1>s, <2>2 DEF Chat!SetSource, Chat!Commit
  <1>8. ASSUME NEW t \in Tasks, Chat!CreateRoute(t) PROVE FlagsChange
    <2>1. \/ \E row : db' = Chat!Inserted("route", row)
          \/ \E i \in Chat!Ids : db' = Chat!Enabled(t, "route", i)
      BY <1>8 DEF Chat!CreateRoute, Chat!Commit
    <2> QED
      BY <1>d, <1>e, <1>f, <2>1 DEF FlagsChange
  <1>9. ASSUME NEW t \in Tasks, Chat!Delete(t) PROVE FlagsChange
    <2> DEFINE k == tx[t].on
               i == tx[t].value
    <2>1. /\ k \in Chat!Kinds /\ i \in Chat!Ids /\ tx[t].seen = db
          /\ Chat!Has(tx[t].seen, k, i) /\ Chat!Commits(t) /\ tx[t].op = "delete"
      BY <1>9, TopologyHandling, TopologyPressHolds, TopologyCommitting
         DEF Chat!Delete, Chat!Pressed,
         Chat!Commit, Chat!None
    <2>2. db' = db \/ db' = Deleted(k, i)
      BY <1>9, <2>1 DEF Chat!Delete, Chat!Commit, Deleted
    <2> QED
      BY <1>s, <2>1, <2>2 DEF FlagsChange
  <1>10. CASE UNCHANGED panel
    BY <1>10, <1>s DEF panel
  <1> QED
    BY <1>1, <1>2, <1>3, <1>4, <1>5, <1>6, <1>7, <1>8, <1>9, <1>10 DEF Chat!Next

LEMMA OneStep == TopologyInv /\ [Chat!Next]_panel => Chat!DoublesByRace
  <1> SUFFICES ASSUME TopologyInv, [Chat!Next]_panel, ~Chat!OnlyByRace, NEW s \in Statuses,
                      AtMostOne(db, s)
               PROVE  AtMostOne(db', s)
    <2>1. ASSUME NEW s \in Statuses, Cardinality(Chat!Primaries(db, s)) <= 1,
                 Cardinality(Chat!Primaries(db', s)) > 1
          PROVE  AtMostOne(db, s) /\ ~AtMostOne(db', s)
      <3>1. AtMostOne(db, s)
        BY <2>1, CountsOne
      <3>2. ASSUME AtMostOne(db', s) PROVE FALSE
        <4>1. Cardinality(Chat!Primaries(db', s)) <= 1
          BY <3>2, CountsOne
        <4>2. IsFiniteSet(Chat!Ids) /\ Chat!Primaries(db', s) \subseteq Chat!Ids
          BY PanelAssumption, FS_Interval DEF Chat!Ids, Chat!Primaries, Chat!Dests
        <4>3. Cardinality(Chat!Primaries(db', s)) \in Nat
          BY <4>2, FS_Subset, FS_CardinalityType
        <4> QED
          BY <2>1, <4>1, <4>3
      <3> QED
        BY <3>1, <3>2
    <2> QED
      BY <2>1, SameCardinality DEF Chat!DoublesByRace
  <1>1. TopologySound(db) /\ FlagsChange
    BY FlagsStep DEF TopologyInv
  <1>2. ASSUME NEW k \in Chat!Kinds, NEW i \in Chat!Ids, Chat!Has(db, k, i), db' = Deleted(k, i)
        PROVE  AtMostOne(db', s)
    BY <1>1, <1>2, DeleteKeepsOne DEF Deleted
  <1> QED
    BY <1>1, <1>2, NoneGained, InsertedKeepsOne, MarkKeepsOne DEF FlagsChange

(* Two destinations of a status come to be primary only by a handler that  *)
(* commits over what it did not see, however many there are.               *)
THEOREM DoubledByRaceOnly == WholeChats => (Spec => OnlyRacesDouble)
  <1> SUFFICES ASSUME WholeChats PROVE Spec => OnlyRacesDouble
    OBVIOUS
  <1>1. (screen = "chats" => TopologyInv) /\ [Next]_<<panel, screen>>
        => (screen = "chats" => Chat!DoublesByRace)
    BY TopologyOneScreen, OneStep
  <1> QED
    BY <1>1, TopologyAlways, PTL DEF Spec, OnlyRacesDouble

------------------------------------------------------------------------------
(* No status without a primary destination *)

LEMMA Least ==
  ASSUME NEW S \in SUBSET Nat, S # {}
  PROVE  \E m \in S : \A n \in S : m <= n
  <1>1. PICK m \in S : \A n \in S : ~(<<n, m>> \in OpToRel(<, Nat))
    BY NatLessThanWellFounded, WFMin
  <1>2. \A n \in S : ~(n < m)
    BY <1>1 DEF OpToRel
  <1> QED
    BY <1>2

(* A primary destination that is deleted has an heir, unless it is the     *)
(* only one: some destination comes first by position and id.              *)
LEMMA HeirExists ==
  ASSUME NEW d, TopologySound(d), NEW i \in Chat!Ids, Chat!Has(d, "dest", i),
         d.rows["dest"][i].primary,
         Chat!Dests(d, d.rows["dest"][i].status) \ {i} # {}
  PROVE  Chat!Heirs(d, i) # {}
  <1> DEFINE rows == d.rows["dest"]
             rest == Chat!Dests(d, rows[i].status) \ {i}
  <1>1. \A j \in rest : j \in Nat /\ rows[j].position \in Nat
    <2>1. \A j \in rest : j \in Chat!Ids /\ rows[j] \in Chat!DestRow
      BY Typed, Shapes DEF Chat!Dests, Chat!Kinds
    <2> QED
      BY <2>1 DEF Chat!DestRow, Chat!Ids
  <1>2. PICK p \in {rows[j].position : j \in rest} : \A q \in {rows[j].position : j \in rest} : p <= q
    <2> HIDE DEF rest, rows
    <2>1. {rows[j].position : j \in rest} \in SUBSET Nat
      BY <1>1
    <2>2. {rows[j].position : j \in rest} # {}
      BY DEF rest, rows
    <2> QED
      BY <2>1, <2>2, Least
  <1>3. PICK m \in {j \in rest : rows[j].position = p} : \A n \in {j \in rest : rows[j].position = p} : m <= n
    <2>1. {j \in rest : rows[j].position = p} \in SUBSET Nat /\ {j \in rest : rows[j].position = p} # {}
      BY <1>1, <1>2
    <2> QED
      BY <2>1, Least
  <1>4. \A n \in rest : \/ rows[m].position < rows[n].position
                        \/ (rows[m].position = rows[n].position /\ m <= n)
    <2> TAKE n \in rest
    <2>1. rows[n].position \in Nat /\ p <= rows[n].position
      BY <1>1, <1>2
    <2>2. p \in Nat /\ rows[m].position = p
      BY <1>1, <1>2, <1>3
    <2>3. rows[n].position = p => m <= n
      BY <1>3
    <2> QED
      BY <2>1, <2>2, <2>3
  <1> QED
    BY <1>3, <1>4 DEF Chat!Heirs

LEMMA NoneLost ==
  ASSUME NEW d, NEW new, KeepsFlags(d, new), NEW s, Chat!HasPrimary(d, s)
  PROVE  Chat!HasPrimary(new, s)
  <1>1. Chat!Dests(new, s) = Chat!Dests(d, s)
    BY DEF KeepsFlags, Chat!Dests
  <1>2. Chat!Primaries(new, s) = Chat!Primaries(d, s)
    BY <1>1 DEF KeepsFlags, Chat!Primaries, Chat!Dests
  <1> QED
    BY <1>1, <1>2 DEF Chat!HasPrimary

(* A destination is added as the primary one when there is no other. *)
LEMMA InsertedKeepsSome ==
  ASSUME TopologySound(db), NEW k \in Chat!Kinds, NEW row, NEW s, Chat!HasPrimary(db, s),
         k = "dest" => (row.primary <=> Chat!Dests(db, row.status) = {})
  PROVE  Chat!HasPrimary(Chat!Inserted(k, row), s)
  <1> DEFINE i == db.last[k] + 1
             new == [Chat!With(db, k, i, row) EXCEPT !.last[k] = i]
  <1>d. db \in Store /\ "dest" \in Chat!Kinds
    BY DEF TopologySound, Chat!Kinds
  <1>1. \A j \in Chat!Ids : new.rows["dest"][j] =
           IF k = "dest" /\ j = i THEN row ELSE db.rows["dest"][j]
    BY <1>d DEF Chat!With, Store
  <1>2. k = "dest" => ~(i \in Chat!Ids /\ Chat!Has(db, "dest", i))
    <2>1. i > db.last[k]
      BY <1>d DEF Store
    <2> QED
      BY <2>1 DEF TopologySound, Chat!RowsAreTyped, Chat!Has
  <1>3. ASSUME Chat!Dests(new, s) # {} PROVE Chat!Primaries(new, s) # {}
    <2>1. CASE Chat!Dests(db, s) # {}
      <3>1. PICK p \in Chat!Primaries(db, s) : TRUE
        BY <2>1 DEF Chat!HasPrimary
      <3>2. p \in Chat!Ids /\ new.rows["dest"][p] = db.rows["dest"][p]
        BY <1>1, <1>2, <3>1 DEF Chat!Primaries, Chat!Dests
      <3> QED
        BY <3>1, <3>2 DEF Chat!Primaries, Chat!Dests, Chat!Has
    <2>2. CASE Chat!Dests(db, s) = {}
      <3>1. PICK j \in Chat!Dests(new, s) : TRUE
        BY <1>3
      <3>2. k = "dest" /\ j = i /\ new.rows["dest"][j] = row /\ row.status = s
        BY <1>1, <2>2, <3>1 DEF Chat!Dests, Chat!Has
      <3> QED
        BY <2>2, <3>1, <3>2 DEF Chat!Primaries
    <2> QED
      BY <2>1, <2>2
  <1> QED
    BY <1>3 DEF Chat!Inserted, Chat!HasPrimary

(* The destination that is made primary is, those of other statuses stay   *)
(* as they are.                                                            *)
LEMMA MarkKeepsSome ==
  ASSUME TopologySound(db), NEW i \in Chat!Ids, Chat!Has(db, "dest", i), NEW s, Chat!HasPrimary(db, s)
  PROVE  Chat!HasPrimary(Chat!Marked(db, Chat!Reflagged(db, i), {i}), s)
  <1> DEFINE flags == Chat!Reflagged(db, i)
             new == Chat!Marked(db, flags, {i})
             st == db.rows["dest"][i].status
  <1>d. db \in Store /\ "dest" \in Chat!Kinds
    BY DEF TopologySound, Chat!Kinds
  <1>1. flags \in SUBSET Chat!Ids /\ \A j \in flags : Chat!Has(db, "dest", j)
    BY DEF Chat!Reflagged, Chat!Dests
  <1>2. \A j \in Chat!Ids : /\ j \notin flags => new.rows["dest"][j] = db.rows["dest"][j]
                            /\ j \in flags => /\ new.rows["dest"][j].status = db.rows["dest"][j].status
                                              /\ new.rows["dest"][j].primary = (j = i)
    BY <1>1, MarkedRows
  <1>n. TopologySound(new)
    BY <1>1, MarkedSound
  <1>3. \A j \in Chat!Ids : Chat!Has(new, "dest", j) <=> Chat!Has(db, "dest", j)
    BY <1>1, <1>2, MarkedHas
  <1>4. CASE s = st
    <2>1. new.rows["dest"][i].status = s /\ new.rows["dest"][i].primary
      <3>1. CASE i \in flags
        BY <1>2, <1>4, <3>1
      <3>2. CASE i \notin flags
        BY <1>2, <1>4, <3>2 DEF Chat!Reflagged, Chat!Dests
      <3> QED
        BY <3>1, <3>2
    <2> QED
      BY <1>3, <2>1 DEF Chat!HasPrimary, Chat!Primaries, Chat!Dests
  <1>5. CASE s # st
    <2>1. \A j \in Chat!Ids : j \in flags => db.rows["dest"][j].status = st
      BY DEF Chat!Reflagged, Chat!Dests
    <2>2. \A j \in Chat!Ids : Chat!Has(db, "dest", j) =>
             /\ new.rows["dest"][j].status = db.rows["dest"][j].status
             /\ db.rows["dest"][j].status = s => new.rows["dest"][j] = db.rows["dest"][j]
      BY <1>2, <1>5, <2>1
    <2>3. \A j : j \in Chat!Dests(new, s) <=> j \in Chat!Dests(db, s)
      BY <1>3, <2>2 DEF Chat!Dests
    <2>4. \A j \in Chat!Dests(db, s) : new.rows["dest"][j] = db.rows["dest"][j]
      BY <2>2 DEF Chat!Dests
    <2> QED
      BY <2>3, <2>4 DEF Chat!HasPrimary, Chat!Primaries
  <1> QED
    BY <1>4, <1>5

(* The first of those that remain inherits from a primary destination that *)
(* is deleted; a work group or a route takes no destination with it.       *)
LEMMA DeleteKeepsSome ==
  ASSUME TopologySound(db), NEW k \in Chat!Kinds, NEW i \in Chat!Ids, Chat!Has(db, k, i), k # "source",
         NEW s, Chat!HasPrimary(db, s)
  PROVE  Chat!HasPrimary(Deleted(k, i), s)
  <1> DEFINE heirs == IF k = "dest" THEN Chat!Heirs(db, i) ELSE {}
             rest == Chat!Without(k, i)
             new == Chat!Marked(rest, heirs, heirs)
             st == db.rows["dest"][i].status
  <1>d. db \in Store /\ "dest" \in Chat!Kinds
    BY DEF TopologySound, Chat!Kinds
  <1>1. TopologySound(rest)
    BY WithoutSound
  <1>2. \A j \in Chat!Ids : rest.rows["dest"][j] =
           IF k = "dest" /\ j = i THEN Chat!Absent ELSE db.rows["dest"][j]
    BY <1>d DEF Chat!Without, Store, Chat!Gone
  <1>3. heirs \in SUBSET Chat!Ids
        /\ \A j \in heirs : k = "dest" /\ j # i /\ Chat!Has(db, "dest", j) /\ db.rows["dest"][j].status = st
    BY DEF Chat!Heirs, Chat!Dests
  <1>4. \A j \in heirs : Chat!Has(rest, "dest", j) /\ rest.rows["dest"][j] = db.rows["dest"][j]
    BY <1>2, <1>3 DEF Chat!Has
  <1>5. \A j \in Chat!Ids : /\ j \notin heirs => new.rows["dest"][j] = rest.rows["dest"][j]
                            /\ j \in heirs => /\ new.rows["dest"][j].status = db.rows["dest"][j].status
                                              /\ new.rows["dest"][j].primary
    <2> HIDE DEF heirs, rest
    <2>1. \A j \in Chat!Ids : /\ j \notin heirs => new.rows["dest"][j] = rest.rows["dest"][j]
                              /\ j \in heirs => /\ new.rows["dest"][j].status = rest.rows["dest"][j].status
                                                /\ new.rows["dest"][j].primary = (j \in heirs)
      BY <1>1, <1>3, <1>4, MarkedRows
    <2> QED
      BY <1>4, <2>1
  <1>6. \A j \in Chat!Ids : Chat!Has(new, "dest", j) <=> Chat!Has(rest, "dest", j)
    BY <1>1, <1>3, <1>4, MarkedHas
  <1>7. ASSUME NEW p \in Chat!Primaries(db, s), ~(k = "dest" /\ p = i) PROVE Chat!Primaries(new, s) # {}
    <2>1. p \in Chat!Ids /\ rest.rows["dest"][p] = db.rows["dest"][p]
      BY <1>2, <1>7 DEF Chat!Primaries, Chat!Dests
    <2>2. Chat!Has(new, "dest", p) /\ new.rows["dest"][p].status = s /\ new.rows["dest"][p].primary
      BY <1>5, <1>6, <1>7, <2>1 DEF Chat!Primaries, Chat!Dests, Chat!Has
    <2> QED
      BY <2>1, <2>2 DEF Chat!Primaries, Chat!Dests
  <1>8. ASSUME Chat!Dests(new, s) # {} PROVE Chat!Primaries(new, s) # {}
    <2>1. PICK j \in Chat!Dests(new, s) : TRUE
      BY <1>8
    <2>2. j \in Chat!Dests(db, s) /\ ~(k = "dest" /\ j = i)
      <3>1. j \in Chat!Ids /\ Chat!Has(rest, "dest", j) /\ new.rows["dest"][j].status = s
        BY <1>6, <2>1 DEF Chat!Dests
      <3>2. ~(k = "dest" /\ j = i) /\ rest.rows["dest"][j] = db.rows["dest"][j]
        BY <1>2, <3>1 DEF Chat!Has
      <3> QED
        BY <1>5, <3>1, <3>2 DEF Chat!Dests, Chat!Has
    <2>3. PICK p \in Chat!Primaries(db, s) : TRUE
      BY <2>2 DEF Chat!HasPrimary
    <2>4. CASE k = "dest" /\ p = i
      <3>1. db.rows["dest"][i].primary /\ s = st
        BY <2>3, <2>4 DEF Chat!Primaries, Chat!Dests
      <3>2. heirs # {}
        BY <2>2, <2>4, <3>1, HeirExists
      <3>3. PICK h \in heirs : TRUE
        BY <3>2
      <3>4. Chat!Has(new, "dest", h) /\ new.rows["dest"][h].status = s /\ new.rows["dest"][h].primary
        BY <1>3, <1>4, <1>5, <1>6, <3>1, <3>3
      <3> QED
        BY <1>3, <3>3, <3>4 DEF Chat!Primaries, Chat!Dests
    <2> QED
      BY <1>7, <2>3, <2>4
  <1> QED
    BY <1>8 DEF Chat!HasPrimary, Deleted

LEMMA SomeStep == TopologyInv /\ [Chat!Next]_panel => Chat!KeepsPrimary
  <1> SUFFICES ASSUME TopologyInv, [Chat!Next]_panel, ~Chat!OnlyByRace, NEW s \in Statuses,
                      Chat!HasPrimary(db, s),
                      ~\E t \in Tasks : Chat!Commits(t) /\ tx[t].op = "delete" /\ tx[t].on = "source"
               PROVE  Chat!HasPrimary(db', s)
    BY DEF Chat!KeepsPrimary
  <1>1. TopologySound(db) /\ FlagsChange
    BY FlagsStep DEF TopologyInv
  <1> QED
    BY <1>1, NoneLost, InsertedKeepsSome, MarkKeepsSome, DeleteKeepsSome DEF FlagsChange

(* A status that has destinations keeps a primary one, which the policy    *)
(* that waits for the primary destination relies on, unless a handler      *)
(* commits over what it did not see or a source is deleted.                *)
THEOREM PrimaryKept == WholeChats => (Spec => PrimaryIsKept)
  <1> SUFFICES ASSUME WholeChats PROVE Spec => PrimaryIsKept
    OBVIOUS
  <1>1. (screen = "chats" => TopologyInv) /\ [Next]_<<panel, screen>>
        => (screen = "chats" => Chat!KeepsPrimary)
    BY TopologyOneScreen, SomeStep
  <1> QED
    BY <1>1, TopologyAlways, PTL DEF Spec, PrimaryIsKept
===============================================================================
