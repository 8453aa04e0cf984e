----------------------------- MODULE RosterProofs ------------------------------
(* Theorems about administrators and operators, for every number of users, *)
(* work groups and handlers that overlap.                                  *)
EXTENDS Panel, TLAPS

EnvAreUsers == Env \subseteq Users

------------------------------------------------------------------------------
(* Administrators of the environment: every row a handler reads or writes  *)
(* of one of them carries from_env, by which the buttons are locked.       *)

EnvKeeps(d) ==
    \A u \in Env : d.admins[u] # People!NoAdmin /\ d.admins[u].from_env /\ d.admins[u].enabled
GroupsRemain(d) ==
    \A u \in Users : d.operators[u] # People!NoOperator => d.operators[u].groups \subseteq d.groups
RosterSound(d) == d \in People!Rows /\ EnvKeeps(d) /\ GroupsRemain(d)
RosterInv ==
    /\ People!TypeOK /\ RosterSound(db)
    /\ \A t \in Tasks : tx[t] # People!NoTx => RosterSound(tx[t].seen)

(* What a press holds, by its operation. *)
LEMMA RosterPressHolds ==
  ASSUME NEW x \in People!Presses
  PROVE  /\ x.op # People!None /\ x.seen \in People!Rows /\ x.data = People!None
         /\ x.op \in People!AdminOps \cup People!OperatorOps => x.on \in Users
         /\ x.op = "op_assign" => x.value \in Groups
         /\ x.op = "group_delete" => x.on \in Groups
         /\ x.op \in {"add", "op_add"} => x.value \in Users
  BY DEF People!Presses, People!Of, People!None, People!AdminOps, People!OperatorOps

LEMMA RosterHandling ==
  ASSUME RosterInv, NEW t \in Tasks, NEW op, op # People!None, People!Handles(t, op)
  PROVE  tx[t] \in People!Presses /\ tx[t].op = op /\ RosterSound(tx[t].seen)
  BY DEF RosterInv, People!TypeOK, People!Handles, People!NoTx

LEMMA RosterCommitting ==
  ASSUME RosterInv, NEW t \in Tasks, NEW op, op # People!None, People!Handles(t, op), People!End(t)
  PROVE  People!Commits(t) /\ tx[t].op = op
  <1>1. tx[t] \in People!Presses /\ tx[t].op = op
    BY RosterHandling
  <1>2. tx' = [tx EXCEPT ![t] = People!NoTx] /\ tx \in [Tasks -> People!Presses \cup {People!NoTx}]
    BY DEF People!End, RosterInv, People!TypeOK
  <1>3. tx[t] # People!NoTx
    BY <1>1, RosterPressHolds DEF People!NoTx
  <1> QED
    BY <1>1, <1>2, <1>3 DEF People!Commits, People!Handles

LEMMA RosterPressInv ==
  ASSUME RosterInv, NEW t \in Tasks, NEW op, NEW on, NEW value, People!Press(t, op, on, value),
         [op |-> op, on |-> on, value |-> value, open |-> FALSE,
          data |-> asked.data, seen |-> db] \in People!Presses
  PROVE  RosterInv'
  <1>1. People!TypeOK'
    BY PanelAssumption DEF RosterInv, People!TypeOK, People!Press
  <1>2. tx' = [tx EXCEPT ![t] = [op |-> op, on |-> on, value |-> value, open |-> FALSE,
                                 data |-> asked.data, seen |-> db]] /\ db' = db
    BY DEF People!Press
  <1>3. tx \in [Tasks -> People!Presses \cup {People!NoTx}]
    BY DEF RosterInv, People!TypeOK
  <1> QED
    BY <1>1, <1>2, <1>3 DEF RosterInv

LEMMA RosterOpenInv ==
  ASSUME RosterInv, NEW t \in Tasks, People!Open(t)
  PROVE  RosterInv'
  <1>d. db \in People!Rows /\ asked.data = People!None /\ tx \in [Tasks -> People!Presses \cup {People!NoTx}]
    BY DEF RosterInv, People!TypeOK, People!NoData
  <1>1. tx[t] \in People!Presses
    BY <1>d DEF People!Open
  <1> DEFINE now == [tx[t] EXCEPT !.open = TRUE, !.data = asked.data, !.seen = db]
  <1>2. now \in People!Presses /\ now.seen = db
    BY <1>d, <1>1 DEF People!Presses, People!Of
  <1>3. tx' = [tx EXCEPT ![t] = now]
    BY <1>d, <1>1 DEF People!Open, People!Presses, People!Of
  <1>4. People!TypeOK'
    BY <1>2, <1>3 DEF RosterInv, People!TypeOK, People!Open
  <1>5. \A v \in Tasks : tx'[v] # People!NoTx => RosterSound(tx'[v].seen)
    BY <1>d, <1>2, <1>3 DEF RosterInv
  <1> QED
    BY <1>4, <1>5 DEF People!Open, RosterInv

LEMMA RosterEndInv ==
  ASSUME RosterInv, NEW t \in Tasks, NEW new, RosterSound(new), db' = new, People!End(t),
         asked' \in [state : People!States, data : {People!NoData}]
  PROVE  RosterInv'
  <1>1. tx \in [Tasks -> People!Presses \cup {People!NoTx}] /\ tx' = [tx EXCEPT ![t] = People!NoTx]
    BY DEF RosterInv, People!TypeOK, People!End
  <1>2. People!TypeOK'
    BY <1>1 DEF RosterInv, People!TypeOK, RosterSound, EnvKeeps, GroupsRemain, People!End
  <1> QED
    BY <1>1, <1>2 DEF RosterInv

LEMMA RosterCommitInv ==
  ASSUME RosterInv, NEW t \in Tasks, NEW new, RosterSound(new), People!Commit(t, new)
  PROVE  RosterInv'
  BY RosterEndInv DEF People!Commit, RosterInv, People!TypeOK

LEMMA RosterClearInv ==
  ASSUME RosterInv, NEW t \in Tasks, NEW new, RosterSound(new), People!CommitAndClear(t, new, People!NoData)
  PROVE  RosterInv'
  BY RosterEndInv DEF People!CommitAndClear, People!States

LEMMA RosterAskInv ==
  ASSUME RosterInv, NEW t \in Tasks, NEW state \in People!States, People!Ask(t, state, People!NoData)
  PROVE  RosterInv'
  BY RosterEndInv DEF People!Ask, RosterInv

LEMMA RosterRefuseInv ==
  ASSUME RosterInv, NEW t \in Tasks, People!Refuse(t)
  PROVE  RosterInv'
  BY RosterCommitInv DEF People!Refuse, RosterInv

LEMMA RosterInit == EnvAreUsers /\ People!Init => RosterInv
  <1> SUFFICES ASSUME EnvAreUsers, People!Init PROVE RosterInv
    OBVIOUS
  <1>1. PICK row \in {People!NoOperator} \cup [scope : {"all", "selected"}, enabled : {TRUE}, groups : People!Assignments],
             other \in {People!NoAdmin, People!PanelAdmin} :
         db = [admins |-> [v \in Users |-> IF v \in Env THEN People!EnvAdmin ELSE other],
               operators |-> [v \in Users |-> IF v \in Env THEN People!NoOperator ELSE row],
               groups |-> Groups]
    BY DEF People!Init
  <1>2. People!EnvAdmin \in People!AdminRows /\ other \in People!AdminRows /\ row \in People!OperatorRows
    <2>1. People!EnvAdmin \in People!AdminRows /\ People!PanelAdmin \in People!AdminRows /\ People!NoAdmin \in People!AdminRows
      BY DEF People!EnvAdmin, People!PanelAdmin, People!AdminRows, People!Roles
    <2>2. [scope : {"all", "selected"}, enabled : {TRUE}, groups : People!Assignments]
            \subseteq [scope : {"all", "selected"}, enabled : BOOLEAN, groups : People!Assignments]
      OBVIOUS
    <2> QED
      BY <1>1, <2>1, <2>2 DEF People!OperatorRows
  <1>3. db \in People!Rows
    BY <1>1, <1>2 DEF People!Rows, People!OperatorRows
  <1>4. EnvKeeps(db)
    BY <1>1 DEF EnvAreUsers, EnvKeeps, People!EnvAdmin, People!NoAdmin
  <1>5. GroupsRemain(db)
    BY <1>1 DEF GroupsRemain, People!Assignments
  <1>6. tx = [t \in Tasks |-> People!NoTx] /\ presses = 0 /\ asked = [state |-> People!None, data |-> People!NoData]
    BY DEF People!Init
  <1> QED
    BY <1>3, <1>4, <1>5, <1>6, PanelAssumption
    DEF RosterInv, People!TypeOK, RosterSound, EnvKeeps, GroupsRemain, People!States

------------------------------------------------------------------------------
(* Steps *)

LEMMA RosterButtonStep ==
  ASSUME RosterInv, NEW t \in Tasks,
         \/ People!PressAdmin(t) \/ People!PressAddAdmin(t) \/ People!PressOperator(t) \/ People!PressAddOperator(t)
         \/ People!PressGroup(t) \/ People!SendUserId(t)
  PROVE  RosterInv'
  <1> USE DEF People!Presses, People!Of, People!AdminOps, People!OperatorOps
  <1>d. db \in People!Rows /\ asked.data = People!None
    BY DEF RosterInv, People!TypeOK, People!NoData
  <1>1. ASSUME NEW op \in People!AdminOps \cup (People!OperatorOps \ {"op_assign"}), NEW u \in Users,
               People!Press(t, op, u, People!None)
        PROVE  RosterInv'
    BY <1>d, <1>1, RosterPressInv
  <1>2. ASSUME NEW u \in Users, NEW g \in Groups, People!Press(t, "op_assign", u, g) PROVE RosterInv'
    BY <1>d, <1>2, RosterPressInv
  <1>3. ASSUME NEW g \in Groups, People!Press(t, "group_delete", g, People!None) PROVE RosterInv'
    BY <1>d, <1>3, RosterPressInv
  <1>4. ASSUME NEW op \in {"ask_add", "ask_op_add", "leave"}, People!Press(t, op, People!None, People!None)
        PROVE  RosterInv'
    BY <1>d, <1>4, RosterPressInv
  <1>5. ASSUME NEW op \in {"add", "op_add"}, NEW u \in Users, People!Press(t, op, People!None, u)
        PROVE  RosterInv'
    BY <1>d, <1>5, RosterPressInv
  <1> QED
    BY <1>1, <1>2, <1>3, <1>4, <1>5
    DEF People!PressAdmin, People!PressAddAdmin, People!PressOperator,
       People!PressAddOperator, People!PressGroup, People!SendUserId, People!Answer

(* A button on an administrator changes no row of the environment: those   *)
(* carry from_env in what the handler read.                                *)
LEMMA AdminStep ==
  ASSUME EnvAreUsers, RosterInv, NEW t \in Tasks,
         People!AddAdmin(t) \/ People!ToggleRole(t) \/ People!ToggleEnabled(t) \/ People!DeleteAdmin(t)
  PROVE  RosterInv'
  <1>d. RosterSound(db) /\ db \in People!Rows
    BY DEF RosterInv, RosterSound
  <1>r. ASSUME NEW u \in Users, NEW row \in People!AdminRows,
               u \in Env => row # People!NoAdmin /\ row.from_env /\ row.enabled
        PROVE  RosterSound([db EXCEPT !.admins[u] = row])
    <2> DEFINE new == [db EXCEPT !.admins[u] = row]
    <2>1. new \in People!Rows /\ new.operators = db.operators /\ new.groups = db.groups
      BY <1>d DEF People!Rows
    <2>2. \A v \in Users : new.admins[v] = IF v = u THEN row ELSE db.admins[v]
      BY <1>d DEF People!Rows
    <2> QED
      BY <1>r, <1>d, <2>1, <2>2 DEF RosterSound, EnvKeeps, GroupsRemain, EnvAreUsers
  <1>1. CASE People!AddAdmin(t)
    <2> DEFINE u == tx[t].value
               row == People!Added(db.admins[u])
    <2>1. u \in Users
      BY <1>1, RosterHandling, RosterPressHolds DEF People!AddAdmin, People!None
    <2>2. row \in People!AdminRows
      BY <1>d, <2>1 DEF People!Rows, People!Added, People!AdminRows, People!Roles
    <2>3. u \in Env => row # People!NoAdmin /\ row.from_env /\ row.enabled
      BY <1>d, <2>1 DEF RosterSound, EnvKeeps, People!Added, People!NoAdmin
    <2>4. People!CommitAndClear(t, [db EXCEPT !.admins[u] = row], People!NoData)
      BY <1>1, <1>d, <2>1 DEF People!AddAdmin, People!Rows
    <2> QED
      BY <1>r, <2>1, <2>2, <2>3, <2>4, RosterClearInv
  <1>2. CASE People!ToggleRole(t) /\ ~People!Refuse(t)
    <2> DEFINE u == tx[t].on
               role == IF tx[t].seen.admins[u].role = "ADMIN" THEN "SUPER_ADMIN" ELSE "ADMIN"
               row == [db.admins[u] EXCEPT !.role = role]
    <2>1. u \in Users /\ RosterSound(tx[t].seen)
      BY <1>2, RosterHandling, RosterPressHolds DEF People!ToggleRole, People!None, People!AdminOps
    <2>2. u \notin Env /\ db.admins[u] # People!NoAdmin
      BY <1>2, <2>1 DEF People!ToggleRole, People!Locked, RosterSound, EnvKeeps
    <2>3. row \in People!AdminRows
      BY <1>d, <2>1, <2>2 DEF People!Rows, People!AdminRows, People!Roles
    <2>4. People!Commit(t, [db EXCEPT !.admins[u] = row])
      BY <1>2, <1>d, <2>1, <2>2 DEF People!ToggleRole, People!Rows, People!AdminRows
    <2> QED
      BY <1>r, <2>1, <2>2, <2>3, <2>4, RosterCommitInv
  <1>3. CASE People!ToggleEnabled(t) /\ ~People!Refuse(t)
    <2> DEFINE u == tx[t].on
               row == [db.admins[u] EXCEPT !.enabled = ~tx[t].seen.admins[u].enabled]
    <2>1. u \in Users /\ RosterSound(tx[t].seen)
      BY <1>3, RosterHandling, RosterPressHolds
         DEF People!ToggleEnabled, People!None, People!AdminOps
    <2>2. u \notin Env /\ db.admins[u] # People!NoAdmin
      BY <1>3, <2>1 DEF People!ToggleEnabled, People!Locked, RosterSound, EnvKeeps
    <2>3. row \in People!AdminRows
      BY <1>d, <2>1, <2>2 DEF People!Rows, People!AdminRows, People!Roles
    <2>4. People!Commit(t, [db EXCEPT !.admins[u] = row])
      BY <1>3, <1>d, <2>1, <2>2 DEF People!ToggleEnabled, People!Rows, People!AdminRows
    <2> QED
      BY <1>r, <2>1, <2>2, <2>3, <2>4, RosterCommitInv
  <1>4. CASE People!DeleteAdmin(t) /\ ~People!Refuse(t)
    <2>1. tx[t].on \in Users /\ RosterSound(tx[t].seen)
      BY <1>4, RosterHandling, RosterPressHolds DEF People!DeleteAdmin, People!None, People!AdminOps
    <2>2. tx[t].on \notin Env
      BY <1>4, <2>1 DEF People!DeleteAdmin, People!Locked, RosterSound, EnvKeeps
    <2> QED
      BY <1>4, <1>r, <2>1, <2>2, RosterCommitInv DEF People!DeleteAdmin, People!AdminRows
  <1> QED
    BY <1>1, <1>2, <1>3, <1>4, RosterRefuseInv

LEMMA OperatorStep ==
  ASSUME RosterInv, NEW t \in Tasks,
         \/ People!AddOperator(t) \/ People!ToggleOperator(t) \/ People!ToggleScope(t) \/ People!ToggleAssignment(t)
         \/ People!DeleteOperator(t)
  PROVE  RosterInv'
  <1>d. RosterSound(db) /\ db \in People!Rows
    BY DEF RosterInv, RosterSound
  <1>r. ASSUME NEW u \in Users, NEW row \in People!OperatorRows,
               row # People!NoOperator => row.groups \subseteq db.groups
        PROVE  RosterSound([db EXCEPT !.operators[u] = row])
    <2> DEFINE new == [db EXCEPT !.operators[u] = row]
    <2>1. new \in People!Rows /\ new.admins = db.admins /\ new.groups = db.groups
      BY <1>d DEF People!Rows
    <2>2. \A v \in Users : new.operators[v] = IF v = u THEN row ELSE db.operators[v]
      BY <1>d DEF People!Rows
    <2> QED
      BY <1>r, <1>d, <2>1, <2>2 DEF RosterSound, EnvKeeps, GroupsRemain
  <1>1. CASE People!AddOperator(t)
    <2> DEFINE u == tx[t].value
               row == People!Hired(db.operators[u])
    <2>1. u \in Users
      BY <1>1, RosterHandling, RosterPressHolds DEF People!AddOperator, People!None
    <2>2. row \in People!OperatorRows /\ (row # People!NoOperator => row.groups \subseteq db.groups)
      <3>1. db.operators[u] \in People!OperatorRows
        BY <1>d, <2>1 DEF People!Rows
      <3>2. CASE db.operators[u] = People!NoOperator
        BY <3>2 DEF People!Hired, People!OperatorRows, People!Assignments
      <3>3. CASE db.operators[u] # People!NoOperator
        <4>1. row = [db.operators[u] EXCEPT !.enabled = TRUE]
          BY <3>3 DEF People!Hired
        <4>2. row \in People!OperatorRows /\ row.groups = db.operators[u].groups
          BY <3>1, <3>3, <4>1 DEF People!OperatorRows
        <4> QED
          BY <1>d, <2>1, <3>3, <4>2 DEF RosterSound, GroupsRemain
      <3> QED
        BY <3>2, <3>3
    <2>3. People!CommitAndClear(t, [db EXCEPT !.operators[u] = row], People!NoData)
      BY <1>1, <1>d, <2>1 DEF People!AddOperator, People!Rows
    <2> QED
      BY <1>r, <2>1, <2>2, <2>3, RosterClearInv
  <1>c. ASSUME NEW op \in People!OperatorOps, People!Changes(t, op)
        PROVE  /\ tx[t].op = op /\ tx[t].on \in Users /\ tx[t] \in People!Presses
               /\ db.operators[tx[t].on] # People!NoOperator
               /\ db.operators[tx[t].on] \in People!OperatorRows
               /\ db.operators[tx[t].on].groups \subseteq db.groups
    BY <1>c, <1>d, RosterHandling, RosterPressHolds
    DEF People!Changes, People!OperatorOps, People!None, RosterSound, GroupsRemain, People!Rows
  <1>2. CASE People!ToggleOperator(t)
    <2> DEFINE u == tx[t].on
               row == [db.operators[u] EXCEPT !.enabled = ~tx[t].seen.operators[u].enabled]
    <2>1. row \in People!OperatorRows /\ row.groups = db.operators[u].groups
      BY <1>2, <1>c DEF People!ToggleOperator, People!OperatorOps, People!OperatorRows
    <2>2. People!Commit(t, [db EXCEPT !.operators[u] = row])
      BY <1>2, <1>c, <1>d DEF People!ToggleOperator, People!OperatorOps,
         People!OperatorRows, People!Rows
    <2> QED
      BY <1>2, <1>c, <1>r, <2>1, <2>2, RosterCommitInv DEF People!ToggleOperator,
         People!OperatorOps
  <1>3. CASE People!ToggleScope(t)
    <2> DEFINE u == tx[t].on
               scope == IF tx[t].seen.operators[u].scope = "all" THEN "selected" ELSE "all"
               row == [db.operators[u] EXCEPT !.scope = scope]
    <2>1. row \in People!OperatorRows /\ row.groups = db.operators[u].groups
      BY <1>3, <1>c DEF People!ToggleScope, People!OperatorOps, People!OperatorRows
    <2>2. People!Commit(t, [db EXCEPT !.operators[u] = row])
      BY <1>3, <1>c, <1>d DEF People!ToggleScope, People!OperatorOps,
         People!OperatorRows, People!Rows
    <2> QED
      BY <1>3, <1>c, <1>r, <2>1, <2>2, RosterCommitInv DEF People!ToggleScope, People!OperatorOps
  <1>4. CASE People!ToggleAssignment(t) /\ ~People!Refuse(t)
    <2> DEFINE u == tx[t].on
               g == tx[t].value
    <2>1. g \in Groups
      BY <1>4, <1>c, RosterPressHolds DEF People!ToggleAssignment, People!OperatorOps
    <2>2. PICK groups \in {db.operators[u].groups \cup {g}, db.operators[u].groups \ {g}} :
             /\ groups \subseteq db.groups
             /\ People!Commit(t, [db EXCEPT !.operators[u].groups = groups])
      BY <1>4, <1>c, <1>d DEF People!ToggleAssignment, People!OperatorOps,
         People!Assigned, People!Unassigned, People!Rows
    <2> DEFINE row == [db.operators[u] EXCEPT !.groups = groups]
    <2>3. row \in People!OperatorRows /\ row.groups = groups
      BY <1>4, <1>c, <2>1, <2>2 DEF People!ToggleAssignment, People!OperatorOps,
         People!OperatorRows, People!Assignments
    <2>4. People!Commit(t, [db EXCEPT !.operators[u] = row])
      BY <1>4, <1>c, <1>d, <2>2 DEF People!ToggleAssignment, People!OperatorOps,
         People!OperatorRows, People!Rows
    <2> QED
      BY <1>4, <1>c, <1>r, <2>2, <2>3, <2>4, RosterCommitInv DEF People!ToggleAssignment,
         People!OperatorOps
  <1>5. CASE People!DeleteOperator(t)
    BY <1>5, <1>c, <1>r, RosterCommitInv DEF People!DeleteOperator, People!OperatorOps,
       People!OperatorRows
  <1> QED
    BY <1>1, <1>2, <1>3, <1>4, <1>5, RosterRefuseInv

LEMMA GroupStep ==
  ASSUME EnvAreUsers, RosterInv, NEW t \in Tasks, People!DeleteGroup(t)
  PROVE  RosterInv'
  <1>d. RosterSound(db) /\ db \in People!Rows
    BY DEF RosterInv, RosterSound
  <1> DEFINE g == tx[t].on
             new == [db EXCEPT !.groups = @ \ {g},
                               !.operators = [u \in Users |-> People!Without(db.operators[u], g)]]
  <1>1. new.groups = db.groups \ {g} /\ new.admins = db.admins
        /\ new.operators = [u \in Users |-> People!Without(db.operators[u], g)]
    BY <1>d DEF People!Rows
  <1>2. ASSUME NEW u \in Users
        PROVE  /\ People!Without(db.operators[u], g) \in People!OperatorRows
               /\ People!Without(db.operators[u], g) # People!NoOperator =>
                           People!Without(db.operators[u], g).groups \subseteq db.groups \ {g}
    <2>1. db.operators[u] \in People!OperatorRows
      BY <1>d DEF People!Rows
    <2>2. CASE db.operators[u] = People!NoOperator
      BY <2>1, <2>2 DEF People!Without
    <2>3. CASE db.operators[u] # People!NoOperator
      <3>1. People!Without(db.operators[u], g) = [db.operators[u] EXCEPT !.groups = @ \ {g}]
        BY <2>3 DEF People!Without
      <3>2. db.operators[u].groups \subseteq db.groups
        BY <1>d, <2>3 DEF RosterSound, GroupsRemain
      <3>3. db.operators[u].groups \in People!Assignments
        BY <2>1, <2>3 DEF People!OperatorRows
      <3> QED
        BY <2>1, <2>3, <3>1, <3>2, <3>3 DEF People!OperatorRows, People!Assignments
    <2> QED
      BY <2>2, <2>3
  <1>3. new \in People!Rows
    BY <1>1, <1>2, <1>d DEF People!Rows
  <1>4. GroupsRemain(new)
    BY <1>1, <1>2 DEF GroupsRemain
  <1>5. RosterSound(new)
    BY <1>1, <1>3, <1>4, <1>d DEF RosterSound, EnvKeeps
  <1> QED
    BY <1>5, RosterCommitInv DEF People!DeleteGroup

LEMMA RestartStep ==
  ASSUME EnvAreUsers, RosterInv, People!Restart
  PROVE  RosterInv'
  <1>d. RosterSound(db) /\ db \in People!Rows
    BY DEF RosterInv, RosterSound
  <1>1. db'.operators = db.operators /\ db'.groups = db.groups
        /\ db'.admins = [u \in Users |-> IF u \in Env THEN People!EnvAdmin ELSE db.admins[u]]
    BY <1>d DEF People!Restart, People!Upserted, People!Rows
  <1>2. People!EnvAdmin \in People!AdminRows /\ People!EnvAdmin # People!NoAdmin /\ People!EnvAdmin.from_env /\ People!EnvAdmin.enabled
    BY DEF People!EnvAdmin, People!AdminRows, People!Roles, People!NoAdmin
  <1>3. db' \in People!Rows
    BY <1>d, <1>1, <1>2 DEF People!Rows, People!Restart
  <1>4. RosterSound(db')
    BY <1>d, <1>1, <1>2, <1>3 DEF RosterSound, EnvKeeps, GroupsRemain, EnvAreUsers
  <1>5. tx' = [t \in Tasks |-> People!NoTx] /\ asked' = [state |-> People!None, data |-> People!NoData]
        /\ presses' = presses
    BY DEF People!Restart
  <1>6. People!TypeOK'
    BY <1>3, <1>4, <1>5 DEF RosterInv, People!TypeOK, RosterSound, EnvKeeps, GroupsRemain,
       People!States
  <1> QED
    BY <1>4, <1>5, <1>6 DEF RosterInv

LEMMA RosterStep == EnvAreUsers /\ RosterInv /\ [People!Next]_panel => RosterInv'
  <1> SUFFICES ASSUME EnvAreUsers, RosterInv, [People!Next]_panel PROVE RosterInv'
    OBVIOUS
  <1>1. ASSUME NEW t \in Tasks, People!PromptAdmin(t) \/ People!PromptOperator(t) \/ People!Leave(t) PROVE RosterInv'
    BY <1>1, RosterAskInv, RosterClearInv DEF People!PromptAdmin, People!PromptOperator,
       People!Leave, People!States, RosterInv
  <1>2. ASSUME NEW t \in Tasks, People!NoSuchOperator(t) PROVE RosterInv'
    BY <1>2, RosterRefuseInv DEF People!NoSuchOperator
  <1>3. CASE UNCHANGED panel
    BY <1>3 DEF RosterInv, People!TypeOK, panel, RosterSound, EnvKeeps, GroupsRemain
  <1> QED
    BY <1>1, <1>2, <1>3, RestartStep, RosterButtonStep, RosterOpenInv, AdminStep, OperatorStep,
       GroupStep
    DEF People!Next

------------------------------------------------------------------------------
(* Theorems *)

(* A screen stays what it is, and only its handlers act. *)
LEMMA RosterOneScreen ==
  [Next]_<<panel, screen>> => screen' = screen /\ (screen = "people" => [People!Next]_panel)
  BY DEF Next, panel

(* Every reachable state of the roster satisfies the invariant. *)
THEOREM RosterAlways == EnvAreUsers => (Spec => [](screen = "people" => RosterInv))
  <1> SUFFICES ASSUME EnvAreUsers PROVE Spec => [](screen = "people" => RosterInv)
    OBVIOUS
  <1>1. Init => (screen = "people" => RosterInv)
    BY RosterInit DEF Init
  <1>2. (screen = "people" => RosterInv) /\ [Next]_<<panel, screen>>
        => (screen = "people" => RosterInv)'
    BY RosterOneScreen, RosterStep
  <1> QED
    BY <1>1, <1>2, PTL DEF Spec

(* Every reachable state of the roster is well typed: administrators of    *)
(* the environment keep a row, and no assignment outlives its work group.  *)
THEOREM RosterTypeCorrect == EnvAreUsers => (Spec => [](screen = "people" => People!TypeOK))
  <1> SUFFICES ASSUME EnvAreUsers PROVE Spec => [](screen = "people" => People!TypeOK)
    OBVIOUS
  <1>1. (screen = "people" => RosterInv) => (screen = "people" => People!TypeOK)
    BY DEF RosterInv
  <1> QED
    BY <1>1, RosterAlways, PTL

(* Steps that leave the administrators, or the operators, alone. *)
LEMMA OtherSteps ==
  ASSUME RosterInv, NEW t \in Tasks
  PROVE  /\ \/ People!PressAdmin(t) \/ People!PressAddAdmin(t) \/ People!PressOperator(t) \/ People!PressAddOperator(t)
            \/ People!PressGroup(t) \/ People!SendUserId(t) \/ People!Open(t)
            \/ People!PromptAdmin(t) \/ People!PromptOperator(t) \/ People!Leave(t) \/ People!NoSuchOperator(t)
            => db' = db
         /\ \/ People!AddAdmin(t) \/ People!ToggleRole(t) \/ People!ToggleEnabled(t) \/ People!DeleteAdmin(t)
            => db'.operators = db.operators
         /\ \/ People!AddOperator(t) \/ People!ToggleOperator(t) \/ People!ToggleScope(t) \/ People!ToggleAssignment(t)
            \/ People!DeleteOperator(t) \/ People!DeleteGroup(t)
            => db'.admins = db.admins
  <1>d. db \in People!Rows
    BY DEF RosterInv, People!TypeOK
  <1>1. \/ People!PressAdmin(t) \/ People!PressAddAdmin(t) \/ People!PressOperator(t) \/ People!PressAddOperator(t)
        \/ People!PressGroup(t) \/ People!SendUserId(t) \/ People!Open(t)
        \/ People!PromptAdmin(t) \/ People!PromptOperator(t) \/ People!Leave(t) \/ People!NoSuchOperator(t)
        => db' = db
    BY DEF People!PressAdmin, People!PressAddAdmin, People!PressOperator,
       People!PressAddOperator, People!PressGroup, People!SendUserId,
           People!Answer, People!Press, People!Open, People!PromptAdmin, People!PromptOperator, People!Leave, People!NoSuchOperator, People!Ask,
           People!CommitAndClear, People!Refuse, People!Commit
  <1>2. People!AddAdmin(t) \/ People!ToggleRole(t) \/ People!ToggleEnabled(t) \/ People!DeleteAdmin(t)
        => db'.operators = db.operators
    BY <1>d DEF People!AddAdmin, People!ToggleRole, People!ToggleEnabled,
       People!DeleteAdmin, People!CommitAndClear, People!Commit, People!Refuse, People!Rows
  <1>3. \/ People!AddOperator(t) \/ People!ToggleOperator(t) \/ People!ToggleScope(t) \/ People!ToggleAssignment(t)
        \/ People!DeleteOperator(t) \/ People!DeleteGroup(t)
        => db'.admins = db.admins
    BY <1>d DEF People!AddOperator, People!ToggleOperator, People!ToggleScope,
       People!ToggleAssignment, People!DeleteOperator,
                People!DeleteGroup, People!Assigned, People!Unassigned, People!CommitAndClear, People!Commit, People!Refuse, People!Rows
  <1> QED
    BY <1>1, <1>2, <1>3

(* The buttons find from_env in whatever version of the row they read. *)
LEMMA DemoteStep == EnvAreUsers /\ RosterInv /\ [People!Next]_panel => People!DemotesByAdding
  <1> SUFFICES ASSUME EnvAreUsers, RosterInv, [People!Next]_panel, NEW u \in Env,
                      db.admins[u] # db'.admins[u]
               PROVE  /\ \/ db'.admins[u] = People!EnvAdmin
                         \/ \E t \in Tasks :
                              People!Commits(t) /\ tx[t].op = "add" /\ tx[t].value = u
                      /\ db'.admins[u] # People!NoAdmin /\ db'.admins[u].enabled
    BY DEF People!DemotesByAdding
  <1>d. db \in People!Rows /\ u \in Users /\ RosterSound(db)
    BY DEF RosterInv, People!TypeOK, EnvAreUsers
  <1>n. RosterInv'
    BY RosterStep
  <1>e. db'.admins[u] # People!NoAdmin /\ db'.admins[u].enabled
    BY <1>n DEF RosterInv, RosterSound, EnvKeeps
  <1>1. CASE People!Restart
    BY <1>1, <1>d, <1>e DEF People!Restart, People!Upserted, People!Rows
  <1>2. ASSUME NEW t \in Tasks, People!AddAdmin(t)
        PROVE  People!Commits(t) /\ tx[t].op = "add" /\ tx[t].value = u
    <2>1. People!Commits(t) /\ tx[t].op = "add"
      BY <1>2, RosterCommitting DEF People!AddAdmin, People!CommitAndClear, People!None
    <2>2. db' = [db EXCEPT !.admins[tx[t].value] = People!Added(@)]
      BY <1>2 DEF People!AddAdmin, People!CommitAndClear
    <2> QED
      BY <1>d, <2>1, <2>2 DEF People!Rows
  <1>3. ASSUME NEW t \in Tasks, People!ToggleRole(t) \/ People!ToggleEnabled(t) \/ People!DeleteAdmin(t) PROVE FALSE
    <2> DEFINE op == tx[t].op
    <2>1. op \in People!AdminOps /\ RosterSound(tx[t].seen)
      BY <1>3, RosterHandling DEF People!ToggleRole, People!ToggleEnabled, People!DeleteAdmin,
         People!AdminOps, People!None
    <2>2. tx[t].on # u => db'.admins[u] = db.admins[u]
      BY <1>3, <1>d DEF People!ToggleRole, People!ToggleEnabled, People!DeleteAdmin,
         People!Commit, People!Refuse, People!Rows
    <2>3. People!Locked(tx[t].seen.admins[u])
      BY <2>1 DEF RosterSound, EnvKeeps, People!Locked
    <2>4. tx[t].on = u => db' = db
      BY <1>3, <2>3 DEF People!ToggleRole, People!ToggleEnabled, People!DeleteAdmin,
         People!Commit, People!Refuse
    <2> QED
      BY <2>2, <2>4
  <1>4. CASE UNCHANGED panel
    BY <1>4 DEF panel
  <1> QED
    BY <1>1, <1>2, <1>3, <1>4, <1>e, OtherSteps DEF People!Next

(* No button, no handler that runs late and no race takes a right from an  *)
(* administrator of the environment; only adding his user id does, and it  *)
(* leaves him enabled.                                                     *)
THEOREM DemotedByAddingOnly == EnvAreUsers => (Spec => OnlyAddingDemotes)
  <1> SUFFICES ASSUME EnvAreUsers PROVE Spec => OnlyAddingDemotes
    OBVIOUS
  <1>1. (screen = "people" => RosterInv) /\ [Next]_<<panel, screen>>
        => (screen = "people" => People!DemotesByAdding)
    BY RosterOneScreen, DemoteStep
  <1> QED
    BY <1>1, RosterAlways, PTL DEF Spec, OnlyAddingDemotes

(* An operator's row decides alone where he may act, and a step changes    *)
(* one row, or takes a group out of them all.                              *)
LEMMA GrantStep == RosterInv /\ [People!Next]_panel => People!GrantsAuthority
  <1> SUFFICES ASSUME RosterInv, [People!Next]_panel, NEW u \in Users, NEW g \in Groups,
                      ~People!Authorized(db, u, ChatOf[g]), People!Authorized(db', u, ChatOf[g])
               PROVE  \E t \in Tasks : People!Commits(t) /\
                        \/ tx[t].op = "op_add" /\ tx[t].value = u
                        \/ tx[t].op \in {"op_toggle", "op_scope"} /\ tx[t].on = u
                        \/ /\ tx[t].op = "op_assign" /\ tx[t].on = u
                           /\ ChatOf[tx[t].value] = ChatOf[g]
                           /\ tx[t].value \in db'.operators[u].groups
    BY DEF People!GrantsAuthority
  <1>d. db \in People!Rows /\ tx \in [Tasks -> People!Presses \cup {People!NoTx}]
    BY DEF RosterInv, People!TypeOK
  <1>k. db'.operators[u] # db.operators[u]
    BY DEF People!Authorized
  <1>1. CASE People!Restart
    BY <1>1, <1>d, <1>k DEF People!Restart, People!Rows
  <1>2. ASSUME NEW t \in Tasks, People!AddOperator(t)
        PROVE  People!Commits(t) /\ tx[t].op = "op_add" /\ tx[t].value = u
    <2>1. People!Commits(t) /\ tx[t].op = "op_add"
      BY <1>2, RosterCommitting DEF People!AddOperator, People!CommitAndClear, People!None
    <2>2. db' = [db EXCEPT !.operators[tx[t].value] = People!Hired(@)]
      BY <1>2 DEF People!AddOperator, People!CommitAndClear
    <2> QED
      BY <1>d, <1>k, <2>1, <2>2 DEF People!Rows
  <1>3. ASSUME NEW t \in Tasks, People!ToggleOperator(t) \/ People!ToggleScope(t)
        PROVE  People!Commits(t) /\ tx[t].op \in {"op_toggle", "op_scope"} /\ tx[t].on = u
    <2>1. People!Commits(t) /\ tx[t].op \in {"op_toggle", "op_scope"}
      BY <1>3, RosterCommitting DEF People!ToggleOperator, People!ToggleScope, People!Changes,
         People!Commit, People!None
    <2>2. tx[t].on # u => db'.operators[u] = db.operators[u]
      BY <1>3, <1>d DEF People!ToggleOperator, People!ToggleScope, People!Commit,
         People!Rows
    <2> QED
      BY <1>k, <2>1, <2>2
  <1>4. ASSUME NEW t \in Tasks, People!ToggleAssignment(t)
        PROVE  /\ People!Commits(t) /\ tx[t].op = "op_assign" /\ tx[t].on = u
               /\ ChatOf[tx[t].value] = ChatOf[g] /\ tx[t].value \in db'.operators[u].groups
    <2> DEFINE h == tx[t].value
               v == tx[t].on
    <2>1. People!Commits(t) /\ tx[t].op = "op_assign" /\ tx[t] \in People!Presses
      BY <1>4, RosterCommitting, RosterHandling
      DEF People!ToggleAssignment, People!Changes, People!Commit, People!Refuse,
         People!Assigned, People!Unassigned, People!None
    <2>2. PICK groups \in {db.operators[v].groups \cup {h}, db.operators[v].groups \ {h}} :
             db' = [db EXCEPT !.operators[v].groups = groups]
      BY <1>4, <1>d, <1>k DEF People!ToggleAssignment, People!Assigned,
         People!Unassigned, People!Commit, People!Refuse, People!Rows
    <2>3. v = u /\ db.operators[u] \in People!OperatorRows /\ db.operators[u] # People!NoOperator
      BY <1>4, <1>d, <1>k, <2>2 DEF People!ToggleAssignment, People!Changes, People!Rows
    <2>4. db'.operators[u] = [db.operators[u] EXCEPT !.groups = groups]
      BY <1>d, <2>2, <2>3 DEF People!Rows
    <2>5. /\ db'.operators[u].groups = groups
          /\ db'.operators[u].enabled = db.operators[u].enabled
          /\ db'.operators[u].scope = db.operators[u].scope
      BY <2>3, <2>4 DEF People!OperatorRows
    <2>6. PICK k \in groups : ChatOf[k] = ChatOf[g] /\ k \notin db.operators[u].groups
      BY <2>3, <2>5 DEF People!Authorized
    <2>7. k = h
      BY <2>2, <2>3, <2>6
    <2> QED
      BY <2>1, <2>3, <2>5, <2>6, <2>7
  <1>5. ASSUME NEW t \in Tasks, People!DeleteOperator(t) PROVE FALSE
    BY <1>5, <1>d, <1>k DEF People!DeleteOperator, People!Commit, People!Rows,
       People!Authorized
  <1>6. ASSUME NEW t \in Tasks, People!DeleteGroup(t) PROVE FALSE
    <2> DEFINE h == tx[t].on
               row == db.operators[u]
    <2>1. db'.operators[u] = People!Without(row, h)
      BY <1>6, <1>d DEF People!DeleteGroup, People!Commit, People!Rows
    <2>2. row # People!NoOperator /\ row \in People!OperatorRows
      BY <1>d, <1>k, <2>1 DEF People!Without, People!Rows
    <2>3. People!Without(row, h) = [row EXCEPT !.groups = row.groups \ {h}]
      BY <2>2 DEF People!Without
    <2>4. /\ db'.operators[u].groups = row.groups \ {h}
          /\ db'.operators[u].enabled = row.enabled
          /\ db'.operators[u].scope = row.scope
      BY <2>1, <2>2, <2>3 DEF People!OperatorRows
    <2> QED
      BY <2>2, <2>4 DEF People!Authorized
  <1>7. CASE UNCHANGED panel
    BY <1>7, <1>k DEF panel
  <1> QED
    BY <1>1, <1>2, <1>3, <1>4, <1>5, <1>6, <1>7, <1>k, OtherSteps DEF People!Next

(* A user comes to decide orders of a chat only by a button or an addition *)
(* that grants it to him, however many handlers overlap.                   *)
THEOREM AuthorityOnlyGranted == EnvAreUsers => (Spec => AuthorityIsGranted)
  <1> SUFFICES ASSUME EnvAreUsers PROVE Spec => AuthorityIsGranted
    OBVIOUS
  <1>1. (screen = "people" => RosterInv) /\ [Next]_<<panel, screen>>
        => (screen = "people" => People!GrantsAuthority)
    BY RosterOneScreen, GrantStep
  <1> QED
    BY <1>1, RosterAlways, PTL DEF Spec, AuthorityIsGranted
===============================================================================
