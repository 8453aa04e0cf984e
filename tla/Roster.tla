-------------------------------- MODULE Roster ---------------------------------
(***************************************************************************)
(* Who may do what: handlers/admin/admins.py and operators.py over         *)
(* repositories/people.py.  db.admins and db.operators hold a row, or      *)
(* none, per user; a work group that is deleted takes its assignments with *)
(* it.  Restart runs the bootstrap over SUPERADMIN_IDS.                    *)
(***************************************************************************)
EXTENDS PanelTasks

CONSTANTS
    Users,          \* telegram users
    Env,            \* those of SUPERADMIN_IDS
    Groups,         \* work groups
    ChatOf          \* group |-> its chat: two topics are two groups of a chat

NoAdmin == [role |-> None]
Roles == {"ADMIN", "SUPER_ADMIN"}
AdminRows == {NoAdmin} \cup [role : Roles, enabled : BOOLEAN, from_env : BOOLEAN]
NoOperator == [scope |-> None]
Assignments == SUBSET Groups
OperatorRows == {NoOperator} \cup
    [scope : {"all", "selected"}, enabled : BOOLEAN, groups : Assignments]
Rows == [admins : [Users -> AdminRows], operators : [Users -> OperatorRows],
         groups : SUBSET Groups]

EnvAdmin == [role |-> "SUPER_ADMIN", enabled |-> TRUE, from_env |-> TRUE]

AdminOps == {"role", "toggle", "delete"}
OperatorOps == {"op_toggle", "op_scope", "op_assign", "op_delete"}
States == {None, "add", "op_add"}       \* waiting for a user id
NoData == None
Of(ops, on, value) ==
    [op : ops, on : on, value : value, open : BOOLEAN,
     data : {None}, seen : Rows]
Presses ==
    Of(AdminOps \cup (OperatorOps \ {"op_assign"}), Users, {None}) \cup
    Of({"op_assign"}, Users, Groups) \cup Of({"group_delete"}, Groups, {None}) \cup
    Of({"ask_add", "ask_op_add", "leave"}, {None}, {None}) \cup
    Of({"add", "op_add"}, {None}, Users)

TypeOK ==
    /\ db \in Rows
    /\ asked \in [state : States, data : {NoData}]
    /\ tx \in [Tasks -> Presses \cup {NoTx}]
    /\ presses \in 0 .. MaxPresses
    /\ \A u \in Env : db.admins[u] # NoAdmin
    /\ \A u \in Users : db.operators[u] # NoOperator => db.operators[u].groups \subseteq db.groups

(* The administrators of the environment, and perhaps others, by the panel *)
(* super administrators, enabled operators, or both.                       *)
PanelAdmin == [role |-> "SUPER_ADMIN", enabled |-> TRUE, from_env |-> FALSE]
Init ==
    /\ \E row \in {NoOperator} \cup
                [scope : {"all", "selected"}, enabled : {TRUE}, groups : Assignments],
          other \in {NoAdmin, PanelAdmin} :
         db = [admins |-> [v \in Users |-> IF v \in Env THEN EnvAdmin ELSE other],
               operators |-> [v \in Users |-> IF v \in Env THEN NoOperator ELSE row],
               groups |-> Groups]
    /\ asked = [state |-> None, data |-> NoData]
    /\ tx = [t \in Tasks |-> NoTx]
    /\ presses = 0

------------------------------------------------------------------------------
(* Buttons and user ids, behind the filters IsSuperAdmin and IsAdmin, which *)
(* read the role in a transaction of their own                             *)

Role(u) ==
    IF db.admins[u] = NoAdmin \/ ~db.admins[u].enabled THEN None ELSE db.admins[u].role

(* A button on an administrator may be older than his entry in             *)
(* SUPERADMIN_IDS: admin_detail shows none for those of the environment.   *)
PressAdmin(t) ==
    \E actor \in Users, op \in AdminOps, u \in Users :
        Role(actor) = "SUPER_ADMIN" /\ Press(t, op, u, None)
PressAddAdmin(t) ==
    \E actor \in Users : Role(actor) = "SUPER_ADMIN" /\ Press(t, "ask_add", None, None)
PressOperator(t) ==
    \E actor \in Users : Role(actor) # None /\
        \/ \E op \in OperatorOps \ {"op_assign"}, u \in Users : Press(t, op, u, None)
        \/ \E u \in Users, g \in Groups : Press(t, "op_assign", u, g)
PressAddOperator(t) ==
    \E actor \in Users, op \in {"ask_op_add", "leave"} :
        Role(actor) # None /\ Press(t, op, None, None)
PressGroup(t) ==
    \E actor \in Users, g \in Groups :
        Role(actor) # None /\ Press(t, "group_delete", g, None)
SendUserId(t) ==
    \E actor \in Users, u \in Users :
        \/ Role(actor) = "SUPER_ADMIN" /\ Answer(t, "add", u)
        \/ Role(actor) # None /\ Answer(t, "op_add", u)

------------------------------------------------------------------------------
(* Administrators *)

PromptAdmin(t) == Handles(t, "ask_add") /\ Ask(t, "add", NoData)
PromptOperator(t) == Handles(t, "ask_op_add") /\ Ask(t, "op_add", NoData)
Leave(t) == Handles(t, "leave") /\ CommitAndClear(t, db, NoData)

(* receive_user_id: the upsert makes whoever it finds an enabled ADMIN. *)
Added(row) ==
    [role |-> "ADMIN", enabled |-> TRUE,
     from_env |-> IF row = NoAdmin THEN FALSE ELSE row.from_env]
AddAdmin(t) ==
    /\ Handles(t, "add")
    /\ CommitAndClear(t, [db EXCEPT !.admins[tx[t].value] = Added(@)], NoData)

(* The buttons are locked for an administrator of the environment.  Mutant: *)
(* they are not.                                                            *)
LockedNever(row) == row = NoAdmin
Locked(row) == row = NoAdmin \/ row.from_env

(* A row that is gone at the commit makes the UPDATE fail. *)
ToggleRole(t) ==
    /\ Handles(t, "role")
    /\ LET u == tx[t].on
           row == tx[t].seen.admins[u]
       IN  IF Locked(row) \/ db.admins[u] = NoAdmin THEN Refuse(t)
           ELSE Commit(t, [db EXCEPT !.admins[u].role =
                             IF row.role = "ADMIN" THEN "SUPER_ADMIN" ELSE "ADMIN"])
ToggleEnabled(t) ==
    /\ Handles(t, "toggle")
    /\ LET u == tx[t].on
           row == tx[t].seen.admins[u]
       IN  IF Locked(row) \/ db.admins[u] = NoAdmin THEN Refuse(t)
           ELSE Commit(t, [db EXCEPT !.admins[u].enabled = ~row.enabled])
DeleteAdmin(t) ==
    /\ Handles(t, "delete")
    /\ LET u == tx[t].on IN
       IF Locked(tx[t].seen.admins[u]) THEN Refuse(t)
       ELSE Commit(t, [db EXCEPT !.admins[u] = NoAdmin])

------------------------------------------------------------------------------
(* Operators *)

(* An operator added again is enabled, and keeps his scope. *)
Hired(row) ==
    IF row = NoOperator THEN [scope |-> "all", enabled |-> TRUE, groups |-> {}]
    ELSE [row EXCEPT !.enabled = TRUE]
AddOperator(t) ==
    /\ Handles(t, "op_add")
    /\ CommitAndClear(t, [db EXCEPT !.operators[tx[t].value] = Hired(@)], NoData)

(* What a button changes of the row its handler saw. *)
Changes(t, op) ==
    Handles(t, op) /\ tx[t].seen.operators[tx[t].on] # NoOperator
    /\ db.operators[tx[t].on] # NoOperator
ToggleOperator(t) ==
    /\ Changes(t, "op_toggle")
    /\ LET u == tx[t].on IN
       Commit(t, [db EXCEPT !.operators[u].enabled = ~tx[t].seen.operators[u].enabled])
ToggleScope(t) ==
    /\ Changes(t, "op_scope")
    /\ LET u == tx[t].on IN
       Commit(t, [db EXCEPT !.operators[u].scope =
          IF tx[t].seen.operators[u].scope = "all" THEN "selected" ELSE "all"])
Assigned(u, g) == [db EXCEPT !.operators[u].groups = @ \cup {g}]
Unassigned(u, g) == [db EXCEPT !.operators[u].groups = @ \ {g}]

(* The row of an assignment refers to a group that is still there. *)
ToggleAssignment(t) ==
    /\ Changes(t, "op_assign")
    /\ LET u == tx[t].on
           g == tx[t].value
       IN  IF g \in tx[t].seen.operators[u].groups THEN Commit(t, Unassigned(u, g))
           ELSE IF g \in db.groups THEN Commit(t, Assigned(u, g)) ELSE Refuse(t)
DeleteOperator(t) ==
    Changes(t, "op_delete") /\ Commit(t, [db EXCEPT !.operators[tx[t].on] = NoOperator])
NoSuchOperator(t) ==
    \E op \in OperatorOps :
        Handles(t, op) /\ ~Changes(t, op) /\ Refuse(t)

(* do_delete of a work group; its assignments go with it. *)
Without(row, g) == IF row = NoOperator THEN row ELSE [row EXCEPT !.groups = @ \ {g}]
DeleteGroup(t) ==
    /\ Handles(t, "group_delete")
    /\ LET g == tx[t].on IN
       Commit(t, [db EXCEPT !.groups = @ \ {g},
                            !.operators = [u \in Users |-> Without(db.operators[u], g)]])

------------------------------------------------------------------------------
(* bootstrap: upsert_super_admin for every user of SUPERADMIN_IDS *)
Upserted(u, row) == IF u \in Env THEN EnvAdmin ELSE row
Restart ==
    /\ db' = [db EXCEPT !.admins = [u \in Users |-> Upserted(u, @[u])]]
    /\ tx' = [t \in Tasks |-> NoTx]
    /\ asked' = [state |-> None, data |-> NoData]      \* MemoryStorage
    /\ UNCHANGED presses

Next ==
    \/ Restart
    \/ \E t \in Tasks :
        \/ PressAdmin(t) \/ PressAddAdmin(t) \/ PressOperator(t) \/ PressAddOperator(t)
        \/ PressGroup(t) \/ SendUserId(t) \/ Open(t)
        \/ PromptAdmin(t) \/ PromptOperator(t) \/ Leave(t) \/ AddAdmin(t) \/ ToggleRole(t) \/ ToggleEnabled(t) \/ DeleteAdmin(t)
        \/ AddOperator(t) \/ ToggleOperator(t) \/ ToggleScope(t)
        \/ ToggleAssignment(t) \/ DeleteOperator(t) \/ NoSuchOperator(t)
        \/ DeleteGroup(t)

Spec == Init /\ [][Next]_panel

------------------------------------------------------------------------------
(* Administrators of the environment are super administrators, enabled     *)
(* (admins.py:3-5, README.md:661).  The panel can break it: adding the     *)
(* user id of one makes him an ADMIN.                                      *)
EnvStaysSuper == \A u \in Env : db.admins[u] = EnvAdmin

(* It takes such an addition: no button of the panel, none that was        *)
(* pressed by a super administrator who has lost the role since, and no    *)
(* race between two of them, takes a right from an administrator of the    *)
(* environment, and even the addition leaves him enabled.                  *)
DemotesByAdding ==
    \A u \in Env : db.admins[u] # db.admins'[u] =>
       /\ db.admins'[u] = EnvAdmin \/ \E t \in Tasks :
             Commits(t) /\ tx[t].op = "add" /\ tx[t].value = u
       /\ db.admins'[u] # NoAdmin /\ db.admins'[u].enabled

(* is_authorized_in_chat: chats, not topics.  An operator with a scope of  *)
(* selected groups and none of them may act nowhere.  Mutant: no group     *)
(* chosen stands for all of them.                                          *)
AuthorizedIfUnassigned(d, u, c) ==
    /\ d.operators[u] # NoOperator /\ d.operators[u].enabled
    /\ d.operators[u].groups = {} \/ \E g \in d.operators[u].groups : ChatOf[g] = c
Authorized(d, u, c) ==
    /\ d.operators[u] # NoOperator /\ d.operators[u].enabled
    /\ d.operators[u].scope = "all" \/ \E g \in d.operators[u].groups : ChatOf[g] = c

(* A user comes to decide orders of a chat only by a button on himself     *)
(* that grants it: deleting a group, unassigning the last one or removing  *)
(* somebody else widens nobody.                                            *)
GrantsAuthority ==
    \A u \in Users, g \in Groups :
       ~Authorized(db, u, ChatOf[g]) /\ Authorized(db', u, ChatOf[g]) =>
       \E t \in Tasks : Commits(t) /\
          \/ tx[t].op = "op_add" /\ tx[t].value = u
          \/ tx[t].op \in {"op_toggle", "op_scope"} /\ tx[t].on = u
          \/ /\ tx[t].op = "op_assign" /\ tx[t].on = u
             /\ ChatOf[tx[t].value] = ChatOf[g] /\ tx[t].value \in db'.operators[u].groups
===============================================================================
