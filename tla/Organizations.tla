---------------------------- MODULE Organizations ----------------------------
(***************************************************************************)
(* The members of one organization (src/modules/organization): roles, the  *)
(* presidency and the assignment of members to the institute.              *)
(***************************************************************************)
EXTENDS InstituteMembers

VARIABLES staff,      \* org_organization_users, one row for a user
          founded,    \* is there an organization?
          transfer    \* the transaction that passes the presidency, or none

orgVars == <<staff, founded, transfer>>

OrgRoles == {"PRESIDENT", "ADMIN", "MODERATOR", "MEMBER"}
StaffRows == [role : OrgRoles, verified : BOOLEAN]
Presiding(rows) == {u \in Users : rows[u] # NoRow /\ rows[u].role = "PRESIDENT"}

\* An organization that is there has one president or, since he was removed, none.
ASSUME OrgWorldsAssumption ==
  /\ NoRow \notin StaffRows
  /\ \A w \in Worlds :
       /\ NoRow \notin w.calls
       /\ w.at.staff \in [Users -> StaffRows \cup {NoRow}]
       /\ \A u \in Users : w.at.staff[u] # NoRow => w.at.people[u] # NoRow
       /\ \A u, v \in Presiding(w.at.staff) : u = v
       /\ \A r \in w.calls :
            /\ r.op \in {"add", "assignRole", "changeRole"} => r.role \in OrgRoles
            /\ r.op \in {"found", "add", "assignRole", "changeRole", "transfer"} => r.user \in Users

Staff == {u \in Users : staff[u] # NoRow}
Presidents == Presiding(staff)

OrgInit == /\ staff = world.at.staff
           /\ founded = (Staff # {})
           /\ transfer = NoRow

\* A transfer holds the rows of the presidents; a statement that writes one of
\* them waits for its end.
Unlocked(u) == transfer # NoRow => u \notin held[transfer]

-----------------------------------------------------------------------------
\* The organization and its first member are two statements, in no transaction.
\* Nobody else knows its id before the answer.
Exists == founded /\ Underway("found") = {}

SaveOrganization(r) ==
  /\ At(r, "found", "start")
  /\ ~founded
  /\ GoOn(r, "member", NoRow)
  /\ founded' = TRUE
  /\ UNCHANGED <<staff, transfer>>

\* The system's own user founds as president, everybody else as a member; the
\* second statement may fail.
SaveFounder(r) ==
  /\ At(r, "found", "member")
  /\ End(r)
  /\ \/ /\ Known(r.user)
        /\ staff' = [staff EXCEPT ![r.user] =
                       [role |-> IF r.system THEN "PRESIDENT" ELSE "MEMBER", verified |-> TRUE]]
     \/ (world.faulty \/ ~Known(r.user)) /\ UNCHANGED staff
  /\ UNCHANGED <<founded, transfer>>

CheckStaff(r) ==
  /\ At(r, "add", "start")
  /\ IF Exists /\ r.user \notin Staff THEN GoOn(r, "insert", NoRow) ELSE End(r)
  /\ UNCHANGED orgVars

\* Nobody is added as president.
Added(role) == IF role = "PRESIDENT" THEN "MEMBER" ELSE role

\* An INSERT that finds the key taken, or no user, fails.
InsertStaff(r) ==
  /\ At(r, "add", "insert")
  /\ End(r)
  /\ staff' = IF r.user \in Staff \/ ~Known(r.user) THEN staff
              ELSE [staff EXCEPT ![r.user] = [role |-> Added(r.role), verified |-> TRUE]]
  /\ UNCHANGED <<founded, transfer>>

\* Whom changeUserRole and removeUserFromOrganization may touch.
Ordinary_Mutant(u) == u \in Staff
Ordinary(u) == u \in Staff \ Presidents

\* Neither call makes a president; assignUserRole spares nobody, changeUserRole
\* the president.
ChangeStaffRole(r) ==
  /\ \E op \in {"assignRole", "changeRole"} : At(r, op, "start")
  /\ Unlocked(r.user)
  /\ End(r)
  /\ staff' = IF r.role # "PRESIDENT" /\ r.user \in Staff
                 /\ (r.op = "changeRole" => Ordinary(r.user))
              THEN [staff EXCEPT ![r.user].role = r.role] ELSE staff
  /\ UNCHANGED <<founded, transfer>>

RemoveStaff(r) ==
  /\ At(r, "dismiss", "start")
  /\ Unlocked(r.user)
  /\ End(r)
  /\ staff' = IF Ordinary(r.user) THEN [staff EXCEPT ![r.user] = NoRow] ELSE staff
  /\ UNCHANGED <<founded, transfer>>

-----------------------------------------------------------------------------
\* The presidents are demoted inside a transaction.  Another transfer that is
\* under way holds their rows, or the gap where there is none: this one waits,
\* or the database ends the deadlock by rolling it back.
DemotePresidents(r) ==
  /\ At(r, "transfer", "start")
  /\ \/ /\ transfer = NoRow /\ Exists
        /\ GoOn(r, "promote", Presidents)
        /\ transfer' = r
     \/ /\ transfer # NoRow \/ ~Exists
        /\ End(r)
        /\ UNCHANGED transfer
  /\ UNCHANGED <<staff, founded>>

\* The new president is promoted and both updates are committed; a user who is
\* no member rolls them back.
PromotePresident(r) ==
  /\ At(r, "transfer", "promote")
  /\ End(r)
  /\ transfer' = NoRow
  /\ staff' = IF r.user \notin Staff THEN staff
              ELSE [u \in Users |->
                      CASE u = r.user -> [staff[u] EXCEPT !.role = "PRESIDENT"]
                        [] u # r.user /\ u \in held[r] -> [staff[u] EXCEPT !.role = "ADMIN"]
                        [] OTHER -> staff[u]]
  /\ UNCHANGED founded

-----------------------------------------------------------------------------
\* A verified member of the organization becomes a member of the institute; the
\* row is saved as InstituteMembers does.
CheckMember(r) ==
  /\ At(r, "place", "start")
  /\ IF r.user \in Staff /\ staff[r.user].verified THEN GoOn(r, "exists", NoRow) ELSE End(r)
  /\ UNCHANGED orgVars

Unplaced(r) == r.user \notin Joined

CheckPlaced(r) ==
  /\ At(r, "place", "exists")
  /\ IF Unplaced(r) THEN GoOn(r, "save", NoRow) ELSE End(r)
  /\ UNCHANGED orgVars

OrgStep(r) ==
  \/ SaveOrganization(r) \/ SaveFounder(r) \/ CheckStaff(r) \/ InsertStaff(r)
  \/ ChangeStaffRole(r) \/ RemoveStaff(r) \/ DemotePresidents(r) \/ PromotePresident(r)
  \/ CheckMember(r) \/ CheckPlaced(r)

-----------------------------------------------------------------------------
(* Properties                                                              *)

\* The organization's members have their types.
OrgTypeOK == /\ staff \in [Users -> StaffRows \cup {NoRow}]
             /\ transfer \in world.calls \cup {NoRow} /\ founded \in BOOLEAN

\* "Organization can only have one president": in whatever order transfers,
\* changes of role, additions and removals meet.
OnePresident == \A u, v \in Presidents : u = v

\* "Cannot change PRESIDENT role. Use transfer presidency instead.": a president
\* stops being one only when another member becomes president in the same
\* step, unless assignUserRole, which does not ask, gives him another role, or
\* the user himself is removed.
PresidencyPassed ==
  [][\A u \in Presidents \ Presidents' :
       \/ people'[u] = NoRow
       \/ \E v \in Presidents' : v \notin Presidents
       \/ \E r \in world.calls : /\ r.op = "assignRole" /\ r.user = u
                                 /\ pc[r] = "start" /\ pc'[r] = "done"]_staff

\* Served one after the other, an assignment by an organization never changes a
\* user who is a member of the institute.
PlacedOnce ==
  [][\A u \in Joined : world.serial /\ Underway("place") # {} => members'[u] = members[u]]_members
=============================================================================
