-------------------------- MODULE InstituteMembers --------------------------
(***************************************************************************)
(* The members of one institute                                            *)
(* (src/modules/institute_mudules/institue_user).  institute_user has one  *)
(* row for a user and an institute, whatever the role.  A bulk call is     *)
(* modelled for one user of its list.                                      *)
(***************************************************************************)
EXTENDS Integers, Requests

CONSTANTS Users,
          UserType    \* the type of each user's profile

VARIABLES people,     \* users
          members,    \* institute_user
          deleted,    \* images deleted from the storage
          approved    \* images a verifier approved; no handler reads it

memberVars == <<members, deleted, approved>>

Roles == {"STUDENT", "PARENT", "TEACHER"}
MemberStatuses == {"PENDING", "ACTIVE", "INACTIVE", "SUSPENDED", "FORMER", "INVITED"}
ImageStatuses == {"PENDING", "VERIFIED", "REJECTED", "NONE"}

NewMember == [role |-> "STUDENT", status |-> "PENDING", card |-> NoRow,
              image |-> NoRow, shown |-> "PENDING"]

\* Columns of a member have the values of their enumerations; a row has them all.
Typed(row) == /\ "role" \in DOMAIN row => row.role \in Roles
              /\ "status" \in DOMAIN row => row.status \in MemberStatuses
              /\ "shown" \in DOMAIN row => row.shown \in ImageStatuses
MemberRow(row) == Typed(row) /\ {"role", "status", "shown", "image", "card"} \subseteq DOMAIN row

ASSUME MemberWorldsAssumption ==
  \A w \in Worlds :
    /\ DOMAIN w.at.members = Users
    /\ \A u \in Users : w.at.members[u] = NoRow \/ MemberRow(w.at.members[u])
    /\ \A r \in w.calls :
         /\ r.op \in {"create", "assign", "place"} => r.status \in MemberStatuses
         /\ r.op \in {"assign", "place"} => r.role \in Roles
         /\ r.op = "change" => Typed(r.set) /\ DOMAIN r.set \subseteq {"role", "status"}
         /\ r.op = "review" => r.verdict \in ImageStatuses

Known(u) == people[u] # NoRow
Joined == {u \in Users : members[u] # NoRow}

MembersInit == /\ members = world.at.members
               /\ deleted = {}
               /\ approved = {members[u].image : u \in {v \in Joined : members[v].shown = "VERIFIED"}}

UpdateMember(u, columns) ==
  members' = IF members[u] = NoRow THEN members
             ELSE [members EXCEPT ![u] = columns ++ @]

-----------------------------------------------------------------------------
CreateMember(r) ==
  /\ At(r, "create", "start")
  /\ IF members[r.user] # NoRow THEN End(r) ELSE GoOn(r, "save", NoRow)
  /\ UNCHANGED memberVars

\* The roles a type of profile allows (UserRoleValidationService).
Allowed == [STUDENT |-> {"USER", "USER_WITHOUT_PARENT"},
            PARENT  |-> {"USER", "USER_WITHOUT_STUDENT"},
            TEACHER |-> {"USER", "USER_WITHOUT_PARENT", "USER_WITHOUT_STUDENT"}]

HasRole(u, role) == u \in Joined /\ members[u].role = role

Valid(r) == /\ Known(r.user) /\ UserType[r.user] \in Allowed[r.role]
            /\ ~(r.role = "PARENT" /\ HasRole(r.user, "STUDENT"))

\* Phone, RFID, e-mail and id; also how a bulk call goes on for each of its
\* users when it has failed.
ValidateAssignment(r) ==
  /\ \/ At(r, "assign", "start") /\ r.way \notin {"bulk", "enhanced"}
     \/ At(r, "assign", "fallback")
  /\ IF Valid(r) THEN GoOn(r, "role", IF r.way = "bulk" THEN "alone" ELSE NoRow)
     ELSE End(r)
  /\ UNCHANGED memberVars

\* Its query joins the relations student and parent, which UserEntity does not
\* have: TypeORM refuses it, and the call answers an error.
EnhancedFails(r) ==
  /\ At(r, "assign", "start") /\ r.way = "enhanced"
  /\ End(r)
  /\ UNCHANGED memberVars

\* One query reads all the rows a bulk call checks.
ValidateBulk(r) ==
  /\ At(r, "assign", "start") /\ r.way = "bulk"
  /\ IF Valid(r) /\ ~HasRole(r.user, r.role) THEN GoOn(r, "save", NoRow) ELSE End(r)
  /\ UNCHANGED memberVars

\* Is the user a member in this role?
CheckRole(r) ==
  /\ At(r, "assign", "role")
  /\ IF HasRole(r.user, r.role) THEN End(r) ELSE GoOn(r, "save", held[r])
  /\ UNCHANGED memberVars

\* A bulk call that has failed saves each member as an assignment by phone does.
InBulk(r) == r.way = "bulk" /\ held[r] = NoRow

\* A verifier's image needs no review; without one the code writes null (NONE),
\* taken for stored, though the entity does not declare the column nullable.
GivenStatus(r) == IF r.image = NoRow THEN "NONE" ELSE IF r.trusted THEN "VERIFIED" ELSE "PENDING"

\* What an assignment writes; by phone or RFID it leaves the card, in bulk
\* also the image.
Assignment(r) ==
  [c \in {"role", "status"} |-> IF c = "role" THEN r.role ELSE r.status]
  ++ [c \in IF InBulk(r) THEN {} ELSE {"image", "shown"} |->
        IF c = "image" THEN r.image ELSE GivenStatus(r)]
  ++ [c \in IF r.way \in {"email", "id"} THEN {"card"} ELSE {} |-> r.card]

Entity(r) == CASE r.op = "create" -> [status |-> r.status]
               [] r.op = "assign" -> Assignment(r)
               [] r.op = "place"  -> [role |-> r.role, status |-> r.status]
               [] OTHER -> held[r]

CompareMember(r) ==
  /\ r.op \in {"create", "assign", "change", "place"} /\ At(r, r.op, "save")
  /\ GoOn(r, "write", Comparison(Entity(r), members[r.user])
                        ++ [bulk |-> r.op = "assign" /\ InBulk(r)])
  /\ UNCHANGED memberVars

\* The row refers to a user: without one there is no row, and no insert.  What a
\* bulk call refreshes in the user cache afterwards is left out.
WriteMember(r) ==
  /\ r.op \in {"create", "assign", "change", "place"} /\ At(r, r.op, "write")
  /\ IF held[r].bulk /\ (KeyTaken(r, members[r.user]) \/ ~Known(r.user))
     THEN GoOn(r, "fallback", NoRow)
     ELSE End(r)
  /\ members' = IF Known(r.user) THEN [members EXCEPT ![r.user] = Saved(r, @, NewMember)]
                ELSE members
  /\ approved' = IF r.op = "assign" /\ ~held[r].bulk /\ r.trusted
                 THEN approved \cup {r.image} ELSE approved
  /\ UNCHANGED deleted

-----------------------------------------------------------------------------
FindPending(r) ==
  /\ At(r, "verify", "start")
  /\ IF r.user \in Joined /\ members[r.user].status = "PENDING"
     THEN GoOn(r, "update", NoRow) ELSE End(r)
  /\ UNCHANGED memberVars

StillPending(r) == r.user \in Joined /\ members[r.user].status = "PENDING"

VerifyMember(r) ==
  /\ At(r, "verify", "update")
  /\ End(r)
  /\ IF StillPending(r) THEN UpdateMember(r.user, [status |-> "ACTIVE"])
     ELSE UNCHANGED members
  /\ UNCHANGED <<deleted, approved>>

\* Activate, deactivate and change the role: the entity is read, changed and
\* saved as a whole.
FindMember(r) ==
  /\ At(r, "change", "start")
  /\ IF r.user \in Joined THEN GoOn(r, "save", r.set ++ members[r.user]) ELSE End(r)
  /\ UNCHANGED memberVars

RemoveMember(r) ==
  /\ At(r, "remove", "start")
  /\ End(r)
  /\ members' = [members EXCEPT ![r.user] = NoRow]
  /\ UNCHANGED <<deleted, approved>>

FindHolder(r) ==
  /\ \E op \in {"upload", "card"} : At(r, op, "start")
  /\ IF r.user \in Joined
     THEN GoOn(r, IF r.op = "card" THEN "holder" ELSE "update", NoRow) ELSE End(r)
  /\ UNCHANGED memberVars

Upload(r) ==
  /\ At(r, "upload", "update")
  /\ End(r)
  /\ UpdateMember(r.user, [image |-> r.image, shown |-> IF r.trusted THEN "VERIFIED"
                                                        ELSE "PENDING"])
  /\ approved' = IF r.trusted THEN approved \cup {r.image} ELSE approved
  /\ UNCHANGED deleted

Free(r) == ~\E u \in Joined \ {r.user} : members[u].card = r.card

FindCard(r) ==
  /\ At(r, "card", "holder")
  /\ IF Free(r) THEN GoOn(r, "update", NoRow) ELSE End(r)
  /\ UNCHANGED memberVars

AssignCard(r) ==
  /\ At(r, "card", "update")
  /\ End(r)
  /\ UpdateMember(r.user, [card |-> r.card])
  /\ UNCHANGED <<deleted, approved>>

FindImage(r) ==
  /\ At(r, "review", "start")
  /\ IF r.user \in Joined /\ members[r.user].image # NoRow
     THEN /\ GoOn(r, IF r.verdict = "REJECTED" THEN "delete" ELSE "update",
                  members[r.user].image)
          /\ approved' = IF r.verdict = "VERIFIED" THEN approved \cup {members[r.user].image}
                         ELSE approved
     ELSE End(r) /\ UNCHANGED approved
  /\ UNCHANGED <<members, deleted>>

\* A deletion that fails is logged.
DeleteImage(r) ==
  /\ At(r, "review", "delete")
  /\ GoOn(r, "update", held[r])
  /\ deleted' \in {deleted, deleted \cup {held[r]}}
  /\ UNCHANGED <<members, approved>>

\* The address goes with the verdict about it.
Verdict_Mutant(r) == [shown |-> r.verdict]
Verdict(r) == [shown |-> r.verdict, image |-> IF r.verdict = "REJECTED" THEN NoRow ELSE held[r]]

Review(r) ==
  /\ At(r, "review", "update")
  /\ End(r)
  /\ UpdateMember(r.user, Verdict(r))
  /\ UNCHANGED <<deleted, approved>>

MemberStep(r) ==
  \/ CreateMember(r) \/ ValidateAssignment(r) \/ EnhancedFails(r) \/ ValidateBulk(r)
  \/ CheckRole(r) \/ CompareMember(r) \/ WriteMember(r)
  \/ FindPending(r) \/ VerifyMember(r) \/ FindMember(r) \/ RemoveMember(r)
  \/ FindHolder(r) \/ Upload(r) \/ FindCard(r) \/ AssignCard(r)
  \/ FindImage(r) \/ DeleteImage(r) \/ Review(r)

-----------------------------------------------------------------------------
(* Properties                                                              *)

\* No two of these rows have one card, or one image.
OneHolder(rows) == \A u, v \in Users : /\ rows[u] # NoRow /\ rows[v] # NoRow
                                       /\ rows[u].card = rows[v].card
                                       => u = v \/ rows[u].card = NoRow
OneImage(rows) == \A u, v \in Users : /\ rows[u] # NoRow /\ rows[v] # NoRow
                                      /\ rows[u].image = rows[v].image
                                      => u = v \/ rows[u].image = NoRow

\* Each file is given once: by a call, or it is there before.
Gives(r) == r.op \in {"upload", "assign"} /\ r.image # NoRow
GivenOnce == /\ OneImage(world.at.members)
             /\ \A r \in world.calls : Gives(r) =>
                  /\ \A q \in world.calls : Gives(q) /\ q.image = r.image => q = r
                  /\ \A u \in Users : world.at.members[u] # NoRow
                                       => world.at.members[u].image # r.image

\* Members have their types.
MemberTypeOK ==
  \A u \in Joined : /\ members[u].role \in Roles
                    /\ members[u].status \in MemberStatuses
                    /\ members[u].shown \in ImageStatuses

Underway(op) == {r \in world.calls : r.op = op /\ pc[r] # "start" /\ pc[r] # "done"}

\* "Cannot assign someone as PARENT in an institute if they are already a
\* STUDENT in that institute": served one after the other, only a change of
\* role makes a student a parent.
StudentNotParent ==
  [][\A u \in Joined :
       /\ world.serial /\ Underway("change") = {} /\ members'[u] # NoRow
       => ~(members[u].role = "STUDENT" /\ members'[u].role = "PARENT")]_members

\* A member who was deactivated becomes active again only by an activation, by
\* an assignment in another role or as a new member, which a call that overlaps
\* may make of him too late: a verification under way does not undo it.
MemberStaysInactive ==
  [][\A u \in Joined : /\ \A r \in Underway("change") : r.set = [status |-> "INACTIVE"]
                       /\ Underway("assign") = {}
                       /\ world.serial \/ Underway("create") \cup Underway("place") = {}
                       /\ members[u].status = "INACTIVE" /\ members'[u] # NoRow
       => members'[u].status = "INACTIVE"]_members

\* An image shown as verified is one that a verifier approved, also when
\* another is uploaded during the review.  An assignment that overlaps an upload
\* may set the verdict of its image beside the other image, and a change of
\* status or role the verdict it has read: they are served alone.
VerifiedIsApproved ==
  world.serial \/ (\A r \in world.calls : r.op \notin {"assign", "change"})
    => \A u \in Joined : members[u].shown = "VERIFIED" => members[u].image \in approved

\* Served one after the other, once a call is over no member's image is one
\* that was deleted, as long as nobody gives it again.
ShownImageExists == world.serial /\ Quiet /\ GivenOnce => \A u \in Joined : members[u].image \notin deleted

\* Served one after the other, no two members come to have the same card, unless
\* an assignment gave one: by e-mail and by id it looks for no other holder.
CardsUnique ==
  /\ world.serial /\ OneHolder(world.at.members)
  /\ \A r \in world.calls : r.op = "assign" => r.card = NoRow
  => OneHolder(members)
=============================================================================
