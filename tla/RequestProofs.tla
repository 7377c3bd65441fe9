---------------------------- MODULE RequestProofs ----------------------------
(***************************************************************************)
(* Requests and members of an institute, whatever else is served: which    *)
(* request a step moves, and the types of members.                         *)
(***************************************************************************)
EXTENDS InstituteMembers, TLAPS

-----------------------------------------------------------------------------
(* Requests                                                                *)

Idle == {"start", "done"}

\* Places and locals are those of the calls of this world; served one after the
\* other, one at most is under way.
ReqInv == /\ world \in Worlds
          /\ DOMAIN pc = world.calls /\ DOMAIN held = world.calls
          /\ world.serial => \A r, q \in world.calls :
                               pc[r] \notin Idle /\ pc[q] \notin Idle => r = q

\* A step that moves this request, and what it may count on.
Moves(r) == /\ DOMAIN pc' = world.calls /\ DOMAIN held' = world.calls
            /\ \A q \in world.calls \ {r} : pc'[q] = pc[q] /\ held'[q] = held[q]
            /\ pc[r] # "done"
            /\ world.serial => \A q \in world.calls \ {r} : pc[q] \in Idle

\* How any request goes on.
LEMMA GoOnMoves ==
  ASSUME ReqInv, NEW r \in world.calls, NEW step, NEW value, GoOn(r, step, value),
         pc[r] # "done", world.serial /\ pc[r] = "start" => Quiet
  PROVE  Moves(r) /\ pc'[r] = step /\ held'[r] = value
BY DEF ReqInv, Moves, GoOn, Quiet, Idle

\* Nobody else is under way, before and after, when a request moves.
LEMMA MovesReq ==
  ASSUME ReqInv, NEW r \in world.calls, Moves(r), UNCHANGED world
  PROVE  ReqInv'
BY DEF ReqInv, Moves, Idle

\* A request at a step of a handler that goes on or ends.
Goes(r) == /\ pc[r] # "done" /\ (world.serial /\ pc[r] = "start" => Quiet)
           /\ \E step, value : GoOn(r, step, value)

LEMMA GoesMoves == ASSUME ReqInv, NEW r \in world.calls, Goes(r) PROVE Moves(r)
BY GoOnMoves DEF Goes

\* A request that goes on in a handler was at a step of that handler.
LEMMA AtMoves ==
  ASSUME ReqInv, NEW r \in world.calls, NEW op, NEW from, At(r, op, from), from # "done",
         NEW step, NEW value, GoOn(r, step, value)
  PROVE  /\ Moves(r) /\ r.op = op /\ pc[r] = from
         /\ pc'[r] = step /\ held'[r] = value
BY GoOnMoves DEF At

\* The steps of members, each of its own handler.
MemberOps == {"create", "assign", "change", "place", "verify", "remove", "upload", "card", "review"}

LEMMA MemberMoves == ASSUME ReqInv, NEW r \in world.calls, MemberStep(r)
                     PROVE  Moves(r) /\ r.op \in MemberOps
<1>1. CASE \/ CreateMember(r) \/ ValidateAssignment(r) \/ EnhancedFails(r) \/ ValidateBulk(r)
           \/ CheckRole(r)
  <2>1. Goes(r) /\ r.op \in MemberOps
    BY <1>1 DEF CreateMember, ValidateAssignment, EnhancedFails, ValidateBulk, CheckRole, Goes,
                At, End, MemberOps
  <2> QED BY <2>1, GoesMoves
<1>2. CASE CompareMember(r) \/ WriteMember(r) \/ FindPending(r) \/ VerifyMember(r)
           \/ FindMember(r) \/ RemoveMember(r)
  <2>1. Goes(r) /\ r.op \in MemberOps
    BY <1>2 DEF CompareMember, WriteMember, FindPending, VerifyMember, FindMember, RemoveMember,
                Goes, At, End, MemberOps
  <2> QED BY <2>1, GoesMoves
<1>3. CASE FindHolder(r) \/ Upload(r) \/ FindCard(r) \/ AssignCard(r)
           \/ FindImage(r) \/ DeleteImage(r) \/ Review(r)
  <2>1. Goes(r) /\ r.op \in MemberOps
    BY <1>3 DEF FindHolder, Upload, FindCard, AssignCard, FindImage, DeleteImage, Review,
                Goes, At, End, MemberOps
  <2> QED BY <2>1, GoesMoves
<1> QED BY <1>1, <1>2, <1>3 DEF MemberStep

-----------------------------------------------------------------------------
(* Members have their types                                                *)

Saving == {"create", "assign", "change", "place"}

\* Rows are whole; what a call has read, changed or compared has typed columns.
MemberInv ==
  /\ DOMAIN members = Users
  /\ \A u \in Users : members[u] = NoRow \/ MemberRow(members[u])
  /\ \A r \in world.calls :
       /\ r.op = "change" /\ pc[r] = "save" => Typed(held[r])
       /\ r.op \in Saving /\ pc[r] = "write" => Typed(held[r].set)

\* Changed columns keep the types of a row, and the row whole.
LEMMA TypedPlus ==
  ASSUME NEW columns, NEW row, Typed(columns), Typed(row)
  PROVE  Typed(columns ++ row) /\ (MemberRow(row) => MemberRow(columns ++ row))
BY DEF Typed, MemberRow, ++

LEMMA MembersKept ==
  ASSUME ReqInv, MemberInv, NEW r \in world.calls, Moves(r), UNCHANGED world,
         DOMAIN members' = Users, \A u \in Users : members'[u] = NoRow \/ MemberRow(members'[u]),
         r.op = "change" /\ pc'[r] = "save" => Typed(held'[r]),
         r.op \in Saving /\ pc'[r] = "write" => Typed(held'[r].set)
  PROVE  MemberInv'
<1>1. ASSUME NEW q \in world.calls
      PROVE  /\ q.op = "change" /\ pc'[q] = "save" => Typed(held'[q])
             /\ q.op \in Saving /\ pc'[q] = "write" => Typed(held'[q].set)
  <2>1. CASE q = r
    BY <2>1
  <2>2. CASE q # r
    BY <2>2 DEF MemberInv, Moves
  <2> QED BY <2>1, <2>2
<1> QED BY <1>1 DEF MemberInv, MemberRow, Typed

LEMMA UpdateTyped ==
  ASSUME MemberInv, NEW u, NEW columns, Typed(columns), UpdateMember(u, columns)
  PROVE  DOMAIN members' = Users /\ \A v \in Users : members'[v] = NoRow \/ MemberRow(members'[v])
<1>1. CASE members[u] = NoRow \/ u \notin Users
  BY <1>1 DEF UpdateMember, MemberInv
<1>2. CASE u \in Users /\ members[u] # NoRow
  <2> DEFINE new == columns ++ members[u]
  <2>1. MemberRow(members[u]) /\ Typed(members[u])
    BY <1>2 DEF MemberInv, MemberRow
  <2>2. MemberRow(new)
    BY <2>1, TypedPlus
  <2>3. members' = [members EXCEPT ![u] = new]
    BY <1>2 DEF UpdateMember
  <2> HIDE DEF new
  <2> QED BY <1>2, <2>2, <2>3 DEF MemberInv
<1> QED BY <1>1, <1>2

\* What is saved of a member.
LEMMA EntityTyped ==
  ASSUME ReqInv, MemberInv, NEW r \in world.calls, r.op \in Saving, pc[r] = "save"
  PROVE  Typed(Entity(r))
<1>0. /\ r.op \in {"create", "assign", "place"} => r.status \in MemberStatuses
      /\ r.op \in {"assign", "place"} => r.role \in Roles
  BY MemberWorldsAssumption DEF ReqInv
<1>1. CASE r.op = "create"
  BY <1>0, <1>1 DEF Entity, Typed
<1>2. CASE r.op = "place"
  BY <1>0, <1>2 DEF Entity, Typed
<1>3. CASE r.op = "change"
  BY <1>3 DEF Entity, MemberInv
<1>4. CASE r.op = "assign"
  <2> DEFINE first == [c \in {"role", "status"} |-> IF c = "role" THEN r.role ELSE r.status]
             second == [c \in IF InBulk(r) THEN {} ELSE {"image", "shown"} |->
                          IF c = "image" THEN r.image ELSE GivenStatus(r)]
             third == [c \in IF r.way \in {"email", "id"} THEN {"card"} ELSE {} |-> r.card]
  <2>1. Typed(first)
    BY <1>0, <1>4 DEF Typed
  <2>2. Typed(second)
    <3>1. \A c : c \in DOMAIN second => c \in {"image", "shown"}
      OBVIOUS
    <3>2. "shown" \in DOMAIN second => second["shown"] \in {"NONE", "VERIFIED", "PENDING"}
      BY DEF GivenStatus
    <3> HIDE DEF second
    <3> QED BY <3>1, <3>2 DEF Typed, ImageStatuses
  <2>3. Typed(third)
    BY DEF Typed
  <2>4. Entity(r) = first ++ second ++ third
    BY <1>4 DEF Entity, Assignment
  <2> HIDE DEF first, second, third
  <2> QED BY <2>1, <2>2, <2>3, <2>4, TypedPlus
<1> QED BY <1>1, <1>2, <1>3, <1>4 DEF Saving

\* What is compared of it, and written in the end.
LEMMA CompareTyped ==
  ASSUME ReqInv, MemberInv, NEW r \in world.calls, CompareMember(r), UNCHANGED world
  PROVE  MemberInv'
<1> DEFINE entity == Entity(r)
           flag == [bulk |-> r.op = "assign" /\ InBulk(r)]
           compared == Comparison(entity, members[r.user])
<1>1. /\ Moves(r) /\ r.op \in Saving /\ pc[r] = "save" /\ pc'[r] = "write"
      /\ held'[r] = compared ++ flag /\ UNCHANGED memberVars
  <2>1. At(r, r.op, "save") /\ GoOn(r, "write", compared ++ flag)
    BY DEF CompareMember
  <2> HIDE DEF compared, flag
  <2> QED BY <2>1, AtMoves DEF CompareMember, Saving
<1>2. Typed(entity)
  BY <1>1, EntityTyped
<1> HIDE DEF entity
<1>3. Typed(compared.set) /\ "set" \in DOMAIN compared
  BY <1>2 DEF Comparison, Dirty, Typed
<1>4. held'[r].set = compared.set
  <2> HIDE DEF compared, flag
  <2> QED BY <1>1, <1>3 DEF ++
<1>5. Typed(held'[r].set) /\ UNCHANGED members
  BY <1>1, <1>3, <1>4 DEF memberVars
<1> QED BY <1>1, <1>5, MembersKept DEF MemberInv

LEMMA WriteTyped ==
  ASSUME ReqInv, MemberInv, NEW r \in world.calls, WriteMember(r), UNCHANGED world
  PROVE  MemberInv'
<1> DEFINE new == Saved(r, members[r.user], NewMember)
<1>1. /\ Moves(r) /\ r.op \in Saving /\ pc[r] = "write" /\ pc'[r] \in {"fallback", "done"}
      /\ UNCHANGED members \/ members' = [members EXCEPT ![r.user] = new]
  <2>1. At(r, r.op, "write") /\ (GoOn(r, "fallback", NoRow) \/ GoOn(r, "done", NoRow))
    BY DEF WriteMember, End
  <2>2. UNCHANGED members \/ members' = [members EXCEPT ![r.user] = Saved(r, @, NewMember)]
    BY DEF WriteMember
  <2> QED BY <2>1, <2>2, AtMoves DEF WriteMember, Saving
<1>2. ASSUME r.user \in Users PROVE new = NoRow \/ MemberRow(new)
  <2>1. Typed(held[r].set) /\ (members[r.user] = NoRow \/ MemberRow(members[r.user]))
    BY <1>1, <1>2 DEF MemberInv
  <2>2. MemberRow(NewMember)
    BY DEF NewMember, MemberRow, Typed, Roles, MemberStatuses, ImageStatuses
  <2>3. MemberRow(held[r].set ++ NewMember)
    BY <2>1, <2>2, TypedPlus DEF MemberRow
  <2>4. members[r.user] # NoRow => MemberRow(held[r].set ++ members[r.user])
    BY <2>1, TypedPlus DEF MemberRow
  <2> QED BY <2>1, <2>3, <2>4 DEF Saved
<1> HIDE DEF new
<1>3. DOMAIN members' = Users /\ \A u \in Users : members'[u] = NoRow \/ MemberRow(members'[u])
  BY <1>1, <1>2 DEF MemberInv
<1> QED BY <1>1, <1>3, MembersKept

\* Every step keeps the types of members.
LEMMA MemberStepTyped ==
  ASSUME ReqInv, MemberInv, NEW r \in world.calls, MemberStep(r), UNCHANGED world
  PROVE  MemberInv'
<1>0. Moves(r)
  BY MemberMoves
<1>1. CASE \/ CreateMember(r) \/ ValidateAssignment(r) \/ EnhancedFails(r) \/ ValidateBulk(r)
           \/ CheckRole(r) \/ FindPending(r) \/ FindHolder(r) \/ FindCard(r) \/ FindImage(r)
           \/ DeleteImage(r)
  <2>1. /\ UNCHANGED members /\ pc'[r] # "write" /\ ~(r.op = "change" /\ pc'[r] = "save")
    <3>1. CASE \/ CreateMember(r) \/ ValidateAssignment(r) \/ EnhancedFails(r) \/ ValidateBulk(r)
               \/ CheckRole(r)
      BY <3>1, AtMoves DEF CreateMember, ValidateAssignment, EnhancedFails, ValidateBulk,
            CheckRole, End, memberVars
    <3>2. CASE FindPending(r) \/ FindHolder(r) \/ FindCard(r)
      BY <3>2, AtMoves DEF FindPending, FindHolder, FindCard, End, memberVars
    <3>3. CASE FindImage(r) \/ DeleteImage(r)
      BY <3>3, AtMoves DEF FindImage, DeleteImage, End
    <3> QED BY <1>1, <3>1, <3>2, <3>3
  <2> QED BY <1>0, <2>1, MembersKept DEF MemberInv
<1>2. CASE FindMember(r)
  <2>1. /\ UNCHANGED members /\ r.op = "change" /\ pc'[r] \in {"save", "done"}
        /\ pc'[r] = "save" => r.user \in Joined /\ held'[r] = r.set ++ members[r.user]
    BY <1>2, AtMoves DEF FindMember, End, memberVars
  <2>2. ASSUME r.user \in Joined PROVE Typed(r.set ++ members[r.user])
    <3>1. Typed(r.set)
      BY <2>1, MemberWorldsAssumption DEF ReqInv
    <3>2. Typed(members[r.user])
      BY <2>2 DEF MemberInv, Joined, MemberRow
    <3> QED BY <3>1, <3>2, TypedPlus
  <2> QED BY <1>0, <2>1, <2>2, MembersKept DEF MemberInv
<1>3. CASE CompareMember(r)
  BY <1>3, CompareTyped
<1>4. CASE WriteMember(r)
  BY <1>4, WriteTyped
<1>5. CASE RemoveMember(r)
  <2>1. pc'[r] = "done" /\ members' = [members EXCEPT ![r.user] = NoRow]
    BY <1>5, AtMoves DEF RemoveMember, End
  <2>2. DOMAIN members' = Users /\ \A u \in Users : members'[u] = NoRow \/ MemberRow(members'[u])
    BY <2>1 DEF MemberInv
  <2> QED BY <1>0, <2>1, <2>2, MembersKept
<1>6. CASE VerifyMember(r) \/ Upload(r) \/ AssignCard(r) \/ Review(r)
  <2>1. pc'[r] = "done"
    BY <1>6, AtMoves DEF VerifyMember, Upload, AssignCard, Review, End
  <2>2. \/ UNCHANGED members
        \/ \E columns : Typed(columns) /\ UpdateMember(r.user, columns)
    <3>1. CASE VerifyMember(r)
      <4>1. Typed([status |-> "ACTIVE"])
        BY DEF Typed, MemberStatuses
      <4> QED BY <3>1, <4>1 DEF VerifyMember
    <3>2. CASE Upload(r)
      <4>1. Typed([image |-> r.image, shown |-> IF r.trusted THEN "VERIFIED" ELSE "PENDING"])
        BY DEF Typed, ImageStatuses
      <4> QED BY <3>2, <4>1 DEF Upload
    <3>3. CASE AssignCard(r)
      <4>1. Typed([card |-> r.card])
        BY DEF Typed
      <4> QED BY <3>3, <4>1 DEF AssignCard
    <3>4. CASE Review(r)
      <4>1. r.verdict \in ImageStatuses
        BY <3>4, MemberWorldsAssumption DEF Review, At, ReqInv
      <4>2. Typed(Verdict(r))
        BY <4>1 DEF Typed, Verdict
      <4> QED BY <3>4, <4>2 DEF Review
    <3> QED BY <1>6, <3>1, <3>2, <3>3, <3>4
  <2>3. DOMAIN members' = Users /\ \A u \in Users : members'[u] = NoRow \/ MemberRow(members'[u])
    BY <2>2, UpdateTyped DEF MemberInv
  <2> QED BY <1>0, <2>1, <2>3, MembersKept
<1> QED BY <1>1, <1>2, <1>3, <1>4, <1>5, <1>6 DEF MemberStep
=============================================================================
