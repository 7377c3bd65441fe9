--------------------------- MODULE ClassEnrolment ---------------------------
(***************************************************************************)
(* The students of one class of the institute                              *)
(* (src/modules/institute_class_modules/institute_class_student): who      *)
(* enrols, by himself or not, and who verifies it.  A call about several   *)
(* students is modelled for one of them.                                   *)
(***************************************************************************)
EXTENDS People

VARIABLES rolls,      \* institute_class_students, one row for a user
          door        \* self-enrolment: is it open, and the code it asks

classVars == <<rolls, door>>

NewRoll == [isActive |-> TRUE, isVerified |-> FALSE, method |-> "manual"]

RollRows == [isActive : BOOLEAN, isVerified : BOOLEAN,
             method : {"manual", "self_enrollment", "teacher_assigned"}]

ASSUME ClassWorldsAssumption ==
  \A w \in Worlds :
    /\ w.at.rolls \in [Users -> RollRows \cup {NoRow}]
    /\ w.at.door.open \in BOOLEAN
    /\ \A r \in w.calls :
         /\ r.op = "enrol" => r.way \in {"self", "code", "teacher", "manual"}
         /\ r.op = "enrol" /\ r.way = "teacher" => r.unverified \in BOOLEAN
         /\ r.op = "rollUpdate" \/ (r.op = "enrol" /\ r.way = "manual") => r.isActive \in BOOLEAN

Enrolled == {u \in Users : rolls[u] # NoRow}

ClassInit == rolls = world.at.rolls /\ door = world.at.door

UpdateRoll(u, columns) ==
  rolls' = IF rolls[u] = NoRow THEN rolls ELSE [rolls EXCEPT ![u] = columns ++ @]

-----------------------------------------------------------------------------
\* selfEnrollToClass and a teacher's assignment want an active member of the
\* institute; with the class's code, the student record is what is asked.
Admitted(r) ==
  CASE r.way \in {"self", "teacher"} -> r.user \in Joined /\ members[r.user].status = "ACTIVE"
    [] r.way = "code" -> door.open /\ door.code = r.code /\ Pupil(r.user)
    [] r.way = "manual" -> TRUE

BeginEnrol(r) ==
  /\ At(r, "enrol", "start")
  /\ IF Admitted(r) THEN GoOn(r, "exists", NoRow) ELSE End(r)
  /\ UNCHANGED classVars

Absent_Mutant(r) == Pupil(r.user)
Absent(r) == r.user \notin Enrolled /\ (r.way \in {"self", "teacher"} => Pupil(r.user))

CheckEnrolled(r) ==
  /\ At(r, "enrol", "exists")
  /\ IF Absent(r) THEN GoOn(r, "save", NoRow) ELSE End(r)
  /\ UNCHANGED classVars

Enrolment(r) ==
  CASE r.way = "manual" -> [isActive |-> r.isActive]
    [] r.way = "teacher" -> [isActive |-> TRUE, isVerified |-> ~r.unverified,
                             method |-> "teacher_assigned"]
    [] OTHER -> [isActive |-> TRUE, isVerified |-> FALSE, method |-> "self_enrollment"]

CompareRoll(r) ==
  /\ At(r, "enrol", "save")
  /\ GoOn(r, "write", Comparison(Enrolment(r), rolls[r.user]))
  /\ UNCHANGED classVars

\* The row refers to a student record: without one the insert fails.
WriteRoll(r) ==
  /\ At(r, "enrol", "write")
  /\ End(r)
  /\ rolls' = IF Pupil(r.user)
              THEN [rolls EXCEPT ![r.user] = Saved(r, @, NewRoll)] ELSE rolls
  /\ UNCHANGED door

\* Update, remove and verify look for the row first.
FindRoll(r) ==
  /\ r.op \in {"rollUpdate", "unenrol", "rollVerify"} /\ At(r, r.op, "start")
  /\ IF r.user \in Enrolled THEN GoOn(r, "update", NoRow) ELSE End(r)
  /\ UNCHANGED classVars

SetActive(r) ==
  /\ At(r, "rollUpdate", "update")
  /\ End(r)
  /\ UpdateRoll(r.user, [isActive |-> r.isActive])
  /\ UNCHANGED door

\* A rejection deletes the row, as a removal does.
Unenrol(r) ==
  /\ At(r, "unenrol", "update") \/ (At(r, "rollVerify", "update") /\ ~r.approve)
  /\ End(r)
  /\ rolls' = [rolls EXCEPT ![r.user] = NoRow]
  /\ UNCHANGED door

BulkRemove(r) ==
  /\ At(r, "bulkUnenrol", "start")
  /\ End(r)
  /\ rolls' = [u \in Users |-> IF u \in r.users THEN NoRow ELSE rolls[u]]
  /\ UNCHANGED door

ApproveRoll(r) ==
  /\ At(r, "rollVerify", "update") /\ r.approve
  /\ End(r)
  /\ UpdateRoll(r.user, [isVerified |-> TRUE])
  /\ UNCHANGED door

\* Self-enrolment is enabled with a code, or disabled.
SetDoor(r) ==
  /\ At(r, "door", "start")
  /\ End(r)
  /\ door' = IF r.code = NoRow THEN [open |-> FALSE, code |-> NoRow]
             ELSE [open |-> TRUE, code |-> r.code]
  /\ UNCHANGED rolls

ClassStep(r) ==
  \/ BeginEnrol(r) \/ CheckEnrolled(r) \/ CompareRoll(r) \/ WriteRoll(r)
  \/ FindRoll(r) \/ SetActive(r) \/ Unenrol(r) \/ BulkRemove(r) \/ ApproveRoll(r)
  \/ SetDoor(r)

-----------------------------------------------------------------------------
(* Properties                                                              *)

\* Enrolments have their types.
ClassTypeOK == /\ rolls \in [Users -> RollRows \cup {NoRow}]
               /\ door.open \in BOOLEAN

\* A student who enrols himself is verified by a verifier and by nobody else:
\* whatever calls overlap, a row that becomes verified is verified by an
\* approval, or by a teacher's assignment.
VerifiedBySomeone ==
  [][\A u \in Users :
       rolls'[u] # NoRow /\ rolls'[u].isVerified /\ (u \in Enrolled => ~rolls[u].isVerified)
         => \E r \in Underway("rollVerify") \cup Underway("enrol") :
              /\ r.user = u
              /\ IF r.op = "enrol" THEN r.way = "teacher" /\ ~r.unverified ELSE r.approve]_rolls

\* Served one after the other, a verified enrolment stays verified until the
\* student is removed: enrolling again changes nothing.
EnrolmentStaysVerified ==
  [][\A u \in Enrolled : world.serial /\ rolls[u].isVerified /\ rolls'[u] # NoRow
                           => rolls'[u].isVerified]_rolls
=============================================================================
