-------------------------- MODULE SubjectEnrolment --------------------------
(***************************************************************************)
(* The students of one subject of the class (src/modules/                  *)
(* institute_class_subject_modules/institute_class_subject_students) and   *)
(* the key with which they enrol.  Keys are numbered in the order in which *)
(* they are generated.                                                     *)
(***************************************************************************)
EXTENDS ClassEnrolment

VARIABLES seats,      \* institute_class_subject_students
          entry,      \* is self-enrolment enabled, and the key it asks
          newest,     \* the last key generated
          withdrawn   \* keys that were disabled; no handler reads it

subjectVars == <<seats, entry, newest, withdrawn>>

NewSeat == [isActive |-> TRUE, method |-> "teacher_assigned"]

SeatRows == [isActive : BOOLEAN, method : {"self_enrolled", "teacher_assigned"}]

ASSUME SubjectWorldsAssumption ==
  /\ NoRow \notin Nat
  /\ \A w \in Worlds : \A r \in w.calls :
       /\ r.op = "seat" => r.way \in {"self", "create", "teacher", "bulk"}
       /\ r.op = "seatUpdate" \/ (r.op = "seat" /\ r.way = "create") => r.isActive \in BOOLEAN
       /\ r.op = "settings" => r.enable \in BOOLEAN

Seated == {u \in Users : seats[u] # NoRow}

SubjectInit == /\ seats = [u \in Users |-> NoRow]
               /\ entry = [open |-> FALSE, key |-> NoRow]
               /\ newest = 0 /\ withdrawn = {}

-----------------------------------------------------------------------------
\* The key a student presents, any that was generated, is remembered.  A bulk
\* enrolment looks at nothing.
BeginSeat(r) ==
  /\ At(r, "seat", "start")
  /\ CASE r.way = "create" -> GoOn(r, "exists", NoRow)
       [] r.way = "bulk" -> GoOn(r, "save", NoRow)
       [] r.way = "teacher" -> GoOn(r, "class", NoRow)
       [] r.way = "self" -> \E k \in 1..newest :
                                IF entry = [open |-> TRUE, key |-> k]
                                THEN GoOn(r, "class", k) ELSE End(r)
  /\ UNCHANGED subjectVars

InClass(r) == r.user \in Enrolled /\ rolls[r.user].isActive

CheckClass(r) ==
  /\ At(r, "seat", "class")
  /\ IF InClass(r) THEN GoOn(r, "exists", held[r]) ELSE End(r)
  /\ UNCHANGED subjectVars

CheckSeated(r) ==
  /\ At(r, "seat", "exists")
  /\ IF r.user \in Seated THEN End(r) ELSE GoOn(r, "save", held[r])
  /\ UNCHANGED subjectVars

Seat_Mutant(r) == [isActive |-> TRUE, method |-> "self_enrollment"]
Seat(r) ==
  CASE r.way = "create" -> [isActive |-> r.isActive]
    [] r.way = "self" -> [isActive |-> TRUE, method |-> "self_enrolled"]
    [] OTHER -> [isActive |-> TRUE, method |-> "teacher_assigned"]

CompareSeat(r) ==
  /\ At(r, "seat", "save")
  /\ GoOn(r, "write", Comparison(Seat(r), seats[r.user]))
  /\ UNCHANGED subjectVars

WriteSeat(r) ==
  /\ At(r, "seat", "write")
  /\ End(r)
  /\ seats' = IF Known(r.user) THEN [seats EXCEPT ![r.user] = Saved(r, @, NewSeat)] ELSE seats
  /\ UNCHANGED <<entry, newest, withdrawn>>

FindSeat(r) ==
  /\ r.op \in {"seatUpdate", "unseat"} /\ At(r, r.op, "start")
  /\ IF r.user \in Seated THEN GoOn(r, "update", NoRow) ELSE End(r)
  /\ UNCHANGED subjectVars

ChangeSeat(r) ==
  /\ At(r, "seatUpdate", "update") /\ End(r)
  /\ seats' = IF r.user \in Seated THEN [seats EXCEPT ![r.user].isActive = r.isActive] ELSE seats
  /\ UNCHANGED <<entry, newest, withdrawn>>

Unseat(r) ==
  /\ At(r, "unseat", "update") /\ End(r)
  /\ seats' = [seats EXCEPT ![r.user] = NoRow]
  /\ UNCHANGED <<entry, newest, withdrawn>>

-----------------------------------------------------------------------------
\* Enabling keeps a key that is there; disabling removes it.
NextKey(r) == CASE ~r.enable -> NoRow
                [] r.enable /\ entry.key = NoRow -> newest + 1
                [] OTHER -> entry.key

ReadSettings(r) ==
  /\ At(r, "settings", "start")
  /\ GoOn(r, "update", NextKey(r))
  /\ newest' = IF r.enable /\ entry.key = NoRow THEN newest + 1 ELSE newest
  /\ UNCHANGED <<seats, entry, withdrawn>>

WriteSettings(r) ==
  /\ At(r, "settings", "update")
  /\ End(r)
  /\ entry' = [open |-> r.enable, key |-> held[r]]
  /\ withdrawn' = IF r.enable \/ entry.key = NoRow THEN withdrawn
                  ELSE withdrawn \cup {entry.key}
  /\ UNCHANGED <<seats, newest>>

SubjectStep(r) ==
  \/ BeginSeat(r) \/ CheckClass(r) \/ CheckSeated(r) \/ CompareSeat(r) \/ WriteSeat(r)
  \/ FindSeat(r) \/ ChangeSeat(r) \/ Unseat(r)
  \/ ReadSettings(r) \/ WriteSettings(r)

-----------------------------------------------------------------------------
(* Properties                                                              *)

\* Seats and keys have their types.
SubjectTypeOK ==
  /\ seats \in [Users -> SeatRows \cup {NoRow}]
  /\ newest \in Nat /\ withdrawn \subseteq 1..newest
  /\ entry.key \in 1..newest \cup {NoRow} /\ entry.open = (entry.key # NoRow)

\* "You must be enrolled in the class to enroll in this subject": served one
\* after the other, a student who enrols himself or is assigned by the teacher
\* is active in the class, whatever was done to his enrolment before.
SeatNeedsClass ==
  [][\A u \in Users : world.serial /\ u \notin Seated /\ seats'[u] # NoRow
       => \E r \in Underway("seat") :
            r.user = u /\ (r.way \in {"self", "teacher"} => u \in Enrolled /\ rolls[u].isActive)
    ]_seats

\* Served one after the other, a key that was withdrawn admits nobody again,
\* however often enrolment is disabled and enabled.
WithdrawnKeyDead ==
  [][\A r \in world.calls :
       world.serial /\ r.op = "seat" /\ pc[r] = "start" /\ pc'[r] = "class" /\ r.way = "self"
         => held'[r] \notin withdrawn]_requestVars
=============================================================================
