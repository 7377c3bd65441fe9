-------------------------------- MODULE Rides --------------------------------
(***************************************************************************)
(* A vehicle for hire, the enrolments of students in it and the attendance *)
(* on its rides (src/modules/private-transportation).  Enrolments have     *)
(* generated ids: nothing but the code keeps a student to one of them.     *)
(***************************************************************************)
EXTENDS Integers, Sequences, Requests

CONSTANTS RideUsers,    \* users there are
          RidePupils    \* those with a row in students

VARIABLES hire,    \* the vehicle: bookhires, or NoRow
          rides,   \* student_bookhire_enrollment, by id
          trips    \* records of attendance, <<request, user>>

rideVars == <<hire, rides, trips>>

RideStatuses == {"pending", "approved", "rejected", "cancelled", "suspended"}

\* The table of enrolments a day begins with: where one is approved or waits for
\* approval its student may ride, and no student has two that are approved.
Approved(table, u) == {i \in DOMAIN table : table[i].user = u /\ table[i].status = "approved"}

ASSUME RideWorldsAssumption ==
  \A w \in Worlds :
    /\ w.serial \in BOOLEAN
    /\ LET users == {w.at.rides[i].user : i \in DOMAIN w.at.rides}
       IN  w.at.rides \in Seq([user : users, status : RideStatuses, isActive : BOOLEAN])
    /\ \A i \in DOMAIN w.at.rides :
         /\ w.at.rides[i].status \in {"approved", "pending"} => w.at.rides[i].isActive
         /\ \A j \in Approved(w.at.rides, w.at.rides[i].user) :
              i \in Approved(w.at.rides, w.at.rides[i].user) => i = j
    /\ \A r \in w.calls : /\ r.op = "rideStatus" => r.status \in RideStatuses
                          /\ r.op = "trip" => r.users \in Seq({r.users[i] : i \in DOMAIN r.users})

RidesInit == hire = world.at.hire /\ rides = world.at.rides /\ trips = {}

UpdateRide(i, columns) == rides' = [rides EXCEPT ![i] = columns ++ @]

-----------------------------------------------------------------------------
\* The owner and administrators: the row is found, then updated or removed by
\* its id, whatever became of it.
FindHire(r) ==
  /\ \E op \in {"hireUpdate", "hireRemove"} : At(r, op, "start")
  /\ IF hire # NoRow THEN GoOn(r, "update", NoRow) ELSE End(r)
  /\ UNCHANGED rideVars

WriteHire(r) ==
  /\ \E op \in {"hireUpdate", "hireRemove"} : At(r, op, "update")
  /\ End(r)
  /\ hire' = CASE r.op = "hireRemove" -> NoRow
               [] hire = NoRow -> NoRow
               [] OTHER -> r.set ++ hire
  /\ UNCHANGED <<rides, trips>>

\* Enrolments need an approved and active vehicle; its free seats are not asked.
CheckHire(r) ==
  /\ At(r, "ride", "start")
  /\ IF hire # NoRow /\ hire.status = "approved" /\ hire.isActive
     THEN GoOn(r, "exists", NoRow) ELSE End(r)
  /\ UNCHANGED rideVars

\* The status ACTIVE is another name of 'approved'.
OnBoard(u) == \E i \in DOMAIN rides : rides[i].user = u /\ rides[i].status = "approved"

CheckOnBoard(r) ==
  /\ At(r, "ride", "exists")
  /\ IF OnBoard(r.user) THEN End(r) ELSE GoOn(r, "insert", NoRow)
  /\ UNCHANGED rideVars

InsertRide(r) ==
  /\ At(r, "ride", "insert")
  /\ End(r)
  /\ rides' = Append(rides, [user |-> r.user, status |-> "approved", isActive |-> TRUE])
  /\ UNCHANGED <<hire, trips>>

\* What each decision asks of the row it reads, and what it writes later.
Ready_Mutant(r, row) == r.op = "rideActivate" => row.status = "approved"
Ready(r, row) == /\ r.op \in {"rideApprove", "rideReject"} => row.status = "pending"
                 /\ r.op = "rideActivate" => row.status = "approved"

Columns_Mutant(r) == [status |-> IF r.op = "rideStatus" THEN r.status ELSE "active"]
Columns(r) == CASE r.op = "rideCancel"   -> [status |-> "cancelled", isActive |-> FALSE]
                [] r.op = "rideReject"   -> [status |-> "rejected", isActive |-> FALSE]
                [] r.op = "rideApprove"  -> [status |-> "approved"]
                [] r.op = "rideActivate" -> [status |-> "approved", isActive |-> TRUE]
                [] r.op = "rideStatus"   -> [status |-> r.status]

FindRide(r) ==
  /\ \E op \in {"rideCancel", "rideReject", "rideApprove", "rideActivate", "rideStatus"} :
       At(r, op, "start")
  /\ IF r.id \in DOMAIN rides /\ Ready(r, rides[r.id]) THEN GoOn(r, "update", NoRow) ELSE End(r)
  /\ UNCHANGED rideVars

WriteRide(r) ==
  /\ \E op \in {"rideCancel", "rideReject", "rideApprove", "rideActivate", "rideStatus"} :
       At(r, op, "update")
  /\ End(r)
  /\ UpdateRide(r.id, Columns(r))
  /\ UNCHANGED <<hire, trips>>

-----------------------------------------------------------------------------
\* Attendance on a ride: by user id, by RFID or for a list of ids, one after the
\* other.  The owner's vehicle need be neither approved nor active.
FindOwnHire(r) ==
  /\ At(r, "trip", "start")
  /\ IF hire # NoRow THEN GoOn(r, "user", r.users) ELSE End(r)
  /\ UNCHANGED rideVars

MayRide(u) == \E i \in DOMAIN rides :
               rides[i].user = u /\ rides[i].status = "approved" /\ rides[i].isActive

Rest(r) == IF Len(held[r]) = 1 THEN End(r) ELSE GoOn(r, "user", Tail(held[r]))

\* The user is there, and in bulk the vehicle still.
Rideable(r) == Head(held[r]) \in RideUsers /\ (r.way = "bulk" => hire # NoRow)

\* A user's own type is never STUDENT, so that by id nobody's row in students is
\* looked at and no enrolment is asked for; by RFID it is.
Asked(r) == r.way = "rfid" /\ world.checks /\ Head(held[r]) \in RidePupils

Admitted(r) == Rideable(r) /\ (Asked(r) => MayRide(Head(held[r])))

\* A statement that fails ends the attempt, also where the enrolment is read: it
\* counts as none.  But a row in students that cannot be read counts as no row,
\* and the rider is recorded without asking for an enrolment ("unread").
FindRider(r) ==
  /\ At(r, "trip", "user")
  /\ \/ Admitted(r) /\ GoOn(r, "record", held[r])
     \/ (Admitted(r) => world.faulty) /\ Rest(r)
     \/ world.faulty /\ Rideable(r) /\ Asked(r) /\ GoOn(r, "unread", held[r])
  /\ UNCHANGED rideVars

\* Nobody is told: shouldReceiveAdvertisements answers no for every package.
RecordTrip(r) ==
  /\ \E step \in {"record", "unread"} : At(r, "trip", step)
  /\ Rest(r)
  /\ \/ trips' = trips \cup {<<r, Head(held[r])>>}
     \/ world.faulty /\ UNCHANGED trips
  /\ UNCHANGED <<hire, rides>>

RideStep(r) ==
  \/ FindHire(r) \/ WriteHire(r) \/ CheckHire(r) \/ CheckOnBoard(r) \/ InsertRide(r)
  \/ FindRide(r) \/ WriteRide(r) \/ FindOwnHire(r) \/ FindRider(r) \/ RecordTrip(r)

-----------------------------------------------------------------------------
(* Properties                                                              *)

\* Enrolments have their types.
RideTypeOK == \A i \in DOMAIN rides : rides[i].status \in RideStatuses /\ rides[i].isActive \in BOOLEAN

NoStatusSet == \A r \in world.calls : r.op # "rideStatus"

\* "Student is already enrolled in this bookhire": served one after the other,
\* where nobody sets a status by hand and no enrolment waits, nobody has two
\* that are approved.
EnrolledOnce ==
  world.serial /\ NoStatusSet /\ (\A i \in DOMAIN world.at.rides : world.at.rides[i].status # "pending")
  => \A i, j \in DOMAIN rides : /\ rides[i].user = rides[j].user
                                /\ rides[i].status = "approved" /\ rides[j].status = "approved"
                                => i = j

\* Served one after the other, where nobody sets a status by hand, an approved
\* enrolment is one that lets the student ride: no approval follows a rejection
\* or a cancellation.
ApprovedRides ==
  world.serial /\ NoStatusSet
  => \A i \in DOMAIN rides : rides[i].status = "approved" => rides[i].isActive

\* "Verify enrollment (if required by environment and user is a student)": with
\* calls one after the other, a student recorded by RFID has an enrolment that
\* is approved and active, whatever statement fails, but for the one that reads
\* his row in students; by id and in bulk nobody is taken for a student.
OnlyEnrolledRide ==
  [][world.serial /\ world.checks
       => \A t \in trips' \ trips :
            t[1].way = "rfid" /\ t[2] \in RidePupils /\ pc[t[1]] # "unread"
            => \E i \in DOMAIN rides : /\ rides[i].user = t[2] /\ rides[i].isActive
                                       /\ rides[i].status = "approved"]_trips
=============================================================================
