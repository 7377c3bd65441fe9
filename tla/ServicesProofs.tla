--------------------------- MODULE ServicesProofs ---------------------------
(***************************************************************************)
(* What holds of attendance, advertisements, rides and uploads whatever    *)
(* the calls, members, advertisements, enrolments and files, proved.       *)
(*                                                                         *)
(* The modules share the place pc of each request and what it remembers,   *)
(* held.  The first section says which request a step moves; every later   *)
(* invariant then follows from the steps of its own module and, where      *)
(* calls are served one after the other, from that no other is under way.  *)
(***************************************************************************)
EXTENDS Services, RequestProofs, FiniteSetTheorems, SequenceTheorems, TLAPS

AdOps     == {"adCreate", "adUpdate", "adRemove"}
DecideOps == {"rideCancel", "rideReject", "rideApprove", "rideActivate", "rideStatus"}
RideOps   == {"hireUpdate", "hireRemove", "ride", "trip"} \cup DecideOps
UploadOps == {"signedUrl", "put", "serve", "publish", "setImage"}

-----------------------------------------------------------------------------
(* Which request a step moves                                              *)

\* Those of advertisements.
LEMMA AdMoves == ASSUME ReqInv, NEW r \in world.calls, AdStep(r)
                 PROVE  Moves(r) /\ r.op \in AdOps
<1>1. Goes(r) /\ r.op \in AdOps
  BY DEF AdStep, WriteAd, ForgetList, Goes, At, End, AdOps
<1> QED BY <1>1, GoesMoves

LEMMA ManualMoves == ASSUME ReqInv, NEW r \in world.calls, FindAd(r) \/ CountManual(r)
                     PROVE  Moves(r) /\ r.op = "advertise"
<1>1. Goes(r) /\ r.op = "advertise"
  BY DEF FindAd, CountManual, Goes, At, End
<1> QED BY <1>1, GoesMoves

\* Those of marks.
LEMMA MarkMoves == ASSUME ReqInv, NEW r \in world.calls, MarkStep(r)
                   PROVE  Moves(r) /\ r.op = "mark"
<1>1. CASE FindByRfid(r) \/ ValidateEnrolment(r) \/ FindByCard(r) \/ FindStudents(r)
  <2>1. Goes(r) /\ r.op = "mark"
    BY <1>1 DEF FindByRfid, ValidateEnrolment, FindByCard, FindStudents, Goes, At, End
  <2> QED BY <2>1, GoesMoves
<1>2. CASE Mark(r) \/ WriteBatch(r) \/ MarkAgain(r) \/ AnswerBulk(r)
  <2>1. Goes(r) /\ r.op = "mark"
    BY <1>2 DEF Mark, WriteBatch, MarkAgain, AnswerBulk, Goes, At, End
  <2> QED BY <2>1, GoesMoves
<1> QED BY <1>1, <1>2 DEF MarkStep

\* Those of rides.
LEMMA RideMoves == ASSUME ReqInv, NEW r \in world.calls, RideStep(r)
                   PROVE  Moves(r) /\ r.op \in RideOps
<1>1. CASE FindHire(r) \/ WriteHire(r) \/ CheckHire(r) \/ CheckOnBoard(r) \/ InsertRide(r)
  <2>1. Goes(r) /\ r.op \in RideOps
    BY <1>1 DEF FindHire, WriteHire, CheckHire, CheckOnBoard, InsertRide, Goes, At, End, RideOps
  <2> QED BY <2>1, GoesMoves
<1>2. CASE FindRide(r) \/ WriteRide(r) \/ FindOwnHire(r) \/ FindRider(r) \/ RecordTrip(r)
  <2>1. Goes(r) /\ r.op \in RideOps
    BY <1>2 DEF FindRide, WriteRide, FindOwnHire, FindRider, RecordTrip, Rest, Goes, At, End,
                RideOps, DecideOps
  <2> QED BY <2>1, GoesMoves
<1> QED BY <1>1, <1>2 DEF RideStep

\* Those of files and images.
LEMMA UploadMoves == ASSUME ReqInv, NEW r \in world.calls, UploadStep(r)
                     PROVE  Moves(r) /\ r.op \in UploadOps
<1>1. CASE IssueUrl(r) \/ PutFile(r) \/ FindServed(r) \/ CheckPublic(r) \/ VerifyFile(r)
  <2>1. Goes(r) /\ r.op \in UploadOps
    BY <1>1 DEF IssueUrl, PutFile, FindServed, CheckPublic, VerifyFile, Goes, At, End, UploadOps
  <2> QED BY <2>1, GoesMoves
<1>2. CASE MakePublic(r) \/ Discard(r) \/ FindPlace(r) \/ RemoveSuperseded(r) \/ WriteImage(r)
  <2>1. Goes(r) /\ r.op \in UploadOps
    BY <1>2 DEF MakePublic, Discard, FindPlace, RemoveSuperseded, WriteImage, Goes, At, End,
                UploadOps
  <2> QED BY <2>1, GoesMoves
<1> QED BY <1>1, <1>2 DEF UploadStep

-----------------------------------------------------------------------------
(* What the steps of the system are                                        *)

\* Steps by which no request moves: an entry or an address expires, or a task
\* that tells parents goes on.
TaskStep == /\ UNCHANGED requestVars
            /\ \/ ListExpires /\ UNCHANGED <<memberVars, noticeVars, markVars, rideVars, uploadVars>>
               \/ UrlExpires /\ UNCHANGED <<memberVars, adVars, noticeVars, markVars, rideVars>>
               \/ /\ \E t \in DOMAIN notices : NoticeStep(t)
                  /\ UNCHANGED <<memberVars, markVars, rideVars, uploadVars>>
               \/ UNCHANGED <<memberVars, adVars, noticeVars, markVars, rideVars, uploadVars>>

\* Steps by which a request moves.
CallStep(r) ==
  /\ Moves(r) /\ Rested(r)
  /\ \/ /\ MemberStep(r) /\ r.op \in MemberOps
        /\ UNCHANGED <<adVars, noticeVars, markVars, rideVars, uploadVars>>
     \/ /\ AdStep(r) /\ r.op \in AdOps
        /\ UNCHANGED <<memberVars, noticeVars, markVars, rideVars, uploadVars>>
     \/ /\ (FindAd(r) \/ CountManual(r)) /\ r.op = "advertise"
        /\ UNCHANGED <<memberVars, markVars, rideVars, uploadVars>>
     \/ MarkStep(r) /\ r.op = "mark" /\ UNCHANGED <<rideVars, uploadVars>>
     \/ /\ RideStep(r) /\ r.op \in RideOps
        /\ UNCHANGED <<memberVars, adVars, noticeVars, markVars, uploadVars>>
     \/ /\ UploadStep(r) /\ r.op \in UploadOps
        /\ UNCHANGED <<memberVars, adVars, noticeVars, markVars, rideVars>>

LEMMA NoticeRests == ASSUME NEW t, NoticeStep(t) PROVE UNCHANGED requestVars
BY DEF NoticeStep, BeginNotice, ChooseListed, QueryAds, KeepList, CountSending, Attempt,
       TellAllParents, EndNotice

\* Every step is one of them, in the same world and with the same users.
LEMMA StepKinds ==
  ASSUME ReqInv, [ServicesNext]_serviceVars
  PROVE  /\ UNCHANGED <<world, people>>
         /\ (\E r \in world.calls : CallStep(r)) \/ TaskStep
<1>1. ASSUME NEW r \in world.calls, Rested(r),
             \/ MemberStep(r) /\ UNCHANGED <<world, adVars, noticeVars, markVars, rideVars, uploadVars>>
             \/ AdStep(r) /\ UNCHANGED <<world, memberVars, noticeVars, markVars, rideVars, uploadVars>>
             \/ /\ FindAd(r) \/ CountManual(r)
                /\ UNCHANGED <<world, memberVars, markVars, rideVars, uploadVars>>
             \/ MarkStep(r) /\ UNCHANGED <<world, rideVars, uploadVars>>
             \/ RideStep(r) /\ UNCHANGED <<world, memberVars, adVars, noticeVars, markVars, uploadVars>>
             \/ UploadStep(r) /\ UNCHANGED <<world, memberVars, adVars, noticeVars, markVars, rideVars>>
      PROVE  UNCHANGED world /\ CallStep(r)
  BY <1>1, MemberMoves, AdMoves, ManualMoves, MarkMoves, RideMoves, UploadMoves DEF CallStep
<1>2. CASE UNCHANGED serviceVars
  BY <1>2 DEF serviceVars, TaskStep
<1>3. ASSUME ListExpires,
             UNCHANGED <<world, memberVars, noticeVars, markVars, rideVars, uploadVars>>
      PROVE  UNCHANGED world /\ TaskStep
  BY <1>3 DEF ListExpires, TaskStep, requestVars, memberVars, noticeVars, markVars, rideVars,
              uploadVars
<1>4. ASSUME UrlExpires, UNCHANGED <<world, memberVars, adVars, noticeVars, markVars, rideVars>>
      PROVE  UNCHANGED world /\ TaskStep
  BY <1>4 DEF UrlExpires, TaskStep, requestVars, memberVars, adVars, noticeVars, markVars,
              rideVars
<1>5. ASSUME \E t \in DOMAIN notices : NoticeStep(t),
             UNCHANGED <<world, memberVars, markVars, rideVars, uploadVars>>
      PROVE  UNCHANGED world /\ TaskStep
  BY <1>5, NoticeRests DEF TaskStep, memberVars, markVars, rideVars, uploadVars
<1>6. CASE ServicesNext
  <2>1. UNCHANGED people
    BY <1>6 DEF ServicesNext
  <2> QED BY <1>1, <1>2, <1>3, <1>4, <1>5, <1>6, <2>1 DEF ServicesNext
<1>7. UNCHANGED serviceVars => UNCHANGED people
  BY DEF serviceVars
<1> QED BY <1>2, <1>6, <1>7

\* So no two requests are ever under way where they are served one by one.
LEMMA NextReq == ASSUME ReqInv, [ServicesNext]_serviceVars PROVE ReqInv'
<1>1. UNCHANGED world
  BY StepKinds
<1>2. CASE \E r \in world.calls : CallStep(r)
  BY <1>1, <1>2, MovesReq DEF CallStep
<1>3. CASE TaskStep
  BY <1>1, <1>3 DEF TaskStep, requestVars, ReqInv, Idle
<1> QED BY <1>2, <1>3, StepKinds

LEMMA InitReq == ServicesInit => ReqInv
BY DEF ServicesInit, RequestInit, ReqInv, Idle

-----------------------------------------------------------------------------
(* Rides                                                                   *)

Seen == {world.at.rides[i].user : i \in DOMAIN world.at.rides}
          \cup {r.user : r \in {q \in world.calls : q.op = "ride"}}

RideRows == [user : Seen, status : RideStatuses, isActive : BOOLEAN]

\* Enrolments are only ever added, so that one that was found is still there; and
\* it is as it was found where no other call is under way.
FoundRide == \A r \in world.calls :
               r.op \in DecideOps /\ pc[r] = "update"
                 => r.id \in DOMAIN rides /\ (world.serial => Ready(r, rides[r.id]))

\* Decided one after the other, what is approved or may be is active.
RidesActive ==
  world.serial /\ NoStatusSet
    => \A i \in DOMAIN rides : rides[i].status \in {"approved", "pending"} => rides[i].isActive

\* None waits, none is approved twice, and who is about to be enrolled is not.
RidesOnce ==
  world.serial /\ NoStatusSet /\ (\A i \in DOMAIN world.at.rides : world.at.rides[i].status # "pending")
  => /\ \A i \in DOMAIN rides : rides[i].status # "pending"
     /\ \A i, j \in DOMAIN rides : /\ rides[i].user = rides[j].user
                                   /\ rides[i].status = "approved" /\ rides[j].status = "approved"
                                   => i = j
     /\ \A r \in world.calls : r.op = "ride" /\ pc[r] = "insert" => ~OnBoard(r.user)

\* Who is about to be recorded by RFID has the enrolment that was looked at.
TripChecked ==
  world.serial /\ world.checks
    => \A r \in world.calls :
         /\ r.op = "trip" /\ pc[r] = "record" /\ r.way = "rfid" /\ Head(held[r]) \in RidePupils
         => MayRide(Head(held[r]))

RideInv == /\ rides \in Seq(RideRows)
           /\ FoundRide /\ RidesActive /\ RidesOnce /\ TripChecked

\* The row after a decision.
LEMMA ColumnsWritten ==
  ASSUME ReqInv, NEW r \in world.calls, r.op \in DecideOps, NEW row \in RideRows
  PROVE  /\ Columns(r) ++ row \in RideRows
         /\ (Columns(r) ++ row).user = row.user
         /\ r.op \in {"rideCancel", "rideReject"} => (Columns(r) ++ row).status \notin {"approved", "pending"}
         /\ r.op \in {"rideApprove", "rideActivate"} => (Columns(r) ++ row).status = "approved"
         /\ r.op = "rideApprove" => (Columns(r) ++ row).isActive = row.isActive
         /\ r.op = "rideActivate" => (Columns(r) ++ row).isActive
<1>1. /\ DOMAIN row = {"user", "status", "isActive"}
      /\ row.user \in Seen /\ row.status \in RideStatuses /\ row.isActive \in BOOLEAN
  BY DEF RideRows
<1>2. ASSUME NEW s \in RideStatuses, NEW a \in BOOLEAN
      PROVE  /\ [status |-> s] ++ row \in RideRows
             /\ ([status |-> s] ++ row).user = row.user
             /\ ([status |-> s] ++ row).status = s
             /\ ([status |-> s] ++ row).isActive = row.isActive
             /\ [status |-> s, isActive |-> a] ++ row \in RideRows
             /\ ([status |-> s, isActive |-> a] ++ row).user = row.user
             /\ ([status |-> s, isActive |-> a] ++ row).status = s
             /\ ([status |-> s, isActive |-> a] ++ row).isActive = a
  BY <1>1, <1>2 DEF ++, RideRows
<1>3. {"cancelled", "rejected", "approved"} \subseteq RideStatuses
  BY DEF RideStatuses
<1>4. CASE r.op \in {"rideCancel", "rideReject"}
  BY <1>2, <1>3, <1>4 DEF Columns
<1>5. CASE r.op \in {"rideApprove", "rideActivate"}
  BY <1>2, <1>3, <1>5 DEF Columns
<1>6. CASE r.op = "rideStatus"
  <2>1. r.status \in RideStatuses
    BY <1>6, RideWorldsAssumption DEF ReqInv
  <2> QED BY <1>2, <1>6, <2>1 DEF Columns
<1> QED BY <1>4, <1>5, <1>6 DEF DecideOps

\* Who else moves leaves the enrolments as they are, and those who look at them.
LEMMA RidesIdle ==
  ASSUME ReqInv, RideInv, UNCHANGED <<world, rides>>,
         \A q \in world.calls : \/ pc'[q] = pc[q] /\ held'[q] = held[q]
                                \/ q.op \notin DecideOps \cup {"ride", "trip"}
  PROVE  RideInv'
<1>1. FoundRide' /\ RidesOnce' /\ TripChecked'
  BY DEF RideInv, FoundRide, RidesOnce, TripChecked, OnBoard, MayRide, NoStatusSet, DecideOps, Ready
<1>2. (rides \in Seq(RideRows))' /\ RidesActive'
  BY DEF RideInv, RideRows, Seen, RidesActive, NoStatusSet
<1> QED BY <1>1, <1>2 DEF RideInv

\* Who looks at the enrolments, and goes on because of what is there.
LEMMA RidesSeen ==
  ASSUME ReqInv, RideInv, NEW r \in world.calls, Moves(r), UNCHANGED <<world, rides>>,
         r.op \in DecideOps /\ pc'[r] = "update" => r.id \in DOMAIN rides /\ Ready(r, rides[r.id]),
         r.op = "ride" /\ pc'[r] = "insert" => ~OnBoard(r.user),
         world.checks /\ r.op = "trip" /\ pc'[r] = "record" /\ r.way = "rfid"
           /\ Head(held'[r]) \in RidePupils => MayRide(Head(held'[r]))
  PROVE  RideInv'
<1>0. \A q \in world.calls : q # r => pc'[q] = pc[q] /\ held'[q] = held[q]
  BY DEF Moves
<1>1. FoundRide'
  BY <1>0 DEF RideInv, FoundRide, Ready
<1>2. RidesOnce'
  BY <1>0 DEF RideInv, RidesOnce, OnBoard, NoStatusSet
<1>3. TripChecked'
  <2> SUFFICES ASSUME world.serial, world.checks, NEW q \in world.calls, q.op = "trip",
                      pc'[q] = "record", q.way = "rfid", Head(held'[q]) \in RidePupils
               PROVE  \E i \in DOMAIN rides : /\ rides[i].user = Head(held'[q])
                                              /\ rides[i].status = "approved" /\ rides[i].isActive
    BY DEF TripChecked, MayRide
  <2>1. MayRide(Head(held'[q]))
    BY <1>0 DEF RideInv, TripChecked
  <2> QED BY <2>1 DEF MayRide
<1>4. (rides \in Seq(RideRows))' /\ RidesActive'
  BY DEF RideInv, RideRows, Seen, RidesActive, NoStatusSet
<1> QED BY <1>1, <1>2, <1>3, <1>4 DEF RideInv

\* Who writes enrolments: where calls are served one after the other nobody else
\* is in the middle of his.
LEMMA OthersStart ==
  ASSUME ReqInv, NEW r \in world.calls, Moves(r), pc'[r] = "done"
  PROVE  \A q \in world.calls : pc'[q] \notin Idle => q # r /\ pc'[q] = pc[q] /\ ~world.serial
BY DEF Moves, Idle

\* An enrolment that is new.
LEMMA InsertRides ==
  ASSUME ReqInv, RideInv, NEW r \in world.calls, InsertRide(r), UNCHANGED world
  PROVE  RideInv'
<1>0. /\ r.op = "ride" /\ pc[r] = "insert" /\ Moves(r) /\ pc'[r] = "done"
      /\ rides' = Append(rides, [user |-> r.user, status |-> "approved", isActive |-> TRUE])
  BY AtMoves DEF InsertRide, End
<1> DEFINE new == [user |-> r.user, status |-> "approved", isActive |-> TRUE]
<1>1. new \in RideRows
  BY <1>0 DEF RideRows, Seen, RideStatuses
<1>2. /\ rides \in Seq(RideRows) /\ rides' = Append(rides, new) /\ Len(rides) \in Nat
      /\ DOMAIN rides = 1 .. Len(rides)
  BY <1>0 DEF RideInv
<1>3. /\ new.user = r.user /\ new.status = "approved" /\ new.isActive
  OBVIOUS
<1> HIDE DEF new
<1>4. /\ rides' \in Seq(RideRows) /\ DOMAIN rides' = 1 .. Len(rides) + 1
      /\ \A i \in DOMAIN rides : rides'[i] = rides[i]
      /\ rides'[Len(rides) + 1] = new
  BY <1>1, <1>2
<1>5. \A i \in DOMAIN rides' : i \in DOMAIN rides \/ i = Len(rides) + 1
  BY <1>2, <1>4
<1>6. (rides \in Seq(RideRows))'
  BY <1>4 DEF RideRows, Seen
<1>7. \A q \in world.calls : pc'[q] \notin Idle => q # r /\ pc'[q] = pc[q] /\ ~world.serial
  BY <1>0, OthersStart
<1>8. FoundRide'
  <2> SUFFICES ASSUME NEW q \in world.calls, q.op \in DecideOps, pc'[q] = "update"
               PROVE  q.id \in DOMAIN rides' /\ ~world.serial
    BY DEF FoundRide
  <2>1. pc[q] = "update" /\ ~world.serial
    BY <1>7 DEF Idle
  <2>2. q.id \in DOMAIN rides
    BY <2>1 DEF RideInv, FoundRide
  <2> QED BY <1>2, <1>4, <2>1, <2>2
<1>9. RidesActive'
  BY <1>3, <1>4, <1>5 DEF RideInv, RidesActive, NoStatusSet
<1>10. RidesOnce'
  <2> SUFFICES ASSUME world.serial, NoStatusSet,
                      \A i \in DOMAIN world.at.rides : world.at.rides[i].status # "pending"
               PROVE  /\ \A i \in DOMAIN rides' : rides'[i].status # "pending"
                      /\ \A i, j \in DOMAIN rides' :
                           /\ rides'[i].user = rides'[j].user
                           /\ rides'[i].status = "approved" /\ rides'[j].status = "approved"
                           => i = j
                      /\ \A q \in world.calls : q.op = "ride" /\ pc'[q] = "insert" => FALSE
    BY DEF RidesOnce, NoStatusSet
  <2>1. /\ \A i \in DOMAIN rides : rides[i].status # "pending"
        /\ \A i, j \in DOMAIN rides : /\ rides[i].user = rides[j].user
                                      /\ rides[i].status = "approved" /\ rides[j].status = "approved"
                                      => i = j
        /\ ~OnBoard(r.user)
    BY <1>0 DEF RideInv, RidesOnce
  <2>2. \A i \in DOMAIN rides' : rides'[i].status # "pending"
    BY <1>3, <1>4, <1>5, <2>1
  <2>3. \A i \in DOMAIN rides : rides[i].user = r.user => rides[i].status # "approved"
    BY <2>1 DEF OnBoard
  <2>4. \A i, j \in DOMAIN rides' : /\ rides'[i].user = rides'[j].user
                                    /\ rides'[i].status = "approved" /\ rides'[j].status = "approved"
                                    => i = j
    BY <1>3, <1>4, <1>5, <2>1, <2>3
  <2>5. \A q \in world.calls : q.op = "ride" /\ pc'[q] = "insert" => FALSE
    BY <1>7 DEF Idle
  <2> QED BY <2>2, <2>4, <2>5
<1>11. TripChecked'
  <2>1. world.serial => \A q \in world.calls : pc'[q] # "record"
    BY <1>7 DEF Idle
  <2> QED BY <2>1 DEF TripChecked
<1> QED BY <1>6, <1>8, <1>9, <1>10, <1>11 DEF RideInv

\* A decision about one that is there.
LEMMA WriteRides ==
  ASSUME ReqInv, RideInv, NEW r \in world.calls, WriteRide(r), UNCHANGED world
  PROVE  RideInv'
<1>0. /\ r.op \in DecideOps /\ pc[r] = "update" /\ Moves(r) /\ pc'[r] = "done"
      /\ rides' = [rides EXCEPT ![r.id] = Columns(r) ++ rides[r.id]]
  BY AtMoves DEF WriteRide, End, DecideOps, UpdateRide
<1>1. /\ r.id \in DOMAIN rides /\ (world.serial => Ready(r, rides[r.id]))
      /\ rides \in Seq(RideRows)
  BY <1>0 DEF RideInv, FoundRide
<1> DEFINE new == Columns(r) ++ rides[r.id]
<1>2. rides[r.id] \in RideRows
  BY <1>1
<1>3. /\ new \in RideRows /\ new.user = rides[r.id].user
      /\ r.op \in {"rideCancel", "rideReject"} => new.status \notin {"approved", "pending"}
      /\ r.op \in {"rideApprove", "rideActivate"} => new.status = "approved"
      /\ r.op = "rideApprove" => new.isActive = rides[r.id].isActive
      /\ r.op = "rideActivate" => new.isActive
  BY <1>0, <1>2, ColumnsWritten
<1>4. rides' = [rides EXCEPT ![r.id] = new]
  BY <1>0
<1> HIDE DEF new
<1>5. /\ rides' \in Seq(RideRows) /\ DOMAIN rides' = DOMAIN rides /\ rides'[r.id] = new
      /\ \A i \in DOMAIN rides : i # r.id => rides'[i] = rides[i]
  BY <1>1, <1>3, <1>4
<1>6. (rides \in Seq(RideRows))'
  BY <1>5 DEF RideRows, Seen
<1>7. \A q \in world.calls : pc'[q] \notin Idle => q # r /\ pc'[q] = pc[q] /\ ~world.serial
  BY <1>0, OthersStart
<1>8. FoundRide'
  <2> SUFFICES ASSUME NEW q \in world.calls, q.op \in DecideOps, pc'[q] = "update"
               PROVE  q.id \in DOMAIN rides' /\ ~world.serial
    BY DEF FoundRide
  <2>1. pc[q] = "update" /\ ~world.serial
    BY <1>7 DEF Idle
  <2> QED BY <1>5, <2>1 DEF RideInv, FoundRide
<1>9. NoStatusSet => r.op # "rideStatus"
  BY DEF NoStatusSet
<1>10. RidesActive'
  <2> SUFFICES ASSUME world.serial, NoStatusSet, NEW i \in DOMAIN rides,
                      rides'[i].status \in {"approved", "pending"}
               PROVE  rides'[i].isActive
    BY <1>5 DEF RidesActive, NoStatusSet
  <2>1. \A j \in DOMAIN rides : rides[j].status \in {"approved", "pending"} => rides[j].isActive
    BY DEF RideInv, RidesActive
  <2>2. CASE i # r.id
    BY <1>5, <2>1, <2>2
  <2>3. CASE i = r.id
    <3>1. r.op \in {"rideApprove", "rideActivate"}
      BY <1>0, <1>3, <1>5, <1>9, <2>3 DEF DecideOps
    <3>2. r.op = "rideApprove" => rides[r.id].status = "pending"
      BY <1>1 DEF Ready
    <3> QED BY <1>1, <1>3, <1>5, <2>1, <2>3, <3>1, <3>2
  <2> QED BY <2>2, <2>3
<1>11. RidesOnce'
  <2> SUFFICES ASSUME world.serial, NoStatusSet,
                      \A i \in DOMAIN world.at.rides : world.at.rides[i].status # "pending"
               PROVE  /\ \A i \in DOMAIN rides : rides'[i].status # "pending"
                      /\ \A i, j \in DOMAIN rides :
                           /\ rides'[i].user = rides'[j].user
                           /\ rides'[i].status = "approved" /\ rides'[j].status = "approved"
                           => i = j
                      /\ \A q \in world.calls : q.op = "ride" /\ pc'[q] = "insert" => FALSE
    BY <1>5 DEF RidesOnce, NoStatusSet
  <2>1. /\ \A i \in DOMAIN rides : rides[i].status # "pending"
        /\ \A i, j \in DOMAIN rides : /\ rides[i].user = rides[j].user
                                      /\ rides[i].status = "approved" /\ rides[j].status = "approved"
                                      => i = j
    BY DEF RideInv, RidesOnce
  <2>2. r.op # "rideApprove" /\ (r.op = "rideActivate" => rides[r.id].status = "approved")
    BY <1>1, <2>1 DEF Ready
  <2>3. new.status # "pending" /\ (new.status = "approved" => rides[r.id].status = "approved")
    BY <1>0, <1>3, <1>9, <2>2 DEF DecideOps
  <2>4. \A q \in world.calls : q.op = "ride" /\ pc'[q] = "insert" => FALSE
    BY <1>7 DEF Idle
  <2>5. \A i \in DOMAIN rides : /\ rides'[i].user = rides[i].user
                                /\ rides'[i].status # "pending"
                                /\ rides'[i].status = "approved" => rides[i].status = "approved"
    BY <1>3, <1>5, <2>1, <2>3
  <2> QED BY <2>1, <2>4, <2>5
<1>12. TripChecked'
  <2>1. world.serial => \A q \in world.calls : pc'[q] # "record"
    BY <1>7 DEF Idle
  <2> QED BY <2>1 DEF TripChecked
<1> QED BY <1>6, <1>8, <1>10, <1>11, <1>12 DEF RideInv

\* Every step about rides keeps what is known of them.
LEMMA RideStepInv ==
  ASSUME ReqInv, RideInv, NEW r \in world.calls, RideStep(r), Moves(r), UNCHANGED world
  PROVE  RideInv'
<1>1. CASE FindHire(r) \/ WriteHire(r)
  <2>1. UNCHANGED rides /\ r.op \notin DecideOps \cup {"ride", "trip"}
    BY <1>1 DEF FindHire, WriteHire, At, rideVars, DecideOps
  <2> QED BY <2>1, RidesSeen
<1>2. CASE CheckHire(r)
  <2>1. UNCHANGED rides /\ r.op = "ride" /\ pc'[r] \in {"exists", "done"}
    BY <1>2, AtMoves DEF CheckHire, End, rideVars
  <2> QED BY <2>1, RidesSeen DEF DecideOps
<1>3. CASE CheckOnBoard(r)
  <2>1. UNCHANGED rides /\ r.op = "ride" /\ (pc'[r] = "insert" => ~OnBoard(r.user))
    BY <1>3, AtMoves DEF CheckOnBoard, End, rideVars
  <2> QED BY <2>1, RidesSeen DEF DecideOps
<1>4. CASE InsertRide(r)
  BY <1>4, InsertRides
<1>5. CASE FindRide(r)
  <2>1. /\ UNCHANGED rides /\ r.op \in DecideOps
        /\ pc'[r] = "update" => r.id \in DOMAIN rides /\ Ready(r, rides[r.id])
    BY <1>5, AtMoves DEF FindRide, End, rideVars, DecideOps
  <2> QED BY <2>1, RidesSeen DEF DecideOps
<1>6. CASE WriteRide(r)
  BY <1>6, WriteRides
<1>7. CASE FindOwnHire(r)
  <2>1. UNCHANGED rides /\ r.op = "trip" /\ pc'[r] \in {"user", "done"}
    BY <1>7, AtMoves DEF FindOwnHire, End, rideVars
  <2> QED BY <2>1, RidesSeen DEF DecideOps
<1>8. CASE FindRider(r)
  <2>1. /\ UNCHANGED rides /\ r.op = "trip"
        /\ pc'[r] = "record" => /\ held'[r] = held[r]
                                /\ r.way = "rfid" /\ world.checks /\ Head(held[r]) \in RidePupils
                                     => MayRide(Head(held[r]))
    BY <1>8, AtMoves DEF FindRider, Admitted, Asked, Rest, End, rideVars
  <2> QED BY <2>1, RidesSeen DEF DecideOps
<1>9. CASE RecordTrip(r)
  <2>1. UNCHANGED rides /\ r.op = "trip" /\ pc'[r] \in {"user", "done"}
    BY <1>9, AtMoves DEF RecordTrip, Rest, End
  <2> QED BY <2>1, RidesSeen DEF DecideOps
<1> QED BY <1>1, <1>2, <1>3, <1>4, <1>5, <1>6, <1>7, <1>8, <1>9 DEF RideStep

\* And so does every other step.
LEMMA NextRides ==
  ASSUME ReqInv, RideInv, [ServicesNext]_serviceVars
  PROVE  RideInv'
<1>0. UNCHANGED world
  BY StepKinds
<1>1. ASSUME NEW r \in world.calls, CallStep(r), ~RideStep(r) PROVE RideInv'
  <2>1. r.op \notin RideOps /\ UNCHANGED rides /\ Moves(r)
    BY <1>1 DEF CallStep, rideVars, MemberOps, AdOps, UploadOps, RideOps, DecideOps
  <2>2. \A q \in world.calls : \/ pc'[q] = pc[q] /\ held'[q] = held[q]
                               \/ q.op \notin DecideOps \cup {"ride", "trip"}
    BY <2>1 DEF Moves, RideOps
  <2> QED BY <1>0, <2>1, <2>2, RidesIdle
<1>2. ASSUME NEW r \in world.calls, CallStep(r), RideStep(r) PROVE RideInv'
  BY <1>0, <1>2, RideStepInv DEF CallStep
<1>3. CASE TaskStep
  BY <1>0, <1>3, RidesIdle DEF TaskStep, requestVars, rideVars
<1> QED BY <1>1, <1>2, <1>3, StepKinds

LEMMA InitRides == ServicesInit => RideInv
<1> SUFFICES ASSUME ServicesInit PROVE RideInv
  OBVIOUS
<1>1. /\ world \in Worlds /\ rides = world.at.rides
      /\ \A q \in world.calls : pc[q] = "start"
  BY DEF ServicesInit, RidesInit, RequestInit
<1> DEFINE users == {rides[i].user : i \in DOMAIN rides}
           Rows == [user : users, status : RideStatuses, isActive : BOOLEAN]
<1>2. rides \in Seq(Rows)
  BY <1>1, RideWorldsAssumption
<1>3. Rows \subseteq RideRows
  BY <1>1 DEF RideRows, Seen
<1> HIDE DEF users, Rows
<1>4. rides \in Seq(RideRows)
  BY <1>2, <1>3
<1>5. /\ \A i \in DOMAIN rides : rides[i].status \in {"approved", "pending"} => rides[i].isActive
      /\ \A i, j \in DOMAIN rides : /\ rides[i].user = rides[j].user
                                    /\ rides[i].status = "approved" /\ rides[j].status = "approved"
                                    => i = j
  <2>1. \A i \in DOMAIN rides :
          /\ rides[i].status \in {"approved", "pending"} => rides[i].isActive
          /\ \A j \in Approved(rides, rides[i].user) : i \in Approved(rides, rides[i].user) => i = j
    BY <1>1, RideWorldsAssumption
  <2> QED BY <2>1 DEF Approved
<1>6. FoundRide /\ TripChecked
  BY <1>1 DEF FoundRide, TripChecked
<1>7. RidesActive
  BY <1>5 DEF RidesActive
<1>8. RidesOnce
  BY <1>1, <1>5 DEF RidesOnce
<1> QED BY <1>4, <1>6, <1>7, <1>8 DEF RideInv

-----------------------------------------------------------------------------
(* Files                                                                   *)

Local == world.provider = "local"

\* One call of this kind names the file, or none.
Once(op, f) == \A r, q \in world.calls :
                 r.op = op /\ r.file = f /\ q.op = op /\ q.file = f => r = q

Opening(f) == \E q \in world.calls :
                q.op \in {"publish", "serve"} /\ q.file = f /\ pc[q] = "open"

Discarding(f) == \E q \in world.calls : q.op = "publish" /\ q.file = f /\ pc[q] = "discard"

\* No upload of the file is to come that would be taken.
PutDone(f) == \/ world.at.files[f] # NoRow
              \/ \A q \in world.calls : q.op = "put" /\ q.file = f => pc[q] = "done"

\* A file that was uploaded once at most is from then on what its verification
\* saw, or gone: what is opened or published was found sound, what is about to
\* be deleted was not and is not published either.
UploadedOnce(f) ==
  /\ ~Local /\ (files[f] # NoRow \/ f \in published \/ Opening(f) \/ Discarding(f)) => PutDone(f)
  /\ (Opening(f) \/ f \in published) /\ files[f] # NoRow => Sound(files[f])
  /\ f \in published /\ files[f] # NoRow /\ ~world.faulty => files[f].public
  /\ Discarding(f) => /\ ~Opening(f) /\ f \notin published
                      /\ files[f] = NoRow \/ ~Sound(files[f])

FileOk(f) == /\ links[f] # NoRow => world.at.files[f] = NoRow /\ ~Local
             /\ Local => /\ files[f] # NoRow => files[f].public
                         /\ ~Opening(f) /\ ~Discarding(f)
             /\ Once("put", f) => UploadedOnce(f)

FileInv == UploadTypeOK /\ \A f \in Files : FileOk(f)

\* The providers there are.
LEMMA Providers == ASSUME world \in Worlds PROVE Google \/ Aws <=> ~Local
BY UploadWorldsAssumption DEF Google, Aws, Local

\* A file that a step does not touch, unless it is deleted.
LEMMA FileIdle ==
  ASSUME ReqInv, FileInv, NEW f \in Files, UNCHANGED world,
         files'[f] \in {files[f], NoRow}, links'[f] = links[f],
         f \in published' <=> f \in published,
         \A q \in world.calls : \/ pc'[q] = pc[q]
                                \/ q.op \notin UploadOps \/ q.op = "setImage" \/ q.file # f
  PROVE  FileOk(f)'
<1>1. FileOk(f)
  BY DEF FileInv
<1>2. /\ Opening(f)' <=> Opening(f)
      /\ Discarding(f)' <=> Discarding(f)
      /\ PutDone(f)' <=> PutDone(f)
      /\ Once("put", f)' <=> Once("put", f)
      /\ Local' <=> Local
  BY DEF Opening, Discarding, PutDone, Once, Local, UploadOps
<1>3. \A x : Sound(x)' <=> Sound(x)
  BY DEF Sound, Aws
<1>4. CASE files'[f] = files[f]
  BY <1>1, <1>2, <1>3, <1>4 DEF FileOk, UploadedOnce, Sound, Aws
<1>5. CASE files'[f] = NoRow
  BY <1>1, <1>2, <1>5 DEF FileOk, UploadedOnce
<1> QED BY <1>4, <1>5

\* A step about one file leaves the others as they are.
LEMMA FileStep ==
  ASSUME ReqInv, FileInv, NEW r \in world.calls, Moves(r), UNCHANGED world,
         r.op \in UploadOps, UploadTypeOK', FileOk(r.file)',
         \A g \in Files \ {r.file} : /\ files'[g] = files[g] /\ links'[g] = links[g]
                                     /\ g \in published' <=> g \in published
  PROVE  FileInv'
<1>1. ASSUME NEW g \in Files, g # r.file PROVE FileOk(g)'
  BY <1>1, FileIdle DEF Moves
<1> QED BY <1>1 DEF FileInv

\* The files that calls name are those of the bucket.
LEMMA CallFiles == ASSUME ReqInv, NEW r \in world.calls
                   PROVE  /\ r.op \in UploadOps => r.file \in Files
                          /\ r.op = "signedUrl" => world.at.files[r.file] = NoRow
                          /\ r.op = "put" => r.size \in Nat
                          /\ r.op = "setImage" => r.place \in Places /\ r.full \in BOOLEAN
BY UploadWorldsAssumption DEF ReqInv, UploadOps

\* What a request at another place means for the file it names: nothing, unless
\* it is about to open or to discard it, or was about to upload it.
LEMMA PlaceKept ==
  ASSUME NEW r \in world.calls, Moves(r), UNCHANGED world, NEW f
  PROVE  /\ Once("put", f)' <=> Once("put", f)
         /\ PutDone(f) => PutDone(f)'
         /\ Opening(f)' => Opening(f) \/ (r.op \in {"publish", "serve"} /\ r.file = f /\ pc'[r] = "open")
         /\ Discarding(f)' => Discarding(f) \/ (r.op = "publish" /\ r.file = f /\ pc'[r] = "discard")
<1>1. Once("put", f)' <=> Once("put", f)
  BY DEF Once
<1>2. PutDone(f) => PutDone(f)'
  BY DEF PutDone, Moves
<1>3. Opening(f)' => Opening(f) \/ (r.op \in {"publish", "serve"} /\ r.file = f /\ pc'[r] = "open")
  BY DEF Opening, Moves
<1>4. Discarding(f)' => Discarding(f) \/ (r.op = "publish" /\ r.file = f /\ pc'[r] = "discard")
  BY DEF Discarding, Moves
<1> QED BY <1>1, <1>2, <1>3, <1>4

\* A step that opens and discards nothing and writes no file.
LEMMA FileKept ==
  ASSUME ReqInv, FileInv, NEW r \in world.calls, Moves(r), UNCHANGED <<world, files, published>>,
         r.op \in UploadOps, pc'[r] \notin {"open", "discard"}, UploadTypeOK',
         \A f \in Files : links'[f] = links[f] \/ (f = r.file /\ world.at.files[f] = NoRow /\ ~Local)
  PROVE  FileInv'
<1>0. r.file \in Files
  BY CallFiles
<1> DEFINE f == r.file
<1>1. FileOk(f) /\ f \in Files
  BY <1>0 DEF FileInv
<1>2. /\ Once("put", f)' <=> Once("put", f)
      /\ PutDone(f) => PutDone(f)'
      /\ Opening(f)' => Opening(f)
      /\ Discarding(f)' => Discarding(f)
      /\ Local' <=> Local
  BY PlaceKept DEF Local
<1>3. Opening(f)' \/ ~Discarding(f)' \/ ~Opening(f)'
  OBVIOUS
<1>4. \A x : Sound(x)' <=> Sound(x)
  BY DEF Sound, Aws
<1>5. UploadedOnce(f) => UploadedOnce(f)'
  BY <1>2, <1>4 DEF UploadedOnce, Sound, Aws
<1>6. FileOk(f)'
  BY <1>1, <1>2, <1>5 DEF FileOk
<1> QED BY <1>6, FileStep

\* The client's upload meets no file that is already there, and none that was.
LEMMA PutFiles ==
  ASSUME ReqInv, FileInv, NEW r \in world.calls, PutFile(r), UNCHANGED world
  PROVE  FileInv'
<1> DEFINE f == r.file
           new == [size |-> r.size, type |-> r.type, public |-> FALSE]
<1>0. /\ Moves(r) /\ r.op = "put" /\ pc[r] = "start" /\ pc'[r] = "done"
      /\ f \in Files /\ r.size \in Nat /\ FileOk(f) /\ UploadTypeOK
      /\ UNCHANGED <<links, images, published>>
      /\ files' = IF /\ links[f] # NoRow /\ links[f].open /\ links[f].type = r.type
                     /\ r.size <= Limit
                  THEN [files EXCEPT ![f] = new] ELSE files
  BY AtMoves, CallFiles DEF PutFile, End, FileInv, UploadOps
<1>1. CASE UNCHANGED files
  <2>1. UploadTypeOK'
    BY <1>0, <1>1 DEF UploadTypeOK
  <2> QED BY <1>0, <1>1, <2>1, FileKept DEF UploadOps
<1>2. CASE /\ links[f] # NoRow /\ links[f].type = r.type /\ r.size <= Limit
           /\ files' = [files EXCEPT ![f] = new]
  <2>1. new \in FileRows
    <3>1. r.type \in Formats /\ r.size \in 0 .. Limit
      BY <1>0, <1>2, FilesAssumption DEF UploadTypeOK
    <3> QED BY <3>1 DEF FileRows
  <2>2. UploadTypeOK'
    <3> HIDE DEF new
    <3> QED BY <1>0, <1>2, <2>1 DEF UploadTypeOK
  <2>3. world.at.files[f] = NoRow /\ ~Local /\ ~PutDone(f)
    BY <1>0, <1>2 DEF FileOk, PutDone
  <2>4. /\ Once("put", f)' <=> Once("put", f)
        /\ Opening(f)' => Opening(f)
        /\ Discarding(f)' => Discarding(f)
        /\ Local' <=> Local
    BY <1>0, PlaceKept DEF Local
  <2>5. ASSUME Once("put", f) PROVE UploadedOnce(f)'
    <3>1. ~Opening(f) /\ ~Discarding(f) /\ f \notin published
      BY <1>0, <2>3, <2>5 DEF FileOk, UploadedOnce
    <3>2. PutDone(f)'
      BY <1>0, <2>5 DEF PutDone, Once
    <3> QED BY <1>0, <2>4, <3>1, <3>2 DEF UploadedOnce
  <2>6. FileOk(f)'
    BY <1>0, <2>3, <2>4, <2>5 DEF FileOk
  <2>7. \A g \in Files \ {f} : files'[g] = files[g]
    BY <1>2 DEF UploadTypeOK
  <2> QED BY <1>0, <2>2, <2>6, <2>7, FileStep DEF UploadOps
<1> QED BY <1>0, <1>1, <1>2

\* What is to be opened was found sound, what is to be discarded was not.
LEMMA VerifyFiles ==
  ASSUME ReqInv, FileInv, NEW r \in world.calls, VerifyFile(r), UNCHANGED world
  PROVE  FileInv'
<1> DEFINE f == r.file
<1>0. /\ Moves(r) /\ r.op \in {"publish", "serve"} /\ f \in Files /\ FileOk(f) /\ UploadTypeOK
      /\ UNCHANGED <<files, links, images>>
      /\ published' = IF Google \/ Aws THEN published ELSE published \cup {f}
      /\ \/ /\ Google \/ Aws
            /\ files[f] # NoRow
            /\ pc'[r] = IF Sound(files[f]) THEN "open" ELSE "discard"
         \/ pc'[r] = "done"
  <2>1. CASE At(r, "publish", "start")
    BY <2>1, AtMoves, CallFiles DEF VerifyFile, End, FileInv, UploadOps
  <2>2. CASE At(r, "serve", "verify")
    BY <2>2, AtMoves, CallFiles DEF VerifyFile, End, FileInv, UploadOps
  <2> QED BY <2>1, <2>2 DEF VerifyFile
<1>1. UploadTypeOK'
  BY <1>0 DEF UploadTypeOK
<1>2. /\ Once("put", f)' <=> Once("put", f)
      /\ PutDone(f) => PutDone(f)'
      /\ Opening(f)' => Opening(f) \/ pc'[r] = "open"
      /\ Discarding(f)' => Discarding(f) \/ pc'[r] = "discard"
      /\ Local' <=> Local
  BY <1>0, PlaceKept DEF Local
<1>3. Google \/ Aws <=> ~Local
  BY Providers DEF ReqInv
<1>4. \A x : Sound(x)' <=> Sound(x)
  BY DEF Sound, Aws
<1>5. CASE Local
  <2>1. ~Opening(f)' /\ ~Discarding(f)'
    BY <1>0, <1>2, <1>3, <1>5 DEF FileOk
  <2>2. UploadedOnce(f)'
    BY <1>0, <1>2, <1>3, <1>5, <2>1 DEF FileOk, UploadedOnce, Sound, Aws, Local
  <2> QED BY <1>0, <1>1, <1>2, <1>5, <2>1, <2>2, FileStep DEF FileOk, UploadOps
<1>6. CASE ~Local
  <2>1. published' = published
    BY <1>0, <1>3, <1>6
  <2>2. ASSUME Once("put", f) PROVE UploadedOnce(f)'
    <3>1. UploadedOnce(f)
      BY <1>0, <2>2 DEF FileOk
    <3>2. CASE pc'[r] = "done"
      BY <1>0, <1>2, <1>4, <2>1, <3>1, <3>2 DEF UploadedOnce, Sound, Aws
    <3>3. CASE files[f] # NoRow /\ Sound(files[f]) /\ pc'[r] = "open"
      BY <1>0, <1>2, <1>4, <2>1, <3>1, <3>3 DEF UploadedOnce, Sound, Aws
    <3>4. CASE files[f] # NoRow /\ ~Sound(files[f]) /\ pc'[r] = "discard"
      BY <1>0, <1>2, <1>4, <2>1, <3>1, <3>4 DEF UploadedOnce, Sound, Aws
    <3> QED BY <1>0, <3>2, <3>3, <3>4
  <2>3. FileOk(f)'
    BY <1>0, <1>2, <1>6, <2>2 DEF FileOk
  <2> QED BY <1>0, <1>1, <2>1, <2>3, FileStep DEF UploadOps
<1> QED BY <1>5, <1>6

\* Steps that write no file: addresses, what the proxy looks at, images.
LEMMA KeepFiles ==
  ASSUME ReqInv, FileInv, NEW r \in world.calls, UNCHANGED world,
         IssueUrl(r) \/ FindServed(r) \/ CheckPublic(r) \/ FindPlace(r) \/ WriteImage(r)
  PROVE  FileInv'
<1>0. UploadTypeOK
  BY DEF FileInv
<1>1. CASE IssueUrl(r)
  <2>1. /\ Moves(r) /\ r.op = "signedUrl" /\ pc'[r] = "done"
        /\ r.file \in Files /\ world.at.files[r.file] = NoRow
        /\ UNCHANGED <<files, images, published>>
        /\ \/ UNCHANGED links
           \/ /\ links' = [links EXCEPT ![r.file] = [type |-> r.type, open |-> TRUE]]
              /\ Signable(r)
    BY <1>1, AtMoves, CallFiles DEF IssueUrl, End, UploadOps
  <2>2. CASE UNCHANGED links
    BY <1>0, <2>1, <2>2, FileKept DEF UploadTypeOK, UploadOps
  <2>3. CASE /\ links' = [links EXCEPT ![r.file] = [type |-> r.type, open |-> TRUE]]
             /\ Signable(r)
    <3>1. r.type \in Formats /\ ~Local
      BY <2>3, Providers DEF Signable, ReqInv
    <3>2. UploadTypeOK' /\ \A f \in Files : links'[f] = links[f] \/ f = r.file
      BY <1>0, <2>1, <2>3, <3>1 DEF UploadTypeOK
    <3> QED BY <2>1, <3>1, <3>2, FileKept DEF UploadOps
  <2> QED BY <2>1, <2>2, <2>3
<1>2. CASE FindServed(r) \/ CheckPublic(r) \/ FindPlace(r)
  <2>1. /\ Moves(r) /\ r.op \in UploadOps /\ pc'[r] \notin {"open", "discard"}
        /\ UNCHANGED uploadVars
    BY <1>2, AtMoves DEF FindServed, CheckPublic, FindPlace, End, UploadOps
  <2>2. UploadTypeOK'
    BY <1>0, <2>1 DEF UploadTypeOK, uploadVars
  <2> QED BY <2>1, <2>2, FileKept DEF uploadVars
<1>3. CASE WriteImage(r)
  <2> DEFINE new == [file |-> r.file, full |-> r.full]
  <2>1. /\ Moves(r) /\ r.op = "setImage" /\ pc'[r] = "done"
        /\ r.file \in Files /\ r.full \in BOOLEAN
        /\ UNCHANGED <<files, links, published>>
        /\ images' = [images EXCEPT ![r.place] = new] \/ UNCHANGED images
    BY <1>3, AtMoves, CallFiles DEF WriteImage, End, UploadOps
  <2>2. new \in ImageRows
    BY <2>1 DEF ImageRows
  <2> HIDE DEF new
  <2>3. UploadTypeOK'
    BY <1>0, <2>1, <2>2 DEF UploadTypeOK
  <2> QED BY <2>1, <2>3, FileKept DEF UploadOps
<1> QED BY <1>1, <1>2, <1>3

\* Published is what was found sound, as it is by now.
LEMMA OpenFiles ==
  ASSUME ReqInv, FileInv, NEW r \in world.calls, MakePublic(r), UNCHANGED world
  PROVE  FileInv'
<1> DEFINE f == r.file
           new == [files[f] EXCEPT !.public = TRUE]
<1>0. /\ Moves(r) /\ r.op \in {"publish", "serve"} /\ pc[r] = "open" /\ pc'[r] = "done"
      /\ f \in Files /\ FileOk(f) /\ UploadTypeOK
      /\ UNCHANGED <<links, images>>
      /\ published' \in {published, published \cup {f}}
      /\ \/ UNCHANGED files /\ (files[f] = NoRow \/ world.faulty)
         \/ files[f] # NoRow /\ files' = [files EXCEPT ![f] = new]
  BY AtMoves, CallFiles DEF MakePublic, End, FileInv, UploadOps
<1>1. Opening(f) /\ ~Local
  BY <1>0 DEF Opening, FileOk
<1>2. /\ Once("put", f)' <=> Once("put", f)
      /\ PutDone(f) => PutDone(f)'
      /\ Opening(f)' => Opening(f)
      /\ Discarding(f)' => Discarding(f)
      /\ Local' <=> Local
  BY <1>0, PlaceKept DEF Local
<1>3. \A x : Sound(x)' <=> Sound(x)
  BY DEF Sound, Aws
<1>4. \A g \in Files \ {f} : /\ files'[g] = files[g] /\ links'[g] = links[g]
                             /\ g \in published' <=> g \in published
  BY <1>0 DEF UploadTypeOK
<1>5. CASE UNCHANGED files /\ (files[f] = NoRow \/ world.faulty)
  <2>1. UploadTypeOK'
    BY <1>0, <1>5 DEF UploadTypeOK
  <2>2. UploadedOnce(f) => UploadedOnce(f)'
    BY <1>0, <1>1, <1>2, <1>5 DEF UploadedOnce, Sound, Aws
  <2>3. FileOk(f)'
    BY <1>0, <1>1, <1>2, <1>5, <2>2 DEF FileOk
  <2> QED BY <1>0, <1>4, <2>1, <2>3, FileStep DEF UploadOps
<1>6. CASE files[f] # NoRow /\ files' = [files EXCEPT ![f] = new]
  <2>0. files[f] \in FileRows
    BY <1>0, <1>6 DEF UploadTypeOK
  <2>1. /\ new \in FileRows /\ new.public
        /\ Sound(files[f]) => Sound(new)
    BY <2>0 DEF FileRows, Sound
  <2> HIDE DEF new
  <2>2. UploadTypeOK' /\ files'[f] = new
    BY <1>0, <1>6, <2>1 DEF UploadTypeOK
  <2>3. UploadedOnce(f) => UploadedOnce(f)'
    BY <1>0, <1>1, <1>2, <1>3, <1>6, <2>1, <2>2 DEF UploadedOnce
  <2>4. FileOk(f)'
    BY <1>0, <1>1, <1>2, <1>6, <2>3 DEF FileOk
  <2> QED BY <1>0, <1>4, <2>2, <2>4, FileStep DEF UploadOps
<1> QED BY <1>0, <1>5, <1>6

\* What is discarded was found unsound, and is not published.
LEMMA DiscardFiles ==
  ASSUME ReqInv, FileInv, NEW r \in world.calls, Discard(r), UNCHANGED world
  PROVE  FileInv'
<1> DEFINE f == r.file
<1>0. /\ Moves(r) /\ r.op = "publish" /\ pc[r] = "discard" /\ pc'[r] = "done"
      /\ f \in Files /\ FileOk(f) /\ UploadTypeOK
      /\ UNCHANGED <<links, images, published>>
      /\ UNCHANGED files \/ files' = [files EXCEPT ![f] = NoRow]
  BY AtMoves, CallFiles DEF Discard, End, FileInv, UploadOps
<1>1. Discarding(f)
  BY <1>0 DEF Discarding
<1>2. /\ Once("put", f)' <=> Once("put", f)
      /\ PutDone(f) => PutDone(f)'
      /\ Opening(f)' => Opening(f)
      /\ Discarding(f)' => Discarding(f)
      /\ Local' <=> Local
  BY <1>0, PlaceKept DEF Local
<1>3. /\ UploadTypeOK' /\ files'[f] \in {files[f], NoRow}
      /\ \A g \in Files \ {f} : files'[g] = files[g]
  BY <1>0 DEF UploadTypeOK
<1>4. UploadedOnce(f) => UploadedOnce(f)'
  BY <1>0, <1>1, <1>2, <1>3 DEF UploadedOnce, Sound, Aws
<1>5. FileOk(f)'
  BY <1>0, <1>1, <1>2, <1>3, <1>4 DEF FileOk
<1> QED BY <1>0, <1>3, <1>5, FileStep DEF UploadOps

\* The old image is deleted, whatever file it is.
LEMMA UnlinkFiles ==
  ASSUME ReqInv, FileInv, NEW r \in world.calls, RemoveSuperseded(r), UNCHANGED world
  PROVE  FileInv'
<1>1. /\ Moves(r) /\ r.op = "setImage" /\ UploadTypeOK
      /\ UNCHANGED <<links, images, published>>
      /\ UNCHANGED files \/ files' = [files EXCEPT ![held[r].file] = NoRow]
  BY AtMoves DEF RemoveSuperseded, FileInv
<1>2. UploadTypeOK' /\ \A f \in Files : files'[f] \in {files[f], NoRow}
  BY <1>1 DEF UploadTypeOK
<1>3. ASSUME NEW f \in Files PROVE FileOk(f)'
  BY <1>1, <1>2, FileIdle DEF Moves
<1> QED BY <1>2, <1>3 DEF FileInv

\* Every step keeps what is known of the files.
LEMMA NextFiles ==
  ASSUME ReqInv, FileInv, [ServicesNext]_serviceVars
  PROVE  FileInv'
<1>0. UNCHANGED world
  BY StepKinds
<1>1. ASSUME NEW r \in world.calls, CallStep(r), UploadStep(r) PROVE FileInv'
  BY <1>0, <1>1, KeepFiles, PutFiles, VerifyFiles, OpenFiles, DiscardFiles, UnlinkFiles
     DEF UploadStep
<1>2. ASSUME UNCHANGED uploadVars,
             \A q \in world.calls : pc'[q] = pc[q] \/ q.op \notin UploadOps
      PROVE  FileInv'
  <2>1. UploadTypeOK' /\ \A f \in Files : FileOk(f)'
    BY <1>0, <1>2, FileIdle DEF FileInv, UploadTypeOK, uploadVars
  <2> QED BY <2>1 DEF FileInv
<1>3. ASSUME NEW r \in world.calls, CallStep(r), ~UploadStep(r) PROVE FileInv'
  <2>1. UNCHANGED uploadVars /\ Moves(r) /\ r.op \notin UploadOps
    BY <1>3 DEF CallStep, MemberOps, AdOps, RideOps, DecideOps, UploadOps
  <2> QED BY <1>2, <2>1 DEF Moves
<1>4. CASE TaskStep
  <2>1. CASE UNCHANGED uploadVars
    BY <1>2, <1>4, <2>1 DEF TaskStep, requestVars
  <2>2. CASE UrlExpires
    <3>1. PICK f \in Files : links[f] # NoRow /\ links' = [links EXCEPT ![f].open = FALSE]
      BY <2>2 DEF UrlExpires
    <3>2. UNCHANGED <<requestVars, files, images, published>> /\ UploadTypeOK
      BY <2>2 DEF UrlExpires, FileInv
    <3>3. UploadTypeOK' /\ \A g \in Files : links'[g] # NoRow => links[g] # NoRow
      <4>1. links[f] \in [type : Formats, open : BOOLEAN]
        BY <3>1, <3>2 DEF UploadTypeOK
      <4> DEFINE new == [links[f] EXCEPT !.open = FALSE]
      <4>2. new \in [type : Formats, open : BOOLEAN]
        BY <4>1
      <4>3. links' = [links EXCEPT ![f] = new]
        BY <3>1
      <4> HIDE DEF new
      <4> QED BY <3>1, <3>2, <4>2, <4>3 DEF UploadTypeOK
    <3>4. ASSUME NEW g \in Files PROVE FileOk(g)'
      <4>1. FileOk(g)
        BY DEF FileInv
      <4>2. /\ Opening(g)' <=> Opening(g)
            /\ Discarding(g)' <=> Discarding(g)
            /\ PutDone(g)' <=> PutDone(g)
            /\ Once("put", g)' <=> Once("put", g)
            /\ Local' <=> Local
        BY <1>0, <3>2 DEF Opening, Discarding, PutDone, Once, Local, requestVars
      <4>3. UploadedOnce(g) => UploadedOnce(g)'
        BY <1>0, <3>2, <4>2 DEF UploadedOnce, Sound, Aws
      <4> QED BY <1>0, <3>2, <3>3, <4>1, <4>2, <4>3 DEF FileOk
    <3> QED BY <3>3, <3>4 DEF FileInv
  <2> QED BY <1>4, <2>1, <2>2 DEF TaskStep
<1> QED BY <1>1, <1>3, <1>4, StepKinds

LEMMA InitFiles == ServicesInit => FileInv
<1> SUFFICES ASSUME ServicesInit PROVE FileInv
  OBVIOUS
<1>1. /\ world \in Worlds /\ files = world.at.files /\ images = world.at.images
      /\ links = [f \in Files |-> NoRow]
      /\ published = {f \in Files : files[f] # NoRow /\ files[f].public}
      /\ \A q \in world.calls : pc[q] = "start"
  BY DEF ServicesInit, UploadsInit, RequestInit
<1>2. UploadTypeOK
  BY <1>1, UploadWorldsAssumption DEF UploadTypeOK
<1>3. ASSUME NEW f \in Files PROVE FileOk(f)
  <2>1. /\ ~Opening(f) /\ ~Discarding(f)
        /\ files[f] # NoRow => PutDone(f)
    BY <1>1 DEF Opening, Discarding, PutDone
  <2>2. /\ files[f] # NoRow /\ files[f].public => files[f].size > 0
        /\ files[f] # NoRow /\ Local => files[f].public
    BY <1>1, UploadWorldsAssumption DEF Local
  <2>3. files[f] # NoRow /\ files[f].public => Sound(files[f])
    <3>1. ASSUME files[f] # NoRow, files[f].public PROVE Sound(files[f])
      <4>1. files[f] \in FileRows
        BY <1>2, <3>1 DEF UploadTypeOK
      <4>2. files[f].size \in 1 .. Limit /\ files[f].type \in Formats
        BY <2>2, <3>1, <4>1, FilesAssumption DEF FileRows
      <4>3. files[f].size <= Limit
        BY <4>2, FilesAssumption
      <4> QED BY <4>2, <4>3 DEF Sound
    <3> QED BY <3>1
  <2> QED BY <1>1, <2>1, <2>2, <2>3 DEF FileOk, UploadedOnce
<1> QED BY <1>2, <1>3 DEF FileInv

-----------------------------------------------------------------------------
(* Images                                                                  *)

\* The place has this file for its image now, and where it may have it from.
Bears(p, f) == images[p] # NoRow /\ images[p].file = f

AtFirst(p, f) == world.at.images[p] # NoRow /\ world.at.images[p].file = f

Sets(q, f) == q.op = "setImage" /\ q.file = f

Source(p, f) == AtFirst(p, f) \/ \E q \in world.calls : Sets(q, f) /\ q.place = p /\ pc[q] = "done"

\* A file has one source at most.
Sole(f) == /\ \A p, q \in Places : AtFirst(p, f) /\ AtFirst(q, f) => p = q
           /\ \A r, q \in world.calls : Sets(r, f) /\ Sets(q, f) => r = q
           /\ \A p \in Places, q \in world.calls : ~(AtFirst(p, f) /\ Sets(q, f))

Fair(f) == ~world.faulty /\ ~Local /\ Once("put", f) /\ Sole(f)

Exposed(f) == f \in published \/ Opening(f)

\* The file that is yet to be set as an image is there, and so is one that is an
\* image, unless a call that has deleted it is about to set another.
ImageKept(f) ==
  /\ \A q \in world.calls : Sets(q, f) /\ pc[q] # "done" => files[f] # NoRow
  /\ \A p \in Places : Bears(p, f) =>
       \/ files[f] # NoRow
       \/ \E r \in world.calls : r.op = "setImage" /\ r.place = p /\ pc[r] = "write"

ImageInv ==
  /\ \A p \in Places, f \in Files : Bears(p, f) => Source(p, f)
  /\ \A r \in world.calls : r.op = "setImage" /\ pc[r] = "unlink" => Source(r.place, held[r].file)
  /\ \A f \in Files : Fair(f) /\ Exposed(f) => ImageKept(f)

\* Where no image is set, what was exposed before and is still there, or is there.
LEMMA ImageIdle ==
  ASSUME ReqInv, ImageInv, UNCHANGED <<world, images>>,
         \A q \in world.calls : \/ pc'[q] = pc[q] /\ held'[q] = held[q]
                                \/ q.op # "setImage",
         \A f \in Files : Fair(f) /\ Exposed(f)' => \/ files'[f] # NoRow
                                                    \/ Exposed(f) /\ files'[f] = files[f]
  PROVE  ImageInv'
<1>1. \A p \in Places, f \in Files : (Bears(p, f) => Source(p, f))'
  BY DEF ImageInv, Bears, Source, AtFirst, Sets
<1>2. ASSUME NEW r \in world.calls, r.op = "setImage", pc'[r] = "unlink"
      PROVE  Source(r.place, held[r].file)'
  <2>1. Source(r.place, held[r].file)
    BY <1>2 DEF ImageInv
  <2> QED BY <1>2, <2>1 DEF Source, AtFirst, Sets
<1>3. ASSUME NEW f \in Files, Fair(f)', Exposed(f)' PROVE ImageKept(f)'
  <2>1. Fair(f)
    BY <1>3 DEF Fair, Local, Once, Sole, AtFirst, Sets
  <2>2. files'[f] # NoRow \/ (Exposed(f) /\ files'[f] = files[f])
    BY <1>3, <2>1
  <2>5. Exposed(f) => ImageKept(f)
    BY <2>1 DEF ImageInv
  <2>3. CASE files'[f] # NoRow
    BY <2>3 DEF ImageKept
  <2>4. CASE ImageKept(f) /\ files'[f] = files[f]
    BY <2>4 DEF ImageKept, Bears, Sets
  <2> QED BY <2>2, <2>5, <2>3, <2>4
<1> QED BY <1>1, <1>2, <1>3 DEF ImageInv

LEMMA RowThere == ASSUME NEW row \in FileRows \cup ImageRows PROVE row # NoRow
BY FilesAssumption

\* Uploads, verifications and deletions of what was verified: nothing exposed is
\* deleted, and what becomes exposed is there.
LEMMA FilesExposed ==
  ASSUME ReqInv, FileInv, NEW r \in world.calls, UNCHANGED world,
         \/ IssueUrl(r) \/ PutFile(r) \/ FindServed(r) \/ CheckPublic(r) \/ VerifyFile(r)
         \/ MakePublic(r) \/ Discard(r),
         NEW f \in Files, Fair(f), Exposed(f)'
  PROVE  files'[f] # NoRow \/ (Exposed(f) /\ files'[f] = files[f])
<1>0. FileOk(f) /\ UploadTypeOK
  BY DEF FileInv
<1>1. CASE IssueUrl(r) \/ FindServed(r) \/ CheckPublic(r)
  <2>1. Moves(r) /\ pc'[r] # "open" /\ UNCHANGED <<files, published>>
    BY <1>1, AtMoves DEF IssueUrl, FindServed, CheckPublic, End, uploadVars
  <2> QED BY <2>1, PlaceKept DEF Exposed
<1>2. CASE PutFile(r)
  <2>1. Moves(r) /\ pc'[r] # "open" /\ UNCHANGED published
    BY <1>2, AtMoves DEF PutFile, End
  <2>2. Exposed(f)
    BY <2>1, PlaceKept DEF Exposed
  <2>3. UNCHANGED files \/ files' = [files EXCEPT ![r.file] =
                                        [size |-> r.size, type |-> r.type, public |-> FALSE]]
    BY <1>2 DEF PutFile
  <2>4. CASE f # r.file \/ UNCHANGED files
    BY <1>0, <2>2, <2>3, <2>4 DEF UploadTypeOK
  <2>5. CASE f = r.file /\ ~UNCHANGED files
    <3>1. UploadTypeOK'
      BY <1>2, PutFiles DEF FileInv
    <3>2. /\ files'[f] = [size |-> r.size, type |-> r.type, public |-> FALSE]
          /\ links[f] # NoRow /\ pc[r] = "start" /\ r.op = "put"
      BY <1>0, <1>2, <2>3, <2>5 DEF UploadTypeOK, PutFile, At
    <3>3. world.at.files[f] = NoRow /\ ~PutDone(f)
      BY <1>0, <2>5, <3>2 DEF FileOk, PutDone
    <3> QED BY <1>0, <2>2, <3>3 DEF FileOk, UploadedOnce, Fair, Exposed
  <2> QED BY <2>4, <2>5
<1>3. CASE VerifyFile(r)
  <2>1. /\ Moves(r) /\ UNCHANGED files /\ published' = published
        /\ pc'[r] = "open" => files[r.file] # NoRow
    <3>1. Google \/ Aws
      BY Providers DEF ReqInv, Fair
    <3>2. CASE At(r, "publish", "start")
      BY <1>3, <3>1, <3>2, AtMoves DEF VerifyFile, End
    <3>3. CASE At(r, "serve", "verify")
      BY <1>3, <3>1, <3>3, AtMoves DEF VerifyFile, End
    <3> QED BY <1>3, <3>2, <3>3 DEF VerifyFile
  <2> QED BY <2>1, PlaceKept DEF Exposed
<1>4. CASE MakePublic(r)
  <2>1. /\ Moves(r) /\ pc[r] = "open" /\ pc'[r] = "done" /\ r.op \in {"publish", "serve"}
        /\ published' \in {published, published \cup {r.file}}
        /\ UNCHANGED files \/ files' = [files EXCEPT ![r.file].public = TRUE]
        /\ files[r.file] = NoRow => UNCHANGED files
    BY <1>4, AtMoves DEF MakePublic, End
  <2>2. Exposed(f)
    BY <2>1, PlaceKept DEF Exposed, Opening
  <2>3. CASE files'[f] = files[f]
    BY <2>2, <2>3
  <2>4. CASE files'[f] # files[f]
    <3>1. f = r.file /\ files[f] # NoRow /\ files' = [files EXCEPT ![f].public = TRUE]
      BY <1>0, <2>1, <2>4 DEF UploadTypeOK
    <3>2. files[f] \in FileRows
      BY <1>0, <3>1 DEF UploadTypeOK
    <3> DEFINE new == [files[f] EXCEPT !.public = TRUE]
    <3>3. new \in FileRows
      BY <3>2 DEF FileRows
    <3>4. files' = [files EXCEPT ![f] = new]
      BY <3>1
    <3> HIDE DEF new
    <3>5. files'[f] = new
      BY <1>0, <3>4 DEF UploadTypeOK
    <3> QED BY <3>3, <3>5, RowThere
  <2> QED BY <2>3, <2>4
<1>5. CASE Discard(r)
  <2>1. /\ Moves(r) /\ pc[r] = "discard" /\ pc'[r] = "done" /\ r.op = "publish"
        /\ UNCHANGED published
        /\ UNCHANGED files \/ files' = [files EXCEPT ![r.file] = NoRow]
    BY <1>5, AtMoves DEF Discard, End
  <2>2. Exposed(f)
    BY <2>1, PlaceKept DEF Exposed
  <2>3. f # r.file
    BY <1>0, <2>1, <2>2 DEF FileOk, UploadedOnce, Fair, Exposed, Discarding
  <2> QED BY <1>0, <2>1, <2>2, <2>3 DEF UploadTypeOK
<1> QED BY <1>1, <1>2, <1>3, <1>4, <1>5

\* Where a call that sets an image goes on, what was exposed stays so, and what
\* it may have from whom too.
LEMMA ImageStep ==
  ASSUME ReqInv, ImageInv, NEW r \in world.calls, Moves(r), UNCHANGED <<world, published>>,
         r.op = "setImage", NEW f \in Files
  PROVE  /\ \A p : Source(p, f) => Source(p, f)'
         /\ Fair(f)' <=> Fair(f)
         /\ Exposed(f)' <=> Exposed(f)
         /\ \A q \in world.calls : pc'[q] # "done" => pc[q] # "done"
<1>1. \A q \in world.calls : pc[q] = "done" => pc'[q] = "done"
  BY DEF Moves
<1>2. \A p : Source(p, f) => Source(p, f)'
  BY <1>1 DEF Source, AtFirst, Sets
<1>3. Fair(f)' <=> Fair(f)
  BY DEF Fair, Local, Once, Sole, AtFirst, Sets
<1>4. Exposed(f)' <=> Exposed(f)
  BY DEF Exposed, Opening, Moves
<1> QED BY <1>1, <1>2, <1>3, <1>4

\* What a call is about to delete was the image of its place.
LEMMA FindImages ==
  ASSUME ReqInv, FileInv, ImageInv, NEW r \in world.calls, FindPlace(r), UNCHANGED world
  PROVE  ImageInv'
<1>0. /\ Moves(r) /\ r.op = "setImage" /\ pc[r] = "start" /\ pc'[r] \in {"write", "unlink"}
      /\ UNCHANGED <<files, images, published>> /\ r.place \in Places
      /\ pc'[r] = "unlink" => images[r.place] # NoRow /\ held'[r] = images[r.place]
  BY AtMoves, CallFiles DEF FindPlace, uploadVars
<1>1. ASSUME NEW p \in Places, NEW f \in Files, Bears(p, f)' PROVE Source(p, f)'
  BY <1>0, <1>1, ImageStep DEF ImageInv, Bears
<1>2. ASSUME NEW q \in world.calls, q.op = "setImage", pc'[q] = "unlink"
      PROVE  Source(q.place, held[q].file)'
  <2>1. CASE q = r
    <3>1. images[r.place] \in ImageRows
      BY <1>0, <1>2, <2>1 DEF FileInv, UploadTypeOK
    <3>2. PICK f \in Files : Bears(r.place, f) /\ held'[q].file = f
      BY <1>0, <1>2, <2>1, <3>1 DEF ImageRows, Bears
    <3>3. Source(r.place, f)
      BY <1>0, <3>2 DEF ImageInv
    <3>4. Source(r.place, f)'
      BY <1>0, <3>2, <3>3, ImageStep
    <3> QED BY <2>1, <3>2, <3>4 DEF Source, AtFirst, Sets
  <2>2. CASE q # r
    <3>1. Source(q.place, held[q].file) /\ held'[q] = held[q]
      BY <1>0, <1>2, <2>2 DEF ImageInv, Moves
    <3> QED BY <1>0, <3>1 DEF Source, AtFirst, Sets, Moves
  <2> QED BY <2>1, <2>2
<1>3. ASSUME NEW f \in Files, Fair(f)', Exposed(f)' PROVE ImageKept(f)'
  <2>1. ImageKept(f)
    BY <1>0, <1>3, ImageStep DEF ImageInv
  <2>2. \A q \in world.calls : pc[q] = "write" => pc'[q] = "write"
    BY <1>0 DEF Moves
  <2> QED BY <1>0, <2>1, <2>2, ImageStep DEF ImageKept, Bears, Sets
<1>4. \A q \in world.calls : q.op = "setImage" /\ pc'[q] = "unlink" => Source(q.place, held[q].file)'
  BY <1>2
<1> QED BY <1>1, <1>3, <1>4 DEF ImageInv

\* The file that is deleted was the image of this place and of no other, and no
\* call sets it any more.
LEMMA UnlinkImages ==
  ASSUME ReqInv, FileInv, ImageInv, NEW r \in world.calls, RemoveSuperseded(r), UNCHANGED world
  PROVE  ImageInv'
<1>0. /\ Moves(r) /\ r.op = "setImage" /\ pc[r] = "unlink" /\ pc'[r] = "write"
      /\ UNCHANGED <<images, published>> /\ r.place \in Places
      /\ UNCHANGED files \/ files' = [files EXCEPT ![held[r].file] = NoRow]
  BY AtMoves, CallFiles DEF RemoveSuperseded, UploadOps
<1>1. ASSUME NEW p \in Places, NEW f \in Files, Bears(p, f)' PROVE Source(p, f)'
  BY <1>0, <1>1, ImageStep DEF ImageInv, Bears
<1>2. \A q \in world.calls : q.op = "setImage" /\ pc'[q] = "unlink" => Source(q.place, held[q].file)'
  <2>1. ASSUME NEW q \in world.calls, q.op = "setImage", pc'[q] = "unlink"
        PROVE  Source(q.place, held[q].file)'
    <3>1. Source(q.place, held[q].file) /\ held'[q] = held[q]
      BY <1>0, <2>1 DEF ImageInv, Moves
    <3> QED BY <1>0, <3>1 DEF Source, AtFirst, Sets, Moves
  <2> QED BY <2>1
<1>3. ASSUME NEW f \in Files, Fair(f)', Exposed(f)' PROVE ImageKept(f)'
  <2>1. ImageKept(f) /\ Fair(f)
    BY <1>0, <1>3, ImageStep DEF ImageInv
  <2>2. \A q \in world.calls : pc[q] = "write" => pc'[q] = "write"
    BY <1>0 DEF Moves
  <2>3. CASE files'[f] = files[f]
    BY <1>0, <2>1, <2>2, <2>3, ImageStep DEF ImageKept, Bears, Sets
  <2>4. CASE files'[f] # files[f]
    <3>1. held[r].file = f
      BY <1>0, <2>4 DEF FileInv, UploadTypeOK
    <3>2. Source(r.place, f)
      BY <1>0, <3>1 DEF ImageInv
    <3>3. \A q \in world.calls : Sets(q, f) => pc[q] = "done"
      BY <1>0, <2>1, <3>2 DEF Fair, Sole, Source
    <3>4. \A p \in Places : Bears(p, f) => p = r.place
      <4>1. ASSUME NEW p \in Places, Source(p, f) PROVE p = r.place
        BY <1>0, <2>1, <3>2, <4>1 DEF Fair, Sole, Source
      <4> QED BY <4>1 DEF ImageInv
    <3> QED BY <1>0, <3>3, <3>4, ImageStep DEF ImageKept, Bears, Sets
  <2> QED BY <2>3, <2>4
<1> QED BY <1>1, <1>2, <1>3 DEF ImageInv

\* The image that is set is still there.
LEMMA WriteImages ==
  ASSUME ReqInv, FileInv, ImageInv, NEW r \in world.calls, WriteImage(r), UNCHANGED world
  PROVE  ImageInv'
<1> DEFINE new == [file |-> r.file, full |-> r.full]
<1>0. /\ Moves(r) /\ r.op = "setImage" /\ pc[r] = "write" /\ pc'[r] = "done"
      /\ UNCHANGED <<files, published>> /\ r.place \in Places
      /\ images \in [Places -> ImageRows \cup {NoRow}]
      /\ \/ images' = [images EXCEPT ![r.place] = new]
         \/ world.faulty /\ UNCHANGED images
  BY AtMoves, CallFiles DEF WriteImage, End, UploadOps, FileInv, UploadTypeOK
<1>1. ASSUME NEW p \in Places, NEW f \in Files, Bears(p, f)'
      PROVE  Bears(p, f) \/ (p = r.place /\ f = r.file)
  BY <1>0, <1>1 DEF Bears
<1>2. ASSUME NEW p \in Places, NEW f \in Files, Bears(p, f)' PROVE Source(p, f)'
  <2>1. CASE Bears(p, f)
    BY <1>0, <2>1, ImageStep DEF ImageInv
  <2>2. CASE p = r.place /\ f = r.file
    BY <1>0, <2>2 DEF Source, Sets
  <2> QED BY <1>1, <1>2, <2>1, <2>2
<1>3. \A q \in world.calls : q.op = "setImage" /\ pc'[q] = "unlink" => Source(q.place, held[q].file)'
  <2>1. ASSUME NEW q \in world.calls, q.op = "setImage", pc'[q] = "unlink"
        PROVE  Source(q.place, held[q].file)'
    <3>1. Source(q.place, held[q].file) /\ held'[q] = held[q]
      BY <1>0, <2>1 DEF ImageInv, Moves
    <3> QED BY <1>0, <3>1 DEF Source, AtFirst, Sets, Moves
  <2> QED BY <2>1
<1>4. ASSUME NEW f \in Files, Fair(f)', Exposed(f)' PROVE ImageKept(f)'
  <2>1. ImageKept(f) /\ Fair(f)
    BY <1>0, <1>4, ImageStep DEF ImageInv
  <2>2. images' = [images EXCEPT ![r.place] = new]
    BY <1>0, <2>1 DEF Fair
  <2>3. \A q \in world.calls : Sets(q, f) /\ pc'[q] # "done" => files'[f] # NoRow
    BY <1>0, <2>1, ImageStep DEF ImageKept
  <2>4. ASSUME NEW p \in Places, Bears(p, f)'
        PROVE  \/ files'[f] # NoRow
               \/ \E q \in world.calls : q.op = "setImage" /\ q.place = p /\ pc'[q] = "write"
    <3>1. CASE p = r.place
      <4>1. f = r.file
        BY <1>0, <2>2, <2>4, <3>1 DEF Bears
      <4> QED BY <1>0, <2>1, <4>1 DEF ImageKept, Sets
    <3>2. CASE p # r.place
      <4>1. Bears(p, f)
        BY <1>1, <2>4, <3>2
      <4>2. CASE files[f] # NoRow
        BY <1>0, <4>2
      <4>3. ASSUME NEW q \in world.calls, q.op = "setImage", q.place = p, pc[q] = "write"
            PROVE  pc'[q] = "write"
        BY <1>0, <3>2, <4>3 DEF Moves
      <4> QED BY <2>1, <4>1, <4>2, <4>3 DEF ImageKept
    <3> QED BY <3>1, <3>2
  <2> QED BY <1>0, <2>3, <2>4 DEF ImageKept, Sets
<1> QED BY <1>2, <1>3, <1>4 DEF ImageInv

\* Every step keeps what is known of the images.
LEMMA NextImages ==
  ASSUME ReqInv, FileInv, ImageInv, [ServicesNext]_serviceVars
  PROVE  ImageInv'
<1>0. UNCHANGED world
  BY StepKinds
<1>1. ASSUME NEW r \in world.calls, CallStep(r), UploadStep(r) PROVE ImageInv'
  <2>1. CASE FindPlace(r) \/ RemoveSuperseded(r) \/ WriteImage(r)
    BY <1>0, <2>1, FindImages, UnlinkImages, WriteImages
  <2>2. CASE \/ IssueUrl(r) \/ PutFile(r) \/ FindServed(r) \/ CheckPublic(r) \/ VerifyFile(r)
             \/ MakePublic(r) \/ Discard(r)
    <3>1. UNCHANGED images /\ r.op # "setImage"
      BY <2>2 DEF IssueUrl, PutFile, FindServed, CheckPublic, VerifyFile, MakePublic, Discard, At,
                  uploadVars
    <3>2. \A f \in Files : Fair(f) /\ Exposed(f)' => \/ files'[f] # NoRow
                                                     \/ Exposed(f) /\ files'[f] = files[f]
      BY <1>0, <2>2, FilesExposed
    <3> QED BY <1>0, <1>1, <3>1, <3>2, ImageIdle DEF CallStep, Moves
  <2> QED BY <1>1, <2>1, <2>2 DEF UploadStep
<1>2. ASSUME UNCHANGED <<files, images, published>>,
             \A q \in world.calls : \/ pc'[q] = pc[q] /\ held'[q] = held[q]
                                    \/ q.op \notin UploadOps
      PROVE  ImageInv'
  <2>1. \A f \in Files : Exposed(f)' <=> Exposed(f)
    BY <1>0, <1>2 DEF Exposed, Opening, UploadOps
  <2> QED BY <1>0, <1>2, <2>1, ImageIdle DEF UploadOps
<1>3. ASSUME NEW r \in world.calls, CallStep(r), ~UploadStep(r) PROVE ImageInv'
  <2>1. UNCHANGED uploadVars /\ Moves(r) /\ r.op \notin UploadOps
    BY <1>3 DEF CallStep, MemberOps, AdOps, RideOps, DecideOps, UploadOps
  <2> QED BY <1>2, <2>1 DEF Moves, uploadVars
<1>4. CASE TaskStep
  BY <1>2, <1>4 DEF TaskStep, requestVars, uploadVars, UrlExpires
<1> QED BY <1>1, <1>3, <1>4, StepKinds

LEMMA InitImages == ServicesInit => ImageInv
<1> SUFFICES ASSUME ServicesInit PROVE ImageInv
  OBVIOUS
<1>1. /\ world \in Worlds /\ files = world.at.files /\ images = world.at.images
      /\ published = {f \in Files : files[f] # NoRow /\ files[f].public}
      /\ \A q \in world.calls : pc[q] = "start"
  BY DEF ServicesInit, UploadsInit, RequestInit
<1>2. \A p \in Places, f \in Files : Bears(p, f) => Source(p, f)
  BY <1>1 DEF Bears, Source, AtFirst
<1>3. ASSUME NEW f \in Files, Exposed(f) PROVE files[f] # NoRow
  BY <1>1, <1>3 DEF Exposed, Opening
<1> QED BY <1>1, <1>2, <1>3 DEF ImageInv, ImageKept

\* Of a set with one element at most, any two are the same.
LEMMA AtMostOne ==
  ASSUME NEW S, IsFiniteSet(S), Cardinality(S) <= 1, NEW x \in S, NEW y \in S
  PROVE  x = y
<1>1. Cardinality(S) \in Nat
  BY FS_CardinalityType
<1>2. Cardinality(S) = 0 \/ Cardinality(S) = 1
  BY <1>1
<1>3. Cardinality(S) = 1
  BY <1>2, FS_EmptySet
<1>4. PICK z : S = {z}
  BY <1>3, FS_Singleton
<1> QED BY <1>4

\* Counted, the calls that name a file and the places that showed it first.
LEMMA Counted ==
  ASSUME ReqInv, NEW f
  PROVE  /\ Named("put", f) <= 1 => Once("put", f)
         /\ Shown(f) + Named("setImage", f) <= 1 => Sole(f)
<1> DEFINE calls(op) == {r \in world.calls : r.op = op /\ r.file = f}
           places == {p \in Places : LET image == world.at.images[p]
                                     IN image # NoRow /\ image.file = f}
<1>1. IsFiniteSet(world.calls) /\ IsFiniteSet(Places)
  BY UploadWorldsAssumption, FilesAssumption DEF ReqInv
<1>2. \A op : IsFiniteSet(calls(op)) /\ Cardinality(calls(op)) \in Nat
  <2>1. ASSUME NEW op PROVE IsFiniteSet(calls(op)) /\ Cardinality(calls(op)) \in Nat
    <3>1. calls(op) \in SUBSET world.calls
      OBVIOUS
    <3> HIDE DEF calls
    <3> QED BY <1>1, <3>1, FS_Subset, FS_CardinalityType
  <2> QED BY <2>1
<1>3. IsFiniteSet(places) /\ Cardinality(places) \in Nat
  <2>1. places \in SUBSET Places
    OBVIOUS
  <2> HIDE DEF places
  <2> QED BY <1>1, <2>1, FS_Subset, FS_CardinalityType
<1>4. \A p \in Places : p \in places <=> AtFirst(p, f)
  BY DEF AtFirst
<1>5. \A op : \A r \in world.calls : r \in calls(op) <=> r.op = op /\ r.file = f
  OBVIOUS
<1>6. Named("put", f) = Cardinality(calls("put")) /\ Named("setImage", f) = Cardinality(calls("setImage"))
  BY DEF Named
<1>7. Shown(f) = Cardinality(places)
  BY DEF Shown
<1> HIDE DEF calls, places
<1>8. ASSUME NEW op, Cardinality(calls(op)) <= 1,
             NEW r \in world.calls, NEW q \in world.calls,
             r.op = op, r.file = f, q.op = op, q.file = f
      PROVE  r = q
  <2>1. r \in calls(op) /\ q \in calls(op) /\ IsFiniteSet(calls(op))
    BY <1>2, <1>5, <1>8
  <2> QED BY <1>8, <2>1, AtMostOne
<1>9. Named("put", f) <= 1 => Once("put", f)
  BY <1>6, <1>8 DEF Once
<1>10. ASSUME Shown(f) + Named("setImage", f) <= 1 PROVE Sole(f)
  <2>1. /\ Cardinality(places) + Cardinality(calls("setImage")) <= 1
        /\ Cardinality(places) <= 1 /\ Cardinality(calls("setImage")) <= 1
    BY <1>2, <1>3, <1>6, <1>7, <1>10
  <2>2. \A p, q \in Places : AtFirst(p, f) /\ AtFirst(q, f) => p = q
    BY <1>3, <1>4, <2>1, AtMostOne
  <2>3. \A r, q \in world.calls : Sets(r, f) /\ Sets(q, f) => r = q
    BY <1>8, <2>1 DEF Sets
  <2>4. ASSUME NEW p \in Places, NEW q \in world.calls, AtFirst(p, f), Sets(q, f) PROVE FALSE
    <3>1. places # {} /\ calls("setImage") # {}
      BY <1>4, <1>5, <2>4 DEF Sets
    <3>2. Cardinality(places) # 0 /\ Cardinality(calls("setImage")) # 0
      BY <1>2, <1>3, <3>1, FS_EmptySet
    <3> QED BY <1>2, <1>3, <2>1, <3>2
  <2> QED BY <2>2, <2>3, <2>4 DEF Sole
<1> QED BY <1>9, <1>10

\* What was published is sound, and an image that is shown is there.
LEMMA FilesHeld == ReqInv /\ FileInv /\ ImageInv => FilesHold
<1> SUFFICES ASSUME ReqInv, FileInv, ImageInv PROVE FilesHold
  OBVIOUS
<1>1. ASSUME NEW f \in published, ~world.faulty, Named("put", f) <= 1, files[f] # NoRow
      PROVE  files[f].public /\ (Aws => files[f].size \in 1 .. Limit)
  <2>1. f \in Files /\ FileOk(f)
    BY <1>1 DEF FileInv, UploadTypeOK
  <2>2. UploadedOnce(f)
    BY <1>1, <2>1, Counted DEF FileOk
  <2> QED BY <1>1, <2>2 DEF UploadedOnce, Sound
<1>2. ASSUME NEW p \in Places, images[p] # NoRow, images[p].file \in published, ~world.faulty,
             world.provider # "local",
             \A r \in world.calls : r.op = "setImage" => pc[r] # "write",
             Shown(images[p].file) + Named("setImage", images[p].file) <= 1,
             Named("put", images[p].file) <= 1
      PROVE  files[images[p].file] # NoRow
  <2>1. PICK f \in Files : f = images[p].file
    BY <1>2 DEF FileInv, UploadTypeOK
  <2>2. Fair(f) /\ Exposed(f) /\ Bears(p, f)
    BY <1>2, <2>1, Counted DEF Fair, Exposed, Local, Bears
  <2>3. ImageKept(f)
    BY <2>2 DEF ImageInv
  <2> QED BY <1>2, <2>1, <2>2, <2>3 DEF ImageKept
<1>3. PublishedIsSound
  BY <1>1 DEF PublishedIsSound
<1>4. ImageExists
  BY <1>2 DEF ImageExists
<1> QED BY <1>3, <1>4 DEF FilesHold

-----------------------------------------------------------------------------
(* Members have their types                                                *)

LEMMA NextMembers ==
  ASSUME ReqInv, MemberInv, [ServicesNext]_serviceVars
  PROVE  MemberInv'
<1>0. UNCHANGED world
  BY StepKinds
<1>1. ASSUME NEW r \in world.calls, CallStep(r), MemberStep(r) PROVE MemberInv'
  BY <1>0, <1>1, MemberStepTyped
<1>2. ASSUME NEW r \in world.calls, CallStep(r), ~MemberStep(r) PROVE MemberInv'
  <2>1. /\ Moves(r) /\ r.op \notin MemberOps /\ r.op \notin Saving
    BY <1>2 DEF CallStep, MemberOps, AdOps, RideOps, DecideOps, UploadOps, Saving
  <2>2. UNCHANGED members
    BY <1>2 DEF CallStep, memberVars, MarkStep, FindByRfid, ValidateEnrolment, FindByCard,
                FindStudents, Mark, WriteBatch, MarkAgain, AnswerBulk
  <2> QED BY <1>0, <2>1, <2>2, MembersKept DEF MemberInv, Saving
<1>3. CASE TaskStep
  BY <1>0, <1>3 DEF TaskStep, requestVars, memberVars, MemberInv, MemberRow, Typed
<1> QED BY <1>1, <1>2, <1>3, StepKinds

LEMMA InitMembers == ServicesInit => MemberInv
BY MemberWorldsAssumption DEF ServicesInit, MembersInit, RequestInit, MemberInv

-----------------------------------------------------------------------------
(* Advertisements and the tasks that choose among them                     *)

NoticeFields == {"stage", "ad", "found", "count", "left"}

\* The same advertisement but for its counter.
Same(x, y) == /\ x \in AdRows /\ y \in AdRows
              /\ x.active = y.active /\ x.max = y.max /\ x.aims = y.aims /\ x.bonus = y.bonus
              /\ x.platforms = y.platforms /\ x.cascade = y.cascade

Current(list) == \A a \in DOMAIN list : a \in Ads /\ ads[a] # NoRow /\ Same(list[a], ads[a])

\* Advertisements are whole, and so is what a task remembers.
AdTyped == /\ ads \in [Ads -> AdRows \cup {NoRow}]
           /\ \A t \in DOMAIN notices : DOMAIN notices[t] = NoticeFields

\* One after the other, a call that is under way meets no task, but for an
\* advertisement sent by hand, which waits for its own.
TasksOver == world.serial => \A r \in world.calls : r.op # "advertise" /\ pc[r] \notin Idle
                                                      => NoticesOver

Bulk(r) == r.op = "mark" /\ r.way \in {"bulk", "bulkRfid"}

BulkOnly == \A r \in world.calls : r.op = "mark" /\ pc[r] \in {"batch", "again"} => Bulk(r)

\* The cached list and one that is about to be kept are current, unless a call
\* has changed an advertisement and is yet to delete the list.
ListsCurrent ==
  world.serial /\ ~world.faulty
  => /\ listed # NoRow /\ (\A r \in world.calls : r.op \in AdOps => pc[r] # "forget") => Current(listed)
     /\ \A t \in DOMAIN notices : notices[t].stage = "keep" => Current(notices[t].found)

\* Where limits are kept, there is one task at most, and what it is to count is
\* below its limit.
Limited ==
  /\ world.serial /\ ~world.caching /\ ~world.faulty
  /\ \A r \in world.calls : r.op \notin {"advertise", "adUpdate"} /\ ~Bulk(r)
  /\ \A a \in Ads : world.at.ads[a] # NoRow => world.at.ads[a].sent <= world.at.ads[a].max

LimitHolds ==
  Limited =>
    /\ \A t, o \in DOMAIN notices : t = o
    /\ \A a \in Ads : ads[a] # NoRow => ads[a].sent <= ads[a].max
    /\ \A t \in DOMAIN notices :
         /\ notices[t].stage # "keep"
         /\ notices[t].count \in Ads /\ ads[notices[t].count] # NoRow
              => ads[notices[t].count].sent < ads[notices[t].count].max

AdInv == AdTyped /\ TasksOver /\ BulkOnly /\ ListsCurrent /\ LimitHolds

\* The row that a call writes, and one that is counted.
LEMMA AdWritten ==
  ASSUME NEW columns, DOMAIN columns \subseteq DOMAIN NewAd \ {"sent"}, columns ++ NewAd \in AdRows
  PROVE  /\ (columns ++ NewAd).sent = 0
         /\ \A row \in AdRows : columns ++ row \in AdRows
<1>1. DOMAIN NewAd = {"active", "max", "sent", "aims", "bonus", "platforms", "cascade"}
  BY DEF NewAd
<1>2. NewAd.sent = 0
  BY DEF NewAd
<1>3. (columns ++ NewAd).sent = 0
  BY <1>1, <1>2 DEF ++
<1>4. ASSUME NEW row \in AdRows PROVE columns ++ row \in AdRows
  <2> DEFINE whole == columns ++ NewAd
             new == columns ++ row
  <2>1. DOMAIN row = DOMAIN NewAd
    BY <1>1 DEF AdRows
  <2>2. /\ DOMAIN new = DOMAIN NewAd
        /\ \A c \in DOMAIN NewAd : new[c] = row[c] \/ (c \in DOMAIN columns /\ new[c] = whole[c])
    BY <1>1, <2>1 DEF ++
  <2>3. /\ whole.active \in BOOLEAN /\ whole.max \in Nat /\ whole.sent \in Nat
        /\ whole.aims \in Aims /\ whole.bonus \in Nat
        /\ whole.platforms \in SUBSET {"email", "sms", "telegram", "whatsapp"}
        /\ whole.cascade \in BOOLEAN
    BY DEF AdRows
  <2>4. /\ row.active \in BOOLEAN /\ row.max \in Nat /\ row.sent \in Nat
        /\ row.aims \in Aims /\ row.bonus \in Nat
        /\ row.platforms \in SUBSET {"email", "sms", "telegram", "whatsapp"}
        /\ row.cascade \in BOOLEAN
    BY DEF AdRows
  <2>5. new = [c \in DOMAIN new |-> new[c]]
    BY DEF ++
  <2> HIDE DEF whole, new
  <2>6. /\ new["active"] \in BOOLEAN /\ new["max"] \in Nat /\ new["sent"] \in Nat
        /\ new["aims"] \in Aims /\ new["bonus"] \in Nat
        /\ new["platforms"] \in SUBSET {"email", "sms", "telegram", "whatsapp"}
        /\ new["cascade"] \in BOOLEAN
    BY <1>1, <2>2, <2>3, <2>4
  <2> QED BY <1>1, <2>2, <2>5, <2>6 DEF AdRows, new
<1> QED BY <1>3, <1>4

LEMMA AdCounted ==
  ASSUME NEW row \in AdRows
  PROVE  LET new == [row EXCEPT !.sent = row.sent + 1]
         IN  new \in AdRows /\ Same(new, row) /\ new.sent = row.sent + 1 /\ new.max = row.max
BY DEF AdRows, Same

\* A sending is counted.
Counting(a) == ads' = [ads EXCEPT ![a] = Incremented(@)]

LEMMA CountedAds ==
  ASSUME AdTyped, NEW a, Counting(a)
  PROVE  /\ ads' \in [Ads -> AdRows \cup {NoRow}]
         /\ \A b \in Ads : /\ ads'[b] # NoRow <=> ads[b] # NoRow
                           /\ ads[b] # NoRow => /\ Same(ads'[b], ads[b])
                                                /\ ads'[b].sent = IF a = b THEN ads[b].sent + 1
                                                                  ELSE ads[b].sent
                                                /\ ads'[b].max = ads[b].max
<1>0. ads \in [Ads -> AdRows \cup {NoRow}] /\ NoRow \notin AdRows
  BY AdsAssumption DEF AdTyped
<1>1. \A b \in Ads : ads[b] # NoRow => Same(ads[b], ads[b])
  BY <1>0 DEF Same
<1>2. CASE a \notin Ads \/ ads[a] = NoRow
  <2>1. ads' = ads
    BY <1>0, <1>2 DEF Counting, Incremented
  <2> QED BY <1>0, <1>1, <1>2, <2>1
<1>3. CASE a \in Ads /\ ads[a] # NoRow
  <2> DEFINE row == ads[a]
             new == [row EXCEPT !.sent = row.sent + 1]
  <2>1. row \in AdRows
    BY <1>0, <1>3
  <2>2. ads' = [ads EXCEPT ![a] = new]
    BY <1>3 DEF Counting, Incremented
  <2> HIDE DEF row
  <2>3. new \in AdRows /\ Same(new, row) /\ new.sent = row.sent + 1 /\ new.max = row.max
    BY <2>1, AdCounted
  <2>4. row = ads[a]
    BY DEF row
  <2> HIDE DEF new
  <2> QED BY <1>0, <1>1, <1>3, <2>2, <2>3, <2>4
<1> QED BY <1>2, <1>3

\* What a step of a task does to the tasks, the advertisements and their list.
TaskEffect(t) ==
  /\ DOMAIN notices' \subseteq DOMAIN notices
  /\ \A o \in DOMAIN notices' : /\ DOMAIN notices'[o] = NoticeFields
                                /\ o # t => notices'[o] = notices[o]
  /\ \/ ads' = ads
     \/ /\ Counting(notices[t].count)
        /\ t \in DOMAIN notices' => notices'[t].count = NoRow
  /\ listed' = listed \/ (notices[t].stage = "keep" /\ listed' = notices[t].found)
  /\ t \in DOMAIN notices' =>
       /\ notices'[t].stage = "keep"
            => \/ notices'[t].found = FromDatabase
               \/ notices[t].stage = "keep" /\ notices'[t].found = notices[t].found
       /\ ~world.caching /\ notices[t].stage # "keep"
            => /\ notices'[t].stage # "keep"
               /\ \/ notices'[t].count \in {notices[t].count, NoRow}
                  \/ notices'[t].count \in Ads /\ Sendable(ads[notices'[t].count])

\* A task that chooses sends next, with one of the best.
LEMMA ChooseEffect ==
  ASSUME NEW t \in DOMAIN notices, NEW list, Choose(t, list)
  PROVE  \E ad, name, left :
           /\ notices' = [notices EXCEPT ![t] = [stage |-> "send", ad |-> ad, found |-> NoRow,
                                                 count |-> name, left |-> left]]
           /\ name = NoRow \/ name \in Best(list)
BY DEF Choose, Send, Set

LEMMA AnywayEffect ==
  ASSUME NEW t \in DOMAIN notices, ChooseAnyway(t)
  PROVE  \E ad, name, left :
           /\ notices' = [notices EXCEPT ![t] = [stage |-> "send", ad |-> ad, found |-> NoRow,
                                                 count |-> name, left |-> left]]
           /\ name = NoRow \/ (name \in Ads /\ Sendable(ads[name]))
<1>1. \A a \in Best(FromDatabase) : a \in Ads /\ Sendable(ads[a])
  BY DEF Best, FromDatabase
<1>2. CASE Choose(t, FromDatabase)
  BY <1>1, <1>2, ChooseEffect
<1>3. CASE Send(t, NoRow, NoRow)
  BY <1>3 DEF Send, Set
<1> QED BY <1>2, <1>3 DEF ChooseAnyway

LEMMA NoticeEffect ==
  ASSUME AdTyped, NEW t \in DOMAIN notices, NoticeStep(t)
  PROVE  TaskEffect(t)
<1> DEFINE old == notices[t]
<1>0. /\ DOMAIN old = NoticeFields
      /\ \A o \in DOMAIN notices : DOMAIN notices[o] = NoticeFields
  BY DEF AdTyped
<1> HIDE DEF old
<1>1. ASSUME NEW new, DOMAIN new = NoticeFields, notices' = [notices EXCEPT ![t] = new]
      PROVE  /\ DOMAIN notices' \subseteq DOMAIN notices /\ notices'[t] = new
             /\ \A o \in DOMAIN notices' : /\ DOMAIN notices'[o] = NoticeFields
                                           /\ o # t => notices'[o] = notices[o]
  BY <1>0, <1>1
<1>2. ASSUME NEW ad, NEW name, NEW left,
             notices' = [notices EXCEPT ![t] = [stage |-> "send", ad |-> ad, found |-> NoRow,
                                                count |-> name, left |-> left]],
             name = NoRow \/ (name \in Ads /\ Sendable(ads[name])) \/ world.caching
                  \/ notices[t].stage = "keep",
             ads' = ads, listed' = listed \/ (notices[t].stage = "keep" /\ listed' = notices[t].found)
      PROVE  TaskEffect(t)
  <2> DEFINE new == [stage |-> "send", ad |-> ad, found |-> NoRow, count |-> name, left |-> left]
  <2>1. DOMAIN new = NoticeFields /\ new.stage = "send" /\ new.count = name
    BY DEF NoticeFields
  <2> HIDE DEF new
  <2>2. notices' = [notices EXCEPT ![t] = new]
    BY <1>2 DEF new
  <2> QED BY <1>1, <1>2, <2>1, <2>2 DEF TaskEffect
<1>3. ASSUME NEW new, DOMAIN new = NoticeFields, notices' = [notices EXCEPT ![t] = new],
             new.stage = "keep" => \/ new.found = FromDatabase
                                   \/ notices[t].stage = "keep" /\ new.found = notices[t].found,
             ~world.caching => notices[t].stage = "keep" \/ new.stage # "keep",
             new.count \in {notices[t].count, NoRow}, listed' = listed,
             ads' = ads \/ (Counting(notices[t].count) /\ new.count = NoRow)
      PROVE  TaskEffect(t)
  BY <1>1, <1>3 DEF TaskEffect
<1>4. CASE BeginNotice(t)
  <2>1. UNCHANGED <<ads, listed>>
    BY <1>4 DEF BeginNotice, adVars
  <2>2. CASE notices' = [notices EXCEPT ![t] = [notices[t] EXCEPT !.stage = "choose"]]
    <3> DEFINE new == [old EXCEPT !.stage = "choose"]
    <3>1. DOMAIN new = NoticeFields /\ new.stage = "choose" /\ new.count = old.count
      BY <1>0 DEF NoticeFields
    <3>2. notices' = [notices EXCEPT ![t] = new]
      BY <2>2 DEF old
    <3> HIDE DEF new
    <3> QED BY <1>3, <2>1, <3>1, <3>2 DEF old
  <2>3. CASE Send(t, NoRow, NoRow)
    BY <1>2, <2>1, <2>3 DEF Send, Set
  <2> QED BY <1>4, <2>2, <2>3 DEF BeginNotice, Set
<1>5. CASE ChooseListed(t)
  <2>1. UNCHANGED <<ads, listed>>
    BY <1>5 DEF ChooseListed, adVars
  <2>2. CASE notices' = [notices EXCEPT ![t] = [notices[t] EXCEPT !.stage = "query"]]
    <3> DEFINE new == [old EXCEPT !.stage = "query"]
    <3>1. DOMAIN new = NoticeFields /\ new.stage = "query" /\ new.count = old.count
      BY <1>0 DEF NoticeFields
    <3>2. notices' = [notices EXCEPT ![t] = new]
      BY <2>2 DEF old
    <3> HIDE DEF new
    <3> QED BY <1>3, <2>1, <3>1, <3>2 DEF old
  <2>3. CASE world.caching /\ Choose(t, listed)
    BY <1>2, <2>1, <2>3, ChooseEffect
  <2>4. CASE ChooseAnyway(t)
    BY <1>2, <2>1, <2>4, AnywayEffect
  <2> QED BY <1>5, <2>2, <2>3, <2>4 DEF ChooseListed, Set
<1>6. CASE QueryAds(t)
  <2>1. UNCHANGED <<ads, listed>>
    BY <1>6 DEF QueryAds, adVars
  <2>2. CASE world.caching /\ notices' = [notices EXCEPT ![t] =
                                [notices[t] EXCEPT !.stage = "keep", !.found = FromDatabase]]
    <3> DEFINE list == FromDatabase
    <3> HIDE DEF list
    <3> DEFINE new == [old EXCEPT !.stage = "keep", !.found = list]
    <3>1. DOMAIN new = NoticeFields /\ new.found = list /\ new.count = old.count
      BY <1>0 DEF NoticeFields
    <3>2. notices' = [notices EXCEPT ![t] = new]
      BY <2>2 DEF old, list
    <3> HIDE DEF new
    <3> QED BY <1>3, <2>1, <2>2, <3>1, <3>2 DEF old, list
  <2>3. CASE Choose(t, FromDatabase)
    <3>1. \A a \in Best(FromDatabase) : a \in Ads /\ Sendable(ads[a])
      BY DEF Best, FromDatabase
    <3> QED BY <1>2, <2>1, <2>3, <3>1, ChooseEffect
  <2>4. CASE ChooseAnyway(t)
    BY <1>2, <2>1, <2>4, AnywayEffect
  <2> QED BY <1>6, <2>2, <2>3, <2>4 DEF QueryAds, Set
<1>7. CASE KeepList(t)
  <2>1. UNCHANGED ads /\ notices[t].stage = "keep"
    BY <1>7 DEF KeepList
  <2>2. CASE listed' = notices[t].found /\ Choose(t, notices[t].found)
    BY <1>2, <2>1, <2>2, ChooseEffect
  <2>3. CASE UNCHANGED listed /\ ChooseAnyway(t)
    BY <1>2, <2>1, <2>3, AnywayEffect
  <2> QED BY <1>7, <2>2, <2>3 DEF KeepList
<1>8. CASE CountSending(t)
  <2>1. notices' = [notices EXCEPT ![t] = [notices[t] EXCEPT !.count = NoRow]]
    BY <1>8 DEF CountSending, Set
  <2> DEFINE new == [old EXCEPT !.count = NoRow]
  <2>2. /\ DOMAIN new = NoticeFields /\ new.stage = old.stage /\ new.found = old.found
        /\ new.count = NoRow
    BY <1>0 DEF NoticeFields
  <2>3. listed' = listed /\ (ads' = ads \/ Counting(notices[t].count))
    BY <1>8 DEF CountSending, Counting
  <2>4. notices' = [notices EXCEPT ![t] = new]
    BY <2>1 DEF old
  <2> HIDE DEF new
  <2> QED BY <1>3, <2>2, <2>3, <2>4 DEF old
<1>9. ASSUME NEW s, Attempt(t, s) PROVE TaskEffect(t)
  <2>1. PICK left : notices' = [notices EXCEPT ![t] = [notices[t] EXCEPT !.left = left]]
    BY <1>9 DEF Attempt, Set
  <2>2. UNCHANGED <<ads, listed>>
    BY <1>9 DEF Attempt, adVars
  <2> DEFINE new == [old EXCEPT !.left = left]
  <2>3. /\ DOMAIN new = NoticeFields /\ new.stage = old.stage /\ new.found = old.found
        /\ new.count = old.count
    BY <1>0 DEF NoticeFields
  <2>4. notices' = [notices EXCEPT ![t] = new]
    BY <2>1 DEF old
  <2> HIDE DEF new
  <2> QED BY <1>3, <2>2, <2>3, <2>4 DEF old
<1>10. CASE TellAllParents(t)
  <2>1. PICK left : notices' = [notices EXCEPT ![t] =
                                  [notices[t] EXCEPT !.stage = "cascade", !.left = left]]
    BY <1>10 DEF TellAllParents, Set
  <2>2. UNCHANGED <<ads, listed>>
    BY <1>10 DEF TellAllParents, adVars
  <2> DEFINE new == [old EXCEPT !.stage = "cascade", !.left = left]
  <2>3. DOMAIN new = NoticeFields /\ new.stage = "cascade" /\ new.count = old.count
    BY <1>0 DEF NoticeFields
  <2>4. notices' = [notices EXCEPT ![t] = new]
    BY <2>1 DEF old
  <2> HIDE DEF new
  <2> QED BY <1>3, <2>2, <2>3, <2>4 DEF old
<1>11. CASE EndNotice(t)
  BY <1>0, <1>11 DEF EndNotice, TaskEffect, adVars
<1> QED BY <1>4, <1>5, <1>6, <1>7, <1>8, <1>9, <1>10, <1>11 DEF NoticeStep

\* Lists stay current while only counters change.
Steady == \A b \in Ads : ads[b] # NoRow => ads'[b] # NoRow /\ Same(ads'[b], ads[b])

LEMMA CurrentKept == ASSUME Steady, NEW list, Current(list) PROVE Current(list)'
<1>1. ASSUME NEW a \in DOMAIN list
      PROVE  a \in Ads /\ ads'[a] # NoRow /\ Same(list[a], ads'[a])
  <2>1. a \in Ads /\ ads[a] # NoRow /\ Same(list[a], ads[a])
    BY DEF Current
  <2>2. ads'[a] # NoRow /\ Same(ads'[a], ads[a])
    BY <2>1 DEF Steady
  <2> QED BY <2>1, <2>2 DEF Same
<1> QED BY <1>1 DEF Current, Same

LEMMA AdsSteady ==
  ASSUME AdTyped, ads' = ads \/ \E a : Counting(a)
  PROVE  Steady /\ ads' \in [Ads -> AdRows \cup {NoRow}]
<1>1. CASE ads' = ads
  BY <1>1, AdsAssumption DEF AdTyped, Steady, Same
<1>2. ASSUME NEW a, Counting(a) PROVE Steady /\ ads' \in [Ads -> AdRows \cup {NoRow}]
  BY <1>2, CountedAds DEF Steady
<1> QED BY <1>1, <1>2

\* What a query finds is current.
LEMMA DatabaseCurrent == ASSUME AdTyped PROVE Current(FromDatabase)
<1>1. ASSUME NEW a \in Ads, ads[a] # NoRow PROVE Same(ads[a], ads[a])
  BY <1>1, AdsAssumption DEF AdTyped, Same
<1> QED BY <1>1 DEF Current, FromDatabase, Sendable

\* A task keeps the limit and the list.
LEMMA AdTask ==
  ASSUME ReqInv, AdInv, UNCHANGED <<world, pc>>, NEW t \in DOMAIN notices, TaskEffect(t)
  PROVE  AdInv'
<1>0. /\ AdTyped /\ TasksOver /\ BulkOnly /\ ListsCurrent /\ LimitHolds
      /\ Steady /\ ads' \in [Ads -> AdRows \cup {NoRow}]
  <2>1. AdTyped /\ TasksOver /\ BulkOnly /\ ListsCurrent /\ LimitHolds
    BY DEF AdInv
  <2>2. ads' = ads \/ \E a : Counting(a)
    BY DEF TaskEffect
  <2> QED BY <2>1, <2>2, AdsSteady
<1>1. AdTyped'
  BY <1>0 DEF AdTyped, TaskEffect
<1>2. TasksOver'
  BY <1>0 DEF TasksOver, NoticesOver, TaskEffect
<1>3. BulkOnly'
  BY <1>0 DEF BulkOnly, Bulk
<1>4. ListsCurrent'
  <2> SUFFICES ASSUME world.serial, ~world.faulty
               PROVE  /\ (\A r \in world.calls : r.op \in AdOps => pc[r] # "forget") /\ listed' # NoRow
                           => Current(listed)'
                      /\ \A o \in DOMAIN notices' : notices'[o].stage = "keep"
                           => Current(notices[o].found)'
    BY DEF ListsCurrent
  <2>1. \A o \in DOMAIN notices : notices[o].stage = "keep" => Current(notices[o].found)
    BY <1>0 DEF ListsCurrent
  <2>2. ASSUME NEW list, Current(list) PROVE Current(list)'
    BY <1>0, <2>2, CurrentKept
  <2>3. ASSUME \A r \in world.calls : r.op \in AdOps => pc[r] # "forget", listed' # NoRow
        PROVE  Current(listed)'
    <3>1. PICK list : list = listed'
      OBVIOUS
    <3>2. Current(list)
      BY <1>0, <2>1, <2>3, <3>1 DEF TaskEffect, ListsCurrent
    <3>3. Current(list)'
      BY <2>2, <3>2
    <3> QED BY <3>1, <3>3 DEF Current
  <2>4. ASSUME NEW o \in DOMAIN notices', notices'[o].stage = "keep"
        PROVE  Current(notices[o].found)'
    <3>1. PICK list : list = notices'[o].found
      OBVIOUS
    <3>2. Current(list)
      <4>1. CASE o = t
        BY <1>0, <2>1, <2>4, <3>1, <4>1, DatabaseCurrent DEF TaskEffect
      <4>2. CASE o # t
        BY <2>1, <2>4, <3>1, <4>2 DEF TaskEffect
      <4> QED BY <4>1, <4>2
    <3>3. Current(list)'
      BY <2>2, <3>2
    <3> QED BY <3>1, <3>3 DEF Current
  <2> QED BY <2>3, <2>4
<1>5. LimitHolds'
  <2> SUFFICES ASSUME Limited PROVE LimitHolds'
    BY DEF LimitHolds, Limited, Bulk
  <2>1. /\ \A o \in DOMAIN notices : o = t
        /\ \A a \in Ads : ads[a] # NoRow => ads[a].sent <= ads[a].max
        /\ notices[t].stage # "keep"
        /\ notices[t].count \in Ads /\ ads[notices[t].count] # NoRow
             => ads[notices[t].count].sent < ads[notices[t].count].max
        /\ ~world.caching
    BY <1>0 DEF LimitHolds, Limited
  <2>2. \A o \in DOMAIN notices' : o = t
    BY <2>1 DEF TaskEffect
  <2>3. NoRow \notin Ads /\ ads \in [Ads -> AdRows \cup {NoRow}]
    BY <1>0, AdsAssumption DEF AdTyped
  <2>4. CASE ads' = ads
    <3>1. t \in DOMAIN notices' =>
            /\ notices'[t].stage # "keep"
            /\ notices'[t].count \in Ads /\ ads'[notices'[t].count] # NoRow
                 => ads'[notices'[t].count].sent < ads'[notices'[t].count].max
      BY <2>1, <2>3, <2>4 DEF TaskEffect, Sendable
    <3> QED BY <2>1, <2>2, <2>4, <3>1 DEF LimitHolds
  <2>5. CASE /\ Counting(notices[t].count)
             /\ t \in DOMAIN notices' => notices'[t].count = NoRow
    <3>1. PICK a : a = notices[t].count
      OBVIOUS
    <3>2. \A b \in Ads : ads'[b] # NoRow => ads'[b].sent <= ads'[b].max
      <4>1. ASSUME NEW b \in Ads, ads'[b] # NoRow PROVE ads'[b].sent <= ads'[b].max
        <5>1. /\ ads[b] # NoRow /\ ads'[b].max = ads[b].max
              /\ ads'[b].sent = IF a = b THEN ads[b].sent + 1 ELSE ads[b].sent
          BY <1>0, <2>5, <3>1, <4>1, CountedAds
        <5>2. ads[b] \in AdRows
          BY <2>3, <5>1
        <5>3. ads[b].sent \in Nat /\ ads[b].max \in Nat
          BY <5>2 DEF AdRows
        <5> QED BY <2>1, <3>1, <5>1, <5>3
      <4> QED BY <4>1
    <3>3. t \in DOMAIN notices' => notices'[t].stage # "keep"
      BY <2>1 DEF TaskEffect
    <3> QED BY <2>2, <2>3, <2>5, <3>2, <3>3 DEF LimitHolds
  <2> QED BY <2>4, <2>5 DEF TaskEffect
<1> QED BY <1>1, <1>2, <1>3, <1>4, <1>5 DEF AdInv

\* Tasks are only begun by a call that ends with it, or waits for them.
LEMMA TasksKept ==
  ASSUME ReqInv, TasksOver, NEW r \in world.calls, Moves(r), Rested(r), UNCHANGED world,
         r.op = "advertise" \/ pc'[r] \in Idle \/ UNCHANGED notices
  PROVE  TasksOver'
<1>1. ASSUME world.serial, NEW q \in world.calls, q.op # "advertise", pc'[q] \notin Idle
      PROVE  NoticesOver'
  <2>1. CASE q = r
    <3>1. NoticesOver /\ UNCHANGED notices
      BY <1>1, <2>1 DEF Rested, TasksOver, Moves, Idle
    <3> QED BY <3>1 DEF NoticesOver
  <2>2. CASE q # r
    BY <1>1, <2>2 DEF Moves
  <2> QED BY <2>1, <2>2
<1> QED BY <1>1 DEF TasksOver

LEMMA BulkKept ==
  ASSUME ReqInv, BulkOnly, NEW r \in world.calls, Moves(r), UNCHANGED world,
         r.op = "mark" /\ pc'[r] \in {"batch", "again"} => Bulk(r)
  PROVE  BulkOnly'
BY DEF BulkOnly, Bulk, Moves

\* Who has nothing to do with advertisements.
LEMMA AdOthers ==
  ASSUME ReqInv, AdInv, NEW r \in world.calls, Moves(r), Rested(r),
         UNCHANGED <<world, ads, listed, notices>>, r.op \notin AdOps,
         r.op = "mark" /\ pc'[r] \in {"batch", "again"} => Bulk(r)
  PROVE  AdInv'
<1>1. TasksOver' /\ BulkOnly'
  BY TasksKept, BulkKept DEF AdInv
<1>2. \A q \in world.calls : q.op \in AdOps => pc'[q] = pc[q]
  BY DEF Moves
<1>3. ListsCurrent'
  BY <1>2 DEF AdInv, ListsCurrent, Current, Same
<1>4. AdTyped' /\ LimitHolds'
  BY DEF AdInv, AdTyped, LimitHolds, Limited, Bulk
<1> QED BY <1>1, <1>3, <1>4 DEF AdInv

\* New tasks remember nothing yet.
Fresh(notice) == DOMAIN notice = NoticeFields /\ notice.stage # "keep" /\ notice.count = NoRow

LEMMA ScheduledFresh ==
  ASSUME NEW r, NEW S, NEW t \in DOMAIN Scheduled(r, S)
  PROVE  \/ t \in DOMAIN notices /\ Scheduled(r, S)[t] = notices[t]
         \/ (\E u \in S : t = <<r, u>>) /\ Fresh(Scheduled(r, S)[t])
<1> DEFINE new == [stage |-> "begin", ad |-> NoRow, found |-> NoRow, count |-> NoRow, left |-> {}]
           keys == {<<r, u>> : u \in {v \in S : Worthwhile(r, v)}}
<1>1. Fresh(new)
  BY DEF Fresh, NoticeFields
<1>2. Scheduled(r, S) = [o \in keys |-> new] ++ notices
  BY DEF Scheduled
<1>3. \A o \in keys : \E u \in S : o = <<r, u>>
  OBVIOUS
<1> HIDE DEF new, keys
<1>4. DOMAIN Scheduled(r, S) = keys \cup DOMAIN notices
  BY <1>2 DEF ++
<1>5. Scheduled(r, S)[t] = IF t \in keys THEN new ELSE notices[t]
  BY <1>2, <1>4 DEF ++
<1> QED BY <1>1, <1>3, <1>4, <1>5

\* New tasks keep the limit, where one at most begins when there is none.
LEMMA AdBegin ==
  ASSUME ReqInv, AdInv, NEW r \in world.calls, Moves(r), Rested(r),
         UNCHANGED <<world, ads, listed>>, r.op \in {"mark", "advertise"},
         r.op = "advertise" \/ (pc[r] \notin Idle /\ pc'[r] \in Idle),
         r.op = "mark" /\ pc'[r] \in {"batch", "again"} => Bulk(r),
         \A t \in DOMAIN notices' : \/ t \in DOMAIN notices /\ notices'[t] = notices[t]
                                    \/ Fresh(notices'[t]),
         r.op = "advertise" \/ Bulk(r) \/ \E x : DOMAIN notices' \subseteq {x} \cup DOMAIN notices
  PROVE  AdInv'
<1>0. AdTyped /\ TasksOver /\ BulkOnly /\ ListsCurrent /\ LimitHolds
  BY DEF AdInv
<1>1. TasksOver' /\ BulkOnly'
  BY <1>0, TasksKept, BulkKept
<1>2. AdTyped'
  BY <1>0 DEF AdTyped, Fresh
<1>3. \A q \in world.calls : q.op \in AdOps => pc'[q] = pc[q]
  BY DEF Moves, AdOps
<1>4. ListsCurrent'
  BY <1>0, <1>3 DEF ListsCurrent, Current, Same, Fresh
<1>5. LimitHolds'
  <2> SUFFICES ASSUME Limited PROVE LimitHolds'
    BY DEF LimitHolds, Limited, Bulk
  <2>1. r.op = "mark" /\ ~Bulk(r) /\ world.serial
    BY DEF Limited
  <2>2. DOMAIN notices = {}
    BY <1>0, <2>1 DEF TasksOver, NoticesOver
  <2>3. /\ \A t, o \in DOMAIN notices' : t = o
        /\ \A t \in DOMAIN notices' : Fresh(notices'[t])
    BY <2>1, <2>2
  <2>4. NoRow \notin Ads
    BY AdsAssumption
  <2> QED BY <1>0, <2>3, <2>4 DEF LimitHolds, Fresh
<1> QED BY <1>1, <1>2, <1>4, <1>5 DEF AdInv

\* An advertisement that is written meets no task, where calls are served one by
\* one, and the list is deleted next.
LEMMA WriteAds ==
  ASSUME ReqInv, AdInv, NEW r \in world.calls, Rested(r), WriteAd(r), UNCHANGED <<world, notices>>
  PROVE  AdInv'
<1>0. /\ AdTyped /\ TasksOver /\ BulkOnly /\ ListsCurrent /\ LimitHolds
      /\ Moves(r) /\ r.op \in AdOps /\ pc[r] = "start" /\ pc'[r] = "forget" /\ UNCHANGED listed
  BY AtMoves DEF AdInv, WriteAd, AdOps
<1> DEFINE new == CASE r.op = "adCreate" -> r.set ++ NewAd
                    [] r.op = "adUpdate" /\ ads[r.ad] # NoRow -> r.set ++ ads[r.ad]
                    [] OTHER -> NoRow
<1>1. ads' = [ads EXCEPT ![r.ad] = new]
  BY DEF WriteAd
<1>2. ASSUME r.ad \in Ads
      PROVE  /\ new \in AdRows \cup {NoRow}
             /\ r.op # "adUpdate" => new = NoRow \/ new.sent = 0
  <2>1. r.op \in {"adCreate", "adUpdate"} =>
          /\ DOMAIN r.set \subseteq DOMAIN NewAd \ {"sent"} /\ r.set ++ NewAd \in AdRows
          /\ (r.set ++ NewAd).sent = 0 /\ \A row \in AdRows : r.set ++ row \in AdRows
    BY AdWorldsAssumption, AdWritten DEF ReqInv
  <2>2. CASE r.op = "adCreate"
    BY <2>1, <2>2
  <2>3. CASE r.op = "adUpdate" /\ ads[r.ad] # NoRow
    <3>1. ads[r.ad] \in AdRows
      BY <1>0, <1>2, <2>3 DEF AdTyped
    <3>2. r.set ++ ads[r.ad] \in AdRows
      BY <2>1, <2>3, <3>1
    <3> QED BY <2>3, <3>2
  <2>4. CASE r.op = "adRemove" \/ (r.op = "adUpdate" /\ ads[r.ad] = NoRow)
    BY <2>4
  <2> QED BY <1>0, <2>2, <2>3, <2>4 DEF AdOps
<1> HIDE DEF new
<1>3. ads' \in [Ads -> AdRows \cup {NoRow}]
  BY <1>0, <1>1, <1>2 DEF AdTyped
<1>4. TasksOver' /\ BulkOnly' /\ AdTyped'
  BY <1>0, <1>3, TasksKept, BulkKept DEF AdTyped, AdOps
<1>5. world.serial => DOMAIN notices = {}
  BY <1>0 DEF Rested, NoticesOver
<1>6. ListsCurrent'
  BY <1>0, <1>5 DEF ListsCurrent
<1>7. LimitHolds'
  <2> SUFFICES ASSUME Limited PROVE LimitHolds'
    BY DEF LimitHolds, Limited, Bulk
  <2>1. DOMAIN notices = {} /\ r.op # "adUpdate"
    BY <1>5 DEF Limited
  <2>2. ASSUME NEW a \in Ads, ads'[a] # NoRow PROVE ads'[a].sent <= ads'[a].max
    <3>1. CASE a = r.ad
      <4>1. ads'[a] = new /\ new \in AdRows /\ new.sent = 0
        BY <1>0, <1>1, <1>2, <2>1, <2>2, <3>1 DEF AdTyped
      <4>2. new.max \in Nat
        BY <4>1 DEF AdRows
      <4> QED BY <4>1, <4>2
    <3>2. CASE a # r.ad
      BY <1>0, <1>1, <2>2, <3>2 DEF LimitHolds, AdTyped
    <3> QED BY <3>1, <3>2
  <2> QED BY <2>1, <2>2 DEF LimitHolds
<1> QED BY <1>4, <1>6, <1>7 DEF AdInv

LEMMA ForgetAds ==
  ASSUME ReqInv, AdInv, NEW r \in world.calls, Rested(r), ForgetList(r), UNCHANGED <<world, notices>>
  PROVE  AdInv'
<1>0. /\ AdTyped /\ TasksOver /\ BulkOnly /\ ListsCurrent /\ LimitHolds
      /\ Moves(r) /\ r.op \in AdOps /\ pc[r] = "forget" /\ pc'[r] = "done" /\ UNCHANGED ads
      /\ world.faulty \/ listed' = NoRow
  BY AtMoves DEF AdInv, ForgetList, AdOps, End, Forget
<1>1. TasksOver' /\ BulkOnly' /\ AdTyped'
  BY <1>0, TasksKept, BulkKept DEF AdTyped, AdOps
<1>2. world.serial => DOMAIN notices = {}
  BY <1>0 DEF TasksOver, NoticesOver, AdOps, Idle
<1>3. ListsCurrent'
  BY <1>0, <1>2 DEF ListsCurrent
<1>4. LimitHolds'
  BY <1>0 DEF LimitHolds, Limited, Bulk
<1> QED BY <1>1, <1>3, <1>4 DEF AdInv

\* An advertisement sent by hand is counted when its task is over.
LEMMA ManualAds ==
  ASSUME ReqInv, AdInv, NEW r \in world.calls, Rested(r), FindAd(r) \/ CountManual(r),
         UNCHANGED world
  PROVE  AdInv'
<1>0. AdTyped /\ TasksOver /\ BulkOnly /\ ListsCurrent /\ Moves(r) /\ r.op = "advertise"
  BY ManualMoves DEF AdInv
<1>1. CASE FindAd(r)
  <2> DEFINE new == [stage |-> "send", ad |-> NoRow, found |-> NoRow, count |-> NoRow,
                     left |-> Sendings(r.user, PackageFor(r.user), {})]
             key == <<r, r.user>>
  <2>1. Fresh(new)
    BY DEF Fresh, NoticeFields
  <2>2. /\ UNCHANGED <<ads, listed>>
        /\ notices' = [t \in {key} |-> new] ++ notices \/ UNCHANGED notices
    BY <1>1 DEF FindAd, adVars
  <2> HIDE DEF new, key
  <2>3. \A t \in DOMAIN notices' : \/ t \in DOMAIN notices /\ notices'[t] = notices[t]
                                   \/ Fresh(notices'[t])
    BY <2>1, <2>2 DEF ++
  <2> QED BY <1>0, <2>2, <2>3, AdBegin
<1>2. CASE CountManual(r)
  <2>1. Counting(r.ad) /\ UNCHANGED <<listed, notices>>
    BY <1>2 DEF CountManual, Counting, noticeVars
  <2>2. Steady /\ ads' \in [Ads -> AdRows \cup {NoRow}]
    BY <1>0, <2>1, AdsSteady
  <2>3. TasksOver' /\ BulkOnly' /\ AdTyped'
    BY <1>0, <2>1, <2>2, TasksKept, BulkKept DEF AdTyped
  <2>4. \A q \in world.calls : q.op \in AdOps => pc'[q] = pc[q]
    BY <1>0 DEF Moves, AdOps
  <2>5. ListsCurrent'
    <3>1. ASSUME NEW list, Current(list) PROVE Current(list)'
      BY <2>2, <3>1, CurrentKept
    <3>2. Current(listed) => Current(listed)'
      <4>1. PICK list : list = listed
        OBVIOUS
      <4>2. Current(list) => Current(list)'
        BY <3>1
      <4> QED BY <2>1, <4>1, <4>2 DEF Current
    <3>3. ASSUME NEW t \in DOMAIN notices, Current(notices[t].found)
          PROVE  Current(notices[t].found)'
      <4>1. PICK list : list = notices[t].found
        OBVIOUS
      <4>2. Current(list)'
        BY <3>1, <3>3, <4>1
      <4> QED BY <2>1, <4>1, <4>2 DEF Current
    <3> QED BY <1>0, <2>1, <2>4, <3>2, <3>3 DEF ListsCurrent
  <2>6. LimitHolds'
    BY <1>0 DEF LimitHolds, Limited
  <2> QED BY <2>3, <2>5, <2>6 DEF AdInv
<1> QED BY <1>1, <1>2

\* A mark begins the tasks that tell of it when its call ends.
LEMMA MarkAds ==
  ASSUME ReqInv, AdInv, NEW r \in world.calls, Rested(r), MarkStep(r), UNCHANGED world
  PROVE  AdInv'
<1>0. Moves(r) /\ r.op = "mark" /\ BulkOnly
  BY MarkMoves DEF AdInv
<1>1. CASE FindByRfid(r) \/ ValidateEnrolment(r) \/ FindByCard(r)
  <2>1. UNCHANGED <<ads, listed, notices>> /\ pc'[r] \notin {"batch", "again"}
    <3>1. CASE FindByRfid(r)
      BY <3>1, AtMoves DEF FindByRfid, End, adVars, noticeVars
    <3>2. CASE ValidateEnrolment(r)
      <4>1. UNCHANGED <<ads, listed, notices>> /\ (End(r) \/ GoOn(r, "student", r.users))
        BY <3>2 DEF ValidateEnrolment, adVars, noticeVars
      <4> QED BY <4>1 DEF End, GoOn, ReqInv
    <3>3. CASE FindByCard(r)
      <4>1. UNCHANGED <<ads, listed, notices>> /\ (End(r) \/ \E u : GoOn(r, "student", <<u>>))
        BY <3>3 DEF FindByCard, adVars, noticeVars
      <4> QED BY <4>1 DEF End, GoOn, ReqInv
    <3> QED BY <1>1, <3>1, <3>2, <3>3
  <2> QED BY <1>0, <2>1, AdOthers DEF AdOps
<1>2. CASE FindStudents(r)
  <2>1. /\ UNCHANGED <<ads, listed, notices>>
        /\ pc'[r] \in {"batch", "again"} => r.way \in {"bulk", "bulkRfid"}
    BY <1>2, AtMoves DEF FindStudents, End, adVars, noticeVars
  <2> QED BY <1>0, <2>1, AdOthers DEF AdOps, Bulk
<1>3. CASE WriteBatch(r) \/ MarkAgain(r)
  <2>1. UNCHANGED <<ads, listed, notices>> /\ pc[r] \in {"batch", "again"}
    BY <1>3 DEF WriteBatch, MarkAgain, At, adVars, noticeVars
  <2> QED BY <1>0, <2>1, AdOthers DEF AdOps, BulkOnly
<1>4. CASE Mark(r) \/ AnswerBulk(r)
  <2>1. /\ UNCHANGED <<ads, listed>> /\ pc[r] \in {"put", "again"} /\ pc'[r] = "done"
        /\ \/ UNCHANGED notices
           \/ \E S : /\ notices' = Scheduled(r, S)
                     /\ Bulk(r) \/ \E u : S = {u}
    <3>1. CASE Mark(r)
      <4>1. UNCHANGED <<ads, listed>> /\ pc[r] = "put" /\ pc'[r] = "done"
        BY <3>1, AtMoves DEF Mark, End, adVars
      <4>2. UNCHANGED notices \/ \E u : notices' = Scheduled(r, {u})
        BY <3>1 DEF Mark
      <4> QED BY <4>1, <4>2
    <3>2. CASE AnswerBulk(r)
      <4>1. UNCHANGED <<ads, listed>> /\ pc[r] = "again" /\ pc'[r] = "done"
        BY <3>2, AtMoves DEF AnswerBulk, End, adVars
      <4>2. Bulk(r)
        BY <1>0, <4>1 DEF BulkOnly
      <4> QED BY <3>2, <4>1, <4>2 DEF AnswerBulk
    <3> QED BY <1>4, <3>1, <3>2
  <2>2. CASE UNCHANGED notices
    BY <1>0, <2>1, <2>2, AdOthers DEF AdOps
  <2>3. ASSUME NEW S, notices' = Scheduled(r, S), Bulk(r) \/ \E u : S = {u} PROVE AdInv'
    <3>1. \A t \in DOMAIN notices' : \/ t \in DOMAIN notices /\ notices'[t] = notices[t]
                                     \/ (\E u \in S : t = <<r, u>>) /\ Fresh(notices'[t])
      BY <2>3, ScheduledFresh
    <3>2. Bulk(r) \/ \E x : DOMAIN notices' \subseteq {x} \cup DOMAIN notices
      BY <2>3, <3>1
    <3> QED BY <1>0, <2>1, <3>1, <3>2, AdBegin DEF Idle
  <2> QED BY <2>1, <2>2, <2>3
<1> QED BY <1>1, <1>2, <1>3, <1>4 DEF MarkStep

\* Every step keeps what is known of advertisements.
LEMMA NextAds ==
  ASSUME ReqInv, AdInv, [ServicesNext]_serviceVars
  PROVE  AdInv'
<1>0. UNCHANGED world
  BY StepKinds
<1>1. ASSUME NEW r \in world.calls, CallStep(r) PROVE AdInv'
  <2>1. CASE AdStep(r)
    <3>1. CASE r.op \in AdOps /\ UNCHANGED noticeVars
      BY <1>0, <1>1, <2>1, <3>1, WriteAds, ForgetAds DEF CallStep, AdStep, noticeVars
    <3> QED BY <1>1, <2>1, <3>1 DEF CallStep, AdStep, WriteAd, ForgetList, At, MemberOps, AdOps,
                                    RideOps, DecideOps, UploadOps
  <2>2. CASE FindAd(r) \/ CountManual(r)
    BY <1>0, <1>1, <2>2, ManualAds DEF CallStep
  <2>3. CASE MarkStep(r)
    BY <1>0, <1>1, <2>3, MarkAds DEF CallStep
  <2>4. CASE /\ r.op \in MemberOps \cup RideOps \cup UploadOps
             /\ UNCHANGED <<adVars, noticeVars>>
    BY <1>0, <1>1, <2>4, AdOthers DEF CallStep, MemberOps, RideOps, DecideOps, UploadOps, AdOps,
                                      adVars, noticeVars
  <2> QED BY <1>1, <2>1, <2>2, <2>3, <2>4 DEF CallStep
<1>2. CASE TaskStep
  <2>1. ASSUME NEW t \in DOMAIN notices, NoticeStep(t) PROVE AdInv'
    BY <1>0, <1>2, <2>1, NoticeEffect, AdTask DEF TaskStep, requestVars, AdInv
  <2>2. ASSUME UNCHANGED <<ads, notices>>, listed' \in {listed, NoRow} PROVE AdInv'
    <3>1. UNCHANGED pc
      BY <1>2 DEF TaskStep, requestVars
    <3>2. AdTyped' /\ TasksOver' /\ BulkOnly' /\ LimitHolds'
      BY <1>0, <2>2, <3>1 DEF AdInv, AdTyped, TasksOver, NoticesOver, BulkOnly, Bulk, LimitHolds,
                              Limited
    <3>3. ListsCurrent'
      BY <1>0, <2>2, <3>1 DEF AdInv, ListsCurrent, Current, Same
    <3> QED BY <3>2, <3>3 DEF AdInv
  <2> QED BY <1>2, <2>1, <2>2 DEF TaskStep, ListExpires, adVars, noticeVars
<1> QED BY <1>1, <1>2, StepKinds

LEMMA InitAds == ServicesInit => AdInv
<1> SUFFICES ASSUME ServicesInit PROVE AdInv
  OBVIOUS
<1>1. /\ world \in Worlds /\ ads = world.at.ads /\ listed = NoRow /\ DOMAIN notices = {}
      /\ \A q \in world.calls : pc[q] = "start"
  BY DEF ServicesInit, AdsInit, NoticesInit, RequestInit
<1>2. AdTyped /\ TasksOver /\ BulkOnly /\ ListsCurrent
  BY <1>1, AdWorldsAssumption DEF AdTyped, TasksOver, Idle, BulkOnly, ListsCurrent
<1>3. LimitHolds
  BY <1>1 DEF LimitHolds, Limited
<1> QED BY <1>2, <1>3 DEF AdInv

-----------------------------------------------------------------------------
(* The choice of an advertisement                                          *)

\* What an aspect counts for at most, and what a missed one costs.
LEMMA PointsBounded ==
  ASSUME NEW aim \in {"any", "hit", "miss"}
  PROVE  /\ PointsFor("type", aim) \in {30, -20} /\ PointsFor("plan", aim) \in {25, -15}
         /\ PointsFor("institute", aim) \in {0, 15, -10} /\ PointsFor("age", aim) \in {15, -10}
         /\ PointsFor("gender", aim) \in {10, -5} /\ PointsFor("job", aim) \in {8, 0}
         /\ aim = "miss" => /\ PointsFor("type", aim) = -20 /\ PointsFor("plan", aim) = -15
                            /\ PointsFor("age", aim) = -10
         /\ aim = "any" => /\ PointsFor("type", aim) = 30 /\ PointsFor("plan", aim) = 25
                           /\ PointsFor("institute", aim) = 0 /\ PointsFor("age", aim) = 15
                           /\ PointsFor("gender", aim) = 10 /\ PointsFor("job", aim) = 8
<1>1. CASE aim = "any"
  BY <1>1 DEF PointsFor, Points
<1>2. CASE aim = "hit"
  BY <1>2 DEF PointsFor, Points
<1>3. CASE aim = "miss"
  BY <1>3 DEF PointsFor, Points
<1> QED BY <1>1, <1>2, <1>3

\* One for everybody is worth 99 points; one that misses the user's type, plan or
\* age 96 at most, with every bonus.
LEMMA EverybodyIsFirst == EverybodyFirst
<1> SUFFICES ASSUME NEW aims \in Aims, NEW missed \in {"type", "plan", "age"}, aims[missed] = "miss"
             PROVE  Score([a \in Aspects |-> "any"], 1) > Score(aims, 8)
  BY DEF EverybodyFirst
<1> DEFINE any == [a \in Aspects |-> "any"]
           points(a) == PointsFor(a, aims[a])
<1>1. \A a \in Aspects : any[a] = "any" /\ aims[a] \in {"any", "hit", "miss"}
  BY DEF Aims
<1>2. /\ "type" \in Aspects /\ "plan" \in Aspects /\ "institute" \in Aspects
      /\ "age" \in Aspects /\ "gender" \in Aspects /\ "job" \in Aspects
  BY DEF Aspects
<1> HIDE DEF any
<1>3. Score(any, 1) = 99
  <2>1. /\ PointsFor("type", "any") = 30 /\ PointsFor("plan", "any") = 25
        /\ PointsFor("institute", "any") = 0 /\ PointsFor("age", "any") = 15
        /\ PointsFor("gender", "any") = 10 /\ PointsFor("job", "any") = 8
    BY PointsBounded
  <2> QED BY <1>1, <1>2, <2>1 DEF Score
<1>4. /\ points("type") \in {30, -20} /\ points("plan") \in {25, -15}
      /\ points("institute") \in {0, 15, -10} /\ points("age") \in {15, -10}
      /\ points("gender") \in {10, -5} /\ points("job") \in {8, 0}
  BY <1>1, <1>2, PointsBounded
<1>5. points("type") = -20 \/ points("plan") = -15 \/ points("age") = -10
  BY PointsBounded
<1>6. Score(aims, 8) = LET total == 10 + points("type") + points("plan") + points("institute")
                                      + points("age") + points("gender") + points("job") + 8
                       IN  IF total < 0 THEN 0 ELSE total
  BY DEF Score
<1> HIDE DEF points
<1>7. Score(aims, 8) < 99
  BY <1>4, <1>5, <1>6
<1> QED BY <1>3, <1>7 DEF any

\* What is kept of advertisements, lists and limits.
LEMMA AdsHeld == ReqInv /\ AdInv => AdsChosen
<1> SUFFICES ASSUME ReqInv, AdInv PROVE AdsChosen
  OBVIOUS
<1>1. LimitKept
  <2>1. LimitHolds
    BY DEF AdInv
  <2> QED BY <2>1 DEF LimitKept, LimitHolds, Limited, Bulk
<1>2. ListIsCurrent
  <2> SUFFICES ASSUME world.serial, ~world.faulty, Quiet, listed # NoRow, NEW a \in DOMAIN listed
               PROVE  ads[a] # NoRow /\ [ads[a] EXCEPT !.sent = listed[a].sent] = listed[a]
    BY DEF ListIsCurrent
  <2>1. a \in Ads /\ ads[a] # NoRow /\ Same(listed[a], ads[a])
    BY DEF AdInv, ListsCurrent, Current, Quiet
  <2> QED BY <2>1 DEF Same, AdRows
<1> QED BY <1>1, <1>2, EverybodyIsFirst DEF AdsChosen

-----------------------------------------------------------------------------
(* Lists of students                                                       *)

\* A list of anything is a list of its own elements.
LEMMA OwnElements ==
  ASSUME NEW S, NEW s \in Seq(S)
  PROVE  s \in Seq(Range(s)) /\ \A u \in Range(s) : \E i \in 1 .. Len(s) : u = s[i]
<1>1. DOMAIN s = 1 .. Len(s) /\ Len(s) \in Nat /\ s \in [1 .. Len(s) -> S]
  BY LenProperties
<1>2. s \in [1 .. Len(s) -> Range(s)]
  BY <1>1 DEF Range
<1> QED BY <1>1, <1>2, SeqDef DEF Range

LEMMA RangePart ==
  ASSUME NEW s, s \in Seq(Range(s)), NEW m \in Nat \ {0}, NEW n \in Nat, n <= Len(s)
  PROVE  /\ Range(SubSeq(s, m, n)) \subseteq Range(s)
         /\ SubSeq(s, m, n) \in Seq(Range(SubSeq(s, m, n)))
<1>1. DOMAIN s = 1 .. Len(s) /\ Len(s) \in Nat
  BY LenProperties
<1>2. \A i \in m .. n : s[i] \in Range(s)
  BY <1>1 DEF Range
<1>3. SubSeq(s, m, n) \in Seq(Range(s))
  BY <1>2, SubSeqProperties
<1>4. \A u \in Range(SubSeq(s, m, n)) : u \in Range(s)
  <2> DEFINE part == SubSeq(s, m, n)
  <2>1. DOMAIN part = 1 .. Len(part) /\ part \in [1 .. Len(part) -> Range(s)]
    BY <1>3, LenProperties
  <2> HIDE DEF part
  <2>2. \A u \in Range(part) : u \in Range(s)
    BY <2>1 DEF Range
  <2> QED BY <2>2 DEF part
<1> QED BY <1>3, <1>4, OwnElements

LEMMA RangeTail ==
  ASSUME NEW s, s \in Seq(Range(s)), s # <<>>
  PROVE  /\ Head(s) \in Range(s) /\ s[1] \in Range(s)
         /\ Range(Tail(s)) \subseteq Range(s) /\ Tail(s) \in Seq(Range(Tail(s)))
<1>1. Len(s) \in Nat \ {0}
  BY EmptySeq
<1>2. Head(s) \in Range(s)
  BY HeadTailProperties
<1>3. s[1] \in Range(s)
  BY <1>1, ElementOfSeq
<1>4. Tail(s) = SubSeq(s, 2, Len(s))
  BY TailIsSubSeq
<1>5. /\ Range(SubSeq(s, 2, Len(s))) \subseteq Range(s)
      /\ SubSeq(s, 2, Len(s)) \in Seq(Range(SubSeq(s, 2, Len(s))))
  BY <1>1, RangePart
<1> QED BY <1>2, <1>3, <1>4, <1>5

LEMMA RangeAppend ==
  ASSUME NEW s, s \in Seq(Range(s)), NEW u
  PROVE  /\ Range(Append(s, u)) = Range(s) \cup {u}
         /\ Append(s, u) \in Seq(Range(Append(s, u)))
<1>1. s \in Seq(Range(s) \cup {u})
  BY SeqMonotonic
<1>2. Append(s, u) \in Seq(Range(s) \cup {u})
  BY <1>1
<1>3. Range(Append(s, u)) = Range(s) \cup {u}
  <2>1. DOMAIN s = 1 .. Len(s) /\ Len(s) \in Nat
    BY LenProperties
  <2>2. /\ DOMAIN Append(s, u) = 1 .. Len(s) + 1
        /\ \A i \in 1 .. Len(s) : Append(s, u)[i] = s[i]
        /\ Append(s, u)[Len(s) + 1] = u
    BY <1>1, <2>1
  <2>3. \A i \in 1 .. Len(s) + 1 : i \in 1 .. Len(s) \/ i = Len(s) + 1
    BY <2>1
  <2> DEFINE more == Append(s, u)
  <2> HIDE DEF more
  <2>4. Range(more) = Range(s) \cup {u}
    BY <2>1, <2>2, <2>3 DEF Range, more
  <2> QED BY <2>4 DEF more
<1> QED BY <1>2, <1>3, OwnElements

\* A set of as many of its elements as the list is long is all of them.
LEMMA RangeWhole ==
  ASSUME NEW s, s \in Seq(Range(s)), NEW S \in SUBSET Range(s), Cardinality(S) = Len(s)
  PROVE  S = Range(s)
<1>1. DOMAIN s = 1 .. Len(s) /\ Len(s) \in Nat /\ s \in [1 .. Len(s) -> Range(s)]
  BY LenProperties
<1>2. s \in Surjection(1 .. Len(s), Range(s))
  BY <1>1 DEF Surjection, Range
<1>3. ExistsSurjection(1 .. Len(s), Range(s))
  BY <1>2 DEF ExistsSurjection
<1>4. IsFiniteSet(Range(s)) /\ Cardinality(Range(s)) <= Len(s)
  BY <1>1, <1>3, FS_SurjCardinalityBound, FS_NatSurjection
<1>5. /\ Cardinality(S) <= Cardinality(Range(s))
      /\ Cardinality(Range(s)) = Cardinality(S) => Range(s) = S
      /\ Cardinality(Range(s)) \in Nat
  BY <1>4, FS_Subset, FS_CardinalityType
<1> QED BY <1>1, <1>4, <1>5


-----------------------------------------------------------------------------
(* Marks                                                                   *)

Marked(r, u) == \E m \in marks : m.by = r /\ m.user = u

Listed(s) == s \in Seq(Range(s))

\* What a call that marks remembers: students to write; then those written, who
\* have a record if no batch is written in part, and those to write again.
MarkHeld(r) ==
  /\ pc[r] = "validate" => r.way \in {"rfid", "bulkRfid"}
  /\ pc[r] \in {"student", "put", "batch"} => Listed(held[r]) /\ (held[r] # <<>> \/ Bulk(r))
  /\ pc[r] = "put" => ~Bulk(r)
  /\ pc[r] = "again" => /\ Listed(held[r][1]) /\ Listed(held[r][2])
                        /\ ~world.partial => \A u \in Range(held[r][1]) : Marked(r, u)

\* A task that tells of a mark was begun for one that is stored.
MarkInv ==
  /\ \A r \in world.calls : r.op = "mark" => MarkHeld(r)
  /\ \A m \in marks : m.status = m.by.status
  /\ ~world.partial => /\ \A p \in reported : Marked(p[1], p[2])
                       /\ \A t \in DOMAIN notices : t[1].op = "mark" => Marked(t[1], t[2])
  /\ ToldIsMarked

\* Records are only added: what another call remembers stays true.
LEMMA MarkKept ==
  ASSUME ReqInv, MarkInv, NEW r \in world.calls, Moves(r), UNCHANGED <<world, told>>,
         marks \subseteq marks', \A m \in marks' \ marks : m.status = m.by.status,
         r.op = "mark" => MarkHeld(r)',
         ~world.partial => \A p \in reported' \ reported : Marked(p[1], p[2])',
         ~world.partial => \A t \in DOMAIN notices' \ DOMAIN notices :
                             t[1].op = "mark" => Marked(t[1], t[2])'
  PROVE  MarkInv'
<1>1. \A q, u : Marked(q, u) => Marked(q, u)'
  BY DEF Marked
<1>2. ASSUME NEW q \in world.calls, q # r, q.op = "mark" PROVE MarkHeld(q)'
  <2>1. pc'[q] = pc[q] /\ held'[q] = held[q] /\ MarkHeld(q)
    BY <1>2 DEF Moves, MarkInv
  <2> QED BY <1>1, <2>1 DEF MarkHeld, Bulk
<1>3. \A q \in world.calls : q.op = "mark" => MarkHeld(q)'
  BY <1>2
<1>4. ToldIsMarked'
  BY DEF MarkInv, ToldIsMarked
<1>5. ASSUME ~world.partial
      PROVE  /\ \A p \in reported' : Marked(p[1], p[2])'
             /\ \A t \in DOMAIN notices' : t[1].op = "mark" => Marked(t[1], t[2])'
  BY <1>1, <1>5 DEF MarkInv
<1>6. \A m \in marks' : m.status = m.by.status
  BY DEF MarkInv
<1> QED BY <1>3, <1>4, <1>5, <1>6 DEF MarkInv

\* The students are found out.
LEMMA FindMarks ==
  ASSUME ReqInv, MarkInv, NEW r \in world.calls, UNCHANGED world,
         FindByRfid(r) \/ ValidateEnrolment(r) \/ FindByCard(r) \/ FindStudents(r)
  PROVE  MarkInv'
<1>0. /\ Moves(r) /\ r.op = "mark" /\ MarkHeld(r)
      /\ UNCHANGED <<told, notices, marks, reported>>
  BY MarkMoves DEF MarkStep, MarkInv, FindByRfid, ValidateEnrolment, FindByCard, FindStudents,
                   noticeVars, markVars
<1>1. r.users \in Seq(Range(r.users)) /\ (r.way \in {"id", "rfid"} => r.users # <<>>)
  BY <1>0, MarkWorldsAssumption DEF ReqInv
<1>2. MarkHeld(r)'
  <2>1. CASE pc'[r] = "done"
    BY <2>1 DEF MarkHeld
  <2>2. CASE FindByRfid(r) /\ pc'[r] # "done"
    <3>1. pc'[r] = "validate" /\ r.way \in {"rfid", "bulkRfid"}
      BY <2>2, AtMoves DEF FindByRfid, End
    <3> QED BY <3>1 DEF MarkHeld
  <2>3. CASE ValidateEnrolment(r) /\ pc'[r] # "done"
    <3>1. GoOn(r, "student", r.users)
      BY <1>0, <2>3 DEF ValidateEnrolment, End, GoOn, ReqInv
    <3>2. pc'[r] = "student" /\ held'[r] = r.users
      BY <3>1 DEF GoOn, ReqInv
    <3>3. r.way \in {"id", "rfid", "bulk", "bulkRfid"}
      BY <1>0, <2>3 DEF ValidateEnrolment, At, MarkHeld
    <3> QED BY <1>0, <1>1, <3>2, <3>3 DEF MarkHeld, Bulk, Listed
  <2>4. CASE FindByCard(r) /\ pc'[r] # "done"
    <3>1. PICK u : GoOn(r, "student", <<u>>)
      BY <1>0, <2>4 DEF FindByCard, End, GoOn, ReqInv
    <3>2. pc'[r] = "student" /\ held'[r] = <<u>>
      BY <3>1 DEF GoOn, ReqInv
    <3>3. <<u>> \in Seq({u}) /\ <<u>> # <<>>
      OBVIOUS
    <3>4. Listed(<<u>>)
      BY <3>3, OwnElements DEF Listed
    <3> QED BY <3>2, <3>3, <3>4 DEF MarkHeld, Listed
  <2>5. CASE FindStudents(r) /\ pc'[r] # "done"
    <3>1. /\ pc[r] = "student" /\ held'[r] = held[r]
          /\ pc'[r] = IF r.way \in {"bulk", "bulkRfid"} THEN "batch" ELSE "put"
      BY <1>0, <2>5 DEF FindStudents, At, End, GoOn, ReqInv
    <3> QED BY <1>0, <3>1 DEF MarkHeld, Bulk, Listed
  <2> QED BY <2>1, <2>2, <2>3, <2>4, <2>5
<1> QED BY <1>0, <1>2, MarkKept

\* Tasks are begun for students who are given.
LEMMA ScheduledOnly ==
  ASSUME NEW r, NEW S, notices' = Scheduled(r, S)
  PROVE  \A t \in DOMAIN notices' \ DOMAIN notices : \E u \in S : t = <<r, u>>
BY ScheduledFresh

\* What a write does to the records, and when it is answered.
LEMMA RecordPut ==
  ASSUME NEW r, NEW u, NEW n, NEW isStored, Put(r, u, n, isStored)
  PROVE  /\ marks \subseteq marks' /\ \A m \in marks' \ marks : m.status = m.by.status
         /\ isStored => Marked(r, u)'
<1> PICK record : record = Record(r, u, n)
  OBVIOUS
<1>1. record.by = r /\ record.user = u /\ record.status = r.status
  BY DEF Record
<1>2. marks' = IF isStored THEN marks \cup {record} ELSE marks
  BY DEF Put
<1> QED BY <1>1, <1>2 DEF Marked

LEMMA AnswerStored == ASSUME NEW w \in Written PROVE w[2] => w[1]
<1>1. \/ w = <<TRUE, TRUE>> \/ w = <<FALSE, FALSE>> \/ w = <<TRUE, FALSE>>
  BY DEF Written
<1>2. CASE w = <<TRUE, TRUE>>
  BY <1>2
<1>3. CASE w = <<FALSE, FALSE>>
  BY <1>3
<1>4. CASE w = <<TRUE, FALSE>>
  BY <1>4
<1> QED BY <1>1, <1>2, <1>3, <1>4

\* A mark of one student, who is answered and told of only if it is stored.
LEMMA MarkOne ==
  ASSUME ReqInv, MarkInv, NEW r \in world.calls, UNCHANGED world, Mark(r)
  PROVE  MarkInv'
<1>0. Moves(r) /\ r.op = "mark" /\ pc'[r] = "done" /\ UNCHANGED told
  <2>1. End(r) /\ At(r, "mark", "put") /\ UNCHANGED told
    BY DEF Mark
  <2> QED BY <2>1, AtMoves DEF End
<1>1. MarkHeld(r)'
  BY <1>0 DEF MarkHeld
<1> PICK u : u = held[r][1]
  OBVIOUS
<1>2. PICK w \in Written : /\ Put(r, u, 1, w[1])
                           /\ IF w[2] THEN /\ reported' = reported \cup {<<r, u>>}
                                           /\ notices' = Scheduled(r, {u})
                              ELSE UNCHANGED <<reported, notices>>
  BY DEF Mark
<1>3. w[2] => w[1]
  BY AnswerStored
<1>4. /\ marks \subseteq marks'
      /\ \A m \in marks' \ marks : m.status = m.by.status
      /\ w[1] => Marked(r, u)'
  BY <1>2, RecordPut
<1>5. CASE w[2]
  <2>1. /\ \A p \in reported' \ reported : p = <<r, u>>
        /\ \A t \in DOMAIN notices' \ DOMAIN notices : t = <<r, u>>
    BY <1>2, <1>5, ScheduledOnly
  <2> QED BY <1>0, <1>1, <1>3, <1>4, <1>5, <2>1, MarkKept
<1>6. CASE ~w[2]
  BY <1>0, <1>1, <1>2, <1>4, <1>6, MarkKept
<1> QED BY <1>5, <1>6

\* A batch: written as a whole, or not at all and then written again.
LEMMA MarkBatch ==
  ASSUME ReqInv, MarkInv, NEW r \in world.calls, UNCHANGED world, WriteBatch(r)
  PROVE  MarkInv'
<1> PICK list : list = held[r]
  OBVIOUS
<1>0. Moves(r) /\ r.op = "mark" /\ pc[r] = "batch" /\ UNCHANGED <<told, notices, reported>>
  BY MarkMoves DEF MarkStep, WriteBatch, At, noticeVars
<1>1. list \in Seq(Range(list)) /\ Len(list) \in Nat
  BY <1>0 DEF MarkInv, MarkHeld, Listed
<1>2. PICK stored \in SUBSET Range(list), left \in 0 .. Len(list) :
        /\ \/ Cardinality(stored) = Len(list) - left /\ (left > 0 => world.partial)
           \/ world.faulty /\ left = Len(list) /\ stored \in {{}, Range(list)}
        /\ marks' = marks \cup {Record(r, u, 1) : u \in stored}
        /\ GoOn(r, "again", AfterBatch(list, left))
  BY DEF WriteBatch
<1> DEFINE done == Len(list) - left
           first == SubSeq(list, 1, done)
           second == SubSeq(list, done + 1, Len(list))
<1>3. done \in Nat /\ done <= Len(list) /\ done + 1 \in Nat \ {0}
  BY <1>1, <1>2
<1>4. /\ Listed(first) /\ Range(first) \subseteq Range(list) /\ Listed(second)
  <2>1. /\ Range(SubSeq(list, 1, done)) \subseteq Range(list)
        /\ SubSeq(list, 1, done) \in Seq(Range(SubSeq(list, 1, done)))
    <3> HIDE DEF done
    <3> QED BY <1>1, <1>3, RangePart
  <2>2. SubSeq(list, done + 1, Len(list)) \in Seq(Range(SubSeq(list, done + 1, Len(list))))
    <3> DEFINE next == done + 1
    <3>1. next \in Nat \ {0}
      BY <1>3
    <3> HIDE DEF next
    <3>2. SubSeq(list, next, Len(list)) \in Seq(Range(SubSeq(list, next, Len(list))))
      BY <1>1, <3>1, RangePart
    <3> QED BY <3>2 DEF next
  <2> QED BY <2>1, <2>2 DEF Listed
<1>5. pc'[r] = "again" /\ held'[r][1] = first /\ held'[r][2] = second
  <2>1. pc'[r] = "again" /\ held'[r] = AfterBatch(list, left)
    BY <1>2 DEF GoOn, ReqInv
  <2> QED BY <2>1 DEF AfterBatch
<1>6. \A u \in stored : Marked(r, u)'
  <2>1. ASSUME NEW u \in stored PROVE Marked(r, u)'
    <3> PICK record : record = Record(r, u, 1)
      OBVIOUS
    <3>1. record \in marks' /\ record.by = r /\ record.user = u
      BY <1>2, <2>1 DEF Record
    <3> QED BY <3>1 DEF Marked
  <2> QED BY <2>1
<1>7. ~world.partial => Range(first) \subseteq stored
  <2>1. CASE Cardinality(stored) = Len(list) - left /\ (left > 0 => world.partial)
    <3>1. ~world.partial => Cardinality(stored) = Len(list)
      BY <1>1, <1>2, <2>1
    <3>2. ~world.partial => stored = Range(list)
      BY <1>1, <1>2, <3>1, RangeWhole
    <3> QED BY <1>4, <3>2
  <2>2. CASE left = Len(list)
    <3>1. done = 0
      BY <1>1, <2>2
    <3>2. Len(first) = 0
      BY <1>1, <3>1, SubSeqProperties
    <3>3. Range(first) = {}
      <4> HIDE DEF first
      <4>1. first \in Seq(Range(first)) /\ 1 .. Len(first) = {}
        BY <1>4, <3>2 DEF Listed
      <4>2. \A u \in Range(first) : \E i \in 1 .. Len(first) : u = first[i]
        BY <4>1, OwnElements
      <4> QED BY <4>1, <4>2
    <3> QED BY <3>3
  <2> QED BY <1>2, <2>1, <2>2
<1> HIDE DEF first, second
<1>8. MarkHeld(r)'
  BY <1>4, <1>5, <1>6, <1>7 DEF MarkHeld
<1>9. /\ marks \subseteq marks'
      /\ \A m \in marks' \ marks : m.status = m.by.status
  BY <1>2 DEF Record
<1> QED BY <1>0, <1>8, <1>9, MarkKept

\* One that failed is written again, and joins the others if it is stored.
LEMMA MarkRetry ==
  ASSUME ReqInv, MarkInv, NEW r \in world.calls, UNCHANGED world, MarkAgain(r)
  PROVE  MarkInv'
<1>0. /\ Moves(r) /\ r.op = "mark" /\ pc[r] = "again" /\ UNCHANGED <<told, notices, reported>>
      /\ held[r][2] # <<>>
  BY MarkMoves DEF MarkStep, MarkAgain, At, noticeVars
<1> PICK stored, again : stored = held[r][1] /\ again = held[r][2]
  OBVIOUS
<1>1. /\ Listed(stored) /\ Listed(again)
      /\ ~world.partial => \A u \in Range(stored) : Marked(r, u)
  BY <1>0 DEF MarkInv, MarkHeld
<1> PICK u : u = Head(again)
  OBVIOUS
<1>2. PICK w \in Written :
        /\ Put(r, u, 2, w[1])
        /\ GoOn(r, "again", <<IF w[2] THEN Append(stored, u) ELSE stored, Tail(again)>>)
  BY DEF MarkAgain
<1> DEFINE more == IF w[2] THEN Append(stored, u) ELSE stored
<1>3. pc'[r] = "again" /\ held'[r][1] = more /\ held'[r][2] = Tail(again)
  <2>1. pc'[r] = "again" /\ held'[r] = <<more, Tail(again)>>
    BY <1>2 DEF GoOn, ReqInv
  <2> QED BY <2>1
<1>4. /\ marks \subseteq marks'
      /\ \A m \in marks' \ marks : m.status = m.by.status
      /\ w[2] => Marked(r, u)'
  BY <1>2, RecordPut, AnswerStored
<1>5. Listed(more) /\ Range(more) \subseteq Range(stored) \cup (IF w[2] THEN {u} ELSE {})
  BY <1>1, RangeAppend DEF Listed
<1>6. Listed(Tail(again))
  BY <1>0, <1>1, RangeTail DEF Listed
<1> HIDE DEF more
<1>7. \A v : Marked(r, v) => Marked(r, v)'
  BY <1>4 DEF Marked
<1>8. ~world.partial => \A v \in Range(more) : Marked(r, v)'
  BY <1>1, <1>4, <1>5, <1>7
<1>9. MarkHeld(r)'
  BY <1>3, <1>5, <1>6, <1>8 DEF MarkHeld
<1> QED BY <1>0, <1>4, <1>9, MarkKept

\* The answer of a call for several, and their tasks.
LEMMA MarkAnswer ==
  ASSUME ReqInv, MarkInv, NEW r \in world.calls, UNCHANGED world, AnswerBulk(r)
  PROVE  MarkInv'
<1>0. /\ Moves(r) /\ r.op = "mark" /\ pc[r] = "again" /\ pc'[r] = "done"
      /\ UNCHANGED <<told, marks>>
  <2>1. End(r) /\ At(r, "mark", "again") /\ UNCHANGED <<told, marks>>
    BY DEF AnswerBulk
  <2> QED BY <2>1, AtMoves DEF End
<1> PICK named : named = Results(r)
  OBVIOUS
<1>1. ~world.partial => \A u \in named : Marked(r, u)
  BY <1>0 DEF MarkInv, MarkHeld, Results
<1>2. PICK S \in SUBSET named : notices' = Scheduled(r, S)
  BY DEF AnswerBulk
<1>3. \A t \in DOMAIN notices' \ DOMAIN notices : \E u \in named : t = <<r, u>>
  BY <1>2, ScheduledOnly
<1>4. \A p \in reported' \ reported : \E u \in named : p = <<r, u>>
  BY DEF AnswerBulk
<1>5. \A u : Marked(r, u) => Marked(r, u)'
  BY <1>0 DEF Marked
<1>6. MarkHeld(r)'
  BY <1>0 DEF MarkHeld
<1> QED BY <1>0, <1>1, <1>3, <1>4, <1>5, <1>6, MarkKept

\* A task tells of nothing but the mark it was begun for.
LEMMA ToldByTask ==
  ASSUME NEW t \in DOMAIN notices, NoticeStep(t)
  PROVE  \A d \in told' \ told : /\ d.by = t[1] /\ d.student = t[2]
                                 /\ d.says = Wording(t[1].status)
<1>1. ASSUME NEW s, Attempt(t, s), NEW d \in told' \ told
      PROVE  d.by = t[1] /\ d.student = t[2] /\ d.says = Wording(t[1].status)
  BY <1>1 DEF Attempt, Message
<1>2. \/ UNCHANGED told \/ \E s : Attempt(t, s)
  BY DEF NoticeStep, BeginNotice, ChooseListed, QueryAds, KeepList, CountSending, TellAllParents,
         EndNotice
<1> QED BY <1>1, <1>2

LEMMA MarkTask ==
  ASSUME ReqInv, AdTyped, MarkInv, NEW t \in DOMAIN notices, NoticeStep(t),
         UNCHANGED <<world, requestVars, markVars>>
  PROVE  MarkInv'
<1>1. UNCHANGED <<world, pc, held, marks, reported>>
  BY DEF requestVars, markVars
<1>2. DOMAIN notices' \subseteq DOMAIN notices
  BY NoticeEffect DEF TaskEffect
<1>3. ToldIsMarked'
  <2> SUFFICES ASSUME NEW d \in told', ~world.partial, d.by.op = "mark"
               PROVE  \E m \in marks : /\ m.by = d.by /\ m.user = d.student
                                       /\ d.says = "PRESENT" <=> m.status = "PRESENT"
    BY <1>1 DEF ToldIsMarked
  <2>1. CASE d \in told
    BY <2>1 DEF MarkInv, ToldIsMarked
  <2>2. CASE d \notin told
    <3>1. d.by = t[1] /\ d.student = t[2] /\ d.says = Wording(d.by.status)
      BY <2>2, ToldByTask
    <3>2. PICK m \in marks : m.by = d.by /\ m.user = d.student
      BY <3>1 DEF MarkInv, Marked
    <3>3. m.status = d.by.status
      BY <3>2 DEF MarkInv
    <3> QED BY <3>1, <3>2, <3>3 DEF Wording
  <2> QED BY <2>1, <2>2
<1> QED BY <1>1, <1>2, <1>3 DEF MarkInv, MarkHeld, Marked, Bulk

\* Every step keeps what is known of marks.
LEMMA NextMarks ==
  ASSUME ReqInv, AdTyped, MarkInv, [ServicesNext]_serviceVars
  PROVE  MarkInv'
<1>0. UNCHANGED world
  BY StepKinds
<1>1. ASSUME NEW r \in world.calls, CallStep(r) PROVE MarkInv'
  <2>1. CASE MarkStep(r)
    BY <1>0, <2>1, FindMarks, MarkOne, MarkBatch, MarkRetry, MarkAnswer DEF MarkStep
  <2>2. CASE (FindAd(r) \/ CountManual(r)) /\ UNCHANGED markVars
    <3>1. UNCHANGED <<told, marks, reported>> /\ r.op = "advertise" /\ Moves(r)
      BY <1>1, <2>2, ManualMoves DEF FindAd, CountManual, noticeVars, markVars, CallStep
    <3>2. \A t \in DOMAIN notices' \ DOMAIN notices : t[1] = r
      BY <2>2 DEF FindAd, CountManual, noticeVars, ++
    <3> QED BY <1>0, <3>1, <3>2, MarkKept
  <2>3. CASE r.op # "mark" /\ UNCHANGED <<noticeVars, markVars>>
    BY <1>0, <1>1, <2>3, MarkKept DEF CallStep, noticeVars, markVars
  <2> QED BY <1>1, <2>1, <2>2, <2>3 DEF CallStep, MemberOps, AdOps, RideOps, DecideOps, UploadOps,
                                        noticeVars, markVars
<1>2. CASE TaskStep
  <2>1. ASSUME NEW t \in DOMAIN notices, NoticeStep(t) PROVE MarkInv'
    BY <1>0, <1>2, <2>1, MarkTask DEF TaskStep, ListExpires, UrlExpires
  <2>2. CASE UNCHANGED <<noticeVars, markVars>>
    BY <1>0, <1>2, <2>2 DEF TaskStep, requestVars, noticeVars, markVars, MarkInv, MarkHeld, Marked,
                            Bulk, ToldIsMarked
  <2> QED BY <1>2, <2>1, <2>2 DEF TaskStep, noticeVars, markVars
<1> QED BY <1>1, <1>2, StepKinds

LEMMA InitMarks == ServicesInit => MarkInv
BY DEF ServicesInit, MarksInit, NoticesInit, RequestInit, MarkInv, MarkHeld, ToldIsMarked

LEMMA MarksHeld == MarkInv => MarksHold
BY DEF MarkInv, MarksHold, WholeIsStored, ReportedIsStored, ToldIsMarked, Marked

-----------------------------------------------------------------------------
(* Who is marked and recorded                                              *)

\* One after the other, whom a call is about to write was validated, and nobody
\* has changed since.
EnrolledHeld(r) ==
  /\ pc[r] \in {"student", "put", "batch"} => \A u \in Range(held[r]) : Enrolled(u)
  /\ pc[r] = "again" => \A u \in Range(held[r][2]) : Enrolled(u)

EnrolInv ==
  world.serial /\ world.checks
    => \A r \in world.calls : r.op = "mark" /\ r.way # "card" => EnrolledHeld(r)

\* Where another call moves, this one has not begun or has ended.
LEMMA EnrolIdle ==
  ASSUME ReqInv, EnrolInv, NEW r \in world.calls, Moves(r), UNCHANGED world,
         r.op = "mark" /\ r.way # "card" /\ world.serial /\ world.checks => EnrolledHeld(r)'
  PROVE  EnrolInv'
<1>1. ASSUME NEW q \in world.calls, q # r, world.serial PROVE EnrolledHeld(q)'
  <2>1. pc'[q] \in Idle
    BY <1>1 DEF Moves
  <2> QED BY <2>1 DEF EnrolledHeld, Idle
<1> QED BY <1>1 DEF EnrolInv

LEMMA EnrolMarks ==
  ASSUME ReqInv, MarkInv, EnrolInv, NEW r \in world.calls, MarkStep(r), UNCHANGED world
  PROVE  EnrolInv'
<1>0. Moves(r) /\ r.op = "mark" /\ MarkHeld(r)
  BY MarkMoves DEF MarkInv
<1> SUFFICES ASSUME r.way # "card", world.serial, world.checks PROVE EnrolledHeld(r)'
  BY <1>0, EnrolIdle
<1>1. EnrolledHeld(r)
  BY <1>0 DEF EnrolInv
<1>2. UNCHANGED members
  BY DEF MarkStep, FindByRfid, ValidateEnrolment, FindByCard, FindStudents, Mark, WriteBatch,
         MarkAgain, AnswerBulk, memberVars
<1>3. \A u : Enrolled(u) <=> Enrolled(u)'
  BY <1>2 DEF Enrolled, Joined
<1>4. CASE pc'[r] \in {"done", "validate"}
  BY <1>4 DEF EnrolledHeld
<1>5. CASE ValidateEnrolment(r)
  <2>1. /\ \/ End(r)
           \/ GoOn(r, "student", r.users) /\ \A u \in Range(r.users) : Enrolled(u)
    BY <1>5 DEF ValidateEnrolment
  <2>2. CASE End(r)
    BY <1>0, <1>4, <2>2 DEF End, GoOn, ReqInv
  <2>3. CASE GoOn(r, "student", r.users) /\ \A u \in Range(r.users) : Enrolled(u)
    <3>1. pc'[r] = "student" /\ held'[r] = r.users
      BY <2>3 DEF GoOn, ReqInv
    <3> QED BY <1>3, <2>3, <3>1 DEF EnrolledHeld
  <2> QED BY <2>1, <2>2, <2>3
<1>6. CASE FindStudents(r)
  <2>1. /\ pc[r] = "student"
        /\ \/ End(r) \/ \E step \in {"batch", "put"} : GoOn(r, step, held[r])
    BY <1>6 DEF FindStudents, At
  <2>2. CASE End(r)
    BY <1>0, <1>4, <2>2 DEF End, GoOn, ReqInv
  <2>3. CASE \E step \in {"batch", "put"} : GoOn(r, step, held[r])
    <3>1. pc'[r] \in {"batch", "put"} /\ held'[r] = held[r]
      BY <2>3 DEF GoOn, ReqInv
    <3> QED BY <1>1, <1>3, <2>1, <3>1 DEF EnrolledHeld
  <2> QED BY <2>1, <2>2, <2>3
<1>7. CASE WriteBatch(r)
  <2>1. PICK list : list = held[r]
    OBVIOUS
  <2>2. pc[r] = "batch"
    BY <1>7 DEF WriteBatch, At
  <2>3. list \in Seq(Range(list)) /\ Len(list) \in Nat /\ \A u \in Range(list) : Enrolled(u)
    BY <1>0, <1>1, <2>1, <2>2 DEF MarkHeld, Listed, EnrolledHeld
  <2>4. PICK left \in 0 .. Len(list) : GoOn(r, "again", AfterBatch(list, left))
    BY <1>7, <2>1 DEF WriteBatch
  <2> DEFINE next == (Len(list) - left) + 1
  <2>5. next \in Nat \ {0}
    BY <2>3, <2>4
  <2>6. pc'[r] = "again" /\ held'[r][2] = SubSeq(list, next, Len(list))
    <3>1. pc'[r] = "again" /\ held'[r] = AfterBatch(list, left)
      BY <2>4 DEF GoOn, ReqInv
    <3> QED BY <3>1 DEF AfterBatch
  <2> HIDE DEF next
  <2>7. Range(SubSeq(list, next, Len(list))) \subseteq Range(list)
    BY <2>3, <2>5, RangePart
  <2> QED BY <1>3, <2>3, <2>6, <2>7 DEF EnrolledHeld
<1>8. CASE MarkAgain(r)
  <2>1. PICK again : again = held[r][2]
    OBVIOUS
  <2>2. pc[r] = "again" /\ again # <<>>
    BY <1>8, <2>1 DEF MarkAgain, At
  <2>3. again \in Seq(Range(again)) /\ \A u \in Range(again) : Enrolled(u)
    BY <1>0, <1>1, <2>1, <2>2 DEF MarkHeld, Listed, EnrolledHeld
  <2>4. PICK first : GoOn(r, "again", <<first, Tail(again)>>)
    BY <1>8, <2>1 DEF MarkAgain
  <2>5. pc'[r] = "again" /\ held'[r][2] = Tail(again)
    <3>1. pc'[r] = "again" /\ held'[r] = <<first, Tail(again)>>
      BY <2>4 DEF GoOn, ReqInv
    <3> QED BY <3>1
  <2>6. Range(Tail(again)) \subseteq Range(again)
    BY <2>2, <2>3, RangeTail
  <2> QED BY <1>3, <2>3, <2>5, <2>6 DEF EnrolledHeld
<1>9. CASE FindByRfid(r)
  <2>1. pc'[r] \in {"done", "validate"}
    BY <1>0, <1>9 DEF FindByRfid, End, GoOn, ReqInv
  <2> QED BY <1>4, <2>1
<1>10. CASE Mark(r) \/ AnswerBulk(r)
  <2>1. End(r)
    BY <1>10 DEF Mark, AnswerBulk
  <2> QED BY <1>0, <1>4, <2>1 DEF End, GoOn, ReqInv
<1> QED BY <1>5, <1>6, <1>7, <1>8, <1>9, <1>10 DEF MarkStep, FindByCard

LEMMA NextEnrol ==
  ASSUME ReqInv, MarkInv, EnrolInv, [ServicesNext]_serviceVars
  PROVE  EnrolInv'
<1>0. UNCHANGED world
  BY StepKinds
<1>1. ASSUME NEW r \in world.calls, CallStep(r) PROVE EnrolInv'
  <2>1. CASE MarkStep(r)
    BY <1>0, <2>1, EnrolMarks
  <2>2. CASE r.op # "mark"
    BY <1>0, <1>1, <2>2, EnrolIdle DEF CallStep
  <2> QED BY <1>1, <2>1, <2>2 DEF CallStep, MemberOps, AdOps, RideOps, DecideOps, UploadOps
<1>2. CASE TaskStep
  <2>1. UNCHANGED <<members, pc, held>>
    BY <1>2 DEF TaskStep, requestVars, memberVars
  <2> QED BY <1>0, <2>1 DEF EnrolInv, EnrolledHeld, Enrolled, Joined
<1> QED BY <1>1, <1>2, StepKinds

LEMMA InitEnrol == ServicesInit => EnrolInv
BY DEF ServicesInit, RequestInit, EnrolInv, EnrolledHeld

-----------------------------------------------------------------------------
(* What follows                                                            *)

\* The inductive invariant of the modules together: each part is kept with the
\* help of the first, which says whose turn it is.
ServicesInv == /\ ReqInv /\ RideInv /\ FileInv /\ ImageInv /\ MemberInv /\ AdInv
               /\ MarkInv /\ EnrolInv

LEMMA ServicesInductive == ServicesSpec => []ServicesInv
<1>1. ServicesInit => ServicesInv
  BY InitReq, InitRides, InitFiles, InitImages, InitMembers, InitAds, InitMarks, InitEnrol
     DEF ServicesInv
<1>2. ServicesInv /\ [ServicesNext]_serviceVars => ServicesInv'
  <2> SUFFICES ASSUME ServicesInv, [ServicesNext]_serviceVars PROVE ServicesInv'
    OBVIOUS
  <2>1. /\ ReqInv /\ RideInv /\ FileInv /\ ImageInv /\ MemberInv /\ AdInv
        /\ MarkInv /\ EnrolInv /\ AdTyped
    BY DEF ServicesInv, AdInv
  <2>2. ReqInv' /\ RideInv' /\ FileInv' /\ ImageInv'
    BY <2>1, NextReq, NextRides, NextFiles, NextImages
  <2>3. MemberInv' /\ AdInv' /\ MarkInv' /\ EnrolInv'
    BY <2>1, NextMembers, NextAds, NextMarks, NextEnrol
  <2> QED BY <2>2, <2>3 DEF ServicesInv
<1> QED BY <1>1, <1>2, PTL DEF ServicesSpec

\* Members, advertisements, enrolments, files, addresses and images have their
\* types, whatever calls, tasks and expiries come in between.
THEOREM ServicesTyped == ServicesSpec => []ServicesTypeOK
<1>1. ServicesInv => ServicesTypeOK
  <2> SUFFICES ASSUME ServicesInv PROVE ServicesTypeOK
    OBVIOUS
  <2>1. MemberTypeOK
    BY DEF ServicesInv, MemberInv, MemberRow, Typed, MemberTypeOK, Joined
  <2>2. AdTypeOK
    BY DEF ServicesInv, AdInv, AdTyped, AdRows, AdTypeOK
  <2>3. RideTypeOK
    <3>1. rides \in Seq(RideRows)
      BY DEF ServicesInv, RideInv
    <3>2. \A i \in DOMAIN rides : rides[i] \in RideRows
      BY <3>1
    <3> QED BY <3>2 DEF RideRows, RideTypeOK
  <2>4. UploadTypeOK
    BY DEF ServicesInv, FileInv
  <2> QED BY <2>1, <2>2, <2>3, <2>4 DEF ServicesTypeOK
<1> QED BY <1>1, ServicesInductive, PTL

\* enrollInBookhire, the decisions on an enrolment and their overlapping reads:
\* one after the other, no student has two that are approved, and an approved one
\* lets him ride.
THEOREM RidesSound == ServicesSpec => []OneRide
<1>1. ServicesInv => OneRide
  <2> SUFFICES ASSUME ServicesInv PROVE OneRide
    OBVIOUS
  <2>1. EnrolledOnce
    BY DEF ServicesInv, RideInv, RidesOnce, EnrolledOnce
  <2>2. ApprovedRides
    BY DEF ServicesInv, RideInv, RidesActive, ApprovedRides
  <2> QED BY <2>1, <2>2 DEF OneRide
<1> QED BY <1>1, ServicesInductive, PTL

\* generateSignedUploadUrl, verifyAndPublish and the images of rows: what was
\* published is sound, and an image that is shown is in the storage.
THEOREM FilesSound == ServicesSpec => []FilesHold
<1>1. ServicesInv => FilesHold
  BY FilesHeld DEF ServicesInv
<1> QED BY <1>1, ServicesInductive, PTL

\* getActiveAdvertisements, its cache and the counters: an advertisement for
\* everybody comes before one for others, none goes beyond its limit, and the
\* cached list is current.
THEOREM AdsSound == ServicesSpec => []AdsChosen
<1>1. ServicesInv => AdsChosen
  BY AdsHeld DEF ServicesInv
<1> QED BY <1>1, ServicesInductive, PTL

\* markAttendance, markBulkAttendance and their notifications: whoever an answer
\* names has a record of the call, and parents are told of what is stored only,
\* whichever writes fail and are repeated.
THEOREM MarksSound == ServicesSpec => []MarksHold
<1>1. ServicesInv => MarksHold
  BY MarksHeld DEF ServicesInv
<1> QED BY <1>1, ServicesInductive, PTL

\* A record that a step adds names who was validated, or enrolled in the ride.
LEMMA MarkedEnrolled ==
  ASSUME ReqInv, MarkInv, EnrolInv, NEW r \in world.calls, MarkStep(r),
         world.serial, world.checks, NEW m \in marks' \ marks, m.by.way # "card"
  PROVE  Enrolled(m.user)
<1>0. r.op = "mark" /\ MarkHeld(r)
  BY MarkMoves DEF MarkInv
<1>1. r.way # "card" => EnrolledHeld(r)
  BY <1>0 DEF EnrolInv
<1>2. CASE Mark(r)
  <2>1. PICK list : list = held[r]
    OBVIOUS
  <2>2. pc[r] = "put" /\ m = Record(r, list[1], 1)
    BY <1>2, <2>1 DEF Mark, At, Put
  <2>3. m.by = r /\ m.user = list[1]
    BY <2>2 DEF Record
  <2>4. list \in Seq(Range(list)) /\ list # <<>> /\ \A u \in Range(list) : Enrolled(u)
    BY <1>0, <1>1, <2>1, <2>2, <2>3 DEF MarkHeld, Listed, EnrolledHeld
  <2> QED BY <2>3, <2>4, RangeTail
<1>3. CASE WriteBatch(r)
  <2>1. PICK u \in Range(held[r]) : m = Record(r, u, 1)
    BY <1>3 DEF WriteBatch
  <2>2. m.by = r /\ m.user = u /\ pc[r] = "batch"
    BY <1>3, <2>1 DEF Record, WriteBatch, At
  <2> QED BY <1>1, <2>1, <2>2 DEF EnrolledHeld
<1>4. CASE MarkAgain(r)
  <2>1. PICK again : again = held[r][2]
    OBVIOUS
  <2>2. pc[r] = "again" /\ again # <<>> /\ m = Record(r, Head(again), 2)
    BY <1>4, <2>1 DEF MarkAgain, At, Put
  <2>3. m.by = r /\ m.user = Head(again)
    BY <2>2 DEF Record
  <2>4. again \in Seq(Range(again)) /\ \A u \in Range(again) : Enrolled(u)
    BY <1>0, <1>1, <2>1, <2>2, <2>3 DEF MarkHeld, Listed, EnrolledHeld
  <2> QED BY <2>2, <2>3, <2>4, RangeTail
<1>5. CASE UNCHANGED marks
  BY <1>5
<1> QED BY <1>2, <1>3, <1>4, <1>5 DEF MarkStep, FindByRfid, ValidateEnrolment, FindByCard,
                                      FindStudents, AnswerBulk, markVars

LEMMA RecordedEnrolled ==
  ASSUME RideInv, NEW r \in world.calls, RideStep(r),
         world.serial, world.checks, NEW t \in trips' \ trips, t[1].way = "rfid", t[2] \in RidePupils,
         pc[t[1]] # "unread"
  PROVE  MayRide(t[2])
<1>1. CASE RecordTrip(r)
  <2>1. r.op = "trip" /\ pc[r] \in {"record", "unread"} /\ t = <<r, Head(held[r])>>
    BY <1>1 DEF RecordTrip, At
  <2>2. t[1] = r /\ t[2] = Head(held[r]) /\ pc[r] = "record"
    BY <2>1
  <2> QED BY <2>1, <2>2 DEF RideInv, TripChecked
<1>2. CASE UNCHANGED trips
  BY <1>2
<1> QED BY <1>1, <1>2 DEF RideStep, FindHire, WriteHire, CheckHire, CheckOnBoard, InsertRide, FindRide,
                          WriteRide, FindOwnHire, FindRider, rideVars

\* validateStudentEnrollment and the check of an enrolment by RFID, read before
\* and written after: one after the other, attendance is recorded for active
\* members, and for students enrolled in the ride, but for one whose row in students
\* could not be read.
THEOREM EnrolledOnly == ServicesSpec => OnlyEnrolled
<1>1. ServicesInv /\ [ServicesNext]_serviceVars =>
        [world.serial /\ world.checks
           => \A m \in marks' \ marks : m.by.way # "card"
                  => m.user \in Joined /\ members[m.user].status = "ACTIVE"]_marks
  <2> SUFFICES ASSUME ServicesInv, [ServicesNext]_serviceVars, world.serial, world.checks,
                      NEW m \in marks' \ marks, m.by.way # "card"
               PROVE  m.user \in Joined /\ members[m.user].status = "ACTIVE"
    OBVIOUS
  <2>1. ReqInv /\ MarkInv /\ EnrolInv
    BY DEF ServicesInv
  <2>2. PICK r \in world.calls : MarkStep(r)
    BY <2>1, StepKinds DEF CallStep, TaskStep, markVars
  <2>3. Enrolled(m.user)
    BY <2>1, <2>2, MarkedEnrolled
  <2> QED BY <2>3 DEF Enrolled
<1>2. ServicesInv /\ [ServicesNext]_serviceVars =>
        [world.serial /\ world.checks
           => \A t \in trips' \ trips :
                t[1].way = "rfid" /\ t[2] \in RidePupils /\ pc[t[1]] # "unread"
                => \E i \in DOMAIN rides : /\ rides[i].user = t[2] /\ rides[i].isActive
                                           /\ rides[i].status = "approved"]_trips
  <2> SUFFICES ASSUME ServicesInv, [ServicesNext]_serviceVars, world.serial, world.checks,
                      NEW t \in trips' \ trips, t[1].way = "rfid", t[2] \in RidePupils,
                      pc[t[1]] # "unread"
               PROVE  \E i \in DOMAIN rides : /\ rides[i].user = t[2] /\ rides[i].isActive
                                              /\ rides[i].status = "approved"
    OBVIOUS
  <2>1. ReqInv /\ RideInv
    BY DEF ServicesInv
  <2>2. PICK r \in world.calls : RideStep(r)
    BY <2>1, StepKinds DEF CallStep, TaskStep, rideVars
  <2>3. MayRide(t[2])
    BY <2>1, <2>2, RecordedEnrolled
  <2> QED BY <2>3 DEF MayRide
<1> QED BY <1>1, <1>2, ServicesInductive, PTL
         DEF OnlyEnrolled, OnlyActiveMarked, OnlyEnrolledRide, ServicesSpec
=============================================================================
