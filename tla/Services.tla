------------------------------ MODULE Services ------------------------------
(***************************************************************************)
(* Marking attendance while the members of the institute, the              *)
(* advertisements and the enrolments for rides change, with the tasks that *)
(* tell the parents and the cached list of advertisements; and the uploads *)
(* of files, beside them.                                                  *)
(***************************************************************************)
EXTENDS Attendance, Rides, Uploads

serviceVars == <<world, requestVars, people, memberVars, adVars, noticeVars, markVars, rideVars,
                 uploadVars>>

ServicesInit == /\ world \in Worlds
                /\ people \in [Users -> {"registered"}]
                /\ RequestInit /\ MembersInit /\ AdsInit /\ NoticesInit /\ MarksInit /\ RidesInit
                /\ UploadsInit

\* Served one after the other, a call also waits for the tasks of earlier ones.
Rested(r) == world.serial /\ pc[r] = "start" => NoticesOver

Finished == RequestsOver /\ NoticesOver

ServicesNext ==
  /\ UNCHANGED people
  /\ \/ \E r \in world.calls : Rested(r) /\
          \/ MemberStep(r) /\ UNCHANGED <<world, adVars, noticeVars, markVars, rideVars, uploadVars>>
          \/ AdStep(r) /\ UNCHANGED <<world, memberVars, noticeVars, markVars, rideVars, uploadVars>>
          \/ /\ FindAd(r) \/ CountManual(r)
             /\ UNCHANGED <<world, memberVars, markVars, rideVars, uploadVars>>
          \/ MarkStep(r) /\ UNCHANGED <<world, rideVars, uploadVars>>
          \/ RideStep(r) /\ UNCHANGED <<world, memberVars, adVars, noticeVars, markVars, uploadVars>>
          \/ UploadStep(r) /\ UNCHANGED <<world, memberVars, adVars, noticeVars, markVars, rideVars>>
     \/ ListExpires /\ UNCHANGED <<world, memberVars, noticeVars, markVars, rideVars, uploadVars>>
     \/ UrlExpires /\ UNCHANGED <<world, memberVars, adVars, noticeVars, markVars, rideVars>>
     \/ /\ \E t \in DOMAIN notices : NoticeStep(t)
        /\ UNCHANGED <<world, memberVars, markVars, rideVars, uploadVars>>
     \/ Finished /\ UNCHANGED serviceVars

\* Handlers, tasks and retries are run by the event loop until they end.
ServicesSpec == ServicesInit /\ [][ServicesNext]_serviceVars /\ WF_serviceVars(ServicesNext)

-----------------------------------------------------------------------------
\* The type invariant of the modules together.
ServicesTypeOK == MemberTypeOK /\ AdTypeOK /\ RideTypeOK /\ UploadTypeOK

\* The advertisement that goes with a message: one for everybody before one for
\* others, none beyond its limit, and from a list that is current.
AdsChosen == EverybodyFirst /\ LimitKept /\ ListIsCurrent

\* Who is reported as marked has a record, and his parents are told of it only.
MarksHold == WholeIsStored /\ ToldIsMarked

\* What was published is sound, and an image that is shown is there.
FilesHold == PublishedIsSound /\ ImageExists

\* Enrolments for rides: one approved at a time, and it lets the student ride.
OneRide == EnrolledOnce /\ ApprovedRides

\* Attendance is recorded for whom it may be: active members of the institute,
\* students enrolled in the ride.
OnlyEnrolled == OnlyActiveMarked /\ OnlyEnrolledRide
=============================================================================
