------------------------------- MODULE School -------------------------------
(***************************************************************************)
(* Users and their profiles, the members of an institute and of an         *)
(* organization, the enrolments in a class and in a subject of it and the  *)
(* work done there, together: they read one another's rows, and a row that *)
(* goes takes those that refer to it along.                                *)
(***************************************************************************)
EXTENDS SubjectEnrolment, Organizations, Coursework

schoolVars == <<world, requestVars, peopleVars, memberVars, classVars, subjectVars, orgVars,
                workVars>>

SchoolInit == /\ world \in Worlds
              /\ RequestInit /\ PeopleInit /\ MembersInit /\ ClassInit /\ SubjectInit /\ OrgInit
              /\ WorkInit

\* ON DELETE CASCADE.  A row that a transfer of the presidency holds is waited
\* for.
Taken(r) == r.op = "userRemove" /\ pc[r] = "write"

Left(rows) == [i \in DOMAIN rows |-> IF rows[i] # NoRow /\ people'[rows[i].user] = NoRow
                                     THEN NoRow ELSE rows[i]]

Cascade(r) ==
  /\ Taken(r) => Unlocked(r.user)
  /\ members' = [u \in Users |-> IF people'[u] = NoRow THEN NoRow ELSE members[u]]
  /\ seats' = [u \in Users |-> IF people'[u] = NoRow THEN NoRow ELSE seats[u]]
  /\ staff' = [u \in Users |-> IF people'[u] = NoRow THEN NoRow ELSE staff[u]]
  /\ rolls' = [u \in Users |-> IF pupils'[u] = NoRow THEN NoRow ELSE rolls[u]]
  /\ papers' = Left(papers) /\ results' = Left(results)
  /\ UNCHANGED <<deleted, approved, door, entry, newest, withdrawn, founded, transfer,
                 homework, exam, day>>

SchoolNext ==
  \/ \E r \in world.calls :
       \/ PeopleStep(r) /\ Cascade(r) /\ UNCHANGED world
       \/ MemberStep(r) /\ UNCHANGED <<world, peopleVars, classVars, subjectVars, orgVars, workVars>>
       \/ ClassStep(r) /\ UNCHANGED <<world, peopleVars, memberVars, subjectVars, orgVars, workVars>>
       \/ SubjectStep(r) /\ UNCHANGED <<world, peopleVars, memberVars, classVars, orgVars, workVars>>
       \/ OrgStep(r) /\ UNCHANGED <<world, peopleVars, memberVars, classVars, subjectVars, workVars>>
       \/ WorkStep(r) /\ UNCHANGED <<world, peopleVars, memberVars, classVars, subjectVars, orgVars>>
  \/ DayPasses /\ UNCHANGED <<world, peopleVars, memberVars, classVars, subjectVars, orgVars>>
  \/ RequestsOver /\ UNCHANGED schoolVars

SchoolSpec == SchoolInit /\ [][SchoolNext]_schoolVars

-----------------------------------------------------------------------------
\* The type invariant of the modules together.
SchoolTypeOK == PeopleTypeOK /\ MemberTypeOK /\ ClassTypeOK /\ SubjectTypeOK /\ OrgTypeOK
                /\ WorkTypeOK

\* What identifies a member: cards are unique, an image shown as verified was
\* approved, and one that is shown was not deleted.
CardsAndImages == VerifiedIsApproved /\ ShownImageExists /\ CardsUnique

\* Whoever was deactivated, as a member or as a user, stays so, and no second
\* assignment changes what a member already is.
MembersHold == MemberStaysInactive /\ UserStaysInactive /\ StudentNotParent /\ PlacedOnce

\* An organization has at most one president, and a president hands over.
PresidencyHolds == []OnePresident /\ PresidencyPassed

\* What was handed in, corrected and set stands: one paper of a student with
\* its correction, an exam that can be passed.
CourseworkHolds == []MarksSound /\ []OnePaper /\ CorrectionKept

\* The cached details of users say what the tables say, or nothing, and no user's
\* photo was deleted because they did not.
DetailsHold == RefreshedIsCurrent /\ []RemovedIsForgotten /\ UserImageExists

\* Enrolments in a class are verified by somebody entitled, and stay verified;
\* a seat in a subject needs a place in its class and a key that is in force.
EnrolmentsHold == VerifiedBySomeone /\ EnrolmentStaysVerified /\ SeatNeedsClass
                  /\ WithdrawnKeyDead
=============================================================================
