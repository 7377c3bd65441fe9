---------------------------- MODULE SchoolProofs ----------------------------
(***************************************************************************)
(* What holds at a school whatever the users, calls, worlds and days,      *)
(* proved.  Each part of the invariant speaks of one module; which request *)
(* a step moves (RequestProofs) carries it over the steps of the others,   *)
(* and a removed user takes what refers to him along.                      *)
(***************************************************************************)
EXTENDS School, RequestProofs, SequenceTheorems, TLAPS

PeopleOps  == UserOps \cup ProfileOps
ClassOps   == {"enrol", "rollUpdate", "unenrol", "rollVerify", "bulkUnenrol", "door"}
SubjectOps == {"seat", "seatUpdate", "unseat", "settings"}
OrgOps     == {"found", "add", "assignRole", "changeRole", "dismiss", "transfer", "place"}
WorkOps    == {"homeworkCreate", "homeworkUpdate", "homeworkRemove", "submit", "paperCreate",
               "examCreate", "examUpdate", "examRemove", "result", "resultUpdate",
               "resultRemove"} \cup PaperOps

-----------------------------------------------------------------------------
(* Which request a step moves                                              *)

\* Who caches details goes on with a step of its own handler.
Caching == {"refresh", "cache"}

Thens(r) == CASE r.op = "photo" -> {"find", "clean", "done"}
              [] r.op = "ownPicture" -> {"stored"}
              [] OTHER -> {"done"}

QueueInv == \A r \in world.calls :
              pc[r] \in Caching => r.op \in PeopleOps /\ held[r].then \in Thens(r)

LEMMA CachedMoves ==
  ASSUME ReqInv, NEW r \in world.calls, pc[r] \in Caching, Cached(r)
  PROVE  /\ Moves(r)
         /\ \/ pc'[r] = "refresh" /\ held'[r].then = held[r].then
            \/ pc'[r] = held[r].then /\ held'[r] = held[r].old
<1>1. CASE Tail(held[r].users) # <<>>
  <2>1. GoOn(r, "refresh", [held[r] EXCEPT !.users = Tail(@)])
    BY <1>1 DEF Cached
  <2>2. Moves(r) /\ pc'[r] = "refresh" /\ held'[r] = [held[r] EXCEPT !.users = Tail(@)]
    BY <2>1, GoOnMoves DEF Caching
  <2> QED BY <2>2
<1>2. CASE Tail(held[r].users) = <<>>
  BY <1>2, GoOnMoves DEF Cached, Caching
<1> QED BY <1>1, <1>2

LEMMA UserMoves == ASSUME ReqInv, QueueInv, NEW r \in world.calls, UserStep(r)
                   PROVE  Moves(r) /\ r.op \in UserOps \cup ProfileOps
<1>1. CASE InsertUser(r) \/ InsertProfiles(r) \/ Register(r) \/ Forget(r) \/ FindUser(r)
           \/ EditUser(r) \/ FindEntity(r) \/ UnlinkPhoto(r)
  <2>1. Goes(r) /\ r.op \in UserOps
    BY <1>1 DEF InsertUser, InsertProfiles, Register, Forget, FindUser, EditUser, FindEntity,
                UnlinkPhoto, Cache, Goes, At, End, UserOps
  <2> QED BY <2>1, GoesMoves
<1>2. CASE CompareUser(r) \/ WriteUser(r) \/ RemoveUser(r) \/ FindCardHolder(r) \/ RegisterRfid(r)
  <2>1. Goes(r) /\ r.op \in UserOps
    BY <1>2 DEF CompareUser, WriteUser, RemoveUser, FindCardHolder, RegisterRfid,
                Cache, Goes, At, End, UserOps
  <2> QED BY <2>1, GoesMoves
<1>3. CASE FindShown(r) \/ CheckStored(r) \/ FindPictured(r) \/ UpdateImageUrl(r) \/ DeleteOld(r)
  <2>1. Goes(r) /\ r.op \in UserOps
    BY <1>3 DEF FindShown, CheckStored, FindPictured, UpdateImageUrl, DeleteOld,
                Cache, Goes, At, End, UserOps
  <2> QED BY <2>1, GoesMoves
<1>4. CASE FetchDetails(r)
  <2>1. pc[r] \in Caching /\ r.op \in PeopleOps
    BY <1>4 DEF FetchDetails, At, QueueInv, Caching
  <2>2. Cached(r) \/ \E row : GoOn(r, "cache", row)
    BY <1>4 DEF FetchDetails
  <2> QED BY <2>1, <2>2, CachedMoves, GoOnMoves DEF PeopleOps, Caching
<1>5. CASE StoreDetails(r)
  <2>1. pc[r] \in Caching /\ r.op \in PeopleOps /\ Cached(r)
    BY <1>5 DEF StoreDetails, At, QueueInv, Caching
  <2> QED BY <2>1, CachedMoves DEF PeopleOps
<1> QED BY <1>1, <1>2, <1>3, <1>4, <1>5 DEF UserStep

LEMMA ProfileMoves == ASSUME ReqInv, NEW r \in world.calls, ProfileStep(r)
                      PROVE  Moves(r) /\ r.op \in ProfileOps
<1>1. CASE FindPupil(r) \/ WritePupil(r) \/ RemovePupil(r) \/ EraseImage(r)
           \/ UpdatePupilImage(r) \/ Link(r)
  <2>1. Goes(r) /\ r.op \in ProfileOps
    BY <1>1 DEF FindPupil, WritePupil, RemovePupil, EraseImage, UpdatePupilImage, Link,
                Cache, Goes, At, End, ProfileOps
  <2> QED BY <2>1, GoesMoves
<1>2. CASE Unlink(r) \/ CheckLink(r) \/ LinkByPhone(r) \/ FindParent(r) \/ WriteParent(r)
           \/ RemoveParent(r)
  <2>1. Goes(r) /\ r.op \in ProfileOps
    BY <1>2 DEF Unlink, CheckLink, LinkByPhone, FindParent, WriteParent, RemoveParent,
                Cache, Goes, At, End, ProfileOps
  <2> QED BY <2>1, GoesMoves
<1> QED BY <1>1, <1>2 DEF ProfileStep

LEMMA ClassMoves == ASSUME ReqInv, NEW r \in world.calls, ClassStep(r)
                    PROVE  Moves(r) /\ r.op \in ClassOps
<1>1. Goes(r) /\ r.op \in ClassOps
  BY DEF ClassStep, BeginEnrol, CheckEnrolled, CompareRoll, WriteRoll, FindRoll, SetActive,
         Unenrol, BulkRemove, ApproveRoll, SetDoor, Goes, At, End, ClassOps
<1> QED BY <1>1, GoesMoves

LEMMA SubjectMoves == ASSUME ReqInv, NEW r \in world.calls, SubjectStep(r)
                      PROVE  Moves(r) /\ r.op \in SubjectOps
<1>1. CASE BeginSeat(r)
  <2>1. At(r, "seat", "start")
    BY <1>1 DEF BeginSeat
  <2>2. r.way \in {"self", "create", "teacher", "bulk"}
    BY <2>1, SubjectWorldsAssumption DEF At, ReqInv
  <2>3. \E step, value : GoOn(r, step, value)
    BY <1>1, <2>2 DEF BeginSeat, End
  <2>4. Goes(r) /\ r.op \in SubjectOps
    BY <2>1, <2>3 DEF Goes, At, SubjectOps
  <2> QED BY <2>4, GoesMoves
<1>2. CASE ~BeginSeat(r)
  <2>1. Goes(r) /\ r.op \in SubjectOps
    BY <1>2 DEF SubjectStep, CheckClass, CheckSeated, CompareSeat, WriteSeat, FindSeat,
           ChangeSeat, Unseat, ReadSettings, WriteSettings, Goes, At, End, SubjectOps
  <2> QED BY <2>1, GoesMoves
<1> QED BY <1>1, <1>2

LEMMA OrgMoves == ASSUME ReqInv, NEW r \in world.calls, OrgStep(r)
                  PROVE  Moves(r) /\ r.op \in OrgOps
<1>1. Goes(r) /\ r.op \in OrgOps
  BY DEF OrgStep, SaveOrganization, SaveFounder, CheckStaff, InsertStaff, ChangeStaffRole,
         RemoveStaff, DemotePresidents, PromotePresident, CheckMember, CheckPlaced,
         Goes, At, End, OrgOps
<1> QED BY <1>1, GoesMoves

LEMMA WorkMoves == ASSUME ReqInv, NEW r \in world.calls, WorkStep(r)
                   PROVE  Moves(r) /\ r.op \in WorkOps
<1>1. CASE CreateHomework(r) \/ FindHomework(r) \/ WriteHomework(r) \/ Submit(r) \/ FindPaper(r)
           \/ ComparePaper(r) \/ WritePaper(r) \/ InsertPaper(r)
  <2>1. Goes(r) /\ r.op \in WorkOps
    BY <1>1 DEF CreateHomework, FindHomework, WriteHomework, Submit, FindPaper, ComparePaper,
                WritePaper, InsertPaper, Goes, At, End, WorkOps
  <2> QED BY <2>1, GoesMoves
<1>2. CASE SelectPaper(r) \/ CorrectPaper(r) \/ RemovePaper(r) \/ BeginExam(r) \/ SaveExam(r)
           \/ FindExam(r) \/ WriteExam(r) \/ DeleteExam(r)
  <2>1. Goes(r) /\ r.op \in WorkOps
    BY <1>2 DEF SelectPaper, CorrectPaper, RemovePaper, BeginExam, SaveExam, FindExam,
                WriteExam, DeleteExam, Goes, At, End, WorkOps, PaperOps
  <2> QED BY <2>1, GoesMoves
<1>3. CASE BeginResults(r) \/ InsertResult(r) \/ FindResult(r) \/ WriteResult(r)
  <2>1. Goes(r) /\ r.op \in WorkOps
    BY <1>3 DEF BeginResults, InsertResult, FindResult, WriteResult, Goes, At, End, WorkOps
  <2> QED BY <2>1, GoesMoves
<1> QED BY <1>1, <1>2, <1>3 DEF WorkStep

-----------------------------------------------------------------------------
(* What the steps of the system are                                        *)

\* Steps by which a request moves.
CallStep(r) ==
  /\ Moves(r)
  /\ \/ PeopleStep(r) /\ Cascade(r) /\ r.op \in PeopleOps
     \/ /\ MemberStep(r) /\ r.op \in MemberOps
        /\ UNCHANGED <<peopleVars, classVars, subjectVars, orgVars, workVars>>
     \/ /\ ClassStep(r) /\ r.op \in ClassOps
        /\ UNCHANGED <<peopleVars, memberVars, subjectVars, orgVars, workVars>>
     \/ /\ SubjectStep(r) /\ r.op \in SubjectOps
        /\ UNCHANGED <<peopleVars, memberVars, classVars, orgVars, workVars>>
     \/ /\ OrgStep(r) /\ r.op \in OrgOps
        /\ UNCHANGED <<peopleVars, memberVars, classVars, subjectVars, workVars>>
     \/ /\ WorkStep(r) /\ r.op \in WorkOps
        /\ UNCHANGED <<peopleVars, memberVars, classVars, subjectVars, orgVars>>

\* And by which none does: nothing happens, or a day passes.
RestStep == /\ UNCHANGED <<requestVars, peopleVars, memberVars, classVars, subjectVars, orgVars,
                           homework, papers, exam, results>>
            /\ day' = day \/ (world.serial => Quiet)

LEMMA StepKinds ==
  ASSUME ReqInv, QueueInv, [SchoolNext]_schoolVars
  PROVE  /\ UNCHANGED world
         /\ (\E r \in world.calls : CallStep(r)) \/ RestStep
<1>1. ASSUME NEW r \in world.calls, PeopleStep(r), Cascade(r) PROVE CallStep(r)
  <2>1. Moves(r) /\ r.op \in PeopleOps
    BY <1>1, UserMoves, ProfileMoves DEF PeopleStep, PeopleOps
  <2> QED BY <1>1, <2>1 DEF CallStep
<1>2. ASSUME NEW r \in world.calls,
             \/ MemberStep(r) /\ UNCHANGED <<world, peopleVars, classVars, subjectVars, orgVars, workVars>>
             \/ ClassStep(r) /\ UNCHANGED <<world, peopleVars, memberVars, subjectVars, orgVars, workVars>>
             \/ SubjectStep(r) /\ UNCHANGED <<world, peopleVars, memberVars, classVars, orgVars, workVars>>
             \/ OrgStep(r) /\ UNCHANGED <<world, peopleVars, memberVars, classVars, subjectVars, workVars>>
             \/ WorkStep(r) /\ UNCHANGED <<world, peopleVars, memberVars, classVars, subjectVars, orgVars>>
      PROVE  CallStep(r)
  BY <1>2, MemberMoves, ClassMoves, SubjectMoves, OrgMoves, WorkMoves DEF CallStep
<1>3. ASSUME DayPasses, UNCHANGED <<world, peopleVars, memberVars, classVars, subjectVars, orgVars>>
      PROVE  RestStep
  BY <1>3 DEF DayPasses, RestStep, requestVars, peopleVars, memberVars, classVars, subjectVars,
              orgVars
<1>4. CASE UNCHANGED schoolVars
  BY <1>4 DEF schoolVars, RestStep, workVars, requestVars, peopleVars, memberVars, classVars,
              subjectVars, orgVars
<1>5. CASE SchoolNext
  <2>1. UNCHANGED world
    BY <1>5, <1>4 DEF SchoolNext, schoolVars
  <2> QED BY <1>1, <1>2, <1>3, <1>4, <1>5, <2>1 DEF SchoolNext
<1> QED BY <1>4, <1>5 DEF schoolVars

\* So no two requests are ever under way where they are served one by one.
LEMMA NextReq == ASSUME ReqInv, QueueInv, [SchoolNext]_schoolVars PROVE ReqInv'
<1>1. UNCHANGED world
  BY StepKinds
<1>2. CASE \E r \in world.calls : CallStep(r)
  BY <1>1, <1>2, MovesReq DEF CallStep
<1>3. CASE RestStep
  BY <1>1, <1>3 DEF RestStep, requestVars, ReqInv, Idle
<1> QED BY <1>2, <1>3, StepKinds

LEMMA InitReq == SchoolInit => ReqInv
BY DEF SchoolInit, RequestInit, ReqInv, Idle

-----------------------------------------------------------------------------
(* Which users are refreshed                                               *)

LEMMA DetailsMoves ==
  ASSUME ReqInv, QueueInv, NEW r \in world.calls, FetchDetails(r) \/ StoreDetails(r)
  PROVE  /\ Moves(r) /\ r.op \in PeopleOps /\ UNCHANGED <<people, pupils, parents>>
         /\ pc'[r] \in Caching \cup Thens(r)
         /\ pc'[r] \in Caching => held'[r].then = held[r].then /\ held[r].then \in Thens(r)
<1>1. pc[r] \in Caching /\ r.op \in PeopleOps /\ held[r].then \in Thens(r)
  BY DEF FetchDetails, StoreDetails, At, QueueInv, Caching
<1>2. UNCHANGED <<people, pupils, parents>>
  BY DEF FetchDetails, StoreDetails, peopleVars, profileVars
<1>3. CASE Cached(r)
  BY <1>1, <1>2, <1>3, CachedMoves DEF Caching, Thens
<1>4. CASE ~Cached(r)
  <2>1. GoOn(r, "cache", [held[r] EXCEPT !.row = Snapshot(Head(held[r].users))])
    BY <1>4 DEF FetchDetails, StoreDetails
  <2>2. pc'[r] = "cache" /\ held'[r] = [held[r] EXCEPT !.row = Snapshot(Head(held[r].users))]
    BY <1>1, <2>1, GoOnMoves DEF Caching
  <2>3. Moves(r)
    BY <1>1, <2>1, GoOnMoves DEF Caching
  <2> QED BY <1>1, <1>2, <2>2, <2>3 DEF Caching
<1> QED BY <1>3, <1>4

\* Other steps of a user's handlers begin to refresh with a step of that
\* handler to go on with, or go on elsewhere.
LEMMA RefreshBegins ==
  ASSUME ReqInv, QueueInv, NEW r \in world.calls, PeopleStep(r), pc'[r] \in Caching
  PROVE  held'[r].then \in Thens(r)
<1>1. ASSUME NEW users, NEW then, NEW old, Cache(r, users, then, old), then \in Thens(r),
             pc[r] # "done", world.serial /\ pc[r] = "start" => Quiet
      PROVE  held'[r].then \in Thens(r)
  <2>1. held'[r] = [users |-> users, row |-> NoRow, then |-> then, old |-> old]
    BY <1>1, GoOnMoves DEF Cache
  <2> QED BY <1>1, <2>1
<1>2. ASSUME NEW step, NEW value, GoOn(r, step, value), step \notin Caching,
             pc[r] # "done", world.serial /\ pc[r] = "start" => Quiet
      PROVE  FALSE
  BY <1>2, GoOnMoves
<1>3. CASE InsertUser(r) \/ InsertProfiles(r) \/ Register(r) \/ Forget(r) \/ FindUser(r)
           \/ FindEntity(r) \/ UnlinkPhoto(r) \/ CompareUser(r) \/ RemoveUser(r)
           \/ FindCardHolder(r)
  BY <1>3, <1>2 DEF InsertUser, InsertProfiles, Register, Forget, FindUser, FindEntity,
        UnlinkPhoto, CompareUser, RemoveUser, FindCardHolder, At, End, Caching
<1>4. CASE EditUser(r) \/ WriteUser(r) \/ RegisterRfid(r)
  BY <1>4, <1>1, <1>2 DEF EditUser, WriteUser, RegisterRfid, At, End, Caching, Thens
<1>5. CASE FindShown(r)
  BY <1>5, <1>1, <1>2 DEF FindShown, At, End, Caching, Thens
<1>6. CASE UpdateImageUrl(r)
  BY <1>6, <1>1, <1>2 DEF UpdateImageUrl, At, End, Caching, Thens
<1>7. CASE CheckStored(r) \/ FindPictured(r) \/ DeleteOld(r)
  BY <1>7, <1>2 DEF CheckStored, FindPictured, DeleteOld, At, End, Caching
<1>8. CASE FetchDetails(r) \/ StoreDetails(r)
  BY <1>8, DetailsMoves
<1>9. CASE FindPupil(r) \/ RemovePupil(r) \/ EraseImage(r) \/ UpdatePupilImage(r) \/ CheckLink(r)
           \/ LinkByPhone(r) \/ FindParent(r) \/ WriteParent(r) \/ RemoveParent(r)
  BY <1>9, <1>2 DEF FindPupil, RemovePupil, EraseImage, UpdatePupilImage, CheckLink, LinkByPhone,
        FindParent, WriteParent, RemoveParent, At, End, Caching
<1>10. CASE WritePupil(r) \/ Link(r) \/ Unlink(r)
  BY <1>10, <1>1, <1>2 DEF WritePupil, Link, Unlink, At, End, Caching, Thens
<1> QED BY <1>3, <1>4, <1>5, <1>6, <1>7, <1>8, <1>9, <1>10 DEF PeopleStep, UserStep, ProfileStep

LEMMA NextQueue == ASSUME ReqInv, QueueInv, [SchoolNext]_schoolVars PROVE QueueInv'
<1>1. UNCHANGED world
  BY StepKinds
<1>2. ASSUME NEW r \in world.calls, CallStep(r) PROVE QueueInv'
  <2>1. pc'[r] \in Caching => r.op \in PeopleOps /\ held'[r].then \in Thens(r)
    <3>1. CASE PeopleStep(r)
      BY <1>2, <3>1, RefreshBegins, UserMoves, ProfileMoves DEF PeopleStep, PeopleOps
    <3>2. CASE MemberStep(r)
      <4>1. pc'[r] \notin Caching
        <5>1. CASE CreateMember(r) \/ ValidateAssignment(r) \/ EnhancedFails(r) \/ ValidateBulk(r)
                   \/ CheckRole(r) \/ CompareMember(r) \/ WriteMember(r) \/ FindPending(r)
          BY <5>1, AtMoves DEF CreateMember, ValidateAssignment, EnhancedFails, ValidateBulk,
                CheckRole, CompareMember, WriteMember, FindPending, End, Caching
        <5>2. CASE VerifyMember(r) \/ FindMember(r) \/ RemoveMember(r) \/ FindHolder(r) \/ Upload(r)
          BY <5>2, AtMoves DEF VerifyMember, FindMember, RemoveMember, FindHolder, Upload, End,
                Caching
        <5>3. CASE FindCard(r) \/ AssignCard(r) \/ FindImage(r) \/ DeleteImage(r) \/ Review(r)
          BY <5>3, AtMoves DEF FindCard, AssignCard, FindImage, DeleteImage, Review, End, Caching
        <5> QED BY <3>2, <5>1, <5>2, <5>3 DEF MemberStep
      <4> QED BY <4>1
    <3>3. CASE ClassStep(r)
      <4>1. pc'[r] \notin Caching
        BY <3>3, AtMoves DEF ClassStep, BeginEnrol, CheckEnrolled, CompareRoll, WriteRoll, FindRoll,
              SetActive, Unenrol, BulkRemove, ApproveRoll, SetDoor, End, Caching
      <4> QED BY <4>1
    <3>4. CASE SubjectStep(r)
      <4>1. CASE BeginSeat(r)
        <5>1. r.way \in {"self", "create", "teacher", "bulk"}
          BY <4>1, SubjectWorldsAssumption DEF BeginSeat, At, ReqInv
        <5>2. \E step \in {"exists", "save", "class", "done"} : \E value : GoOn(r, step, value)
          BY <4>1, <5>1 DEF BeginSeat, End
        <5>3. At(r, "seat", "start")
          BY <4>1 DEF BeginSeat
        <5> QED BY <5>2, <5>3, AtMoves DEF Caching
      <4>2. CASE ~BeginSeat(r)
        BY <3>4, <4>2, AtMoves DEF SubjectStep, CheckClass, CheckSeated, CompareSeat, WriteSeat,
              FindSeat, ChangeSeat, Unseat, ReadSettings, WriteSettings, End, Caching
      <4> QED BY <4>1, <4>2
    <3>5. CASE OrgStep(r)
      BY <3>5, AtMoves DEF OrgStep, SaveOrganization, SaveFounder, CheckStaff, InsertStaff,
            ChangeStaffRole, RemoveStaff, DemotePresidents, PromotePresident, CheckMember,
            CheckPlaced, End, Caching
    <3>6. CASE WorkStep(r)
      <4>1. CASE CreateHomework(r) \/ Submit(r)
        BY <4>1, AtMoves DEF CreateHomework, Submit, End, Caching
      <4>5. CASE FindHomework(r) \/ WriteHomework(r)
        <5>1. \E op \in {"homeworkUpdate", "homeworkRemove"}, from \in {"start", "update"},
                 step \in {"update", "done"} : At(r, op, from) /\ GoOn(r, step, NoRow)
          BY <4>5 DEF FindHomework, WriteHomework, End
        <5> QED BY <5>1, AtMoves DEF Caching
      <4>4. CASE FindPaper(r) \/ ComparePaper(r) \/ WritePaper(r) \/ InsertPaper(r)
        <5>1. CASE FindPaper(r)
          <6>1. At(r, "submit", "find") /\ \E step \in {"insert", "save"} : \E value : GoOn(r, step, value)
            BY <5>1 DEF FindPaper
          <6> QED BY <6>1, AtMoves DEF Caching
        <5>2. CASE ComparePaper(r) \/ WritePaper(r) \/ InsertPaper(r)
          BY <5>2, AtMoves DEF ComparePaper, WritePaper, InsertPaper, End, Caching
        <5> QED BY <4>4, <5>1, <5>2
      <4>2. CASE SelectPaper(r) \/ CorrectPaper(r) \/ RemovePaper(r) \/ BeginExam(r) \/ SaveExam(r)
                 \/ FindExam(r) \/ WriteExam(r) \/ DeleteExam(r)
        BY <4>2, AtMoves DEF SelectPaper, CorrectPaper, RemovePaper, BeginExam, SaveExam, FindExam,
              WriteExam, DeleteExam, End, Caching
      <4>3. CASE BeginResults(r) \/ InsertResult(r) \/ FindResult(r) \/ WriteResult(r)
        <5>1. CASE BeginResults(r) \/ FindResult(r) \/ WriteResult(r)
          BY <5>1, AtMoves DEF BeginResults, FindResult, WriteResult, End, Caching
        <5>2. CASE InsertResult(r)
          <6>1. At(r, "result", "insert") /\ \E step \in {"insert", "done"} : \E value : GoOn(r, step, value)
            BY <5>2 DEF InsertResult, End
          <6> QED BY <6>1, AtMoves DEF Caching
        <5> QED BY <4>3, <5>1, <5>2
      <4> QED BY <3>6, <4>1, <4>2, <4>3, <4>4, <4>5 DEF WorkStep
    <3> QED BY <1>2, <3>1, <3>2, <3>3, <3>4, <3>5, <3>6 DEF CallStep
  <2>2. ASSUME NEW q \in world.calls, pc'[q] \in Caching
        PROVE  q.op \in PeopleOps /\ held'[q].then \in Thens(q)
    <3>1. CASE q = r
      BY <2>1, <2>2, <3>1
    <3>2. CASE q # r
      BY <1>2, <2>2, <3>2 DEF QueueInv, Moves, CallStep
    <3> QED BY <3>1, <3>2
  <2> QED BY <1>1, <2>2 DEF QueueInv, Thens
<1>3. CASE RestStep
  BY <1>1, <1>3 DEF RestStep, requestVars, QueueInv, Thens
<1> QED BY <1>2, <1>3, StepKinds

LEMMA InitQueue == SchoolInit => QueueInv
BY DEF SchoolInit, RequestInit, QueueInv, Caching

-----------------------------------------------------------------------------
(* Users and their profiles have their types                               *)

\* What a call has read, changed or compared of a user fits his row.  Who is
\* being registered is not there yet, and his father is.
PersonHeld(r) ==
  /\ r.op = "switch" /\ pc[r] = "save" => held[r] \in PersonRows
  /\ r.op = "switch" /\ pc[r] = "write" =>
       Fits(held[r].set, PersonRows) /\ (~held[r].found => held[r].set \in PersonRows)
  /\ r.op = "rejectPhoto" /\ pc[r] \in {"save", "unlink"} => held[r].entity = [image |-> NoRow]
  /\ r.op = "rejectPhoto" /\ pc[r] = "write" =>
       Fits(held[r].set, PersonRows) /\ "card" \notin DOMAIN held[r].set
  /\ r \in Underway("register") =>
       /\ ~Known(r.user)
       /\ \A q \in Underway("register") : q.user = r.user => q = r
       /\ pc[r] = "commit" /\ Studies(r.user) /\ r.father # NoRow => Parent(r.father)

PeopleInv == PeopleTypeOK /\ \A r \in world.calls : PersonHeld(r)

LEMMA PersonPlus ==
  ASSUME NEW columns, NEW row \in PersonRows, DOMAIN columns \subseteq {"active", "image", "card"},
         "active" \in DOMAIN columns => columns["active"] \in BOOLEAN,
         "image" \in DOMAIN columns => columns["image"] \in Values,
         "card" \in DOMAIN columns => columns["card"] \in Values
  PROVE  columns ++ row \in PersonRows
<1> DEFINE new == [active |-> IF "active" \in DOMAIN columns THEN columns["active"] ELSE row.active,
                   image  |-> IF "image" \in DOMAIN columns THEN columns["image"] ELSE row.image,
                   card   |-> IF "card" \in DOMAIN columns THEN columns["card"] ELSE row.card]
<1>1. DOMAIN row = {"active", "image", "card"}
  BY DEF PersonRows
<1>2. columns ++ row = new
  BY <1>1 DEF ++
<1>3. new \in PersonRows
  BY DEF PersonRows
<1> QED BY <1>2, <1>3

\* What an image, a card, and the columns in which a row differs from an entity
\* make of a row.
LEMMA ValueFits ==
  ASSUME NEW value \in Values
  PROVE  Fits([image |-> value], PersonRows) /\ Fits([card |-> value], PersonRows)
BY PersonPlus DEF Fits

LEMMA EntityFits ==
  ASSUME NEW entity \in PersonRows, NEW row, NEW dirty,
         dirty = [c \in Dirty(entity, row) |-> entity[c]]
  PROVE  Fits(entity, PersonRows) /\ Fits(dirty, PersonRows)
<1>1. ASSUME NEW some, DOMAIN some \subseteq DOMAIN entity,
             \A c \in DOMAIN some : some[c] = entity[c]
      PROVE  Fits(some, PersonRows)
  <2>1. /\ DOMAIN entity = {"active", "image", "card"} /\ entity["active"] \in BOOLEAN
        /\ entity["image"] \in Values /\ entity["card"] \in Values
    BY DEF PersonRows
  <2> QED BY <1>1, <2>1, PersonPlus DEF Fits
<1>2. DOMAIN dirty \subseteq DOMAIN entity /\ \A c \in DOMAIN dirty : dirty[c] = entity[c]
  BY DEF Dirty
<1>3. Fits(dirty, PersonRows)
  BY <1>1, <1>2
<1>4. Fits(entity, PersonRows)
  BY <1>1
<1> QED BY <1>3, <1>4

LEMMA PhotoFits ==
  ASSUME NEW some, DOMAIN some \subseteq {"image"}, \A c \in DOMAIN some : some[c] = NoRow
  PROVE  Fits(some, PersonRows) /\ "card" \notin DOMAIN some
BY PersonPlus, PeopleWorldsAssumption DEF Fits

\* A row that may be written of this user.
MayBe(u, row) == row \in PersonRows /\ ~CardTaken(u, row.card)

LEMMA ChangedPerson ==
  ASSUME PeopleInv, NEW u \in Users, Known(u), NEW columns, Fits(columns, PersonRows),
         "card" \notin DOMAIN columns \/ ~CardTaken(u, columns.card)
  PROVE  MayBe(u, columns ++ people[u])
<1> DEFINE new == columns ++ people[u]
<1>1. people[u] \in PersonRows
  BY DEF PeopleInv, PeopleTypeOK, Known
<1>2. new \in PersonRows
  BY <1>1 DEF Fits
<1>3. ~CardTaken(u, people[u].card)
  BY DEF PeopleInv, PeopleTypeOK, OneHolder, CardTaken, Known
<1>4. "card" \in DOMAIN people[u]
  BY <1>1 DEF PersonRows
<1>5. new.card = IF "card" \in DOMAIN columns THEN columns.card ELSE people[u].card
  BY <1>4 DEF ++
<1> QED BY <1>2, <1>3, <1>5 DEF MayBe

LEMMA EditedPerson ==
  ASSUME PeopleInv, NEW u \in Users, NEW columns, Fits(columns, PersonRows),
         "card" \notin DOMAIN columns \/ ~CardTaken(u, columns.card), UpdateUser(u, columns)
  PROVE  \/ UNCHANGED people
         \/ /\ Known(u)
            /\ \E row : MayBe(u, row) /\ people' = [people EXCEPT ![u] = row]
<1>1. CASE Known(u)
  <2>1. people' = [people EXCEPT ![u] = columns ++ people[u]]
    BY <1>1 DEF UpdateUser
  <2> QED BY <1>1, <2>1, ChangedPerson
<1> QED BY <1>1 DEF UpdateUser

\* What the steps of users write: a row of a known user, of one who is being
\* registered, or of one who was removed and whom nobody registers.
Writes(r) ==
  \/ UNCHANGED people
  \/ RemoveUser(r)
  \/ /\ Known(r.user) \/ At(r, "register", "commit") \/ ~Registering(r.user)
     /\ \E row : MayBe(r.user, row) /\ people' = [people EXCEPT ![r.user] = row]

LEMMA SavedPerson ==
  ASSUME ReqInv, PeopleInv, NEW r \in world.calls, r.user \in Users, WriteUser(r)
  PROVE  Writes(r)
<1>1. CASE Refused(r)
  BY <1>1 DEF WriteUser, Writes
<1>2. CASE ~Refused(r)
  <2> DEFINE row == people[r.user]
             set == held[r].set
             new == Saved(r, row, set)
  <2>0. /\ people' = [people EXCEPT ![r.user] = new]
        /\ ~held[r].found => ~Registering(r.user)
        /\ ~KeyTaken(r, row) /\ (~held[r].found => r.op = "switch")
        /\ "card" \notin DOMAIN set \/ ~CardTaken(r.user, set.card)
        /\ r.op \in {"switch", "rejectPhoto"} /\ pc[r] = "write"
    BY <1>2 DEF WriteUser, Refused, At
  <2>1. Fits(set, PersonRows) /\ (~held[r].found => set \in PersonRows)
    BY <2>0 DEF PeopleInv, PersonHeld
  <2>2. CASE held[r].found /\ Known(r.user)
    <3>1. new = set ++ row
      BY <2>2 DEF Saved, Known
    <3>2. MayBe(r.user, new)
      BY <2>0, <2>1, <2>2, <3>1, ChangedPerson
    <3> HIDE DEF new
    <3> QED BY <2>0, <2>2, <3>2 DEF Writes
  <2>3. CASE held[r].found /\ ~Known(r.user)
    <3>1. new = row
      BY <2>3 DEF Saved, Known
    <3>2. UNCHANGED people
      BY <2>0, <3>1 DEF PeopleInv, PeopleTypeOK
    <3> QED BY <3>2 DEF Writes
  <2>4. CASE ~held[r].found
    <3>1. row = NoRow
      BY <2>0, <2>4 DEF KeyTaken
    <3>2. new = set ++ set
      BY <2>4, <3>1 DEF Saved
    <3>3. set \in PersonRows /\ Fits(set, PersonRows)
      BY <2>1, <2>4
    <3>5. set ++ set \in PersonRows
      BY <3>3 DEF Fits
    <3>6. "card" \in DOMAIN set
      BY <3>3 DEF PersonRows
    <3>7. (set ++ set).card = set.card
      BY <3>6 DEF ++
    <3>4. MayBe(r.user, new)
      BY <2>0, <3>2, <3>5, <3>6, <3>7 DEF MayBe
    <3> HIDE DEF new
    <3> QED BY <2>0, <2>4, <3>4 DEF Writes
  <2> QED BY <2>2, <2>3, <2>4
<1> QED BY <1>1, <1>2

LEMMA UserWrites ==
  ASSUME ReqInv, QueueInv, PeopleInv, NEW r \in world.calls, PeopleStep(r)
  PROVE  Writes(r)
<1>0. r.user \in Users
  BY UserMoves, ProfileMoves, PeopleWorldsAssumption DEF PeopleStep, ReqInv
<1>1. CASE InsertUser(r) \/ InsertProfiles(r) \/ Forget(r) \/ FindUser(r) \/ FindEntity(r)
           \/ UnlinkPhoto(r) \/ CompareUser(r) \/ FindCardHolder(r) \/ FindShown(r)
           \/ CheckStored(r) \/ FindPictured(r) \/ DeleteOld(r) \/ FetchDetails(r) \/ StoreDetails(r)
  BY <1>1 DEF InsertUser, InsertProfiles, Forget, FindUser, FindEntity, UnlinkPhoto, CompareUser,
       FindCardHolder, FindShown, CheckStored, FindPictured, DeleteOld, FetchDetails, StoreDetails,
       peopleVars, Writes
<1>2. CASE FindPupil(r) \/ RemovePupil(r) \/ EraseImage(r) \/ Link(r) \/ Unlink(r) \/ CheckLink(r)
           \/ LinkByPhone(r) \/ FindParent(r) \/ RemoveParent(r)
  BY <1>2 DEF FindPupil, RemovePupil, EraseImage, Link, Unlink, CheckLink, LinkByPhone,
       FindParent, RemoveParent, peopleVars, Writes
<1>3. CASE Register(r)
  <2>1. At(r, "register", "commit") /\ r.active \in BOOLEAN /\ r.image \in Values /\ NoRow \in Values
    BY <1>3, PeopleWorldsAssumption DEF Register, At, ReqInv
  <2>2. MayBe(r.user, [active |-> r.active, image |-> r.image, card |-> NoRow])
    BY <2>1 DEF MayBe, PersonRows, CardTaken
  <2> QED BY <1>3, <2>1, <2>2 DEF Register, Writes
<1>4. CASE EditUser(r) \/ WriteParent(r)
  <2>1. Fits(r.set, PersonRows) /\ "card" \notin DOMAIN r.set
    BY <1>4, PeopleWorldsAssumption DEF EditUser, WriteParent, At, ReqInv
  <2> QED BY <1>0, <1>4, <2>1, EditedPerson DEF EditUser, WriteParent, Writes
<1>5. CASE WritePupil(r)
  <2>1. Fits(r.set, PersonRows) /\ "card" \notin DOMAIN r.set
    BY <1>5, PeopleWorldsAssumption DEF WritePupil, At, ReqInv
  <2> QED BY <1>0, <1>5, <2>1, EditedPerson DEF WritePupil, Writes
<1>6. CASE UpdateImageUrl(r) \/ UpdatePupilImage(r)
  <2>1. r.image \in Values
    BY <1>6, PeopleWorldsAssumption DEF UpdateImageUrl, UpdatePupilImage, At, ReqInv
  <2>2. UpdateUser(r.user, [image |-> r.image])
    BY <1>6 DEF UpdateImageUrl, UpdatePupilImage
  <2> QED BY <1>0, <2>1, <2>2, EditedPerson, ValueFits DEF Writes
<1>7. CASE RegisterRfid(r)
  <2>1. r.card \in Values
    BY <1>7, PeopleWorldsAssumption DEF RegisterRfid, At, ReqInv
  <2>2. UNCHANGED people \/ (~CardTaken(r.user, r.card) /\ UpdateUser(r.user, [card |-> r.card]))
    BY <1>7 DEF RegisterRfid
  <2> QED BY <1>0, <2>1, <2>2, EditedPerson, ValueFits DEF Writes
<1>8. CASE WriteUser(r)
  BY <1>0, <1>8, SavedPerson
<1>9. CASE RemoveUser(r)
  BY <1>9 DEF Writes
<1> QED BY <1>1, <1>2, <1>3, <1>4, <1>5, <1>6, <1>7, <1>8, <1>9 DEF PeopleStep, UserStep, ProfileStep

LEMMA PeopleKept ==
  ASSUME PeopleInv, NEW r \in world.calls, r.user \in Users, Writes(r), ~RemoveUser(r)
  PROVE  /\ people' \in [Users -> PersonRows \cup {NoRow}] /\ OneHolder(people')
         /\ \A u \in Users : Known(u) => Known(u)'
         /\ \A u \in Users \ {r.user} : people'[u] = people[u]
<1>0. people \in [Users -> PersonRows \cup {NoRow}] /\ OneHolder(people) /\ NoRow \notin PersonRows
  BY PeopleWorldsAssumption DEF PeopleInv, PeopleTypeOK
<1>1. CASE UNCHANGED people
  BY <1>0, <1>1 DEF Known
<1>2. ASSUME NEW row, MayBe(r.user, row), people' = [people EXCEPT ![r.user] = row]
      PROVE  /\ people' \in [Users -> PersonRows \cup {NoRow}] /\ OneHolder(people')
             /\ \A u \in Users : Known(u) => Known(u)'
             /\ \A u \in Users \ {r.user} : people'[u] = people[u]
  <2>1. /\ people' \in [Users -> PersonRows \cup {NoRow}] /\ people'[r.user] = row
        /\ \A u \in Users \ {r.user} : people'[u] = people[u]
    BY <1>0, <1>2 DEF MayBe
  <2>2. OneHolder(people')
    BY <1>0, <1>2, <2>1 DEF OneHolder, MayBe, CardTaken, Known
  <2>3. \A u \in Users : Known(u) => Known(u)'
    BY <1>0, <1>2, <2>1 DEF Known, MayBe
  <2> QED BY <2>1, <2>2, <2>3
<1> QED BY <1>1, <1>2 DEF Writes

\* Columns of a profile keep it one.
LEMMA ProfilePlus ==
  /\ \A row \in PupilRows : \A u \in Users \cup {NoRow} : [row EXCEPT !.father = u] \in PupilRows
  /\ \A row \in PupilRows : \A columns : Fits(columns, PupilRows) =>
       /\ columns ++ row \in PupilRows
       /\ (columns ++ row).father = IF "father" \in DOMAIN columns THEN columns.father ELSE row.father
  /\ \A row \in ParentRows : \A columns : Fits(columns, ParentRows) => columns ++ row \in ParentRows
<1>1. ASSUME NEW row \in PupilRows, NEW columns, Fits(columns, PupilRows)
      PROVE  /\ columns ++ row \in PupilRows
             /\ (columns ++ row).father =
                  IF "father" \in DOMAIN columns THEN columns.father ELSE row.father
  <2>1. columns ++ row \in PupilRows
    BY <1>1 DEF Fits
  <2>2. "father" \in DOMAIN row
    BY DEF PupilRows
  <2>3. (columns ++ row).father = IF "father" \in DOMAIN columns THEN columns.father ELSE row.father
    BY <2>2 DEF ++
  <2> QED BY <2>1, <2>3
<1>2. ASSUME NEW row \in PupilRows, NEW u \in Users \cup {NoRow}
      PROVE  [row EXCEPT !.father = u] \in PupilRows
  BY DEF PupilRows
<1>3. ASSUME NEW row \in ParentRows, NEW columns, Fits(columns, ParentRows)
      PROVE  columns ++ row \in ParentRows
  BY <1>3 DEF Fits
<1> QED BY <1>1, <1>2, <1>3

\* Profiles of a moment: typed, of users, and of parents.
ProfilesOf(folk, students, raising) ==
  /\ students \in [Users -> PupilRows \cup {NoRow}] /\ raising \in [Users -> ParentRows \cup {NoRow}]
  /\ \A u \in Users :
       /\ students[u] # NoRow \/ raising[u] # NoRow => folk[u] # NoRow
       /\ students[u] # NoRow /\ students[u].father # NoRow => raising[students[u].father] # NoRow

LEMMA PeopleTyped ==
  /\ PeopleTypeOK <=> /\ people \in [Users -> PersonRows \cup {NoRow}] /\ OneHolder(people)
                      /\ ProfilesOf(people, pupils, parents)
  /\ PeopleTypeOK' <=> /\ people' \in [Users -> PersonRows \cup {NoRow}] /\ OneHolder(people')
                       /\ ProfilesOf(people', pupils', parents')
BY DEF PeopleTypeOK, ProfilesOf, Pupil, Parent, Known

LEMMA RegisterTyped ==
  ASSUME ReqInv, PeopleInv, NEW r \in world.calls, Register(r)
  PROVE  PeopleTypeOK'
<1>0. r.user \in Users /\ r.father \in Users \cup {NoRow} /\ At(r, "register", "commit")
  BY PeopleWorldsAssumption DEF Register, At, ReqInv, UserOps
<1>1. /\ ~Known(r.user) /\ (Studies(r.user) /\ r.father # NoRow => Parent(r.father))
      /\ NoRow \notin PersonRows /\ NoRow \notin PupilRows /\ NoRow \notin ParentRows
  BY <1>0, PeopleWorldsAssumption DEF At, PeopleInv, PersonHeld, Underway
<1>2. people \in [Users -> PersonRows \cup {NoRow}] /\ OneHolder(people)
      /\ ProfilesOf(people, pupils, parents)
  BY PeopleTyped DEF PeopleInv
<1>3. CASE UNCHANGED <<people, pupils, parents>>
  BY <1>2, <1>3, PeopleTyped
<1>4. CASE ~UNCHANGED <<people, pupils, parents>>
  <2> DEFINE person == [active |-> r.active, image |-> r.image, card |-> NoRow]
             pupil == [active |-> TRUE, father |-> r.father]
             parent == [active |-> TRUE]
  <2>1. person \in PersonRows /\ pupil \in PupilRows /\ parent \in ParentRows /\ person.card = NoRow
        /\ pupil.father = r.father
    BY <1>0, PeopleWorldsAssumption DEF ReqInv, At, PersonRows, PupilRows, ParentRows
  <2>2. /\ people' = [people EXCEPT ![r.user] = person]
        /\ pupils' = IF Studies(r.user) THEN [pupils EXCEPT ![r.user] = pupil] ELSE pupils
        /\ parents' = IF Raises(r.user) THEN [parents EXCEPT ![r.user] = parent] ELSE parents
    BY <1>4 DEF Register
  <2> HIDE DEF person, pupil, parent
  <2>3. people' \in [Users -> PersonRows \cup {NoRow}] /\ OneHolder(people')
    BY <1>0, <1>1, <1>2, <2>1, <2>2 DEF OneHolder, Known
  <2>4. /\ pupils' \in [Users -> PupilRows \cup {NoRow}] /\ parents' \in [Users -> ParentRows \cup {NoRow}]
        /\ \A u \in Users : people[u] # NoRow => people'[u] # NoRow
        /\ \A u \in Users : parents[u] # NoRow => parents'[u] # NoRow
        /\ people'[r.user] # NoRow
        /\ \A u \in Users \ {r.user} : pupils'[u] = pupils[u] /\ parents'[u] = parents[u]
    BY <1>0, <1>1, <1>2, <2>1, <2>2 DEF ProfilesOf
  <2>5. pupils[r.user] = NoRow /\ (pupils'[r.user] = NoRow \/ (Studies(r.user) /\ pupils'[r.user] = pupil))
    BY <1>0, <1>1, <1>2, <2>2 DEF ProfilesOf, Known
  <2>6. ASSUME NEW u \in Users
        PROVE  /\ pupils'[u] # NoRow \/ parents'[u] # NoRow => people'[u] # NoRow
               /\ pupils'[u] # NoRow /\ pupils'[u].father # NoRow => parents'[pupils'[u].father] # NoRow
    <3>1. CASE u = r.user
      BY <1>0, <1>1, <2>1, <2>4, <2>5, <3>1 DEF Parent
    <3>2. CASE u # r.user
      BY <1>2, <2>4, <3>2 DEF ProfilesOf, PupilRows
    <3> QED BY <3>1, <3>2
  <2>7. ProfilesOf(people', pupils', parents')
    BY <2>4, <2>6 DEF ProfilesOf
  <2> QED BY <2>3, <2>7, PeopleTyped
<1> QED BY <1>3, <1>4

\* No step but a registration gives a user a profile, and none links a student
\* with a father who is no parent.
LEMMA ProfilesKept ==
  ASSUME PeopleInv, NEW r \in world.calls, r.user \in Users, Writes(r), ~RemoveUser(r),
         DOMAIN pupils' = Users, UNCHANGED parents,
         pupils' = [u \in Users |-> pupils'[u]],
         \A u \in Users : pupils'[u] = NoRow \/ (/\ Pupil(u) /\ pupils'[u] \in PupilRows
                                                 /\ \/ pupils'[u].father = pupils[u].father
                                                    \/ pupils'[u].father = NoRow
                                                    \/ Parent(pupils'[u].father))
  PROVE  PeopleTypeOK'
<1>1. /\ people' \in [Users -> PersonRows \cup {NoRow}] /\ OneHolder(people')
      /\ \A u \in Users : people[u] # NoRow => people'[u] # NoRow
  BY PeopleKept DEF Known
<1>2. ProfilesOf(people, pupils, parents)
  BY PeopleTyped DEF PeopleInv
<1>3. ProfilesOf(people', pupils', parents')
  BY <1>1, <1>2 DEF ProfilesOf, Pupil, Parent
<1> QED BY <1>1, <1>3, PeopleTyped

\* Neither do the updates and the removals of a parent leave one behind.
LEMMA ParentTyped ==
  ASSUME ReqInv, PeopleInv, NEW r \in world.calls, r.user \in Users, Writes(r),
         WriteParent(r) \/ RemoveParent(r)
  PROVE  PeopleTypeOK'
<1>1. ~RemoveUser(r) /\ NoRow \notin ParentRows /\ NoRow \notin PupilRows
  BY PeopleWorldsAssumption DEF WriteParent, RemoveParent, RemoveUser, At
<1>2. /\ people' \in [Users -> PersonRows \cup {NoRow}] /\ OneHolder(people')
      /\ \A u \in Users : people[u] # NoRow => people'[u] # NoRow
  BY <1>1, PeopleKept DEF Known
<1>3. ProfilesOf(people, pupils, parents)
  BY PeopleTyped DEF PeopleInv
<1>4. CASE WriteParent(r)
  <2>1. Fits(r.row, ParentRows) /\ UNCHANGED pupils
    BY <1>4, PeopleWorldsAssumption DEF WriteParent, At, ReqInv
  <2>2. /\ DOMAIN parents' = Users /\ parents' = [u \in Users |-> parents'[u]]
        /\ \A u \in Users : \/ parents'[u] = parents[u]
                            \/ parents[u] # NoRow /\ parents'[u] = r.row ++ parents[u]
    BY <1>4 DEF WriteParent, Parent
  <2>3. \A u \in Users : \/ parents'[u] = parents[u]
                         \/ parents[u] # NoRow /\ parents'[u] \in ParentRows
    BY <1>3, <2>1, <2>2, ProfilePlus DEF ProfilesOf
  <2>4. ProfilesOf(people', pupils', parents')
    BY <1>1, <1>2, <1>3, <2>1, <2>2, <2>3 DEF ProfilesOf, PupilRows
  <2> QED BY <1>2, <2>4, PeopleTyped
<1>5. CASE RemoveParent(r)
  <2>1. /\ parents' = [parents EXCEPT ![r.user] = NoRow]
        /\ pupils' = [u \in Users |-> IF Pupil(u) /\ pupils[u].father = r.user
                                      THEN [pupils[u] EXCEPT !.father = NoRow] ELSE pupils[u]]
    BY <1>5 DEF RemoveParent
  <2>2. ASSUME NEW u \in Users
        PROVE  \/ pupils'[u] = pupils[u] /\ (Pupil(u) => pupils[u].father # r.user)
               \/ /\ Pupil(u) /\ pupils'[u] \in PupilRows /\ pupils'[u].father = NoRow
    BY <1>3, <2>1, ProfilePlus DEF ProfilesOf, PupilRows, Pupil
  <2>3. ProfilesOf(people', pupils', parents')
    BY <1>1, <1>2, <1>3, <2>1, <2>2 DEF ProfilesOf, Pupil, PupilRows
  <2> QED BY <1>2, <2>3, PeopleTyped
<1> QED BY <1>4, <1>5

LEMMA RemovalTyped ==
  ASSUME ReqInv, PeopleInv, NEW r \in world.calls, r.user \in Users, RemoveUser(r)
  PROVE  PeopleTypeOK'
<1>1. /\ people \in [Users -> PersonRows \cup {NoRow}] /\ OneHolder(people)
      /\ ProfilesOf(people, pupils, parents) /\ NoRow \notin PupilRows
  BY PeopleTyped, PeopleWorldsAssumption DEF PeopleInv
<1>2. /\ people' = [people EXCEPT ![r.user] = NoRow] /\ parents' = [parents EXCEPT ![r.user] = NoRow]
      /\ pupils' = [u \in Users |-> CASE u = r.user -> NoRow
                                      [] u # r.user /\ Pupil(u) /\ pupils[u].father = r.user ->
                                           [pupils[u] EXCEPT !.father = NoRow]
                                      [] OTHER -> pupils[u]]
  BY DEF RemoveUser
<1>3. people' \in [Users -> PersonRows \cup {NoRow}] /\ OneHolder(people')
  BY <1>1, <1>2 DEF OneHolder
<1>4. ASSUME NEW u \in Users
      PROVE  \/ u = r.user /\ pupils'[u] = NoRow
             \/ u # r.user /\ pupils'[u] = pupils[u] /\ (Pupil(u) => pupils[u].father # r.user)
             \/ u # r.user /\ Pupil(u) /\ pupils'[u] \in PupilRows /\ pupils'[u].father = NoRow
  <2>1. CASE u # r.user /\ Pupil(u) /\ pupils[u].father = r.user
    <3>1. pupils'[u] = [pupils[u] EXCEPT !.father = NoRow] /\ pupils[u] \in PupilRows
      BY <1>1, <1>2, <2>1 DEF ProfilesOf, Pupil
    <3> QED BY <2>1, <3>1, ProfilePlus DEF PupilRows
  <2>2. CASE ~(u # r.user /\ Pupil(u) /\ pupils[u].father = r.user)
    BY <1>2, <2>2
  <2> QED BY <2>1, <2>2
<1>5. /\ pupils' \in [Users -> PupilRows \cup {NoRow}] /\ parents' \in [Users -> ParentRows \cup {NoRow}]
      /\ \A u \in Users \ {r.user} : people'[u] = people[u] /\ parents'[u] = parents[u]
      /\ parents'[r.user] = NoRow
  BY <1>1, <1>2, <1>4 DEF ProfilesOf, Pupil
<1>6. ProfilesOf(people', pupils', parents')
  BY <1>1, <1>4, <1>5 DEF ProfilesOf, Pupil, PupilRows
<1> QED BY <1>3, <1>6, PeopleTyped

LEMMA StudentTyped ==
  ASSUME ReqInv, PeopleInv, NEW r \in world.calls, r.user \in Users, Writes(r),
         WritePupil(r) \/ RemovePupil(r) \/ Link(r) \/ Unlink(r) \/ LinkByPhone(r)
  PROVE  PeopleTypeOK'
<1>0. ~RemoveUser(r)
  BY DEF WritePupil, RemovePupil, Link, Unlink, LinkByPhone, RemoveUser, At
<1>1. /\ pupils \in [Users -> PupilRows \cup {NoRow}] /\ UNCHANGED parents /\ NoRow \notin PupilRows
      /\ \A u \in Users : Pupil(u) /\ pupils[u].father # NoRow => Parent(pupils[u].father)
  BY PeopleWorldsAssumption DEF PeopleInv, PeopleTypeOK, WritePupil, RemovePupil, Link, Unlink, LinkByPhone
<1>2. CASE WritePupil(r)
  <2>1. Fits(r.row, PupilRows)
    BY <1>2, PeopleWorldsAssumption DEF WritePupil, At, ReqInv
  <2>2. \/ UNCHANGED pupils
        \/ /\ Pupil(r.user) /\ pupils' = [pupils EXCEPT ![r.user] = r.row ++ pupils[r.user]]
           /\ Refers(r.row) => Parent(r.row.father)
    BY <1>2 DEF WritePupil
  <2>3. Pupil(r.user) => /\ r.row ++ pupils[r.user] \in PupilRows
                         /\ (r.row ++ pupils[r.user]).father =
                              IF "father" \in DOMAIN r.row THEN r.row.father ELSE pupils[r.user].father
    BY <1>1, <2>1, ProfilePlus DEF Pupil
  <2> QED BY <1>0, <1>1, <2>2, <2>3, ProfilesKept DEF Refers, Pupil
<1>3. CASE RemovePupil(r)
  <2>1. pupils' = [pupils EXCEPT ![r.user] = NoRow]
    BY <1>3 DEF RemovePupil
  <2> QED BY <1>0, <1>1, <2>1, ProfilesKept DEF Pupil
<1>4. CASE Link(r) \/ Unlink(r) \/ LinkByPhone(r)
  <2>1. \/ UNCHANGED pupils
        \/ \E father \in Users \cup {NoRow} :
             /\ Pupil(r.user) /\ (father = NoRow \/ Parent(father))
             /\ pupils' = [pupils EXCEPT ![r.user] = [pupils[r.user] EXCEPT !.father = father]]
    <3>1. CASE Link(r) \/ LinkByPhone(r)
      <4>1. r.father \in Users
        BY <3>1, PeopleWorldsAssumption DEF Link, LinkByPhone, At, ReqInv
      <4> QED BY <3>1, <4>1 DEF Link, LinkByPhone
    <3>2. CASE Unlink(r)
      BY <3>2 DEF Unlink
    <3> QED BY <1>4, <3>1, <3>2
  <2>2. \A father \in Users \cup {NoRow} : Pupil(r.user) =>
          /\ [pupils[r.user] EXCEPT !.father = father] \in PupilRows
          /\ [pupils[r.user] EXCEPT !.father = father].father = father
    BY <1>1, ProfilePlus DEF Pupil, PupilRows
  <2>3. CASE UNCHANGED pupils
    BY <1>0, <1>1, <2>3, ProfilesKept DEF Pupil
  <2>4. ASSUME NEW father \in Users \cup {NoRow}, Pupil(r.user), father = NoRow \/ Parent(father),
               pupils' = [pupils EXCEPT ![r.user] = [pupils[r.user] EXCEPT !.father = father]]
        PROVE  PeopleTypeOK'
    <3> DEFINE new == [pupils[r.user] EXCEPT !.father = father]
    <3>1. new \in PupilRows /\ new.father = father /\ pupils' = [pupils EXCEPT ![r.user] = new]
      BY <2>2, <2>4
    <3> HIDE DEF new
    <3> QED BY <1>0, <1>1, <2>4, <3>1, ProfilesKept DEF Pupil
  <2> QED BY <2>1, <2>3, <2>4
<1> QED BY <1>2, <1>3, <1>4

LEMMA PeopleStepTyped ==
  ASSUME ReqInv, QueueInv, PeopleInv, NEW r \in world.calls, PeopleStep(r)
  PROVE  PeopleTypeOK'
<1>0. r.user \in Users /\ Writes(r)
  BY UserWrites, UserMoves, ProfileMoves, PeopleWorldsAssumption DEF PeopleStep, ReqInv
<1>1. CASE Register(r)
  BY <1>1, RegisterTyped
<1>2. CASE RemoveUser(r)
  BY <1>0, <1>2, RemovalTyped
<1>3. CASE WriteParent(r) \/ RemoveParent(r)
  BY <1>0, <1>3, ParentTyped
<1>4. CASE WritePupil(r) \/ RemovePupil(r) \/ Link(r) \/ Unlink(r) \/ LinkByPhone(r)
  BY <1>0, <1>4, StudentTyped
<1>5. CASE ~(Register(r) \/ RemoveUser(r) \/ WriteParent(r) \/ RemoveParent(r) \/ WritePupil(r)
             \/ RemovePupil(r) \/ Link(r) \/ Unlink(r) \/ LinkByPhone(r))
  <2>1. UNCHANGED <<pupils, parents>>
    <3>1. CASE UserStep(r)
      BY <1>5, <3>1 DEF UserStep, FetchDetails, StoreDetails, InsertUser, InsertProfiles,
           Forget, FindUser, EditUser, FindEntity, UnlinkPhoto, CompareUser, WriteUser,
           FindCardHolder, RegisterRfid, FindShown, CheckStored, FindPictured, UpdateImageUrl,
           DeleteOld, peopleVars, profileVars
    <3>2. CASE ProfileStep(r)
      BY <1>5, <3>2 DEF ProfileStep, FindPupil, EraseImage, UpdatePupilImage, CheckLink, FindParent,
           peopleVars, profileVars
    <3> QED BY <3>1, <3>2 DEF PeopleStep
  <2>2. pupils \in [Users -> PupilRows \cup {NoRow}]
    BY DEF PeopleInv, PeopleTypeOK
  <2> QED BY <1>0, <1>5, <2>1, <2>2, ProfilesKept DEF Pupil
<1> QED BY <1>1, <1>2, <1>3, <1>4, <1>5

\* A parent is lost by his removal, which waits for who refers to him.
LEMMA ParentLost ==
  ASSUME ReqInv, QueueInv, PeopleInv, NEW r \in world.calls, PeopleStep(r), NEW u \in Users, Parent(u),
         ~Parent(u)'
  PROVE  u = r.user /\ ~Referred(u)
<1>0. NoRow \notin ParentRows /\ parents \in [Users -> ParentRows \cup {NoRow}]
  BY PeopleWorldsAssumption DEF PeopleInv, PeopleTypeOK
<1>1. CASE RemoveUser(r) \/ RemoveParent(r)
  BY <1>0, <1>1 DEF RemoveUser, RemoveParent, Parent
<1>2. CASE WriteParent(r)
  <2>1. Fits(r.row, ParentRows)
    BY <1>2, PeopleWorldsAssumption DEF WriteParent, At, ReqInv
  <2>2. parents'[u] = parents[u] \/ parents'[u] = r.row ++ parents[u]
    BY <1>2 DEF WriteParent
  <2> QED BY <1>0, <2>1, <2>2, ProfilePlus DEF Parent
<1>3. CASE Register(r)
  <2>1. NoRow # [active |-> TRUE]
    <3>1. [active |-> TRUE] \in ParentRows
      BY DEF ParentRows
    <3> QED BY <1>0, <3>1
  <2>2. UNCHANGED parents \/ parents' = [parents EXCEPT ![r.user] = [active |-> TRUE]]
    BY <1>3 DEF Register
  <2> QED BY <1>0, <2>1, <2>2 DEF Parent
<1>4. CASE ~(RemoveUser(r) \/ RemoveParent(r) \/ WriteParent(r) \/ Register(r))
  <2>1. UNCHANGED parents
    <3>1. CASE UserStep(r)
      BY <1>4, <3>1 DEF UserStep, FetchDetails, StoreDetails, InsertUser, InsertProfiles,
           Forget, FindUser, EditUser, FindEntity, UnlinkPhoto, CompareUser, WriteUser,
           FindCardHolder, RegisterRfid, FindShown, CheckStored, FindPictured, UpdateImageUrl,
           DeleteOld, peopleVars, profileVars
    <3>2. CASE ProfileStep(r)
      BY <1>4, <3>2 DEF ProfileStep, FindPupil, WritePupil, RemovePupil, EraseImage,
           UpdatePupilImage, Link, Unlink, CheckLink, LinkByPhone, FindParent, peopleVars, profileVars
    <3> QED BY <3>1, <3>2 DEF PeopleStep
  <2> QED BY <2>1 DEF Parent
<1> QED BY <1>1, <1>2, <1>3, <1>4

\* A call that is being registered stays so.
LEMMA RegisteringKept ==
  ASSUME ReqInv, QueueInv, PeopleInv, NEW r \in world.calls, PeopleStep(r), UNCHANGED world,
         NEW q \in Underway("register"), q # r
  PROVE  /\ ~Known(q.user)'
         /\ \A p \in Underway("register")' : p.user = q.user => p = q
         /\ pc[q] = "commit" /\ Studies(q.user) /\ q.father # NoRow => Parent(q.father)'
<1>0. q \in world.calls /\ q.op = "register" /\ q.user \in Users /\ q.father \in Users \cup {NoRow}
      /\ r.user \in Users
  BY UserMoves, ProfileMoves, PeopleWorldsAssumption DEF PeopleStep, ReqInv, Underway, UserOps
<1>1. /\ ~Known(q.user) /\ (pc[q] = "commit" /\ Studies(q.user) /\ q.father # NoRow => Parent(q.father))
      /\ \A p \in Underway("register") : p.user = q.user => p = q
  BY <1>0 DEF PeopleInv, PersonHeld
<1>2. Writes(r)
  BY UserWrites
<1>3. ~Known(q.user)'
  <2>1. CASE q.user = r.user
    <3>1. ~At(r, "register", "commit") /\ Registering(r.user) /\ ~Known(r.user)
      BY <1>0, <1>1, <2>1 DEF At, Underway, Registering
    <3>2. UNCHANGED people \/ RemoveUser(r)
      BY <1>2, <3>1 DEF Writes
    <3> QED BY <1>1, <3>2, <2>1, <1>0 DEF RemoveUser, Known, PeopleInv, PeopleTypeOK
  <2>2. CASE q.user # r.user
    <3>1. UNCHANGED people \/ \E row : people' = [people EXCEPT ![r.user] = row]
      BY <1>2 DEF Writes, RemoveUser
    <3> QED BY <1>0, <1>1, <2>2, <3>1 DEF Known, PeopleInv, PeopleTypeOK
  <2> QED BY <2>1, <2>2
<1>4. pc[q] = "commit" /\ Studies(q.user) /\ q.father # NoRow => Parent(q.father)'
  BY <1>0, <1>1, ParentLost DEF Referred
<1>5. Moves(r)
  BY UserMoves, ProfileMoves DEF PeopleStep
<1>6. ASSUME r \in Underway("register")', r \notin Underway("register") PROVE r.user # q.user
  <2>1. r.op = "register" /\ pc[r] = "start"
    BY <1>5, <1>6 DEF Underway, Moves
  <2>2. pc[r] \notin Caching /\ r.op \notin ProfileOps
    BY <2>1 DEF Caching, ProfileOps
  <2>3. InsertUser(r)
    BY <2>1, <2>2, ProfileMoves DEF PeopleStep, UserStep, At, Caching, FetchDetails, StoreDetails,
       InsertProfiles, Register, Forget, FindUser, EditUser, FindEntity, UnlinkPhoto, CompareUser,
       WriteUser, RemoveUser, FindCardHolder, RegisterRfid, FindShown, CheckStored, FindPictured,
       UpdateImageUrl, DeleteOld
  <2> QED BY <2>3 DEF InsertUser, Registering
<1>7. ASSUME NEW p \in Underway("register")', p.user = q.user PROVE p = q
  <2>1. p \in world.calls
    BY DEF Underway
  <2>2. CASE p = r
    <3>1. r \in Underway("register")
      BY <1>6, <1>7, <2>2
    <3> QED BY <1>1, <1>7, <2>2, <3>1
  <2>3. CASE p # r
    <3>1. p \in Underway("register")
      BY <1>5, <2>1, <2>3 DEF Underway, Moves
    <3> QED BY <1>1, <1>7, <3>1
  <2> QED BY <2>2, <2>3
<1> QED BY <1>3, <1>4, <1>7

LEMMA HeldKept ==
  ASSUME ReqInv, QueueInv, PeopleInv, NEW r \in world.calls, PeopleStep(r), UNCHANGED world,
         NEW q \in world.calls, q # r
  PROVE  PersonHeld(q)'
<1>1. pc'[q] = pc[q] /\ held'[q] = held[q] /\ PersonHeld(q)
  BY UserMoves, ProfileMoves DEF PeopleStep, Moves, PeopleInv
<1>2. ASSUME q \in Underway("register")' PROVE q \in Underway("register")
  BY <1>1, <1>2 DEF Underway
<1>3. Fits(held[q].set, PersonRows) <=> Fits(held'[q].set, PersonRows)
  BY <1>1
<1>4. ASSUME q \in Underway("register")'
      PROVE  /\ ~Known(q.user)'
             /\ \A p \in Underway("register")' : p.user = q.user => p = q
             /\ pc'[q] = "commit" /\ Studies(q.user) /\ q.father # NoRow => Parent(q.father)'
  BY <1>1, <1>2, <1>4, RegisteringKept
<1> QED BY <1>1, <1>3, <1>4 DEF PersonHeld

\* What the call that moves has read, compared or found.
LEMMA SwitchHeld ==
  ASSUME ReqInv, QueueInv, PeopleInv, NEW r \in world.calls, PeopleStep(r), r.op = "switch"
  PROVE  /\ pc'[r] = "save" => held'[r] \in PersonRows
         /\ pc'[r] = "write" => /\ Fits(held'[r].set, PersonRows)
                                /\ ~held'[r].found => held'[r].set \in PersonRows
<1>0. r.user \in Users /\ r.active \in BOOLEAN /\ people \in [Users -> PersonRows \cup {NoRow}]
  BY PeopleWorldsAssumption DEF ReqInv, UserOps, PeopleInv, PeopleTypeOK
<1>1. CASE FetchDetails(r) \/ StoreDetails(r)
  BY <1>1, DetailsMoves DEF Caching, Thens
<1>2. CASE FindEntity(r)
  <2>1. CASE ~Known(r.user)
    BY <1>2, <2>1, AtMoves DEF FindEntity, End
  <2>2. CASE Known(r.user)
    <3>1. GoOn(r, "save", [people[r.user] EXCEPT !.active = r.active]) /\ At(r, "switch", "start")
      BY <1>2, <2>2 DEF FindEntity
    <3>2. [people[r.user] EXCEPT !.active = r.active] \in PersonRows
      BY <1>0, <2>2 DEF PersonRows, Known
    <3>3. pc'[r] = "save" /\ held'[r] = [people[r.user] EXCEPT !.active = r.active]
      BY <3>1, AtMoves
    <3> QED BY <3>2, <3>3
  <2> QED BY <2>1, <2>2
<1>3. CASE CompareUser(r)
  <2> DEFINE entity == held[r]
             row == people[r.user]
             dirty == [c \in Dirty(entity, row) |-> entity[c]]
             compared == Comparison(entity, row)
  <2>1. At(r, "switch", "save") /\ GoOn(r, "write", compared)
    BY <1>3 DEF CompareUser
  <2>2. pc'[r] = "write" /\ held'[r] = compared /\ entity \in PersonRows
    <3> HIDE DEF compared
    <3> QED BY <2>1, AtMoves DEF PeopleInv, PersonHeld, At
  <2>3. Fits(entity, PersonRows) /\ Fits(dirty, PersonRows)
    BY <2>2, EntityFits
  <2>4. \/ compared.found = FALSE /\ compared.set = entity
        \/ compared.found = TRUE /\ compared.set = dirty
    BY DEF Comparison
  <2> HIDE DEF compared, dirty, entity
  <2> QED BY <2>2, <2>3, <2>4
<1>4. CASE WriteUser(r)
  BY <1>4, AtMoves DEF WriteUser, Cache, End
<1>5. FetchDetails(r) \/ StoreDetails(r) \/ FindEntity(r) \/ CompareUser(r) \/ WriteUser(r)
  <2>1. r.op \notin ProfileOps
    BY DEF ProfileOps
  <2> QED BY <2>1, ProfileMoves DEF PeopleStep, UserStep, At, InsertUser, InsertProfiles, Register,
       Forget, FindUser, EditUser, UnlinkPhoto, RemoveUser, FindCardHolder, RegisterRfid, FindShown,
       CheckStored, FindPictured, UpdateImageUrl, DeleteOld
<1> QED BY <1>1, <1>2, <1>3, <1>4, <1>5

LEMMA RejectHeld ==
  ASSUME ReqInv, QueueInv, PeopleInv, NEW r \in world.calls, PeopleStep(r), r.op = "rejectPhoto"
  PROVE  /\ pc'[r] \in {"save", "unlink"} => held'[r].entity = [image |-> NoRow]
         /\ pc'[r] = "write" => /\ Fits(held'[r].set, PersonRows)
                                /\ "card" \notin DOMAIN held'[r].set
<1>1. CASE FetchDetails(r) \/ StoreDetails(r)
  BY <1>1, DetailsMoves DEF Caching, Thens
<1>2. CASE FindEntity(r)
  <2> DEFINE file == people[r.user].image
  <2>1. CASE ~Known(r.user)
    BY <1>2, <2>1, AtMoves DEF FindEntity, End
  <2>2. CASE Known(r.user)
    <3>1. At(r, "rejectPhoto", "start")
          /\ GoOn(r, IF file = NoRow THEN "save" ELSE "unlink", [entity |-> [image |-> NoRow], file |-> file])
      BY <1>2, <2>2 DEF FindEntity, Selected
    <3>2. held'[r] = [entity |-> [image |-> NoRow], file |-> file] /\ pc'[r] # "write"
      BY <3>1, AtMoves
    <3> QED BY <3>2
  <2> QED BY <2>1, <2>2
<1>3. CASE UnlinkPhoto(r)
  BY <1>3, AtMoves DEF UnlinkPhoto, PeopleInv, PersonHeld
<1>4. CASE CompareUser(r)
  <2> DEFINE entity == held[r].entity
             row == people[r.user]
             dirty == [c \in Dirty(entity, row) |-> entity[c]]
             compared == Comparison(entity, row)
  <2>1. At(r, "rejectPhoto", "save") /\ GoOn(r, "write", compared)
    BY <1>4 DEF CompareUser
  <2>2. pc'[r] = "write" /\ held'[r] = compared /\ entity = [image |-> NoRow]
    <3> HIDE DEF compared
    <3> QED BY <2>1, AtMoves DEF PeopleInv, PersonHeld, At
  <2>3. /\ DOMAIN entity = {"image"} /\ \A c \in DOMAIN entity : entity[c] = NoRow
        /\ DOMAIN dirty \subseteq DOMAIN entity /\ \A c \in DOMAIN dirty : dirty[c] = entity[c]
    BY <2>2 DEF Dirty
  <2>4. compared.set = entity \/ compared.set = dirty
    BY DEF Comparison
  <2> HIDE DEF compared, dirty, entity
  <2>5. /\ Fits(entity, PersonRows) /\ "card" \notin DOMAIN entity
        /\ Fits(dirty, PersonRows) /\ "card" \notin DOMAIN dirty
    BY <2>3, PhotoFits
  <2> QED BY <2>2, <2>4, <2>5
<1>5. CASE WriteUser(r)
  BY <1>5, AtMoves DEF WriteUser, Cache, End
<1>6. FetchDetails(r) \/ StoreDetails(r) \/ FindEntity(r) \/ UnlinkPhoto(r) \/ CompareUser(r) \/ WriteUser(r)
  <2>1. r.op \notin ProfileOps
    BY DEF ProfileOps
  <2> QED BY <2>1, ProfileMoves DEF PeopleStep, UserStep, At, InsertUser, InsertProfiles, Register,
       Forget, FindUser, EditUser, RemoveUser, FindCardHolder, RegisterRfid, FindShown,
       CheckStored, FindPictured, UpdateImageUrl, DeleteOld
<1> QED BY <1>1, <1>2, <1>3, <1>4, <1>5, <1>6

LEMMA RegisterHeld ==
  ASSUME ReqInv, QueueInv, PeopleInv, NEW r \in world.calls, PeopleStep(r), UNCHANGED world,
         r \in Underway("register")'
  PROVE  /\ ~Known(r.user)'
         /\ \A q \in Underway("register")' : q.user = r.user => q = r
         /\ pc'[r] = "commit" /\ Studies(r.user) /\ r.father # NoRow => Parent(r.father)'
<1>0. r.op = "register" /\ pc'[r] # "done" /\ pc'[r] # "start"
  BY DEF Underway
<1>1. FetchDetails(r) \/ StoreDetails(r) \/ InsertUser(r) \/ InsertProfiles(r) \/ Register(r)
  <2>1. r.op \notin ProfileOps
    BY <1>0 DEF ProfileOps
  <2> QED BY <1>0, <2>1, ProfileMoves DEF PeopleStep, UserStep, At, Forget, FindUser, EditUser,
       FindEntity, UnlinkPhoto, CompareUser, WriteUser, RemoveUser, FindCardHolder, RegisterRfid,
       FindShown, CheckStored, FindPictured, UpdateImageUrl, DeleteOld
<1>2. Moves(r)
  BY UserMoves, ProfileMoves DEF PeopleStep
<1>3. ~Register(r)
  BY <1>0, AtMoves DEF Register, End
<1>4. UNCHANGED <<people, parents>>
  BY <1>1, <1>3 DEF FetchDetails, StoreDetails, InsertUser, InsertProfiles, peopleVars, profileVars
<1>5. \A q \in Underway("register")' : q \in Underway("register") \/ q = r
  BY <1>2 DEF Underway, Moves
<1>6. CASE InsertUser(r)
  <2>1. ~Registering(r.user) /\ At(r, "register", "start")
    BY <1>6 DEF InsertUser
  <2>2. IF Known(r.user) THEN GoOn(r, "done", NoRow) ELSE GoOn(r, "profiles", NoRow)
    BY <1>6 DEF InsertUser, End
  <2>3. ~Known(r.user) /\ pc'[r] = "profiles"
    BY <1>0, <2>1, <2>2, AtMoves
  <2> QED BY <1>4, <1>5, <2>1, <2>3 DEF Registering, Known
<1>7. CASE InsertProfiles(r)
  <2>1. r \in Underway("register")
    BY <1>0, <1>7 DEF InsertProfiles, At, Underway
  <2>2. pc'[r] = "commit" => (Studies(r.user) /\ r.father # NoRow => Parent(r.father))
    BY <1>7, AtMoves DEF InsertProfiles, End
  <2> QED BY <1>4, <1>5, <2>1, <2>2 DEF PeopleInv, PersonHeld, Known, Parent
<1>8. CASE FetchDetails(r) \/ StoreDetails(r)
  <2>1. r \in Underway("register")
    BY <1>0, <1>8 DEF FetchDetails, StoreDetails, At, Underway
  <2>2. pc'[r] # "commit"
    BY <1>0, <1>8, DetailsMoves DEF Caching, Thens
  <2> QED BY <1>4, <1>5, <2>1, <2>2 DEF PeopleInv, PersonHeld, Known
<1> QED BY <1>1, <1>3, <1>6, <1>7, <1>8

\* Calls that are none of these tables'.
LEMMA PeopleUntouched ==
  ASSUME ReqInv, PeopleInv, NEW r \in world.calls, Moves(r), UNCHANGED <<world, people, pupils, parents>>,
         r.op \notin PeopleOps
  PROVE  PeopleInv'
<1>1. PeopleTypeOK'
  BY PeopleTyped DEF PeopleInv
<1>2. ASSUME NEW q \in world.calls PROVE PersonHeld(q)'
  <2>1. CASE q.op \in PeopleOps
    <3>1. pc'[q] = pc[q] /\ held'[q] = held[q] /\ PersonHeld(q)
      BY <2>1 DEF Moves, PeopleInv
    <3>2. Underway("register")' = Underway("register")
      BY DEF Underway, Moves, PeopleOps, UserOps
    <3> QED BY <3>1, <3>2 DEF PersonHeld, Known, Parent
  <2>2. CASE q.op \notin PeopleOps
    BY <2>2 DEF PersonHeld, Underway, PeopleOps, UserOps
  <2> QED BY <2>1, <2>2
<1> QED BY <1>1, <1>2 DEF PeopleInv

LEMMA NextPeople ==
  ASSUME ReqInv, QueueInv, PeopleInv, [SchoolNext]_schoolVars
  PROVE  PeopleInv'
<1>0. UNCHANGED world
  BY StepKinds
<1>1. ASSUME NEW r \in world.calls, PeopleStep(r) PROVE PeopleInv'
  <2>1. PersonHeld(r)'
    <3>1. \* The clauses about other handlers say nothing.
          /\ r.op = "switch" /\ pc'[r] = "save" => held'[r] \in PersonRows
          /\ r.op = "switch" /\ pc'[r] = "write" =>
               Fits(held'[r].set, PersonRows) /\ (~held'[r].found => held'[r].set \in PersonRows)
      BY <1>1, SwitchHeld
    <3>2. /\ r.op = "rejectPhoto" /\ pc'[r] \in {"save", "unlink"} => held'[r].entity = [image |-> NoRow]
          /\ r.op = "rejectPhoto" /\ pc'[r] = "write" =>
               Fits(held'[r].set, PersonRows) /\ "card" \notin DOMAIN held'[r].set
      BY <1>1, RejectHeld
    <3> QED BY <1>0, <1>1, <3>1, <3>2, RegisterHeld DEF PersonHeld
  <2> QED BY <1>0, <1>1, <2>1, HeldKept, PeopleStepTyped DEF PeopleInv
<1>2. ASSUME NEW r \in world.calls, CallStep(r), ~PeopleStep(r) PROVE PeopleInv'
  <2>1. r.op \notin PeopleOps /\ UNCHANGED peopleVars
    BY <1>2 DEF CallStep, PeopleOps, UserOps, ProfileOps, MemberOps, ClassOps, SubjectOps, OrgOps,
                WorkOps, PaperOps
  <2> QED BY <1>0, <1>2, <2>1, PeopleUntouched DEF CallStep, peopleVars, profileVars
<1>3. CASE RestStep
  BY <1>0, <1>3 DEF RestStep, requestVars, peopleVars, profileVars, PeopleInv, PeopleTypeOK, OneHolder,
     Known, Pupil, Parent, PersonHeld, Underway
<1> QED BY <1>1, <1>2, <1>3, StepKinds

LEMMA InitPeople == SchoolInit => PeopleInv
<1> SUFFICES ASSUME SchoolInit PROVE PeopleInv
  OBVIOUS
<1>1. world \in Worlds /\ people = world.at.people /\ pupils = world.at.pupils
      /\ parents = world.at.parents
  BY DEF SchoolInit, PeopleInit
<1>2. ProfilesOf(people, pupils, parents) /\ OneHolder(people)
      /\ people \in [Users -> PersonRows \cup {NoRow}]
  BY <1>1, PeopleWorldsAssumption DEF ProfilesOf
<1>3. \A r \in world.calls : pc[r] = "start"
  BY DEF SchoolInit, RequestInit
<1> QED BY <1>2, <1>3, PeopleTyped DEF PeopleInv, PersonHeld, Underway

-----------------------------------------------------------------------------
(* One president, who hands over                                           *)

\* Nobody but its founder has a row while an organization is being founded; who
\* adds a member or passes the presidency has found it founded, and the
\* transaction that passes it knows all presidents.
OrgInv ==
  /\ staff \in [Users -> StaffRows \cup {NoRow}] /\ founded \in BOOLEAN
  /\ OnePresident
  /\ \A u \in Staff : Known(u)
  /\ ~founded \/ Underway("found") # {} => Staff = {}
  /\ \A r \in Underway("found") : founded /\ \A q \in Underway("found") : q = r
  /\ \A r \in world.calls :
       /\ r.op = "add" /\ pc[r] = "insert" => Exists
       /\ r.op = "transfer" /\ pc[r] = "promote" => transfer = r
  /\ transfer # NoRow => /\ transfer \in Underway("transfer") /\ pc[transfer] = "promote"
                         /\ held[transfer] = Presidents /\ Exists

\* Steps that found nothing, add nobody and pass no presidency.
LEMMA OrgKept ==
  ASSUME ReqInv, OrgInv, NEW r \in world.calls, Moves(r), UNCHANGED <<world, founded, transfer>>,
         r.op \notin {"found", "add", "transfer"}, staff' \in [Users -> StaffRows \cup {NoRow}],
         Staff' \subseteq Staff, OnePresident', \A u \in Staff' : Known(u)',
         transfer # NoRow => Presidents' = Presidents
  PROVE  OrgInv'
<1>1. Underway("found")' = Underway("found") /\ Underway("transfer")' = Underway("transfer")
  BY DEF Underway, Moves
<1>2. Exists' = Exists
  BY <1>1 DEF Exists
<1>3. \A q \in world.calls : q.op \in {"add", "transfer"} => pc'[q] = pc[q] /\ held'[q] = held[q]
  BY DEF Moves
<1>4. transfer # NoRow => transfer \in world.calls /\ transfer.op = "transfer"
  BY DEF OrgInv, Underway
<1> QED BY <1>1, <1>2, <1>3, <1>4 DEF OrgInv

LEMMA FoundingSound ==
  ASSUME ReqInv, OrgInv, NEW r \in world.calls, UNCHANGED <<world, people>>,
         SaveOrganization(r) \/ SaveFounder(r)
  PROVE  OrgInv'
<1>0. NoRow \notin StaffRows /\ (r.op = "found" => r.user \in Users) /\ NoRow \notin world.calls
  BY OrgWorldsAssumption DEF ReqInv
<1>1. CASE SaveOrganization(r)
  <2>1. /\ Moves(r) /\ r.op = "found" /\ pc[r] = "start" /\ pc'[r] = "member" /\ ~founded /\ founded'
        /\ founded' = TRUE /\ UNCHANGED <<staff, transfer>>
    BY <1>1, AtMoves DEF SaveOrganization
  <2>2. Staff = {} /\ Underway("found") = {} /\ transfer = NoRow
    BY <2>1 DEF OrgInv, Exists
  <2>3. Underway("found")' = {r}
    BY <2>1, <2>2 DEF Underway, Moves
  <2>4. \A q \in world.calls : /\ ~(q.op = "add" /\ pc'[q] = "insert")
                               /\ ~(q.op = "transfer" /\ pc'[q] = "promote")
    BY <2>1, <2>2, <1>0 DEF OrgInv, Exists, Moves
  <2>5. Staff' = {} /\ OnePresident' /\ staff' \in [Users -> StaffRows \cup {NoRow}]
    BY <2>1, <2>2 DEF OrgInv, OnePresident, Presidents, Presiding, Staff
  <2> QED BY <2>1, <2>2, <2>3, <2>4, <2>5 DEF OrgInv
<1>2. CASE SaveFounder(r)
  <2>1. /\ Moves(r) /\ r.op = "found" /\ pc[r] = "member" /\ pc'[r] = "done"
        /\ UNCHANGED <<founded, transfer>> /\ r.user \in Users
    BY <1>0, <1>2, AtMoves DEF SaveFounder, End
  <2>2. r \in Underway("found")
    BY <2>1 DEF Underway
  <2>3. founded /\ Staff = {} /\ Underway("found") = {r} /\ transfer = NoRow
    BY <2>2 DEF OrgInv, Exists
  <2>4. Underway("found")' = {}
    BY <2>1, <2>3 DEF Underway, Moves
  <2>5. \A q \in world.calls : /\ ~(q.op = "add" /\ pc'[q] = "insert")
                               /\ ~(q.op = "transfer" /\ pc'[q] = "promote")
    BY <2>1, <2>2, <2>3, <1>0 DEF OrgInv, Exists, Moves
  <2> DEFINE first == [role |-> IF r.system THEN "PRESIDENT" ELSE "MEMBER", verified |-> TRUE]
  <2>6. first \in StaffRows
    BY DEF StaffRows, OrgRoles
  <2>7. UNCHANGED staff \/ (Known(r.user) /\ staff' = [staff EXCEPT ![r.user] = first])
    BY <1>2 DEF SaveFounder
  <2> HIDE DEF first
  <2>8. staff' \in [Users -> StaffRows \cup {NoRow}] /\ Staff' \subseteq {r.user}
        /\ (Staff' # {} => Known(r.user)')
    BY <1>0, <2>1, <2>3, <2>6, <2>7 DEF OrgInv, Staff, Known
  <2>9. OnePresident'
    BY <2>8 DEF OnePresident, Presidents, Presiding, Staff
  <2> QED BY <2>1, <2>3, <2>4, <2>5, <2>8, <2>9 DEF OrgInv, Known
<1> QED BY <1>1, <1>2

LEMMA AddingSound ==
  ASSUME ReqInv, OrgInv, NEW r \in world.calls, UNCHANGED <<world, people>>,
         CheckStaff(r) \/ InsertStaff(r)
  PROVE  OrgInv'
<1>0. NoRow \notin StaffRows /\ (r.op = "add" => r.user \in Users /\ r.role \in OrgRoles)
  BY OrgWorldsAssumption DEF ReqInv
<1>1. /\ Moves(r) /\ r.op = "add" /\ UNCHANGED <<founded, transfer>>
      /\ pc'[r] = "insert" => Exists
      /\ pc[r] \notin {"done"}
  BY AtMoves DEF CheckStaff, InsertStaff, End, orgVars
<1>2. /\ Underway("found")' = Underway("found") /\ Underway("transfer")' = Underway("transfer")
      /\ \A q \in world.calls : q.op = "transfer" => pc'[q] = pc[q] /\ held'[q] = held[q]
  BY <1>1 DEF Underway, Moves
<1>3. Exists' = Exists
  BY <1>1, <1>2 DEF Exists
<1>4. \A q \in world.calls : q.op = "add" /\ pc'[q] = "insert" => Exists'
  BY <1>1, <1>3 DEF OrgInv, Moves
<1>5. transfer # NoRow => transfer \in world.calls /\ transfer.op = "transfer"
  BY DEF OrgInv, Underway
<1>6. CASE UNCHANGED staff
  BY <1>1, <1>2, <1>3, <1>4, <1>5, <1>6 DEF OrgInv, Staff, Presidents, Presiding, OnePresident, Known
<1>7. CASE ~UNCHANGED staff
  <2> DEFINE new == [role |-> Added(r.role), verified |-> TRUE]
  <2>1. InsertStaff(r)
    BY <1>7 DEF CheckStaff, orgVars
  <2>2. pc[r] = "insert" /\ r.user \notin Staff /\ Known(r.user) /\ staff' = [staff EXCEPT ![r.user] = new]
    BY <1>7, <2>1 DEF InsertStaff, At
  <2>3. new \in StaffRows /\ new.role # "PRESIDENT"
    BY <1>0, <1>1 DEF StaffRows, Added, OrgRoles
  <2>4. Exists
    BY <1>1, <2>2 DEF OrgInv
  <2> HIDE DEF new
  <2>5. /\ staff' \in [Users -> StaffRows \cup {NoRow}] /\ Presidents' = Presidents
        /\ \A u \in Staff' : u \in Staff \/ u = r.user
    BY <1>0, <1>1, <2>2, <2>3 DEF OrgInv, Staff, Presidents, Presiding
  <2>6. OnePresident' /\ \A u \in Staff' : Known(u)'
    BY <2>2, <2>5 DEF OrgInv, OnePresident, Known
  <2> QED BY <1>1, <1>2, <1>3, <1>4, <1>5, <2>4, <2>5, <2>6 DEF OrgInv, Exists
<1> QED BY <1>6, <1>7

LEMMA PassingSound ==
  ASSUME ReqInv, OrgInv, NEW r \in world.calls, UNCHANGED <<world, people>>,
         DemotePresidents(r) \/ PromotePresident(r)
  PROVE  OrgInv'
<1>0. NoRow \notin StaffRows /\ (r.op = "transfer" => r.user \in Users) /\ NoRow \notin world.calls
  BY OrgWorldsAssumption DEF ReqInv
<1>1. Moves(r) /\ r.op = "transfer" /\ UNCHANGED founded
  BY AtMoves DEF DemotePresidents, PromotePresident, End
<1>2. /\ Underway("found")' = Underway("found") /\ Exists' = Exists
      /\ \A q \in world.calls : q.op = "add" => pc'[q] = pc[q]
  BY <1>1 DEF Underway, Moves, Exists
<1>3. CASE DemotePresidents(r)
  <2>1. CASE transfer = NoRow /\ Exists
    <3>1. /\ pc'[r] = "promote" /\ held'[r] = Presidents /\ transfer' = r /\ UNCHANGED staff
      BY <1>3, <2>1, AtMoves DEF DemotePresidents
    <3>2. \A q \in world.calls \ {r} : ~(q.op = "transfer" /\ pc'[q] = "promote")
      BY <1>0, <1>1, <2>1 DEF OrgInv, Moves
    <3>3. transfer' \in Underway("transfer")' /\ Presidents' = Presidents
      BY <1>1, <3>1 DEF Underway, Presidents
    <3> QED BY <1>1, <1>2, <2>1, <3>1, <3>2, <3>3 DEF OrgInv, Staff, OnePresident, Known
  <2>2. CASE ~(transfer = NoRow /\ Exists)
    <3>1. /\ pc[r] = "start" /\ pc'[r] = "done" /\ UNCHANGED <<staff, transfer>>
      BY <1>3, <2>2, AtMoves DEF DemotePresidents, End
    <3>2. transfer # r
      BY <1>0, <3>1 DEF OrgInv
    <3>3. transfer # NoRow => /\ transfer \in Underway("transfer")' /\ pc'[transfer] = pc[transfer]
                              /\ held'[transfer] = held[transfer]
      BY <1>1, <3>2 DEF OrgInv, Underway, Moves
    <3>4. \A q \in world.calls : q.op = "transfer" /\ pc'[q] = "promote" => pc[q] = "promote"
      BY <1>1, <3>1 DEF Moves
    <3> QED BY <1>1, <1>2, <3>1, <3>3, <3>4 DEF OrgInv, Staff, OnePresident, Presidents, Presiding, Known
  <2> QED BY <2>1, <2>2
<1>4. CASE PromotePresident(r)
  <2>1. /\ pc[r] = "promote" /\ pc'[r] = "done" /\ transfer' = NoRow
    BY <1>4, AtMoves DEF PromotePresident, End
  <2>2. transfer = r
    BY <1>1, <2>1 DEF OrgInv
  <2>3. held[r] = Presidents /\ Exists
    BY <1>0, <2>2 DEF OrgInv
  <2>4. \A q \in world.calls : ~(q.op = "transfer" /\ pc'[q] = "promote")
    BY <1>1, <2>1, <2>2 DEF OrgInv, Moves
  <2>5. /\ staff' \in [Users -> StaffRows \cup {NoRow}]
        /\ Staff' = Staff /\ OnePresident'
    <3>1. CASE r.user \notin Staff
      BY <1>4, <3>1 DEF PromotePresident, OrgInv, Staff, OnePresident, Presidents, Presiding
    <3>2. CASE r.user \in Staff
      <4>1. ASSUME NEW u \in Users
            PROVE  \/ u = r.user /\ staff'[u] = [staff[u] EXCEPT !.role = "PRESIDENT"]
                   \/ u # r.user /\ u \in Presidents /\ staff'[u] = [staff[u] EXCEPT !.role = "ADMIN"]
                   \/ u # r.user /\ u \notin Presidents /\ staff'[u] = staff[u]
        BY <1>4, <2>3, <3>2 DEF PromotePresident
      <4>2. \A row \in StaffRows : \A role \in OrgRoles :
              [row EXCEPT !.role = role] \in StaffRows /\ [row EXCEPT !.role = role].role = role
        BY DEF StaffRows
      <4>3. \A u \in Staff : staff[u] \in StaffRows
        BY DEF OrgInv, Staff
      <4>4. Presidents \subseteq Staff /\ "ADMIN" \in OrgRoles /\ "PRESIDENT" \in OrgRoles
        BY DEF Presidents, Presiding, Staff, OrgRoles
      <4>5. ASSUME NEW u \in Users
            PROVE  /\ staff'[u] \in StaffRows \cup {NoRow} /\ (staff'[u] # NoRow <=> staff[u] # NoRow)
                   /\ staff'[u] # NoRow /\ staff'[u].role = "PRESIDENT" => u = r.user
        <5>1. CASE u = r.user
          <6>1. staff'[u] = [staff[u] EXCEPT !.role = "PRESIDENT"] /\ u \in Staff
            BY <3>2, <4>1, <5>1
          <6> QED BY <1>0, <4>2, <4>3, <4>4, <5>1, <6>1 DEF Staff
        <5>2. CASE u # r.user /\ u \in Presidents
          <6>1. staff'[u] = [staff[u] EXCEPT !.role = "ADMIN"] /\ u \in Staff
            BY <4>1, <4>4, <5>2
          <6> QED BY <1>0, <4>2, <4>3, <4>4, <6>1 DEF Staff
        <5>3. CASE u # r.user /\ u \notin Presidents
          <6>1. staff'[u] = staff[u]
            BY <4>1, <5>3
          <6> QED BY <5>3, <6>1 DEF OrgInv, Presidents, Presiding
        <5> QED BY <5>1, <5>2, <5>3
      <4>6. DOMAIN staff' = Users /\ staff' = [u \in Users |-> staff'[u]]
        BY <1>4, <3>2 DEF PromotePresident
      <4> QED BY <4>5, <4>6 DEF Staff, OnePresident, Presidents, Presiding
    <3> QED BY <3>1, <3>2
  <2> QED BY <1>1, <1>2, <2>1, <2>3, <2>4, <2>5 DEF OrgInv, Known, Exists
<1> QED BY <1>3, <1>4

LEMMA RolesSound ==
  ASSUME ReqInv, OrgInv, NEW r \in world.calls, UNCHANGED <<world, people>>,
         ChangeStaffRole(r) \/ RemoveStaff(r) \/ CheckMember(r) \/ CheckPlaced(r)
  PROVE  OrgInv'
<1>0. /\ NoRow \notin StaffRows
      /\ r.op \in {"assignRole", "changeRole"} => r.user \in Users /\ r.role \in OrgRoles
  BY OrgWorldsAssumption DEF ReqInv
<1>1. Moves(r) /\ r.op \notin {"found", "add", "transfer"} /\ UNCHANGED <<founded, transfer>>
  BY AtMoves DEF ChangeStaffRole, RemoveStaff, CheckMember, CheckPlaced, End, orgVars
<1>2. transfer # NoRow => held[transfer] = Presidents
  BY DEF OrgInv
<1>3. CASE UNCHANGED staff
  <2>1. Staff' = Staff /\ Presidents' = Presidents
    BY <1>3 DEF Staff, Presidents
  <2> QED BY <1>1, <1>3, <2>1, OrgKept DEF OrgInv, OnePresident, Known
<1>4. CASE ChangeStaffRole(r) /\ ~UNCHANGED staff
  <2> DEFINE new == [staff[r.user] EXCEPT !.role = r.role]
  <2>1. /\ r.op \in {"assignRole", "changeRole"} /\ r.role # "PRESIDENT" /\ r.user \in Staff
        /\ Unlocked(r.user) /\ staff' = [staff EXCEPT ![r.user] = new]
    BY <1>4 DEF ChangeStaffRole, At
  <2>2. new \in StaffRows /\ new.role # "PRESIDENT"
    <3>1. staff[r.user] \in StaffRows
      BY <2>1 DEF OrgInv, Staff
    <3> QED BY <1>0, <2>1, <3>1 DEF StaffRows
  <2> HIDE DEF new
  <2>3. /\ staff' \in [Users -> StaffRows \cup {NoRow}] /\ Staff' = Staff
        /\ Presidents' = Presidents \ {r.user}
    BY <1>0, <2>1, <2>2 DEF OrgInv, Staff, Presidents, Presiding
  <2>4. OnePresident' /\ (transfer # NoRow => Presidents' = Presidents)
    BY <1>2, <2>1, <2>3 DEF OrgInv, OnePresident, Unlocked
  <2> QED BY <1>1, <2>3, <2>4, OrgKept DEF OrgInv, Known
<1>5. CASE RemoveStaff(r) /\ ~UNCHANGED staff
  <2>1. Ordinary(r.user) /\ staff' = [staff EXCEPT ![r.user] = NoRow]
    BY <1>5 DEF RemoveStaff
  <2>2. /\ staff' \in [Users -> StaffRows \cup {NoRow}] /\ Staff' \subseteq Staff
        /\ Presidents' = Presidents
    BY <2>1 DEF OrgInv, Ordinary, Staff, Presidents, Presiding
  <2> QED BY <1>1, <2>2, OrgKept DEF OrgInv, OnePresident, Known
<1> QED BY <1>3, <1>4, <1>5 DEF CheckMember, CheckPlaced, orgVars

\* A removed user leaves his organization, unless a transfer holds his row.
LEMMA LeavingSound ==
  ASSUME ReqInv, QueueInv, PeopleInv, OrgInv, NEW r \in world.calls, UNCHANGED world,
         PeopleStep(r), Cascade(r)
  PROVE  OrgInv'
<1>0. r.user \in Users /\ Writes(r) /\ r.op \in PeopleOps
  BY UserWrites, UserMoves, ProfileMoves, PeopleWorldsAssumption DEF PeopleStep, ReqInv, PeopleOps
<1>1. Moves(r) /\ r.op \notin {"found", "add", "transfer"} /\ UNCHANGED <<founded, transfer>>
  BY <1>0, UserMoves, ProfileMoves DEF PeopleStep, Cascade, PeopleOps, UserOps, ProfileOps
<1>2. staff' = [u \in Users |-> IF people'[u] = NoRow THEN NoRow ELSE staff[u]]
  BY DEF Cascade
<1>3. /\ staff' \in [Users -> StaffRows \cup {NoRow}] /\ Staff' \subseteq Staff
      /\ \A u \in Staff' : Known(u)'
      /\ Presidents' \subseteq Presidents
  BY <1>2 DEF OrgInv, Staff, Known, Presidents, Presiding
<1>4. ASSUME transfer # NoRow, NEW u \in Presidents, u \notin Presidents' PROVE FALSE
  <2>1. u \in Users /\ Known(u) /\ people'[u] = NoRow
    BY <1>2, <1>4, OrgWorldsAssumption DEF OrgInv, Presidents, Presiding, Staff
  <2>2. RemoveUser(r)
    BY <1>0, <2>1, PeopleKept DEF Known
  <2>3. u = r.user
    BY <2>1, <2>2 DEF RemoveUser, Known, PeopleInv, PeopleTypeOK
  <2>4. Unlocked(u)
    BY <2>2, <2>3 DEF Cascade, Taken, RemoveUser, At
  <2> QED BY <1>4, <2>4 DEF Unlocked, OrgInv
<1>5. OnePresident'
  BY <1>3 DEF OrgInv, OnePresident
<1>6. transfer # NoRow => Presidents' = Presidents
  <2>1. transfer # NoRow => Presidents \subseteq Presidents'
    BY <1>4
  <2> QED BY <1>3, <2>1
<1> QED BY <1>1, <1>3, <1>5, <1>6, OrgKept

LEMMA NextOrg ==
  ASSUME ReqInv, QueueInv, PeopleInv, OrgInv, [SchoolNext]_schoolVars
  PROVE  OrgInv'
<1>0. UNCHANGED world
  BY StepKinds
<1>1. ASSUME NEW r \in world.calls, CallStep(r) PROVE OrgInv'
  <2>1. CASE PeopleStep(r) /\ Cascade(r)
    BY <1>0, <2>1, LeavingSound
  <2>2. CASE OrgStep(r) /\ UNCHANGED peopleVars
    BY <1>0, <2>2, FoundingSound, AddingSound, PassingSound, RolesSound DEF OrgStep, peopleVars
  <2>3. CASE UNCHANGED orgVars /\ UNCHANGED peopleVars /\ r.op \notin OrgOps \ {"place"}
    <3>1. Moves(r) /\ Staff' = Staff /\ Presidents' = Presidents /\ UNCHANGED <<staff, founded, transfer, people>>
      BY <1>1, <2>3 DEF CallStep, orgVars, peopleVars, Staff, Presidents
    <3> QED BY <1>0, <2>3, <3>1, OrgKept DEF OrgInv, OnePresident, Known, OrgOps
  <2> QED BY <1>1, <2>1, <2>2, <2>3 DEF CallStep, MemberOps, ClassOps, SubjectOps, WorkOps, PaperOps,
                                        OrgOps
<1>2. CASE RestStep
  BY <1>0, <1>2 DEF RestStep, requestVars, peopleVars, orgVars, OrgInv, Staff, OnePresident,
     Presidents, Known, Underway, Exists
<1> QED BY <1>1, <1>2, StepKinds

LEMMA InitOrg == SchoolInit => OrgInv
<1> SUFFICES ASSUME SchoolInit PROVE OrgInv
  OBVIOUS
<1>1. /\ world \in Worlds /\ staff = world.at.staff /\ people = world.at.people
      /\ founded = (Staff # {}) /\ transfer = NoRow /\ \A r \in world.calls : pc[r] = "start"
  BY DEF SchoolInit, PeopleInit, OrgInit, RequestInit
<1> QED BY <1>1, OrgWorldsAssumption DEF OrgInv, OnePresident, Presidents, Staff, Known, Underway

\* What a step does to the presidents.
LEMMA PresidentsPassed ==
  ASSUME ReqInv, QueueInv, PeopleInv, OrgInv, [SchoolNext]_schoolVars, NEW u \in Presidents \ Presidents'
  PROVE  \/ people'[u] = NoRow
         \/ \E v \in Presidents' : v \notin Presidents
         \/ \E r \in world.calls : /\ r.op = "assignRole" /\ r.user = u
                                   /\ pc[r] = "start" /\ pc'[r] = "done"
<1>0. u \in Users /\ u \in Staff /\ staff[u].role = "PRESIDENT" /\ staff[u] # NoRow
  BY DEF Presidents, Presiding, Staff
<1>1. ASSUME UNCHANGED staff PROVE FALSE
  BY <1>1 DEF Presidents
<1>2. ASSUME NEW r \in world.calls, Cascade(r) PROVE people'[u] = NoRow
  BY <1>0, <1>2 DEF Cascade, Presidents, Presiding
<1>3. ASSUME NEW r \in world.calls, SaveFounder(r) PROVE FALSE
  <2>1. r \in Underway("found")
    BY <1>3 DEF SaveFounder, At, Underway
  <2> QED BY <1>0, <2>1 DEF OrgInv
<1>4. ASSUME NEW r \in world.calls, InsertStaff(r) PROVE FALSE
  <2>1. staff'[u] = staff[u]
    BY <1>0, <1>4 DEF InsertStaff, OrgInv
  <2> QED BY <1>0, <2>1 DEF Presidents, Presiding
<1>5. ASSUME NEW r \in world.calls, ChangeStaffRole(r)
      PROVE  r.op = "assignRole" /\ r.user = u /\ pc[r] = "start" /\ pc'[r] = "done"
  <2>1. pc[r] = "start" /\ pc'[r] = "done" /\ r.op \in {"assignRole", "changeRole"}
    BY <1>5, AtMoves DEF ChangeStaffRole, End
  <2>2. staff' = [staff EXCEPT ![r.user].role = r.role] /\ (r.op = "changeRole" => Ordinary(r.user))
    BY <1>1, <1>5 DEF ChangeStaffRole
  <2>3. u = r.user
    BY <1>0, <2>2 DEF OrgInv, Presidents, Presiding
  <2> QED BY <1>0, <2>1, <2>2, <2>3 DEF Ordinary, Presidents
<1>6. ASSUME NEW r \in world.calls, RemoveStaff(r) PROVE FALSE
  <2>1. staff'[u] = staff[u]
    BY <1>0, <1>6 DEF RemoveStaff, Ordinary, OrgInv
  <2> QED BY <1>0, <2>1 DEF Presidents, Presiding
<1>7. ASSUME NEW r \in world.calls, PromotePresident(r)
      PROVE  r.user \in Presidents' /\ r.user \notin Presidents
  <2>1. r.user \in Staff /\ staff' = [v \in Users |->
                      CASE v = r.user -> [staff[v] EXCEPT !.role = "PRESIDENT"]
                        [] v # r.user /\ v \in held[r] -> [staff[v] EXCEPT !.role = "ADMIN"]
                        [] OTHER -> staff[v]]
    BY <1>1, <1>7 DEF PromotePresident
  <2>2. r.user \in Users /\ staff'[r.user] = [staff[r.user] EXCEPT !.role = "PRESIDENT"]
        /\ staff[r.user] \in StaffRows
    BY <2>1 DEF Staff, OrgInv
  <2>3. staff'[r.user] \in StaffRows /\ staff'[r.user].role = "PRESIDENT"
    BY <2>2 DEF StaffRows, OrgRoles
  <2>4. r.user \in Presidents'
    BY <2>2, <2>3, OrgWorldsAssumption DEF Presidents, Presiding
  <2>5. r.user # u
    BY <2>4
  <2> QED BY <2>4, <2>5 DEF OrgInv, OnePresident
<1>8. (\E r \in world.calls : CallStep(r)) \/ RestStep
  BY StepKinds
<1>9. CASE RestStep
  BY <1>1, <1>9 DEF RestStep, orgVars
<1>10. ASSUME NEW r \in world.calls, CallStep(r)
       PROVE  \/ people'[u] = NoRow
              \/ \E v \in Presidents' : v \notin Presidents
              \/ \E q \in world.calls : /\ q.op = "assignRole" /\ q.user = u
                                        /\ pc[q] = "start" /\ pc'[q] = "done"
  <2>1. UNCHANGED staff \/ Cascade(r) \/ OrgStep(r)
    BY <1>10 DEF CallStep, orgVars
  <2>2. OrgStep(r) => \/ UNCHANGED staff \/ SaveFounder(r) \/ InsertStaff(r) \/ ChangeStaffRole(r)
                      \/ RemoveStaff(r) \/ PromotePresident(r)
    BY DEF OrgStep, SaveOrganization, CheckStaff, DemotePresidents, CheckMember, CheckPlaced, orgVars
  <2> QED BY <1>1, <1>2, <1>3, <1>4, <1>5, <1>6, <1>7, <2>1, <2>2
<1> QED BY <1>8, <1>9, <1>10

\* All that is known of a school whatever happens.
BaseInv == ReqInv /\ QueueInv /\ PeopleInv

LEMMA BaseInvariant == SchoolSpec => []BaseInv
<1>1. SchoolInit => BaseInv
  BY InitReq, InitQueue, InitPeople DEF BaseInv
<1>2. BaseInv /\ [SchoolNext]_schoolVars => BaseInv'
  BY NextReq, NextQueue, NextPeople DEF BaseInv
<1> QED BY <1>1, <1>2, PTL DEF SchoolSpec

\* "Organization can only have one president", and a president stops being one
\* only when another member becomes president in the same step, unless
\* assignUserRole gives him another role or the user himself is removed:
\* whatever the calls, and in whatever order their steps meet.
THEOREM PresidencySound == SchoolSpec => PresidencyHolds
<1> DEFINE Passed == \A u \in Presidents \ Presidents' :
                       \/ people'[u] = NoRow
                       \/ \E v \in Presidents' : v \notin Presidents
                       \/ \E r \in world.calls : /\ r.op = "assignRole" /\ r.user = u
                                                 /\ pc[r] = "start" /\ pc'[r] = "done"
<1>1. SchoolInit => OrgInv
  BY InitOrg
<1>2. BaseInv /\ OrgInv /\ [SchoolNext]_schoolVars => OrgInv' /\ [Passed]_staff
  BY NextOrg, PresidentsPassed DEF BaseInv
<1>3. OrgInv => OnePresident
  BY DEF OrgInv
<1> QED BY <1>1, <1>2, <1>3, BaseInvariant, PTL DEF SchoolSpec, PresidencyHolds, PresidencyPassed

-----------------------------------------------------------------------------
(* Members                                                                 *)

LEMMA NextMembers ==
  ASSUME ReqInv, QueueInv, MemberInv, [SchoolNext]_schoolVars
  PROVE  MemberInv'
<1>0. UNCHANGED world
  BY StepKinds
<1>1. ASSUME NEW r \in world.calls, CallStep(r), ~MemberStep(r) PROVE MemberInv'
  <2>1. Moves(r) /\ (r.op \in Saving => r.op = "place" /\ OrgStep(r))
    BY <1>1 DEF CallStep, Saving, PeopleOps, UserOps, ProfileOps, ClassOps, SubjectOps, OrgOps,
                WorkOps, PaperOps
  <2>2. OrgStep(r) => pc'[r] # "write"
    BY AtMoves DEF OrgStep, SaveOrganization, SaveFounder, CheckStaff, InsertStaff, ChangeStaffRole,
       RemoveStaff, DemotePresidents, PromotePresident, CheckMember, CheckPlaced, End
  <2>3. \/ UNCHANGED members
        \/ members' = [u \in Users |-> IF people'[u] = NoRow THEN NoRow ELSE members[u]]
    BY <1>1 DEF CallStep, Cascade, memberVars
  <2>4. DOMAIN members' = Users /\ \A u \in Users : members'[u] = NoRow \/ MemberRow(members'[u])
    BY <2>3 DEF MemberInv
  <2> QED BY <1>0, <2>1, <2>2, <2>4, MembersKept DEF Saving
<1>2. CASE RestStep
  BY <1>0, <1>2 DEF RestStep, requestVars, memberVars, MemberInv, MemberRow, Typed
<1> QED BY <1>0, <1>1, <1>2, MemberStepTyped, StepKinds

LEMMA InitMembers == SchoolInit => MemberInv
<1> SUFFICES ASSUME SchoolInit PROVE MemberInv
  OBVIOUS
<1>1. world \in Worlds /\ members = world.at.members /\ \A r \in world.calls : pc[r] = "start"
  BY DEF SchoolInit, MembersInit, RequestInit
<1> QED BY <1>1, MemberWorldsAssumption DEF MemberInv

-----------------------------------------------------------------------------
(* Enrolments                                                              *)

\* What is compared of an enrolment fits its row; only a teacher's assignment
\* verifies it.
RollHeld(r) ==
  r.op = "enrol" /\ pc[r] = "write" =>
    /\ Fits(held[r].set, RollRows)
    /\ "isVerified" \in DOMAIN held[r].set /\ held[r].set.isVerified => r.way = "teacher" /\ ~r.unverified

ClassInv == ClassTypeOK /\ \A r \in world.calls : RollHeld(r)

LEMMA RollPlus ==
  ASSUME NEW columns, DOMAIN columns \subseteq {"isActive", "isVerified", "method"},
         "isActive" \in DOMAIN columns => columns["isActive"] \in BOOLEAN,
         "isVerified" \in DOMAIN columns => columns["isVerified"] \in BOOLEAN,
         "method" \in DOMAIN columns => columns["method"] \in {"self_enrollment", "teacher_assigned"}
  PROVE  Fits(columns, RollRows)
<1>1. ASSUME NEW row \in RollRows PROVE columns ++ row \in RollRows
  <2> DEFINE new == [isActive |-> IF "isActive" \in DOMAIN columns THEN columns["isActive"]
                                  ELSE row.isActive,
                     isVerified |-> IF "isVerified" \in DOMAIN columns THEN columns["isVerified"]
                                    ELSE row.isVerified,
                     method |-> IF "method" \in DOMAIN columns THEN columns["method"] ELSE row.method]
  <2>1. DOMAIN row = {"isActive", "isVerified", "method"}
    BY DEF RollRows
  <2>2. columns ++ row = new
    BY <2>1 DEF ++
  <2>3. new \in RollRows
    BY DEF RollRows
  <2> QED BY <2>2, <2>3
<1> QED BY <1>1 DEF Fits

\* What an enrolment writes.
LEMMA EnrolmentFits ==
  ASSUME ReqInv, NEW r \in world.calls, r.op = "enrol", NEW some,
         DOMAIN some \subseteq DOMAIN Enrolment(r), \A c \in DOMAIN some : some[c] = Enrolment(r)[c]
  PROVE  /\ Fits(some, RollRows)
         /\ "isVerified" \in DOMAIN some /\ some.isVerified => r.way = "teacher" /\ ~r.unverified
<1>0. /\ r.way \in {"self", "code", "teacher", "manual"}
      /\ r.way = "teacher" => r.unverified \in BOOLEAN
      /\ r.way = "manual" => r.isActive \in BOOLEAN
  BY ClassWorldsAssumption DEF ReqInv
<1>1. CASE r.way = "manual"
  BY <1>0, <1>1, RollPlus DEF Enrolment
<1>2. CASE r.way = "teacher"
  BY <1>0, <1>2, RollPlus DEF Enrolment
<1>3. CASE r.way \notin {"manual", "teacher"}
  BY <1>0, <1>3, RollPlus DEF Enrolment
<1> QED BY <1>1, <1>2, <1>3

LEMMA ClassKept ==
  ASSUME ReqInv, ClassInv, NEW r \in world.calls, Moves(r), UNCHANGED world,
         rolls' \in [Users -> RollRows \cup {NoRow}], door'.open \in BOOLEAN,
         ~(r.op = "enrol" /\ pc'[r] = "write")
  PROVE  ClassInv'
<1>1. ASSUME NEW q \in world.calls PROVE RollHeld(q)'
  <2>1. CASE q = r
    BY <2>1 DEF RollHeld
  <2>2. CASE q # r
    BY <2>2 DEF RollHeld, ClassInv, Moves
  <2> QED BY <2>1, <2>2
<1> QED BY <1>1 DEF ClassInv, ClassTypeOK

LEMMA RollUpdated ==
  ASSUME ClassInv, NEW u, NEW columns, Fits(columns, RollRows), UpdateRoll(u, columns)
  PROVE  rolls' \in [Users -> RollRows \cup {NoRow}]
<1>1. CASE u \in Users /\ rolls[u] # NoRow
  <2>1. columns ++ rolls[u] \in RollRows /\ rolls' = [rolls EXCEPT ![u] = columns ++ rolls[u]]
    BY <1>1 DEF ClassInv, ClassTypeOK, Fits, UpdateRoll
  <2> QED BY <2>1 DEF ClassInv, ClassTypeOK
<1>2. CASE ~(u \in Users /\ rolls[u] # NoRow)
  BY <1>2 DEF UpdateRoll, ClassInv, ClassTypeOK
<1> QED BY <1>1, <1>2

LEMMA ClassStepTyped ==
  ASSUME ReqInv, ClassInv, NEW r \in world.calls, ClassStep(r), UNCHANGED world
  PROVE  ClassInv'
<1>0. Moves(r) /\ rolls \in [Users -> RollRows \cup {NoRow}] /\ door.open \in BOOLEAN
  BY ClassMoves DEF ClassInv, ClassTypeOK
<1>1. CASE CompareRoll(r)
  <2> DEFINE entity == Enrolment(r)
             row == rolls[r.user]
             dirty == [c \in Dirty(entity, row) |-> entity[c]]
             compared == Comparison(entity, row)
  <2>1. At(r, "enrol", "save") /\ GoOn(r, "write", compared) /\ UNCHANGED classVars
    BY <1>1 DEF CompareRoll
  <2>2. r.op = "enrol" /\ held'[r] = compared
    <3> HIDE DEF compared
    <3> QED BY <2>1, AtMoves
  <2>3. compared.set = entity \/ compared.set = dirty
    BY DEF Comparison
  <2>4. DOMAIN dirty \subseteq DOMAIN entity /\ \A c \in DOMAIN dirty : dirty[c] = entity[c]
    BY DEF Dirty
  <2> HIDE DEF compared, dirty
  <2>5. /\ Fits(compared.set, RollRows)
        /\ "isVerified" \in DOMAIN compared.set /\ compared.set.isVerified
             => r.way = "teacher" /\ ~r.unverified
    BY <2>2, <2>3, <2>4, EnrolmentFits
  <2>6. ASSUME NEW q \in world.calls PROVE RollHeld(q)'
    <3>1. CASE q = r
      BY <2>2, <2>5, <3>1 DEF RollHeld
    <3>2. CASE q # r
      BY <1>0, <3>2 DEF RollHeld, ClassInv, Moves
    <3> QED BY <3>1, <3>2
  <2> QED BY <2>1, <2>6, <1>0 DEF ClassInv, ClassTypeOK, classVars
<1>2. CASE WriteRoll(r)
  <2>1. r.op = "enrol" /\ pc[r] = "write" /\ pc'[r] = "done" /\ UNCHANGED door
    BY <1>2, AtMoves DEF WriteRoll, End
  <2> DEFINE new == Saved(r, rolls[r.user], NewRoll)
  <2>2. UNCHANGED rolls \/ rolls' = [rolls EXCEPT ![r.user] = new]
    BY <1>2 DEF WriteRoll
  <2>3. Fits(held[r].set, RollRows)
    BY <2>1 DEF ClassInv, RollHeld
  <2>4. NewRoll \in RollRows
    BY DEF NewRoll, RollRows
  <2>5. r.user \in Users => new \in RollRows \cup {NoRow}
    BY <1>0, <2>3, <2>4 DEF Saved, Fits
  <2> HIDE DEF new
  <2>6. rolls' \in [Users -> RollRows \cup {NoRow}]
    BY <1>0, <2>2, <2>5
  <2> QED BY <1>0, <2>1, <2>6, ClassKept
<1>3. CASE SetActive(r) \/ ApproveRoll(r)
  <2>1. r.op # "enrol" /\ UNCHANGED door
    BY <1>3, AtMoves DEF SetActive, ApproveRoll, End
  <2>2. \E columns : Fits(columns, RollRows) /\ UpdateRoll(r.user, columns)
    <3>1. CASE SetActive(r)
      <4>1. r.isActive \in BOOLEAN
        BY <3>1, ClassWorldsAssumption DEF SetActive, At, ReqInv
      <4>2. Fits([isActive |-> r.isActive], RollRows)
        BY <4>1, RollPlus
      <4> QED BY <3>1, <4>2 DEF SetActive
    <3>2. CASE ApproveRoll(r)
      <4>1. Fits([isVerified |-> TRUE], RollRows)
        BY RollPlus
      <4> QED BY <3>2, <4>1 DEF ApproveRoll
    <3> QED BY <1>3, <3>1, <3>2
  <2> QED BY <1>0, <2>1, <2>2, RollUpdated, ClassKept
<1>4. CASE BeginEnrol(r) \/ CheckEnrolled(r) \/ FindRoll(r) \/ Unenrol(r)
  <2>1. pc'[r] # "write" /\ UNCHANGED door
    BY <1>4, AtMoves DEF BeginEnrol, CheckEnrolled, FindRoll, Unenrol, End, classVars
  <2>2. UNCHANGED rolls \/ rolls' = [rolls EXCEPT ![r.user] = NoRow]
    BY <1>4 DEF BeginEnrol, CheckEnrolled, FindRoll, Unenrol, classVars
  <2> QED BY <1>0, <2>1, <2>2, ClassKept
<1>5. CASE BulkRemove(r) \/ SetDoor(r)
  <2>1. pc'[r] # "write"
    BY <1>5, AtMoves DEF BulkRemove, SetDoor, End
  <2>2. rolls' \in [Users -> RollRows \cup {NoRow}] /\ door'.open \in BOOLEAN
    <3>1. CASE BulkRemove(r)
      BY <1>0, <3>1 DEF BulkRemove
    <3>2. CASE SetDoor(r)
      <4>1. /\ UNCHANGED rolls
            /\ \/ door' = [open |-> FALSE, code |-> NoRow]
               \/ door' = [open |-> TRUE, code |-> r.code]
        BY <3>2 DEF SetDoor
      <4>2. door'.open = FALSE \/ door'.open = TRUE
        BY <4>1
      <4>3. door'.open \in BOOLEAN
        BY <4>2, Zenon
      <4> QED BY <1>0, <4>1, <4>3
    <3> QED BY <1>5, <3>1, <3>2
  <2> QED BY <1>0, <2>1, <2>2, ClassKept
<1> QED BY <1>1, <1>2, <1>3, <1>4, <1>5 DEF ClassStep

LEMMA NextClass ==
  ASSUME ReqInv, QueueInv, ClassInv, [SchoolNext]_schoolVars
  PROVE  ClassInv'
<1>0. UNCHANGED world
  BY StepKinds
<1>1. ASSUME NEW r \in world.calls, CallStep(r), ~ClassStep(r) PROVE ClassInv'
  <2>1. Moves(r) /\ r.op # "enrol"
    BY <1>1 DEF CallStep, PeopleOps, UserOps, ProfileOps, MemberOps, SubjectOps, OrgOps, WorkOps, PaperOps
  <2>2. /\ UNCHANGED door
        /\ \/ UNCHANGED rolls
           \/ rolls' = [u \in Users |-> IF pupils'[u] = NoRow THEN NoRow ELSE rolls[u]]
    BY <1>1 DEF CallStep, Cascade, classVars
  <2> QED BY <1>0, <2>1, <2>2, ClassKept DEF ClassInv, ClassTypeOK
<1>2. CASE RestStep
  BY <1>0, <1>2 DEF RestStep, requestVars, classVars, ClassInv, ClassTypeOK, RollHeld, Fits
<1> QED BY <1>0, <1>1, <1>2, ClassStepTyped, StepKinds

LEMMA InitClass == SchoolInit => ClassInv
<1> SUFFICES ASSUME SchoolInit PROVE ClassInv
  OBVIOUS
<1>1. world \in Worlds /\ rolls = world.at.rolls /\ door = world.at.door
      /\ \A r \in world.calls : pc[r] = "start"
  BY DEF SchoolInit, ClassInit, RequestInit
<1> QED BY <1>1, ClassWorldsAssumption DEF ClassInv, ClassTypeOK, RollHeld

\* A seat, and the key the settings are about to write.
SeatHeld(r) ==
  /\ r.op = "seat" /\ pc[r] = "write" => Fits(held[r].set, SeatRows)
  /\ r.op = "settings" /\ pc[r] = "update" =>
       held[r] \in 1..newest \cup {NoRow} /\ (r.enable <=> held[r] # NoRow)

SubjectInv == SubjectTypeOK /\ \A r \in world.calls : SeatHeld(r)

LEMMA SeatPlus ==
  ASSUME NEW columns, DOMAIN columns \subseteq {"isActive", "method"},
         "isActive" \in DOMAIN columns => columns["isActive"] \in BOOLEAN,
         "method" \in DOMAIN columns => columns["method"] \in {"self_enrolled", "teacher_assigned"}
  PROVE  Fits(columns, SeatRows)
<1>1. ASSUME NEW row \in SeatRows PROVE columns ++ row \in SeatRows
  <2> DEFINE new == [isActive |-> IF "isActive" \in DOMAIN columns THEN columns["isActive"]
                                  ELSE row.isActive,
                     method |-> IF "method" \in DOMAIN columns THEN columns["method"] ELSE row.method]
  <2>1. DOMAIN row = {"isActive", "method"}
    BY DEF SeatRows
  <2>2. columns ++ row = new
    BY <2>1 DEF ++
  <2>3. new \in SeatRows
    BY DEF SeatRows
  <2> QED BY <2>2, <2>3
<1> QED BY <1>1 DEF Fits

LEMMA SeatFits ==
  ASSUME ReqInv, NEW r \in world.calls, r.op = "seat", NEW some,
         DOMAIN some \subseteq DOMAIN Seat(r), \A c \in DOMAIN some : some[c] = Seat(r)[c]
  PROVE  Fits(some, SeatRows)
<1>0. r.way = "create" => r.isActive \in BOOLEAN
  BY SubjectWorldsAssumption DEF ReqInv
<1>1. CASE r.way = "create"
  BY <1>0, <1>1, SeatPlus DEF Seat
<1>2. CASE r.way = "self"
  BY <1>2, SeatPlus DEF Seat
<1>3. CASE r.way \notin {"create", "self"}
  BY <1>3, SeatPlus DEF Seat
<1> QED BY <1>1, <1>2, <1>3

LEMMA SubjectKept ==
  ASSUME ReqInv, SubjectInv, NEW r \in world.calls, Moves(r), UNCHANGED <<world, entry, newest, withdrawn>>,
         seats' \in [Users -> SeatRows \cup {NoRow}],
         r.op = "seat" /\ pc'[r] = "write" => Fits(held'[r].set, SeatRows),
         ~(r.op = "settings" /\ pc'[r] = "update")
  PROVE  SubjectInv'
<1>1. ASSUME NEW q \in world.calls PROVE SeatHeld(q)'
  <2>1. CASE q = r
    BY <2>1 DEF SeatHeld
  <2>2. CASE q # r
    BY <2>2 DEF SeatHeld, SubjectInv, Moves
  <2> QED BY <2>1, <2>2
<1> QED BY <1>1 DEF SubjectInv, SubjectTypeOK

LEMMA SettingsTyped ==
  ASSUME ReqInv, SubjectInv, NEW r \in world.calls, ReadSettings(r) \/ WriteSettings(r), UNCHANGED world
  PROVE  SubjectInv'
<1>0. /\ Moves(r) /\ r.op = "settings" /\ UNCHANGED seats /\ r.enable \in BOOLEAN /\ NoRow \notin Nat
      /\ newest \in Nat /\ withdrawn \subseteq 1..newest
      /\ entry.key \in 1..newest \cup {NoRow} /\ entry.open = (entry.key # NoRow)
  BY AtMoves, SubjectWorldsAssumption DEF ReadSettings, WriteSettings, End, ReqInv, SubjectInv, SubjectTypeOK
<1>1. CASE ReadSettings(r)
  <2>1. /\ pc'[r] = "update" /\ held'[r] = NextKey(r) /\ UNCHANGED <<entry, withdrawn>>
        /\ newest' = IF r.enable /\ entry.key = NoRow THEN newest + 1 ELSE newest
    BY <1>1, AtMoves DEF ReadSettings
  <2>2. newest' \in Nat /\ newest' >= newest
    BY <1>0, <2>1
  <2>3. 1..newest \subseteq 1..newest' /\ NextKey(r) \in 1..newest' \cup {NoRow}
        /\ (r.enable <=> NextKey(r) # NoRow)
    BY <1>0, <2>1, <2>2 DEF NextKey
  <2>4. ASSUME NEW q \in world.calls PROVE SeatHeld(q)'
    <3>1. CASE q = r
      BY <1>0, <2>1, <2>3, <3>1 DEF SeatHeld
    <3>2. CASE q # r
      BY <1>0, <2>3, <3>2 DEF SeatHeld, SubjectInv, Moves
    <3> QED BY <3>1, <3>2
  <2>5. SubjectTypeOK'
    BY <1>0, <2>1, <2>2, <2>3 DEF SubjectInv, SubjectTypeOK
  <2> QED BY <2>4, <2>5 DEF SubjectInv
<1>2. CASE WriteSettings(r)
  <2>1. /\ pc[r] = "update" /\ pc'[r] = "done" /\ UNCHANGED newest
        /\ entry' = [open |-> r.enable, key |-> held[r]]
        /\ \/ withdrawn' = withdrawn
           \/ entry.key # NoRow /\ withdrawn' = withdrawn \cup {entry.key}
    BY <1>2, AtMoves DEF WriteSettings, End
  <2>2. held[r] \in 1..newest \cup {NoRow} /\ (r.enable <=> held[r] # NoRow)
    BY <1>0, <2>1 DEF SubjectInv, SeatHeld
  <2>3. SubjectTypeOK'
    BY <1>0, <2>1, <2>2 DEF SubjectInv, SubjectTypeOK
  <2>4. ASSUME NEW q \in world.calls PROVE SeatHeld(q)'
    <3>1. CASE q = r
      BY <1>0, <2>1, <3>1 DEF SeatHeld
    <3>2. CASE q # r
      BY <1>0, <2>1, <3>2 DEF SeatHeld, SubjectInv, Moves
    <3> QED BY <3>1, <3>2
  <2> QED BY <2>3, <2>4 DEF SubjectInv
<1> QED BY <1>1, <1>2

LEMMA SubjectStepTyped ==
  ASSUME ReqInv, SubjectInv, NEW r \in world.calls, SubjectStep(r), UNCHANGED world
  PROVE  SubjectInv'
<1>0. Moves(r) /\ seats \in [Users -> SeatRows \cup {NoRow}]
  BY SubjectMoves DEF SubjectInv, SubjectTypeOK
<1>1. CASE CompareSeat(r)
  <2> DEFINE entity == Seat(r)
             row == seats[r.user]
             dirty == [c \in Dirty(entity, row) |-> entity[c]]
             compared == Comparison(entity, row)
  <2>1. At(r, "seat", "save") /\ GoOn(r, "write", compared) /\ UNCHANGED subjectVars
    BY <1>1 DEF CompareSeat
  <2>2. r.op = "seat" /\ held'[r] = compared
    <3> HIDE DEF compared
    <3> QED BY <2>1, AtMoves
  <2>3. compared.set = entity \/ compared.set = dirty
    BY DEF Comparison
  <2>4. DOMAIN dirty \subseteq DOMAIN entity /\ \A c \in DOMAIN dirty : dirty[c] = entity[c]
    BY DEF Dirty
  <2> HIDE DEF compared, dirty
  <2>5. Fits(compared.set, SeatRows)
    BY <2>2, <2>3, <2>4, SeatFits
  <2> QED BY <1>0, <2>1, <2>2, <2>5, SubjectKept DEF subjectVars
<1>2. CASE WriteSeat(r)
  <2>1. r.op = "seat" /\ pc[r] = "write" /\ pc'[r] = "done" /\ UNCHANGED <<entry, newest, withdrawn>>
    BY <1>2, AtMoves DEF WriteSeat, End
  <2> DEFINE new == Saved(r, seats[r.user], NewSeat)
  <2>2. UNCHANGED seats \/ seats' = [seats EXCEPT ![r.user] = new]
    BY <1>2 DEF WriteSeat
  <2>3. Fits(held[r].set, SeatRows)
    BY <2>1 DEF SubjectInv, SeatHeld
  <2>4. NewSeat \in SeatRows
    BY DEF NewSeat, SeatRows
  <2>5. r.user \in Users => new \in SeatRows \cup {NoRow}
    BY <1>0, <2>3, <2>4 DEF Saved, Fits
  <2> HIDE DEF new
  <2>6. seats' \in [Users -> SeatRows \cup {NoRow}]
    BY <1>0, <2>2, <2>5
  <2> QED BY <1>0, <2>1, <2>6, SubjectKept
<1>3. CASE BeginSeat(r)
  <2>1. At(r, "seat", "start") /\ r.way \in {"self", "create", "teacher", "bulk"} /\ UNCHANGED subjectVars
    BY <1>3, SubjectWorldsAssumption DEF BeginSeat, At, ReqInv
  <2>2. \E step \in {"exists", "save", "class", "done"} : \E value : GoOn(r, step, value)
    BY <1>3, <2>1 DEF BeginSeat, End
  <2>3. pc'[r] # "write" /\ r.op = "seat"
    BY <2>1, <2>2, AtMoves
  <2> QED BY <1>0, <2>1, <2>3, SubjectKept DEF subjectVars
<1>4. CASE CheckClass(r) \/ CheckSeated(r) \/ FindSeat(r) \/ Unseat(r)
  <2>1. pc'[r] # "write" /\ r.op # "settings" /\ UNCHANGED <<entry, newest, withdrawn>>
    BY <1>4, AtMoves DEF CheckClass, CheckSeated, FindSeat, Unseat, End, subjectVars
  <2>2. UNCHANGED seats \/ seats' = [seats EXCEPT ![r.user] = NoRow]
    BY <1>4 DEF CheckClass, CheckSeated, FindSeat, Unseat, subjectVars
  <2> QED BY <1>0, <2>1, <2>2, SubjectKept
<1>5. CASE ChangeSeat(r)
  <2>1. r.op = "seatUpdate" /\ UNCHANGED <<entry, newest, withdrawn>> /\ r.isActive \in BOOLEAN
    BY <1>5, SubjectWorldsAssumption DEF ChangeSeat, At, ReqInv
  <2> DEFINE new == [seats[r.user] EXCEPT !.isActive = r.isActive]
  <2>2. UNCHANGED seats \/ (r.user \in Seated /\ seats' = [seats EXCEPT ![r.user] = new])
    BY <1>5 DEF ChangeSeat
  <2>3. r.user \in Seated => new \in SeatRows
    BY <1>0, <2>1 DEF Seated, SeatRows
  <2> HIDE DEF new
  <2>4. seats' \in [Users -> SeatRows \cup {NoRow}]
    BY <1>0, <2>2, <2>3
  <2> QED BY <1>0, <2>1, <2>4, SubjectKept
<1>6. CASE ReadSettings(r) \/ WriteSettings(r)
  BY <1>6, SettingsTyped
<1> QED BY <1>1, <1>2, <1>3, <1>4, <1>5, <1>6 DEF SubjectStep

LEMMA NextSubject ==
  ASSUME ReqInv, QueueInv, SubjectInv, [SchoolNext]_schoolVars
  PROVE  SubjectInv'
<1>0. UNCHANGED world
  BY StepKinds
<1>1. ASSUME NEW r \in world.calls, CallStep(r), ~SubjectStep(r) PROVE SubjectInv'
  <2>1. Moves(r) /\ r.op # "seat" /\ r.op # "settings"
    BY <1>1 DEF CallStep, PeopleOps, UserOps, ProfileOps, MemberOps, ClassOps, OrgOps, WorkOps, PaperOps
  <2>2. /\ UNCHANGED <<entry, newest, withdrawn>>
        /\ \/ UNCHANGED seats
           \/ seats' = [u \in Users |-> IF people'[u] = NoRow THEN NoRow ELSE seats[u]]
    BY <1>1 DEF CallStep, Cascade, subjectVars
  <2>3. seats' \in [Users -> SeatRows \cup {NoRow}]
    BY <2>2 DEF SubjectInv, SubjectTypeOK
  <2> QED BY <1>0, <2>1, <2>2, <2>3, SubjectKept
<1>2. CASE RestStep
  BY <1>0, <1>2 DEF RestStep, requestVars, subjectVars, SubjectInv, SubjectTypeOK, SeatHeld, Fits
<1> QED BY <1>0, <1>1, <1>2, SubjectStepTyped, StepKinds

LEMMA InitSubject == SchoolInit => SubjectInv
<1> SUFFICES ASSUME SchoolInit PROVE SubjectInv
  OBVIOUS
<1>1. \A r \in world.calls : pc[r] = "start"
  BY DEF SchoolInit, RequestInit
<1>2. SubjectTypeOK
  BY DEF SchoolInit, SubjectInit, SubjectTypeOK
<1> QED BY <1>1, <1>2 DEF SubjectInv, SeatHeld

-----------------------------------------------------------------------------
(* Coursework                                                              *)

\* A row of papers or results keeps its number.
LEMMA SameNumbers ==
  ASSUME NEW S, NEW s \in Seq(S), NEW t, t = [i \in DOMAIN s |-> t[i]], \A i \in DOMAIN s : t[i] \in S
  PROVE  t \in Seq(S) /\ DOMAIN t = DOMAIN s
<1>1. DOMAIN s = 1..Len(s) /\ Len(s) \in Nat
  OBVIOUS
<1>2. t \in [1..Len(s) -> S]
  BY <1>1
<1> QED BY <1>1, <1>2

LEMMA OneReplaced ==
  ASSUME NEW S, NEW s \in Seq(S), NEW i, NEW x, i \in DOMAIN s => x \in S
  PROVE  [s EXCEPT ![i] = x] \in Seq(S) /\ DOMAIN [s EXCEPT ![i] = x] = DOMAIN s
<1> DEFINE t == [s EXCEPT ![i] = x]
<1>1. t = [j \in DOMAIN s |-> t[j]] /\ \A j \in DOMAIN s : t[j] \in S
  OBVIOUS
<1> HIDE DEF t
<1>2. t \in Seq(S) /\ DOMAIN t = DOMAIN s
  BY <1>1, SameNumbers
<1> QED BY <1>2 DEF t

Scores == {r.score : r \in {q \in world.calls : q.op \in {"result", "resultUpdate"}}}
ResultRows == [user : Users, score : Scores]

\* What is compared of a paper fits its row, and the paper has a number that was
\* given; a change of the exam and the users of results have their types.
WorkHeld(r) ==
  /\ r.op = "submit" /\ pc[r] = "save" => held[r].id \in DOMAIN papers /\ held[r].entity \in PaperRows
  /\ r.op = "submit" /\ pc[r] = "write" =>
       /\ held[r].id \in DOMAIN papers /\ Fits(held[r].set, PaperRows)
       /\ ~held[r].found => held[r].set \in PaperRows
  /\ r.op = "examUpdate" /\ pc[r] = "update" => SomeOfExam(held[r])
  /\ r.op = "result" /\ pc[r] = "insert" => held[r] \subseteq Users

WorkInv == /\ papers \in Seq(PaperRows \cup {NoRow}) /\ results \in Seq(ResultRows \cup {NoRow})
           /\ exam # NoRow => exam \in ExamRows
           /\ \A r \in world.calls : WorkHeld(r)

LEMMA WorkTyped == WorkInv => WorkTypeOK
BY DEF WorkInv, WorkTypeOK, Papers, Results, ResultRows

PaperColumns == {"user", "file", "correction", "remarks", "isActive"}

LEMMA PaperPlus ==
  ASSUME NEW columns, DOMAIN columns \subseteq PaperColumns,
         "user" \in DOMAIN columns => columns["user"] \in Users,
         "file" \in DOMAIN columns => columns["file"] \in Values,
         "correction" \in DOMAIN columns => columns["correction"] \in Values,
         "remarks" \in DOMAIN columns => columns["remarks"] \in Values,
         "isActive" \in DOMAIN columns => columns["isActive"] \in BOOLEAN
  PROVE  Fits(columns, PaperRows)
<1>1. ASSUME NEW row \in PaperRows PROVE columns ++ row \in PaperRows
  <2> DEFINE new == [user |-> IF "user" \in DOMAIN columns THEN columns["user"] ELSE row.user,
                     file |-> IF "file" \in DOMAIN columns THEN columns["file"] ELSE row.file,
                     correction |-> IF "correction" \in DOMAIN columns THEN columns["correction"]
                                    ELSE row.correction,
                     remarks |-> IF "remarks" \in DOMAIN columns THEN columns["remarks"] ELSE row.remarks,
                     isActive |-> IF "isActive" \in DOMAIN columns THEN columns["isActive"]
                                  ELSE row.isActive]
  <2>1. DOMAIN row = PaperColumns
    BY DEF PaperRows, PaperColumns
  <2>2. columns ++ row = new
    BY <2>1 DEF ++, PaperColumns
  <2>3. new \in PaperRows
    BY DEF PaperRows
  <2> QED BY <2>2, <2>3
<1> QED BY <1>1 DEF Fits

LEMMA PaperFits ==
  ASSUME NEW entity \in PaperRows, NEW some, DOMAIN some \subseteq DOMAIN entity,
         \A c \in DOMAIN some : some[c] = entity[c]
  PROVE  Fits(some, PaperRows)
<1>1. /\ DOMAIN entity = PaperColumns /\ entity["user"] \in Users /\ entity["file"] \in Values
      /\ entity["correction"] \in Values /\ entity["remarks"] \in Values
      /\ entity["isActive"] \in BOOLEAN
  BY DEF PaperRows, PaperColumns
<1> QED BY <1>1, PaperPlus

\* The row of a new paper, whatever columns of it a call gives.
LEMMA NewPaperTyped ==
  ASSUME NEW u \in Users, NEW given, Fits(given, PaperRows)
  PROVE  [user |-> u] ++ given ++ NewPaper \in PaperRows
<1> DEFINE base == [user |-> u, file |-> NoRow, correction |-> NoRow, remarks |-> NoRow,
                    isActive |-> TRUE]
           whole == given ++ base
           new == [user |-> u] ++ given ++ NewPaper
<1>1. base \in PaperRows /\ DOMAIN base = PaperColumns
  BY PeopleWorldsAssumption DEF PaperRows, PaperColumns
<1>2. whole \in PaperRows
  BY <1>1 DEF Fits
<1>3. DOMAIN whole = PaperColumns
  BY <1>2 DEF PaperRows, PaperColumns
<1>4. DOMAIN given \subseteq PaperColumns
  BY <1>3 DEF ++
<1>5. /\ "file" \in DOMAIN given => given["file"] \in Values
      /\ "correction" \in DOMAIN given => given["correction"] \in Values
      /\ "remarks" \in DOMAIN given => given["remarks"] \in Values
      /\ "isActive" \in DOMAIN given => given["isActive"] \in BOOLEAN
  <2>1. \A c \in DOMAIN given : whole[c] = given[c]
    BY DEF ++
  <2>2. /\ whole["file"] \in Values /\ whole["correction"] \in Values /\ whole["remarks"] \in Values
        /\ whole["isActive"] \in BOOLEAN
    BY <1>2 DEF PaperRows
  <2> HIDE DEF whole
  <2> QED BY <2>1, <2>2
<1> HIDE DEF new, whole
<1> DEFINE part == [user |-> u] ++ given
<1>6. DOMAIN part = {"user"} \cup DOMAIN given /\ part["user"] = u
      /\ \A c \in DOMAIN given : c # "user" => part[c] = given[c]
  BY DEF ++
<1>7. new = part ++ NewPaper
  BY DEF new
<1> HIDE DEF part
<1>8. Fits(part, PaperRows)
  BY <1>4, <1>5, <1>6, PaperPlus DEF PaperColumns
<1>9. part ++ NewPaper = part ++ base
  <2>1. /\ DOMAIN NewPaper = {"file", "correction", "remarks", "isActive"}
        /\ NewPaper["file"] = base["file"] /\ NewPaper["correction"] = base["correction"]
        /\ NewPaper["remarks"] = base["remarks"] /\ NewPaper["isActive"] = base["isActive"]
    BY DEF NewPaper
  <2>2. DOMAIN part \cup DOMAIN NewPaper = DOMAIN part \cup DOMAIN base /\ "user" \in DOMAIN part
    BY <1>1, <1>4, <1>6, <2>1 DEF PaperColumns
  <2>3. \A c \in DOMAIN part \cup DOMAIN base : c \notin DOMAIN part => NewPaper[c] = base[c]
    BY <1>1, <2>1, <2>2 DEF PaperColumns
  <2> HIDE DEF base
  <2> QED BY <2>2, <2>3 DEF ++
<1> HIDE DEF base
<1>10. part ++ base \in PaperRows
  BY <1>1, <1>8 DEF Fits
<1>11. new \in PaperRows
  BY <1>7, <1>9, <1>10
<1> QED BY <1>11 DEF new

LEMMA ExamPlus ==
  ASSUME NEW columns, SomeOfExam(columns), NEW row \in ExamRows
  PROVE  columns ++ row \in ExamRows
<1> DEFINE at(c) == IF c \in DOMAIN columns THEN columns[c] ELSE row[c]
           new == [date |-> at("date"), start |-> at("start"), end |-> at("end"),
                   passing |-> at("passing"), total |-> at("total"), isActive |-> at("isActive")]
<1>1. DOMAIN row = {"date", "start", "end", "passing", "total", "isActive"}
  BY DEF ExamRows
<1>2. columns ++ row = new
  BY <1>1 DEF ++, SomeOfExam
<1>3. /\ at("date") \in Nat /\ at("start") \in Nat /\ at("end") \in Nat /\ at("passing") \in Nat
      /\ at("total") \in Nat
  BY DEF SomeOfExam, ExamRows
<1>4. at("isActive") \in BOOLEAN
  <2>1. row["isActive"] \in BOOLEAN
    BY DEF ExamRows
  <2>2. "isActive" \in DOMAIN columns => columns["isActive"] \in BOOLEAN
    BY DEF SomeOfExam
  <2> QED BY <2>1, <2>2
<1> HIDE DEF at
<1>5. new \in ExamRows
  BY <1>3, <1>4 DEF ExamRows
<1> QED BY <1>2, <1>5

LEMMA WorkKept ==
  ASSUME ReqInv, WorkInv, NEW r \in world.calls, Moves(r), UNCHANGED world,
         papers' \in Seq(PaperRows \cup {NoRow}), DOMAIN papers \subseteq DOMAIN papers',
         results' \in Seq(ResultRows \cup {NoRow}), exam' # NoRow => exam' \in ExamRows,
         WorkHeld(r)'
  PROVE  WorkInv'
<1>1. ASSUME NEW q \in world.calls PROVE WorkHeld(q)'
  <2>1. CASE q = r
    BY <2>1
  <2>2. CASE q # r
    <3>1. pc'[q] = pc[q] /\ held'[q] = held[q] /\ WorkHeld(q)
      BY <2>2 DEF Moves, WorkInv
    <3> QED BY <3>1 DEF WorkHeld
  <2> QED BY <2>1, <2>2
<1>2. ResultRows' = ResultRows
  BY DEF ResultRows, Scores
<1> QED BY <1>1, <1>2 DEF WorkInv

\* A student hands in.
LEMMA FoundPaper ==
  ASSUME ReqInv, WorkInv, NEW r \in world.calls, FindPaper(r), UNCHANGED world
  PROVE  WorkInv'
<1>1. At(r, "submit", "find") /\ UNCHANGED workVars
  BY DEF FindPaper
<1>2. Moves(r) /\ r.op = "submit" /\ r.file \in Values
  <2>1. \E step, value : GoOn(r, step, value)
    BY DEF FindPaper
  <2> QED BY <1>1, <2>1, AtMoves, WorkWorldsAssumption DEF ReqInv
<1>3. \/ pc'[r] = "insert"
      \/ \E i \in Papers : pc'[r] = "save" /\ held'[r] = [id |-> i, entity |-> Resubmitted(r, papers[i])]
  BY <1>1, AtMoves DEF FindPaper
<1>4. ASSUME NEW i \in Papers, held'[r] = [id |-> i, entity |-> Resubmitted(r, papers[i])]
      PROVE  held'[r].id \in DOMAIN papers /\ held'[r].entity \in PaperRows
  <2>1. papers[i] \in PaperRows /\ i \in DOMAIN papers
    BY DEF WorkInv, Papers
  <2>2. Resubmitted(r, papers[i]) \in PaperRows
    BY <1>2, <2>1 DEF Resubmitted, PaperRows
  <2> QED BY <1>4, <2>1, <2>2
<1>5. WorkHeld(r)'
  BY <1>1, <1>2, <1>3, <1>4 DEF WorkHeld, workVars
<1> QED BY <1>1, <1>2, <1>5, WorkKept DEF WorkInv, workVars

LEMMA ComparedPaper ==
  ASSUME ReqInv, WorkInv, NEW r \in world.calls, ComparePaper(r), UNCHANGED world
  PROVE  WorkInv'
<1> DEFINE entity == held[r].entity
           row == papers[held[r].id]
           dirty == [c \in Dirty(entity, row) |-> entity[c]]
           compared == Comparison(entity, row)
           numbered == [id |-> held[r].id] ++ compared
<1>1. At(r, "submit", "save") /\ GoOn(r, "write", numbered) /\ UNCHANGED workVars
  BY DEF ComparePaper
<1>2. Moves(r) /\ r.op = "submit" /\ pc[r] = "save" /\ pc'[r] = "write" /\ held'[r] = numbered
  <2> HIDE DEF numbered
  <2> QED BY <1>1, AtMoves
<1>3. entity \in PaperRows /\ held[r].id \in DOMAIN papers
  BY <1>2 DEF WorkInv, WorkHeld
<1>4. DOMAIN dirty \subseteq DOMAIN entity /\ \A c \in DOMAIN dirty : dirty[c] = entity[c]
  BY DEF Dirty
<1>5. \/ compared = [found |-> FALSE, set |-> entity]
      \/ compared = [found |-> TRUE, set |-> dirty]
  BY DEF Comparison
<1> HIDE DEF compared, dirty
<1>6. numbered.id = held[r].id /\ numbered.found = compared.found /\ numbered.set = compared.set
  BY <1>5 DEF ++
<1> HIDE DEF numbered, entity
<1>7. Fits(entity, PaperRows) /\ Fits(dirty, PaperRows)
  BY <1>3, <1>4, PaperFits
<1>8. Fits(compared.set, PaperRows) /\ (~compared.found => compared.set \in PaperRows)
  BY <1>3, <1>5, <1>7
<1>9. WorkHeld(r)'
  BY <1>1, <1>2, <1>3, <1>6, <1>8 DEF WorkHeld, workVars
<1> QED BY <1>1, <1>2, <1>9, WorkKept DEF WorkInv, workVars

LEMMA WrittenPaper ==
  ASSUME ReqInv, WorkInv, NEW r \in world.calls, WritePaper(r), UNCHANGED world
  PROVE  WorkInv'
<1> DEFINE id == held[r].id
           set == held[r].set
           new == Saved(r, papers[id], NewPaper)
<1>1. /\ Moves(r) /\ r.op = "submit" /\ pc[r] = "write" /\ pc'[r] = "done"
      /\ UNCHANGED <<homework, exam, results, day>>
  BY AtMoves DEF WritePaper, End
<1>2. UNCHANGED papers \/ papers' = [papers EXCEPT ![id] = new]
  BY DEF WritePaper
<1>3. id \in DOMAIN papers /\ Fits(set, PaperRows) /\ (~held[r].found => set \in PaperRows)
      /\ papers \in Seq(PaperRows \cup {NoRow})
  BY <1>1 DEF WorkInv, WorkHeld
<1>4. new \in PaperRows \cup {NoRow}
  <2>1. papers[id] \in PaperRows \cup {NoRow}
    BY <1>3
  <2>2. CASE ~held[r].found /\ papers[id] = NoRow
    <3>1. new = set ++ NewPaper
      BY <2>2 DEF Saved
    <3>2. DOMAIN set = PaperColumns /\ DOMAIN NewPaper \subseteq PaperColumns
      BY <1>3, <2>2 DEF PaperRows, PaperColumns, NewPaper
    <3>3. set ++ NewPaper = set ++ set
      BY <3>2 DEF ++
    <3>4. set ++ set \in PaperRows
      BY <1>3, <2>2 DEF Fits
    <3> QED BY <3>1, <3>3, <3>4
  <2>3. CASE held[r].found /\ papers[id] # NoRow
    <3>1. new = set ++ papers[id] /\ papers[id] \in PaperRows
      BY <2>1, <2>3 DEF Saved
    <3> QED BY <1>3, <3>1 DEF Fits
  <2>4. CASE ~(~held[r].found /\ papers[id] = NoRow) /\ ~(held[r].found /\ papers[id] # NoRow)
    <3>1. new = papers[id]
      BY <2>4 DEF Saved
    <3> QED BY <2>1, <3>1
  <2> QED BY <2>2, <2>3, <2>4
<1> HIDE DEF new, id
<1>5. papers' \in Seq(PaperRows \cup {NoRow}) /\ DOMAIN papers' = DOMAIN papers
  BY <1>2, <1>3, <1>4, OneReplaced
<1>6. WorkHeld(r)'
  BY <1>1 DEF WorkHeld
<1> QED BY <1>1, <1>5, <1>6, WorkKept DEF WorkInv

LEMMA InsertedPaper ==
  ASSUME ReqInv, WorkInv, NEW r \in world.calls, InsertPaper(r), UNCHANGED world
  PROVE  WorkInv'
<1> DEFINE new == [user |-> r.user] ++ Given(r) ++ NewPaper
<1>1. /\ Moves(r) /\ r.op \in {"submit", "paperCreate"} /\ pc'[r] = "done"
      /\ UNCHANGED <<homework, exam, results, day>>
  BY AtMoves DEF InsertPaper, End
<1>2. UNCHANGED papers \/ papers' = Append(papers, new)
  BY DEF InsertPaper
<1>3. r.user \in Users /\ Fits(Given(r), PaperRows)
  <2>1. CASE r.op = "submit"
    <3>1. r.file \in Values /\ r.user \in Users
      BY <2>1, WorkWorldsAssumption DEF ReqInv
    <3>2. Fits([file |-> r.file], PaperRows)
      BY <3>1, PaperPlus DEF PaperColumns
    <3> QED BY <2>1, <3>1, <3>2 DEF Given
  <2>2. CASE r.op = "paperCreate"
    BY <2>2, WorkWorldsAssumption DEF ReqInv, Given
  <2> QED BY <1>1, <2>1, <2>2
<1>4. new \in PaperRows
  BY <1>3, NewPaperTyped
<1> HIDE DEF new
<1>5. papers' \in Seq(PaperRows \cup {NoRow}) /\ DOMAIN papers \subseteq DOMAIN papers'
  <2>1. papers \in Seq(PaperRows \cup {NoRow})
    BY DEF WorkInv
  <2> QED BY <1>2, <1>4, <2>1
<1>6. WorkHeld(r)'
  BY <1>1 DEF WorkHeld
<1> QED BY <1>1, <1>5, <1>6, WorkKept DEF WorkInv

LEMMA ReviewedPaper ==
  ASSUME ReqInv, WorkInv, NEW r \in world.calls, SelectPaper(r) \/ CorrectPaper(r) \/ RemovePaper(r),
         UNCHANGED world
  PROVE  WorkInv'
<1>1. /\ Moves(r) /\ r.op \in PaperOps /\ UNCHANGED <<homework, exam, results, day>>
  <2>1. \E op \in PaperOps : \E from \in {"start", "update"} : At(r, op, from) /\ \E step, value : GoOn(r, step, value)
    BY DEF SelectPaper, CorrectPaper, RemovePaper, End, PaperOps
  <2> QED BY <2>1, AtMoves DEF SelectPaper, CorrectPaper, RemovePaper, workVars
<1>2. papers \in Seq(PaperRows \cup {NoRow})
  BY DEF WorkInv
<1>3. WorkHeld(r)'
  BY <1>1 DEF WorkHeld, PaperOps
<1>4. papers' \in Seq(PaperRows \cup {NoRow}) /\ DOMAIN papers \subseteq DOMAIN papers'
  <2>1. CASE SelectPaper(r)
    BY <1>2, <2>1 DEF SelectPaper, workVars
  <2>2. CASE RemovePaper(r)
    BY <1>2, <2>2, OneReplaced DEF RemovePaper
  <2>3. CASE CorrectPaper(r)
    <3> DEFINE new == Correction(r) ++ papers[r.id]
    <3>1. UNCHANGED papers \/ (r.id \in Papers /\ papers' = [papers EXCEPT ![r.id] = new])
      BY <2>3 DEF CorrectPaper, UpdatePaper
    <3>2. r.op \in {"remark", "correct", "paperUpdate"}
      BY <2>3 DEF CorrectPaper, At, PaperOps
    <3>3. Fits(Correction(r), PaperRows)
      <4>1. CASE r.op = "remark"
        <5>1. r.remarks \in Values
          BY <4>1, WorkWorldsAssumption DEF ReqInv
        <5>2. Fits([remarks |-> r.remarks], PaperRows)
          BY <5>1, PaperPlus DEF PaperColumns
        <5> QED BY <4>1, <5>2 DEF Correction
      <4>2. CASE r.op = "correct"
        <5>1. r.file \in Values
          BY <4>2, WorkWorldsAssumption DEF ReqInv
        <5>2. Fits([correction |-> r.file], PaperRows)
          BY <5>1, PaperPlus DEF PaperColumns
        <5> QED BY <4>2, <5>2 DEF Correction
      <4>3. CASE r.op = "paperUpdate"
        BY <4>3, WorkWorldsAssumption DEF ReqInv, Correction
      <4> QED BY <3>2, <4>1, <4>2, <4>3
    <3>4. r.id \in Papers => new \in PaperRows
      BY <1>2, <3>3 DEF Papers, Fits
    <3> HIDE DEF new
    <3> QED BY <1>2, <3>1, <3>4, OneReplaced
  <2> QED BY <2>1, <2>2, <2>3
<1> QED BY <1>1, <1>3, <1>4, WorkKept DEF WorkInv

\* The homework: no row of the others changes.
LEMMA HomeworkTyped ==
  ASSUME ReqInv, WorkInv, NEW r \in world.calls, UNCHANGED world,
         CreateHomework(r) \/ FindHomework(r) \/ WriteHomework(r) \/ Submit(r)
  PROVE  WorkInv'
<1>1. /\ Moves(r) /\ UNCHANGED <<papers, exam, results>>
      /\ r.op \in {"homeworkCreate", "homeworkUpdate", "homeworkRemove"}
         \/ (r.op = "submit" /\ pc'[r] \in {"find", "done"})
  <2>1. CASE CreateHomework(r) \/ Submit(r)
    BY <2>1, AtMoves DEF CreateHomework, Submit, End, workVars
  <2>2. CASE FindHomework(r) \/ WriteHomework(r)
    <3>1. \E op \in {"homeworkUpdate", "homeworkRemove"}, from \in {"start", "update"},
             step \in {"update", "done"} : At(r, op, from) /\ GoOn(r, step, NoRow)
      BY <2>2 DEF FindHomework, WriteHomework, End
    <3> QED BY <2>2, <3>1, AtMoves DEF FindHomework, WriteHomework, workVars
  <2> QED BY <2>1, <2>2
<1>2. WorkHeld(r)'
  BY <1>1 DEF WorkHeld
<1> QED BY <1>1, <1>2, WorkKept DEF WorkInv

\* The exam.  Hours become times of its day.
LEMMA ExamColumnsTyped ==
  ASSUME ReqInv, NEW r \in world.calls, r.op = "examUpdate", exam \in ExamRows
  PROVE  SomeOfExam(ExamColumns(r))
<1> DEFINE date == (r.set ++ exam).date
<1>1. SomeOfExam(r.set)
  BY WorkWorldsAssumption DEF ReqInv
<1>2. date \in Nat
  <2>1. r.set ++ exam \in ExamRows
    BY <1>1, ExamPlus
  <2> QED BY <2>1 DEF ExamRows
<1> HIDE DEF date
<1>3. /\ DOMAIN ExamColumns(r) = DOMAIN r.set
      /\ \A c \in DOMAIN r.set : ExamColumns(r)[c] =
           IF c \in {"start", "end"} THEN 10 * date + r.set[c] ELSE r.set[c]
  BY DEF ExamColumns, Time, date
<1>4. ASSUME NEW c \in DOMAIN r.set
      PROVE  ExamColumns(r)[c] \in IF c = "isActive" THEN BOOLEAN ELSE Nat
  <2>1. CASE c \in {"start", "end"}
    <3>1. r.set[c] \in Nat
      BY <1>1, <2>1 DEF SomeOfExam
    <3> QED BY <1>2, <1>3, <2>1, <3>1
  <2>2. CASE c \notin {"start", "end"}
    BY <1>1, <1>3, <2>2 DEF SomeOfExam
  <2> QED BY <2>1, <2>2
<1> QED BY <1>1, <1>3, <1>4 DEF SomeOfExam

LEMMA ExamTyped ==
  ASSUME ReqInv, WorkInv, NEW r \in world.calls, UNCHANGED world,
         BeginExam(r) \/ SaveExam(r) \/ FindExam(r) \/ WriteExam(r) \/ DeleteExam(r)
  PROVE  WorkInv'
<1>0. Moves(r)
  BY WorkMoves DEF WorkStep
<1>1. CASE BeginExam(r)
  BY <1>0, <1>1, WorkKept, AtMoves DEF BeginExam, End, workVars, WorkHeld, WorkInv
<1>2. CASE SaveExam(r)
  <2>1. r.op = "examCreate" /\ UNCHANGED <<papers, results>>
    BY <1>2 DEF SaveExam, At
  <2>2. r.row \in ExamRows
    BY <2>1, WorkWorldsAssumption DEF ReqInv
  <2>3. exam' = [r.row EXCEPT !.start = 10 * r.row.date + r.row.start, !.end = 10 * r.row.date + r.row.end]
    BY <1>2 DEF SaveExam, Time
  <2>4. exam' \in ExamRows
    <3> DEFINE from == 10 * r.row.date + r.row.start
               to   == 10 * r.row.date + r.row.end
    <3>1. from \in Nat /\ to \in Nat
      <4>1. r.row.date \in Nat /\ r.row.start \in Nat /\ r.row.end \in Nat
        BY <2>2 DEF ExamRows
      <4> QED BY <4>1
    <3>2. exam' = [r.row EXCEPT !.start = from, !.end = to]
      BY <2>3
    <3> HIDE DEF from, to
    <3> QED BY <2>2, <3>1, <3>2 DEF ExamRows
  <2>5. WorkHeld(r)'
    BY <2>1 DEF WorkHeld
  <2> QED BY <1>0, <2>1, <2>4, <2>5, WorkKept DEF WorkInv
<1>3. CASE FindExam(r)
  <2> DEFINE columns == ExamColumns(r)
  <2>1. r.op \in {"examUpdate", "examRemove"} /\ UNCHANGED workVars
    BY <1>3 DEF FindExam, At
  <2>2. \E op \in {"examUpdate", "examRemove"} : At(r, op, "start")
    BY <1>3 DEF FindExam
  <2>3. \/ GoOn(r, "done", NoRow)
        \/ exam # NoRow /\ GoOn(r, "update", IF r.op = "examUpdate" THEN columns ELSE NoRow)
    BY <1>3 DEF FindExam, End
  <2>4. exam # NoRow /\ r.op = "examUpdate" => SomeOfExam(columns)
    BY ExamColumnsTyped DEF WorkInv
  <2> HIDE DEF columns
  <2>5. pc'[r] = "update" => exam # NoRow /\ (r.op = "examUpdate" => held'[r] = columns)
    BY <2>2, <2>3, AtMoves
  <2>6. WorkHeld(r)'
    BY <2>1, <2>4, <2>5 DEF WorkHeld
  <2> QED BY <1>0, <2>1, <2>6, WorkKept DEF WorkInv, workVars
<1>4. CASE WriteExam(r)
  <2>1. r.op = "examUpdate" /\ pc[r] = "update" /\ pc'[r] = "done" /\ UNCHANGED <<papers, results>>
    BY <1>4, AtMoves DEF WriteExam, End
  <2>2. exam' = IF exam = NoRow THEN NoRow ELSE held[r] ++ exam
    BY <1>4 DEF WriteExam
  <2>3. exam' # NoRow => exam' \in ExamRows
    BY <2>1, <2>2, ExamPlus DEF WorkInv, WorkHeld
  <2>4. WorkHeld(r)'
    BY <2>1 DEF WorkHeld
  <2> QED BY <1>0, <2>1, <2>3, <2>4, WorkKept DEF WorkInv
<1>5. CASE DeleteExam(r)
  <2>1. /\ r.op = "examRemove" /\ exam' = NoRow /\ UNCHANGED papers
        /\ results' = [i \in DOMAIN results |-> NoRow]
    BY <1>5 DEF DeleteExam, At
  <2>2. results' \in Seq(ResultRows \cup {NoRow})
    <3>1. results \in Seq(ResultRows \cup {NoRow})
      BY DEF WorkInv
    <3> QED BY <2>1, <3>1, SameNumbers
  <2>3. WorkHeld(r)'
    BY <2>1 DEF WorkHeld
  <2> QED BY <1>0, <2>1, <2>2, <2>3, WorkKept DEF WorkInv
<1> QED BY <1>1, <1>2, <1>3, <1>4, <1>5

LEMMA ResultsTyped ==
  ASSUME ReqInv, WorkInv, NEW r \in world.calls, UNCHANGED world,
         BeginResults(r) \/ InsertResult(r) \/ FindResult(r) \/ WriteResult(r)
  PROVE  WorkInv'
<1>0. Moves(r) /\ UNCHANGED <<papers, exam>> /\ results \in Seq(ResultRows \cup {NoRow})
  BY WorkMoves DEF WorkStep, BeginResults, InsertResult, FindResult, WriteResult, workVars, WorkInv
<1>1. CASE BeginResults(r)
  <2>1. r.op = "result" /\ held'[r] = r.users /\ UNCHANGED results
    BY <1>1, AtMoves DEF BeginResults, workVars
  <2>2. r.users \subseteq Users
    BY <2>1, WorkWorldsAssumption DEF ReqInv
  <2>3. WorkHeld(r)'
    BY <2>1, <2>2 DEF WorkHeld
  <2> QED BY <1>0, <2>1, <2>3, WorkKept DEF WorkInv
<1>2. CASE InsertResult(r)
  <2>1. At(r, "result", "insert")
    BY <1>2 DEF InsertResult
  <2>2. held[r] \subseteq Users /\ r.score \in Scores
    BY <2>1 DEF WorkInv, WorkHeld, At, Scores
  <2>3. PICK u \in held[r] :
          /\ IF held[r] = {u} THEN End(r) ELSE GoOn(r, "insert", held[r] \ {u})
          /\ results' = IF Known(u) /\ exam # NoRow
                        THEN Append(results, [user |-> u, score |-> r.score]) ELSE results
    BY <1>2 DEF InsertResult
  <2>4. r.op = "result" /\ (pc'[r] = "done" \/ held'[r] = held[r] \ {u})
    BY <2>1, <2>3, AtMoves DEF End
  <2>5. WorkHeld(r)'
    BY <2>2, <2>4 DEF WorkHeld
  <2> DEFINE new == [user |-> u, score |-> r.score]
  <2>6. new \in ResultRows
    BY <2>2 DEF ResultRows
  <2>7. results' = results \/ results' = Append(results, new)
    BY <2>3
  <2> HIDE DEF new
  <2>8. results' \in Seq(ResultRows \cup {NoRow})
    BY <1>0, <2>6, <2>7
  <2> QED BY <1>0, <2>5, <2>8, WorkKept DEF WorkInv
<1>3. CASE FindResult(r) \/ WriteResult(r)
  <2>1. r.op \in {"resultUpdate", "resultRemove"}
    BY <1>3 DEF FindResult, WriteResult, At
  <2>2. WorkHeld(r)'
    BY <2>1 DEF WorkHeld
  <2> DEFINE new == [results[r.id] EXCEPT !.score = r.score]
  <2>3. \/ UNCHANGED results
        \/ results' = [results EXCEPT ![r.id] = NoRow]
        \/ r.id \in Results /\ r.op = "resultUpdate" /\ results' = [results EXCEPT ![r.id] = new]
    BY <1>3, <2>1 DEF FindResult, WriteResult, workVars
  <2>4. r.id \in Results /\ r.op = "resultUpdate" => new \in ResultRows
    <3>1. r.op = "resultUpdate" => r.score \in Scores
      BY DEF Scores
    <3>2. r.id \in Results => results[r.id] \in ResultRows
      BY <1>0 DEF Results
    <3> QED BY <3>1, <3>2 DEF ResultRows
  <2> HIDE DEF new
  <2>5. results' \in Seq(ResultRows \cup {NoRow})
    BY <1>0, <2>3, <2>4, OneReplaced
  <2> QED BY <1>0, <2>2, <2>5, WorkKept DEF WorkInv
<1> QED BY <1>1, <1>2, <1>3

LEMMA NextWork ==
  ASSUME ReqInv, QueueInv, WorkInv, [SchoolNext]_schoolVars
  PROVE  WorkInv'
<1>0. UNCHANGED world
  BY StepKinds
<1>1. ASSUME NEW r \in world.calls, CallStep(r), ~WorkStep(r) PROVE WorkInv'
  <2>1. Moves(r) /\ r.op \notin {"submit", "examUpdate", "result"}
    BY <1>1 DEF CallStep, PeopleOps, UserOps, ProfileOps, MemberOps, ClassOps, SubjectOps, OrgOps
  <2>2. /\ UNCHANGED exam
        /\ UNCHANGED <<papers, results>> \/ (papers' = Left(papers) /\ results' = Left(results))
    BY <1>1 DEF CallStep, Cascade, workVars
  <2>3. papers \in Seq(PaperRows \cup {NoRow}) /\ results \in Seq(ResultRows \cup {NoRow})
    BY DEF WorkInv
  <2>4. ASSUME papers' = Left(papers)
        PROVE  papers' \in Seq(PaperRows \cup {NoRow}) /\ DOMAIN papers' = DOMAIN papers
    BY <2>3, <2>4, SameNumbers DEF Left
  <2>5. ASSUME results' = Left(results) PROVE results' \in Seq(ResultRows \cup {NoRow})
    BY <2>3, <2>5, SameNumbers DEF Left
  <2>6. WorkHeld(r)'
    BY <2>1 DEF WorkHeld
  <2> QED BY <1>0, <2>1, <2>2, <2>3, <2>4, <2>5, <2>6, WorkKept DEF WorkInv
<1>2. CASE RestStep
  BY <1>0, <1>2 DEF RestStep, requestVars, WorkInv, WorkHeld, ResultRows, Scores
<1>3. ASSUME NEW r \in world.calls, WorkStep(r) PROVE WorkInv'
  BY <1>0, <1>3, FoundPaper, ComparedPaper, WrittenPaper, InsertedPaper, ReviewedPaper, HomeworkTyped,
     ExamTyped, ResultsTyped DEF WorkStep
<1> QED BY <1>1, <1>2, <1>3, StepKinds

LEMMA InitWork == SchoolInit => WorkInv
<1> SUFFICES ASSUME SchoolInit PROVE WorkInv
  OBVIOUS
<1>1. world \in Worlds /\ exam = world.at.exam /\ papers = << >> /\ results = << >>
      /\ \A r \in world.calls : pc[r] = "start"
  BY DEF SchoolInit, WorkInit, RequestInit
<1> QED BY <1>1, WorkWorldsAssumption DEF WorkInv, WorkHeld

-----------------------------------------------------------------------------
\* Users and profiles, members, enrolments, papers, results and marks have their
\* types, every profile, father and member of the organization is somebody who
\* is there, and every card has one holder, at all times.
SchoolInv == BaseInv /\ MemberInv /\ ClassInv /\ SubjectInv /\ OrgInv /\ WorkInv

LEMMA SchoolInvariant == SchoolSpec => []SchoolInv
<1>1. SchoolInit => SchoolInv
  BY InitReq, InitQueue, InitPeople, InitMembers, InitClass, InitSubject, InitOrg, InitWork
     DEF SchoolInv, BaseInv
<1>2. SchoolInv /\ [SchoolNext]_schoolVars => SchoolInv'
  BY NextReq, NextQueue, NextPeople, NextMembers, NextClass, NextSubject, NextOrg, NextWork
     DEF SchoolInv, BaseInv
<1> QED BY <1>1, <1>2, PTL DEF SchoolSpec

THEOREM SchoolTyped == SchoolSpec => []SchoolTypeOK
<1>1. SchoolInv => SchoolTypeOK
  <2> SUFFICES ASSUME SchoolInv PROVE SchoolTypeOK
    OBVIOUS
  <2>1. MemberTypeOK
    BY DEF SchoolInv, MemberInv, MemberTypeOK, Joined, MemberRow, Typed
  <2>2. OrgTypeOK
    BY DEF SchoolInv, OrgInv, OrgTypeOK, Underway
  <2> QED BY <2>1, <2>2, WorkTyped DEF SchoolInv, BaseInv, PeopleInv, ClassInv, SubjectInv, SchoolTypeOK
<1> QED BY <1>1, SchoolInvariant, PTL

-----------------------------------------------------------------------------
(* Enrolments hold                                                         *)

\* What a call has found in its turn still holds when it writes, and no key in
\* force was ever withdrawn.
FoundInTurn(r) ==
  /\ r.op = "enrol" /\ pc[r] \in {"save", "write"} => r.user \notin Enrolled
  /\ r.op = "seat" /\ r.way \in {"self", "teacher"} /\ pc[r] \in {"exists", "save", "write"}
       => InClass(r)
  /\ r.op = "settings" /\ pc[r] = "update" => held[r] \notin withdrawn

TurnInv == world.serial => entry.key \notin withdrawn /\ \A r \in world.calls : FoundInTurn(r)

\* Only the call that moves has found anything.
LEMMA TurnKept ==
  ASSUME ReqInv, TurnInv, NEW r \in world.calls, Moves(r), UNCHANGED world,
         world.serial => entry'.key \notin withdrawn' /\ FoundInTurn(r)'
  PROVE  TurnInv'
<1> SUFFICES ASSUME world.serial, NEW q \in world.calls, q # r PROVE FoundInTurn(q)'
  BY DEF TurnInv
<1>1. pc'[q] \in {"start", "done"}
  BY DEF Moves, Idle
<1> QED BY <1>1 DEF FoundInTurn

LEMMA ClassInTurn ==
  ASSUME ReqInv, TurnInv, NEW r \in world.calls, ClassStep(r), UNCHANGED <<world, subjectVars>>
  PROVE  TurnInv'
<1>0. Moves(r) /\ r.op \in ClassOps
  BY ClassMoves
<1> SUFFICES ASSUME world.serial, r.op = "enrol", pc'[r] \in {"save", "write"}
             PROVE  r.user \notin Enrolled'
  BY <1>0, TurnKept DEF TurnInv, FoundInTurn, ClassOps, subjectVars
<1>1. CheckEnrolled(r) \/ CompareRoll(r)
  BY AtMoves DEF ClassStep, BeginEnrol, WriteRoll, FindRoll, SetActive, Unenrol, BulkRemove,
     ApproveRoll, SetDoor, End
<1>2. UNCHANGED rolls
  BY <1>1 DEF CheckEnrolled, CompareRoll, classVars
<1>3. CASE CheckEnrolled(r)
  <2>1. Absent(r)
    BY <1>3, AtMoves DEF CheckEnrolled, End
  <2> QED BY <1>2, <2>1 DEF Absent, Enrolled
<1>4. CASE CompareRoll(r)
  <2>1. pc[r] = "save"
    BY <1>4 DEF CompareRoll, At
  <2> QED BY <1>2, <2>1 DEF TurnInv, FoundInTurn, Enrolled
<1> QED BY <1>1, <1>3, <1>4

LEMMA SeatInTurn ==
  ASSUME ReqInv, SubjectInv, TurnInv, NEW r \in world.calls, SubjectStep(r),
         UNCHANGED <<world, classVars>>
  PROVE  TurnInv'
<1>0. /\ Moves(r) /\ r.op \in SubjectOps /\ UNCHANGED rolls
      /\ newest \in Nat /\ withdrawn \subseteq 1..newest /\ NoRow \notin Nat
  BY SubjectMoves, SubjectWorldsAssumption DEF classVars, SubjectInv, SubjectTypeOK
<1>1. CASE ReadSettings(r)
  <2>1. /\ r.op = "settings" /\ held'[r] = NextKey(r) /\ UNCHANGED <<entry, withdrawn>>
    BY <1>1, AtMoves DEF ReadSettings
  <2>2. world.serial => NextKey(r) \notin withdrawn
    BY <1>0 DEF NextKey, TurnInv
  <2> QED BY <1>0, <2>1, <2>2, TurnKept DEF TurnInv, FoundInTurn
<1>2. CASE WriteSettings(r)
  <2>1. /\ r.op = "settings" /\ pc[r] = "update" /\ pc'[r] = "done"
        /\ entry' = [open |-> r.enable, key |-> held[r]]
        /\ \/ withdrawn' = withdrawn
           \/ ~r.enable /\ entry.key # NoRow /\ withdrawn' = withdrawn \cup {entry.key}
    BY <1>2, AtMoves, SubjectWorldsAssumption DEF WriteSettings, End, ReqInv
  <2>2. ~r.enable => held[r] = NoRow
    BY <2>1, SubjectWorldsAssumption DEF SubjectInv, SeatHeld, ReqInv
  <2>3. world.serial => held[r] \notin withdrawn
    BY <2>1 DEF TurnInv, FoundInTurn
  <2>4. world.serial => entry'.key \notin withdrawn'
    BY <2>1, <2>2, <2>3
  <2> QED BY <1>0, <2>1, <2>4, TurnKept DEF FoundInTurn
<1>3. CASE ~ReadSettings(r) /\ ~WriteSettings(r)
  <2>1. UNCHANGED <<entry, withdrawn>> /\ r.op # "settings"
    BY <1>3 DEF SubjectStep, BeginSeat, CheckClass, CheckSeated, CompareSeat, WriteSeat, FindSeat,
       ChangeSeat, Unseat, At, subjectVars
  <2>2. ASSUME world.serial, r.op = "seat", r.way \in {"self", "teacher"},
               pc'[r] \in {"exists", "save", "write"}
        PROVE  InClass(r)
    <3>1. CASE BeginSeat(r)
      <4>1. At(r, "seat", "start") /\ \E step \in {"class", "done"} : \E value : GoOn(r, step, value)
        BY <2>2, <3>1 DEF BeginSeat, End
      <4> QED BY <2>2, <4>1, AtMoves
    <3>2. CASE CheckClass(r)
      BY <2>2, <3>2, AtMoves DEF CheckClass, End
    <3>3. CASE CheckSeated(r) \/ CompareSeat(r)
      <4>1. pc[r] \in {"exists", "save"}
        BY <3>3 DEF CheckSeated, CompareSeat, At
      <4> QED BY <2>2, <4>1 DEF TurnInv, FoundInTurn
    <3>4. CASE WriteSeat(r) \/ FindSeat(r) \/ ChangeSeat(r) \/ Unseat(r)
      BY <2>2, <3>4, AtMoves DEF WriteSeat, FindSeat, ChangeSeat, Unseat, End
    <3> QED BY <1>3, <3>1, <3>2, <3>3, <3>4 DEF SubjectStep
  <2>3. InClass(r) => InClass(r)'
    BY <1>0 DEF InClass, Enrolled
  <2> QED BY <1>0, <2>1, <2>2, <2>3, TurnKept DEF TurnInv, FoundInTurn, SubjectOps
<1> QED BY <1>1, <1>2, <1>3

LEMMA NextTurn ==
  ASSUME ReqInv, QueueInv, SubjectInv, TurnInv, [SchoolNext]_schoolVars
  PROVE  TurnInv'
<1>0. UNCHANGED world
  BY StepKinds
<1>1. ASSUME NEW r \in world.calls, CallStep(r), ~ClassStep(r), ~SubjectStep(r) PROVE TurnInv'
  <2>1. Moves(r) /\ r.op \notin {"enrol", "seat", "settings"}
    BY <1>1 DEF CallStep, PeopleOps, UserOps, ProfileOps, MemberOps, OrgOps, WorkOps, PaperOps
  <2>2. UNCHANGED <<entry, withdrawn>>
    BY <1>1 DEF CallStep, Cascade, subjectVars
  <2> QED BY <1>0, <2>1, <2>2, TurnKept DEF FoundInTurn, TurnInv
<1>2. ASSUME NEW r \in world.calls, CallStep(r), ClassStep(r) PROVE TurnInv'
  <2>1. UNCHANGED subjectVars
    BY <1>2, ClassMoves DEF CallStep, ClassOps, PeopleOps, UserOps, ProfileOps, MemberOps, SubjectOps,
       OrgOps, WorkOps, PaperOps
  <2> QED BY <1>0, <1>2, <2>1, ClassInTurn
<1>3. ASSUME NEW r \in world.calls, CallStep(r), SubjectStep(r) PROVE TurnInv'
  <2>1. UNCHANGED classVars
    BY <1>3, SubjectMoves DEF CallStep, ClassOps, PeopleOps, UserOps, ProfileOps, MemberOps, SubjectOps,
       OrgOps, WorkOps, PaperOps
  <2> QED BY <1>0, <1>3, <2>1, SeatInTurn
<1>4. CASE RestStep
  BY <1>0, <1>4 DEF RestStep, requestVars, classVars, subjectVars, TurnInv, FoundInTurn, InClass, Enrolled
<1> QED BY <1>1, <1>2, <1>3, <1>4, StepKinds

LEMMA InitTurn == SchoolInit => TurnInv
BY DEF SchoolInit, RequestInit, SubjectInit, TurnInv, FoundInTurn

\* Who makes an enrolment verified.
LEMMA RollsVerified ==
  ASSUME ReqInv, QueueInv, ClassInv, [SchoolNext]_schoolVars, NEW u \in Users,
         rolls'[u] # NoRow, rolls'[u].isVerified, u \in Enrolled => ~rolls[u].isVerified
  PROVE  \E r \in Underway("rollVerify") \cup Underway("enrol") :
           /\ r.user = u
           /\ IF r.op = "enrol" THEN r.way = "teacher" /\ ~r.unverified ELSE r.approve
<1>0. rolls \in [Users -> RollRows \cup {NoRow}] /\ rolls'[u] # rolls[u]
  BY DEF ClassInv, ClassTypeOK, Enrolled
<1>1. PICK r \in world.calls : CallStep(r) /\ ClassStep(r)
  <2>1. ~RestStep
    BY <1>0 DEF RestStep, classVars
  <2>2. ASSUME NEW r \in world.calls, CallStep(r) PROVE ClassStep(r)
    BY <1>0, <2>2 DEF CallStep, Cascade, classVars
  <2> QED BY <2>1, <2>2, StepKinds
<1>2. CASE WriteRoll(r)
  <2>1. r \in Underway("enrol") /\ r.op = "enrol"
    BY <1>2 DEF WriteRoll, At, Underway
  <2> DEFINE new == Saved(r, rolls[r.user], NewRoll)
  <2>2. UNCHANGED rolls \/ rolls' = [rolls EXCEPT ![r.user] = new]
    BY <1>2 DEF WriteRoll
  <2>3. r.user = u /\ rolls'[u] = new
    <3> HIDE DEF new
    <3> QED BY <1>0, <2>2
  <2>4. RollHeld(r) /\ pc[r] = "write"
    BY <1>2 DEF ClassInv, WriteRoll, At
  <2>5. "isVerified" \in DOMAIN held[r].set /\ held[r].set.isVerified
    <3>1. CASE rolls[u] # NoRow
      <4>1. new = held[r].set ++ rolls[u] /\ "isVerified" \in DOMAIN rolls[u] /\ ~rolls[u].isVerified
        BY <1>0, <2>3, <3>1 DEF Saved, RollRows, Enrolled
      <4> QED BY <2>3, <4>1 DEF ++
    <3>2. CASE rolls[u] = NoRow
      <4>1. new = held[r].set ++ NewRoll /\ "isVerified" \in DOMAIN NewRoll /\ ~NewRoll.isVerified
        BY <1>0, <2>3, <3>2 DEF Saved, NewRoll
      <4> QED BY <2>3, <4>1 DEF ++
    <3> QED BY <3>1, <3>2
  <2>6. r.way = "teacher" /\ ~r.unverified
    BY <2>1, <2>4, <2>5 DEF RollHeld
  <2> QED BY <2>1, <2>3, <2>6
<1>3. CASE SetActive(r)
  <2> DEFINE new == [isActive |-> r.isActive] ++ rolls[r.user]
  <2>1. UNCHANGED rolls \/ rolls' = [rolls EXCEPT ![r.user] = new]
    BY <1>3 DEF SetActive, UpdateRoll
  <2>2. u = r.user /\ rolls'[u] = new /\ rolls[u] # NoRow
    <3>1. UNCHANGED rolls \/ rolls[r.user] # NoRow
      BY <1>3 DEF SetActive, UpdateRoll
    <3> HIDE DEF new
    <3> QED BY <1>0, <2>1, <3>1
  <2>3. "isVerified" \in DOMAIN rolls[u] /\ ~rolls[u].isVerified
    BY <1>0, <2>2 DEF RollRows, Enrolled
  <2>4. new.isVerified = rolls[u].isVerified
    BY <2>2, <2>3 DEF ++
  <2> QED BY <2>2, <2>3, <2>4
<1>4. CASE ApproveRoll(r)
  <2>1. r \in Underway("rollVerify") /\ r.op # "enrol" /\ r.approve
    BY <1>4 DEF ApproveRoll, At, Underway
  <2>2. \E new : UNCHANGED rolls \/ rolls' = [rolls EXCEPT ![r.user] = new]
    BY <1>4 DEF ApproveRoll, UpdateRoll
  <2>3. r.user = u
    BY <1>0, <2>2
  <2> QED BY <2>1, <2>3
<1>5. CASE Unenrol(r) \/ BulkRemove(r)
  BY <1>0, <1>5 DEF Unenrol, BulkRemove
<1>6. CASE BeginEnrol(r) \/ CheckEnrolled(r) \/ CompareRoll(r) \/ FindRoll(r) \/ SetDoor(r)
  BY <1>0, <1>6 DEF BeginEnrol, CheckEnrolled, CompareRoll, FindRoll, SetDoor, classVars
<1> QED BY <1>1, <1>2, <1>3, <1>4, <1>5, <1>6 DEF ClassStep

\* What a step does to a verified enrolment, served one after the other.
LEMMA RollsStayVerified ==
  ASSUME ReqInv, QueueInv, ClassInv, TurnInv, [SchoolNext]_schoolVars, world.serial,
         NEW u \in Enrolled, rolls[u].isVerified, rolls'[u] # NoRow
  PROVE  rolls'[u].isVerified
<1>0. rolls \in [Users -> RollRows \cup {NoRow}] /\ u \in Users /\ rolls[u] # NoRow
  BY DEF ClassInv, ClassTypeOK, Enrolled
<1> SUFFICES ASSUME rolls'[u] # rolls[u] PROVE rolls'[u].isVerified
  OBVIOUS
<1>1. PICK r \in world.calls : CallStep(r) /\ ClassStep(r)
  <2>1. ~RestStep
    BY DEF RestStep, classVars
  <2>2. ASSUME NEW r \in world.calls, CallStep(r) PROVE ClassStep(r)
    BY <1>0, <2>2 DEF CallStep, Cascade, classVars
  <2> QED BY <2>1, <2>2, StepKinds
<1>2. CASE WriteRoll(r)
  <2>1. r.user # u
    BY <1>2 DEF WriteRoll, At, TurnInv, FoundInTurn
  <2> QED BY <1>0, <1>2, <2>1 DEF WriteRoll
<1>3. CASE SetActive(r) \/ ApproveRoll(r)
  <2>1. \E columns \in {[isActive |-> r.isActive], [isVerified |-> TRUE]} : UpdateRoll(r.user, columns)
    BY <1>3 DEF SetActive, ApproveRoll
  <2>2. PICK columns \in {[isActive |-> r.isActive], [isVerified |-> TRUE]} : UpdateRoll(r.user, columns)
    BY <2>1
  <2>3. rolls'[u] = columns ++ rolls[u]
    BY <1>0, <2>2 DEF UpdateRoll
  <2>4. "isVerified" \in DOMAIN rolls[u]
    BY <1>0 DEF RollRows
  <2>5. CASE columns = [isActive |-> r.isActive]
    <3>1. (columns ++ rolls[u]).isVerified = rolls[u].isVerified
      BY <2>4, <2>5 DEF ++
    <3> QED BY <2>3, <3>1
  <2>6. CASE columns = [isVerified |-> TRUE]
    <3>1. (columns ++ rolls[u]).isVerified = TRUE
      BY <2>6 DEF ++
    <3> QED BY <2>3, <3>1
  <2> QED BY <2>2, <2>5, <2>6
<1>4. CASE ~WriteRoll(r) /\ ~SetActive(r) /\ ~ApproveRoll(r)
  BY <1>0, <1>1, <1>4 DEF ClassStep, Unenrol, BulkRemove, BeginEnrol, CheckEnrolled, CompareRoll, FindRoll,
     SetDoor, classVars
<1> QED BY <1>2, <1>3, <1>4

\* Who takes a seat, served one after the other.
LEMMA SeatsTaken ==
  ASSUME ReqInv, QueueInv, SubjectInv, TurnInv, [SchoolNext]_schoolVars, world.serial,
         NEW u \in Users, u \notin Seated, seats'[u] # NoRow
  PROVE  \E r \in Underway("seat") :
           r.user = u /\ (r.way \in {"self", "teacher"} => u \in Enrolled /\ rolls[u].isActive)
<1>0. seats \in [Users -> SeatRows \cup {NoRow}] /\ seats[u] = NoRow
  BY DEF SubjectInv, SubjectTypeOK, Seated
<1>1. PICK r \in world.calls : CallStep(r) /\ SubjectStep(r)
  <2>1. ~RestStep
    BY <1>0 DEF RestStep, subjectVars
  <2>2. ASSUME NEW r \in world.calls, CallStep(r) PROVE SubjectStep(r)
    BY <1>0, <2>2 DEF CallStep, Cascade, subjectVars
  <2> QED BY <2>1, <2>2, StepKinds
<1>2. WriteSeat(r)
  BY <1>0, <1>1 DEF SubjectStep, BeginSeat, CheckClass, CheckSeated, CompareSeat, FindSeat, ChangeSeat,
     Unseat, ReadSettings, WriteSettings, Seated, subjectVars
<1>3. r \in Underway("seat") /\ r.op = "seat" /\ pc[r] = "write"
  BY <1>2 DEF WriteSeat, At, Underway
<1>4. \E new : UNCHANGED seats \/ seats' = [seats EXCEPT ![r.user] = new]
  BY <1>2 DEF WriteSeat
<1>5. r.user = u
  BY <1>0, <1>4
<1>6. r.way \in {"self", "teacher"} => InClass(r)
  BY <1>3 DEF TurnInv, FoundInTurn
<1> QED BY <1>3, <1>5, <1>6 DEF InClass

\* Which key admits a student, served one after the other.
LEMMA KeysInForce ==
  ASSUME ReqInv, QueueInv, TurnInv, [SchoolNext]_schoolVars, world.serial,
         NEW r \in world.calls, r.op = "seat", pc[r] = "start", pc'[r] = "class", r.way = "self"
  PROVE  held'[r] \notin withdrawn
<1>1. PICK q \in world.calls : CallStep(q)
  BY StepKinds DEF RestStep, requestVars
<1>2. q = r
  BY <1>1 DEF CallStep, Moves
<1>3. SubjectStep(r)
  BY <1>1, <1>2 DEF CallStep, ClassOps, PeopleOps, UserOps, ProfileOps, MemberOps, OrgOps, WorkOps, PaperOps
<1>4. BeginSeat(r)
  BY <1>3, AtMoves DEF SubjectStep, CheckClass, CheckSeated, CompareSeat, WriteSeat, FindSeat, ChangeSeat,
     Unseat, ReadSettings, WriteSettings, At
<1>5. PICK k \in 1..newest : IF entry = [open |-> TRUE, key |-> k] THEN GoOn(r, "class", k) ELSE End(r)
  BY <1>4 DEF BeginSeat
<1>6. At(r, "seat", "start")
  BY <1>4 DEF BeginSeat
<1>7. entry = [open |-> TRUE, key |-> k] /\ GoOn(r, "class", k)
  BY <1>5, <1>6, AtMoves DEF End
<1>8. held'[r] = k /\ entry.key = k
  BY <1>6, <1>7, AtMoves
<1> QED BY <1>8 DEF TurnInv

\* Only somebody entitled makes an enrolment verified, whatever the calls and
\* their order.  Served one after the other, a verified enrolment stays so until
\* the student is removed, a student who enrols himself in a subject or is
\* assigned to it is active in its class, and a key that was withdrawn admits
\* nobody.
THEOREM EnrolmentsSound == SchoolSpec => EnrolmentsHold
<1> DEFINE Verified ==
             \A u \in Users :
               rolls'[u] # NoRow /\ rolls'[u].isVerified /\ (u \in Enrolled => ~rolls[u].isVerified)
                 => \E r \in Underway("rollVerify") \cup Underway("enrol") :
                      /\ r.user = u
                      /\ IF r.op = "enrol" THEN r.way = "teacher" /\ ~r.unverified ELSE r.approve
           Stays == \A u \in Enrolled : world.serial /\ rolls[u].isVerified /\ rolls'[u] # NoRow
                                          => rolls'[u].isVerified
           Entitled == \A u \in Users : world.serial /\ u \notin Seated /\ seats'[u] # NoRow
                         => \E r \in Underway("seat") :
                              r.user = u /\ (r.way \in {"self", "teacher"}
                                               => u \in Enrolled /\ rolls[u].isActive)
           Admits == \A r \in world.calls :
                       world.serial /\ r.op = "seat" /\ pc[r] = "start" /\ pc'[r] = "class"
                         /\ r.way = "self" => held'[r] \notin withdrawn
<1>1. SchoolInit => TurnInv
  BY InitTurn
<1>2. SchoolInv /\ TurnInv /\ [SchoolNext]_schoolVars => TurnInv'
  BY NextTurn DEF SchoolInv, BaseInv
<1>3. SchoolInv /\ TurnInv /\ [SchoolNext]_schoolVars => Verified /\ Stays
  BY RollsVerified, RollsStayVerified DEF SchoolInv, BaseInv
<1>4. SchoolInv /\ TurnInv /\ [SchoolNext]_schoolVars => Entitled /\ Admits
  BY SeatsTaken, KeysInForce DEF SchoolInv, BaseInv
<1> QED BY <1>1, <1>2, <1>3, <1>4, SchoolInvariant, PTL
       DEF SchoolSpec, EnrolmentsHold, VerifiedBySomeone, EnrolmentStaysVerified, SeatNeedsClass,
           WithdrawnKeyDead

-----------------------------------------------------------------------------
(* Users who were deactivated                                              *)

\* A call that saves a user's entity changes his state to what it was asked, if
\* it changes it.
ActiveHeld(r) ==
  /\ r.op = "switch" /\ pc[r] = "save" => "active" \in DOMAIN held[r] /\ held[r].active = r.active
  /\ r.op = "switch" /\ pc[r] = "write" =>
       ("active" \in DOMAIN held[r].set => held[r].set.active = r.active)
  /\ r.op = "rejectPhoto" /\ pc[r] = "write" => "active" \notin DOMAIN held[r].set

ActiveInv == \A r \in world.calls : ActiveHeld(r)

LEMMA NextActive ==
  ASSUME ReqInv, QueueInv, PeopleInv, ActiveInv, [SchoolNext]_schoolVars
  PROVE  ActiveInv'
<1>0. UNCHANGED world
  BY StepKinds
<1>1. ASSUME NEW r \in world.calls, CallStep(r), ActiveHeld(r)' PROVE ActiveInv'
  BY <1>0, <1>1 DEF CallStep, Moves, ActiveInv, ActiveHeld
<1>2. ASSUME NEW r \in world.calls, CallStep(r), r.op \in {"switch", "rejectPhoto"} PROVE ActiveHeld(r)'
  <2>1. PeopleStep(r) /\ r.op \notin ProfileOps
    BY <1>2 DEF CallStep, ProfileOps, MemberOps, ClassOps, SubjectOps, OrgOps, WorkOps, PaperOps
  <2>2. FetchDetails(r) \/ StoreDetails(r) \/ FindEntity(r) \/ UnlinkPhoto(r) \/ CompareUser(r) \/ WriteUser(r)
    BY <1>2, <2>1, ProfileMoves DEF PeopleStep, UserStep, At, InsertUser, InsertProfiles, Register,
       Forget, FindUser, EditUser, RemoveUser, FindCardHolder, RegisterRfid, FindShown, CheckStored,
       FindPictured, UpdateImageUrl, DeleteOld
  <2>3. CASE FetchDetails(r) \/ StoreDetails(r)
    BY <1>2, <2>3, DetailsMoves DEF Caching, Thens, ActiveHeld
  <2>4. CASE FindEntity(r)
    <3>1. CASE r.op = "switch" /\ Known(r.user)
      <4>1. At(r, "switch", "start") /\ GoOn(r, "save", [people[r.user] EXCEPT !.active = r.active])
        BY <2>4, <3>1 DEF FindEntity
      <4>2. pc'[r] = "save" /\ held'[r] = [people[r.user] EXCEPT !.active = r.active]
        BY <4>1, AtMoves
      <4>3. people[r.user] \in PersonRows
        BY <1>2, <3>1, PeopleWorldsAssumption DEF Known, PeopleInv, PeopleTypeOK, ReqInv, UserOps
      <4>4. "active" \in DOMAIN held'[r] /\ held'[r].active = r.active
        BY <4>2, <4>3 DEF PersonRows
      <4> QED BY <3>1, <4>2, <4>4 DEF ActiveHeld
    <3>2. CASE ~(r.op = "switch" /\ Known(r.user))
      <4>1. /\ At(r, r.op, "start") /\ pc[r] = "start"
            /\ GoOn(r, "done", NoRow) \/ (r.op = "rejectPhoto" /\ \E step \in {"save", "unlink"} :
                                                                    \E value : GoOn(r, step, value))
        BY <1>2, <2>4, <3>2 DEF FindEntity, End, At
      <4>2. pc'[r] = "done" \/ (r.op = "rejectPhoto" /\ pc'[r] # "write")
        BY <4>1, AtMoves
      <4> QED BY <4>2 DEF ActiveHeld
    <3> QED BY <3>1, <3>2
  <2>5. CASE UnlinkPhoto(r) \/ WriteUser(r)
    BY <2>5, AtMoves DEF UnlinkPhoto, WriteUser, Cache, End, ActiveHeld
  <2>6. CASE CompareUser(r)
    <3> DEFINE entity == IF r.op = "switch" THEN held[r] ELSE held[r].entity
               row == people[r.user]
               dirty == [c \in Dirty(entity, row) |-> entity[c]]
               compared == Comparison(entity, row)
    <3>1. At(r, r.op, "save") /\ GoOn(r, "write", compared)
      BY <2>6 DEF CompareUser
    <3>2. pc[r] = "save" /\ pc'[r] = "write" /\ held'[r] = compared
      <4> HIDE DEF compared
      <4> QED BY <3>1, AtMoves
    <3>3. compared.set = entity \/ compared.set = dirty
      BY DEF Comparison
    <3>4. DOMAIN dirty \subseteq DOMAIN entity /\ \A c \in DOMAIN dirty : dirty[c] = entity[c]
      BY DEF Dirty
    <3>5. CASE r.op = "switch"
      <4>1. entity.active = r.active
        BY <1>2, <3>2, <3>5 DEF ActiveInv, ActiveHeld
      <4> HIDE DEF compared, dirty, entity
      <4>2. "active" \in DOMAIN compared.set => compared.set.active = r.active
        BY <3>3, <3>4, <4>1
      <4> QED BY <3>2, <3>5, <4>2 DEF ActiveHeld
    <3>6. CASE r.op = "rejectPhoto"
      <4>1. DOMAIN entity = {"image"}
        BY <3>2, <3>6 DEF PeopleInv, PersonHeld
      <4> HIDE DEF compared, dirty, entity
      <4>2. "active" \notin DOMAIN compared.set
        BY <3>3, <3>4, <4>1
      <4> QED BY <3>2, <3>6, <4>2 DEF ActiveHeld
    <3> QED BY <1>2, <3>5, <3>6
  <2> QED BY <2>2, <2>3, <2>4, <2>5, <2>6
<1>3. ASSUME NEW r \in world.calls, CallStep(r) PROVE ActiveInv'
  <2>1. CASE r.op \in {"switch", "rejectPhoto"}
    BY <1>1, <1>2, <1>3, <2>1
  <2>2. CASE r.op \notin {"switch", "rejectPhoto"}
    BY <1>1, <1>3, <2>2 DEF ActiveHeld
  <2> QED BY <2>1, <2>2
<1>4. CASE RestStep
  BY <1>0, <1>4 DEF RestStep, requestVars, ActiveInv, ActiveHeld
<1> QED BY <1>3, <1>4, StepKinds

LEMMA InitActive == SchoolInit => ActiveInv
BY DEF SchoolInit, RequestInit, ActiveInv, ActiveHeld

\* Some of a user's columns written over his row, and his state after it.
LEMMA ActiveWritten ==
  ASSUME PeopleInv, NEW u \in Users, Known(u), ~people[u].active, NEW columns,
         people'[u] = columns ++ people[u], people'[u].active
  PROVE  "active" \in DOMAIN columns /\ columns.active
<1>1. "active" \in DOMAIN people[u]
  BY DEF PeopleInv, PeopleTypeOK, Known, PersonRows
<1>2. (columns ++ people[u]).active = IF "active" \in DOMAIN columns THEN columns.active ELSE people[u].active
  BY <1>1 DEF ++
<1> QED BY <1>2

\* What an update writes of whom.
LEMMA UserUpdated ==
  ASSUME PeopleInv, NEW v, NEW columns, UpdateUser(v, columns), NEW u \in Users, people'[u] # people[u]
  PROVE  u = v /\ people'[u] = columns ++ people[u]
BY DEF UpdateUser, PeopleInv, PeopleTypeOK

\* Who makes a user active again.
LEMMA UsersActivated ==
  ASSUME ReqInv, QueueInv, PeopleInv, ActiveInv, [SchoolNext]_schoolVars, NEW u \in Users,
         Known(u), ~people[u].active, people'[u] # NoRow, people'[u].active
  PROVE  \E r \in world.calls :
           /\ r.user = u /\ pc[r] = "write" /\ pc'[r] # "write"
           /\ IF r.op = "switch" THEN r.active
              ELSE /\ r.op \in {"edit", "pupilEdit", "pupilOff", "parentEdit"}
                   /\ "active" \in DOMAIN r.set /\ r.set.active
<1>0. people'[u] # people[u] /\ people \in [Users -> PersonRows \cup {NoRow}]
  BY DEF PeopleInv, PeopleTypeOK
<1>1. PICK r \in world.calls : CallStep(r) /\ PeopleStep(r)
  <2>1. ~RestStep
    BY <1>0 DEF RestStep, peopleVars
  <2>2. ASSUME NEW r \in world.calls, CallStep(r) PROVE PeopleStep(r)
    BY <1>0, <2>2 DEF CallStep, peopleVars
  <2> QED BY <2>1, <2>2, StepKinds
<1>2. CASE EditUser(r) \/ WriteParent(r) \/ WritePupil(r)
  <2>1. /\ r.op \in {"edit", "pupilEdit", "pupilOff", "parentEdit"} /\ pc[r] = "write"
        /\ UpdateUser(r.user, r.set)
    BY <1>0, <1>2 DEF EditUser, WriteParent, WritePupil, At
  <2>2. pc'[r] # "write"
    <3>1. \E step \in {"refresh", "done"} : \E value : GoOn(r, step, value)
      BY <1>2 DEF EditUser, WriteParent, WritePupil, Cache, End
    <3> QED BY <2>1, <3>1, GoOnMoves
  <2>3. u = r.user /\ people'[u] = r.set ++ people[u]
    BY <1>0, <2>1, UserUpdated
  <2> QED BY <2>1, <2>2, <2>3, ActiveWritten
<1>3. CASE UpdateImageUrl(r) \/ UpdatePupilImage(r) \/ RegisterRfid(r)
  <2>1. \E columns \in {[image |-> r.image], [card |-> r.card]} : UpdateUser(r.user, columns)
    BY <1>0, <1>3 DEF UpdateImageUrl, UpdatePupilImage, RegisterRfid
  <2>2. PICK columns \in {[image |-> r.image], [card |-> r.card]} : UpdateUser(r.user, columns)
    BY <2>1
  <2>3. people'[u] = columns ++ people[u]
    BY <1>0, <2>2, UserUpdated
  <2>4. "active" \notin DOMAIN columns
    BY <2>2
  <2> QED BY <2>3, <2>4, ActiveWritten
<1>4. CASE WriteUser(r)
  <2> DEFINE new == Saved(r, people[r.user], held[r].set)
  <2>1. /\ r.op \in {"switch", "rejectPhoto"} /\ pc[r] = "write" /\ ~Refused(r)
        /\ people' = [people EXCEPT ![r.user] = new]
    BY <1>0, <1>4 DEF WriteUser, At
  <2>2. u = r.user /\ people'[u] = new
    <3> HIDE DEF new
    <3> QED BY <1>0, <2>1
  <2>3. new = held[r].set ++ people[u]
    BY <1>0, <2>1, <2>2 DEF Saved, Refused, KeyTaken, Known
  <2>4. "active" \in DOMAIN held[r].set /\ held[r].set.active
    BY <2>2, <2>3, ActiveWritten
  <2>5. r.op = "switch" /\ r.active
    BY <2>1, <2>4 DEF ActiveInv, ActiveHeld
  <2>6. pc'[r] # "write"
    <3>1. \E step \in {"refresh", "done"} : \E value : GoOn(r, step, value)
      BY <1>4 DEF WriteUser, Cache, End
    <3> QED BY <2>1, <3>1, GoOnMoves
  <2> QED BY <2>1, <2>2, <2>5, <2>6
<1>5. CASE Register(r)
  <2>1. r \in Underway("register")
    BY <1>5 DEF Register, At, Underway
  <2>2. r.user # u
    BY <2>1 DEF PeopleInv, PersonHeld
  <2> QED BY <1>0, <1>5, <2>2 DEF Register
<1>6. CASE RemoveUser(r)
  BY <1>0, <1>6 DEF RemoveUser
<1>7. CASE UserStep(r)
  BY <1>0, <1>2, <1>3, <1>4, <1>5, <1>6, <1>7 DEF UserStep, FetchDetails, StoreDetails, InsertUser,
     InsertProfiles, Forget, FindUser, FindEntity, UnlinkPhoto, CompareUser, FindCardHolder, FindShown,
     CheckStored, FindPictured, DeleteOld, peopleVars
<1>8. CASE ProfileStep(r)
  BY <1>0, <1>2, <1>3, <1>8 DEF ProfileStep, FindPupil, RemovePupil, EraseImage, Link, Unlink, CheckLink,
     LinkByPhone, FindParent, RemoveParent, peopleVars
<1> QED BY <1>1, <1>7, <1>8 DEF PeopleStep

-----------------------------------------------------------------------------
(* Members who were deactivated, students and placed users                 *)

\* How a call writes a member's row.
Wrote(r, u) ==
  /\ r.user = u
  /\ \/ /\ WriteMember(r) /\ ~held[r].found /\ members[u] = NoRow
        /\ members'[u] = held[r].set ++ NewMember
     \/ /\ members[u] # NoRow
        /\ \/ WriteMember(r) /\ held[r].found /\ members'[u] = held[r].set ++ members[u]
           \/ VerifyMember(r) /\ StillPending(r) /\ members'[u] = [status |-> "ACTIVE"] ++ members[u]
           \/ /\ Upload(r)
              /\ members'[u] = [image |-> r.image, shown |-> IF r.trusted THEN "VERIFIED" ELSE "PENDING"]
                               ++ members[u]
           \/ AssignCard(r) /\ members'[u] = [card |-> r.card] ++ members[u]
           \/ Review(r) /\ members'[u] = Verdict(r) ++ members[u]

LEMMA RowUpdated ==
  ASSUME DOMAIN members = Users, NEW v, NEW columns, UpdateMember(v, columns), NEW u \in Users,
         members'[u] # members[u]
  PROVE  u = v /\ members[u] # NoRow /\ members'[u] = columns ++ members[u]
BY DEF UpdateMember

LEMMA MemberWritten ==
  ASSUME ReqInv, QueueInv, MemberInv, [SchoolNext]_schoolVars, NEW u \in Users,
         members'[u] # members[u], members'[u] # NoRow
  PROVE  \E r \in world.calls : CallStep(r) /\ MemberStep(r) /\ Wrote(r, u)
<1>1. PICK r \in world.calls : CallStep(r) /\ MemberStep(r)
  <2>1. ~RestStep
    BY DEF RestStep, memberVars
  <2>2. ASSUME NEW r \in world.calls, CallStep(r) PROVE MemberStep(r)
    BY <2>2 DEF CallStep, Cascade, memberVars
  <2> QED BY <2>1, <2>2, StepKinds
<1>2. DOMAIN members = Users
  BY DEF MemberInv
<1>3. CASE WriteMember(r)
  <2> DEFINE new == Saved(r, members[r.user], NewMember)
  <2>1. UNCHANGED members \/ members' = [members EXCEPT ![r.user] = new]
    BY <1>3 DEF WriteMember
  <2>2. u = r.user /\ members'[u] = new
    <3> HIDE DEF new
    <3> QED BY <1>2, <2>1
  <2>3. new # members[u]
    BY <2>2
  <2>4. \/ ~held[r].found /\ members[u] = NoRow /\ new = held[r].set ++ NewMember
        \/ held[r].found /\ members[u] # NoRow /\ new = held[r].set ++ members[u]
    BY <2>2, <2>3 DEF Saved
  <2> HIDE DEF new
  <2> QED BY <1>1, <1>3, <2>2, <2>4 DEF Wrote
<1>4. CASE VerifyMember(r) \/ Upload(r) \/ AssignCard(r) \/ Review(r)
  <2>1. CASE VerifyMember(r)
    <3> DEFINE columns == [status |-> "ACTIVE"]
    <3>1. UpdateMember(r.user, columns) /\ StillPending(r)
      BY <2>1 DEF VerifyMember
    <3> HIDE DEF columns
    <3>2. u = r.user /\ members[u] # NoRow /\ members'[u] = columns ++ members[u]
      BY <1>2, <3>1, RowUpdated
    <3> QED BY <1>1, <2>1, <3>1, <3>2 DEF Wrote, columns
  <2>2. CASE Upload(r)
    <3> DEFINE columns == [image |-> r.image, shown |-> IF r.trusted THEN "VERIFIED" ELSE "PENDING"]
    <3>1. UpdateMember(r.user, columns)
      BY <2>2 DEF Upload
    <3> HIDE DEF columns
    <3>2. u = r.user /\ members[u] # NoRow /\ members'[u] = columns ++ members[u]
      BY <1>2, <3>1, RowUpdated
    <3> QED BY <1>1, <2>2, <3>1, <3>2 DEF Wrote, columns
  <2>3. CASE AssignCard(r)
    <3> DEFINE columns == [card |-> r.card]
    <3>1. UpdateMember(r.user, columns)
      BY <2>3 DEF AssignCard
    <3> HIDE DEF columns
    <3>2. u = r.user /\ members[u] # NoRow /\ members'[u] = columns ++ members[u]
      BY <1>2, <3>1, RowUpdated
    <3> QED BY <1>1, <2>3, <3>1, <3>2 DEF Wrote, columns
  <2>4. CASE Review(r)
    <3> DEFINE columns == Verdict(r)
    <3>1. UpdateMember(r.user, columns)
      BY <2>4 DEF Review
    <3> HIDE DEF columns
    <3>2. u = r.user /\ members[u] # NoRow /\ members'[u] = columns ++ members[u]
      BY <1>2, <3>1, RowUpdated
    <3> QED BY <1>1, <2>4, <3>1, <3>2 DEF Wrote, columns
  <2> QED BY <1>4, <2>1, <2>2, <2>3, <2>4
<1>5. CASE RemoveMember(r)
  BY <1>2, <1>5 DEF RemoveMember
<1>6. CASE \/ CreateMember(r) \/ ValidateAssignment(r) \/ EnhancedFails(r) \/ ValidateBulk(r)
           \/ CheckRole(r) \/ CompareMember(r) \/ FindPending(r) \/ FindMember(r) \/ FindHolder(r)
           \/ FindCard(r) \/ FindImage(r) \/ DeleteImage(r)
  BY <1>6 DEF CreateMember, ValidateAssignment, EnhancedFails, ValidateBulk, CheckRole, CompareMember,
     FindPending, FindMember, FindHolder, FindCard, FindImage, DeleteImage, memberVars
<1> QED BY <1>1, <1>3, <1>4, <1>5, <1>6 DEF MemberStep

\* What is saved of a member is what was asked, as far as it differs.
Deactivates(r) == r.op = "change" /\ r.set = [status |-> "INACTIVE"]

AskedFor(r) ==
  /\ Deactivates(r) /\ pc[r] = "save" => "status" \in DOMAIN held[r] /\ held[r].status = "INACTIVE"
  /\ Deactivates(r) /\ pc[r] = "write" =>
       ("status" \in DOMAIN held[r].set => held[r].set.status = "INACTIVE")
  /\ r.op = "create" /\ pc[r] = "write" => "role" \notin DOMAIN held[r].set
  /\ r.op = "assign" /\ pc[r] = "write" =>
       ("role" \in DOMAIN held[r].set => held[r].set.role = r.role)

\* And what was found of him in its turn still holds.
FoundFree(r) ==
  /\ r.op \in {"create", "place"} /\ pc[r] \in {"save", "write"} => r.user \notin Joined
  /\ r.op = "assign" /\ pc[r] \in {"role", "save", "write"} =>
       ~(r.role = "PARENT" /\ HasRole(r.user, "STUDENT"))

AskedInv == /\ \A r \in world.calls : AskedFor(r)
            /\ world.serial => \A r \in world.calls : FoundFree(r)

LEMMA AskedKept ==
  ASSUME ReqInv, AskedInv, NEW r \in world.calls, Moves(r), UNCHANGED world,
         AskedFor(r)', world.serial => FoundFree(r)'
  PROVE  AskedInv'
<1>1. ASSUME NEW q \in world.calls, q # r
      PROVE  AskedFor(q)' /\ (world.serial => FoundFree(q)')
  <2>1. AskedFor(q)'
    BY <1>1 DEF AskedInv, AskedFor, Moves
  <2>2. world.serial => pc'[q] \in {"start", "done"}
    BY <1>1 DEF Moves, Idle
  <2> QED BY <2>1, <2>2 DEF FoundFree
<1> QED BY <1>1 DEF AskedInv

\* What an assignment changes of a role is what it was asked.
LEMMA AssignmentAsked ==
  ASSUME NEW r
  PROVE  "role" \in DOMAIN Assignment(r) => Assignment(r).role = r.role
BY DEF Assignment, ++

LEMMA ComparedAsked ==
  ASSUME ReqInv, AskedInv, NEW r \in world.calls, CompareMember(r), UNCHANGED <<world, memberVars>>
  PROVE  AskedFor(r)' /\ (world.serial => FoundFree(r)')
<1> DEFINE entity == Entity(r)
           row == members[r.user]
           dirty == [c \in Dirty(entity, row) |-> entity[c]]
           flag == [bulk |-> r.op = "assign" /\ InBulk(r)]
           compared == Comparison(entity, row)
<1>1. pc[r] = "save" /\ pc'[r] = "write" /\ held'[r] = compared ++ flag /\ UNCHANGED memberVars
  <2>1. At(r, r.op, "save") /\ GoOn(r, "write", compared ++ flag)
    BY DEF CompareMember
  <2> HIDE DEF compared, flag
  <2> QED BY <2>1, AtMoves
<1>2. compared.set = entity \/ compared.set = dirty
  BY DEF Comparison
<1>3. DOMAIN dirty \subseteq DOMAIN entity /\ \A c \in DOMAIN dirty : dirty[c] = entity[c]
  BY DEF Dirty
<1>4. held'[r].set = compared.set
  <2>1. "set" \in DOMAIN compared
    BY DEF Comparison
  <2> HIDE DEF compared, flag
  <2> QED BY <1>1, <2>1 DEF ++
<1>5. /\ Deactivates(r) => "status" \in DOMAIN entity /\ entity.status = "INACTIVE"
      /\ r.op = "create" => "role" \notin DOMAIN entity
      /\ r.op = "assign" => ("role" \in DOMAIN entity => entity.role = r.role)
  <2>1. Deactivates(r) => entity = held[r] /\ "status" \in DOMAIN held[r] /\ held[r].status = "INACTIVE"
    BY <1>1 DEF Entity, Deactivates, AskedInv, AskedFor
  <2>2. r.op = "create" => entity = [status |-> r.status]
    BY DEF Entity
  <2>3. r.op = "assign" => entity = Assignment(r)
    BY DEF Entity
  <2> HIDE DEF entity
  <2> QED BY <2>1, <2>2, <2>3, AssignmentAsked
<1> HIDE DEF compared, dirty, entity
<1>6. /\ Deactivates(r) => ("status" \in DOMAIN compared.set => compared.set.status = "INACTIVE")
      /\ r.op = "create" => "role" \notin DOMAIN compared.set
      /\ r.op = "assign" => ("role" \in DOMAIN compared.set => compared.set.role = r.role)
  BY <1>2, <1>3, <1>5
<1>7. AskedFor(r)'
  BY <1>1, <1>4, <1>6 DEF AskedFor, Deactivates
<1>8. world.serial => FoundFree(r)'
  BY <1>1 DEF AskedInv, FoundFree, memberVars, Joined, HasRole
<1> QED BY <1>7, <1>8

LEMMA StepAsked ==
  ASSUME ReqInv, MemberInv, AskedInv, NEW r \in world.calls, MemberStep(r), UNCHANGED world
  PROVE  AskedFor(r)' /\ (world.serial => FoundFree(r)')
<1>1. CASE CompareMember(r)
  BY <1>1, ComparedAsked DEF CompareMember
<1>2. CASE FindMember(r)
  <2>1. /\ At(r, "change", "start") /\ r.op = "change"
        /\ IF r.user \in Joined THEN GoOn(r, "save", r.set ++ members[r.user]) ELSE GoOn(r, "done", NoRow)
    BY <1>2 DEF FindMember, End, At
  <2>2. pc'[r] = "done" \/ (pc'[r] = "save" /\ held'[r] = r.set ++ members[r.user])
    BY <2>1, AtMoves
  <2>3. Deactivates(r) => "status" \in DOMAIN (r.set ++ members[r.user])
                          /\ (r.set ++ members[r.user]).status = "INACTIVE"
    BY DEF Deactivates, ++
  <2> QED BY <2>1, <2>2, <2>3 DEF AskedFor, FoundFree, Deactivates
<1>3. CASE CreateMember(r)
  <2>1. r.op = "create" /\ UNCHANGED members /\ pc'[r] \in {"save", "done"}
        /\ (pc'[r] = "save" => members[r.user] = NoRow)
    BY <1>3, AtMoves DEF CreateMember, End, memberVars
  <2> QED BY <2>1 DEF AskedFor, FoundFree, Deactivates, Joined
<1>4. CASE ValidateAssignment(r) \/ ValidateBulk(r)
  <2>1. r.op = "assign" /\ UNCHANGED members /\ pc'[r] \in {"role", "save", "done"}
        /\ (pc'[r] \in {"role", "save"} => Valid(r))
    BY <1>4, AtMoves DEF ValidateAssignment, ValidateBulk, End, memberVars
  <2> QED BY <2>1 DEF AskedFor, FoundFree, Deactivates, Valid, HasRole, Joined
<1>5. CASE CheckRole(r)
  <2>1. r.op = "assign" /\ UNCHANGED members /\ pc[r] = "role" /\ pc'[r] \in {"save", "done"}
    BY <1>5, AtMoves DEF CheckRole, End, memberVars
  <2> QED BY <2>1 DEF AskedFor, FoundFree, Deactivates, HasRole, Joined, AskedInv
<1>6. CASE EnhancedFails(r) \/ WriteMember(r) \/ FindPending(r) \/ VerifyMember(r) \/ RemoveMember(r)
  <2>1. pc'[r] \in {"fallback", "done", "update"}
    BY <1>6, AtMoves DEF EnhancedFails, WriteMember, FindPending, VerifyMember, RemoveMember, End
  <2> QED BY <2>1 DEF AskedFor, FoundFree
<1>7. CASE FindHolder(r) \/ Upload(r) \/ FindCard(r) \/ AssignCard(r) \/ FindImage(r)
           \/ DeleteImage(r) \/ Review(r)
  <2>1. pc'[r] \in {"holder", "done", "update", "delete"}
    BY <1>7, AtMoves DEF FindHolder, Upload, FindCard, AssignCard, FindImage, DeleteImage, Review, End
  <2> QED BY <2>1 DEF AskedFor, FoundFree
<1> QED BY <1>1, <1>2, <1>3, <1>4, <1>5, <1>6, <1>7 DEF MemberStep

LEMMA NextAsked ==
  ASSUME ReqInv, QueueInv, MemberInv, AskedInv, [SchoolNext]_schoolVars
  PROVE  AskedInv'
<1>0. UNCHANGED world
  BY StepKinds
<1>1. ASSUME NEW r \in world.calls, CallStep(r), MemberStep(r) PROVE AskedInv'
  BY <1>0, <1>1, StepAsked, AskedKept DEF CallStep
<1>2. ASSUME NEW r \in world.calls, CallStep(r), OrgStep(r), ~MemberStep(r) PROVE AskedInv'
  <2>1. AskedFor(r)' /\ (world.serial => FoundFree(r)')
    <3>1. CASE CheckPlaced(r)
      <4>1. r.op = "place" /\ pc'[r] \in {"save", "done"} /\ (pc'[r] = "save" => Unplaced(r))
        BY <3>1, AtMoves DEF CheckPlaced, End
      <4>2. UNCHANGED members
        BY <1>2, <4>1 DEF CallStep, memberVars, PeopleOps, UserOps, ProfileOps
      <4> QED BY <4>1, <4>2 DEF AskedFor, FoundFree, Deactivates, Unplaced, Joined
    <3>2. CASE ~CheckPlaced(r)
      <4>1. pc'[r] \in {"member", "done", "insert", "promote", "exists"}
        BY <1>2, <3>2, AtMoves DEF OrgStep, SaveOrganization, SaveFounder, CheckStaff, InsertStaff,
           ChangeStaffRole, RemoveStaff, DemotePresidents, PromotePresident, CheckMember, End
      <4> QED BY <4>1 DEF AskedFor, FoundFree
    <3> QED BY <3>1, <3>2
  <2> QED BY <1>0, <1>2, <2>1, AskedKept DEF CallStep
<1>3. ASSUME NEW r \in world.calls, CallStep(r), ~MemberStep(r), ~OrgStep(r) PROVE AskedInv'
  <2>1. Moves(r) /\ r.op \notin Saving
    BY <1>3 DEF CallStep, PeopleOps, UserOps, ProfileOps, ClassOps, SubjectOps, WorkOps, PaperOps, Saving
  <2>2. AskedFor(r)' /\ FoundFree(r)'
    BY <2>1 DEF AskedFor, FoundFree, Deactivates, Saving
  <2> QED BY <1>0, <2>1, <2>2, AskedKept
<1>4. CASE RestStep
  BY <1>0, <1>4 DEF RestStep, requestVars, memberVars, AskedInv, AskedFor, FoundFree, Joined, HasRole
<1> QED BY <1>1, <1>2, <1>3, <1>4, StepKinds

LEMMA InitAsked == SchoolInit => AskedInv
BY DEF SchoolInit, RequestInit, AskedInv, AskedFor, FoundFree

\* A member who writes his row is under way.
LEMMA Writing ==
  ASSUME NEW r \in world.calls, WriteMember(r)
  PROVE  /\ r.op \in Saving /\ r \in Underway(r.op) /\ pc[r] = "write"
BY DEF WriteMember, At, Underway, Saving

\* What becomes of the status of a deactivated member.
LEMMA StatusKept ==
  ASSUME ReqInv, QueueInv, MemberInv, AskedInv, [SchoolNext]_schoolVars, NEW u \in Joined,
         \A r \in Underway("change") : r.set = [status |-> "INACTIVE"], Underway("assign") = {},
         world.serial \/ Underway("create") \cup Underway("place") = {},
         members[u].status = "INACTIVE", members'[u] # NoRow
  PROVE  members'[u].status = "INACTIVE"
<1>0. u \in Users /\ "status" \in DOMAIN members[u] /\ members[u] # NoRow
  BY DEF Joined, MemberInv, MemberRow
<1> SUFFICES ASSUME members'[u] # members[u] PROVE members'[u].status = "INACTIVE"
  OBVIOUS
<1>1. PICK r \in world.calls : Wrote(r, u)
  BY <1>0, MemberWritten
<1>2. ASSUME NEW columns, members'[u] = columns ++ members[u],
             "status" \in DOMAIN columns => columns.status = "INACTIVE"
      PROVE  members'[u].status = "INACTIVE"
  BY <1>0, <1>2 DEF ++
<1>3. CASE WriteMember(r) /\ members'[u] = held[r].set ++ members[u]
  <2>1. r.op = "change" \/ (world.serial /\ r.op \in {"create", "place"})
    BY <1>3, Writing DEF Saving
  <2>2. CASE r.op = "change"
    <3>1. Deactivates(r) /\ pc[r] = "write"
      BY <1>3, <2>2, Writing DEF Deactivates
    <3>2. "status" \in DOMAIN held[r].set => held[r].set.status = "INACTIVE"
      BY <3>1 DEF AskedInv, AskedFor
    <3> QED BY <1>2, <1>3, <3>2
  <2>3. CASE world.serial /\ r.op \in {"create", "place"}
    BY <1>1, <1>3, <2>3, Writing DEF AskedInv, FoundFree, Wrote
  <2> QED BY <2>1, <2>2, <2>3
<1>4. CASE StillPending(r)
  BY <1>1, <1>4 DEF StillPending, Wrote
<1>5. CASE members'[u] = [image |-> r.image, shown |-> IF r.trusted THEN "VERIFIED" ELSE "PENDING"]
                         ++ members[u]
  BY <1>2, <1>5
<1>6. CASE members'[u] = [card |-> r.card] ++ members[u]
  BY <1>2, <1>6
<1>7. CASE members'[u] = Verdict(r) ++ members[u]
  <2>1. "status" \notin DOMAIN Verdict(r)
    BY DEF Verdict
  <2> QED BY <1>2, <1>7, <2>1
<1> QED BY <1>0, <1>1, <1>3, <1>4, <1>5, <1>6, <1>7 DEF Wrote

\* What becomes of the role of a student.
LEMMA StudentKept ==
  ASSUME ReqInv, QueueInv, MemberInv, AskedInv, [SchoolNext]_schoolVars, NEW u \in Joined,
         world.serial, Underway("change") = {}, members'[u] # NoRow, members[u].role = "STUDENT"
  PROVE  members'[u].role # "PARENT"
<1>0. u \in Users /\ "role" \in DOMAIN members[u] /\ members[u] # NoRow
  BY DEF Joined, MemberInv, MemberRow
<1> SUFFICES ASSUME members'[u] # members[u] PROVE members'[u].role # "PARENT"
  OBVIOUS
<1>1. PICK r \in world.calls : Wrote(r, u)
  BY <1>0, MemberWritten
<1>2. ASSUME NEW columns, members'[u] = columns ++ members[u],
             "role" \in DOMAIN columns => columns.role # "PARENT"
      PROVE  members'[u].role # "PARENT"
  BY <1>0, <1>2 DEF ++
<1>3. CASE WriteMember(r) /\ members'[u] = held[r].set ++ members[u]
  <2>1. r.op = "assign" \/ r.op \in {"create", "place"}
    BY <1>3, Writing DEF Saving
  <2>2. CASE r.op = "assign"
    <3>1. "role" \in DOMAIN held[r].set => held[r].set.role = r.role
      BY <1>3, <2>2, Writing DEF AskedInv, AskedFor
    <3>2. r.role # "PARENT"
      BY <1>1, <1>3, <2>2, Writing DEF AskedInv, FoundFree, HasRole, Wrote
    <3> QED BY <1>2, <1>3, <3>1, <3>2
  <2>3. CASE r.op \in {"create", "place"}
    BY <1>1, <1>3, <2>3, Writing DEF AskedInv, FoundFree, Wrote
  <2> QED BY <2>1, <2>2, <2>3
<1>4. CASE members'[u] = [status |-> "ACTIVE"] ++ members[u]
  BY <1>2, <1>4
<1>5. CASE members'[u] = [image |-> r.image, shown |-> IF r.trusted THEN "VERIFIED" ELSE "PENDING"]
                         ++ members[u]
  BY <1>2, <1>5
<1>6. CASE members'[u] = [card |-> r.card] ++ members[u]
  BY <1>2, <1>6
<1>7. CASE members'[u] = Verdict(r) ++ members[u]
  <2>1. "role" \notin DOMAIN Verdict(r)
    BY DEF Verdict
  <2> QED BY <1>2, <1>7, <2>1
<1> QED BY <1>0, <1>1, <1>3, <1>4, <1>5, <1>6, <1>7 DEF Wrote

\* Who is a member when an organization places somebody.
LEMMA PlacedKept ==
  ASSUME ReqInv, QueueInv, MemberInv, AskedInv, [SchoolNext]_schoolVars, NEW u \in Joined,
         world.serial, Underway("place") # {}
  PROVE  members'[u] = members[u]
<1>0. u \in Users /\ members[u] # NoRow /\ DOMAIN members = Users
  BY DEF Joined, MemberInv
<1>1. PICK p \in world.calls : p \in Underway("place")
  BY DEF Underway
<1>2. p.op = "place" /\ pc[p] \notin Idle
  BY <1>1 DEF Underway, Idle
<1> SUFFICES ASSUME members'[u] # members[u] PROVE FALSE
  OBVIOUS
<1>3. PICK r \in world.calls : CallStep(r)
  BY StepKinds DEF RestStep, memberVars
<1>4. r = p
  BY <1>2, <1>3 DEF CallStep, Moves
<1>5. MemberStep(p)
  BY <1>2, <1>3, <1>4 DEF CallStep, memberVars, PeopleOps, UserOps, ProfileOps
<1>6. WriteMember(p)
  <2>1. CompareMember(p) \/ WriteMember(p)
    BY <1>2, <1>5 DEF MemberStep, CreateMember, ValidateAssignment, EnhancedFails, ValidateBulk, CheckRole,
       FindPending, VerifyMember, FindMember, RemoveMember, FindHolder, Upload, FindCard, AssignCard,
       FindImage, DeleteImage, Review, At
  <2> QED BY <2>1 DEF CompareMember, memberVars
<1>7. p.user \notin Joined
  BY <1>2, <1>6, Writing DEF AskedInv, FoundFree
<1>8. \E new : UNCHANGED members \/ members' = [members EXCEPT ![p.user] = new]
  BY <1>6 DEF WriteMember
<1> QED BY <1>0, <1>7, <1>8

\* Whoever was deactivated, as a member or as a user, stays so unless he is
\* activated, in whatever order the calls meet; served one after the other, no
\* assignment makes a parent of a student or changes a member who is placed.
THEOREM MembersSound == SchoolSpec => MembersHold
<1> DEFINE Inactive ==
             \A u \in Joined : /\ \A r \in Underway("change") : r.set = [status |-> "INACTIVE"]
                               /\ Underway("assign") = {}
                               /\ world.serial \/ Underway("create") \cup Underway("place") = {}
                               /\ members[u].status = "INACTIVE" /\ members'[u] # NoRow
               => members'[u].status = "INACTIVE"
           Deactivated ==
             \A u \in Users :
               Known(u) /\ ~people[u].active /\ people'[u] # NoRow /\ people'[u].active
                 => \E r \in world.calls :
                      /\ r.user = u /\ pc[r] = "write" /\ pc'[r] # "write"
                      /\ IF r.op = "switch" THEN r.active
                         ELSE /\ r.op \in {"edit", "pupilEdit", "pupilOff", "parentEdit"}
                              /\ "active" \in DOMAIN r.set /\ r.set.active
           Student ==
             \A u \in Joined :
               /\ world.serial /\ Underway("change") = {} /\ members'[u] # NoRow
               => ~(members[u].role = "STUDENT" /\ members'[u].role = "PARENT")
           Placed == \A u \in Joined : world.serial /\ Underway("place") # {} => members'[u] = members[u]
<1>1. SchoolInit => ActiveInv /\ AskedInv
  BY InitActive, InitAsked
<1>2. SchoolInv /\ ActiveInv /\ AskedInv /\ [SchoolNext]_schoolVars => ActiveInv' /\ AskedInv'
  BY NextActive, NextAsked DEF SchoolInv, BaseInv
<1>3. SchoolInv /\ ActiveInv /\ AskedInv /\ [SchoolNext]_schoolVars => Inactive /\ Deactivated
  BY StatusKept, UsersActivated DEF SchoolInv, BaseInv
<1>4. SchoolInv /\ ActiveInv /\ AskedInv /\ [SchoolNext]_schoolVars => Student /\ Placed
  BY StudentKept, PlacedKept DEF SchoolInv, BaseInv
<1> QED BY <1>1, <1>2, <1>3, <1>4, SchoolInvariant, PTL
       DEF SchoolSpec, MembersHold, MemberStaysInactive, UserStaysInactive, StudentNotParent, PlacedOnce

-----------------------------------------------------------------------------
(* What is handed in, corrected and set stands                             *)

\* What a call has found in its turn about a paper or the marks still holds.
FoundWork(r) ==
  /\ r.op = "submit" /\ pc[r] = "insert" => \A i \in Papers : papers[i].user # r.user
  /\ r.op = "submit" /\ pc[r] \in {"save", "write"} =>
       held[r].id \in Papers /\ papers[held[r].id].user = r.user
  /\ r.op = "submit" /\ pc[r] = "save" => held[r].entity = Resubmitted(r, papers[held[r].id])
  /\ r.op = "submit" /\ pc[r] = "write" =>
       held[r].found /\ DOMAIN held[r].set \subseteq {"file", "isActive"}
  /\ r.op = "examCreate" /\ pc[r] = "save" => r.row.passing < r.row.total
  /\ r.op = "examUpdate" /\ pc[r] = "update" /\ exam # NoRow =>
       (held[r] ++ exam).passing < (held[r] ++ exam).total

WorkTurn == MarksSound /\ OnePaper /\ (world.serial => \A r \in world.calls : FoundWork(r))

\* A paper before and after a step: it stays, goes, or is changed by a call that
\* leaves its student, and what was said of it unless the call is about that.
PaperEdited(i) ==
  \/ papers'[i] = papers[i] \/ papers'[i] = NoRow
  \/ /\ papers[i] # NoRow /\ papers'[i].user = papers[i].user
     /\ \/ papers'[i].remarks = papers[i].remarks /\ papers'[i].correction = papers[i].correction
        \/ \E op \in PaperOps : \E r \in Underway(op) : r.id = i

LEMMA ColumnsKept ==
  ASSUME NEW row \in PaperRows, NEW columns
  PROVE  /\ "user" \notin DOMAIN columns => (columns ++ row).user = row.user
         /\ DOMAIN columns \subseteq {"file", "isActive"} =>
              (columns ++ row).remarks = row.remarks /\ (columns ++ row).correction = row.correction
<1>1. DOMAIN row = PaperColumns
  BY DEF PaperRows, PaperColumns
<1> QED BY <1>1 DEF ++, PaperColumns

LEMMA WrittenAgain ==
  ASSUME ReqInv, WorkInv, WorkTurn, world.serial, NEW r \in world.calls, WritePaper(r)
  PROVE  DOMAIN papers' = DOMAIN papers /\ \A i \in DOMAIN papers : PaperEdited(i)
<1> DEFINE id == held[r].id
           set == held[r].set
           new == Saved(r, papers[id], NewPaper)
<1>1. r.op = "submit" /\ pc[r] = "write"
  BY DEF WritePaper, At
<1>2. id \in Papers /\ held[r].found /\ DOMAIN set \subseteq {"file", "isActive"}
  BY <1>1 DEF WorkTurn, FoundWork
<1>3. papers[id] \in PaperRows /\ papers[id] # NoRow
  BY <1>2 DEF WorkInv, Papers
<1>4. new = set ++ papers[id]
  BY <1>2, <1>3 DEF Saved
<1>5. UNCHANGED papers \/ papers' = [papers EXCEPT ![id] = new]
  BY DEF WritePaper
<1>6. /\ new.user = papers[id].user /\ new.remarks = papers[id].remarks
      /\ new.correction = papers[id].correction
  BY <1>2, <1>3, <1>4, ColumnsKept
<1> HIDE DEF new, id
<1> QED BY <1>3, <1>5, <1>6 DEF PaperEdited

LEMMA CorrectedPaper ==
  ASSUME ReqInv, WorkInv, NEW r \in world.calls, CorrectPaper(r) \/ RemovePaper(r)
  PROVE  DOMAIN papers' = DOMAIN papers /\ \A i \in DOMAIN papers : PaperEdited(i)
<1>1. CASE RemovePaper(r)
  BY <1>1 DEF RemovePaper, PaperEdited
<1>2. CASE CorrectPaper(r)
  <2> DEFINE new == Correction(r) ++ papers[r.id]
  <2>1. UNCHANGED papers \/ (r.id \in Papers /\ papers' = [papers EXCEPT ![r.id] = new])
    BY <1>2 DEF CorrectPaper, UpdatePaper
  <2>2. r.op \in PaperOps /\ r \in Underway(r.op) /\ r.op \in {"remark", "correct", "paperUpdate"}
    BY <1>2 DEF CorrectPaper, At, Underway, PaperOps
  <2>3. "user" \notin DOMAIN Correction(r)
    <3>1. r.op = "paperUpdate" => "user" \notin DOMAIN r.set
      BY WorkWorldsAssumption DEF ReqInv
    <3> QED BY <2>2, <3>1 DEF Correction
  <2>4. r.id \in Papers => papers[r.id] \in PaperRows /\ papers[r.id] # NoRow
    BY DEF WorkInv, Papers
  <2>5. r.id \in Papers => new.user = papers[r.id].user
    BY <2>3, <2>4, ColumnsKept
  <2> HIDE DEF new
  <2> QED BY <2>1, <2>2, <2>4, <2>5 DEF PaperEdited
<1> QED BY <1>1, <1>2

\* What a step does to the papers, served one after the other.
LEMMA PapersChanged ==
  ASSUME ReqInv, QueueInv, WorkInv, WorkTurn, [SchoolNext]_schoolVars, world.serial
  PROVE  \/ DOMAIN papers' = DOMAIN papers /\ \A i \in DOMAIN papers : PaperEdited(i)
         \/ \E r \in world.calls :
              /\ InsertPaper(r) /\ CallStep(r)
              /\ \E new : new.user = r.user /\ papers' = Append(papers, new)
<1>1. CASE UNCHANGED papers
  BY <1>1 DEF PaperEdited
<1>2. CASE papers' = Left(papers)
  BY <1>2 DEF Left, PaperEdited
<1>3. ASSUME NEW r \in world.calls, InsertPaper(r)
      PROVE  UNCHANGED papers \/ \E new : new.user = r.user /\ papers' = Append(papers, new)
  <2> DEFINE new == [user |-> r.user] ++ Given(r) ++ NewPaper
  <2>1. new.user = r.user
    BY DEF ++
  <2>2. UNCHANGED papers \/ papers' = Append(papers, new)
    BY <1>3 DEF InsertPaper
  <2> HIDE DEF new
  <2> QED BY <2>1, <2>2
<1>4. ASSUME NEW r \in world.calls, WorkStep(r)
      PROVE  \/ UNCHANGED papers \/ InsertPaper(r)
             \/ DOMAIN papers' = DOMAIN papers /\ \A i \in DOMAIN papers : PaperEdited(i)
  <2>1. CASE WritePaper(r) \/ CorrectPaper(r) \/ RemovePaper(r)
    BY <2>1, WrittenAgain, CorrectedPaper
  <2>2. CASE ~(WritePaper(r) \/ CorrectPaper(r) \/ RemovePaper(r) \/ InsertPaper(r))
    BY <1>4, <2>2 DEF WorkStep, CreateHomework, FindHomework, WriteHomework, Submit, FindPaper, ComparePaper,
       SelectPaper, BeginExam, SaveExam, FindExam, WriteExam, DeleteExam, BeginResults, InsertResult,
       FindResult, WriteResult, workVars
  <2> QED BY <2>1, <2>2
<1>5. ASSUME NEW r \in world.calls, CallStep(r)
      PROVE  UNCHANGED papers \/ papers' = Left(papers) \/ WorkStep(r)
  BY <1>5 DEF CallStep, Cascade, workVars
<1>6. RestStep => UNCHANGED papers
  BY DEF RestStep
<1> QED BY <1>1, <1>2, <1>3, <1>4, <1>5, <1>6, StepKinds

\* One paper of a student, after a step.
LEMMA NextPaper ==
  ASSUME ReqInv, QueueInv, WorkInv, WorkTurn, [SchoolNext]_schoolVars
  PROVE  OnePaper'
<1>0. UNCHANGED world
  BY StepKinds
<1> SUFFICES ASSUME world.serial, \A r \in world.calls : r.op # "paperCreate",
                    NEW i \in Papers', NEW j \in Papers', papers'[i].user = papers'[j].user
             PROVE  i = j
  BY <1>0 DEF OnePaper
<1>1. \A k, l \in Papers : papers[k].user = papers[l].user => k = l
  BY DEF WorkTurn, OnePaper
<1>2. CASE DOMAIN papers' = DOMAIN papers /\ \A k \in DOMAIN papers : PaperEdited(k)
  <2>1. \A k \in Papers' : k \in Papers /\ papers'[k].user = papers[k].user
    BY <1>2 DEF PaperEdited, Papers
  <2> QED BY <1>1, <2>1
<1>3. ASSUME NEW r \in world.calls, InsertPaper(r), NEW new, new.user = r.user,
             papers' = Append(papers, new)
      PROVE  i = j
  <2>1. r.op = "submit" /\ pc[r] = "insert"
    BY <1>3 DEF InsertPaper, At
  <2>2. \A k \in Papers : papers[k].user # r.user
    BY <2>1 DEF WorkTurn, FoundWork
  <2>3. papers \in Seq(PaperRows \cup {NoRow})
    BY DEF WorkInv
  <2>4. \A k \in Papers' : \/ k \in Papers /\ papers'[k] = papers[k]
                           \/ k = Len(papers) + 1 /\ papers'[k] = new
    BY <1>3, <2>3 DEF Papers
  <2> QED BY <1>1, <1>3, <2>2, <2>4, ZenonT(40)
<1> QED BY <1>2, <1>3, PapersChanged

\* What a student's call finds and compares.
LEMMA PaperFound ==
  ASSUME ReqInv, WorkInv, WorkTurn, world.serial, UNCHANGED world, NEW r \in world.calls,
         FindPaper(r) \/ ComparePaper(r)
  PROVE  FoundWork(r)'
<1>1. CASE FindPaper(r)
  <2>1. r.op = "submit" /\ UNCHANGED workVars
    BY <1>1 DEF FindPaper, At
  <2>2. \/ pc'[r] = "insert" /\ \A i \in Papers : papers[i].user # r.user
        \/ \E i \in Papers : /\ papers[i].user = r.user /\ pc'[r] = "save"
                             /\ held'[r] = [id |-> i, entity |-> Resubmitted(r, papers[i])]
    BY <1>1, AtMoves DEF FindPaper
  <2>3. CASE pc'[r] = "insert" /\ \A i \in Papers : papers[i].user # r.user
    BY <2>1, <2>3 DEF FoundWork, workVars, Papers
  <2>4. ASSUME NEW i \in Papers, papers[i].user = r.user, pc'[r] = "save",
               held'[r] = [id |-> i, entity |-> Resubmitted(r, papers[i])]
        PROVE  FoundWork(r)'
    <3>1. held'[r].id = i /\ held'[r].entity = Resubmitted(r, papers[i])
      BY <2>4
    <3> QED BY <2>1, <2>4, <3>1 DEF FoundWork, workVars, Papers, Resubmitted
  <2> QED BY <2>2, <2>3, <2>4
<1>2. CASE ComparePaper(r)
  <2> DEFINE entity == held[r].entity
             row == papers[held[r].id]
             compared == Comparison(entity, row)
             numbered == [id |-> held[r].id] ++ compared
  <2>1. At(r, "submit", "save") /\ GoOn(r, "write", numbered) /\ UNCHANGED workVars
    BY <1>2 DEF ComparePaper
  <2>2. r.op = "submit" /\ pc[r] = "save" /\ pc'[r] = "write" /\ held'[r] = numbered
    <3> HIDE DEF numbered
    <3> QED BY <2>1, AtMoves
  <2>3. held[r].id \in Papers /\ row.user = r.user /\ entity = Resubmitted(r, row)
    BY <2>2 DEF WorkTurn, FoundWork
  <2>4. row # NoRow /\ row \in PaperRows
    BY <2>3 DEF Papers, WorkInv
  <2>5. Dirty(entity, row) \subseteq {"file", "isActive"}
    <3>1. DOMAIN row = PaperColumns
      BY <2>4 DEF PaperRows, PaperColumns
    <3> QED BY <2>3, <3>1 DEF Resubmitted, Dirty
  <2>6. compared = [found |-> TRUE, set |-> [c \in Dirty(entity, row) |-> entity[c]]]
    BY <2>4 DEF Comparison
  <2> HIDE DEF entity
  <2>7. compared.found /\ DOMAIN compared.set = Dirty(entity, row)
    BY <2>6
  <2>8. DOMAIN compared = {"found", "set"}
    BY <2>6
  <2> HIDE DEF compared
  <2>9. numbered.id = held[r].id /\ numbered.found = compared.found /\ numbered.set = compared.set
    BY <2>8 DEF ++
  <2> HIDE DEF numbered
  <2> QED BY <2>1, <2>2, <2>3, <2>5, <2>7, <2>9 DEF FoundWork, workVars, Papers
<1> QED BY <1>1, <1>2

\* Marks: what an exam is created with was tested, and a change of them with what
\* the exam has of the other.
LEMMA MarksTested ==
  ASSUME ReqInv, WorkInv, WorkTurn, world.serial, UNCHANGED world, NEW r \in world.calls,
         BeginExam(r) \/ FindExam(r)
  PROVE  FoundWork(r)'
<1>1. CASE BeginExam(r)
  <2>1. r.op = "examCreate" /\ (pc'[r] = "save" => r.row.passing < r.row.total)
    BY <1>1, AtMoves DEF BeginExam, At, End, Acceptable
  <2> QED BY <2>1 DEF FoundWork
<1>2. CASE FindExam(r)
  <2> SUFFICES ASSUME r.op = "examUpdate", pc'[r] = "update", exam' # NoRow
               PROVE  (held'[r] ++ exam').passing < (held'[r] ++ exam').total
    BY <1>2 DEF FindExam, At, FoundWork
  <2> DEFINE columns == ExamColumns(r)
  <2>1. \E op \in {"examUpdate", "examRemove"} : At(r, op, "start")
    BY <1>2 DEF FindExam
  <2>2. \/ GoOn(r, "done", NoRow)
        \/ /\ {"passing", "total"} \cap DOMAIN r.set # {} => MarksFit(r)
           /\ GoOn(r, "update", columns)
    BY <1>2 DEF FindExam, End
  <2>3. columns ++ exam = columns ++ exam'
    BY <1>2 DEF FindExam, workVars
  <2>4. \A c \in {"passing", "total"} : (columns ++ exam)[c] = (r.set ++ exam)[c]
    <3>1. DOMAIN columns = DOMAIN r.set /\ \A c \in {"passing", "total"} \cap DOMAIN r.set : columns[c] = r.set[c]
      BY DEF ExamColumns
    <3>2. exam \in ExamRows
      BY <1>2 DEF FindExam, workVars, WorkInv
    <3>3. {"passing", "total"} \subseteq DOMAIN exam
      BY <3>2 DEF ExamRows
    <3> HIDE DEF columns
    <3> QED BY <3>1, <3>3 DEF ++
  <2>5. {"passing", "total"} \cap DOMAIN r.set = {} => MarksFit(r)
    <3>1. exam \in ExamRows /\ exam.passing < exam.total
      BY <1>2 DEF FindExam, workVars, WorkInv, WorkTurn, MarksSound
    <3>2. {"passing", "total"} \subseteq DOMAIN exam
      BY <3>1 DEF ExamRows
    <3> QED BY <3>1, <3>2 DEF MarksFit, ++
  <2> HIDE DEF columns
  <2>6. MarksFit(r) /\ held'[r] = columns
    BY <2>1, <2>2, <2>5, AtMoves
  <2> QED BY <2>3, <2>4, <2>6 DEF MarksFit
<1> QED BY <1>1, <1>2

LEMMA MarksWritten ==
  ASSUME ReqInv, WorkInv, WorkTurn, world.serial, UNCHANGED world, NEW r \in world.calls,
         WorkStep(r)
  PROVE  exam' # NoRow => exam'.passing < exam'.total
<1>1. CASE UNCHANGED exam \/ exam' = NoRow
  BY <1>1 DEF WorkTurn, MarksSound
<1>2. CASE SaveExam(r)
  <2>1. r.op = "examCreate" /\ pc[r] = "save"
    BY <1>2 DEF SaveExam, At
  <2>2. r.row \in ExamRows /\ r.row.passing < r.row.total
    BY <2>1, WorkWorldsAssumption DEF ReqInv, WorkTurn, FoundWork
  <2>3. exam'.passing = r.row.passing /\ exam'.total = r.row.total
    BY <1>2, <2>2 DEF SaveExam, ExamRows
  <2> QED BY <2>2, <2>3
<1>3. CASE WriteExam(r)
  BY <1>3 DEF WriteExam, At, WorkTurn, FoundWork
<1> QED BY <1>1, <1>2, <1>3 DEF WorkStep, CreateHomework, FindHomework, WriteHomework, Submit, FindPaper,
       ComparePaper, WritePaper, InsertPaper, SelectPaper, CorrectPaper, RemovePaper, BeginExam, FindExam,
       DeleteExam, BeginResults, InsertResult, FindResult, WriteResult, workVars

LEMMA NextWorkTurn ==
  ASSUME ReqInv, QueueInv, WorkInv, WorkTurn, [SchoolNext]_schoolVars
  PROVE  WorkTurn'
<1>0. UNCHANGED world /\ OnePaper'
  BY StepKinds, NextPaper
<1> SUFFICES ASSUME world.serial
             PROVE  /\ exam' # NoRow => exam'.passing < exam'.total
                    /\ \A q \in world.calls : FoundWork(q)'
  BY <1>0 DEF WorkTurn, MarksSound
<1>1. ASSUME NEW r \in world.calls, CallStep(r)
      PROVE  /\ exam' # NoRow => exam'.passing < exam'.total
             /\ \A q \in world.calls : FoundWork(q)'
  <2>1. Moves(r)
    BY <1>1 DEF CallStep
  <2>2. ASSUME NEW q \in world.calls, q # r PROVE FoundWork(q)'
    <3>1. pc'[q] \in {"start", "done"}
      BY <2>1, <2>2 DEF Moves, Idle
    <3> QED BY <3>1 DEF FoundWork
  <2>3. CASE WorkStep(r)
    <3>1. CASE FindPaper(r) \/ ComparePaper(r) \/ BeginExam(r) \/ FindExam(r)
      BY <1>0, <2>2, <2>3, <3>1, PaperFound, MarksTested, MarksWritten
    <3>2. CASE ~(FindPaper(r) \/ ComparePaper(r) \/ BeginExam(r) \/ FindExam(r))
      <4>1. CASE Submit(r) \/ WritePaper(r) \/ InsertPaper(r)
        <5>1. pc'[r] \in {"find", "done"}
          BY <4>1, AtMoves DEF Submit, WritePaper, InsertPaper, End
        <5>2. r.op \in {"submit", "paperCreate"}
          BY <4>1 DEF Submit, WritePaper, InsertPaper, At
        <5> QED BY <1>0, <2>2, <2>3, <5>1, <5>2, MarksWritten DEF FoundWork
      <4>2. CASE SaveExam(r) \/ WriteExam(r) \/ DeleteExam(r)
        <5>1. pc'[r] = "done" /\ r.op # "submit"
          BY <4>2, AtMoves DEF SaveExam, WriteExam, DeleteExam, End
        <5> QED BY <1>0, <2>2, <2>3, <5>1, MarksWritten DEF FoundWork
      <4>3. CASE ~(Submit(r) \/ WritePaper(r) \/ InsertPaper(r) \/ SaveExam(r) \/ WriteExam(r) \/ DeleteExam(r))
        <5>1. r.op \notin {"submit", "examCreate", "examUpdate"}
          BY <2>3, <3>2, <4>3 DEF WorkStep, CreateHomework, FindHomework, WriteHomework, SelectPaper,
             CorrectPaper, RemovePaper, BeginResults, InsertResult, FindResult, WriteResult, At, PaperOps
        <5> QED BY <1>0, <2>2, <2>3, <5>1, MarksWritten DEF FoundWork
      <4> QED BY <4>1, <4>2, <4>3
    <3> QED BY <3>1, <3>2
  <2>4. CASE ~WorkStep(r)
    <3>1. UNCHANGED exam /\ r.op \notin {"submit", "examCreate", "examUpdate"}
      BY <1>1, <2>4 DEF CallStep, Cascade, workVars, PeopleOps, UserOps, ProfileOps, MemberOps, ClassOps,
         SubjectOps, OrgOps
    <3> QED BY <2>2, <3>1 DEF FoundWork, WorkTurn, MarksSound
  <2> QED BY <2>3, <2>4
<1>2. CASE RestStep
  <2>1. UNCHANGED <<pc, held, papers, exam>>
    BY <1>2 DEF RestStep, requestVars
  <2>2. ASSUME NEW q \in world.calls PROVE FoundWork(q)'
    <3>1. FoundWork(q)
      BY DEF WorkTurn
    <3> QED BY <2>1, <3>1 DEF FoundWork, Papers
  <2> QED BY <2>1, <2>2 DEF WorkTurn, MarksSound
<1> QED BY <1>1, <1>2, StepKinds

LEMMA InitWorkTurn == SchoolInit => WorkTurn
<1> SUFFICES ASSUME SchoolInit PROVE WorkTurn
  OBVIOUS
<1>1. Papers = {} /\ \A r \in world.calls : pc[r] = "start"
  BY DEF SchoolInit, WorkInit, RequestInit, Papers
<1>2. exam # NoRow => exam.passing < exam.total
  BY WorkWorldsAssumption DEF SchoolInit, WorkInit
<1> QED BY <1>1, <1>2 DEF WorkTurn, MarksSound, OnePaper, FoundWork

\* What was said of a paper is kept, and a paper that went does not come back.
LEMMA PapersKept ==
  ASSUME ReqInv, QueueInv, WorkInv, WorkTurn, [SchoolNext]_schoolVars, world.serial,
         NEW i \in DOMAIN papers
  PROVE  /\ papers[i] = NoRow => papers'[i] = NoRow
         /\ i \in Papers /\ papers'[i] # NoRow
              /\ <<papers[i].remarks, papers[i].correction>> # <<papers'[i].remarks, papers'[i].correction>>
            => \E op \in PaperOps : \E r \in Underway(op) : r.id = i
<1>1. PaperEdited(i) \/ papers'[i] = papers[i]
  <2>1. papers \in Seq(PaperRows \cup {NoRow})
    BY DEF WorkInv
  <2>2. ASSUME NEW new, papers' = Append(papers, new) PROVE papers'[i] = papers[i]
    BY <2>1, <2>2
  <2> QED BY <2>2, PapersChanged
<1> QED BY <1>1 DEF PaperEdited, Papers

\* The marks of an exam, the papers of a student and what is said of them, over
\* any series of calls that are served one after the other.
THEOREM CourseworkSound == SchoolSpec => CourseworkHolds
<1> DEFINE Kept == world.serial
                     => \A i \in DOMAIN papers :
                          /\ papers[i] = NoRow => papers'[i] = NoRow
                          /\ i \in Papers /\ papers'[i] # NoRow
                               /\ <<papers[i].remarks, papers[i].correction>>
                                  # <<papers'[i].remarks, papers'[i].correction>>
                             => \E op \in PaperOps : \E r \in Underway(op) : r.id = i
<1>1. SchoolInit => WorkTurn
  BY InitWorkTurn
<1>2. SchoolInv /\ WorkTurn /\ [SchoolNext]_schoolVars => WorkTurn' /\ Kept
  <2> SUFFICES ASSUME SchoolInv, WorkTurn, [SchoolNext]_schoolVars PROVE WorkTurn' /\ Kept
    OBVIOUS
  <2>1. WorkTurn'
    BY NextWorkTurn DEF SchoolInv, BaseInv
  <2>2. Kept
    BY PapersKept DEF SchoolInv, BaseInv
  <2> QED BY <2>1, <2>2
<1>3. WorkTurn => MarksSound /\ OnePaper
  BY DEF WorkTurn
<1> QED BY <1>1, <1>2, <1>3, SchoolInvariant, PTL DEF SchoolSpec, CourseworkHolds, CorrectionKept

-----------------------------------------------------------------------------
(* What identifies a member: his card and his image                        *)

ImageColumns == {"image", "shown", "card"}

\* What a review has read was approved when it says so; who is created or placed
\* is given neither image nor card.
HeldSoundly(r) ==
  /\ r.op = "review" /\ pc[r] \in {"delete", "update"} =>
       held[r] # NoRow /\ (r.verdict = "VERIFIED" => held[r] \in approved)
  /\ r.op \in {"create", "place"} /\ pc[r] = "write" => DOMAIN held[r].set \cap ImageColumns = {}

\* What an assignment that is served alone is about to write.
Assigns(r) ==
  LET new == held[r].set ++ (IF held[r].found THEN members[r.user] ELSE NewMember)
  IN  /\ held[r].bulk => DOMAIN held[r].set \cap {"image", "shown"} = {}
      /\ ~held[r].bulk => new.image = r.image /\ (new.shown = "VERIFIED" => r.trusted /\ r.image # NoRow)
      /\ "card" \in DOMAIN held[r].set => held[r].set.card = r.card

\* What a call that is served alone has found is still so.
FoundAlone(r) ==
  /\ r.op = "change" /\ pc[r] = "save" =>
       r.user \in Joined /\ \A c \in ImageColumns : held[r][c] = members[r.user][c]
  /\ r.op = "change" /\ pc[r] = "write" => held[r].found /\ DOMAIN held[r].set \cap ImageColumns = {}
  /\ r.op = "assign" /\ r.user \in Users /\ pc[r] = "write" => Assigns(r)
  /\ r.op = "review" /\ pc[r] \in {"delete", "update"} => r.user \in Joined /\ members[r.user].image = held[r]
  /\ r.op = "review" /\ pc[r] = "delete" => r.verdict = "REJECTED"
  /\ r.op = "card" /\ pc[r] = "update" => Free(r)

HeldInv == /\ \A r \in world.calls : HeldSoundly(r)
           /\ world.serial => \A r \in world.calls : FoundAlone(r)

\* A file that is given once is the image of one member; it is not deleted before
\* it is given, and after that only by a review that goes on to clear it.
ImagesSound ==
  world.serial /\ GivenOnce =>
    /\ OneImage(members)
    /\ \A r \in world.calls : Gives(r) /\ pc[r] # "done" =>
         r.image \notin deleted /\ \A u \in Joined : members[u].image # r.image
    /\ \A u \in Joined : members[u].image \in deleted =>
         \E r \in world.calls : /\ r.op = "review" /\ pc[r] = "update" /\ r.verdict = "REJECTED"
                                /\ r.user = u

ImageInv == VerifiedIsApproved /\ NoRow \notin deleted /\ ImagesSound /\ CardsUnique

LEMMA HeldInvKept ==
  ASSUME ReqInv, HeldInv, NEW r \in world.calls, Moves(r), UNCHANGED world, approved \subseteq approved',
         HeldSoundly(r)', world.serial => FoundAlone(r)'
  PROVE  HeldInv'
<1>1. ASSUME NEW q \in world.calls, q # r
      PROVE  HeldSoundly(q)' /\ (world.serial => FoundAlone(q)')
  <2>1. HeldSoundly(q)'
    <3>1. HeldSoundly(q) /\ pc'[q] = pc[q] /\ held'[q] = held[q]
      BY <1>1 DEF HeldInv, Moves
    <3> QED BY <3>1 DEF HeldSoundly
  <2>2. world.serial => pc'[q] \in {"start", "done"}
    BY <1>1 DEF Moves, Idle
  <2> QED BY <2>1, <2>2 DEF FoundAlone
<1> QED BY <1>1 DEF HeldInv

\* What was compared of a row makes the columns those of the entity.
LEMMA ComparedColumns ==
  ASSUME NEW entity, NEW row, NEW c \in DOMAIN entity
  PROVE  ([d \in Dirty(entity, row) |-> entity[d]] ++ row)[c] = entity[c] \/ c \notin DOMAIN row
<1> DEFINE dirty == [d \in Dirty(entity, row) |-> entity[d]]
<1>1. DOMAIN dirty = Dirty(entity, row) /\ \A d \in DOMAIN dirty : dirty[d] = entity[d]
  OBVIOUS
<1>2. c \notin DOMAIN dirty => entity[c] = row[c]
  BY <1>1 DEF Dirty
<1> HIDE DEF dirty
<1> QED BY <1>1, <1>2 DEF ++, dirty

\* The columns of an assignment.
LEMMA AssignmentColumns ==
  ASSUME NEW r
  PROVE  /\ InBulk(r) => DOMAIN Assignment(r) \cap {"image", "shown"} = {}
         /\ ~InBulk(r) => /\ {"image", "shown"} \subseteq DOMAIN Assignment(r)
                          /\ Assignment(r).image = r.image
                          /\ Assignment(r).shown = "VERIFIED" => r.trusted /\ r.image # NoRow
         /\ "card" \in DOMAIN Assignment(r) => Assignment(r).card = r.card
<1> DEFINE first == [c \in {"role", "status"} |-> IF c = "role" THEN r.role ELSE r.status]
           second == [c \in IF InBulk(r) THEN {} ELSE {"image", "shown"} |->
                        IF c = "image" THEN r.image ELSE GivenStatus(r)]
           third == [c \in IF r.way \in {"email", "id"} THEN {"card"} ELSE {} |-> r.card]
<1>1. DOMAIN first = {"role", "status"}
  OBVIOUS
<1>2. /\ DOMAIN second = IF InBulk(r) THEN {} ELSE {"image", "shown"}
      /\ ~InBulk(r) => /\ second["image"] = r.image
                       /\ second["shown"] = "VERIFIED" => r.trusted /\ r.image # NoRow
  BY DEF GivenStatus
<1>3. DOMAIN third \subseteq {"card"} /\ ("card" \in DOMAIN third => third["card"] = r.card)
  OBVIOUS
<1>4. Assignment(r) = first ++ second ++ third
  BY DEF Assignment
<1> HIDE DEF first, second, third
<1> QED BY <1>1, <1>2, <1>3, <1>4 DEF ++

LEMMA ComparedAlone ==
  ASSUME ReqInv, MemberInv, AskedInv, HeldInv, NEW r \in world.calls, CompareMember(r),
         UNCHANGED <<world, memberVars>>
  PROVE  HeldSoundly(r)' /\ (world.serial => FoundAlone(r)')
<1> DEFINE entity == Entity(r)
           row == members[r.user]
           dirty == [c \in Dirty(entity, row) |-> entity[c]]
           bulk == r.op = "assign" /\ InBulk(r)
           flag == [bulk |-> bulk]
           compared == Comparison(entity, row)
           numbered == compared ++ flag
<1>1. r.op \in Saving /\ pc[r] = "save" /\ pc'[r] = "write" /\ held'[r] = numbered /\ UNCHANGED memberVars
  <2>1. At(r, r.op, "save") /\ GoOn(r, "write", numbered)
    BY DEF CompareMember
  <2> HIDE DEF numbered
  <2> QED BY <2>1, AtMoves DEF CompareMember, Saving
<1>2. /\ DOMAIN compared = {"found", "set"}
      /\ compared.found = (row # NoRow) /\ compared.set = IF row = NoRow THEN entity ELSE dirty
  BY DEF Comparison
<1> HIDE DEF compared
<1>3. numbered.found = compared.found /\ numbered.set = compared.set
  BY <1>2 DEF ++
<1>4. numbered.bulk = bulk
  <2> HIDE DEF bulk
  <2> QED BY <1>2 DEF ++
<1>5. held'[r].found = (row # NoRow) /\ held'[r].bulk = bulk
      /\ held'[r].set = IF row = NoRow THEN entity ELSE dirty
  <2> HIDE DEF numbered, bulk, dirty, entity
  <2> QED BY <1>1, <1>2, <1>3, <1>4
<1> HIDE DEF numbered, flag
<1>6. DOMAIN dirty \subseteq DOMAIN entity /\ \A c \in DOMAIN dirty : dirty[c] = entity[c]
  BY DEF Dirty
<1>7. r.user \in Users /\ row # NoRow => MemberRow(row)
  BY DEF MemberInv
<1>8. CASE r.op \in {"create", "place"}
  <2>1. DOMAIN entity \cap ImageColumns = {}
    BY <1>8 DEF Entity, ImageColumns
  <2>2. DOMAIN held'[r].set \subseteq DOMAIN entity
    <3> HIDE DEF entity, dirty
    <3> QED BY <1>5, <1>6
  <2> QED BY <1>8, <2>1, <2>2 DEF HeldSoundly, FoundAlone
<1>9. CASE r.op = "change"
  <2> SUFFICES ASSUME world.serial
               PROVE  held'[r].found /\ DOMAIN held'[r].set \cap ImageColumns = {}
    BY <1>1, <1>9 DEF HeldSoundly, FoundAlone
  <2>1. entity = held[r]
    BY <1>9 DEF Entity
  <2>2. r.user \in Joined /\ \A c \in ImageColumns : entity[c] = row[c]
    BY <1>1, <1>9, <2>1 DEF HeldInv, FoundAlone
  <2>3. row # NoRow
    BY <2>2 DEF Joined
  <2>4. DOMAIN dirty \cap ImageColumns = {}
    BY <2>2 DEF Dirty
  <2> HIDE DEF dirty, entity
  <2> QED BY <1>5, <2>3, <2>4
<1>10. CASE r.op = "assign"
  <2> SUFFICES ASSUME r.user \in Users PROVE Assigns(r)'
    BY <1>1, <1>10 DEF HeldSoundly, FoundAlone
  <2>1. entity = Assignment(r) /\ (bulk <=> InBulk(r))
    <3>1. entity = Assignment(r)
      BY <1>10 DEF Entity
    <3>2. bulk <=> InBulk(r)
      BY <1>10
    <3> QED BY <3>1, <3>2
  <2> DEFINE old == IF row # NoRow THEN row ELSE NewMember
             set == held'[r].set
  <2>2. /\ bulk => DOMAIN entity \cap {"image", "shown"} = {}
        /\ ~bulk => /\ {"image", "shown"} \subseteq DOMAIN entity
                    /\ entity.image = r.image
                    /\ entity.shown = "VERIFIED" => r.trusted /\ r.image # NoRow
        /\ "card" \in DOMAIN entity => entity.card = r.card
    <3> HIDE DEF entity, bulk
    <3> QED BY <2>1, AssignmentColumns
  <2>3. DOMAIN set \subseteq DOMAIN entity /\ \A c \in DOMAIN set : set[c] = entity[c]
    <3> HIDE DEF dirty, entity
    <3> QED BY <1>5, <1>6
  <2>4. {"image", "shown"} \subseteq DOMAIN old
    BY <1>7 DEF MemberRow, NewMember
  <2>5. \A c \in DOMAIN entity \cap {"image", "shown"} : (set ++ old)[c] = entity[c]
    <3> SUFFICES ASSUME NEW c \in DOMAIN entity \cap {"image", "shown"} PROVE (set ++ old)[c] = entity[c]
      OBVIOUS
    <3>1. CASE row = NoRow
      <4>1. set = entity
        BY <1>5, <3>1
      <4> HIDE DEF set, entity, old
      <4> QED BY <4>1 DEF ++
    <3>2. CASE row # NoRow
      <4>1. set = dirty /\ old = row
        BY <1>5, <3>2
      <4>2. (dirty ++ row)[c] = entity[c] \/ c \notin DOMAIN row
        <5> HIDE DEF entity, row
        <5> QED BY ComparedColumns
      <4> HIDE DEF set, dirty, entity, old
      <4> QED BY <2>4, <4>1, <4>2
    <3> QED BY <3>1, <3>2
  <2>6. old = (IF held'[r].found THEN members'[r.user] ELSE NewMember)
    <3>1. UNCHANGED members
      BY DEF memberVars
    <3> QED BY <1>5, <3>1
  <2>7. /\ bulk => DOMAIN set \cap {"image", "shown"} = {}
        /\ ~bulk => /\ (set ++ old).image = r.image
                    /\ (set ++ old).shown = "VERIFIED" => r.trusted /\ r.image # NoRow
        /\ "card" \in DOMAIN set => set.card = r.card
    <3> HIDE DEF set, entity, bulk, old
    <3> QED BY <2>2, <2>3, <2>5
  <2>8. held'[r].bulk = bulk
    BY <1>5
  <2> HIDE DEF bulk, entity, old
  <2> QED BY <2>6, <2>7, <2>8 DEF Assigns
<1> QED BY <1>1, <1>8, <1>9, <1>10 DEF Saving

LEMMA ApprovedGrows ==
  ASSUME NEW r \in world.calls, MemberStep(r)
  PROVE  approved \subseteq approved'
<1>1. CASE WriteMember(r) \/ Upload(r) \/ FindImage(r)
  BY <1>1 DEF WriteMember, Upload, FindImage
<1>2. CASE ~(WriteMember(r) \/ Upload(r) \/ FindImage(r))
  BY <1>2 DEF MemberStep, CreateMember, ValidateAssignment, EnhancedFails, ValidateBulk, CheckRole,
     CompareMember, FindPending, VerifyMember, FindMember, RemoveMember, FindHolder, FindCard, AssignCard,
     DeleteImage, Review, memberVars
<1> QED BY <1>1, <1>2

LEMMA StepHeld ==
  ASSUME ReqInv, MemberInv, AskedInv, HeldInv, NEW r \in world.calls, MemberStep(r), UNCHANGED world
  PROVE  HeldSoundly(r)' /\ (world.serial => FoundAlone(r)')
<1>1. CASE CompareMember(r)
  BY <1>1, ComparedAlone DEF CompareMember
<1>2. CASE FindMember(r)
  <2>1. /\ At(r, "change", "start") /\ r.op = "change" /\ UNCHANGED members
        /\ IF r.user \in Joined THEN GoOn(r, "save", r.set ++ members[r.user]) ELSE GoOn(r, "done", NoRow)
    BY <1>2 DEF FindMember, End, At, memberVars
  <2>2. pc'[r] = "done" \/ (r.user \in Joined /\ pc'[r] = "save" /\ held'[r] = r.set ++ members[r.user])
    BY <2>1, AtMoves
  <2>3. r.user \in Joined => \A c \in ImageColumns : (r.set ++ members[r.user])[c] = members[r.user][c]
    <3>1. DOMAIN r.set \subseteq {"role", "status"}
      BY <2>1, MemberWorldsAssumption DEF ReqInv
    <3>2. r.user \in Joined => ImageColumns \subseteq DOMAIN members[r.user]
      BY DEF MemberInv, Joined, MemberRow, ImageColumns
    <3> QED BY <3>1, <3>2 DEF ++, ImageColumns
  <2> QED BY <2>1, <2>2, <2>3 DEF HeldSoundly, FoundAlone, Joined
<1>3. CASE FindImage(r)
  <2>1. r.op = "review" /\ UNCHANGED members
    BY <1>3 DEF FindImage, At
  <2>2. \/ pc'[r] = "done"
        \/ /\ r.user \in Joined /\ members[r.user].image # NoRow
           /\ pc'[r] = IF r.verdict = "REJECTED" THEN "delete" ELSE "update"
           /\ held'[r] = members[r.user].image
           /\ r.verdict = "VERIFIED" => members[r.user].image \in approved'
    BY <1>3, AtMoves DEF FindImage, End
  <2> QED BY <2>1, <2>2 DEF HeldSoundly, FoundAlone, Joined
<1>4. CASE DeleteImage(r)
  <2>1. /\ r.op = "review" /\ pc[r] = "delete" /\ pc'[r] = "update" /\ held'[r] = held[r]
        /\ UNCHANGED <<members, approved>>
    BY <1>4, AtMoves DEF DeleteImage
  <2> QED BY <2>1 DEF HeldInv, HeldSoundly, FoundAlone, Joined
<1>5. CASE FindHolder(r) \/ FindCard(r)
  <2>1. /\ UNCHANGED members /\ r.op \in {"upload", "card"}
        /\ r.op = "card" /\ pc'[r] = "update" => Free(r)
    BY <1>5, AtMoves DEF FindHolder, FindCard, End, memberVars
  <2> QED BY <2>1 DEF HeldSoundly, FoundAlone, Free, Joined
<1>6. CASE \/ CreateMember(r) \/ ValidateAssignment(r) \/ EnhancedFails(r) \/ ValidateBulk(r)
           \/ CheckRole(r) \/ FindPending(r)
  <2>1. r.op \in {"create", "assign", "verify"} /\ pc'[r] # "write"
    BY <1>6, AtMoves DEF CreateMember, ValidateAssignment, EnhancedFails, ValidateBulk, CheckRole,
       FindPending, End
  <2> QED BY <2>1 DEF HeldSoundly, FoundAlone
<1>7. CASE WriteMember(r) \/ VerifyMember(r) \/ RemoveMember(r) \/ Upload(r) \/ AssignCard(r) \/ Review(r)
  <2>1. pc'[r] \in {"fallback", "done"}
    BY <1>7, AtMoves DEF WriteMember, VerifyMember, RemoveMember, Upload, AssignCard, Review, End
  <2> QED BY <2>1 DEF HeldSoundly, FoundAlone
<1> QED BY <1>1, <1>2, <1>3, <1>4, <1>5, <1>6, <1>7 DEF MemberStep

LEMMA NextHeld ==
  ASSUME ReqInv, QueueInv, MemberInv, AskedInv, HeldInv, [SchoolNext]_schoolVars
  PROVE  HeldInv' /\ approved \subseteq approved'
<1>0. UNCHANGED world
  BY StepKinds
<1>1. ASSUME NEW r \in world.calls, CallStep(r), MemberStep(r) PROVE HeldInv' /\ approved \subseteq approved'
  BY <1>0, <1>1, StepHeld, ApprovedGrows, HeldInvKept DEF CallStep
<1>2. ASSUME NEW r \in world.calls, CallStep(r), ~MemberStep(r) PROVE HeldInv' /\ approved \subseteq approved'
  <2>1. Moves(r) /\ UNCHANGED approved
    BY <1>2 DEF CallStep, Cascade, memberVars
  <2>2. HeldSoundly(r)' /\ FoundAlone(r)'
    <3>1. CASE r.op = "place"
      <4>1. OrgStep(r)
        BY <1>2, <3>1 DEF CallStep, PeopleOps, UserOps, ProfileOps, ClassOps, SubjectOps, WorkOps, PaperOps
      <4>2. pc'[r] # "write"
        BY <4>1, AtMoves DEF OrgStep, SaveOrganization, SaveFounder, CheckStaff, InsertStaff,
           ChangeStaffRole, RemoveStaff, DemotePresidents, PromotePresident, CheckMember, CheckPlaced, End
      <4> QED BY <3>1, <4>2 DEF HeldSoundly, FoundAlone
    <3>2. CASE r.op # "place"
      <4>1. r.op \notin {"review", "create", "change", "assign", "card"}
        BY <1>2, <3>2 DEF CallStep, PeopleOps, UserOps, ProfileOps, ClassOps, SubjectOps, OrgOps, WorkOps, PaperOps
      <4> QED BY <3>2, <4>1 DEF HeldSoundly, FoundAlone
    <3> QED BY <3>1, <3>2
  <2> QED BY <1>0, <2>1, <2>2, HeldInvKept
<1>3. CASE RestStep
  <2>1. UNCHANGED <<pc, held, members, approved>>
    BY <1>3 DEF RestStep, requestVars, memberVars
  <2>2. ASSUME NEW q \in world.calls PROVE HeldSoundly(q)' /\ (world.serial => FoundAlone(q)')
    <3>1. HeldSoundly(q) /\ (world.serial => FoundAlone(q))
      BY DEF HeldInv
    <3> QED BY <2>1, <3>1 DEF HeldSoundly, FoundAlone, Assigns, Free, Joined
  <2> QED BY <1>0, <2>1, <2>2 DEF HeldInv
<1> QED BY <1>1, <1>2, <1>3, StepKinds

LEMMA InitHeld == SchoolInit => HeldInv
BY DEF SchoolInit, RequestInit, HeldInv, HeldSoundly, FoundAlone

\* What a call that writes a member's row says of his image and of his card.
ImageSays(r, u) ==
  \/ u \in Joined /\ members'[u].image = members[u].image /\ members'[u].shown = members[u].shown
  \/ u \notin Joined /\ members'[u].image = NoRow /\ members'[u].shown # "VERIFIED"
  \/ /\ r.op \in {"upload", "assign"} /\ pc'[r] = "done" /\ UNCHANGED deleted
     /\ members'[u].image = r.image
     /\ members'[u].shown = "VERIFIED" => r.image \in approved'
  \/ /\ r.op = "review" /\ pc[r] = "update" /\ pc'[r] = "done"
     /\ members'[u].shown = r.verdict
     /\ members'[u].image = IF r.verdict = "REJECTED" THEN NoRow ELSE held[r]

CardSays(r, u) ==
  \/ members'[u].card = NoRow
  \/ u \in Joined /\ members'[u].card = members[u].card
  \/ r.op = "assign" /\ members'[u].card = r.card
  \/ r.op = "card" /\ pc[r] = "update" /\ members'[u].card = r.card

Steady == world.serial \/ \A r \in world.calls : r.op \notin {"assign", "change"}

LEMMA RowSaid ==
  ASSUME ReqInv, MemberInv, AskedInv, HeldInv, NEW r \in world.calls, MemberStep(r), UNCHANGED world,
         NEW u \in Users, Wrote(r, u), Steady
  PROVE  ImageSays(r, u) /\ CardSays(r, u)
<1>1. u = r.user /\ (u \in Joined <=> members[u] # NoRow)
  BY DEF Wrote, Joined
<1>2. members[u] # NoRow => ImageColumns \subseteq DOMAIN members[u]
  BY DEF MemberInv, MemberRow, ImageColumns
<1>3. ASSUME NEW set, NEW old, ImageColumns \subseteq DOMAIN old, members'[u] = set ++ old
      PROVE  \A c \in ImageColumns : members'[u][c] = IF c \in DOMAIN set THEN set[c] ELSE old[c]
  BY <1>3 DEF ++
<1>4. CASE WriteMember(r)
  <2> DEFINE set == held[r].set
             old == IF held[r].found THEN members[u] ELSE NewMember
  <2>1. /\ members'[u] = set ++ old /\ (held[r].found <=> u \in Joined)
    <3>1. \/ ~held[r].found /\ members[u] = NoRow /\ members'[u] = set ++ NewMember
          \/ members[u] # NoRow /\ held[r].found /\ members'[u] = set ++ members[u]
      <4>1. ~VerifyMember(r) /\ ~Upload(r) /\ ~AssignCard(r) /\ ~Review(r)
        BY <1>4, Writing DEF Saving, VerifyMember, Upload, AssignCard, Review, At
      <4> QED BY <4>1 DEF Wrote
    <3> QED BY <1>1, <3>1
  <2>2. ImageColumns \subseteq DOMAIN old
    BY <1>1, <1>2, <2>1 DEF NewMember, ImageColumns
  <2>3. \A c \in ImageColumns : members'[u][c] = IF c \in DOMAIN set THEN set[c] ELSE old[c]
    <3> HIDE DEF set, old
    <3> QED BY <1>3, <2>1, <2>2
  <2>4. u \notin Joined => old.image = NoRow /\ old.shown # "VERIFIED" /\ old.card = NoRow
    BY <2>1 DEF NewMember
  <2>5. u \in Joined => old = members[u]
    BY <2>1
  <2>6. r.op \in Saving /\ pc[r] = "write"
    BY <1>4, Writing
  <2>7. CASE r.op # "assign"
    <3>1. DOMAIN set \cap ImageColumns = {}
      BY <2>6, <2>7 DEF Saving, HeldInv, HeldSoundly, FoundAlone, Steady
    <3> HIDE DEF set, old
    <3> QED BY <2>3, <2>4, <2>5, <3>1 DEF ImageSays, CardSays, ImageColumns
  <2>8. CASE r.op = "assign"
    <3>1. Assigns(r)
      BY <1>1, <2>6, <2>8 DEF HeldInv, FoundAlone, Steady
    <3>2. /\ held[r].bulk => DOMAIN set \cap {"image", "shown"} = {}
          /\ ~held[r].bulk => /\ (set ++ old).image = r.image
                              /\ (set ++ old).shown = "VERIFIED" => r.trusted
          /\ "card" \in DOMAIN set => set.card = r.card
      BY <1>1, <3>1 DEF Assigns
    <3>3. ~held[r].bulk => /\ pc'[r] = "done" /\ UNCHANGED deleted
                           /\ r.trusted => r.image \in approved'
      <4>1. ~held[r].bulk => GoOn(r, "done", NoRow)
        BY <1>4 DEF WriteMember, End
      <4> QED BY <1>4, <2>6, <2>8, <4>1, AtMoves DEF WriteMember
    <3> HIDE DEF set, old
    <3>4. CardSays(r, u)
      BY <2>3, <2>4, <2>5, <2>8, <3>2 DEF CardSays, ImageColumns
    <3>5. ImageSays(r, u)
      BY <2>1, <2>3, <2>4, <2>5, <2>8, <3>2, <3>3 DEF ImageSays, ImageColumns
    <3> QED BY <3>4, <3>5
  <2> QED BY <2>7, <2>8
<1>5. CASE VerifyMember(r)
  <2>1. members'[u] = [status |-> "ACTIVE"] ++ members[u] /\ members[u] # NoRow
    BY <1>5 DEF Wrote, VerifyMember, WriteMember, Upload, AssignCard, Review, At
  <2>2. \A c \in ImageColumns : members'[u][c] = members[u][c]
    BY <1>2, <2>1 DEF ++, ImageColumns
  <2> QED BY <1>1, <2>1, <2>2 DEF ImageSays, CardSays, ImageColumns
<1>6. CASE Upload(r)
  <2>1. /\ members'[u] = [image |-> r.image, shown |-> IF r.trusted THEN "VERIFIED" ELSE "PENDING"] ++ members[u]
        /\ members[u] # NoRow
    BY <1>6 DEF Wrote, VerifyMember, WriteMember, Upload, AssignCard, Review, At
  <2>2. /\ members'[u].card = members[u].card /\ members'[u].image = r.image
        /\ members'[u].shown = "VERIFIED" => r.trusted
    BY <1>2, <2>1 DEF ++, ImageColumns
  <2>3. r.op = "upload" /\ pc'[r] = "done" /\ UNCHANGED deleted /\ (r.trusted => r.image \in approved')
    BY <1>6, AtMoves DEF Upload, End
  <2> QED BY <1>1, <2>1, <2>2, <2>3 DEF ImageSays, CardSays
<1>7. CASE AssignCard(r)
  <2>1. members'[u] = [card |-> r.card] ++ members[u] /\ members[u] # NoRow
    BY <1>7 DEF Wrote, VerifyMember, WriteMember, Upload, AssignCard, Review, At
  <2>2. /\ members'[u].card = r.card /\ members'[u].image = members[u].image
        /\ members'[u].shown = members[u].shown
    BY <1>2, <2>1 DEF ++, ImageColumns
  <2>3. r.op = "card" /\ pc[r] = "update"
    BY <1>7 DEF AssignCard, At
  <2> QED BY <1>1, <2>1, <2>2, <2>3 DEF ImageSays, CardSays
<1>8. CASE Review(r)
  <2>1. members'[u] = Verdict(r) ++ members[u] /\ members[u] # NoRow
    BY <1>8 DEF Wrote, VerifyMember, WriteMember, Upload, AssignCard, Review, At
  <2>2. /\ members'[u].card = members[u].card /\ members'[u].shown = r.verdict
        /\ members'[u].image = IF r.verdict = "REJECTED" THEN NoRow ELSE held[r]
    BY <1>2, <2>1 DEF ++, ImageColumns, Verdict
  <2>3. r.op = "review" /\ pc[r] = "update" /\ pc'[r] = "done"
    BY <1>8, AtMoves DEF Review, End
  <2> QED BY <1>1, <2>1, <2>2, <2>3 DEF ImageSays, CardSays
<1> QED BY <1>4, <1>5, <1>6, <1>7, <1>8 DEF Wrote

\* So a member after a step is as he was, or as the call that moves says.
LEMMA RowAfter ==
  ASSUME ReqInv, QueueInv, MemberInv, AskedInv, HeldInv, [SchoolNext]_schoolVars, Steady,
         NEW u \in Users, members'[u] # NoRow
  PROVE  \/ u \in Joined /\ members'[u] = members[u]
         \/ \E r \in world.calls : /\ CallStep(r) /\ MemberStep(r) /\ r.user = u
                                   /\ ImageSays(r, u) /\ CardSays(r, u)
<1>1. CASE members'[u] = members[u]
  BY <1>1 DEF Joined
<1>2. CASE members'[u] # members[u]
  <2>1. PICK r \in world.calls : CallStep(r) /\ MemberStep(r) /\ Wrote(r, u)
    BY <1>2, MemberWritten
  <2>2. UNCHANGED world /\ r.user = u
    BY <2>1, StepKinds DEF Wrote
  <2> QED BY <2>1, <2>2, RowSaid
<1> QED BY <1>1, <1>2

\* An image shown as verified was approved, after a step.
LEMMA NextVerified ==
  ASSUME ReqInv, QueueInv, MemberInv, AskedInv, HeldInv, VerifiedIsApproved, [SchoolNext]_schoolVars
  PROVE  VerifiedIsApproved'
<1>0. UNCHANGED world /\ approved \subseteq approved'
  BY StepKinds, NextHeld
<1> SUFFICES ASSUME Steady, NEW u \in Users, members'[u] # NoRow, members'[u].shown = "VERIFIED"
             PROVE  members'[u].image \in approved'
  BY <1>0 DEF VerifiedIsApproved, Steady, Joined
<1>1. u \in Joined /\ members[u].shown = "VERIFIED" => members[u].image \in approved
  BY DEF VerifiedIsApproved, Steady
<1>2. ASSUME NEW r \in world.calls, ImageSays(r, u) PROVE members'[u].image \in approved'
  <2>1. CASE r.op = "review" /\ pc[r] = "update" /\ members'[u].shown = r.verdict /\ members'[u].image = held[r]
    BY <1>0, <2>1 DEF HeldInv, HeldSoundly
  <2> QED BY <1>0, <1>1, <1>2, <2>1 DEF ImageSays
<1> QED BY <1>0, <1>1, <1>2, RowAfter

\* Where the image of a member comes from.
Kept(u) == u \in Joined /\ members'[u].image = members[u].image
Fresh(r, u) == /\ Gives(r) /\ r.user = u /\ members'[u].image = r.image
               /\ pc[r] # "done" /\ pc'[r] = "done" /\ UNCHANGED deleted

LEMMA ImageFrom ==
  ASSUME ReqInv, QueueInv, MemberInv, AskedInv, HeldInv, [SchoolNext]_schoolVars, world.serial,
         NEW u \in Users, members'[u] # NoRow, members'[u].image # NoRow
  PROVE  Kept(u) \/ \E r \in world.calls : CallStep(r) /\ Fresh(r, u)
<1>1. CASE u \in Joined /\ members'[u] = members[u]
  BY <1>1 DEF Kept
<1>2. ASSUME NEW r \in world.calls, CallStep(r), r.user = u, ImageSays(r, u)
      PROVE  Kept(u) \/ Fresh(r, u)
  <2>1. CASE r.op = "review" /\ pc[r] = "update" /\ members'[u].image = held[r]
    BY <1>2, <2>1 DEF HeldInv, FoundAlone, Kept
  <2>2. CASE /\ r.op \in {"upload", "assign"} /\ pc'[r] = "done" /\ UNCHANGED deleted
             /\ members'[u].image = r.image
    BY <1>2, <2>2 DEF Fresh, Gives, CallStep, Moves
  <2> QED BY <1>2, <2>1, <2>2 DEF ImageSays, Kept
<1> QED BY <1>1, <1>2, RowAfter DEF Steady

\* What is deleted, and by whom.
LEMMA DeletedBy ==
  ASSUME ReqInv, QueueInv, HeldInv, [SchoolNext]_schoolVars
  PROVE  \/ UNCHANGED deleted
         \/ \E r \in world.calls :
              /\ CallStep(r) /\ r.op = "review" /\ pc[r] = "delete" /\ pc'[r] = "update"
              /\ held[r] # NoRow /\ deleted' = deleted \cup {held[r]} /\ UNCHANGED members
<1>1. CASE RestStep
  BY <1>1 DEF RestStep, memberVars
<1>2. ASSUME NEW r \in world.calls, CallStep(r), ~DeleteImage(r) PROVE UNCHANGED deleted
  <2>1. ASSUME MemberStep(r) PROVE UNCHANGED deleted
    BY <1>2, <2>1 DEF MemberStep, CreateMember, ValidateAssignment, EnhancedFails, ValidateBulk, CheckRole,
       CompareMember, WriteMember, FindPending, VerifyMember, FindMember, RemoveMember, FindHolder, Upload,
       FindCard, AssignCard, FindImage, Review, memberVars
  <2> QED BY <1>2, <2>1 DEF CallStep, Cascade, memberVars
<1>3. ASSUME NEW r \in world.calls, CallStep(r), DeleteImage(r)
      PROVE  /\ r.op = "review" /\ pc[r] = "delete" /\ pc'[r] = "update" /\ held[r] # NoRow
             /\ deleted' \in {deleted, deleted \cup {held[r]}} /\ UNCHANGED members
  <2>1. /\ r.op = "review" /\ pc[r] = "delete" /\ pc'[r] = "update"
        /\ deleted' \in {deleted, deleted \cup {held[r]}} /\ UNCHANGED members
    BY <1>3, AtMoves DEF DeleteImage
  <2> QED BY <2>1 DEF HeldInv, HeldSoundly
<1> QED BY <1>1, <1>2, <1>3, StepKinds

\* A call under way is the one that moves, where calls are served in turn.
LEMMA OneMoves ==
  ASSUME ReqInv, world.serial, NEW r \in world.calls, NEW q \in world.calls, CallStep(r),
         pc[q] \notin Idle \/ pc'[q] # pc[q]
  PROVE  q = r
BY DEF CallStep, Moves

LEMMA NextImages ==
  ASSUME ReqInv, QueueInv, MemberInv, AskedInv, HeldInv, ImageInv, [SchoolNext]_schoolVars,
         world.serial, GivenOnce
  PROVE  /\ OneImage(members')
         /\ \A r \in world.calls : Gives(r) /\ pc'[r] # "done" =>
              r.image \notin deleted' /\ \A u \in Joined' : members'[u].image # r.image
         /\ \A u \in Joined' : members'[u].image \in deleted' =>
              \E r \in world.calls : /\ r.op = "review" /\ pc'[r] = "update" /\ r.verdict = "REJECTED"
                                     /\ r.user = u
<1>0. UNCHANGED world
  BY StepKinds
<1>1. /\ OneImage(members) /\ NoRow \notin deleted
      /\ \A r \in world.calls : Gives(r) /\ pc[r] # "done" =>
           r.image \notin deleted /\ \A u \in Joined : members[u].image # r.image
      /\ \A u \in Joined : members[u].image \in deleted =>
           \E r \in world.calls : /\ r.op = "review" /\ pc[r] = "update" /\ r.verdict = "REJECTED"
                                  /\ r.user = u
  BY DEF ImageInv, ImagesSound
<1>2. \A u, v \in Joined : members[u].image = members[v].image /\ members[u].image # NoRow => u = v
  BY <1>1 DEF OneImage, Joined
<1>3. \A r \in world.calls, v \in Joined : Gives(r) /\ pc[r] # "done" => members[v].image # r.image
  BY <1>1
<1>4. \A u \in Joined' : /\ u \in Users /\ members'[u] # NoRow
                         /\ \/ members'[u].image = NoRow \/ Kept(u)
                            \/ \E r \in world.calls : CallStep(r) /\ Fresh(r, u)
  BY ImageFrom DEF Joined
<1>5. OneImage(members')
  <2> SUFFICES ASSUME NEW u \in Joined', NEW v \in Joined', members'[u].image = members'[v].image,
                      members'[u].image # NoRow
               PROVE  u = v
    BY DEF OneImage, Joined
  <2>1. CASE Kept(u) /\ Kept(v)
    <3> DEFINE image == members'[u].image
    <3>1. u \in Joined /\ v \in Joined /\ members[u].image = image
      BY <2>1 DEF Kept
    <3>2. members[v].image = image
      BY <2>1 DEF Kept
    <3>3. image # NoRow
      OBVIOUS
    <3> HIDE DEF image
    <3> QED BY <1>2, <3>1, <3>2, <3>3
  <2>2. ASSUME NEW r \in world.calls, Fresh(r, u), Kept(v) PROVE FALSE
    <3>1. r.image = members[v].image
      BY <2>2 DEF Fresh, Kept
    <3> QED BY <1>3, <2>2, <3>1 DEF Fresh, Kept
  <2>3. ASSUME NEW r \in world.calls, Fresh(r, v), Kept(u) PROVE FALSE
    <3>1. r.image = members[u].image
      BY <2>3 DEF Fresh, Kept
    <3> QED BY <1>3, <2>3, <3>1 DEF Fresh, Kept
  <2>4. ASSUME NEW r \in world.calls, NEW q \in world.calls, CallStep(r), Fresh(r, u), Fresh(q, v)
        PROVE  u = v
    BY <2>4, OneMoves DEF Fresh
  <2> QED BY <1>4, <2>1, <2>2, <2>3, <2>4
<1>6. ASSUME NEW r \in world.calls, Gives(r), pc'[r] # "done"
      PROVE  r.image \notin deleted' /\ \A u \in Joined' : members'[u].image # r.image
  <2>1. pc[r] # "done" /\ r.image # NoRow
    BY <1>6, StepKinds DEF CallStep, Moves, RestStep, requestVars, Gives
  <2>2. r.image \notin deleted'
    <3>1. ASSUME NEW q \in world.calls, q.op = "review", pc[q] = "delete" PROVE held[q] # r.image
      BY <1>1, <1>6, <2>1, <3>1 DEF HeldInv, FoundAlone
    <3> QED BY <1>1, <1>6, <2>1, <3>1, DeletedBy
  <2>3. ASSUME NEW u \in Joined', members'[u].image = r.image PROVE FALSE
    <3>1. CASE Kept(u)
      <4>1. members[u].image = r.image
        BY <2>3, <3>1 DEF Kept
      <4> QED BY <1>6, <1>3, <2>1, <3>1, <4>1 DEF Kept
    <3>2. ASSUME NEW q \in world.calls, Fresh(q, u) PROVE FALSE
      BY <1>6, <2>3, <3>2 DEF Fresh, GivenOnce
    <3> QED BY <1>4, <2>1, <2>3, <3>1, <3>2
  <2> QED BY <2>2, <2>3
<1>7. ASSUME NEW u \in Joined', members'[u].image \in deleted'
      PROVE  \E r \in world.calls : /\ r.op = "review" /\ pc'[r] = "update" /\ r.verdict = "REJECTED"
                                    /\ r.user = u
  <2>1. members'[u].image # NoRow
    BY <1>1, <1>7, DeletedBy
  <2>2. ASSUME NEW r \in world.calls, Fresh(r, u) PROVE FALSE
    BY <1>1, <1>7, <2>2 DEF Fresh
  <2>3. Kept(u)
    BY <1>4, <2>1, <2>2
  <2>4. CASE members[u].image \in deleted
    <3>1. PICK q \in world.calls : q.op = "review" /\ pc[q] = "update" /\ q.verdict = "REJECTED" /\ q.user = u
      BY <1>1, <2>3, <2>4 DEF Kept
    <3>2. ASSUME NEW r \in world.calls, CallStep(r) PROVE FALSE
      <4>1. r = q
        BY <3>1, <3>2, OneMoves DEF Idle
      <4>2. MemberStep(q)
        BY <3>1, <3>2, <4>1 DEF CallStep, PeopleOps, UserOps, ProfileOps, ClassOps, SubjectOps, OrgOps,
           WorkOps, PaperOps
      <4>3. Review(q)
        BY <3>1, <4>2 DEF MemberStep, CreateMember, ValidateAssignment, EnhancedFails, ValidateBulk,
           CheckRole, CompareMember, WriteMember, FindPending, VerifyMember, FindMember, RemoveMember,
           FindHolder, Upload, FindCard, AssignCard, FindImage, DeleteImage, At
      <4> DEFINE columns == Verdict(q)
      <4>4. UpdateMember(u, columns) /\ columns.image = NoRow /\ "image" \in DOMAIN columns
        BY <3>1, <4>3 DEF Review, Verdict
      <4>5. members' = [members EXCEPT ![u] = columns ++ members[u]]
        <5> HIDE DEF columns
        <5> QED BY <2>3, <4>4 DEF UpdateMember, Kept, Joined
      <4>6. (columns ++ members[u]).image = NoRow
        <5> HIDE DEF columns
        <5> QED BY <4>4 DEF ++
      <4> HIDE DEF columns
      <4>7. u \in DOMAIN members
        BY <2>3 DEF Kept, Joined, MemberInv
      <4> QED BY <2>1, <4>5, <4>6, <4>7
    <3>3. RestStep
      BY <3>2, StepKinds
    <3> QED BY <3>1, <3>3 DEF RestStep, requestVars
  <2>5. CASE members[u].image \notin deleted
    <3>1. PICK r \in world.calls : /\ CallStep(r) /\ r.op = "review" /\ pc[r] = "delete" /\ pc'[r] = "update"
                                   /\ members[u].image = held[r]
      BY <1>7, <2>3, <2>5, DeletedBy DEF Kept
    <3>2. r.user \in Joined /\ members[r.user].image = held[r] /\ r.verdict = "REJECTED"
      BY <3>1 DEF HeldInv, FoundAlone
    <3>3. r.user = u
      BY <1>1, <2>1, <2>3, <3>1, <3>2 DEF OneImage, Kept, Joined
    <3> QED BY <3>1, <3>2, <3>3
  <2> QED BY <2>4, <2>5
<1> QED BY <1>5, <1>6, <1>7

\* No two members have one card, after a step.
LEMMA NextCards ==
  ASSUME ReqInv, QueueInv, MemberInv, AskedInv, HeldInv, [SchoolNext]_schoolVars, world.serial,
         \A r \in world.calls : r.op = "assign" => r.card = NoRow, OneHolder(members)
  PROVE  OneHolder(members')
<1> DEFINE Before(u) == u \in Joined /\ members'[u].card = members[u].card
           Gets(r, u) == /\ CallStep(r) /\ r.user = u /\ r.op = "card" /\ pc[r] = "update"
                         /\ members'[u].card = r.card
<1>1. ASSUME NEW u \in Users, members'[u] # NoRow, members'[u].card # NoRow
      PROVE  Before(u) \/ \E r \in world.calls : Gets(r, u)
  <2>1. ASSUME NEW r \in world.calls, CallStep(r), r.user = u, CardSays(r, u)
        PROVE  Before(u) \/ Gets(r, u)
    BY <1>1, <2>1 DEF CardSays
  <2> QED BY <1>1, <2>1, RowAfter DEF Steady
<1>2. \A u, v \in Joined : members[u].card = members[v].card /\ members[u].card # NoRow => u = v
  BY DEF OneHolder, Joined
<1>3. ASSUME NEW u, NEW v, NEW r \in world.calls, Gets(r, u), Before(v), u # v
      PROVE  members'[u].card # members'[v].card
  <2>1. Free(r)
    BY <1>3 DEF HeldInv, FoundAlone
  <2>2. members[v].card # r.card
    BY <1>3, <2>1 DEF Free
  <2> QED BY <1>3, <2>2
<1>4. ASSUME NEW u, NEW v, NEW r \in world.calls, NEW q \in world.calls, Gets(r, u), Gets(q, v)
      PROVE  u = v
  BY <1>4, OneMoves DEF Idle
<1> SUFFICES ASSUME NEW u \in Users, NEW v \in Users, members'[u] # NoRow, members'[v] # NoRow,
                    members'[u].card = members'[v].card, members'[u].card # NoRow
             PROVE  u = v
  BY DEF OneHolder
<1>5. CASE Before(u) /\ Before(v)
  <2> DEFINE card == members'[u].card
  <2>1. members[u].card = card /\ members[v].card = card /\ card # NoRow
    BY <1>5
  <2> HIDE DEF card
  <2> QED BY <1>2, <1>5, <2>1
<1>6. \A w \in {u, v} : Before(w) \/ \E r \in world.calls : Gets(r, w)
  BY <1>1
<1> HIDE DEF Before, Gets
<1> QED BY <1>3, <1>4, <1>5, <1>6

LEMMA NextImageInv ==
  ASSUME ReqInv, QueueInv, MemberInv, AskedInv, HeldInv, ImageInv, [SchoolNext]_schoolVars
  PROVE  ImageInv'
<1>0. UNCHANGED world
  BY StepKinds
<1>1. VerifiedIsApproved'
  BY NextVerified DEF ImageInv
<1>2. (NoRow \notin deleted)'
  BY DeletedBy DEF ImageInv
<1>3. ImagesSound'
  <2>1. (world.serial /\ GivenOnce)' => world.serial /\ GivenOnce
    BY <1>0 DEF GivenOnce, Gives, OneImage
  <2>2. CASE world.serial /\ GivenOnce
    BY <1>0, <2>2, NextImages DEF ImagesSound, OneImage
  <2> QED BY <2>1, <2>2 DEF ImagesSound
<1>4. CardsUnique'
  BY <1>0, NextCards DEF ImageInv, CardsUnique, OneHolder
<1> QED BY <1>1, <1>2, <1>3, <1>4 DEF ImageInv

LEMMA InitImage == SchoolInit => ImageInv
<1> SUFFICES ASSUME SchoolInit PROVE ImageInv
  OBVIOUS
<1>1. members = world.at.members /\ deleted = {}
      /\ approved = {members[u].image : u \in {v \in Joined : members[v].shown = "VERIFIED"}}
  BY DEF SchoolInit, MembersInit
<1>2. ImagesSound
  BY <1>1 DEF ImagesSound, GivenOnce, Joined
<1>3. CardsUnique /\ VerifiedIsApproved
  BY <1>1 DEF CardsUnique, VerifiedIsApproved
<1> QED BY <1>1, <1>2, <1>3 DEF ImageInv

\* An image that is shown as verified was approved, also when it is reviewed while
\* another is uploaded; served one after the other, no member's image was deleted
\* and no card has two holders.
THEOREM CardsSound == SchoolSpec => []CardsAndImages
<1>1. SchoolInit => AskedInv /\ HeldInv /\ ImageInv
  BY InitAsked, InitHeld, InitImage
<1>2. SchoolInv /\ AskedInv /\ HeldInv /\ ImageInv /\ [SchoolNext]_schoolVars
        => AskedInv' /\ HeldInv' /\ ImageInv'
  BY NextAsked, NextHeld, NextImageInv DEF SchoolInv, BaseInv
<1>3. ImageInv => CardsAndImages
  <2> SUFFICES ASSUME ImageInv PROVE CardsAndImages
    OBVIOUS
  <2>1. ShownImageExists
    BY DEF ImageInv, ImagesSound, ShownImageExists, Quiet
  <2> QED BY <2>1 DEF ImageInv, CardsAndImages
<1> QED BY <1>1, <1>2, <1>3, SchoolInvariant, PTL DEF SchoolSpec

-----------------------------------------------------------------------------
(* What is cached, and what is deleted, of users                           *)

\* Whom a call that refreshes is to leave with what the tables say.
Names(r) == {r.user} \cup IF r.op = "link" THEN {r.father} ELSE {}
Current(u) == Known(u) => details[u] = Snapshot(u)
Queued(users) == {users[i] : i \in DOMAIN users}
OneOrTwo(users) == users = <<users[1]>> \/ users = <<users[1], users[2]>>

\* While it refreshes, alone, it has one or two users to go; the row it holds is
\* what the tables say, and whom it has no more to do with is right.
CachesAlone(r) ==
  LET h == held[r]
  IN  /\ h = [users |-> h.users, row |-> h.row, then |-> h.then, old |-> h.old]
      /\ OneOrTwo(h.users)
      /\ pc[r] = "cache" => Known(h.users[1]) /\ h.row = Snapshot(h.users[1])
      /\ ~world.faulty /\ h.then \in {"done", "clean"} /\ r.op # "rfid" =>
           \A u \in Names(r) \ Queued(h.users) : Current(u)

RefreshAlone(r) ==
  /\ pc[r] \in Caching => CachesAlone(r)
  /\ r.op = "photo" /\ pc[r] = "clean" /\ ~world.faulty => Current(r.user)
  /\ r.op = "userRemove" /\ pc[r] \in {"find", "write"} /\ ~world.faulty => details[r.user] = NoRow

\* A call that deletes a file has it from this user, and it is not the one that
\* he shows afterwards.
Shown(u) == FilesOf(u) \cup {NoRow}
Spares(r, old) == /\ old \in FilesOf(r.user) \ {NoRow} /\ (r.full => old # r.image)
                  /\ Known(r.user) => people[r.user].image = r.image

PhotoAlone(r) ==
  /\ r.op = "photo" /\ pc[r] \in {"find", "write"} => held[r] \in Shown(r.user)
  /\ r.op = "photo" /\ pc[r] \in Caching =>
       held[r].old \in Shown(r.user) /\ (held[r].then = "clean" => Spares(r, held[r].old))
  /\ r.op = "photo" /\ pc[r] = "clean" => Spares(r, held[r])
  /\ r.op = "pupilPhoto" /\ pc[r] = "erase" => held[r] \in FilesOf(r.user) \ {NoRow}

\* A call that saves an entity has found the row that is there; a rejection
\* leaves no image in it.
EntityAlone(r) ==
  /\ r.op = "switch" /\ pc[r] = "save" => Known(r.user) /\ held[r].image = people[r.user].image
  /\ r.op = "switch" /\ pc[r] = "write" =>
       Known(r.user) /\ held[r].found /\ "image" \notin DOMAIN held[r].set
  /\ r.op = "rejectPhoto" /\ pc[r] \in {"unlink", "save", "write"} => Known(r.user)
  /\ r.op = "rejectPhoto" /\ pc[r] = "unlink" => held[r].file \in FilesOf(r.user) \ {NoRow}
  /\ r.op = "rejectPhoto" /\ pc[r] = "write" =>
       /\ held[r].found
       /\ "image" \in DOMAIN held[r].set => held[r].set.image = NoRow
       /\ "image" \notin DOMAIN held[r].set => people[r.user].image = NoRow
  /\ r.op = "rejectPhoto" /\ pc[r] \in Caching /\ Known(r.user) => people[r.user].image = NoRow

AloneInv(r) == RefreshAlone(r) /\ PhotoAlone(r) /\ EntityAlone(r)

UserDetails(u) ==
  /\ Known(u) => people[u].image \in Shown(u)
  /\ details[u] # NoRow => details[u].image \in Shown(u) /\ (~world.faulty => Known(u))

\* Nobody is cached who is not there, and nobody with a file of another.
DetailsInv ==
  /\ DOMAIN details = Users
  /\ world.serial => /\ \A u \in Users : UserDetails(u)
                     /\ \A r \in world.calls : AloneInv(r)

\* The files of users are those of the world, which stays.
LEMMA SameFiles == ASSUME UNCHANGED world
                   PROVE  \A u : FilesOf(u)' = FilesOf(u) /\ Shown(u)' = Shown(u)
BY DEF Shown, FilesOf, Pictures

\* Only the request that moves is to be looked at: the others are idle.
LEMMA DetailsKept ==
  ASSUME ReqInv, DetailsInv, NEW r \in world.calls, Moves(r), UNCHANGED world, DOMAIN details' = Users,
         world.serial => AloneInv(r)' /\ \A u \in Users : UserDetails(u)'
  PROVE  DetailsInv'
<1>1. ASSUME world.serial, NEW q \in world.calls, q # r PROVE AloneInv(q)'
  <2>1. pc'[q] \in {"start", "done"}
    BY <1>1 DEF Moves, Idle
  <2> QED BY <2>1 DEF AloneInv, RefreshAlone, PhotoAlone, EntityAlone, Caching
<1> QED BY <1>1 DEF DetailsInv

\* Nor is there anything to say of a request which neither caches nor remembers.
Plain(r) == /\ pc[r] \notin Caching
            /\ pc[r] = "done" \/ r.op \notin {"photo", "pupilPhoto", "switch", "rejectPhoto", "userRemove"}

LEMMA PlainAlone == ASSUME NEW r, Plain(r)' PROVE AloneInv(r)'
BY DEF Plain, AloneInv, RefreshAlone, PhotoAlone, EntityAlone, Caching

LEMMA SameUsers ==
  ASSUME ReqInv, DetailsInv, UNCHANGED world, world.serial, UNCHANGED people, NEW u \in Users,
         details'[u] = details[u] \/ details'[u] = NoRow
  PROVE  UserDetails(u)'
<1>1. UserDetails(u) /\ Shown(u)' = Shown(u)
  BY SameFiles DEF DetailsInv
<1> QED BY <1>1 DEF UserDetails, Known

\* The first of one or two users, and the rest.
LEMMA FirstAndRest ==
  ASSUME NEW users, OneOrTwo(users)
  PROVE  /\ Head(users) = users[1]
         /\ \/ Tail(users) = <<>> /\ Queued(users) = {users[1]}
            \/ /\ Tail(users) = <<users[2]>> /\ Tail(users) # <<>>
               /\ Queued(users) = {users[1], users[2]} /\ Queued(Tail(users)) = {users[2]}
<1>1. CASE users = <<users[1]>>
  <2> DEFINE a == users[1]
  <2>1. users = <<a>>
    BY <1>1
  <2> HIDE DEF a
  <2>2. Tail(users) = <<>> /\ Head(users) = a /\ DOMAIN users = {1} /\ users[1] = a
    BY <2>1
  <2> QED BY <2>2 DEF Queued
<1>2. CASE users = <<users[1], users[2]>>
  <2> DEFINE a == users[1]
             b == users[2]
  <2>1. users = <<a, b>>
    BY <1>2
  <2> HIDE DEF a, b
  <2>2. Tail(users) = <<b>> /\ Head(users) = a /\ DOMAIN users = {1, 2} /\ users[1] = a /\ users[2] = b
    BY <2>1
  <2>3. Tail(users) # <<>> /\ DOMAIN Tail(users) = {1} /\ Tail(users)[1] = b
    BY <2>2
  <2> QED BY <2>2, <2>3 DEF Queued
<1> QED BY <1>1, <1>2 DEF OneOrTwo

\* A call that begins to refresh names whom it is about.
LEMMA CacheAlone ==
  ASSUME NEW r, NEW users, NEW then, NEW old, OneOrTwo(users), pc'[r] = "refresh",
         held'[r] = [users |-> users, row |-> NoRow, then |-> then, old |-> old],
         then \in {"done", "clean"} /\ r.op # "rfid" => Names(r) \subseteq Queued(users),
         r.op = "photo" => old \in Shown(r.user)' /\ (then = "clean" => Spares(r, old)'),
         r.op = "rejectPhoto" /\ Known(r.user)' => people'[r.user].image = NoRow
  PROVE  AloneInv(r)'
<1>1. held'[r].users = users /\ held'[r].row = NoRow /\ held'[r].then = then /\ held'[r].old = old
  OBVIOUS
<1>2. CachesAlone(r)'
  BY <1>1 DEF CachesAlone
<1> QED BY <1>1, <1>2 DEF AloneInv, RefreshAlone, PhotoAlone, EntityAlone, Caching

\* One that goes on to the next user, or to the step after the last, leaves this
\* one right.
LEMMA CachedAlone ==
  ASSUME ReqInv, QueueInv, DetailsInv, NEW r \in world.calls, Cached(r), pc[r] \in Caching,
         UNCHANGED <<world, people, pupils>>, world.serial, Names(r) \subseteq Users,
         NEW first, first = held[r].users[1], \A u \in Users : u # first => details'[u] = details[u],
         ~world.faulty /\ held[r].then \in {"done", "clean"} /\ first \in Users => Current(first)'
  PROVE  /\ AloneInv(r)'
         /\ ~world.faulty /\ r.op # "rfid" /\ pc'[r] = "done" => \A u \in Names(r) : Current(u)'
<1> DEFINE h == held[r]
           users == h.users
           rest == Tail(users)
           next == [users |-> rest, row |-> h.row, then |-> h.then, old |-> h.old]
<1>0. /\ CachesAlone(r) /\ h.then \in Thens(r) /\ PhotoAlone(r) /\ EntityAlone(r)
      /\ UNCHANGED Shown(r.user) /\ UNCHANGED FilesOf(r.user)
  BY SameFiles DEF DetailsInv, AloneInv, RefreshAlone, QueueInv
<1>1. OneOrTwo(users) /\ h = [users |-> users, row |-> h.row, then |-> h.then, old |-> h.old]
  BY <1>0 DEF CachesAlone
<1>2. ASSUME ~world.faulty, h.then \in {"done", "clean"}, r.op # "rfid", NEW u \in Names(r)
      PROVE  Current(u)' \/ (rest # <<>> /\ u \in Queued(rest))
  <2>1. CASE u = first
    BY <1>2, <2>1
  <2>2. CASE u # first /\ u \in Queued(users)
    BY <1>1, <2>2, FirstAndRest
  <2>3. CASE u \notin Queued(users)
    <3>1. Current(u) /\ u # first
      BY <1>0, <1>1, <1>2, <2>3, FirstAndRest DEF CachesAlone
    <3>2. details'[u] = details[u]
      BY <3>1
    <3> QED BY <3>1, <3>2 DEF Current, Known, Snapshot, Pupil
  <2> QED BY <2>1, <2>2, <2>3
<1>3. UNCHANGED Known(r.user) /\ \A old : Spares(r, old)' <=> Spares(r, old)
  BY <1>0 DEF Spares, Known
<1>4. CASE rest # <<>>
  <2>1. GoOn(r, "refresh", [h EXCEPT !.users = Tail(@)])
    BY <1>4 DEF Cached
  <2>2. pc'[r] = "refresh" /\ held'[r] = [h EXCEPT !.users = rest]
    BY <2>1, GoOnMoves DEF Caching
  <2>3. rest = <<users[2]>>
    BY <1>1, <1>4, FirstAndRest
  <2>4. OneOrTwo(rest)
    BY <2>3, SMTT(30) DEF OneOrTwo
  <2> HIDE DEF rest
  <2>5. held'[r] = next
    BY <1>1, <2>2
  <2>6. held'[r].users = rest /\ held'[r].then = h.then /\ held'[r].old = h.old /\ held'[r].row = h.row
    BY <2>5
  <2> HIDE DEF users, h, next
  <2>7. CachesAlone(r)'
    <3>1. held'[r] = [users |-> held'[r].users, row |-> held'[r].row, then |-> held'[r].then,
                      old |-> held'[r].old]
      BY <2>5, <2>6 DEF next
    <3> QED BY <1>2, <1>4, <2>2, <2>4, <2>6, <3>1 DEF CachesAlone
  <2> QED BY <1>0, <1>3, <2>2, <2>6, <2>7
          DEF h, AloneInv, RefreshAlone, PhotoAlone, EntityAlone, Caching
<1>5. CASE rest = <<>>
  <2>1. pc'[r] = h.then /\ held'[r] = h.old
    BY <1>5, GoOnMoves DEF Cached, Caching
  <2>2. ASSUME ~world.faulty, h.then \in {"done", "clean"}, r.op # "rfid", NEW u \in Names(r)
        PROVE  Current(u)'
    BY <1>2, <1>5, <2>2
  <2>3. CASE h.then = "done"
    <3>1. AloneInv(r)'
      BY <2>1, <2>3, PlainAlone DEF Plain, Caching
    <3> QED BY <2>1, <2>2, <2>3, <3>1
  <2>4. CASE h.then # "done"
    <3>1. r.op \in {"photo", "ownPicture"} /\ h.then \in {"find", "clean", "stored"}
      BY <1>0, <2>4 DEF Thens
    <3>2. CASE r.op = "ownPicture"
      <4>1. Plain(r)'
        BY <2>1, <3>1, <3>2 DEF Plain, Caching
      <4> QED BY <2>1, <3>1, <4>1, PlainAlone
    <3>3. CASE r.op = "photo"
      <4>1. h.old \in Shown(r.user) /\ (h.then = "clean" => Spares(r, h.old))
        BY <1>0, <3>3 DEF PhotoAlone
      <4>2. h.then = "clean" /\ ~world.faulty => Current(r.user)'
        BY <2>2, <3>3 DEF Names
      <4> HIDE DEF h
      <4> QED BY <1>0, <1>3, <2>1, <3>1, <3>3, <4>1, <4>2
              DEF AloneInv, RefreshAlone, PhotoAlone, EntityAlone, Caching
    <3> QED BY <3>1, <3>2, <3>3
  <2> QED BY <2>3, <2>4
<1> QED BY <1>4, <1>5

LEMMA NamedUsers ==
  ASSUME ReqInv, NEW r \in world.calls, r.op \in PeopleOps PROVE r.user \in Users /\ Names(r) \subseteq Users
<1>1. r.user \in Users /\ (r.op = "link" => r.father \in Users)
  BY PeopleWorldsAssumption DEF ReqInv, PeopleOps
<1> QED BY <1>1 DEF Names

\* Reading and storing what the tables say of a user leaves his cached details
\* so, and once it is done, those of all it names.
LEMMA FetchAlone ==
  ASSUME ReqInv, QueueInv, DetailsInv, NEW r \in world.calls, UNCHANGED world, world.serial,
         FetchDetails(r), Names(r) \subseteq Users
  PROVE  /\ DOMAIN details' = Users /\ AloneInv(r)' /\ \A u \in Users : UserDetails(u)'
         /\ UNCHANGED <<people, pupils>>
         /\ ~world.faulty /\ r.op # "rfid" /\ pc'[r] = "done" => \A u \in Names(r) : Current(u)'
<1> DEFINE h == held[r]
<1>0. PICK first : first = h.users[1]
  OBVIOUS
<1>1. pc[r] = "refresh" /\ pc[r] \in Caching /\ UNCHANGED <<people, pupils, details>>
  BY DEF FetchDetails, At, Caching, peopleVars, profileVars
<1>2. CachesAlone(r) /\ PhotoAlone(r) /\ EntityAlone(r) /\ RefreshAlone(r)
  BY <1>1 DEF DetailsInv, AloneInv, RefreshAlone
<1>3. OneOrTwo(h.users) /\ Head(h.users) = first
  BY <1>0, <1>2, FirstAndRest DEF CachesAlone
<1>4. \A u \in Users : UserDetails(u)'
  BY <1>1, SameUsers
<1>5. CASE Cached(r) /\ (~Known(first) \/ h.then \in {"find", "stored"})
  <2>1. h.then \in {"done", "clean"} => Current(first)'
    BY <1>1, <1>5 DEF Current, Known
  <2> QED BY <1>0, <1>1, <1>4, <1>5, <2>1, CachedAlone DEF DetailsInv
<1>6. CASE ~(Cached(r) /\ (~Known(first) \/ h.then \in {"find", "stored"}))
  <2>1. PICK row : row = Snapshot(first)
    OBVIOUS
  <2>2. Known(first) /\ GoOn(r, "cache", [h EXCEPT !.row = row])
    BY <1>3, <1>6, <2>1 DEF FetchDetails
  <2>3. pc'[r] = "cache" /\ held'[r] = [h EXCEPT !.row = row]
    BY <1>1, <2>2, GoOnMoves DEF Caching
  <2>4. h = [users |-> h.users, row |-> h.row, then |-> h.then, old |-> h.old]
    BY <1>2 DEF CachesAlone
  <2> DEFINE next == [users |-> h.users, row |-> row, then |-> h.then, old |-> h.old]
  <2>5. held'[r] = next
    BY <2>3, <2>4
  <2>6. held'[r].users = h.users /\ held'[r].row = row /\ held'[r].then = h.then /\ held'[r].old = h.old
    BY <2>5
  <2>7. held'[r] = [users |-> held'[r].users, row |-> held'[r].row, then |-> held'[r].then,
                    old |-> held'[r].old]
    BY <2>5, <2>6
  <2>8. Known(first)' /\ row = Snapshot(first)'
    BY <1>1, <2>1, <2>2 DEF Known, Snapshot, Pupil
  <2>9. ASSUME ~world.faulty, h.then \in {"done", "clean"}, r.op # "rfid", NEW u \in Names(r) \ Queued(h.users)
        PROVE  Current(u)'
    <3>1. Current(u)
      BY <1>2, <2>9 DEF CachesAlone
    <3> QED BY <1>1, <3>1 DEF Current, Known, Snapshot, Pupil
  <2>10. CachesAlone(r)'
    <3>1. h.users[1] = first /\ held'[r].users[1] = first
      BY <1>0, <2>6
    <3> HIDE DEF h, next
    <3> QED BY <1>3, <2>6, <2>7, <2>8, <2>9, <3>1 DEF CachesAlone
  <2>11. UNCHANGED Shown(r.user) /\ UNCHANGED FilesOf(r.user)
    BY SameFiles
  <2>12. UNCHANGED Known(r.user) /\ \A old : Spares(r, old)' <=> Spares(r, old)
    BY <1>1, <2>11 DEF Spares, Known
  <2>13. AloneInv(r)'
    <3>1. CASE r.op = "photo"
      <4>1. h.old \in Shown(r.user) /\ (h.then = "clean" => Spares(r, h.old))
        BY <1>1, <1>2, <3>1 DEF PhotoAlone
      <4> HIDE DEF h
      <4> QED BY <2>3, <2>6, <2>10, <2>11, <2>12, <3>1, <4>1
              DEF AloneInv, RefreshAlone, PhotoAlone, EntityAlone, Caching
    <3>2. CASE r.op # "photo"
      BY <1>1, <1>2, <2>3, <2>10, <2>12, <3>2 DEF AloneInv, RefreshAlone, PhotoAlone, EntityAlone, Caching
    <3> QED BY <3>1, <3>2
  <2> QED BY <1>1, <1>4, <2>3, <2>13 DEF DetailsInv
<1> QED BY <1>5, <1>6

LEMMA StoreAlone ==
  ASSUME ReqInv, QueueInv, DetailsInv, NEW r \in world.calls, UNCHANGED world, world.serial,
         StoreDetails(r), Names(r) \subseteq Users
  PROVE  /\ DOMAIN details' = Users /\ AloneInv(r)' /\ \A u \in Users : UserDetails(u)'
         /\ UNCHANGED <<people, pupils>>
         /\ ~world.faulty /\ r.op # "rfid" /\ pc'[r] = "done" => \A u \in Names(r) : Current(u)'
<1>0. PICK first, row : first = held[r].users[1] /\ row = held[r].row
  OBVIOUS
<1>1. pc[r] = "cache" /\ pc[r] \in Caching /\ Cached(r) /\ UNCHANGED <<people, pupils>>
  BY DEF StoreDetails, At, Caching
<1>2. CachesAlone(r)
  BY <1>1 DEF DetailsInv, AloneInv, RefreshAlone
<1>3. /\ Head(held[r].users) = first /\ Known(first) /\ row = Snapshot(first)
  BY <1>0, <1>1, <1>2, FirstAndRest DEF CachesAlone
<1>4. details' = [details EXCEPT ![first] = row] \/ (world.faulty /\ UNCHANGED details)
  BY <1>0, <1>3 DEF StoreDetails, Refreshed
<1>5. /\ DOMAIN details' = Users
      /\ \A u \in Users : u # first => details'[u] = details[u]
      /\ first \in Users => details'[first] \in {row, details[first]}
      /\ ~world.faulty /\ first \in Users => details'[first] = row
  BY <1>4 DEF DetailsInv
<1>6. ~world.faulty /\ first \in Users => Current(first)'
  <2>1. row = Snapshot(first)'
    BY <1>1, <1>3 DEF Snapshot, Pupil
  <2> QED BY <1>5, <2>1 DEF Current
<1>7. ASSUME NEW u \in Users PROVE UserDetails(u)'
  <2>1. CASE details'[u] = details[u]
    BY <1>1, <2>1, SameUsers
  <2>2. CASE u = first /\ details'[u] = row
    <3>1. UserDetails(u) /\ UNCHANGED Shown(u)
      BY SameFiles DEF DetailsInv
    <3>2. row.image = people[u].image
      BY <1>3, <2>2 DEF Snapshot
    <3> QED BY <1>1, <1>3, <2>2, <3>1, <3>2 DEF UserDetails, Known
  <2> QED BY <1>5, <2>1, <2>2
<1>8. /\ AloneInv(r)'
      /\ ~world.faulty /\ r.op # "rfid" /\ pc'[r] = "done" => \A u \in Names(r) : Current(u)'
  BY <1>0, <1>1, <1>5, <1>6, CachedAlone
<1> QED BY <1>1, <1>5, <1>7, <1>8

\* What has to be shown of a step.
DetailsRight(r) == DOMAIN details = Users /\ AloneInv(r) /\ \A u \in Users : UserDetails(u)

\* A step to somewhere else than a refresh, by a call that remembers nothing.
PlainSteps == {"done", "profiles", "commit", "write", "find", "parent", "pupil"}

LEMMA PlainRight ==
  ASSUME ReqInv, QueueInv, DetailsInv, NEW r \in world.calls, UNCHANGED world, world.serial,
         \/ InsertUser(r) \/ InsertProfiles(r) \/ FindCardHolder(r) \/ CheckStored(r) \/ DeleteOld(r)
         \/ CheckLink(r) \/ FindParent(r) \/ RemovePupil(r) \/ LinkByPhone(r) \/ RemoveParent(r)
  PROVE  DetailsRight(r)' /\ UNCHANGED people
<1>1. UNCHANGED <<people, details>>
  BY DEF InsertUser, InsertProfiles, FindCardHolder, CheckStored, DeleteOld, CheckLink, FindParent,
         RemovePupil, LinkByPhone, RemoveParent, peopleVars, profileVars
<1>2. /\ r.op \in PeopleOps \ {"photo", "pupilPhoto", "switch", "rejectPhoto", "userRemove"} \/ DeleteOld(r)
      /\ pc[r] # "done" /\ (world.serial /\ pc[r] = "start" => Quiet)
      /\ \E step \in PlainSteps : \E value : GoOn(r, step, value)
      /\ DeleteOld(r) => End(r)
  BY DEF InsertUser, InsertProfiles, FindCardHolder, CheckStored, DeleteOld, CheckLink, FindParent,
         RemovePupil, LinkByPhone, RemoveParent, At, End, PeopleOps, UserOps, ProfileOps, PlainSteps
<1>3. Plain(r)'
  BY <1>2, GoOnMoves DEF Plain, PlainSteps, Caching, End
<1> QED BY <1>1, <1>3, PlainAlone, SameUsers DEF DetailsRight, DetailsInv

\* A call that deletes or forgets, and what it needs for that.
LEMMA RemovalRight ==
  ASSUME ReqInv, QueueInv, DetailsInv, NEW r \in world.calls, UNCHANGED world, world.serial,
         Forget(r) \/ FindUser(r), r.user \in Users
  PROVE  DetailsRight(r)' /\ UNCHANGED people
<1>1. CASE Forget(r)
  <2>1. At(r, "userRemove", "start") /\ GoOn(r, "find", NoRow) /\ UNCHANGED people
    BY <1>1 DEF Forget
  <2>2. r.op = "userRemove" /\ pc'[r] = "find"
    BY <2>1, AtMoves
  <2>3. /\ DOMAIN details' = Users /\ (~world.faulty => details'[r.user] = NoRow)
        /\ \A u \in Users : details'[u] = details[u] \/ details'[u] = NoRow
    BY <1>1 DEF Forget, DetailsInv
  <2>4. AloneInv(r)'
    BY <2>2, <2>3 DEF AloneInv, RefreshAlone, PhotoAlone, EntityAlone, Caching
  <2> QED BY <2>1, <2>3, <2>4, SameUsers DEF DetailsRight
<1>2. CASE FindUser(r)
  <2>1. UNCHANGED <<people, details>> /\ (GoOn(r, "write", NoRow) \/ GoOn(r, "done", NoRow))
    BY <1>2 DEF FindUser, End, peopleVars, profileVars
  <2>2. /\ r.op \in {"edit", "userRemove"} /\ pc'[r] \in {"write", "done"}
        /\ r.op = "userRemove" => pc[r] = "find"
    <3>1. CASE At(r, "edit", "start")
      BY <2>1, <3>1, AtMoves
    <3>2. CASE At(r, "userRemove", "find")
      BY <2>1, <3>2, AtMoves
    <3> QED BY <1>2, <3>1, <3>2 DEF FindUser
  <2>3. RefreshAlone(r)
    BY DEF DetailsInv, AloneInv
  <2>4. AloneInv(r)'
    BY <2>1, <2>2, <2>3 DEF AloneInv, RefreshAlone, PhotoAlone, EntityAlone, Caching
  <2> QED BY <2>1, <2>4, SameUsers DEF DetailsRight, DetailsInv
<1> QED BY <1>1, <1>2

LEMMA ShownFile ==
  ASSUME NEW u, NEW file \in Shown(u), file # NoRow PROVE file \in FilesOf(u) \ {NoRow}
BY DEF Shown

\* The calls that save an entity find, compare and delete while nobody else writes.
LEMMA FindEntityRight ==
  ASSUME ReqInv, PeopleInv, DetailsInv, NEW r \in world.calls, UNCHANGED world, world.serial,
         FindEntity(r), r.user \in Users
  PROVE  DetailsRight(r)' /\ UNCHANGED people
<1>0. UNCHANGED <<people, details>>
  BY DEF FindEntity, peopleVars, profileVars
<1>1. \A u \in Users : UserDetails(u)' /\ DOMAIN details' = Users
  BY <1>0, SameUsers DEF DetailsInv
<1>2. At(r, r.op, "start") /\ r.op \in {"switch", "rejectPhoto"}
  BY DEF FindEntity
<1>3. PICK row : row = people[r.user]
  OBVIOUS
<1>4. CASE ~Known(r.user)
  <2>1. GoOn(r, "done", NoRow)
    BY <1>2, <1>4 DEF FindEntity, End
  <2>2. Plain(r)'
    BY <1>2, <2>1, AtMoves DEF Plain, Caching
  <2> QED BY <1>0, <1>1, <2>2, PlainAlone DEF DetailsRight
<1>5. CASE Known(r.user) /\ r.op = "switch"
  <2>1. GoOn(r, "save", [row EXCEPT !.active = r.active])
    BY <1>3, <1>5 DEF FindEntity
  <2>2. pc'[r] = "save" /\ held'[r] = [row EXCEPT !.active = r.active]
    BY <1>2, <2>1, AtMoves
  <2>3. row \in PersonRows
    BY <1>3, <1>5 DEF PeopleInv, PeopleTypeOK, Known
  <2>4. held'[r].image = row.image
    BY <2>2, <2>3 DEF PersonRows
  <2>5. AloneInv(r)'
    BY <1>0, <1>3, <1>5, <2>2, <2>4 DEF AloneInv, RefreshAlone, PhotoAlone, EntityAlone, Caching, Known
  <2> QED BY <1>0, <1>1, <2>5 DEF DetailsRight
<1>6. CASE Known(r.user) /\ r.op = "rejectPhoto"
  <2> DEFINE to == IF row.image = NoRow THEN "save" ELSE "unlink"
             remembered == [entity |-> Selected(r.user), file |-> row.image]
  <2>1. GoOn(r, to, remembered)
    BY <1>3, <1>6 DEF FindEntity
  <2>2. pc'[r] = to /\ held'[r] = remembered
    <3> HIDE DEF to, remembered
    <3> QED BY <1>2, <2>1, AtMoves
  <2>3. row.image \in Shown(r.user) /\ UNCHANGED FilesOf(r.user)
    BY <1>3, <1>6, SameFiles DEF DetailsInv, UserDetails
  <2>4. pc'[r] = "unlink" => held'[r].file \in FilesOf(r.user)' \ {NoRow}
    BY <2>2, <2>3, ShownFile
  <2>5. pc'[r] \in {"unlink", "save"} /\ Known(r.user)'
    BY <1>0, <1>6, <2>2 DEF Known
  <2> HIDE DEF to, remembered
  <2>6. AloneInv(r)'
    BY <1>6, <2>4, <2>5 DEF AloneInv, RefreshAlone, PhotoAlone, EntityAlone, Caching
  <2> QED BY <1>0, <1>1, <2>6 DEF DetailsRight
<1> QED BY <1>2, <1>4, <1>5, <1>6

LEMMA CompareUserRight ==
  ASSUME ReqInv, PeopleInv, DetailsInv, NEW r \in world.calls, UNCHANGED world, world.serial,
         UnlinkPhoto(r) \/ CompareUser(r), r.user \in Users
  PROVE  DetailsRight(r)' /\ UNCHANGED people
<1>0. UNCHANGED <<people, details>>
  BY DEF UnlinkPhoto, CompareUser, peopleVars, profileVars
<1>1. (\A u \in Users : UserDetails(u)') /\ DOMAIN details' = Users /\ EntityAlone(r)
  BY <1>0, SameUsers DEF DetailsInv, AloneInv
<1>2. CASE UnlinkPhoto(r)
  <2>1. r.op = "rejectPhoto" /\ pc[r] = "unlink" /\ pc'[r] = "save"
    BY <1>2, AtMoves DEF UnlinkPhoto
  <2>2. Known(r.user)'
    BY <1>0, <1>1, <2>1 DEF EntityAlone, Known
  <2>3. AloneInv(r)'
    BY <2>1, <2>2 DEF AloneInv, RefreshAlone, PhotoAlone, EntityAlone, Caching
  <2> QED BY <1>0, <1>1, <2>3 DEF DetailsRight
<1>3. CASE CompareUser(r)
  <2>1. PICK row, entity : /\ row = people[r.user]
                           /\ entity = IF r.op = "switch" THEN held[r] ELSE held[r].entity
    OBVIOUS
  <2>2. At(r, r.op, "save") /\ GoOn(r, "write", Comparison(entity, row)) /\ r.op \in {"switch", "rejectPhoto"}
    BY <1>3, <2>1 DEF CompareUser
  <2> DEFINE dirty == [c \in Dirty(entity, row) |-> entity[c]]
  <2>3. pc[r] = "save" /\ pc'[r] = "write" /\ held'[r] = Comparison(entity, row)
    BY <2>2, AtMoves
  <2>4. Known(r.user) /\ row # NoRow
    BY <1>1, <2>1, <2>2, <2>3 DEF EntityAlone, Known
  <2>5. held'[r] = [found |-> TRUE, set |-> dirty]
    BY <2>3, <2>4 DEF Comparison
  <2>6. held'[r].found /\ held'[r].set = dirty
    BY <2>5
  <2>7. \A c \in DOMAIN dirty : c \in DOMAIN entity /\ dirty[c] = entity[c] /\ entity[c] # row[c]
    BY DEF Dirty
  <2>8. \A c \in DOMAIN entity \ DOMAIN dirty : entity[c] = row[c]
    BY DEF Dirty
  <2> HIDE DEF dirty
  <2>9. CASE r.op = "switch"
    <3>1. "image" \notin DOMAIN dirty
      BY <1>1, <2>1, <2>3, <2>7, <2>9 DEF EntityAlone
    <3> QED BY <1>0, <1>1, <2>3, <2>4, <2>6, <2>9, <3>1
            DEF DetailsRight, AloneInv, RefreshAlone, PhotoAlone, EntityAlone, Caching, Known
  <2>10. CASE r.op = "rejectPhoto"
    <3>1. entity = [image |-> NoRow]
      BY <2>1, <2>3, <2>10 DEF PeopleInv, PersonHeld
    <3>2. /\ "image" \in DOMAIN dirty => dirty["image"] = NoRow
          /\ "image" \notin DOMAIN dirty => row["image"] = NoRow
      BY <2>7, <2>8, <3>1
    <3>3. "image" \notin DOMAIN dirty => people'[r.user].image = NoRow
      BY <1>0, <2>1, <3>2
    <3>4. Known(r.user)'
      BY <1>0, <2>4 DEF Known
    <3>5. AloneInv(r)'
      BY <2>3, <2>6, <2>10, <3>2, <3>3, <3>4 DEF AloneInv, RefreshAlone, PhotoAlone, EntityAlone, Caching
    <3> QED BY <1>0, <1>1, <3>5 DEF DetailsRight
  <2> QED BY <2>2, <2>9, <2>10
<1> QED BY <1>2, <1>3

\* Whoever looks for a user's photo, cached or not, finds one of his.
LEMMA FindShownRight ==
  ASSUME ReqInv, DetailsInv, NEW r \in world.calls, UNCHANGED world, world.serial,
         FindShown(r), r.user \in Users
  PROVE  DetailsRight(r)' /\ UNCHANGED people
<1>0. /\ UNCHANGED people /\ r.op \in {"photo", "ownPicture"} /\ At(r, r.op, "start")
      /\ UserDetails(r.user) /\ UNCHANGED Shown(r.user)
  BY SameFiles DEF FindShown, DetailsInv
<1>1. PICK then : then = IF r.op = "photo" THEN "find" ELSE "stored"
  OBVIOUS
<1>2. UNCHANGED details \/ details' = [details EXCEPT ![r.user] = NoRow]
  BY DEF FindShown
<1>3. DOMAIN details' = Users /\ \A u \in Users : UserDetails(u)'
  <2>1. DOMAIN details' = Users /\ \A u \in Users : details'[u] = details[u] \/ details'[u] = NoRow
    BY <1>2 DEF DetailsInv
  <2> QED BY <1>0, <2>1, SameUsers
<1>4. CASE details[r.user] # NoRow /\ GoOn(r, then, details[r.user].image)
  <2>1. pc'[r] = then /\ held'[r] \in Shown(r.user)
    BY <1>0, <1>4, AtMoves DEF UserDetails
  <2>2. AloneInv(r)'
    BY <1>0, <1>1, <2>1 DEF AloneInv, RefreshAlone, PhotoAlone, EntityAlone, Caching
  <2> QED BY <1>0, <1>3, <2>2 DEF DetailsRight
<1>5. CASE Known(r.user) /\ Cache(r, <<r.user>>, then, people[r.user].image)
  <2>1. PICK old : old = people[r.user].image
    OBVIOUS
  <2>2. old \in Shown(r.user)'
    BY <1>0, <1>5, <2>1 DEF UserDetails
  <2> DEFINE users == <<r.user>>
             next == [users |-> users, row |-> NoRow, then |-> then, old |-> old]
  <2>3. GoOn(r, "refresh", next)
    BY <1>5, <2>1 DEF Cache
  <2>4. pc'[r] = "refresh" /\ held'[r] = next
    <3> HIDE DEF next
    <3> QED BY <1>0, <2>3, AtMoves
  <2>5. OneOrTwo(users)
    BY DEF OneOrTwo
  <2> HIDE DEF users
  <2>6. AloneInv(r)'
    BY <1>0, <1>1, <2>2, <2>4, <2>5, CacheAlone
  <2> QED BY <1>0, <1>3, <2>6 DEF DetailsRight
<1>6. CASE End(r)
  <2>1. Plain(r)'
    BY <1>0, <1>6, AtMoves DEF End, Plain, Caching
  <2> QED BY <1>0, <1>3, <2>1, PlainAlone DEF DetailsRight
<1> QED BY <1>1, <1>4, <1>5, <1>6 DEF FindShown

LEMMA FindPictureRight ==
  ASSUME ReqInv, PeopleInv, DetailsInv, NEW r \in world.calls, UNCHANGED world, world.serial,
         FindPictured(r) \/ FindPupil(r) \/ EraseImage(r), r.user \in Users
  PROVE  DetailsRight(r)' /\ UNCHANGED people
<1>0. /\ UNCHANGED <<people, details>> /\ UserDetails(r.user)
      /\ UNCHANGED Shown(r.user) /\ UNCHANGED FilesOf(r.user)
  BY SameFiles DEF FindPictured, FindPupil, EraseImage, DetailsInv, peopleVars, profileVars
<1>1. DOMAIN details' = Users /\ \A u \in Users : UserDetails(u)'
  BY <1>0, SameUsers DEF DetailsInv
<1>2. CASE FindPictured(r)
  <2>1. /\ (pc[r] = "find" /\ r.op \in {"photo", "ownPicture"}) \/ (pc[r] = "start" /\ r.op = "picture")
        /\ world.serial /\ pc[r] = "start" => Quiet
        /\ GoOn(r, "write", held[r]) \/ GoOn(r, "done", NoRow)
    BY <1>2 DEF FindPictured, At, End
  <2>2. pc'[r] = "done" \/ (pc'[r] = "write" /\ held'[r] = held[r])
    BY <2>1, GoOnMoves
  <2>3. r.op = "photo" => held[r] \in Shown(r.user)
    BY <2>1 DEF DetailsInv, AloneInv, PhotoAlone
  <2>4. AloneInv(r)'
    BY <1>0, <2>1, <2>2, <2>3 DEF AloneInv, RefreshAlone, PhotoAlone, EntityAlone, Caching
  <2> QED BY <1>0, <1>1, <2>4 DEF DetailsRight
<1>3. CASE FindPupil(r)
  <2>0. PICK old : old = people[r.user].image
    OBVIOUS
  <2>1. /\ At(r, r.op, "start")
        /\ r.op \in {"pupilEdit", "pupilOff", "pupilRemove", "pupilPhoto", "unlink"}
        /\ \E step \in {"done", "write", "erase"} : \E value :
             /\ GoOn(r, step, value)
             /\ step = "erase" => r.op = "pupilPhoto" /\ Pupil(r.user) /\ value = old /\ old # NoRow
    BY <1>3, <2>0 DEF FindPupil, End
  <2>2. /\ pc'[r] \in {"done", "write", "erase"}
        /\ pc'[r] = "erase" => Pupil(r.user) /\ held'[r] = old /\ old # NoRow
    BY <2>1, AtMoves
  <2>3. Pupil(r.user) => old \in Shown(r.user)
    BY <1>0, <2>0 DEF UserDetails, PeopleInv, PeopleTypeOK
  <2>4. pc'[r] = "erase" => held'[r] \in FilesOf(r.user) \ {NoRow}
    BY <2>2, <2>3, ShownFile
  <2>5. AloneInv(r)'
    BY <1>0, <2>1, <2>2, <2>4 DEF AloneInv, RefreshAlone, PhotoAlone, EntityAlone, Caching
  <2> QED BY <1>0, <1>1, <2>5 DEF DetailsRight
<1>4. CASE EraseImage(r)
  <2>1. r.op = "pupilPhoto" /\ pc'[r] = "write"
    BY <1>4, AtMoves DEF EraseImage
  <2>2. AloneInv(r)'
    BY <2>1 DEF AloneInv, RefreshAlone, PhotoAlone, EntityAlone, Caching
  <2> QED BY <1>0, <1>1, <2>2 DEF DetailsRight
<1> QED BY <1>2, <1>3, <1>4

\* The pictures a call brings are its user's.
LEMMA OwnPictures ==
  ASSUME NEW r \in world.calls, r.op \in PeopleOps
  PROVE  /\ r.op \in {"register", "photo", "picture", "ownPicture", "pupilPhoto"} => r.image \in Shown(r.user)
         /\ r.op \in {"edit", "pupilEdit", "pupilOff", "parentEdit"} /\ "image" \in DOMAIN r.set
              => r.set.image \in Shown(r.user)
<1>1. Pictures(r) \subseteq Shown(r.user)
  <2> DEFINE his == {q \in world.calls : q.op \in UserOps \cup ProfileOps /\ q.user = r.user}
  <2>1. r \in his
    BY DEF PeopleOps
  <2>2. \A x \in Pictures(r) : x \in UNION {Pictures(q) : q \in his}
    BY <2>1
  <2> QED BY <2>2 DEF Shown, FilesOf
<1>2. r.op \in {"register", "photo", "picture", "ownPicture", "pupilPhoto"} => r.image \in Pictures(r)
  BY DEF Pictures
<1>3. ASSUME r.op \in {"edit", "pupilEdit", "pupilOff", "parentEdit"}, "image" \in DOMAIN r.set
      PROVE  r.set["image"] \in Pictures(r)
  <2>1. Pictures(r) = {r.set[c] : c \in {"image"} \cap DOMAIN r.set}
    BY <1>3 DEF Pictures
  <2> QED BY <1>3, <2>1
<1> QED BY <1>1, <1>2, <1>3

\* A write leaves cached details alone; it is about rows that are there.
LEMMA WrittenRight ==
  ASSUME DetailsInv, UNCHANGED <<world, details>>, world.serial,
         \A u \in Users : Known(u) => Known(u)' \/ world.faulty \/ details[u] = NoRow,
         \A u \in Users : people'[u] # NoRow => people'[u] = people[u] \/ people'[u].image \in Shown(u)
  PROVE  DOMAIN details' = Users /\ \A u \in Users : UserDetails(u)'
<1>1. ASSUME NEW u \in Users PROVE UserDetails(u)'
  <2>1. UserDetails(u) /\ UNCHANGED Shown(u)
    BY SameFiles DEF DetailsInv
  <2>2. Known(u)' => people'[u].image \in Shown(u)
    BY <2>1 DEF UserDetails, Known
  <2> QED BY <2>1, <2>2 DEF UserDetails
<1> QED BY <1>1 DEF DetailsInv

LEMMA UpdatedRight ==
  ASSUME PeopleInv, DetailsInv, UNCHANGED <<world, details>>, world.serial, NEW u \in Users, NEW columns,
         UpdateUser(u, columns), Fits(columns, PersonRows), "image" \in DOMAIN columns => columns.image \in Shown(u)
  PROVE  /\ DOMAIN details' = Users /\ \A v \in Users : UserDetails(v)'
         /\ "image" \in DOMAIN columns /\ Known(u)' => people'[u].image = columns.image
<1>0. people \in [Users -> PersonRows \cup {NoRow}] /\ NoRow \notin PersonRows
  BY PeopleWorldsAssumption DEF PeopleInv, PeopleTypeOK
<1>1. CASE ~Known(u)
  <2>1. UNCHANGED people
    BY <1>1 DEF UpdateUser
  <2>2. ~Known(u)'
    BY <1>1, <2>1 DEF Known
  <2> QED BY <2>1, <2>2, WrittenRight DEF Known
<1>2. CASE Known(u)
  <2> DEFINE row == columns ++ people[u]
  <2>1. people' = [people EXCEPT ![u] = row]
    BY <1>2 DEF UpdateUser
  <2>2. row.image = IF "image" \in DOMAIN columns THEN columns.image ELSE people[u].image
    BY <1>0, <1>2 DEF ++, PersonRows, Known
  <2>3. people[u].image \in Shown(u)
    BY <1>2 DEF DetailsInv, UserDetails
  <2>4. row # NoRow
    <3>1. row \in PersonRows
      BY <1>0, <1>2 DEF Fits, Known
    <3> HIDE DEF row
    <3> QED BY <1>0, <3>1
  <2> HIDE DEF row
  <2> QED BY <1>0, <2>1, <2>2, <2>3, <2>4, WrittenRight DEF Known
<1> QED BY <1>1, <1>2

\* The calls that write and are over.
LEMMA WrittenOver ==
  ASSUME ReqInv, PeopleInv, DetailsInv, NEW r \in world.calls, UNCHANGED world, world.serial,
         Register(r) \/ UpdatePupilImage(r) \/ WriteParent(r) \/ RemoveUser(r), r.user \in Users
  PROVE  DetailsRight(r)'
<1>0. people \in [Users -> PersonRows \cup {NoRow}] /\ NoRow \notin PersonRows
  BY PeopleWorldsAssumption DEF PeopleInv, PeopleTypeOK
<1>1. /\ UNCHANGED details /\ r.op \in PeopleOps
      /\ pc[r] # "done" /\ pc[r] # "start" /\ GoOn(r, "done", NoRow)
  BY DEF Register, UpdatePupilImage, WriteParent, RemoveUser, At, End, PeopleOps, UserOps, ProfileOps,
         profileVars
<1>2. AloneInv(r)'
  <2>1. pc'[r] = "done"
    BY <1>1, GoOnMoves
  <2> QED BY <2>1, PlainAlone DEF Plain, Caching
<1>3. CASE Register(r)
  <2>1. r.op = "register" /\ r.image \in Shown(r.user)
    BY <1>1, <1>3, OwnPictures DEF Register, At
  <2> DEFINE row == [active |-> r.active, image |-> r.image, card |-> NoRow]
  <2>2. people' = [people EXCEPT ![r.user] = row] \/ UNCHANGED people
    BY <1>3 DEF Register
  <2>3. row \in PersonRows /\ row.image = r.image
    <3>1. r.active \in BOOLEAN /\ r.image \in Values /\ NoRow \in Values
      BY <2>1, PeopleWorldsAssumption DEF ReqInv
    <3> QED BY <3>1 DEF PersonRows
  <2> HIDE DEF row
  <2>4. /\ \A u \in Users : Known(u) => Known(u)'
        /\ \A u \in Users : people'[u] = people[u] \/ people'[u].image \in Shown(u)
    BY <1>0, <2>1, <2>2, <2>3 DEF Known
  <2> QED BY <1>1, <1>2, <2>4, WrittenRight DEF DetailsRight
<1>4. CASE UpdatePupilImage(r)
  <2> DEFINE columns == [image |-> r.image]
  <2>1. r.op = "pupilPhoto" /\ UpdateUser(r.user, columns)
    BY <1>4 DEF UpdatePupilImage, At
  <2>2. columns.image \in Shown(r.user) /\ Fits(columns, PersonRows)
    BY <1>1, <2>1, OwnPictures, ValueFits, PeopleWorldsAssumption DEF ReqInv
  <2> HIDE DEF columns
  <2> QED BY <1>1, <1>2, <2>1, <2>2, UpdatedRight DEF DetailsRight
<1>5. CASE WriteParent(r)
  <2>1. r.op = "parentEdit" /\ UpdateUser(r.user, r.set)
    BY <1>5 DEF WriteParent, At
  <2>2. Fits(r.set, PersonRows)
    BY <2>1, PeopleWorldsAssumption DEF ReqInv
  <2> QED BY <1>1, <1>2, <2>1, <2>2, UpdatedRight, OwnPictures DEF DetailsRight
<1>6. CASE RemoveUser(r)
  <2>1. r.op = "userRemove" /\ pc[r] = "write" /\ people' = [people EXCEPT ![r.user] = NoRow]
    BY <1>6 DEF RemoveUser, At
  <2>2. ~world.faulty => details[r.user] = NoRow
    BY <2>1 DEF DetailsInv, AloneInv, RefreshAlone
  <2>3. \A u \in Users : IF u = r.user THEN people'[u] = NoRow ELSE people'[u] = people[u]
    BY <1>0, <2>1
  <2> QED BY <1>1, <1>2, <2>2, <2>3, WrittenRight DEF DetailsRight, Known
<1> QED BY <1>3, <1>4, <1>5, <1>6

\* And those which refresh then.
LEMMA BeginsRefresh ==
  ASSUME ReqInv, NEW r \in world.calls, pc[r] # "done", world.serial /\ pc[r] = "start" => Quiet,
         NEW users, OneOrTwo(users), Names(r) \subseteq Queued(users) \/ r.op = "rfid",
         r.op # "photo", Cache(r, users, "done", NoRow),
         r.op = "rejectPhoto" /\ Known(r.user)' => people'[r.user].image = NoRow
  PROVE  AloneInv(r)'
<1> DEFINE next == [users |-> users, row |-> NoRow, then |-> "done", old |-> NoRow]
<1>1. GoOn(r, "refresh", next)
  BY DEF Cache
<1>2. pc'[r] = "refresh" /\ held'[r] = next
  <2> HIDE DEF next
  <2> QED BY <1>1, GoOnMoves
<1> QED BY <1>2, CacheAlone

LEMMA Queues == ASSUME NEW u, NEW v
                PROVE  /\ OneOrTwo(<<u>>) /\ Queued(<<u>>) = {u}
                       /\ OneOrTwo(<<u, v>>) /\ Queued(<<u, v>>) = {u, v}
BY DEF OneOrTwo, Queued

LEMMA OverAlone ==
  ASSUME ReqInv, NEW r \in world.calls, pc[r] # "done", world.serial /\ pc[r] = "start" => Quiet, End(r)
  PROVE  AloneInv(r)'
<1>1. pc'[r] = "done"
  BY GoOnMoves DEF End
<1> QED BY <1>1, PlainAlone DEF Plain, Caching

LEMMA WrittenOn ==
  ASSUME ReqInv, PeopleInv, DetailsInv, NEW r \in world.calls, UNCHANGED world, world.serial,
         EditUser(r) \/ RegisterRfid(r) \/ WritePupil(r) \/ Link(r) \/ Unlink(r), r.user \in Users
  PROVE  DetailsRight(r)'
<1>1. /\ UNCHANGED details /\ r.op \in PeopleOps \ {"photo", "rejectPhoto"}
      /\ pc[r] # "done" /\ (world.serial /\ pc[r] = "start" => Quiet)
  BY DEF EditUser, RegisterRfid, WritePupil, Link, Unlink, At, PeopleOps, UserOps, ProfileOps, profileVars
<1>2. AloneInv(r)'
  <2>1. CASE End(r)
    BY <1>1, <2>1, OverAlone
  <2>2. CASE r.op = "rfid" /\ Cache(r, <<r.by>>, "done", NoRow)
    <3>1. PICK u, users : users = <<u>> /\ u = r.by
      OBVIOUS
    <3> QED BY <1>1, <2>2, <3>1, BeginsRefresh, Queues
  <2>3. CASE r.op # "link" /\ Cache(r, <<r.user>>, "done", NoRow)
    <3>1. PICK users : users = <<r.user>>
      OBVIOUS
    <3>2. Names(r) \subseteq Queued(users) /\ OneOrTwo(users)
      BY <2>3, <3>1, Queues DEF Names
    <3> QED BY <1>1, <2>3, <3>1, <3>2, BeginsRefresh
  <2>4. CASE \E v : /\ Cache(r, <<r.user, v>>, "done", NoRow)
                    /\ r.op = "link" => v = r.father
    <3>1. PICK v, users : /\ users = <<r.user, v>> /\ Cache(r, users, "done", NoRow)
                          /\ r.op = "link" => v = r.father
      BY <2>4
    <3>2. Queued(users) = {r.user, v} /\ OneOrTwo(users)
      BY <3>1, Queues
    <3>3. Names(r) \subseteq Queued(users)
      BY <3>1, <3>2 DEF Names
    <3> QED BY <1>1, <3>1, <3>2, <3>3, BeginsRefresh
  <2>5. CASE EditUser(r)
    BY <2>4, <2>5 DEF EditUser, At
  <2>6. CASE RegisterRfid(r)
    BY <2>1, <2>2, <2>6 DEF RegisterRfid, At
  <2>7. CASE WritePupil(r)
    BY <2>1, <2>3, <2>7 DEF WritePupil, At
  <2>8. CASE Link(r)
    BY <2>1, <2>4, <2>8 DEF Link, At
  <2>9. CASE Unlink(r)
    BY <2>3, <2>4, <2>9 DEF Unlink, At
  <2> QED BY <2>5, <2>6, <2>7, <2>8, <2>9
<1>3. \/ UNCHANGED people
      \/ r.op \in {"edit", "pupilEdit", "pupilOff"} /\ UpdateUser(r.user, r.set)
      \/ r.op = "rfid" /\ UpdateUser(r.user, [card |-> r.card])
  BY DEF EditUser, RegisterRfid, WritePupil, Link, Unlink, At
<1>4. CASE UNCHANGED people
  BY <1>1, <1>2, <1>4, WrittenRight DEF DetailsRight, Known
<1>5. CASE r.op \in {"edit", "pupilEdit", "pupilOff"} /\ UpdateUser(r.user, r.set)
  <2>1. Fits(r.set, PersonRows)
    BY <1>5, PeopleWorldsAssumption DEF ReqInv
  <2> QED BY <1>1, <1>2, <1>5, <2>1, UpdatedRight, OwnPictures DEF DetailsRight
<1>6. CASE r.op = "rfid" /\ UpdateUser(r.user, [card |-> r.card])
  <2> DEFINE columns == [card |-> r.card]
  <2>1. Fits(columns, PersonRows) /\ "image" \notin DOMAIN columns
    BY <1>6, ValueFits, PeopleWorldsAssumption DEF ReqInv
  <2>2. UpdateUser(r.user, columns)
    BY <1>6
  <2> HIDE DEF columns
  <2> QED BY <1>1, <1>2, <2>1, <2>2, UpdatedRight DEF DetailsRight
<1> QED BY <1>3, <1>4, <1>5, <1>6

\* A rejection leaves no image, and it is not refused.
LEMMA WriteUserRight ==
  ASSUME ReqInv, PeopleInv, DetailsInv, NEW r \in world.calls, UNCHANGED world, world.serial,
         WriteUser(r), r.user \in Users
  PROVE  /\ DetailsRight(r)'
         /\ r.op = "rejectPhoto" => pc'[r] = "refresh"
<1>1. /\ UNCHANGED details /\ r.op \in {"switch", "rejectPhoto"} /\ pc[r] = "write"
      /\ EntityAlone(r) /\ PersonHeld(r)
  BY DEF WriteUser, At, profileVars, DetailsInv, AloneInv, PeopleInv
<1>2. Known(r.user) /\ held[r].found
  BY <1>1 DEF EntityAlone
<1>3. CASE Refused(r)
  <2>1. End(r) /\ UNCHANGED people
    BY <1>3 DEF WriteUser
  <2>2. AloneInv(r)'
    BY <1>1, <2>1, OverAlone
  <2>3. r.op # "rejectPhoto"
    BY <1>1, <1>2, <1>3 DEF Refused, KeyTaken, PersonHeld
  <2> QED BY <1>1, <2>1, <2>2, <2>3, WrittenRight DEF DetailsRight, Known
<1>4. CASE ~Refused(r)
  <2>0. people \in [Users -> PersonRows \cup {NoRow}] /\ NoRow \notin PersonRows
    BY PeopleWorldsAssumption DEF PeopleInv, PeopleTypeOK
  <2>1. PICK set, row, new : /\ set = held[r].set /\ row = people[r.user] /\ new = set ++ row
    OBVIOUS
  <2>2. people' = [people EXCEPT ![r.user] = new]
    BY <1>2, <1>4, <2>1 DEF WriteUser, Saved, Known
  <2>3. Fits(set, PersonRows) /\ row \in PersonRows /\ new \in PersonRows
    BY <1>1, <1>2, <2>0, <2>1 DEF PersonHeld, Fits, Known
  <2>4. new.image = IF "image" \in DOMAIN set THEN set.image ELSE row.image
    BY <2>1, <2>3 DEF ++, PersonRows
  <2>5. /\ row.image \in Shown(r.user)
        /\ r.op = "switch" => new.image = row.image
        /\ r.op = "rejectPhoto" => new.image = NoRow
    BY <1>1, <1>2, <2>1, <2>4 DEF EntityAlone, DetailsInv, UserDetails
  <2>6. new.image \in Shown(r.user)
    BY <1>1, <2>5 DEF Shown
  <2>7. people'[r.user] = new /\ \A u \in Users : u # r.user => people'[u] = people[u]
    BY <2>0, <2>2
  <2>8. DOMAIN details' = Users /\ \A u \in Users : UserDetails(u)'
    BY <1>1, <2>0, <2>3, <2>6, <2>7, WrittenRight DEF Known
  <2>9. PICK users : /\ users = <<r.user, r.user>> \/ users = <<r.user>>
                     /\ Cache(r, users, "done", NoRow)
    BY <1>4 DEF WriteUser
  <2>10. OneOrTwo(users) /\ Names(r) \subseteq Queued(users)
    <3>1. OneOrTwo(users) /\ Queued(users) = {r.user}
      <4>1. CASE users = <<r.user>>
        BY <4>1, Queues
      <4>2. CASE users = <<r.user, r.user>>
        <5>1. OneOrTwo(users) /\ Queued(users) = {r.user, r.user}
          BY <4>2, Queues
        <5> QED BY <5>1
      <4> QED BY <2>9, <4>1, <4>2
    <3> QED BY <1>1, <3>1 DEF Names
  <2>11. AloneInv(r)'
    BY <1>1, <2>5, <2>7, <2>9, <2>10, BeginsRefresh
  <2>12. pc'[r] = "refresh"
    BY <1>1, <2>9, GoOnMoves DEF Cache
  <2> QED BY <2>8, <2>11, <2>12 DEF DetailsRight
<1> QED BY <1>3, <1>4

\* The old photo is to be deleted if it is not the new one.
LEMMA UpdateImageRight ==
  ASSUME ReqInv, PeopleInv, DetailsInv, NEW r \in world.calls, UNCHANGED world, world.serial,
         UpdateImageUrl(r), r.user \in Users
  PROVE  DetailsRight(r)'
<1>1. /\ UNCHANGED details /\ r.op \in {"photo", "picture", "ownPicture"} /\ pc[r] = "write"
      /\ r.op \in PeopleOps
  BY DEF UpdateImageUrl, At, profileVars, PeopleOps, UserOps
<1> DEFINE columns == [image |-> r.image]
<1>2. UpdateUser(r.user, columns)
  BY DEF UpdateImageUrl
<1>3. columns.image = r.image /\ r.image \in Shown(r.user) /\ Fits(columns, PersonRows) /\ "image" \in DOMAIN columns
  BY <1>1, OwnPictures, ValueFits, PeopleWorldsAssumption DEF ReqInv
<1> HIDE DEF columns
<1>4. /\ DOMAIN details' = Users /\ \A v \in Users : UserDetails(v)'
      /\ Known(r.user)' => people'[r.user].image = r.image
  BY <1>1, <1>2, <1>3, UpdatedRight
<1>5. AloneInv(r)'
  <2>1. CASE r.op = "ownPicture"
    <3>1. End(r)
      BY <2>1 DEF UpdateImageUrl
    <3> QED BY <1>1, <3>1, OverAlone
  <2>2. CASE r.op = "picture"
    <3>1. PICK users : users = <<r.user>> /\ Cache(r, users, "done", NoRow)
      BY <2>2 DEF UpdateImageUrl
    <3>2. OneOrTwo(users) /\ Names(r) \subseteq Queued(users)
      BY <2>2, <3>1, Queues DEF Names
    <3> QED BY <1>1, <2>2, <3>1, <3>2, BeginsRefresh
  <2>3. CASE r.op = "photo"
    <3>1. PICK users, then, old : /\ users = <<r.user>> /\ old = held[r]
                                  /\ then = IF Replaced(r, old) THEN "clean" ELSE "done"
                                  /\ Cache(r, users, then, old)
      BY <2>3 DEF UpdateImageUrl
    <3>2. OneOrTwo(users) /\ Names(r) \subseteq Queued(users)
      BY <2>3, <3>1, Queues DEF Names
    <3>3. old \in Shown(r.user) /\ UNCHANGED Shown(r.user) /\ UNCHANGED FilesOf(r.user)
      BY <1>1, <2>3, <3>1, SameFiles DEF DetailsInv, AloneInv, PhotoAlone
    <3>4. then = "clean" => Spares(r, old)'
      BY <1>4, <3>1, <3>3, ShownFile DEF Spares, Replaced
    <3> DEFINE next == [users |-> users, row |-> NoRow, then |-> then, old |-> old]
    <3>5. GoOn(r, "refresh", next)
      BY <3>1 DEF Cache
    <3>6. pc'[r] = "refresh" /\ held'[r] = next
      <4> HIDE DEF next
      <4> QED BY <1>1, <3>5, GoOnMoves
    <3> QED BY <2>3, <3>2, <3>3, <3>4, <3>6, CacheAlone
  <2> QED BY <1>1, <2>1, <2>2, <2>3
<1> QED BY <1>4, <1>5 DEF DetailsRight

\* Whatever the call, its user is one of the users, and its steps are right.
LEMMA PeopleRight ==
  ASSUME ReqInv, QueueInv, PeopleInv, DetailsInv, NEW r \in world.calls, r.op \in PeopleOps,
         UNCHANGED world, world.serial, PeopleStep(r)
  PROVE  DetailsRight(r)'
<1>1. r.user \in Users /\ Names(r) \subseteq Users
  BY NamedUsers
<1>2. CASE FetchDetails(r)
  BY <1>1, <1>2, FetchAlone DEF DetailsRight
<1>3. CASE StoreDetails(r)
  BY <1>1, <1>3, StoreAlone DEF DetailsRight
<1>4. CASE \/ InsertUser(r) \/ InsertProfiles(r) \/ FindCardHolder(r) \/ CheckStored(r) \/ DeleteOld(r)
           \/ CheckLink(r) \/ FindParent(r) \/ RemovePupil(r) \/ LinkByPhone(r) \/ RemoveParent(r)
  BY <1>4, PlainRight
<1>5. CASE Forget(r) \/ FindUser(r)
  BY <1>1, <1>5, RemovalRight
<1>6. CASE FindEntity(r)
  BY <1>1, <1>6, FindEntityRight
<1>7. CASE UnlinkPhoto(r) \/ CompareUser(r)
  BY <1>1, <1>7, CompareUserRight
<1>8. CASE WriteUser(r)
  BY <1>1, <1>8, WriteUserRight
<1>9. CASE FindShown(r)
  BY <1>1, <1>9, FindShownRight
<1>10. CASE FindPictured(r) \/ FindPupil(r) \/ EraseImage(r)
  BY <1>1, <1>10, FindPictureRight
<1>11. CASE Register(r) \/ UpdatePupilImage(r) \/ WriteParent(r) \/ RemoveUser(r)
  BY <1>1, <1>11, WrittenOver
<1>12. CASE EditUser(r) \/ RegisterRfid(r) \/ WritePupil(r) \/ Link(r) \/ Unlink(r)
  BY <1>1, <1>12, WrittenOn
<1>13. CASE UpdateImageUrl(r)
  BY <1>1, <1>13, UpdateImageRight
<1> QED BY <1>2, <1>3, <1>4, <1>5, <1>6, <1>7, <1>8, <1>9, <1>10, <1>11, <1>12, <1>13
        DEF PeopleStep, UserStep, ProfileStep

\* Details are cached of users, also where calls overlap.
LEMMA CachedOfUsers ==
  ASSUME DOMAIN details = Users, NEW r \in world.calls, PeopleStep(r)
  PROVE  DOMAIN details' = Users
<1>1. UNCHANGED details \/ \E u, v : details' = [details EXCEPT ![u] = v]
  <2>1. CASE StoreDetails(r)
    BY <2>1 DEF StoreDetails
  <2>2. CASE Forget(r) \/ FindShown(r)
    BY <2>2 DEF Forget, FindShown
  <2>3. CASE FetchDetails(r) \/ InsertUser(r) \/ InsertProfiles(r) \/ Register(r) \/ FindUser(r)
             \/ EditUser(r) \/ FindEntity(r) \/ UnlinkPhoto(r) \/ CompareUser(r)
    BY <2>3 DEF FetchDetails, InsertUser, InsertProfiles, Register, FindUser, EditUser, FindEntity,
                UnlinkPhoto, CompareUser, peopleVars, profileVars
  <2>4. CASE WriteUser(r) \/ RemoveUser(r) \/ FindCardHolder(r) \/ RegisterRfid(r) \/ CheckStored(r)
             \/ FindPictured(r) \/ UpdateImageUrl(r) \/ DeleteOld(r)
    BY <2>4 DEF WriteUser, RemoveUser, FindCardHolder, RegisterRfid, CheckStored, FindPictured,
                UpdateImageUrl, DeleteOld, peopleVars, profileVars
  <2>5. CASE ProfileStep(r)
    BY <2>5 DEF ProfileStep, FindPupil, WritePupil, RemovePupil, EraseImage, UpdatePupilImage, Link,
                Unlink, CheckLink, LinkByPhone, FindParent, WriteParent, RemoveParent, peopleVars,
                profileVars
  <2> QED BY <2>1, <2>2, <2>3, <2>4, <2>5 DEF PeopleStep, UserStep
<1> QED BY <1>1

LEMMA NextDetails ==
  ASSUME ReqInv, QueueInv, PeopleInv, DetailsInv, [SchoolNext]_schoolVars PROVE DetailsInv'
<1>1. UNCHANGED world
  BY StepKinds
<1>2. ASSUME NEW r \in world.calls, CallStep(r) PROVE DetailsInv'
  <2>1. CASE PeopleStep(r) /\ r.op \in PeopleOps
    <3>1. DOMAIN details' = Users
      BY <2>1, CachedOfUsers DEF DetailsInv
    <3>2. world.serial => AloneInv(r)' /\ \A u \in Users : UserDetails(u)'
      BY <1>1, <2>1, PeopleRight DEF DetailsRight
    <3> QED BY <1>1, <1>2, <3>1, <3>2, DetailsKept DEF CallStep
  <2>2. CASE r.op \in MemberOps \cup ClassOps \cup SubjectOps \cup OrgOps \cup WorkOps /\ UNCHANGED peopleVars
    <3>1. QueueInv'
      BY NextQueue
    <3>2. r.op \notin PeopleOps
      BY <2>2 DEF PeopleOps, UserOps, ProfileOps, MemberOps, ClassOps, SubjectOps, OrgOps, WorkOps, PaperOps
    <3>3. AloneInv(r)'
      BY <1>1, <3>1, <3>2, PlainAlone DEF QueueInv, Plain, PeopleOps, UserOps, ProfileOps
    <3>4. UNCHANGED <<people, details>>
      BY <2>2 DEF peopleVars, profileVars
    <3>5. world.serial => \A u \in Users : UserDetails(u)'
      BY <1>1, <3>4, SameUsers
    <3> QED BY <1>1, <1>2, <3>3, <3>4, <3>5, DetailsKept DEF CallStep, DetailsInv
  <2> QED BY <1>2, <2>1, <2>2 DEF CallStep
<1>3. CASE RestStep
  <2>1. UNCHANGED <<pc, held, people, pupils, details>>
    BY <1>3 DEF RestStep, requestVars, peopleVars, profileVars
  <2>2. ASSUME NEW u PROVE UNCHANGED Current(u) /\ UNCHANGED Known(u) /\ UNCHANGED Snapshot(u)
    BY <2>1 DEF Current, Known, Snapshot, Pupil
  <2>3. ASSUME world.serial, NEW r \in world.calls PROVE AloneInv(r)'
    <3>1. AloneInv(r)
      BY <2>3 DEF DetailsInv
    <3>2. CachesAlone(r) => CachesAlone(r)'
      BY <1>1, <2>1, <2>2 DEF CachesAlone
    <3>3. RefreshAlone(r)'
      BY <1>1, <2>1, <2>2, <3>1, <3>2 DEF AloneInv, RefreshAlone
    <3>4. PhotoAlone(r)'
      <4>1. \A old : Spares(r, old)' <=> Spares(r, old)
        BY <1>1, <2>1, <2>2, SameFiles DEF Spares
      <4>2. UNCHANGED Shown(r.user) /\ UNCHANGED FilesOf(r.user)
        BY <1>1, SameFiles
      <4> QED BY <2>1, <3>1, <4>1, <4>2 DEF AloneInv, PhotoAlone
    <3>5. EntityAlone(r)'
      BY <1>1, <2>1, <2>2, <3>1, SameFiles DEF AloneInv, EntityAlone
    <3> QED BY <3>3, <3>4, <3>5 DEF AloneInv
  <2>4. ASSUME world.serial, NEW u \in Users PROVE UserDetails(u)'
    BY <1>1, <2>1, <2>4, SameUsers
  <2> QED BY <1>1, <2>1, <2>3, <2>4 DEF DetailsInv
<1> QED BY <1>2, <1>3, StepKinds

LEMMA InitDetails == SchoolInit => DetailsInv
<1> SUFFICES ASSUME SchoolInit PROVE DetailsInv
  OBVIOUS
<1>1. world \in Worlds /\ people = world.at.people /\ details = world.at.details
  BY DEF SchoolInit, PeopleInit
<1>2. DOMAIN details = Users /\ \A u \in Users : details[u] # NoRow => Known(u)
  BY <1>1, PeopleWorldsAssumption DEF Known
<1>3. ASSUME NEW u \in Users PROVE UserDetails(u)
  <2> DEFINE rows == {world.at.people[u], world.at.details[u]} \ {NoRow}
  <2>1. \A row \in rows : row.image \in FilesOf(u)
    BY DEF FilesOf
  <2>2. (Known(u) => people[u] \in rows) /\ (details[u] # NoRow => details[u] \in rows)
    BY <1>1 DEF Known
  <2> HIDE DEF rows
  <2> QED BY <1>2, <2>1, <2>2 DEF UserDetails, Shown
<1>4. ASSUME NEW r \in world.calls PROVE AloneInv(r)
  <2>1. pc[r] = "start"
    BY DEF SchoolInit, RequestInit
  <2> QED BY <2>1 DEF AloneInv, RefreshAlone, PhotoAlone, EntityAlone, Caching
<1> QED BY <1>2, <1>3, <1>4 DEF DetailsInv

\* Who goes on from these steps is a call about a user.
LEMMA Others ==
  ASSUME NEW r, MemberStep(r) \/ ClassStep(r) \/ SubjectStep(r) \/ OrgStep(r) \/ WorkStep(r)
  PROVE  pc[r] \notin Caching \cup {"clean"}
<1>1. CASE MemberStep(r)
  BY <1>1 DEF MemberStep, CreateMember, ValidateAssignment, EnhancedFails, ValidateBulk, CheckRole,
              CompareMember, WriteMember, FindPending, VerifyMember, FindMember, RemoveMember, FindHolder,
              Upload, FindCard, AssignCard, FindImage, DeleteImage, Review, At, Caching
<1>2. CASE ClassStep(r)
  BY <1>2 DEF ClassStep, BeginEnrol, CheckEnrolled, CompareRoll, WriteRoll, FindRoll,
              SetActive, Unenrol, BulkRemove, ApproveRoll, SetDoor, At, Caching
<1>3. CASE SubjectStep(r)
  BY <1>3 DEF SubjectStep, BeginSeat, CheckClass, CheckSeated, CompareSeat, WriteSeat,
              FindSeat, ChangeSeat, Unseat, ReadSettings, WriteSettings, At, Caching
<1>4. CASE OrgStep(r)
  BY <1>4 DEF OrgStep, SaveOrganization, SaveFounder, CheckStaff, InsertStaff, ChangeStaffRole,
              RemoveStaff, DemotePresidents, PromotePresident, CheckMember, CheckPlaced, At, Caching
<1>5. CASE WorkStep(r)
  <2>1. CASE CreateHomework(r) \/ FindHomework(r) \/ WriteHomework(r) \/ Submit(r) \/ FindPaper(r)
             \/ ComparePaper(r) \/ WritePaper(r) \/ InsertPaper(r) \/ SelectPaper(r) \/ CorrectPaper(r)
             \/ RemovePaper(r)
    BY <2>1 DEF CreateHomework, FindHomework, WriteHomework, Submit, FindPaper, ComparePaper, WritePaper,
                InsertPaper, SelectPaper, CorrectPaper, RemovePaper, At, Caching
  <2>2. CASE BeginExam(r) \/ SaveExam(r) \/ FindExam(r) \/ WriteExam(r) \/ DeleteExam(r)
             \/ BeginResults(r) \/ InsertResult(r) \/ FindResult(r) \/ WriteResult(r)
    BY <2>2 DEF BeginExam, SaveExam, FindExam, WriteExam, DeleteExam, BeginResults, InsertResult,
                FindResult, WriteResult, At, Caching
  <2> QED BY <1>5, <2>1, <2>2 DEF WorkStep
<1> QED BY <1>1, <1>2, <1>3, <1>4, <1>5

\* Only the request that moves comes to an end.
LEMMA MovesOn ==
  ASSUME ReqInv, QueueInv, [SchoolNext]_schoolVars, NEW r \in world.calls, pc'[r] # pc[r]
  PROVE  CallStep(r) /\ UNCHANGED world
<1>1. ~RestStep
  BY DEF RestStep, requestVars
<1>2. PICK q \in world.calls : CallStep(q)
  BY <1>1, StepKinds
<1>3. q = r
  BY <1>2 DEF CallStep, Moves
<1> QED BY <1>2, <1>3, StepKinds

LEMMA RefreshedCurrent ==
  ASSUME ReqInv, QueueInv, PeopleInv, DetailsInv, [SchoolNext]_schoolVars, NEW r \in world.calls,
         world.serial, ~world.faulty, r.op # "rfid", pc[r] \in {"refresh", "cache", "clean"}, pc'[r] = "done",
         NEW u \in Names(r), Known(u)
  PROVE  details'[u] = Snapshot(u)
<1>1. CallStep(r) /\ UNCHANGED world
  BY MovesOn
<1>2. PeopleStep(r) /\ r.op \in PeopleOps
  BY <1>1, Others DEF CallStep, Caching
<1>3. Names(r) \subseteq Users
  BY <1>2, NamedUsers
<1>4. CASE FetchDetails(r) \/ StoreDetails(r)
  <2>1. Current(u)' /\ UNCHANGED <<people, pupils>>
    BY <1>1, <1>3, <1>4, FetchAlone, StoreAlone
  <2> QED BY <2>1 DEF Current, Known, Snapshot, Pupil
<1>5. CASE DeleteOld(r)
  <2>1. r.op = "photo" /\ pc[r] = "clean" /\ UNCHANGED details
    BY <1>5 DEF DeleteOld, At
  <2>2. Current(r.user) /\ u = r.user
    BY <2>1 DEF DetailsInv, AloneInv, RefreshAlone, Names
  <2> QED BY <2>1, <2>2 DEF Current
<1>6. CASE UserStep(r) /\ ~(FetchDetails(r) \/ StoreDetails(r) \/ DeleteOld(r))
  BY <1>6 DEF UserStep, InsertUser, InsertProfiles, Register, Forget, FindUser, EditUser, FindEntity,
              UnlinkPhoto, CompareUser, WriteUser, RemoveUser, FindCardHolder, RegisterRfid, FindShown,
              CheckStored, FindPictured, UpdateImageUrl, At
<1>7. CASE ProfileStep(r)
  BY <1>7 DEF ProfileStep, FindPupil, WritePupil, RemovePupil, EraseImage, UpdatePupilImage, Link,
              Unlink, CheckLink, LinkByPhone, FindParent, WriteParent, RemoveParent, At
<1> QED BY <1>2, <1>4, <1>5, <1>6, <1>7 DEF PeopleStep

\* A file that is deleted is this call's, and a file that two show is none.
LEMMA Deleted ==
  ASSUME ReqInv, QueueInv, PeopleInv, DetailsInv, [SchoolNext]_schoolVars, world.serial, OwnFiles,
         \A r \in world.calls : r.op = "photo" => r.full,
         NEW u \in Users, people'[u] # NoRow, people'[u].image \in erased' \ erased
  PROVE  \E r \in Underway("rejectPhoto") \cup Underway("pupilPhoto") : r.user = u
<1>1. ~RestStep
  BY DEF RestStep, peopleVars, profileVars
<1>2. PICK r \in world.calls : CallStep(r)
  BY <1>1, StepKinds
<1>3. PeopleStep(r) /\ r.op \in PeopleOps
  BY <1>2 DEF CallStep, peopleVars, profileVars
<1>4. CASE UnlinkPhoto(r) \/ EraseImage(r) \/ DeleteOld(r)
  <2>1. UNCHANGED people /\ r.user \in Users /\ EntityAlone(r) /\ PhotoAlone(r)
    BY <1>3, <1>4, NamedUsers DEF UnlinkPhoto, EraseImage, DeleteOld, DetailsInv, AloneInv
  <2>2. Known(u) /\ people[u].image \in Shown(u)
    BY <2>1 DEF Known, DetailsInv, UserDetails
  <2>3. ASSUME people[u].image \in FilesOf(r.user) \ {NoRow} PROVE u = r.user
    BY <2>1, <2>2, <2>3 DEF OwnFiles, Shown
  <2>4. CASE UnlinkPhoto(r)
    <3>1. r.op = "rejectPhoto" /\ pc[r] = "unlink" /\ people[u].image = held[r].file
      BY <2>1, <2>4 DEF UnlinkPhoto, At
    <3> QED BY <2>1, <2>3, <3>1 DEF EntityAlone, Underway
  <2>5. CASE EraseImage(r)
    <3>1. r.op = "pupilPhoto" /\ pc[r] = "erase" /\ people[u].image = held[r]
      BY <2>1, <2>5 DEF EraseImage, At
    <3> QED BY <2>1, <2>3, <3>1 DEF PhotoAlone, Underway
  <2>6. CASE DeleteOld(r)
    <3>1. r.op = "photo" /\ pc[r] = "clean" /\ people[u].image = held[r]
      BY <2>1, <2>6 DEF DeleteOld, At
    <3>2. Spares(r, held[r])
      BY <2>1, <3>1 DEF PhotoAlone
    <3>3. r.user = u
      BY <2>3, <3>1, <3>2 DEF Spares
    <3> QED BY <2>2, <3>1, <3>2, <3>3 DEF Spares
  <2> QED BY <1>4, <2>4, <2>5, <2>6
<1>5. CASE ~(UnlinkPhoto(r) \/ EraseImage(r) \/ DeleteOld(r))
  <2>1. CASE UserStep(r)
    <3>1. UNCHANGED erased
      BY <1>5, <2>1 DEF UserStep, FetchDetails, StoreDetails, InsertUser, InsertProfiles, Register, Forget,
            FindUser, EditUser, FindEntity, CompareUser, WriteUser, RemoveUser, FindCardHolder,
            RegisterRfid, FindShown, CheckStored, FindPictured, UpdateImageUrl, peopleVars, profileVars
    <3> QED BY <3>1
  <2>2. CASE ProfileStep(r)
    <3>1. UNCHANGED erased
      BY <1>5, <2>2 DEF ProfileStep, FindPupil, WritePupil, RemovePupil, UpdatePupilImage, Link, Unlink,
            CheckLink, LinkByPhone, FindParent, WriteParent, RemoveParent, peopleVars, profileVars
    <3> QED BY <3>1
  <2> QED BY <1>3, <2>1, <2>2 DEF PeopleStep
<1> QED BY <1>4, <1>5

\* A rejection is over when it has refreshed what it wrote.
LEMMA Rejected ==
  ASSUME ReqInv, QueueInv, PeopleInv, DetailsInv, [SchoolNext]_schoolVars, world.serial,
         NEW r \in Underway("rejectPhoto"), pc'[r] = "done", people'[r.user] # NoRow
  PROVE  people'[r.user].image = NoRow
<1>1. r \in world.calls /\ r.op = "rejectPhoto" /\ pc[r] \notin {"start", "done"}
  BY DEF Underway
<1>2. CallStep(r) /\ UNCHANGED world
  BY <1>1, MovesOn
<1>3. PeopleStep(r) /\ r.op \in PeopleOps
  BY <1>1, <1>2 DEF CallStep, MemberOps, ClassOps, SubjectOps, OrgOps, WorkOps, PaperOps
<1>4. r.user \in Users /\ Names(r) \subseteq Users
  BY <1>1, <1>3, NamedUsers
<1>5. CASE FetchDetails(r) \/ StoreDetails(r)
  <2>1. UNCHANGED people /\ pc[r] \in Caching
    BY <1>5 DEF FetchDetails, StoreDetails, peopleVars, At, Caching
  <2> QED BY <1>1, <2>1 DEF DetailsInv, AloneInv, EntityAlone, Known
<1>6. CASE UnlinkPhoto(r) \/ CompareUser(r)
  <2>1. \E step \in {"save", "write"} : \E value : GoOn(r, step, value)
    BY <1>6 DEF UnlinkPhoto, CompareUser
  <2> QED BY <1>1, <2>1, GoOnMoves
<1>7. CASE WriteUser(r)
  BY <1>1, <1>2, <1>4, <1>7, WriteUserRight
<1>8. CASE UserStep(r) /\ ~(FetchDetails(r) \/ StoreDetails(r) \/ UnlinkPhoto(r) \/ CompareUser(r) \/ WriteUser(r))
  BY <1>1, <1>8 DEF UserStep, InsertUser, InsertProfiles, Register, Forget, FindUser, EditUser, FindEntity,
              RemoveUser, FindCardHolder, RegisterRfid, FindShown, CheckStored, FindPictured,
              UpdateImageUrl, DeleteOld, At
<1>9. CASE ProfileStep(r)
  BY <1>1, <1>9 DEF ProfileStep, FindPupil, WritePupil, RemovePupil, EraseImage, UpdatePupilImage, Link,
              Unlink, CheckLink, LinkByPhone, FindParent, WriteParent, RemoveParent, At
<1> QED BY <1>3, <1>5, <1>6, <1>7, <1>8, <1>9 DEF PeopleStep

\* Served one after the other, whatever the users, files and calls: a call that
\* refreshes leaves cached what the tables say of all it names (RefreshedIsCurrent),
\* nothing is cached of a user who was removed (RemovedIsForgotten), and no call
\* deletes a file a user shows after it (UserImageExists).
THEOREM DetailsSound == SchoolSpec => DetailsHold
<1> DEFINE CurrentAfter ==
             \A r \in world.calls :
               /\ world.serial /\ ~world.faulty /\ r.op # "rfid"
               /\ pc[r] \in {"refresh", "cache", "clean"} /\ pc'[r] = "done"
               => \A u \in {r.user} \cup (IF r.op = "link" THEN {r.father} ELSE {}) :
                    Known(u) => details'[u] = Snapshot(u)
           FilesKept ==
             world.serial /\ OwnFiles /\ (\A r \in world.calls : r.op = "photo" => r.full) =>
               /\ \A u \in Users :
                    people'[u] # NoRow /\ people'[u].image \in erased' \ erased
                      => \E r \in Underway("rejectPhoto") \cup Underway("pupilPhoto") : r.user = u
               /\ \A r \in Underway("rejectPhoto") :
                    pc'[r] = "done" /\ people'[r.user] # NoRow => people'[r.user].image = NoRow
<1>1. SchoolInit => DetailsInv
  BY InitDetails
<1>2. SchoolInv /\ DetailsInv /\ [SchoolNext]_schoolVars => DetailsInv'
  BY NextDetails DEF SchoolInv, BaseInv
<1>3. SchoolInv /\ DetailsInv /\ [SchoolNext]_schoolVars => CurrentAfter
  BY RefreshedCurrent DEF SchoolInv, BaseInv, Names
<1>4. SchoolInv /\ DetailsInv /\ [SchoolNext]_schoolVars => FilesKept
  BY Deleted, Rejected DEF SchoolInv, BaseInv
<1>5. DetailsInv => RemovedIsForgotten
  BY DEF DetailsInv, UserDetails, RemovedIsForgotten
<1> QED BY <1>1, <1>2, <1>3, <1>4, <1>5, SchoolInvariant, PTL
       DEF SchoolSpec, DetailsHold, RefreshedIsCurrent, UserImageExists
=============================================================================
