----------------------------- MODULE Attendance -----------------------------
(***************************************************************************)
(* Marking attendance at an institute (src/modules/attendance): one        *)
(* student by id, RFID or institute card, or several in one call, in a     *)
(* table of DynamoDB whose keys carry the time, so that every write is a   *)
(* new record.  The parents are told by Notices.                           *)
(***************************************************************************)
EXTENDS InstituteMembers, Notices

CONSTANTS Pupils,    \* users with a row in students
          Carded     \* users with an RFID card

VARIABLES marks,     \* records of attendance
          reported   \* <<request, student>>: the answers that say it is marked

markVars == <<marks, reported>>

\* Who is marked alone is named.
ASSUME MarkWorldsAssumption ==
  \A w \in Worlds :
    /\ w.serial \in BOOLEAN /\ w.faulty \in BOOLEAN /\ w.partial \in BOOLEAN
    /\ \A r \in w.calls : r.op = "mark" =>
         /\ r.users \in Seq(Range(r.users))
         /\ r.way \in {"id", "rfid"} => r.users # <<>>

MarksInit == marks = {} /\ reported = {}

\* The attempt n of a request to mark a student; the students of a bulk request
\* are all marked with one status here.
Record(r, u, n) == [by |-> r, user |-> u, n |-> n, status |-> r.status]

\* A write that fails is repeated inside under the same key; in the end it is
\* answered, or fails before or after it took effect.
Written == IF world.faulty THEN {<<TRUE, TRUE>>, <<FALSE, FALSE>>, <<TRUE, FALSE>>}
           ELSE {<<TRUE, TRUE>>}

Put(r, u, n, isStored) == marks' = IF isStored THEN marks \cup {Record(r, u, n)} ELSE marks

-----------------------------------------------------------------------------
\* Cards are looked up first; all of them must be somebody's.
FindByRfid(r) ==
  /\ At(r, "mark", "start") /\ r.way \in {"rfid", "bulkRfid"}
  /\ IF \A u \in Range(r.users) : u \in Carded THEN GoOn(r, "validate", r.users) ELSE End(r)
  /\ UNCHANGED <<memberVars, adVars, noticeVars, markVars>>

Enrolled_Mutant(u) == u \in Joined
Enrolled(u) == u \in Joined /\ members[u].status = "ACTIVE"

\* validateStudentEnrollment of every student, if the environment asks for it.
ValidateEnrolment(r) ==
  /\ \/ At(r, "mark", "start") /\ r.way \in {"id", "bulk"}
     \/ At(r, "mark", "validate")
  /\ IF world.checks => \A u \in Range(r.users) : Enrolled(u)
     THEN GoOn(r, "student", r.users) ELSE End(r)
  /\ UNCHANGED <<memberVars, adVars, noticeVars, markVars>>

\* An institute card is looked up among the members, with nothing validated.
FindByCard(r) ==
  /\ At(r, "mark", "start") /\ r.way = "card"
  /\ \/ \E u \in Joined : members[u].card = r.card /\ GoOn(r, "student", <<u>>)
     \/ (\A u \in Joined : members[u].card # r.card) /\ End(r)
  /\ UNCHANGED <<memberVars, adVars, noticeVars, markVars>>

FindStudents(r) ==
  /\ At(r, "mark", "student")
  /\ IF \A u \in Range(held[r]) : u \in Pupils
     THEN GoOn(r, IF r.way \in {"bulk", "bulkRfid"} THEN "batch" ELSE "put", held[r])
     ELSE End(r)
  /\ UNCHANGED <<memberVars, adVars, noticeVars, markVars>>

\* Single marks tell parents whatever ENABLE_ATTENDANCE_NOTIFICATIONS says.
Mark(r) ==
  /\ At(r, "mark", "put")
  /\ LET u == held[r][1]
     IN  \E w \in Written :
           /\ Put(r, u, 1, w[1])
           /\ IF w[2] THEN reported' = reported \cup {<<r, u>>} /\ notices' = Scheduled(r, {u})
              ELSE UNCHANGED <<reported, notices>>
  /\ End(r)
  /\ UNCHANGED <<memberVars, adVars, told>>

\* BatchWriteItem answers how many items it left unprocessed, and which; the
\* code takes the last ones.  A batch that fails counts as not written.  Held are
\* the students written and those that failed.
AfterBatch(list, left) ==
  LET done == Len(list) - left
  IN  <<SubSeq(list, 1, done), SubSeq(list, done + 1, Len(list))>>

WriteBatch(r) ==
  /\ At(r, "mark", "batch")
  /\ \E stored \in SUBSET Range(held[r]), left \in 0..Len(held[r]) :
       /\ \/ Cardinality(stored) = Len(held[r]) - left /\ (left > 0 => world.partial)
          \/ world.faulty /\ left = Len(held[r]) /\ stored \in {{}, Range(held[r])}
       /\ marks' = marks \cup {Record(r, u, 1) : u \in stored}
       /\ GoOn(r, "again", AfterBatch(held[r], left))
  /\ UNCHANGED <<memberVars, adVars, noticeVars, reported>>

\* The failed ones are written one by one; one that fails again is left out.
MarkAgain(r) ==
  /\ At(r, "mark", "again") /\ held[r][2] # <<>>
  /\ \E w \in Written :
       LET u == Head(held[r][2])
       IN  /\ Put(r, u, 2, w[1])
           /\ GoOn(r, "again", <<IF w[2] THEN Append(held[r][1], u) ELSE held[r][1],
                                Tail(held[r][2])>>)
  /\ UNCHANGED <<memberVars, adVars, noticeVars, reported>>

Results_Mutant(r) == Range(r.users)
Results(r) == Range(held[r][1])

AnswerBulk(r) ==
  /\ At(r, "mark", "again") /\ held[r][2] = <<>>
  /\ reported' = reported \cup {<<r, u>> : u \in Results(r)}
  /\ notices' = Scheduled(r, IF world.notify THEN Results(r) ELSE {})
  /\ End(r)
  /\ UNCHANGED <<memberVars, adVars, told, marks>>

MarkStep(r) ==
  \/ FindByRfid(r) \/ ValidateEnrolment(r) \/ FindByCard(r) \/ FindStudents(r)
  \/ Mark(r) \/ WriteBatch(r) \/ MarkAgain(r) \/ AnswerBulk(r)

-----------------------------------------------------------------------------
(* Properties                                                              *)

\* "Bulk attendance marked successfully for n students": every student whom an
\* answer names has a record of this call, whatever write failed.
ReportedIsStored == \A p \in reported : \E m \in marks : m.by = p[1] /\ m.user = p[2]

\* So it is as long as a batch is written as a whole or not at all.
WholeIsStored == ~world.partial => ReportedIsStored

\* A parent is told only of a mark that is stored (no batch being written in
\* part), and that the student was present only if that is what was marked.
ToldIsMarked ==
  \A d \in told : ~world.partial /\ d.by.op = "mark"
    => \E m \in marks : /\ m.by = d.by /\ m.user = d.student
                        /\ d.says = "PRESENT" <=> m.status = "PRESENT"

\* With the validation switched on and calls one after the other, only active
\* members of the institute are marked, in whatever way; by institute card an
\* inactive member is marked too.
OnlyActiveMarked ==
  [][world.serial /\ world.checks
       => \A m \in marks' \ marks : m.by.way # "card"
              => m.user \in Joined /\ members[m.user].status = "ACTIVE"]_marks

\* The parents who can be told of a mark: somebody is reached on a channel that
\* the package of the student names and the environment has.
Reachable(r, u) ==
  /\ Worthwhile(r, u)
  /\ PackageFor(u).channels \cap Available \cap Contacts[Primary(r, u)] # {}

\* Fire and forget, and yet nobody is forgotten: with no fault, where every
\* advertisement supports every platform, the parents of each student reported
\* as marked are told in the end, however calls, tasks and the cache interleave.
EventuallyTold ==
  ~world.faulty /\ world.notify
  /\ (\A r \in world.calls : r.op \notin {"adCreate", "adUpdate"})
  /\ (\A a \in Ads : world.at.ads[a] # NoRow => world.at.ads[a].platforms = {})
  => <>[](\A p \in reported : Reachable(p[1], p[2])
             => \E d \in told : d.by = p[1] /\ d.student = p[2])
=============================================================================
