----------------------------- MODULE Coursework -----------------------------
(***************************************************************************)
(* One homework of a subject with the papers students hand in, one exam    *)
(* and its results (src/modules/institute_class_subject_modules).  Papers  *)
(* and results have generated ids and no other key.  That a student is in  *)
(* the class is read from his token and taken as given.                    *)
(***************************************************************************)
EXTENDS People

VARIABLES homework,   \* institute_class_subject_homeworks
          papers,     \* institute_class_subject_homeworks_submissions, by id
          exam,       \* institute_class_subject_exams
          results,    \* institute_class_subject_results, by id
          day         \* today

workVars == <<homework, papers, exam, results, day>>

NewPaper == [file |-> NoRow, correction |-> NoRow, remarks |-> NoRow, isActive |-> TRUE]

PaperRows == [user : Users, file : Values, correction : Values, remarks : Values,
              isActive : BOOLEAN]
ExamRows  == [date : Nat, start : Nat, end : Nat, passing : Nat, total : Nat, isActive : BOOLEAN]

SomeOfExam(set) ==
  /\ DOMAIN set \subseteq {"date", "start", "end", "passing", "total", "isActive"}
  /\ \A c \in DOMAIN set : set[c] \in IF c = "isActive" THEN BOOLEAN ELSE Nat

\* An exam that is there was accepted.
ASSUME WorkWorldsAssumption ==
  \A w \in Worlds :
    /\ w.at.exam # NoRow => w.at.exam \in ExamRows /\ w.at.exam.passing < w.at.exam.total
    /\ \A r \in w.calls :
         /\ r.op = "examCreate" => r.row \in ExamRows
         /\ r.op = "examUpdate" => SomeOfExam(r.set)
         /\ r.op \in {"submit", "correct"} => r.file \in Values
         /\ r.op = "remark" => r.remarks \in Values
         /\ r.op = "paperCreate" => Fits(r.row, PaperRows)
         /\ r.op = "paperUpdate" => Fits(r.set, PaperRows) /\ "user" \notin DOMAIN r.set
         /\ r.op \in {"submit", "paperCreate"} => r.user \in Users
         /\ r.op = "result" => r.users \subseteq Users

Papers == {i \in DOMAIN papers : papers[i] # NoRow}
Results == {i \in DOMAIN results : results[i] # NoRow}

WorkInit == /\ homework = world.at.homework /\ exam = world.at.exam
            /\ papers = << >> /\ results = << >>
            /\ day = 1

\* Days pass, up to a bound, between the calls that are served in turn.
DayPasses == /\ day < world.days
             /\ world.serial => Quiet
             /\ day' = day + 1
             /\ UNCHANGED <<homework, papers, exam, results, requestVars>>

UpdatePaper(i, columns) ==
  papers' = IF i \in Papers THEN [papers EXCEPT ![i] = columns ++ @] ELSE papers

-----------------------------------------------------------------------------
\* The homework: created as it is given, then found and updated by its id.  It
\* is removed by a mark, which nothing that hands in a paper looks at.
CreateHomework(r) ==
  /\ At(r, "homeworkCreate", "start")
  /\ homework = NoRow
  /\ End(r)
  /\ homework' = r.row
  /\ UNCHANGED <<papers, exam, results, day>>

HomeworkColumns(r) == IF r.op = "homeworkRemove" THEN [isActive |-> FALSE] ELSE r.set

FindHomework(r) ==
  /\ \E op \in {"homeworkUpdate", "homeworkRemove"} : At(r, op, "start")
  /\ IF homework # NoRow THEN GoOn(r, "update", NoRow) ELSE End(r)
  /\ UNCHANGED workVars

WriteHomework(r) ==
  /\ \E op \in {"homeworkUpdate", "homeworkRemove"} : At(r, op, "update")
  /\ End(r)
  /\ homework' = HomeworkColumns(r) ++ homework
  /\ UNCHANGED <<papers, exam, results, day>>

-----------------------------------------------------------------------------
\* A student hands in a paper, from the first to the last day: his row is looked
\* for and saved with the new file, or a row is inserted.
Due == /\ homework # NoRow
       /\ homework.first <= day
       /\ homework.last # NoRow => day <= homework.last

Submit(r) ==
  /\ At(r, "submit", "start")
  /\ IF Due THEN GoOn(r, "find", NoRow) ELSE End(r)
  /\ UNCHANGED workVars

Resubmitted_Mutant(r, row) == [NewPaper EXCEPT !.file = r.file] ++ row
Resubmitted(r, row) == [row EXCEPT !.file = r.file, !.isActive = TRUE]

FindPaper(r) ==
  /\ At(r, "submit", "find")
  /\ LET own == {i \in Papers : papers[i].user = r.user}
     IN  IF own = {} THEN GoOn(r, "insert", NoRow)
         ELSE \E i \in own : GoOn(r, "save", [id |-> i, entity |-> Resubmitted(r, papers[i])])
  /\ UNCHANGED workVars

ComparePaper(r) ==
  /\ At(r, "submit", "save")
  /\ GoOn(r, "write", [id |-> held[r].id]
                      ++ Comparison(held[r].entity, papers[held[r].id]))
  /\ UNCHANGED workVars

\* A paper removed since it was found is inserted again, with its old id.
WritePaper(r) ==
  /\ At(r, "submit", "write")
  /\ End(r)
  /\ papers' = IF Known(r.user)
               THEN [papers EXCEPT ![held[r].id] = Saved(r, @, NewPaper)] ELSE papers
  /\ UNCHANGED <<homework, exam, results, day>>

\* A new row refers to a user and a homework; anybody at the institute may also
\* create one directly, with a correction and remarks in it.
Given(r) == IF r.op = "submit" THEN [file |-> r.file] ELSE r.row

InsertPaper(r) ==
  /\ At(r, "submit", "insert") \/ At(r, "paperCreate", "start")
  /\ End(r)
  /\ papers' = IF Known(r.user) /\ homework # NoRow
               THEN Append(papers, [user |-> r.user] ++ Given(r) ++ NewPaper)
               ELSE papers
  /\ UNCHANGED <<homework, exam, results, day>>

\* A teacher's review, a teacher's correction, a change or a removal finds the
\* row by its id first.
PaperOps == {"remark", "correct", "paperUpdate", "paperRemove"}

SelectPaper(r) ==
  /\ \E op \in PaperOps : At(r, op, "start")
  /\ IF r.id \in Papers THEN GoOn(r, "update", NoRow) ELSE End(r)
  /\ UNCHANGED workVars

\* A review writes remarks or asks for another paper in them.
Correction(r) == CASE r.op = "remark" -> [remarks |-> r.remarks]
                   [] r.op = "correct" -> [correction |-> r.file]
                   [] r.op = "paperUpdate" -> r.set

CorrectPaper(r) ==
  /\ \E op \in PaperOps \ {"paperRemove"} : At(r, op, "update")
  /\ End(r)
  /\ UpdatePaper(r.id, Correction(r))
  /\ UNCHANGED <<homework, exam, results, day>>

RemovePaper(r) ==
  /\ At(r, "paperRemove", "update")
  /\ End(r)
  /\ papers' = [papers EXCEPT ![r.id] = NoRow]
  /\ UNCHANGED <<homework, exam, results, day>>

-----------------------------------------------------------------------------
\* Hours of a day are less than ten.
Time(d, hour) == 10 * d + hour

\* An exam is announced for a later day: the day it is on has already begun.
Acceptable(r) == /\ r.row.start < r.row.end
                 /\ r.row.date > day
                 /\ r.row.passing < r.row.total

BeginExam(r) ==
  /\ At(r, "examCreate", "start")
  /\ exam = NoRow
  /\ IF Acceptable(r) THEN GoOn(r, "save", NoRow) ELSE End(r)
  /\ UNCHANGED workVars

SaveExam(r) ==
  /\ At(r, "examCreate", "save")
  /\ exam = NoRow
  /\ End(r)
  /\ exam' = [r.row EXCEPT !.start = Time(r.row.date, @), !.end = Time(r.row.date, @)]
  /\ UNCHANGED <<homework, papers, results, day>>

\* A change of the marks is tested with what the row has of the other.  The hours
\* are not tested: the date made of one is invalid, and no comparison with it holds.
MarksFit(r) == LET new == r.set ++ exam IN new.passing < new.total

ExamColumns(r) ==
  LET date == (r.set ++ exam).date
  IN  [c \in DOMAIN r.set |-> IF c \in {"start", "end"} THEN Time(date, r.set[c]) ELSE r.set[c]]

FindExam(r) ==
  /\ \E op \in {"examUpdate", "examRemove"} : At(r, op, "start")
  /\ IF exam # NoRow /\ (r.op = "examUpdate" /\ {"passing", "total"} \cap DOMAIN r.set # {}
                           => MarksFit(r))
     THEN GoOn(r, "update", IF r.op = "examUpdate" THEN ExamColumns(r) ELSE NoRow)
     ELSE End(r)
  /\ UNCHANGED workVars

\* Status and the mark of removal are set as other columns are.
WriteExam(r) ==
  /\ At(r, "examUpdate", "update")
  /\ End(r)
  /\ exam' = IF exam = NoRow THEN NoRow ELSE held[r] ++ exam
  /\ UNCHANGED <<homework, papers, results, day>>

\* The results of an exam go with it.
DeleteExam(r) ==
  /\ At(r, "examRemove", "update")
  /\ End(r)
  /\ exam' = NoRow
  /\ results' = [i \in DOMAIN results |-> NoRow]
  /\ UNCHANGED <<homework, papers, day>>

-----------------------------------------------------------------------------
\* Results, one or several: several are inserted side by side, in no order and
\* no transaction, and one that fails leaves the others.
BeginResults(r) ==
  /\ At(r, "result", "start")
  /\ GoOn(r, "insert", r.users)
  /\ UNCHANGED workVars

InsertResult(r) ==
  /\ At(r, "result", "insert")
  /\ \E u \in held[r] :
       /\ IF held[r] = {u} THEN End(r) ELSE GoOn(r, "insert", held[r] \ {u})
       /\ results' = IF Known(u) /\ exam # NoRow
                     THEN Append(results, [user |-> u, score |-> r.score]) ELSE results
  /\ UNCHANGED <<homework, papers, exam, day>>

FindResult(r) ==
  /\ \E op \in {"resultUpdate", "resultRemove"} : At(r, op, "start")
  /\ IF r.id \in Results THEN GoOn(r, "update", NoRow) ELSE End(r)
  /\ UNCHANGED workVars

WriteResult(r) ==
  /\ \E op \in {"resultUpdate", "resultRemove"} : At(r, op, "update")
  /\ End(r)
  /\ results' = CASE r.id \notin Results -> results
                  [] r.op = "resultRemove" -> [results EXCEPT ![r.id] = NoRow]
                  [] OTHER -> [results EXCEPT ![r.id].score = r.score]
  /\ UNCHANGED <<homework, papers, exam, day>>

WorkStep(r) ==
  \/ CreateHomework(r) \/ FindHomework(r) \/ WriteHomework(r)
  \/ Submit(r) \/ FindPaper(r) \/ ComparePaper(r) \/ WritePaper(r) \/ InsertPaper(r)
  \/ SelectPaper(r) \/ CorrectPaper(r) \/ RemovePaper(r)
  \/ BeginExam(r) \/ SaveExam(r) \/ FindExam(r) \/ WriteExam(r) \/ DeleteExam(r)
  \/ BeginResults(r) \/ InsertResult(r) \/ FindResult(r) \/ WriteResult(r)

-----------------------------------------------------------------------------
(* Properties                                                              *)

\* Papers, results and marks have their types.
WorkTypeOK == /\ \A i \in Papers : papers[i] \in PaperRows
              /\ \A i \in Results : results[i].user \in Users
              /\ exam # NoRow => exam \in ExamRows

\* "Passing marks must be less than maximum marks": so they are after any series
\* of changes of one or the other, served one after the other.
MarksSound == world.serial /\ exam # NoRow => exam.passing < exam.total

\* Served one after the other, a student who hands in again replaces what he
\* handed in: nobody has two papers that no one else created for him.
OnePaper == world.serial /\ (\A r \in world.calls : r.op # "paperCreate")
            => \A i, j \in Papers : papers[i].user = papers[j].user => i = j

\* Served one after the other, a teacher's remarks and correction stay with a
\* paper until somebody writes others, and a paper that was removed stays so:
\* handing in again touches neither.
CorrectionKept ==
  [][world.serial
       => \A i \in DOMAIN papers :
            /\ papers[i] = NoRow => papers'[i] = NoRow
            /\ i \in Papers /\ papers'[i] # NoRow
                 /\ <<papers[i].remarks, papers[i].correction>>
                    # <<papers'[i].remarks, papers'[i].correction>>
               => \E op \in PaperOps : \E r \in Underway(op) : r.id = i]_papers
=============================================================================
