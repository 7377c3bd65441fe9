------------------------------ MODULE MCSchool ------------------------------
(***************************************************************************)
(* Days at a school: each is a set of requests, served one after the other *)
(* or overlapping, and what the tables hold before them.                   *)
(***************************************************************************)
EXTENDS School, TLC

CONSTANTS ann, bob, cat,  \* users: full flexibility, no parent, no student
          c1, f1, f2      \* a card (also a code), image files

Profile == [u \in Users |-> CASE u = ann -> "USER"
                              [] u = bob -> "USER_WITHOUT_PARENT"
                              [] u = cat -> "USER_WITHOUT_STUDENT"]

Member(role, status) == [NewMember EXCEPT !.role = role, !.status = status]
Nobody == [u \in Users |-> NoRow]
Only(u, row) == [Nobody EXCEPT ![u] = row]

\* An image, a card or a text.
Contents == {NoRow, c1, f1, f2}

\* The row of cat in parents has the number of ann in users.
Numbers == [u \in Users |-> IF u = cat THEN ann ELSE NoRow]

Person == [active |-> TRUE, image |-> NoRow, card |-> NoRow]
Student == [active |-> TRUE, father |-> NoRow]

Empty == [people |-> [u \in Users |-> Person],
          pupils |-> [u \in Users |-> IF u = cat THEN NoRow ELSE Student],
          parents |-> [u \in Users |-> IF u = bob THEN NoRow ELSE [active |-> TRUE]],
          details |-> Nobody, members |-> Nobody, rolls |-> Nobody, staff |-> Nobody,
          door |-> [open |-> FALSE, code |-> NoRow], homework |-> NoRow, exam |-> NoRow]
With(table, rows) == [Empty EXCEPT ![table] = rows]

Queue(at, calls) == [calls |-> calls, at |-> at, serial |-> TRUE, faulty |-> TRUE, days |-> 1]
Sure(w) == [w EXCEPT !.faulty = FALSE]
Overlap(at, calls) == [Queue(at, calls) EXCEPT !.serial = FALSE]

\* Requests
Create(u, s) == [op |-> "create", user |-> u, status |-> s]
Assign(way, u, role, status, image, trusted, card) ==
  [op |-> "assign", way |-> way, user |-> u, role |-> role, status |-> status,
   image |-> image, trusted |-> trusted, card |-> card]
Plain(way, u, role) == Assign(way, u, role, "ACTIVE", NoRow, FALSE, NoRow)
Verify(u) == [op |-> "verify", user |-> u]
Set(u, column, value) == [op |-> "change", user |-> u, set |-> [c \in {column} |-> value]]
Remove(u) == [op |-> "remove", user |-> u]
Image(u, f, trusted) == [op |-> "upload", user |-> u, image |-> f, trusted |-> trusted]
Card(u) == [op |-> "card", user |-> u, card |-> c1]
Judge(u, verdict) == [op |-> "review", user |-> u, verdict |-> verdict]

Enrol(way, u) == [op |-> "enrol", way |-> way, user |-> u, isActive |-> TRUE,
                  unverified |-> FALSE, code |-> c1]
Held(u) == [Enrol("teacher", u) EXCEPT !.unverified = TRUE]
Roll(u, on) == [op |-> "rollUpdate", user |-> u, isActive |-> on]
Unroll(u) == [op |-> "unenrol", user |-> u]
Clear(us) == [op |-> "bulkUnenrol", users |-> us]
Confirm(u, yes) == [op |-> "rollVerify", user |-> u, approve |-> yes]
Door(code) == [op |-> "door", code |-> code]

Sit(way, u) == [op |-> "seat", way |-> way, user |-> u, isActive |-> TRUE]
SeatUpdate(u) == [op |-> "seatUpdate", user |-> u, isActive |-> FALSE]
Leave(u) == [op |-> "unseat", user |-> u]
\* n tells two equal requests apart.
Settings(on, n) == [op |-> "settings", enable |-> on, n |-> n]

Found(u, system) == [op |-> "found", user |-> u, system |-> system]
Add(u) == [op |-> "add", user |-> u, role |-> "MODERATOR"]
Staffer(op, u) == [op |-> op, user |-> u, role |-> "MEMBER"]
Crown(op, u) == [op |-> op, user |-> u, role |-> "PRESIDENT"]
Dismiss(u) == [op |-> "dismiss", user |-> u]
Transfer(u) == [op |-> "transfer", user |-> u]
Place(u, role, s) == [op |-> "place", user |-> u, role |-> role, status |-> s]

NewUser(u, father) == [op |-> "register", user |-> u, father |-> father, active |-> TRUE,
                       image |-> NoRow]
Edit(u, columns) == [op |-> "edit", user |-> u, set |-> columns]
Switch(u, on) == [op |-> "switch", user |-> u, active |-> on]
RejectPhoto(u) == [op |-> "rejectPhoto", user |-> u]
DeleteUser(u) == [op |-> "userRemove", user |-> u]
Rfid(u, by) == [op |-> "rfid", user |-> u, by |-> by, card |-> c1]
Other(r) == [r EXCEPT !.card = f1]    \* with another card
Photo(op, u, f) == [op |-> op, user |-> u, image |-> f, full |-> TRUE]
EditPupil(u, set, row) == [op |-> "pupilEdit", user |-> u, set |-> set, row |-> row]
PupilOff(u) == [op |-> "pupilOff", user |-> u, set |-> [active |-> FALSE],
                row |-> [active |-> FALSE]]
Call(op, u) == [op |-> op, user |-> u]
Father(op, u, p) == [op |-> op, user |-> u, father |-> p]
EditParent(u, on) == [op |-> "parentEdit", user |-> u, set |-> [active |-> on],
                      row |-> [active |-> on]]

Homework(first, last) == [first |-> first, last |-> last, isActive |-> TRUE]
HandIn(u, f) == [op |-> "submit", user |-> u, file |-> f]
Paper(u) == [op |-> "paperCreate", user |-> u, row |-> [file |-> c1, remarks |-> c1]]
Remark(i) == [op |-> "remark", id |-> i, remarks |-> c1]
Correct(i) == [op |-> "correct", id |-> i, file |-> c1]
Exam(hours, passing, total) ==
  [date |-> 2, start |-> hours[1], end |-> hours[2], passing |-> passing, total |-> total,
   isActive |-> TRUE]
Announce(row) == [op |-> "examCreate", row |-> row]
Amend(columns) == [op |-> "examUpdate", set |-> columns]
Grade(us) == [op |-> "result", users |-> us, score |-> 1]
One(op, i) == [op |-> op, id |-> i]

Term(w) == [w EXCEPT !.days = 2]
Assigned == [Empty EXCEPT !.homework = Homework(1, 1)]
Announced == [Empty EXCEPT !.exam = Exam(<<21, 22>>, 1, 2),
                            !.people[cat] = NoRow, !.parents[cat] = NoRow]

Unborn == [Empty EXCEPT !.people = Nobody, !.pupils = Nobody, !.parents = Nobody]
Pictured == [Empty EXCEPT !.people[ann].image = f1,
                          !.details[ann] = [active |-> TRUE, image |-> f1, father |-> NoRow]]
Child == [Empty EXCEPT !.pupils[bob].father = cat]

Active == With("members", [u \in Users |-> IF u = cat THEN NoRow ELSE Member("STUDENT", "ACTIVE")])
Pending == With("members", Only(ann, Member("STUDENT", "PENDING")))
Board == With("staff", [u \in Users |-> CASE u = ann -> [role |-> "PRESIDENT", verified |-> TRUE]
                                          [] u = bob -> [role |-> "MEMBER", verified |-> TRUE]
                                          [] OTHER -> [role |-> "MEMBER", verified |-> FALSE]])

Days ==
  { \* roles, cards and images of members
    Queue(Empty, {Create(ann, "PENDING"), Verify(ann), Plain("phone", ann, "STUDENT"),
                  Plain("bulk", ann, "PARENT"), Plain("rfid", ann, "STUDENT"),
                  Plain("id", ann, "PARENT")}),
    Queue(Active, {Plain("enhanced", cat, "PARENT"), Plain("email", cat, "STUDENT"),
                   Plain("phone", ann, "PARENT"), Set(bob, "role", "PARENT"), Remove(bob)}),
    Queue(Active, {Plain("email", ann, "PARENT"), Plain("id", bob, "TEACHER"), Remove(bob),
                   Create(bob, "PENDING"), Card(ann),
                   Assign("id", bob, "STUDENT", "ACTIVE", f1, FALSE, c1)}),
    Queue(Active, {Card(ann), Card(bob), Plain("enhanced", cat, "PARENT"), Remove(bob)}),
    Queue(Active, {Card(ann), Card(bob), Assign("email", cat, "TEACHER", "ACTIVE", f1, TRUE, NoRow),
                   Plain("id", ann, "TEACHER"), Remove(bob)}),
    Queue(Active, {Image(ann, f1, FALSE), Image(ann, f2, TRUE), Judge(ann, "REJECTED"),
                   Judge(ann, "VERIFIED"), Plain("phone", ann, "TEACHER")}),
    Overlap(Active, {Image(ann, f1, FALSE), Image(ann, f2, FALSE), Judge(ann, "VERIFIED"),
                     Judge(ann, "REJECTED")}),
    Overlap(Active, {Image(ann, f1, FALSE), Image(ann, f2, FALSE), Judge(ann, "REJECTED"),
                     Assign("email", ann, "TEACHER", "ACTIVE", f2, TRUE, c1)}),
    Overlap(Pending, {Verify(ann), Set(ann, "status", "INACTIVE"), Card(ann), Remove(ann)}),
    Queue(Pending, {Verify(ann), Set(ann, "status", "INACTIVE"), Set(ann, "status", "ACTIVE")}),
    Overlap(Empty, {Create(ann, "PENDING"), Plain("phone", ann, "TEACHER"),
                    Set(ann, "status", "INACTIVE")}),
    Overlap(Pending, {Image(ann, f1, FALSE), Set(ann, "status", "INACTIVE"),
                      Set(ann, "role", "TEACHER"), Judge(ann, "VERIFIED")}),
    Overlap(Empty, {Plain("bulk", ann, "STUDENT"), Plain("phone", ann, "TEACHER"),
                    Create(ann, "PENDING")}),
    \* enrolments
    Queue(Active, {Enrol("self", ann), Confirm(ann, TRUE), Enrol("code", ann), Unroll(ann),
                   Door(c1), Enrol("teacher", ann)}),
    Queue(Active, {Enrol("code", bob), Door(c1), Door(NoRow), Held(bob), Confirm(bob, FALSE),
                   Enrol("manual", bob)}),
    Queue(Active, {Enrol("teacher", ann), Enrol("manual", cat), Clear({ann, bob}),
                   Enrol("self", cat), Roll(ann, FALSE)}),
    Overlap(Active, {Enrol("self", ann), Enrol("teacher", ann), Confirm(ann, FALSE)}),
    Queue(Active, {Enrol("teacher", ann), Roll(ann, FALSE), Sit("teacher", ann), Unroll(ann),
                   Sit("create", ann), SeatUpdate(ann), Leave(ann)}),
    Queue(Active, {Enrol("teacher", ann), Sit("self", ann), Settings(TRUE, 1),
                   Settings(TRUE, 2), Settings(FALSE, 1), Roll(ann, FALSE)}),
    Queue(Active, {Enrol("teacher", ann), Sit("self", ann), Sit("bulk", ann), Settings(TRUE, 1),
                   Settings(FALSE, 1), Leave(ann)}),
    Overlap(Active, {Settings(TRUE, 1), Settings(FALSE, 1), Settings(TRUE, 2)}),
    Overlap(Active, {Enrol("self", ann), Set(ann, "status", "INACTIVE"), Confirm(ann, TRUE),
                     Sit("teacher", ann), Roll(ann, FALSE), Enrol("manual", ann)}),
    Queue(Active, {Enrol("self", ann), Set(ann, "status", "INACTIVE"), Confirm(ann, TRUE),
                   Sit("create", ann), Sit("teacher", ann), Unroll(ann), Roll(ann, FALSE)}),
    \* an organization
    Queue(Empty, {Found(ann, TRUE), Add(bob), Transfer(bob), Staffer("changeRole", ann),
                  Dismiss(ann), Transfer(cat)}),
    Overlap(Board, {Transfer(bob), Transfer(cat), Dismiss(ann), Staffer("changeRole", ann)}),
    Overlap(Board, {Transfer(bob), Dismiss(bob), Staffer("assignRole", cat), Add(bob)}),
    Overlap(Board, {Staffer("assignRole", ann), Transfer(bob), Add(cat), Dismiss(bob)}),
    Overlap(Board, {Transfer(bob), Transfer(cat), Transfer(ann), Staffer("changeRole", bob),
                    Dismiss(cat), Place(bob, "TEACHER", "ACTIVE"), Remove(bob)}),
    Overlap(Board, {Crown("assignRole", bob), Crown("changeRole", cat), Crown("add", bob),
                    Transfer(cat), Dismiss(bob)}),
    Overlap(Empty, {Found(ann, TRUE), Add(bob), Transfer(bob), Staffer("changeRole", ann)}),
    Queue(Empty, {Found(ann, FALSE), Add(ann), Add(bob), Transfer(bob), Transfer(ann)}),
    Queue(Board, {Place(bob, "STUDENT", "ACTIVE"), Place(bob, "TEACHER", "PENDING"),
                  Place(cat, "STUDENT", "ACTIVE"), Create(bob, "PENDING"), Remove(bob),
                  Set(bob, "status", "INACTIVE")}),
    \* users and their profiles
    Sure(Queue(Unborn, {NewUser(cat, NoRow), NewUser(ann, cat), NewUser(ann, ann),
                        Photo("photo", ann, f1), Switch(ann, FALSE)})),
    Sure(Queue(Pictured, {DeleteUser(ann), Photo("ownPicture", ann, f2), Father("link", bob, ann),
                          Rfid(bob, ann), Photo("photo", ann, f2)})),
    Overlap(Unborn, {NewUser(cat, NoRow), NewUser(ann, cat), NewUser(bob, cat),
                     DeleteUser(cat)}),
    Overlap(Child, {NewUser(ann, cat), DeleteUser(ann), Call("parentRemove", cat),
                    Father("linkByPhone", bob, cat)}),
    Sure(Queue(Pictured, {Photo("ownPicture", ann, f2), Photo("photo", ann, c1),
                          RejectPhoto(ann), Edit(ann, [active |-> FALSE])})),
    Sure(Queue(Pictured, {Photo("photo", ann, f1), Photo("picture", ann, f2), PupilOff(ann),
                          Photo("picture", ann, f1), Switch(ann, TRUE)})),
    Queue(Pictured, {Call("pupilPhoto", ann) @@ [image |-> f2], PupilOff(ann), RejectPhoto(ann),
                     DeleteUser(ann), Photo("ownPicture", ann, f1)}),
    Overlap(Pictured, {RejectPhoto(ann), Switch(ann, FALSE), Photo("photo", ann, f2)}),
    Overlap(Pictured, {Switch(ann, FALSE), Switch(ann, TRUE), Edit(ann, [active |-> FALSE])}),
    Overlap(Pictured, {Switch(ann, FALSE), EditParent(ann, FALSE), RejectPhoto(ann),
                       EditPupil(ann, [active |-> TRUE], << >>)}),
    Overlap(Pictured, {Switch(ann, TRUE), RejectPhoto(ann), DeleteUser(ann)}),
    Overlap(Empty, {Rfid(ann, cat), Rfid(bob, cat), DeleteUser(ann)}),
    Overlap([Empty EXCEPT !.people[ann].card = c1],
            {Switch(ann, TRUE), Other(Rfid(ann, ann)), Rfid(bob, bob)}),
    Overlap(Pictured, {Switch(ann, TRUE), DeleteUser(ann), NewUser(ann, NoRow)}),
    Sure(Queue(Child, {Call("unlink", bob), Father("link", bob, ann), Father("link", ann, bob),
                       Father("linkByPhone", bob, cat), EditPupil(bob, << >>, [father |-> bob]),
                       Call("parentRemove", ann)})),
    Sure(Queue(Child, {EditParent(ann, FALSE), Father("linkByPhone", ann, cat),
                       EditPupil(ann, [active |-> FALSE], [father |-> cat]),
                       Call("pupilRemove", bob), Call("unlink", bob)})),
    \* coursework
    Queue(Assigned, {HandIn(ann, f1), HandIn(ann, f2), Correct(1), Remark(1), HandIn(bob, f1)}),
    Term(Queue(Assigned, {HandIn(ann, f1), [op |-> "homeworkUpdate", set |-> [last |-> 2]],
                     [op |-> "homeworkRemove"], Paper(ann), One("paperRemove", 1)})),
    Term(Queue(Empty, {[op |-> "homeworkCreate", row |-> Homework(2, NoRow)], HandIn(ann, f1),
                       [op |-> "paperUpdate", id |-> 1, set |-> [isActive |-> FALSE]],
                       HandIn(ann, f2), DeleteUser(ann)})),
    Overlap(Assigned, {HandIn(ann, f1), HandIn(ann, f2), Correct(1), One("paperRemove", 1)}),
    Term(Queue(Empty, {Announce(Exam(<<1, 2>>, 1, 3)), Amend([passing |-> 2]), Amend([total |-> 2]),
                       Amend([date |-> 1, start |-> 3]), One("examRemove", 1)})),
    Queue(Announced, {Amend([passing |-> 2, total |-> 3]), Amend([total |-> 1]),
                      Amend([isActive |-> FALSE]), Grade({ann, cat}),
                      One("resultRemove", 1), One("examRemove", 1)}),
    Overlap(Announced, {Amend([passing |-> 2]), Amend([total |-> 2]), Grade({ann, bob}),
                        One("resultUpdate", 1) @@ [score |-> 2], One("examRemove", 1)}),
    \* users who go
    Overlap(Active, {DeleteUser(ann), Enrol("self", ann), Plain("phone", ann, "TEACHER")}),
    Overlap([Active EXCEPT !.rolls[bob] = [NewRoll EXCEPT !.isVerified = TRUE]],
            {Call("pupilRemove", bob), Sit("teacher", bob), Enrol("manual", bob)}),
    Overlap(Board, {DeleteUser(ann), Transfer(bob), Staffer("changeRole", bob)}),
    Overlap(Empty, {DeleteUser(ann), Create(ann, "PENDING"), Plain("bulk", ann, "PARENT")}) }
=============================================================================
