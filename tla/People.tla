------------------------------- MODULE People -------------------------------
(***************************************************************************)
(* Users, their student and parent profiles (src/modules/user, student,    *)
(* parent) and the cached details of users.  A student has one parent      *)
(* column here, the father; mother and guardian are handled alike.  Users  *)
(* are told apart by their e-mail address, which is unique.                *)
(***************************************************************************)
EXTENDS InstituteMembers, Sequences

CONSTANTS Values,     \* what an image, a card or a text may be
          RowNumber   \* the user whose id equals the id of a user's row in
                      \* parents, or NoRow: the table counts its own rows

VARIABLES pupils,     \* students
          parents,    \* parents
          details,    \* user:details, a cached copy of what the tables say
          erased      \* files deleted from the storage

profileVars == <<pupils, parents, details, erased>>
peopleVars == <<people, profileVars>>

Pupil(u) == pupils[u] # NoRow
Parent(u) == parents[u] # NoRow

PersonRows == [active : BOOLEAN, image : Values, card : Values]
PupilRows  == [active : BOOLEAN, father : Users \cup {NoRow}]
ParentRows == [active : BOOLEAN]

UserOps == {"register", "edit", "userRemove", "switch", "rejectPhoto", "rfid", "photo",
            "ownPicture", "picture"}
ProfileOps == {"pupilEdit", "pupilOff", "pupilRemove", "pupilPhoto", "unlink", "link",
               "linkByPhone", "parentEdit", "parentRemove"}

\* What the keys of the tables demand: a profile is a user's, a father is a
\* parent, and a card has one holder.  Nobody is cached who is not there.
ASSUME PeopleWorldsAssumption ==
  /\ NoRow \in Values
  /\ NoRow \notin PersonRows /\ NoRow \notin PupilRows /\ NoRow \notin ParentRows
  /\ \A w \in Worlds :
       /\ w.at.people \in [Users -> PersonRows \cup {NoRow}]
       /\ w.at.pupils \in [Users -> PupilRows \cup {NoRow}]
       /\ w.at.parents \in [Users -> ParentRows \cup {NoRow}]
       /\ DOMAIN w.at.details = Users
       /\ \A u \in Users :
            /\ w.at.pupils[u] # NoRow \/ w.at.parents[u] # NoRow => w.at.people[u] # NoRow
            /\ w.at.details[u] # NoRow => w.at.people[u] # NoRow
            /\ w.at.pupils[u] # NoRow /\ w.at.pupils[u].father # NoRow
                 => w.at.parents[w.at.pupils[u].father] # NoRow
       /\ OneHolder(w.at.people)
       /\ \A r \in w.calls :
            /\ r.op \in UserOps \cup ProfileOps => r.user \in Users
            /\ r.op \in {"register", "switch"} => r.active \in BOOLEAN
            /\ r.op \in {"register", "photo", "picture", "ownPicture", "pupilPhoto"}
                 => r.image \in Values
            /\ r.op = "rfid" => r.card \in Values
            /\ r.op = "register" => r.father \in Users \cup {NoRow}
            /\ r.op \in {"link", "linkByPhone"} => r.father \in Users
            /\ r.op \in {"edit", "pupilEdit", "pupilOff", "parentEdit"}
                 => Fits(r.set, PersonRows) /\ "card" \notin DOMAIN r.set
            /\ r.op \in {"pupilEdit", "pupilOff"} => Fits(r.row, PupilRows)
            /\ r.op = "parentEdit" => Fits(r.row, ParentRows)

PeopleInit == /\ people = world.at.people
              /\ pupils = world.at.pupils /\ parents = world.at.parents
              /\ details = world.at.details /\ erased = {}

UpdateUser(u, columns) ==
  people' = IF Known(u) THEN [people EXCEPT ![u] = columns ++ @] ELSE people

-----------------------------------------------------------------------------
(* refreshUserCache reads a user's rows and stores them, whatever was      *)
(* cached; it never fails its caller.                                      *)

Snapshot(u) == [active |-> people[u].active, image |-> people[u].image,
                father |-> IF Pupil(u) THEN pupils[u].father ELSE NoRow]

\* Go on by caching these users one after the other, then with a step.
Cache(r, users, then, old) ==
  GoOn(r, "refresh", [users |-> users, row |-> NoRow, then |-> then, old |-> old])

Cached(r) == IF Tail(held[r].users) # <<>>
             THEN GoOn(r, "refresh", [held[r] EXCEPT !.users = Tail(@)])
             ELSE GoOn(r, held[r].then, held[r].old)

\* A user who was not cached is cached by the call that missed him, unless
\* another was quicker.
FetchDetails(r) ==
  /\ At(r, r.op, "refresh")
  /\ LET u == Head(held[r].users)
     IN IF ~Known(u) \/ (held[r].then \in {"find", "stored"} /\ details[u] # NoRow)
        THEN Cached(r)
        ELSE GoOn(r, "cache", [held[r] EXCEPT !.row = Snapshot(u)])
  /\ UNCHANGED peopleVars

Refreshed_Mutant(old, fresh) == IF old = NoRow THEN fresh ELSE old
Refreshed(old, fresh) == fresh

StoreDetails(r) ==
  /\ At(r, r.op, "cache")
  /\ Cached(r)
  /\ LET u == Head(held[r].users)
     IN \/ details' = [details EXCEPT ![u] = Refreshed(@, held[r].row)]
        \/ world.faulty /\ UNCHANGED details
  /\ UNCHANGED <<people, pupils, parents, erased>>

-----------------------------------------------------------------------------
(* Registration: one transaction writes users, students and parents.       *)

\* The e-mail address is the key: while another transaction holds it, an
\* INSERT waits; if it is taken, everything is rolled back.
Registering(u) == \E q \in Underway("register") : q.user = u

InsertUser(r) ==
  /\ At(r, "register", "start")
  /\ ~Registering(r.user)
  /\ IF Known(r.user) THEN End(r) ELSE GoOn(r, "profiles", NoRow)
  /\ UNCHANGED peopleVars

Studies(u) == UserType[u] \in {"USER", "USER_WITHOUT_PARENT"}
Raises(u) == UserType[u] \in {"USER", "USER_WITHOUT_STUDENT"}

\* A father must have a row in parents; the INSERT holds that row.
InsertProfiles(r) ==
  /\ At(r, "register", "profiles")
  /\ IF Studies(r.user) /\ r.father # NoRow /\ ~Parent(r.father)
     THEN End(r) ELSE GoOn(r, "commit", NoRow)
  /\ UNCHANGED peopleVars

\* The user is cached before the commit, from another connection, which does
\* not see the rows yet: nothing is stored.
Register(r) ==
  /\ At(r, "register", "commit")
  /\ End(r)
  /\ \/ /\ people' = [people EXCEPT ![r.user] = [active |-> r.active, image |-> r.image,
                                                 card |-> NoRow]]
        /\ pupils' = IF Studies(r.user) THEN [pupils EXCEPT ![r.user] =
                                                [active |-> TRUE, father |-> r.father]]
                     ELSE pupils
        /\ parents' = IF Raises(r.user) THEN [parents EXCEPT ![r.user] = [active |-> TRUE]]
                      ELSE parents
     \/ world.faulty /\ UNCHANGED <<people, pupils, parents>>
  /\ UNCHANGED <<details, erased>>

\* A transaction that refers to the row of this parent is under way: its
\* deletion waits.
Referred(u) == \E r \in Underway("register") : pc[r] = "commit" /\ r.father = u

-----------------------------------------------------------------------------
(* A user's row *)

\* A user who is to be removed is taken out of the cache first.
Forget(r) ==
  /\ At(r, "userRemove", "start")
  /\ GoOn(r, "find", NoRow)
  /\ \/ details' = [details EXCEPT ![r.user] = NoRow]
     \/ world.faulty /\ UNCHANGED details
  /\ UNCHANGED <<people, pupils, parents, erased>>

FindUser(r) ==
  /\ At(r, "edit", "start") \/ At(r, "userRemove", "find")
  /\ IF Known(r.user) THEN GoOn(r, "write", NoRow) ELSE End(r)
  /\ UNCHANGED peopleVars

\* Both the service and its controller refresh the cache.
EditUser(r) ==
  /\ At(r, "edit", "write")
  /\ Cache(r, <<r.user, r.user>>, "done", NoRow)
  /\ UpdateUser(r.user, r.set)
  /\ UNCHANGED profileVars

\* activate and deactivate save the whole entity, the rejection of an image
\* one that has this column (and those it does not change).
Selected_Mutant(u) == [people[u] EXCEPT !.image = NoRow]
Selected(u) == [image |-> NoRow]

FindEntity(r) ==
  /\ r.op \in {"switch", "rejectPhoto"} /\ At(r, r.op, "start")
  /\ CASE ~Known(r.user) -> End(r)
       [] Known(r.user) /\ r.op = "switch" ->
            GoOn(r, "save", [people[r.user] EXCEPT !.active = r.active])
       [] OTHER -> GoOn(r, IF people[r.user].image = NoRow THEN "save" ELSE "unlink",
                        [entity |-> Selected(r.user), file |-> people[r.user].image])
  /\ UNCHANGED peopleVars

\* Only a file in the local directory is deleted.
UnlinkPhoto(r) ==
  /\ At(r, "rejectPhoto", "unlink")
  /\ GoOn(r, "save", held[r])
  /\ erased' \in {erased, erased \cup {held[r].file}}
  /\ UNCHANGED <<people, pupils, parents, details>>

CompareUser(r) ==
  /\ r.op \in {"switch", "rejectPhoto"} /\ At(r, r.op, "save")
  /\ GoOn(r, "write", Comparison(IF r.op = "switch" THEN held[r] ELSE held[r].entity,
                                 people[r.user]))
  /\ UNCHANGED peopleVars

\* A card has one holder: the unique key of the column refuses a second.
CardTaken(u, card) == card # NoRow /\ \E v \in Users \ {u} : Known(v) /\ people[v].card = card

\* A user removed meanwhile is inserted again, if the entity is whole.
Refused(r) == \/ KeyTaken(r, people[r.user])
              \/ ~held[r].found /\ r.op = "rejectPhoto"
              \/ "card" \in DOMAIN held[r].set /\ CardTaken(r.user, held[r].set.card)

WriteUser(r) ==
  /\ r.op \in {"switch", "rejectPhoto"} /\ At(r, r.op, "write")
  /\ ~held[r].found => ~Registering(r.user)
  /\ IF Refused(r)
     THEN End(r) /\ UNCHANGED people
     ELSE /\ Cache(r, IF r.op = "switch" THEN <<r.user, r.user>> ELSE <<r.user>>, "done", NoRow)
          /\ people' = [people EXCEPT ![r.user] = Saved(r, @, held[r].set)]
  /\ UNCHANGED profileVars

\* The profiles go with the user, and so do the links to him as a father.
RemoveUser(r) ==
  /\ At(r, "userRemove", "write") /\ ~Referred(r.user)
  /\ End(r)
  /\ people' = [people EXCEPT ![r.user] = NoRow]
  /\ pupils' = [u \in Users |-> CASE u = r.user -> NoRow
                                  [] u # r.user /\ Pupil(u) /\ pupils[u].father = r.user ->
                                       [pupils[u] EXCEPT !.father = NoRow]
                                  [] OTHER -> pupils[u]]
  /\ parents' = [parents EXCEPT ![r.user] = NoRow]
  /\ UNCHANGED <<details, erased>>

\* In one transaction.
FindCardHolder(r) ==
  /\ At(r, "rfid", "start")
  /\ IF Known(r.user) /\ ~CardTaken(r.user, r.card) THEN GoOn(r, "write", NoRow) ELSE End(r)
  /\ UNCHANGED peopleVars

\* What is refreshed is the cache of the caller.
RegisterRfid(r) ==
  /\ At(r, "rfid", "write")
  /\ IF CardTaken(r.user, r.card)
     THEN End(r) /\ UNCHANGED people
     ELSE Cache(r, <<r.by>>, "done", NoRow) /\ UpdateUser(r.user, [card |-> r.card])
  /\ UNCHANGED profileVars

-----------------------------------------------------------------------------
(* A user's photo.  findOne answers from the cache, if it can.             *)

FindShown(r) ==
  /\ r.op \in {"photo", "ownPicture"} /\ At(r, r.op, "start")
  /\ LET then == IF r.op = "photo" THEN "find" ELSE "stored"
     IN \/ /\ details[r.user] # NoRow
           /\ GoOn(r, then, details[r.user].image)
           /\ UNCHANGED details
        \/ /\ IF Known(r.user) THEN Cache(r, <<r.user>>, then, people[r.user].image) ELSE End(r)
           /\ details' = [details EXCEPT ![r.user] = NoRow]    \* never cached, or expired
  /\ UNCHANGED <<people, pupils, parents, erased>>

CheckStored(r) ==
  /\ At(r, "ownPicture", "stored")
  /\ IF r.image \in erased THEN End(r) ELSE GoOn(r, "find", held[r])
  /\ UNCHANGED peopleVars

FindPictured(r) ==
  /\ \/ r.op \in {"photo", "ownPicture"} /\ At(r, r.op, "find")
     \/ At(r, "picture", "start")
  /\ IF Known(r.user) THEN GoOn(r, "write", held[r]) ELSE End(r)
  /\ UNCHANGED peopleVars

\* The old file is deleted unless it is the new one: full addresses are what
\* is compared.
Replaced(r, old) == old # NoRow /\ ~(r.full /\ old = r.image)

UpdateImageUrl(r) ==
  /\ r.op \in {"photo", "picture", "ownPicture"} /\ At(r, r.op, "write")
  /\ CASE r.op = "photo" -> Cache(r, <<r.user>>, IF Replaced(r, held[r]) THEN "clean" ELSE "done",
                                  held[r])
       [] r.op = "picture" -> Cache(r, <<r.user>>, "done", NoRow)
       [] r.op = "ownPicture" -> End(r)
  /\ UpdateUser(r.user, [image |-> r.image])
  /\ UNCHANGED profileVars

\* The key is cut out of the address: it is the file's, or that of no file.
DeleteOld(r) ==
  /\ At(r, "photo", "clean")
  /\ End(r)
  /\ erased' \in {erased, erased \cup {held[r]}}
  /\ UNCHANGED <<people, pupils, parents, details>>

UserStep(r) ==
  \/ FetchDetails(r) \/ StoreDetails(r)
  \/ InsertUser(r) \/ InsertProfiles(r) \/ Register(r)
  \/ Forget(r) \/ FindUser(r) \/ EditUser(r) \/ FindEntity(r) \/ UnlinkPhoto(r) \/ CompareUser(r)
  \/ WriteUser(r) \/ RemoveUser(r) \/ FindCardHolder(r) \/ RegisterRfid(r)
  \/ FindShown(r) \/ CheckStored(r) \/ FindPictured(r) \/ UpdateImageUrl(r) \/ DeleteOld(r)

-----------------------------------------------------------------------------
(* Students *)

FindPupil(r) ==
  /\ r.op \in {"pupilEdit", "pupilOff", "pupilRemove", "pupilPhoto", "unlink"}
  /\ At(r, r.op, "start")
  /\ CASE ~Pupil(r.user) -> End(r)
       [] Pupil(r.user) /\ r.op = "pupilPhoto" ->
            GoOn(r, IF people[r.user].image = NoRow THEN "write" ELSE "erase",
                 people[r.user].image)
       [] Pupil(r.user) /\ r.op = "unlink" -> GoOn(r, "write", pupils[r.user].father)
       [] OTHER -> GoOn(r, "write", NoRow)
  /\ UNCHANGED peopleVars

\* A column that refers to no row of parents rolls the transaction back.
Refers(columns) == "father" \in DOMAIN columns /\ columns.father # NoRow

\* update and softDelete write both rows in one transaction.  update refreshes
\* the cache and commits once more, which answers an error.
WritePupil(r) ==
  /\ r.op \in {"pupilEdit", "pupilOff"} /\ At(r, r.op, "write")
  /\ IF Refers(r.row) /\ Pupil(r.user) /\ ~Parent(r.row.father)
     THEN End(r) /\ UNCHANGED <<people, pupils>>
     ELSE /\ IF r.op = "pupilOff" THEN End(r) ELSE Cache(r, <<r.user>>, "done", NoRow)
          /\ UpdateUser(r.user, r.set)
          /\ pupils' = IF Pupil(r.user) THEN [pupils EXCEPT ![r.user] = r.row ++ @] ELSE pupils
  /\ UNCHANGED <<parents, details, erased>>

RemovePupil(r) ==
  /\ At(r, "pupilRemove", "write")
  /\ End(r)
  /\ pupils' = [pupils EXCEPT ![r.user] = NoRow]
  /\ UNCHANGED <<people, parents, details, erased>>

\* The old file goes first, whatever the new one is.
EraseImage(r) ==
  /\ At(r, "pupilPhoto", "erase")
  /\ GoOn(r, "write", NoRow)
  /\ erased' \in {erased, erased \cup {held[r]}}
  /\ UNCHANGED <<people, pupils, parents, details>>

UpdatePupilImage(r) ==
  /\ At(r, "pupilPhoto", "write")
  /\ End(r)
  /\ UpdateUser(r.user, [image |-> r.image])
  /\ UNCHANGED profileVars

\* Nothing is looked up: the update of no row succeeds, an unknown father fails.
Link(r) ==
  /\ At(r, "link", "start")
  /\ IF Pupil(r.user) /\ ~Parent(r.father)
     THEN End(r) /\ UNCHANGED pupils
     ELSE /\ Cache(r, <<r.user, r.father>>, "done", NoRow)
          /\ pupils' = IF Pupil(r.user) THEN [pupils EXCEPT ![r.user].father = r.father] ELSE pupils
  /\ UNCHANGED <<people, parents, details, erased>>

Unlink(r) ==
  /\ At(r, "unlink", "write")
  /\ Cache(r, IF held[r] = NoRow THEN <<r.user>> ELSE <<r.user, held[r]>>, "done", NoRow)
  /\ pupils' = IF Pupil(r.user) THEN [pupils EXCEPT ![r.user].father = NoRow] ELSE pupils
  /\ UNCHANGED <<people, parents, details, erased>>

\* assignParentByPhone: an active user who only raises, a row in parents, a
\* student whose father is free.
CheckLink(r) ==
  /\ \/ /\ At(r, "linkByPhone", "start")
        /\ IF Known(r.father) /\ people[r.father].active
              /\ UserType[r.father] = "USER_WITHOUT_STUDENT"
           THEN GoOn(r, "parent", NoRow) ELSE End(r)
     \/ /\ At(r, "linkByPhone", "parent")
        /\ IF Parent(r.father) THEN GoOn(r, "pupil", NoRow) ELSE End(r)
     \/ /\ At(r, "linkByPhone", "pupil")
        /\ IF Pupil(r.user) /\ pupils[r.user].father = NoRow
           THEN GoOn(r, "write", NoRow) ELSE End(r)
  /\ UNCHANGED peopleVars

LinkByPhone(r) ==
  /\ At(r, "linkByPhone", "write")
  /\ End(r)
  /\ pupils' = IF Pupil(r.user) /\ Parent(r.father)
               THEN [pupils EXCEPT ![r.user].father = r.father] ELSE pupils
  /\ UNCHANGED <<people, parents, details, erased>>

-----------------------------------------------------------------------------
(* Parents *)

FindParent(r) ==
  /\ r.op \in {"parentEdit", "parentRemove"} /\ At(r, r.op, "start")
  /\ IF Parent(r.user) THEN GoOn(r, "write", NoRow) ELSE End(r)
  /\ UNCHANGED peopleVars

\* update and softDelete give the user's id where the row's own is asked: the
\* row they write is the one with that number.
WriteParent(r) ==
  /\ At(r, "parentEdit", "write")
  /\ End(r)
  /\ UpdateUser(r.user, r.set)
  /\ parents' = [u \in Users |-> IF Parent(u) /\ RowNumber[u] = r.user THEN r.row ++ parents[u]
                                 ELSE parents[u]]
  /\ UNCHANGED <<pupils, details, erased>>

RemoveParent(r) ==
  /\ At(r, "parentRemove", "write") /\ ~Referred(r.user)
  /\ End(r)
  /\ parents' = [parents EXCEPT ![r.user] = NoRow]
  /\ pupils' = [u \in Users |-> IF Pupil(u) /\ pupils[u].father = r.user
                                THEN [pupils[u] EXCEPT !.father = NoRow] ELSE pupils[u]]
  /\ UNCHANGED <<people, details, erased>>

ProfileStep(r) ==
  \/ FindPupil(r) \/ WritePupil(r) \/ RemovePupil(r) \/ EraseImage(r) \/ UpdatePupilImage(r)
  \/ Link(r) \/ Unlink(r) \/ CheckLink(r) \/ LinkByPhone(r)
  \/ FindParent(r) \/ WriteParent(r) \/ RemoveParent(r)

PeopleStep(r) == UserStep(r) \/ ProfileStep(r)

-----------------------------------------------------------------------------
(* Properties                                                              *)

\* Users and profiles have their types; a profile belongs to a user, a father
\* is a parent, and no two users have the same card.
PeopleTypeOK ==
  /\ people \in [Users -> PersonRows \cup {NoRow}]
  /\ pupils \in [Users -> PupilRows \cup {NoRow}]
  /\ parents \in [Users -> ParentRows \cup {NoRow}]
  /\ \A u \in Users : /\ Pupil(u) \/ Parent(u) => Known(u)
                      /\ Pupil(u) /\ pupils[u].father # NoRow => Parent(pupils[u].father)
  /\ OneHolder(people)

\* A user who was deactivated becomes active again only by the write of a call
\* that was asked to make him active: no entity read before, and saved as a
\* whole after it, brings him back.
UserStaysInactive ==
  [][\A u \in Users :
       Known(u) /\ ~people[u].active /\ people'[u] # NoRow /\ people'[u].active
         => \E r \in world.calls :
              /\ r.user = u /\ pc[r] = "write" /\ pc'[r] # "write"
              /\ IF r.op = "switch" THEN r.active
                 ELSE /\ r.op \in {"edit", "pupilEdit", "pupilOff", "parentEdit"}
                      /\ "active" \in DOMAIN r.set /\ r.set.active
    ]_people

\* The files a user may ever show: those of the calls about him and those that
\* are there, also in the cache.  No file is of two users.
Pictures(r) ==
  CASE r.op \in {"register", "photo", "picture", "ownPicture", "pupilPhoto"} -> {r.image}
    [] r.op \in {"edit", "pupilEdit", "pupilOff", "parentEdit"} ->
         {r.set[c] : c \in {"image"} \cap DOMAIN r.set}
    [] OTHER -> {}
FilesOf(u) == {row.image : row \in {world.at.people[u], world.at.details[u]} \ {NoRow}}
              \cup UNION {Pictures(r) : r \in {q \in world.calls : q.op \in UserOps \cup ProfileOps
                                                                  /\ q.user = u}}
OwnFiles == \A u, v \in Users : u # v => FilesOf(u) \cap FilesOf(v) \subseteq {NoRow}

\* Served one after the other and with full addresses, no call deletes a file
\* that a user shows after it, also when the cache answered with an older one:
\* only a rejection does, and leaves him without, and a student's new image,
\* which updateStudentImage does not compare with the old one.
UserImageExists ==
  [][world.serial /\ OwnFiles /\ (\A r \in world.calls : r.op = "photo" => r.full) =>
       /\ \A u \in Users :
            people'[u] # NoRow /\ people'[u].image \in erased' \ erased
              => \E r \in Underway("rejectPhoto") \cup Underway("pupilPhoto") : r.user = u
       /\ \A r \in Underway("rejectPhoto") :
            pc'[r] = "done" /\ people'[r.user] # NoRow => people'[r.user].image = NoRow
    ]_<<erased, pc>>

\* Served one after the other, a call that refreshes cached details leaves what
\* the tables say about the users it names, also when a call that refreshes
\* nothing came before.
RefreshedIsCurrent ==
  [][\A r \in world.calls :
       /\ world.serial /\ ~world.faulty /\ r.op # "rfid"
       /\ pc[r] \in {"refresh", "cache", "clean"} /\ pc'[r] = "done"
       => \A u \in {r.user} \cup (IF r.op = "link" THEN {r.father} ELSE {}) :
            Known(u) => details'[u] = Snapshot(u)]_requestVars

\* Served one after the other, nothing is cached about a user who was removed.
RemovedIsForgotten ==
  world.serial /\ ~world.faulty /\ Quiet => \A u \in Users : details[u] # NoRow => Known(u)
=============================================================================
