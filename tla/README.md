# A TLA+ model of the LMS backend

The program is a NestJS server for schools and tuition institutes: users,
institutes with classes and subjects, enrolments, homework and exams,
attendance, payments, SMS campaigns, private transport, advertisements. It keeps
its state in MySQL through TypeORM, attendance in DynamoDB, cached rows in Redis
or in the memory of the process, and talks to an SMS gateway, a push service,
e-mail and cloud storage. Paths below are relative to `src/` of the program;
`PROJECT.json` names the source lines of every definition.

Almost nothing in this code is hard one request at a time. What is hard:

* **Requests interleave at every `await`.** Most operations read a row, decide,
  and write with another statement. Some take a row lock, most do not.
* **`repository.save(entity)` is three steps**: read the entity, later read the
  row again and compute the columns that differ, then update those. An entity
  read long ago writes old values back into columns its caller never touched,
  inserts a row that was deleted meanwhile, and `cascade: true` does the same
  to related rows.
* **Background jobs are not awaited** and live in memory only.
* **Caches** keep rows for up to thirty minutes, and each writer must refresh
  them itself.
* **The connection pool has three connections**, and some transactions need a
  second one before they release their first.
* **The gateway may accept a message and fail to say so**, and a batch write to
  DynamoDB may leave items unprocessed.
* **Long series of legal calls** meet in one row: an assignment in a second
  role, a deactivation followed by a verification, a key withdrawn and renewed.

## 1. Inventory

| Component | State | Operations | Interacts with | What makes it correct | Module |
|---|---|---|---|---|---|
| Instant SMS (`sms/services/instant-sms.service.ts`) | `sms_credits` row, campaigns, running jobs | send single, send bulk, top up, enquire | gateway; row lock of sends, ignored by top-ups | never overdrawn, nothing delivered unpaid, campaigns settle | InstantSms |
| Sender masks (`sender-mask-validation.service.ts`) | `sender_masks` | create, approve, reject, suspend, set default | all save whole entities | one owner, one default, suspension holds | SenderMask |
| SMS credentials (`sms.service.ts`) | credits and masks, cache of 30 minutes | create mask, deduct, invalidate | campaigns read the cache | columns of others are kept | SmsCredentials |
| SMS campaigns (`sms.service.ts`, `sms-provider.service.ts`) | messages, jobs in memory | compose, approve, reject, send, charge | credentials, gateway | sent once, paid, rejected is not sent, approved settles | SmsCampaign |
| SMS payments (`sms.service.ts`) | submissions, connection pool | submit, verify | credentials | verified iff granted, once | SmsPayment |
| Institute payments (`payment`) | payment requests, submissions | submit, verify, update | cascade to submissions | decided once, amount fixed | InstituteFees |
| Class-subject payments | payment requests, submissions | submit, verify, delete, update | — | one slip each, verdicts stand | SubjectFees |
| Subscription payments | payments, plan and expiry | create, verify | row locks; user cache on a second connection | a plan is paid, granted once | Subscriptions |
| Contact OTPs (`user-otp.service.ts`) | `user_otps` | request, request again, verify | e-mail, SMS | a daily limit, one live code, accepted once | ContactCodes |
| First login, password reset and change (`auth`) | password, code rows, cached index | issue, verify, complete, set, reset, change, log in | caches, background refresh | a code sets one password, the newest only, guesses limited | Passwords |
| Sessions (`auth.service.ts`) | refresh tokens | log in, refresh, sign out, sweep | user and institute status | a token that was used or revoked stays dead | Sessions |
| Institute membership (`institue_user`) | `institute_user`, cards, images | every way to assign, verify, deactivate, remove, card, image | users, organizations, storage | roles fit, deactivated stays so, images and cards are whose they say | InstituteMembers |
| Users, students, parents | rows, profiles, photos, cached details | register, edit, activate, remove, link, cards, photos | members and enrolments refer to them | nobody comes back, photos exist, the cache follows | People |
| Class and subject enrolment | link rows, codes and keys | enrol, assign, verify, update, remove, switch on and off | each other, members | verified stays verified, a seat needs its class, a withdrawn key is dead | ClassEnrolment, SubjectEnrolment |
| Organizations | members with roles | found, add, change role, remove, transfer, place | members of the institute | one president, who hands over | Organizations |
| Homework, exams, results | homework, papers, exam, results | create, hand in, review, correct, change, mark, remove | users | a correction stays, one paper, an exam that can be passed | Coursework |
| Attendance and notifications | DynamoDB records, tasks | mark by id, card, RFID, in bulk; tell parents | members, advertisements | what is reported is stored, parents are told | Attendance, Notices |
| Advertisements | rows, cached list | create, update, delete, match, count, send | notices | limits hold, the list is current | Advertising |
| Bookhires, enrolments, their attendance | vehicles, enrolments, records | approve, enrol, cancel, mark | — | one enrolment, only enrolled are marked | Rides |
| Uploads and storage (`upload.controller.ts`, `cloud-storage.service.ts`, `file-proxy.service.ts`) | the bucket, signed addresses, `image_url` of classes and organizations | sign, upload, verify and publish, serve, set an image | clients write to the bucket directly | what is published is sound, an image that is shown is there | Uploads |
| Institutes, classes, subjects, lectures, push, e-mail, guards, audit, id cards | single rows, I/O | — | — | — | not modelled |

`PROJECT.json` says of each what is modelled and what is not. Its `hazards` are
the places where the points above bite, each with the properties that watch it.

## 2. Modules

```
CreditLedger (abstract) <== InstantSms --+-- MCInstantSms
                                         +-- InstantSmsProofs
Calls --+-- SenderMask --------------------------+
        +-- SmsCredentials --+-- SmsPayment -----+-- Sms --+-- MCSms
        |                    +-- SmsCampaign ----+         +-- SmsProofs
        +-- InstituteFees --+
        +-- SubjectFees ----+-- Fees --+-- MCFees
        +-- Subscriptions --+          +-- SubjectFeesProofs -- FeesProofs
        +-- ContactCodes --+
        +-- Passwords -----+-- Accounts --+-- MCAccounts
        +-- Sessions ------+              +-- AccountsProofs
        +-- Requests --+-- InstituteMembers --+-- People ------- Coursework --+
            (EntitySave)                      +-- ClassEnrolment              +-- School --+-- MCSchool
                       |                      |   +-- SubjectEnrolment -------+            +-- SchoolProofs
                       |                      +-- Organizations --------------+
                       |                      +-- Attendance --+
                       +-- Advertising -- Notices -------------+-- Services --+-- MCServices
                       +-- Rides ------------------------------+              +-- ServicesProofs
                       +-- Uploads ----------------------------+
                       +-- RequestProofs, which ServicesProofs and SchoolProofs extend
```

**Conventions.** An actor is one call of a service method. An action is the code
between two awaits on a shared resource: its guard is the tests made there, its
effect everything written there. MySQL runs at its default isolation: a plain
SELECT takes no lock, an UPDATE waits for row locks, a transaction that fails
leaves nothing. Access checks are taken as passed. Amounts, names, texts and
dates are small numbers or model values.

`Calls` gives a run several small *worlds* instead of one large instance: a
world says which calls come, whether they are served one after the other
(`serial`), and whether statements fail or the process crashes (`faulty`). A
property that the code only keeps for calls one after the other says so
(`world.serial => ...`); the rest hold under every overlap. In the SMS, fee and
account modules each kind of call is a set of its own, in `Requests` and what
rests on it a call is a record whose `op` names the handler; `pc[r]` is its next
step and `held[r]` what its local variables remember; `columns ++ row` is a row
with columns changed. `EntitySave` and
`Comparison`/`Saved` of `Requests` are TypeORM's `save`.

* **InstantSms.** `row` is the `sms_credits` row, `lock` the holder of its
  `FOR UPDATE` lock, `pc` where each call is, `snap` what a call read, `campaign`
  the campaign rows, `delivered` what the gateway accepted. `LockCredit` and
  `Deduct` are `deductCredits` before and after its lock; `CreateCampaign` to
  `MarkFailed` are the campaign row and the background job with its catch block;
  `ReadForTopup` and `CommitTopup` are `topupCredits`, which takes no lock;
  `ViewBalance`, `ReloadForSave`, `SaveEmpty` are the enquiry that creates a
  missing account. `charged`, `granted` and `paid` record commits for the
  properties. `totalUsed += amount` on a DECIMAL read as a string is modelled as
  what it does: it appends digits, and the column rounds.
* **CreditLedger** is what an account promises: charge once, within what is
  available, deliver only what is charged. InstantSms without top-ups implements it.
* **SenderMask.** `masks` are the rows, `held` the entity each call read, `dirty`
  the columns its save found to differ. Two phases of `save` are two actions.
* **SmsCredentials.** `creds` and `cache`; `createSenderMask` finds, creates or
  saves the row. **SmsPayment** adds the submissions, the decision, its
  transaction and the pool; **SmsCampaign** the messages, the check against the
  cached row, approval and rejection, the job, batches, charging, the status.
  **Sms** runs masks, payments and campaigns together: the last two meet in the
  row of credits.
* **InstituteFees.** `fee` and `receipts` are a payment request and its
  submissions; `feeHeld` the entities a call holds, `feeDirty` what its save will
  write. `ReadFee`, `DiffFee`, `WriteFee` are `updatePayment`, whose save
  cascades to the submissions it read; a submission it does not know is an
  orphan that would have to be detached, which NOT NULL forbids.
* **SubjectFees.** Submissions until the last date; a verified row that was
  deleted in between is inserted again by `save` (`reinsert`).
* **Subscriptions.** One user's payments by month. `locker` is the row lock of
  the transaction, which commits payment and plan together; `RefreshUser` is the
  cache refresh that takes another connection inside it. `plan` names the
  payment that last set plan and expiry. **Fees** runs the three services.
* **ContactCodes.** A row per request, named by it; e-mail and telephone take the
  same steps. The daily counts are read before the INSERT. **Passwords.** A code
  is named by the call that issues it, a password by the call that sets it;
  `job` is the refresh nobody waits for, the cached index what a login is judged
  by. **Sessions.** A token is signed over the user and the second of its issue,
  so two tokens of one second are one string; rows are named by their issuer.
* **InstituteMembers.** One row for a user and an institute, whatever the role,
  as the primary key has it. The seven ways to assign differ in how they look the
  user up and what they test; each ends in a `save` of one row (`CompareMember`,
  `WriteMember`), the bulk form falls back to one after the other. `deleted` and
  `approved` record what became of images.
* **People.** `people`, `pupils`, `parents` are the three tables, `details` the
  cached details. Registration is one transaction (`InsertUser`,
  `InsertProfiles`, `Register`), in which rows it refers to are locked. Each
  handler refreshes the cache, or forgets to, as in the source.
* **ClassEnrolment**, **SubjectEnrolment.** `rolls` and `seats`, the `door` by
  which a code lets students in, the `entry` key of a subject with its versions.
* **Organizations.** `staff` with roles; a transfer of the presidency demotes and
  promotes in one transaction under row locks (`transfer`).
* **Coursework.** `homework`, `papers`, `exam`, `results`, and the `day`. Papers
  and results are sequences by generated id. Handing in is a look, then a save of
  the row found or an INSERT.
* **School** is these six together. `Cascade` is ON DELETE CASCADE: a user who
  is removed takes the rows that refer to him along, in every module.
* **Attendance**, **Notices**, **Advertising**, **Rides**, **Uploads**, together **Services.**
  A mark is a record with a new key; a batch may leave items unprocessed. Each
  mark starts a task that chooses an advertisement, then sends on each channel
  of the student's package, with retries. `marks`, `told`, `trips` are records
  that arrived; `reported` is what the answers said. `files` is the bucket, which
  clients write to through `links`, `published` the files whose public address was
  answered.

## 3. Runs

| Run | Instance | Question and answer |
|---|---|---|
| `instant_sends` | 3 senders (two bulk), 2 enquiries, statements fail, 1 crash | Exact books (`LedgerExact`), nothing delivered unpaid, no false SUCCESS in bulk, refinement of CreditLedger. Holds. |
| `instant_mixed` | 2 senders, 2 top-ups, 1 enquiry, fair | With unlocked top-ups the balance is never negative or below what the row says was bought; campaigns settle and calls end. Holds. |
| `sms` | 13 worlds: 2 masks and 5 calls, 2 payments and 3 decisions, 2 messages, deciders, a new mask, a crash | `MasksHold`, `ListingHolds`, `GrantsSettled`, `ChargesAddUp`, `SentSoundly`, `JobsEnd`. Holds. |
| `fees` | 8 worlds of 1 to 3 submissions, 2 or 3 verdicts, an update, a deletion | One open submission each, whole verdicts that stand, a plan is paid and granted by verifying, bills end. Holds. |
| `accounts` | 16 worlds of up to 5 calls: codes over 2 days, ways to set a password, tokens | `OtpSound`, `CodesHold`, login after setup, a dead token stays dead. Holds. |
| `school` | 59 worlds of up to 7 requests of 3 users | Members, cards and images, presidency, enrolments, cached details, coursework. Holds. |
| `services` | 24 worlds of up to 6 requests | Marks, notices, advertisements, rides, uploads. Holds. |
| `instant_topup_race` | 1 send, 1 top-up | `BalanceTracked` is violated: a top-up overwrites a deduction (the SMS README promises pessimistic locking). |
| `payment_twice` | 2 decisions overlapping | `GrantedOnce` is violated: credits are granted twice. |
| `campaign_overspend` | 2 messages composed before either is sent | `CreditsAvailable` is violated: both pass the check at composing, the first job uses the credits the second was judged by. |
| `fee_revert` | an update and a verdict overlapping | `DecisionsHold` is violated: the verified submission is PENDING again. |
| `attendance_lost` | a bulk mark, items unprocessed | `ReportedIsStored` is violated: the answer reports a mark that was not stored. |

Several properties of one area are checked under one name, each part stated and
commented in the module of its component:

* `MasksHold`: `OwnerKept` under every overlap; `OneDefault` and `SuspensionKept`
  for calls in a row. `ListingHolds`: a message is composed with a mask that was
  listed, and a listed mask is lost only to a call of createSenderMask that met its own. `GrantsSettled`: `VerifiedIffGranted`,
  `GrantsKept`. `SentSoundly`: `SentOnce`, `RejectedUnsent`, `SentIsPaid`.
  `JobsEnd`: approved messages settle, verifications end.
* `OneAtATime`: one pending receipt, one slip, one bill a month.
  `WholeVerdict`: status and verifier of a slip come from one verification, but
  for a case that takes three (section 4).
  `VerdictsStand`: no later call undoes what was decided or the amount that was paid.
* `OtpSound`: `DailyLimit`, `OneLiveCode`, `AcceptedOnce`. `CodesHold`:
  `CodeSetsOne`, `NewestCodeOnly`, `GuessesLimited`. `LoginAfterSetup`: no login
  with the new password is refused where no statement fails.
* `CardsAndImages`: an image shown as verified was approved, an image shown was
  not deleted, cards are unique. `MembersHold`: a deactivated member or user is
  not active again unless somebody asks for it, a student does not become a
  parent in the same institute, an organization's placement changes no member. `PresidencyHolds`: at most
  one president, and a president goes only by handing over. `EnrolmentsHold`: a
  verified enrolment was verified by somebody entitled and stays so, a seat needs
  its class, a withdrawn key is dead. `DetailsHold`: a refresh stores what the
  tables say, a removed user is forgotten, and no call deletes a photo that its user
  shows after it (`UserImageExists`, with its two exceptions). `CourseworkHolds`: `MarksSound`,
  `OnePaper`, `CorrectionKept`.
* `AdsChosen`: one for everybody first, limits kept by single marks without the
  cache, the list is current.
  `MarksHold`: as long as a batch is written as a whole or not at all, every
  mark an answer reports is stored (`WholeIsStored`), and parents are told of marks
  that are stored, and of presence only if that was marked (`ToldIsMarked`).
  `FilesHold`: a file that was published, and uploaded once, is public and, on S3,
  neither empty nor too large (`PublishedIsSound`); the image of a class or an
  organization is there (`ImageExists`). `OneRide`: one approved
  enrolment, and it lets the student ride. `OnlyEnrolled`: only active members and
  enrolled students are marked; a ride whose student could not be read is the one
exception, and has a day of its own with failing statements. `EventuallyTold`: with no fault, and
  advertisements that support every platform, the reachable parents of every
  student reported as marked are told in the end.

**Bounds.** Two calls on one row show every lost update, a third shows what a
stale entity does to a later call; the transaction that needs a second
connection is examined on a pool of three. Amounts are chosen so that one
request fits and two do not, and that a leading digit is below and above 5.
Counters are bounded by `MaxCrashes`, `LastDay`, `LastSecond`, and `days` of a
world; retries by the packages of the source. In `school`, three users are one
of each type of profile. Worlds put together calls that meet in a row and leave
out those that cannot; every action and disjunct is taken in some world. The
runs have 59,000 to 707,000 distinct states (`services` 38,000). Symmetry is used
in `instant_sends` only, which checks safety only. Every property of a passing
run is shown to be able to fail by a mutant, an operator `..._Mutant` beside the
one it replaces, that reads like a slip in the code: a dropped test, a lock not
taken, a column forgotten.

**Fairness** is weak. In `instant_mixed` and `sms` it is of calls that have
started and jobs that are queued: the event loop runs them and statements time
out. That an administrator decides is not assumed. In `fees` only verifications
of subscriptions are fair. In `services` the whole next-state relation is: the
requests of a world are finite and come, and handlers, tasks and retries are run
until they end. Where statements may fail or the process may die, liveness is
not claimed.

## 4. Proofs

TLAPS proves, for every set of calls, rows, files and users, every amount and
every pool, under every interleaving the modules allow:

| Module | Theorem | Property |
|---|---|---|
| InstantSmsProofs | `TypeCorrect`, `SoundBalance`, `DeliveredPaid`, `SuccessTrue` | `TypeOK`, `BalanceSound`, `DeliveredArePaid`, `SuccessIsDelivered` |
| | `BooksExact`, `ImplementsLedger`, without top-ups | `LedgerExact`, refinement of `LedgerSpec` |
| FeesProofs | `FeesTyped`, `OneOfEach`, `VerdictsWhole`, `Settled` | `FeesTypeOK`, `OneAtATime`, `WholeVerdict`, `VerdictsStand` |
| | `PlanPaid`, `GrantsOnce` | `PlanIsPaid`, `GrantedByVerifying` |
| SmsProofs | `SmsTyped`, `MasksSound`, `ListingKept` | `SmsTypeOK`, `MasksHold`, `ListingHolds` |
| | `PaymentsSettled`, `CampaignsSound`, `ChargesSound` | `GrantsSettled`, `SentSoundly`, `ChargesAddUp` |
| AccountsProofs | `AccountsTyped`, `ContactCodesSound`, `PasswordCodesHold` | `AccountsTypeOK`, `OtpSound`, `CodesHold` |
| | `LoginsFollowSetup`, `TokensStayDead` | `LoginAfterSetup`, `DeadStaysDead` |
| ServicesProofs | `ServicesTyped`, `MarksSound`, `EnrolledOnly` | `ServicesTypeOK`, `MarksHold`, `OnlyEnrolled` |
| | `AdsSound`, `RidesSound`, `FilesSound` | `AdsChosen`, `OneRide`, `FilesHold` |
| SchoolProofs | `SchoolTyped`, `PresidencySound`, `MembersSound` | `SchoolTypeOK`, `PresidencyHolds`, `MembersHold` |
| | `CardsSound`, `EnrolmentsSound`, `CourseworkSound` | `CardsAndImages`, `EnrolmentsHold`, `CourseworkHolds` |
| | `DetailsSound` | `DetailsHold` |

**The argument.** No property is inductive alone; what a call remembers across an
await has to be tied to the row it came from. Every module therefore has two
invariants. One holds under every overlap (`FeeInv`, `SlipInv`, `BillInv`,
`MaskInv`, `RowInv`, `OtpInv`, `PwInv`, `SessionInv`): types, which call may be at
which step, and what is true of a row whatever happened since it was read. The
other speaks of calls one after the other (`...SerialInv`, `PayInv`, `DecideInv`):
one call is under way (`...Alone`), and so what it has read is still the case
(`...Settled`). Each is proved by the actions, one step each, and the modules are
composed by showing that a step of one leaves the variables of the others alone.
TLC has checked each inductive invariant on the instances of section 3 before it
was proved.

* *InstantSms.* A top-up writes what it read long ago, so `AccountInv` says the
  same of every row a top-up holds; that a stale row is no overstatement rests
  on `charged` only growing. `PaidInv`: whoever is past the deduction has paid.
  `BooksInv`: an enquiry about to write zeros writes them where nothing was
  charged. The refinement maps `Deduct` to `Charge`, a gateway that accepts to
  `Deliver`, everything else to a stutter.
* *Fees.* The commit of a subscription overwrites the payment without testing it
  again, and is right only because `LockHeld` says that whoever is past the lock
  holds it and that its payment is pending still. `SlipAgrees` and `SlipRows` say of
  each verification between its comparison and its update which columns it will
  write, and of the row whose they are.
* *Sms.* `ListInv`: two lists of masks read at different times differ by what
  calls that have finished added, and by the mask of the caller; `SnapshotInv`
  extends that to the cache. `JobInv` and `PaidInv`: a job that settles a message
  as sent is past its deduction. `Unpaid` and `SpentInv`: a job deducts once, and
  the row is what it was at first less the sum of all deductions. That a sum grows by
  what one of its terms grows by (`SumOfOneMore`) is an induction over finite sets,
  proved by a smallest subset for which it would fail: the library's `WFMin` on strict
  inclusion, which takes no operator as a parameter.
* *Accounts.* `DailyCount`: the codes of a day are as many as the count that was
  looked at; `CodesSpent`: a code that was used or completed has set its one
  password; `IndexFollows`: the cached password is the current one, or setPassword
  is about to store that; `DeadRevoked`: the row of a dead token is revoked.
* *Requests.* `ReqInv` and `Moves(r)` of RequestProofs say once, for all handlers
  of Services and School, whose turn it is: a step moves one request, and one after
  the other all others are idle.
* *Services.* `RideInv`: what a decision found is as it was. `FileInv` and
  `ImageInv` follow a file from its address to its publication and deletion, with
  the uploads still to come. `AdInv`: no call but a sending by hand meets a task,
  a list about to be kept is current, and a counter about to grow is below its limit.
  `MarkInv`: whoever a call remembers as written has a record, and every task was
  begun for one. `EnrolInv`: whom a call is about to write was validated, and
  nobody has changed since.
* *School.* Every module has an invariant of its own (`PeopleInv` to `WorkInv`),
  which ties what a call holds to the columns it may write; `Cascade` carries them
  over the removal of a user. Presidency needs no turn: `OrgInv` says that a transfer
  between its two statements holds the row of every president there is, that who
  adds a member has found the organization, and that while it is being founded
  nobody else has a row. A profile refers to rows that a registration under way has
  locked (`PersonHeld`). `TurnInv`, `ActiveInv`, `AskedInv`, `WorkTurn` and `ImageInv`
  are about calls one after the other: what was found is so still, a saved entity
  changes `active` only to what was asked, and a verdict on an image meets the
  image it was given for, because `save` writes only columns that differ.
  `DetailsInv` says of a call that refreshes, alone, whom it has still to go through
  and that all others it names are cached as the tables have them; that the row it is
  about to store is what the tables say; and that a file about to be deleted is one of
  its user's, which he shows no longer. That no other user shows it is `OwnFiles`.

**What attempts to prove showed.** Properties that were said too broadly for what
the code does, on larger instances than had been checked; they now say
what is the case, and the runs have the worlds that show it.

* `WholeVerdict` fails for three overlapping verifications of one submission: one
  finds its own status there already and updates the verifier alone, after
  another has changed the status. The exception is named.
* Two calls of `createSenderMask` that meet: the second writes its list of masks
  over the first's (`MasksKept`, `OnlyListedMasks`).
* `setPassword` whose refresh of the cached index fails after the password is
  stored leaves logins refused (`LoginAfterSetup`).
* A file that is uploaded again while a verification that refused the first
  upload is about to delete it is lost to the image shown (`ImageExists`).
* The tasks of a bulk mark each look at an advertisement before any counts its
  sending, and go beyond its limit (`LimitKept`).
* A call of `create` or a placement that looked for a member before he joined and
  was deactivated may save its own status after it (`MemberStaysInactive`).
* A change of status or role that overlaps a review writes the verdict it has read
  beside another image (`VerifiedIsApproved`).
* An image whose file was deleted may be given again, to a member or to a user:
  `ShownImageExists` is about images given once, and `UserImageExists` about the calls
  that delete, in whose step it can be said what the user shows afterwards.

Others corrected the model. A card saved late with the entity of a user would have
given two users one card, which the unique key of the column refuses (`Refused`).
`addInstituteUserToOrganization` makes a member of whom it is asked to make a
president (`Added`), so that only founding and a transfer make one. Two arms of a CASE
in `Assignment` overlapped, which has a meaning in TLC only. `ChargesAddUp` presumed an
institute that had used no credits before; the model now keeps the whole row it
started with.

**Assumptions** are those named `...Assumption` in the modules: amounts, limits and
credits are natural numbers, a message costs one credit (section 5), kinds of calls are disjoint, null values are none of
the values they stand beside, rows that the tables hold at first have the columns
and enumerations of their entities, arguments are what the DTOs admit, and sets that
are counted are finite. TLC evaluates them in every run. Some say more of the first
state than that, and hold of what the code itself leaves there: no enrolment in
a vehicle that is approved or pending is inactive, nor is a student approved twice
(`RideWorldsAssumption`); a file that is public has content, one in a local storage
needs no publishing, and an address is signed for a key that has no file yet
(`UploadWorldsAssumption`); keys refer to rows that are there, nobody is cached who is
not, and no two users have one card (`PeopleWorldsAssumption`); an organization has one
president at most (`OrgWorldsAssumption`); an exam was accepted, its passing marks
below the total (`WorkWorldsAssumption`).

**Only model-checked.** Liveness (`EverythingEnds`, `JobsEnd`, `BillsEnd`,
`EventuallyTold`), which is out of the prover's reach, as is ENABLED.

## 5. Known divergences

Five have runs in section 3 and are `findings`. The others are in the models as
the code has them; the properties either say under which circumstances the code
keeps what it promises (`world.serial`, mostly) or promise nothing there.

Overlapping calls. A look and a later write without lock or unique index give
two default masks, a message sent by two approvals or after a rejection, lost
credit grants, two pending submissions of one user, a verified class-subject
submission deleted by its owner, two enrolments in a vehicle, two first papers
of a student. An entity saved late revives a suspended mask, a withdrawn subject
key, a removed user without profiles, a removed member, a removed paper, and
erases a correction. Three overlapping verifications of SMS payments each wait
for a second connection. A refresh that overlaps another may store the older
snapshot. Overlapping changes of an exam may leave passing marks not below the total.

Accounts. A login is judged by a cached e-mail index that a password reset does
not refresh (`auth/services/password-reset.service.ts:232`,
`auth/auth.service.ts:81`). `initiateFirstLogin` never refuses: the password it
tests is not selected (`first-login.service.ts:57`).

Members. Another role replaces the membership, as the primary key has no role.
`enhancedAssign…` and its bulk form never succeed: they join relations that do
not exist (`institue_user.service.ts:3612`, also 2303 and 2332;
`sms.service.ts:2194` for filtered teacher audiences). Assignment by id and by
e-mail does not look at other holders of a card. An assignment
that overlaps an upload can leave its own verdict beside the other image.

Users. `ParentService.update` and `softDelete` write the row whose id equals the
user's (`parent.service.ts:446`, `497`). Removing a student or a parent removes
the profile row only, where the endpoint says "and associated user"
(`student.controller.ts`, `parent.controller.ts`). A student may be linked as his
own father by `assignParentToStudent`. Nothing sets `students.isActive` again.
`StudentService.update` commits twice and answers an error (698, 768).
`createComprehensive` refreshes the cache before it commits. `registerRfid`'s
controller refreshes the caller's cache. `softDelete`, `update` of parents and
`updateStudentImage` refresh none. A photo given again as a relative path is
deleted, `updateStudentImage` deletes before it writes, and
`extractImageKeyFromUrl` drops a part of the path.

Enrolment. Self-enrolment in a class by code asks for no membership; rejecting
deletes verified rows as well; seats outlive the place in the class;
`adminTeacherAssign` without verification leaves `verifiedBy` on an unverified
row; a class that requires no verification still enrols unverified.

Organizations. `assignUserRole` demotes a president (856, compare 994); removing
a user who presides leaves none; creation is not one transaction; placement does
not look at the type of user.

Coursework. `new Date("10:00")` is invalid and compares as false, so a change may
leave an exam that ends before it starts, though the code says "Start time must
be before end time" (`institute_class_subject_exams.service.ts:443-449`). A new
date alone leaves the hours on the old day. An exam today counts as past. A
homework that was removed takes papers still, and a paper handed in again keeps
the correction of the old one. Results have no uniqueness, are not compared with
the total marks, and a bulk that fails leaves a part.

Attendance and advertisements. A batch put again after an error writes records
twice. LATE is told as ABSENT, a manual advertisement as PRESENT, without regard
to its limit and counting those nobody reached. With `cascade` the primary parent
is told twice and every parent is treated as FREE. Filters by platform may leave
no channel. A mark by institute card tests no enrolment. The date of a mark is UTC.

Rides. Seats are not counted. Enrolment is not asked for a mark by user id or in
bulk (`bookhire-attendance.service.ts:79`, `92`). By RFID it is not asked either where
the student's row cannot be read: the error is swallowed (253, 1084-1093), the rider
counts as no student, and line 259 skips the check ("unread" in Rides). A rejection and an approval that
overlap leave an approved enrolment that is inactive.

Uploads. A signed address is called "single-use"
(`cloud-storage.service.ts:481`) and takes uploads until it expires: a file that
was published may become another one, private again, and a verification that
refuses a file deletes whichever is there by then. An image is deleted before its
successor is written: a failure in between, or a request that sets the image to
what it is already, leaves a class without its file. Nothing is deleted on S3,
where the client `deleteFromAws` asks for is never created, nor under the name
`gcs`, nor if a full address was stored; for the same reason the proxy serves
nothing from S3. That a file could not be made public is not reported.

SMS and payments. `SMS_COST_PER_MESSAGE`, if it is set, is a string, compared as one with
the balance of a single message (`instant-sms.service.ts:43`, `262`): costs other than 1 may
be refused with credits or granted without; InstantSms assumes 1. A message may stay APPROVED when its audience is empty or the
process dies; numbers the provider drops as invalid do not keep a message from
being SENT; the audience of an approval is looked up for the first recipient type
only; `createSenderMask` may put deducted credits back; `rejectionReason` of one
verdict may stay on a submission another verdict verified; `totalUsed` grows by
hundredths. `canResubmit` of class-subject submissions says that a rejected one
can be submitted again; `submitPayment` refuses while any exists.
`resetMonthlyPayments` changes no row.

## 6. Not modelled

* Most of the source is outside what a state machine says anything about:
  listings and statistics, DTOs and response mapping, API descriptions,
  controllers that call one service method, validation of formats, entities of
  tables that are written by one statement. They are the reason that the lines
  the definitions stand for are a small share of the program.
* Institutes, classes, subjects, lectures, whole-class exams, push tokens:
  single rows, created, updated and deleted by one statement each. One institute,
  class and subject stand in the modules that need them.
* Code that nothing reaches: `sms-enhanced.service.ts`,
  `sms/services/sender-mask.service.ts`, `package-upgrade.service.ts`,
  `user-id-generator.service.ts`, `upload-cleanup.service.ts`, and the methods
  named in `PROJECT.json`.
* E-mail, push, id cards, audit: I/O whose outcome no state depends on.
  Where it does (a bucket, a gateway, DynamoDB), it is in the models.
* Request guards and API keys; an operation is modelled for callers it lets in.
* Several institutes, accounts or payment requests: the code relates them only
  through the connection pool. Bulk calls over members and enrolments are
  modelled for one of their users, where each is treated apart from the others.
* Mother and guardian of a student (the code is the father's), columns nothing
  depends on, moving a paper or result to another student.
* Details of single calls: after a bulk assignment `bulkAssignUsers` refreshes its users
  in the cache (`institue_user.service.ts:3142-3156`), re-reading rows it has not changed;
  a member without an image has null for its verdict (2521, 2753, 2863), which is
  taken for stored though `institue_user.entity.ts:64` does not say nullable; a bulk mark has
  one status, where each student may have his own; whether a channel is configured is
  one set for `shouldSendNotifications` and for the sending, which differ in
  `EMAIL_API_URL`; masks are listed as active ones.
* Expiry of user caches, and the choice between Redis and memory.

## 7. Plan

Every safety property of the passing runs is proved. What is left to say:

* An abstract *decision* (open, then decided once, by somebody entitled), which SMS
  payments, fees and class-subject submissions implement as far as their rows are
  locked or their updates are conditional, and enrolments and subscriptions only one
  call after the other. `OneAtATime`, `GrantsSettled` and `OneRide` are what it would
  say of each today.
* Several users of one bulk call, where the code treats them together after all: a
  transaction around the whole list.
