----------------------------- MODULE SmsCampaign -----------------------------
(***************************************************************************)
(* SMS campaigns of one institute that an administrator must approve:      *)
(* composed against cached credentials, approved or rejected, sent in the  *)
(* background and paid for after delivery                                  *)
(* (src/modules/sms/services/sms.service.ts).                              *)
(***************************************************************************)
EXTENDS SmsCredentials, FiniteSetsExt, Functions

CONSTANTS Composers,    \* sendCustomSms and sendBulkSms calls, and their messages
          Approvers,    \* approveCampaign calls, and the jobs they start
          Rejecters,    \* rejectCampaign calls
          Requests,     \* what a composer may ask for
          MaxBulk,      \* SMS_MAX_BULK_COUNT_DEFAULT
          SuperAdmins,  \* composers that are SUPERADMIN
          AdminRow,     \* what createUnlimitedCredentials stores
          Drift,        \* changes of a filtered audience before its approval
          MaxCrashes    \* bound on crashes of a faulty system

\* size: recipients when composed.  first: those of the first recipient type.
\* custom: a list of numbers, or a filter over the institute's people?
ASSUME CampaignAssumption ==
  /\ SuperAdmins \subseteq Composers
  /\ Requests \subseteq [size : Nat \ {0}, first : Nat, custom : BOOLEAN, mask : MaskIds]
  /\ \A q \in Requests : q.first <= q.size
  /\ AdminRow \in CredRows /\ AdminRow.unlimited
  /\ IsFiniteSet(Approvers)
  /\ Drift \subseteq Int
  /\ MaxCrashes \in Nat
  /\ Composers \cap (Approvers \cup Rejecters) = {} /\ Approvers \cap Rejecters = {}

Deciders == Approvers \cup Rejecters
Actors   == Composers \cup Deciders

VARIABLES status,    \* status of the institute_sms_messages row of each composer
          pc,        \* where each request and its background job is
          loaded,    \* the credentials each composer judges by
          wish,      \* what each composer asks for
          case,      \* the message each decider decides
          found,     \* recipients each approval looked up
          result,    \* the gateway's answers, counted by each job
          out,       \* messages really handed out, by job
          paid,      \* credits deducted, by job
          funds,     \* the credentials the institute started with
          crashes

composing == <<wish, loaded>>
sending == <<found, result, out, paid>>
campaignVars == <<status, pc, composing, case, sending, funds, crashes>>

CampaignInit ==
  /\ status = [c \in Composers |-> "none"]
  /\ pc = [a \in Actors |-> Coming(a)]
  /\ loaded = [c \in Composers |-> NoRow]
  /\ wish \in About(Composers, Requests)
  /\ case \in About(Deciders, Composers)
  /\ found = [a \in Approvers |-> 0]
  /\ result = [a \in Approvers |-> [ok |-> 0, failed |-> 0]]
  /\ out = [a \in Approvers |-> 0]
  /\ paid = [a \in Approvers |-> 0]
  /\ funds = IF creds = NoRow THEN EmptyRow ELSE creds
  /\ crashes = 0

Goto(a, from, to) == pc[a] = from /\ pc' = [pc EXCEPT ![a] = to]

SetStatus(c, s) == status' = [status EXCEPT ![c] = s]

-----------------------------------------------------------------------------
(* Composing                                                               *)

\* A cached row is used as it is, up to thirty minutes old.
LoadCached(c) ==
  /\ cache # NotCached
  /\ Goto(c, "idle", "check")
  /\ loaded' = [loaded EXCEPT ![c] = cache]
  /\ UNCHANGED <<credVars, status, wish, case, sending, funds, crashes>>

FetchCredentials(c) ==
  /\ cache = NotCached
  /\ \/ /\ creds # NoRow
        /\ Goto(c, "idle", "store")
        /\ loaded' = [loaded EXCEPT ![c] = creds]
     \/ /\ creds = NoRow
        /\ Goto(c, "idle", IF c \in SuperAdmins THEN "create" ELSE "done")
        /\ UNCHANGED loaded
  /\ UNCHANGED <<credVars, status, wish, case, sending, funds, crashes>>

\* A super admin's institute gets unlimited credentials, unless someone else
\* inserted a row in between or the database refuses one without an id.
CreateUnlimited(c) ==
  /\ \/ /\ creds = NoRow
        /\ Goto(c, "create", "store")
        /\ creds' = AdminRow
        /\ loaded' = [loaded EXCEPT ![c] = AdminRow]
     \/ /\ Goto(c, "create", "done")
        /\ UNCHANGED <<creds, loaded>>
  /\ UNCHANGED <<world, cache, makerVars, status, wish, case, sending, funds, crashes>>

\* The answer arrives and is cached, however old it has become.
StoreCredentials(c) ==
  /\ Goto(c, "store", "check")
  /\ cache' = loaded[c]
  /\ UNCHANGED <<world, creds, makerVars, status, composing, case, sending, funds, crashes>>

\* Every listed mask is active: the calls here list theirs as active, and nothing
\* takes that away.
MaskListed(c) == wish[c].mask \in loaded[c].masks

Acceptable(c) ==
  /\ MaskListed(c)
  /\ wish[c].size <= MaxBulk
  /\ loaded[c].unlimited \/ loaded[c].credits >= wish[c].size

Compose(c) ==
  /\ Goto(c, "check", "done")
  /\ \/ Acceptable(c) /\ SetStatus(c, "PENDING_VERIFICATION")
     \/ ~Acceptable(c) /\ UNCHANGED status
  /\ UNCHANGED <<credVars, composing, case, sending, funds, crashes>>

ComposerStep(c) == \/ LoadCached(c) \/ FetchCredentials(c)
                   \/ CreateUnlimited(c)
                   \/ StoreCredentials(c) \/ Compose(c)

-----------------------------------------------------------------------------
(* Deciding                                                                *)

Alone(d) == world.serial => \A e \in Deciders \ {d} :
                           case[e] = case[d] => pc[e] # "save"

Decidable(d) == status[case[d]] = "PENDING_VERIFICATION"

ReadMessage(d) ==
  /\ Alone(d)
  /\ Goto(d, "idle", IF Decidable(d) THEN "save" ELSE "done")
  /\ UNCHANGED <<credVars, status, composing, case, sending, funds, crashes>>

\* APPROVED is stored before the recipients are looked up.
SaveApproved(a) ==
  /\ Goto(a, "save", "recipients")
  /\ SetStatus(case[a], "APPROVED")
  /\ UNCHANGED <<credVars, composing, case, sending, funds, crashes>>

\* A stored list of numbers is what it was; a filter is evaluated again, for
\* the first of the recipient types only.
Audience(q) == IF q.custom THEN {q.size} ELSE {q.first + d : d \in Drift} \cap Nat

\* With no recipients the request fails; otherwise the job is queued.
QueueJob(a) ==
  /\ \E n \in Audience(wish[case[a]]) :
       /\ Goto(a, "recipients", IF n = 0 THEN "done" ELSE "stamp")
       /\ found' = [found EXCEPT ![a] = n]
  /\ UNCHANGED <<credVars, status, composing, case, result, out, paid, funds, crashes>>

SaveRejected(r) ==
  /\ Goto(r, "save", "done")
  /\ SetStatus(case[r], "REJECTED")
  /\ UNCHANGED <<credVars, composing, case, sending, funds, crashes>>

-----------------------------------------------------------------------------
(* Sending: processSmsWithDeferredDeduction                                *)

\* sentAt is stored; the error path of every statement is MarkFailed.
StampSentAt(a) ==
  /\ \/ Goto(a, "stamp", "send")
     \/ world.faulty /\ Goto(a, "stamp", "failed")
  /\ UNCHANGED <<credVars, status, composing, case, sending, funds, crashes>>

\* Without credentials, without a valid number, or when a query fails,
\* nothing is sent and all recipients count as failed.
SendNothing(a) ==
  /\ Goto(a, "send", "charge")
  /\ result' = [result EXCEPT ![a] = [ok |-> 0, failed |-> found[a]]]
  /\ UNCHANGED <<credVars, status, composing, case, found, out, paid, funds, crashes>>

\* Invalid numbers are dropped without counting.  The gateway says how many of
\* an accepted batch it took, which may be fewer than it was given; a batch it
\* refused, or did not answer for, counts as failed, and may have been sent too.
SendBatches(a) ==
  /\ Goto(a, "send", "charge")
  /\ creds # NoRow
  /\ \E valid \in 1..found[a] : \E ok \in 0..valid : \E failed \in 0..(valid - ok) :
       /\ ok + failed > 0
       /\ result' = [result EXCEPT ![a] = [ok |-> ok, failed |-> failed]]
       /\ \E sent \in ok..valid : out' = [out EXCEPT ![a] = sent]
  /\ UNCHANGED <<credVars, status, composing, case, found, paid, funds, crashes>>

\* Only what was confirmed is deducted, by one UPDATE.
Charge(a) ==
  /\ \/ /\ result[a].ok = 0
        /\ Goto(a, "charge", "final")
        /\ UNCHANGED <<creds, cache, paid>>
     \/ /\ result[a].ok > 0
        /\ Goto(a, "charge", "final")
        /\ creds' = Deducted(creds, result[a].ok)
        /\ paid' = [paid EXCEPT ![a] = result[a].ok]
        /\ InvalidateInstituteCache
     \/ /\ result[a].ok > 0 /\ world.faulty
        /\ Goto(a, "charge", "failed")
        /\ UNCHANGED <<creds, cache, paid>>
  /\ UNCHANGED <<world, makerVars, status, composing, case, found, result, out, funds, crashes>>

FinalStatus_Mutant(a) == IF result[a].ok > 0 THEN "SENT" ELSE "FAILED"
FinalStatus(a) == IF result[a].failed = 0 THEN "SENT"
                  ELSE IF result[a].ok = 0 THEN "FAILED" ELSE "PARTIALLY_SENT"

Finalize(a) ==
  /\ \/ /\ Goto(a, "final", "done")
        /\ SetStatus(case[a], FinalStatus(a))
     \/ /\ world.faulty
        /\ Goto(a, "final", "failed")
        /\ UNCHANGED status
  /\ UNCHANGED <<credVars, composing, case, sending, funds, crashes>>

MarkFailed(a) ==
  /\ Goto(a, "failed", "done")
  /\ \/ SetStatus(case[a], "FAILED")
     \/ world.faulty /\ UNCHANGED status
  /\ UNCHANGED <<credVars, composing, case, sending, funds, crashes>>

DeciderStep(d) ==
  \/ ReadMessage(d)
  \/ d \in Rejecters /\ SaveRejected(d)
  \/ /\ d \in Approvers
     /\ \/ SaveApproved(d) \/ QueueJob(d) \/ StampSentAt(d) \/ SendNothing(d)
        \/ SendBatches(d) \/ Charge(d) \/ Finalize(d) \/ MarkFailed(d)

-----------------------------------------------------------------------------
\* The process dies with its requests and its queued jobs.
EndCampaigns ==
  /\ crashes < MaxCrashes
  /\ crashes' = crashes + 1
  /\ pc' = [a \in Actors |-> IF pc[a] = "idle" THEN "idle" ELSE "done"]
  /\ UNCHANGED <<status, composing, case, sending, funds>>

CampaignFinished == \A a \in Actors : pc[a] = "done"

CampaignNext == \/ \E c \in Composers : ComposerStep(c)
                \/ \E d \in Deciders : DeciderStep(d)

-----------------------------------------------------------------------------
(* Properties                                                              *)

Terminal == {"REJECTED", "SENT", "PARTIALLY_SENT", "FAILED"}

\* The variables of campaigns and credentials have their types.
CampaignTypeOK ==
  /\ status \in [Composers -> Terminal \cup {"none", "APPROVED",
                                            "PENDING_VERIFICATION"}]
  /\ pc \in [Actors -> {"idle", "create", "store", "check", "save", "recipients",
                        "stamp", "send", "charge", "final", "failed", "done"}]
  /\ loaded \in [Composers -> CredRows \cup {NoRow}]
  /\ wish \in [Composers -> Requests] /\ case \in [Deciders -> Composers]
  /\ found \in [Approvers -> Nat] /\ out \in [Approvers -> Nat]
  /\ paid \in [Approvers -> Nat] /\ funds \in CredRows
  /\ result \in [Approvers -> [ok : Nat, failed : Nat]]
  /\ crashes \in 0..MaxCrashes

TotalPaid == SumFunction(paid)

\* Deductions of concurrent jobs never get lost: they are single UPDATEs, so
\* the row has used all that was deducted and kept the rest, or nothing.  Only
\* createSenderMask and verifyPayment, which save a row they read before, can
\* bring credits back.
ChargesAddUp ==
  /\ world.calls \subseteq Composers \cup Deciders
  /\ creds # NoRow /\ ~creds.unlimited
  =>
    /\ creds.used = funds.used + TotalPaid
    /\ creds.credits = IF funds.credits > TotalPaid THEN funds.credits - TotalPaid ELSE 0

Jobs(c) == {a \in Approvers : case[a] = c /\ out[a] > 0}

\* A message goes out for one approval only, as long as one administrator
\* decides it at a time.
SentOnce == world.serial => \A c \in Composers : Cardinality(Jobs(c)) <= 1

\* A message an administrator rejected was not sent.
RejectedUnsent ==
  world.serial => \A c \in Composers : status[c] = "REJECTED" => Jobs(c) = {}

\* A message is called sent, wholly or in part, only after what the gateway
\* confirmed was deducted: a crash or a failing statement between delivery and
\* settlement may leave a message unpaid, but then it never says SENT.
SentIsPaid ==
  \A c \in Composers : status[c] \in {"SENT", "PARTIALLY_SENT"} =>
    \E a \in Approvers : /\ case[a] = c
                         /\ result[a].ok > 0 /\ paid[a] = result[a].ok
                         /\ status[c] = "SENT" <=> result[a].failed = 0

\* A createSenderMask call has finished since k was added by another one.
Overwritten(k) ==
  \E m \in MaskMakers \cap world.calls :
    mpc[m] = "done" /\ mask[m] # k /\ k \in AddedBy(MaskMakers \ {m})

\* The masks checked may be thirty minutes old and masks are added meanwhile,
\* but no message of the institute bears a mask it does not list, unless two
\* calls that extend the list met.
OnlyListedMasks ==
  \A c \in Composers : status[c] # "none" =>
    creds # NoRow /\ (wish[c].mask \in creds.masks \/ Overwritten(wish[c].mask))

\* "Approval triggers instant sending": with the database and the process up,
\* an approved message whose first recipient type has members is settled.
ApprovedSettles ==
  []<>(\A c \in Composers :
         ~world.faulty /\ wish[c].first > 0 => status[c] # "APPROVED")

-----------------------------------------------------------------------------
(* What comments say and the code does not do                              *)

\* "Ensures enough credits are available for sending", and once they are checked
\* no other control follows: a job that is about to send has credits for all its
\* recipients.  Another job may have used them since the message was composed.
CreditsAvailable ==
  creds # NoRow /\ ~creds.unlimited
  => \A a \in Approvers : pc[a] = "send" => creds.credits >= found[a]
=============================================================================
