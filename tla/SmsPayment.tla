----------------------------- MODULE SmsPayment -----------------------------
(***************************************************************************)
(* The verification of SMS credit payments by administrators               *)
(* (verifyPayment of src/modules/sms/services/sms.service.ts), with the    *)
(* connection pool it runs on: the transaction keeps its connection until  *)
(* after the e-mail data has been looked up on further ones.               *)
(***************************************************************************)
EXTENDS SmsCredentials

CONSTANTS Submissions,  \* payment submissions of the institute
          Verifiers,    \* verifyPayment calls
          Requested,    \* credits a submission asks for
          PoolSize      \* connections in the pool

ASSUME PoolAssumption == /\ PoolSize \in Nat \ {0} /\ Requested \in Nat \ {0}
                         /\ IsFiniteSet(Submissions)

VARIABLES paymentStatus, \* status of each submission
          vpc,       \* where each verifier is
          about,     \* the submission each verifier decides
          seen,      \* the credentials each verifier read
          grants,    \* how often each submission was granted, in commits
          opening    \* the credits the institute started with

paymentVars == <<paymentStatus, vpc, about, seen, grants, opening>>

\* A verifier keeps a connection from its BEGIN to its release.
Holding_Mutant == {v \in Verifiers : vpc[v] \notin {"idle", "begin"}}
Holding == {v \in Verifiers : vpc[v] \in {"find", "approve", "reject", "lookup"}}

ConnectionFree == Cardinality(Holding) < PoolSize

PaymentInit == /\ paymentStatus = [s \in Submissions |-> "none"]
               /\ vpc = [v \in Verifiers |-> Coming(v)]
               /\ about \in About(Verifiers, Submissions)
               /\ seen = [v \in Verifiers |-> NoRow]
               /\ grants = [s \in Submissions |-> 0]
               /\ opening = IF creds = NoRow THEN 0 ELSE creds.credits

SubmitPayment(s) ==
  /\ s \in world.calls
  /\ paymentStatus[s] = "none"
  /\ paymentStatus' = [paymentStatus EXCEPT ![s] = "PENDING"]
  /\ UNCHANGED <<credVars, vpc, about, seen, grants, opening>>

At(v, from, to) == vpc[v] = from /\ vpc' = [vpc EXCEPT ![v] = to]

VerifierMayBegin == world.serial => \A v \in Verifiers : vpc[v] \in {"idle", "done"}

Pending(v) == paymentStatus[about[v]] = "PENDING"

\* The status is read and judged before the transaction begins.
FindSubmission(v) ==
  /\ VerifierMayBegin
  /\ ConnectionFree
  /\ At(v, "idle", IF Pending(v) THEN "begin" ELSE "done")
  /\ UNCHANGED <<credVars, paymentStatus, about, seen, grants, opening>>

BeginTransaction(v) ==
  /\ ConnectionFree
  /\ \E decision \in {"find", "reject"} : At(v, "begin", decision)
  /\ UNCHANGED <<credVars, paymentStatus, about, seen, grants, opening>>

ReadCredentials(v) ==
  /\ At(v, "find", "approve")
  /\ seen' = [seen EXCEPT ![v] = creds]
  /\ UNCHANGED <<credVars, paymentStatus, about, grants, opening>>

\* The first row of an institute is an INSERT, which fails when there is one.
CreditedRow(v) == Granted(IF seen[v] = NoRow THEN EmptyRow ELSE seen[v], Requested)

Credited_Mutant1(v) == CreditedRow(v)
Credited(v) == IF seen[v] = NoRow
                 THEN CreditedRow(v)
                 ELSE [creds EXCEPT !.credits = CreditedRow(v).credits,
                                    !.purchased = CreditedRow(v).purchased]

InsertFails(v) == seen[v] = NoRow /\ creds # NoRow

Settle_Mutant(v, s) == UNCHANGED paymentStatus
Settle(v, s) == paymentStatus' = [paymentStatus EXCEPT ![about[v]] = s]

\* Save of the credentials, update of the submission, commit, cache dropped.
CommitApproval(v) ==
  /\ ~InsertFails(v)
  /\ At(v, "approve", "lookup")
  /\ creds' = Credited(v)
  /\ Settle(v, "VERIFIED")
  /\ grants' = [grants EXCEPT ![about[v]] = @ + 1]
  /\ InvalidateInstituteCache
  /\ UNCHANGED <<world, makerVars, about, seen, opening>>

CommitRejection(v) ==
  /\ At(v, "reject", "lookup")
  /\ Settle(v, "REJECTED")
  /\ InvalidateInstituteCache
  /\ UNCHANGED <<world, creds, makerVars, about, seen, grants, opening>>

\* A failed statement rolls everything back and releases the connection.
RollBack(v) ==
  /\ world.faulty \/ InsertFails(v)
  /\ \E at \in {"find", "approve", "reject"} : At(v, at, "done")
  /\ ~world.faulty => vpc[v] = "approve"
  /\ UNCHANGED <<credVars, paymentStatus, about, seen, grants, opening>>

\* Submitter and institute are looked up on other connections, the
\* transaction's own being released only afterwards.
LookUpAndRelease(v) ==
  /\ ConnectionFree
  /\ At(v, "lookup", "done")
  /\ UNCHANGED <<credVars, paymentStatus, about, seen, grants, opening>>

VerifierStep(v) == \/ FindSubmission(v) \/ BeginTransaction(v)
                   \/ ReadCredentials(v) \/ CommitApproval(v)
                   \/ CommitRejection(v) \/ RollBack(v) \/ LookUpAndRelease(v)

VerifiersFinished == \A v \in Verifiers : vpc[v] = "done"

PaymentNext == \/ \E s \in Submissions : SubmitPayment(s)
               \/ \E v \in Verifiers : VerifierStep(v)

-----------------------------------------------------------------------------
(* Properties                                                              *)

\* The variables of verifications and credentials have their types.
PaymentTypeOK ==
  /\ paymentStatus \in [Submissions -> {"none", "PENDING", "VERIFIED", "REJECTED"}]
  /\ vpc \in [Verifiers -> {"idle", "begin", "find", "approve", "reject",
                            "lookup", "done"}]
  /\ about \in [Verifiers -> Submissions]
  /\ seen \in [Verifiers -> CredRows \cup {NoRow}]
  /\ grants \in [Submissions -> Nat]
  /\ opening \in Nat

\* A payment is verified exactly when its credits were granted: neither a
\* failing statement between the two updates nor a later decision parts them.
VerifiedIffGranted ==
  world.serial => \A s \in Submissions : paymentStatus[s] = "VERIFIED" <=> grants[s] > 0

\* The save of the credentials a payment was approved on writes the columns
\* it changed and no others: a mask added meanwhile stays listed.  Only
\* createSenderMask saves the whole list, and drops nothing but the masks that
\* other calls of it added since it read the row.
MasksKept ==
  [][creds # NoRow =>
       \A k \in creds.masks \ creds'.masks :
         \E m \in MaskMakers : /\ mpc[m] = "write" /\ mpc'[m] = "done"
                               /\ mask[m] # k /\ k \in AddedBy(MaskMakers \ {m})]_creds

TotalGranted == Requested * Cardinality({s \in Submissions : grants[s] > 0})

\* "Payment approved and ... credits granted": every grant that was answered
\* with this message is in the balance, where nothing is sent meanwhile.
GrantsKept ==
  world.serial /\ world.calls \subseteq Verifiers \cup Submissions /\ creds # NoRow =>
    creds.credits = opening + TotalGranted

\* Every verification that started ends: requests do not wait for each other's
\* connections for ever.
VerificationsEnd == []<>(\A v \in Verifiers : vpc[v] \in {"idle", "done"})

-----------------------------------------------------------------------------
(* What the messages say and overlapping calls do not do                   *)

\* "Submission ... has already been processed" is the answer to a second
\* decision: no payment is granted twice.
GrantedOnce == \A s \in Submissions : grants[s] <= 1
=============================================================================
