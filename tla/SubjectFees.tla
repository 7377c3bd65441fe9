----------------------------- MODULE SubjectFees -----------------------------
(***************************************************************************)
(* One payment request of a subject of a class: submissions until its last *)
(* date, verdicts on them and their deletion by who made them              *)
(* (src/modules/payment/services/institute-class-subject-payment.service.ts)*)
(* A submission is named by the submitPayment call that makes it.          *)
(***************************************************************************)
EXTENDS EntitySave, Calls

CONSTANTS SlipSubmits,   \* submitPayment calls
          SlipVerifiers, \* verifySubmission calls
          SlipDeletes,   \* deleteSubmission calls
          DueUpdates,    \* updatePayment calls
          SlipPayers,    \* users who submit
          NoSlip,        \* no submission
          NoVerdict      \* verified_by IS NULL

SlipCalls == SlipSubmits \cup SlipVerifiers \cup SlipDeletes \cup DueUpdates

VARIABLES accepting,  \* status = ACTIVE and the last date has not passed
          slips,      \* the submission of each submitPayment call
          dpc,        \* where each call is
          slipPayer,  \* who makes each submitPayment call
          slipCase,   \* the submission each verification or deletion is about
          slipHeld,   \* the entity each verification works on
          slipDirty   \* columns its save found to differ; all when it inserts

slipVars == <<accepting, slips, dpc, slipPayer, slipCase, slipHeld, slipDirty>>

Verdicts == {"PENDING", "VERIFIED", "REJECTED"}

Slips == [status : Verdicts, verifiedBy : SlipVerifiers \cup {NoVerdict}]

ASSUME SlipNamesAssumption ==
  /\ SlipSubmits \cap SlipVerifiers = {} /\ SlipSubmits \cap SlipDeletes = {}
  /\ SlipSubmits \cap DueUpdates = {} /\ SlipVerifiers \cap SlipDeletes = {}
  /\ SlipVerifiers \cap DueUpdates = {} /\ SlipDeletes \cap DueUpdates = {}
  /\ NoVerdict \notin SlipVerifiers
  /\ NoSlip \notin Slips

NewSlip == [status |-> "PENDING", verifiedBy |-> NoVerdict]

Uploaded == {s \in SlipSubmits : slips[s] # NoSlip}

SlipInit == /\ accepting = TRUE
            /\ slips = [s \in SlipSubmits |-> NoSlip]
            /\ dpc = [c \in SlipCalls |-> Coming(c)]
            /\ slipPayer \in About(SlipSubmits, SlipPayers)
            /\ slipCase \in About(SlipVerifiers \cup SlipDeletes, SlipSubmits)
            /\ slipHeld = [v \in SlipVerifiers |-> NewSlip]
            /\ slipDirty = [v \in SlipVerifiers |-> {}]

SlipGoto(c, from, to) == dpc[c] = from /\ dpc' = [dpc EXCEPT ![c] = to]

SlipMayBegin == world.serial => \A c \in SlipCalls : dpc[c] \in {"idle", "done"}

LastDatePasses == /\ accepting
                  /\ accepting' = FALSE
                  /\ UNCHANGED <<slips, dpc, slipPayer, slipCase, slipHeld, slipDirty>>

\* updatePayment may give a new last date; it saves the columns it was given.
UpdateDue(u) ==
  /\ SlipMayBegin
  /\ SlipGoto(u, "idle", "done")
  /\ accepting' \in BOOLEAN
  /\ UNCHANGED <<slips, slipPayer, slipCase, slipHeld, slipDirty>>

-----------------------------------------------------------------------------
(* submitPayment                                                           *)

FindDue(s) ==
  /\ SlipMayBegin
  /\ SlipGoto(s, "idle", IF accepting THEN "check" ELSE "done")
  /\ UNCHANGED <<accepting, slips, slipPayer, slipCase, slipHeld, slipDirty>>

HasSlip_Mutant(p) == \E s \in Uploaded : slipPayer[s] = p /\ slips[s].status = "PENDING"
HasSlip(p) == \E s \in Uploaded : slipPayer[s] = p

CheckSlip(s) ==
  /\ SlipGoto(s, "check", IF HasSlip(slipPayer[s]) THEN "done" ELSE "insert")
  /\ UNCHANGED <<accepting, slips, slipPayer, slipCase, slipHeld, slipDirty>>

InsertSlip(s) ==
  /\ SlipGoto(s, "insert", "done")
  /\ slips' = [slips EXCEPT ![s] = NewSlip]
  /\ UNCHANGED <<accepting, slipPayer, slipCase, slipHeld, slipDirty>>

-----------------------------------------------------------------------------
(* verifySubmission                                                        *)

Open(s) == s \in Uploaded /\ slips[s].status = "PENDING"

FindSlip(v) ==
  /\ SlipMayBegin
  /\ \/ /\ ~Open(slipCase[v])
        /\ SlipGoto(v, "idle", "done")
        /\ UNCHANGED slipHeld
     \/ /\ Open(slipCase[v])
        /\ SlipGoto(v, "idle", "diff")
        /\ \E verdict \in Verdicts :
             slipHeld' = [slipHeld EXCEPT ![v] = [status |-> verdict, verifiedBy |-> v]]
  /\ UNCHANGED <<accepting, slips, slipPayer, slipCase, slipDirty>>

Differing_Mutant(v) == Dirty(slipHeld[v], slips[slipCase[v]]) \ {"verifiedBy"}
Differing(v) == Dirty(slipHeld[v], slips[slipCase[v]])

\* save inserts an entity whose row it does not find.
DiffSlip(v) ==
  /\ \/ /\ slipCase[v] \in Uploaded
        /\ SlipGoto(v, "diff", "update")
        /\ slipDirty' = [slipDirty EXCEPT ![v] = Differing(v)]
     \/ /\ slipCase[v] \notin Uploaded
        /\ SlipGoto(v, "diff", "reinsert")
        /\ UNCHANGED slipDirty
  /\ UNCHANGED <<accepting, slips, slipPayer, slipCase, slipHeld>>

WriteSlip(v) ==
  /\ \/ /\ SlipGoto(v, "update", "done")       \* of no row when it was deleted
        /\ slips' = IF slipCase[v] \in Uploaded
                      THEN [slips EXCEPT ![slipCase[v]] = Merge(@, slipHeld[v], slipDirty[v])]
                      ELSE slips
     \/ /\ SlipGoto(v, "reinsert", "done")     \* a second one is a duplicate key
        /\ slips' = IF slipCase[v] \in Uploaded THEN slips
                      ELSE [slips EXCEPT ![slipCase[v]] = slipHeld[v]]
  /\ UNCHANGED <<accepting, slipPayer, slipCase, slipHeld, slipDirty>>

-----------------------------------------------------------------------------
(* deleteSubmission                                                        *)

Deletable(s) == s \in Uploaded /\ slips[s].status # "VERIFIED"

FindOwn(d) ==
  /\ SlipMayBegin
  /\ SlipGoto(d, "idle", IF Deletable(slipCase[d]) THEN "delete" ELSE "done")
  /\ UNCHANGED <<accepting, slips, slipPayer, slipCase, slipHeld, slipDirty>>

DeleteSlip(d) ==
  /\ SlipGoto(d, "delete", "done")
  /\ slips' = [slips EXCEPT ![slipCase[d]] = NoSlip]
  /\ UNCHANGED <<accepting, slipPayer, slipCase, slipHeld, slipDirty>>

SlipNext == \/ LastDatePasses
            \/ \E u \in DueUpdates : UpdateDue(u)
            \/ \E s \in SlipSubmits : FindDue(s) \/ CheckSlip(s) \/ InsertSlip(s)
            \/ \E v \in SlipVerifiers : FindSlip(v) \/ DiffSlip(v) \/ WriteSlip(v)
            \/ \E d \in SlipDeletes : FindOwn(d) \/ DeleteSlip(d)

SlipsFinished == \A c \in SlipCalls : dpc[c] = "done"

-----------------------------------------------------------------------------
(* Properties                                                              *)

\* The submissions and the calls have their types.
SlipTypeOK ==
  /\ accepting \in BOOLEAN
  /\ slips \in [SlipSubmits -> Slips \cup {NoSlip}]
  /\ dpc \in [SlipCalls -> {"idle", "check", "insert", "diff", "update", "reinsert",
                            "delete", "done"}]
  /\ slipPayer \in [SlipSubmits -> SlipPayers]
  /\ slipHeld \in [SlipVerifiers -> Slips]
  /\ slipDirty \in [SlipVerifiers -> SUBSET {"status", "verifiedBy"}]

\* "You have already submitted a payment for this request": one submission of
\* a user at a time, through verdicts, deletions and resubmissions.
OneSlipEach ==
  world.serial => \A s, t \in Uploaded : slipPayer[s] = slipPayer[t] => s = t

\* "Cannot delete verified submission", and "Submission has already been
\* processed": a verified submission stays, with its verdict.
VerifiedStays ==
  [][\A s \in SlipSubmits :
       world.serial /\ s \in Uploaded /\ slips[s].status = "VERIFIED"
         => slips'[s] = slips[s]]_slips

\* The verifications that found s open, and what each made of it.
Ruled(s) == {v \in SlipVerifiers : slipCase[v] = s /\ slipHeld[v].verifiedBy = v}

\* A submission that was looked at carries one verdict, status and verifier
\* from the same verification, however verifications, a deletion and saves that
\* insert the row again overlap; none of them leaving it pending.  The one
\* exception takes three: v finds y's verdict the same as its own, and updates
\* the verifier alone after x has changed the status.
WholeVerdict ==
  \/ \E v \in SlipVerifiers : slipHeld[v] = [status |-> "PENDING", verifiedBy |-> v]
  \/ \A s \in Uploaded :
       \/ slips[s] = NewSlip
       \/ \E v \in Ruled(s) : slips[s] = slipHeld[v]
       \/ \E v, x, y \in Ruled(s) :
            /\ x # v /\ y # v
            /\ slips[s] = [status |-> slipHeld[x].status, verifiedBy |-> v]
            /\ slipHeld[y].status = slipHeld[v].status
            /\ slipHeld[y].status # slipHeld[x].status
=============================================================================
