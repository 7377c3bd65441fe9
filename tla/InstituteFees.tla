---------------------------- MODULE InstituteFees ----------------------------
(***************************************************************************)
(* One payment request of an institute, the submissions its members make   *)
(* for it and the verdicts on them                                         *)
(* (src/modules/payment/services/institute-payment.service.ts).  Callers   *)
(* are members of the institute; a submission is named by the submitPayment*)
(* call that makes it.                                                     *)
(***************************************************************************)
EXTENDS Integers, EntitySave, Calls

CONSTANTS FeeSubmits,    \* submitPayment calls
          FeeVerifiers,  \* verifySubmission calls
          FeeUpdates,    \* updatePayment calls
          FeePayers,     \* users who submit
          FeeAmounts,    \* amounts a payment may have or get
          OpeningFees,   \* institute_payments rows to start with
          NoReceipt,     \* no submission
          NoOne          \* verified_by IS NULL

FeeCalls == FeeSubmits \cup FeeVerifiers \cup FeeUpdates

VARIABLES fee,        \* the institute_payments row
          receipts,   \* the submission of each submitPayment call
          fpc,        \* where each call is
          feePayer,   \* who makes each submitPayment call
          feeHeld,    \* the entities each call works on
          feeDirty    \* what the save of each call found to differ

feeVars == <<fee, receipts, fpc, feePayer, feeHeld, feeDirty>>

Receipts == [status : {"PENDING", "VERIFIED", "REJECTED"},
             verifiedBy : FeeVerifiers \cup {NoOne}]

FeeRows == [amount : Nat, active : BOOLEAN,
            status : {"ACTIVE", "INACTIVE", "COMPLETED", "EXPIRED"}]

ASSUME FeeNamesAssumption ==
  /\ FeeSubmits \cap FeeVerifiers = {} /\ FeeSubmits \cap FeeUpdates = {}
  /\ FeeVerifiers \cap FeeUpdates = {}
  /\ NoReceipt \notin Receipts

ASSUME FeeAmountsAssumption == FeeAmounts \subseteq Nat /\ OpeningFees \subseteq FeeRows

NewReceipt_Mutant == [status |-> "ACTIVE", verifiedBy |-> NoOne]
NewReceipt == [status |-> "PENDING", verifiedBy |-> NoOne]

Submitted == {s \in FeeSubmits : receipts[s] # NoReceipt}

\* An entity with its submissions; which a call loads depends on its query.
Nothing == [fee |-> {}, receipts |-> [s \in {} |-> NewReceipt]]

NoDirt == [fee |-> {}, receipts |-> [s \in FeeSubmits |-> {}], orphans |-> {}]

FeeInit == /\ fee \in OpeningFees
           /\ receipts = [s \in FeeSubmits |-> NoReceipt]
           /\ fpc = [c \in FeeCalls |-> Coming(c)]
           /\ feePayer \in About(FeeSubmits, FeePayers)
           /\ feeHeld = [c \in FeeCalls |-> Nothing]
           /\ feeDirty = [c \in FeeCalls |-> NoDirt]

FeeGoto(c, from, to) == fpc[c] = from /\ fpc' = [fpc EXCEPT ![c] = to]

FeeMayBegin == world.serial => \A c \in FeeCalls : fpc[c] \in {"idle", "done"}

-----------------------------------------------------------------------------
(* submitPayment                                                           *)

FindFee(s) ==
  /\ FeeMayBegin
  /\ FeeGoto(s, "idle", IF fee.active /\ fee.status = "ACTIVE" THEN "check" ELSE "done")
  /\ UNCHANGED <<fee, receipts, feePayer, feeHeld, feeDirty>>

HasPending(p) == \E s \in Submitted : feePayer[s] = p /\ receipts[s].status = "PENDING"

CheckPending(s) ==
  /\ FeeGoto(s, "check", IF HasPending(feePayer[s]) THEN "done" ELSE "insert")
  /\ UNCHANGED <<fee, receipts, feePayer, feeHeld, feeDirty>>

InsertReceipt(s) ==
  /\ FeeGoto(s, "insert", "done")
  /\ receipts' = [receipts EXCEPT ![s] = NewReceipt]
  /\ UNCHANGED <<fee, feePayer, feeHeld, feeDirty>>

-----------------------------------------------------------------------------
(* Reads that end a call or leave it with entities to save.                *)

Hold(c, f, rs) == /\ FeeGoto(c, "idle", "diff")
                  /\ feeHeld' = [feeHeld EXCEPT ![c] = [fee |-> f, receipts |-> rs]]
                  /\ UNCHANGED <<fee, receipts, feePayer, feeDirty>>

Decline(c) == /\ FeeGoto(c, "idle", "done")
              /\ UNCHANGED <<fee, receipts, feePayer, feeHeld, feeDirty>>

\* verifySubmission: the submission without its payment.
Undecided_Mutant(s) == s \in Submitted
Undecided(s) == s \in Submitted /\ receipts[s].status = "PENDING"

FindReceipt(v, s) ==
  /\ FeeMayBegin
  /\ \/ ~Undecided(s) /\ Decline(v)
     \/ /\ Undecided(s)
        /\ \E verdict \in {"VERIFIED", "REJECTED"} :
             Hold(v, {}, [r \in {s} |-> [status |-> verdict, verifiedBy |-> v]])

\* updatePayment: the payment with all its submissions.  The stored amount is
\* a string and never the same as a number, so once there are submissions every
\* request that gives an amount is refused, whatever the amount.
Fixed(u) == Submitted # {}

Changeable == fee.active /\ fee.status # "COMPLETED"

ReadFee(u) ==
  /\ FeeMayBegin
  /\ \/ /\ ~Changeable \/ Fixed(u)
        /\ Decline(u)
     \/ /\ Changeable
        /\ \E amount \in IF Fixed(u) THEN {fee.amount} ELSE FeeAmounts :
             Hold(u, [fee EXCEPT !.amount = amount], [s \in Submitted |-> receipts[s]])

-----------------------------------------------------------------------------
(* repository.save.  The submissions of a payment are saved with it, and   *)
(* one the entity does not know of is detached from the payment.           *)

DiffFee(c) ==
  /\ FeeGoto(c, "diff", "write")
  /\ LET e == feeHeld[c] IN
     feeDirty' = [feeDirty EXCEPT ![c] =
       [fee |-> IF c \in FeeUpdates THEN Dirty(e.fee, fee) ELSE {},
        receipts |-> [s \in FeeSubmits |->
                        IF s \in DOMAIN e.receipts THEN Dirty(e.receipts[s], receipts[s])
                                                   ELSE {}],
        orphans |-> IF c \in FeeUpdates THEN Submitted \ DOMAIN e.receipts ELSE {}]]
  /\ UNCHANGED <<fee, receipts, feePayer, feeHeld>>

SavedReceipt(c, s) ==
  IF s \in DOMAIN feeHeld[c].receipts
    THEN Merge(receipts[s], feeHeld[c].receipts[s], feeDirty[c].receipts[s])
    ELSE receipts[s]

\* payment_id must not be null, so detaching fails and the save with it.
WriteFee(c) ==
  /\ FeeGoto(c, "write", "done")
  /\ \/ /\ feeDirty[c].orphans # {}
        /\ UNCHANGED <<fee, receipts>>
     \/ /\ feeDirty[c].orphans = {}
        /\ fee' = IF c \in FeeUpdates THEN Merge(fee, feeHeld[c].fee, feeDirty[c].fee) ELSE fee
        /\ receipts' = [s \in FeeSubmits |-> SavedReceipt(c, s)]
  /\ feeHeld' = [feeHeld EXCEPT ![c] = Nothing]
  /\ feeDirty' = [feeDirty EXCEPT ![c] = NoDirt]
  /\ UNCHANGED feePayer

FeeNext == \/ \E s \in FeeSubmits : FindFee(s) \/ CheckPending(s) \/ InsertReceipt(s)
           \/ \E v \in FeeVerifiers, s \in FeeSubmits : FindReceipt(v, s)
           \/ \E u \in FeeUpdates : ReadFee(u)
           \/ \E c \in FeeVerifiers \cup FeeUpdates : DiffFee(c) \/ WriteFee(c)

FeesFinished == \A c \in FeeCalls : fpc[c] = "done"

-----------------------------------------------------------------------------
(* Properties                                                              *)

\* The payment, its submissions and the calls have their types.
FeeTypeOK ==
  /\ fee \in FeeRows
  /\ receipts \in [FeeSubmits -> Receipts \cup {NoReceipt}]
  /\ fpc \in [FeeCalls -> {"idle", "check", "insert", "diff", "write", "done"}]
  /\ feePayer \in [FeeSubmits -> FeePayers]

\* "You already have a pending submission for this payment": neither another
\* submission nor anything an administrator does gives a member two.
OnePendingEach ==
  world.serial => \A s, t \in Submitted :
    /\ feePayer[s] = feePayer[t]
    /\ receipts[s].status = "PENDING" /\ receipts[t].status = "PENDING"
    => s = t

Decided(s) == s \in Submitted /\ receipts[s].status # "PENDING"

\* "Submission is already verified" (or rejected): what was decided is not
\* open again, however the verdicts on it overlap; the payment not being
\* updated meanwhile.
DecisionsStand ==
  [][\A s \in FeeSubmits :
       /\ Decided(s)
       /\ world.serial \/ world.calls \cap FeeUpdates = {}
       => Decided(s)' /\ (world.serial => receipts'[s] = receipts[s])]_receipts

\* "Cannot change payment amount when submissions exist."
AmountSettled ==
  [][world.serial /\ Submitted # {} => fee'.amount = fee.amount]_fee

\* The same answer to a verification overlapping an update of the payment.
DecisionsHold == [][\A s \in FeeSubmits : Decided(s) => Decided(s)']_receipts
=============================================================================
