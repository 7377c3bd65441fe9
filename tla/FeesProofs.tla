----------------------------- MODULE FeesProofs -----------------------------
(***************************************************************************)
(* Submissions of an institute payment, and subscriptions, which are       *)
(* granted by verifying a payment, once, for any number of payments,       *)
(* verifications, months and connections.  What carries the proof of the   *)
(* latter is the row lock: whoever is past it decides a payment that is    *)
(* pending still.  With SubjectFeesProofs, what the three promise.         *)
(***************************************************************************)
EXTENDS Fees, SubjectFeesProofs, TLAPS

-----------------------------------------------------------------------------
(* The submissions of an institute payment, for any number of members,     *)
(* verifications, updates and amounts.                                     *)

\* The calls that save.
FeeSavers == FeeVerifiers \cup FeeUpdates

FeeLocals == DOMAIN feeHeld = FeeCalls /\ DOMAIN feeDirty = FeeCalls

\* A submission is there only once its submitPayment call is over.
FeeUnwritten == \A s \in FeeSubmits : fpc[s] # "done" => receipts[s] = NoReceipt

\* What a call is about to save: submissions that were made; a verification
\* their verdict, an update the payment.
FeeHands ==
  \A c \in FeeSavers :
    fpc[c] \in {"diff", "write"} =>
      /\ \A s \in DOMAIN feeHeld[c].receipts :
           /\ s \in Submitted
           /\ feeHeld[c].receipts[s] \in Receipts
           /\ c \in FeeVerifiers => feeHeld[c].receipts[s].status # "PENDING"
      /\ c \in FeeUpdates => feeHeld[c].fee \in FeeRows

\* An update that does not come never begins.
FeeAbsent == world.calls \cap FeeUpdates = {} => \A u \in FeeUpdates : fpc[u] = "done"

\* The inductive invariant of calls that overlap.
FeeInv == FeeTypeOK /\ FeeLocals /\ FeeUnwritten /\ FeeHands /\ FeeAbsent

-----------------------------------------------------------------------------
\* What an update of some columns makes of a submission, and of the payment.
LEMMA MergedReceipt ==
  ASSUME NEW r \in Receipts, NEW e \in Receipts, NEW D
  PROVE  /\ Merge(r, e, D) \in Receipts
         /\ Merge(r, e, D).status = IF "status" \in D THEN e.status ELSE r.status
         /\ D = {} => Merge(r, e, D) = r
<1>1. DOMAIN r = {"status", "verifiedBy"} /\ DOMAIN e = {"status", "verifiedBy"}
  BY DEF Receipts
<1>2. /\ r.status \in {"PENDING", "VERIFIED", "REJECTED"}
      /\ e.status \in {"PENDING", "VERIFIED", "REJECTED"}
  BY DEF Receipts
<1>3. /\ r.verifiedBy \in FeeVerifiers \cup {NoOne}
      /\ e.verifiedBy \in FeeVerifiers \cup {NoOne}
  BY DEF Receipts
<1>4. r = [status |-> r.status, verifiedBy |-> r.verifiedBy]
  BY DEF Receipts
<1> QED
  BY <1>1, <1>2, <1>3, <1>4 DEF Merge, Receipts

LEMMA MergedFee ==
  ASSUME NEW f \in FeeRows, NEW e \in FeeRows, NEW D
  PROVE  /\ Merge(f, e, D) \in FeeRows
         /\ Merge(f, e, D).amount = IF "amount" \in D THEN e.amount ELSE f.amount
<1>1. /\ DOMAIN f = {"amount", "active", "status"}
      /\ DOMAIN e = {"amount", "active", "status"}
  BY DEF FeeRows
<1>2. f.amount \in Nat /\ e.amount \in Nat /\ f.active \in BOOLEAN /\ e.active \in BOOLEAN
  BY DEF FeeRows
<1>3. /\ f.status \in {"ACTIVE", "INACTIVE", "COMPLETED", "EXPIRED"}
      /\ e.status \in {"ACTIVE", "INACTIVE", "COMPLETED", "EXPIRED"}
  BY DEF FeeRows
<1> DEFINE m == Merge(f, e, D)
<1>4. /\ m = [c \in {"amount", "active", "status"} |-> IF c \in D THEN e[c] ELSE f[c]]
  BY <1>1 DEF Merge
<1>5. m.amount \in Nat /\ m.active \in BOOLEAN
  BY <1>2, <1>4
<1>6. m.status \in {"ACTIVE", "INACTIVE", "COMPLETED", "EXPIRED"}
  BY <1>3, <1>4
<1>7. m = [amount |-> m.amount, active |-> m.active, status |-> m.status]
  BY <1>4
<1> QED
  BY <1>4, <1>5, <1>6, <1>7 DEF FeeRows

\* The invariant holds before the first call.
LEMMA FeeInitInv == FeeInit => FeeInv
<1> SUFFICES ASSUME FeeInit PROVE FeeInv
  OBVIOUS
<1> USE FeeNamesAssumption, FeeAmountsAssumption DEF FeeInit
<1>1. fpc \in [FeeCalls -> {"idle", "done"}]
  BY DEF Coming
<1>2. feePayer \in [FeeSubmits -> FeePayers]
  BY DEF About
<1>3. FeeTypeOK
  BY <1>1, <1>2 DEF FeeTypeOK
<1>4. FeeAbsent
  BY DEF FeeAbsent, Coming, FeeCalls
<1>5. FeeUnwritten /\ FeeHands /\ FeeLocals
  BY <1>1 DEF FeeUnwritten, FeeHands, FeeLocals, FeeCalls, FeeSavers
<1> QED
  BY <1>3, <1>4, <1>5 DEF FeeInv

\* The other services do not touch it.
LEMMA FeeStutter == FeeInv /\ UNCHANGED feeVars /\ UNCHANGED world => FeeInv'
BY DEF FeeInv, FeeTypeOK, FeeLocals, FeeUnwritten, FeeHands, FeeAbsent, Submitted, feeVars

\* What a save leaves of a submission: itself, or itself with columns of the
\* entity.
LEMMA SavedReceiptOf ==
  ASSUME FeeInv, NEW c \in FeeSavers, WriteFee(c), NEW s \in FeeSubmits
  PROVE  \/ receipts'[s] = receipts[s]
         \/ /\ s \in Submitted /\ s \in DOMAIN feeHeld[c].receipts
            /\ receipts[s] \in Receipts /\ feeHeld[c].receipts[s] \in Receipts
            /\ receipts'[s] = Merge(receipts[s], feeHeld[c].receipts[s],
                                    feeDirty[c].receipts[s])
<1>1. fpc[c] = "write"
  BY DEF WriteFee, FeeGoto
<1>2. s \in DOMAIN feeHeld[c].receipts =>
        /\ s \in Submitted /\ receipts[s] \in Receipts /\ feeHeld[c].receipts[s] \in Receipts
  BY <1>1 DEF FeeInv, FeeHands, FeeTypeOK, Submitted
<1> QED
  BY <1>2 DEF WriteFee, SavedReceipt

\* Every step of submitPayment, verifySubmission and updatePayment preserves it.
LEMMA FeeNextInv == FeeInv /\ FeeNext /\ UNCHANGED world => FeeInv'
<1> SUFFICES ASSUME FeeInv, FeeNext, UNCHANGED world PROVE FeeInv'
  OBVIOUS
<1> USE FeeNamesAssumption, FeeAmountsAssumption
<1> USE DEF FeeInv, FeeGoto, FeeCalls, FeeSavers, FeeLocals, FeeUnwritten, FeeAbsent
<1>1. ASSUME NEW s \in FeeSubmits, FindFee(s) PROVE FeeInv'
  BY <1>1 DEF FindFee, FeeTypeOK, FeeHands, Submitted
<1>2. ASSUME NEW s \in FeeSubmits, CheckPending(s) PROVE FeeInv'
  BY <1>2 DEF CheckPending, FeeTypeOK, FeeHands, Submitted
<1>3. ASSUME NEW s \in FeeSubmits, InsertReceipt(s) PROVE FeeInv'
  <2>1. NewReceipt \in Receipts /\ NewReceipt # NoReceipt
    BY DEF NewReceipt, Receipts
  <2>2. FeeTypeOK' /\ FeeLocals' /\ FeeUnwritten' /\ FeeAbsent'
    BY <1>3, <2>1 DEF InsertReceipt, FeeTypeOK
  <2>3. Submitted \subseteq Submitted'
    BY <1>3, <2>1 DEF InsertReceipt, FeeTypeOK, Submitted
  <2>4. FeeHands'
    BY <1>3, <2>3 DEF InsertReceipt, FeeTypeOK, FeeHands
  <2> QED
    BY <2>2, <2>4
<1>4. ASSUME NEW v \in FeeVerifiers, NEW s \in FeeSubmits, FindReceipt(v, s) PROVE FeeInv'
  <2>1. CASE Decline(v)
    BY <1>4, <2>1 DEF Decline, FeeTypeOK, FeeHands, Submitted
  <2>2. CASE ~Decline(v)
    <3>1. PICK verdict \in {"VERIFIED", "REJECTED"} :
            Hold(v, {}, [r \in {s} |-> [status |-> verdict, verifiedBy |-> v]])
      BY <1>4, <2>2 DEF FindReceipt
    <3>2. s \in Submitted
      BY <1>4, <2>2 DEF FindReceipt, Undecided
    <3>3. [status |-> verdict, verifiedBy |-> v] \in Receipts
      BY DEF Receipts
    <3>4. FeeTypeOK' /\ FeeLocals' /\ FeeUnwritten' /\ FeeAbsent' /\ Submitted' = Submitted
      BY <3>1 DEF Hold, FeeTypeOK, Submitted
    <3>5. FeeHands'
      BY <3>1, <3>2, <3>3, <3>4 DEF Hold, FeeTypeOK, FeeHands
    <3> QED
      BY <3>4, <3>5
  <2> QED
    BY <2>1, <2>2
<1>5. ASSUME NEW u \in FeeUpdates, ReadFee(u) PROVE FeeInv'
  <2>1. CASE Decline(u)
    BY <1>5, <2>1 DEF Decline, FeeTypeOK, FeeHands, Submitted
  <2>2. CASE ~Decline(u)
    <3>1. PICK amount \in IF Fixed(u) THEN {fee.amount} ELSE FeeAmounts :
            Hold(u, [fee EXCEPT !.amount = amount], [s \in Submitted |-> receipts[s]])
      BY <1>5, <2>2 DEF ReadFee
    <3>2. [fee EXCEPT !.amount = amount] \in FeeRows
      BY DEF FeeTypeOK, FeeRows
    <3>3. \A s \in Submitted : receipts[s] \in Receipts
      BY DEF Submitted, FeeTypeOK
    <3>4. FeeTypeOK' /\ FeeLocals' /\ FeeUnwritten' /\ FeeAbsent' /\ Submitted' = Submitted
      BY <3>1 DEF Hold, FeeTypeOK, Submitted
    <3>5. FeeHands'
      BY <3>1, <3>2, <3>3, <3>4 DEF Hold, FeeTypeOK, FeeHands
    <3> QED
      BY <3>4, <3>5
  <2> QED
    BY <2>1, <2>2
<1>6. ASSUME NEW c \in FeeSavers, DiffFee(c) PROVE FeeInv'
  BY <1>6 DEF DiffFee, FeeTypeOK, FeeHands, Submitted
<1>7. ASSUME NEW c \in FeeSavers, WriteFee(c) PROVE FeeInv'
  <2>1. \A s \in FeeSubmits : /\ receipts'[s] \in Receipts \cup {NoReceipt}
                              /\ receipts'[s] = NoReceipt <=> receipts[s] = NoReceipt
    BY <1>7, SavedReceiptOf, MergedReceipt DEF FeeTypeOK, Submitted
  <2>2. fee' \in FeeRows
    BY <1>7, MergedFee DEF WriteFee, FeeHands, FeeTypeOK
  <2>3. /\ DOMAIN receipts' = FeeSubmits /\ fpc[c] = "write"
        /\ fpc' = [fpc EXCEPT ![c] = "done"] /\ feePayer' = feePayer
        /\ DOMAIN feeHeld' = FeeCalls /\ DOMAIN feeDirty' = FeeCalls
        /\ \A d \in FeeCalls : d # c => feeHeld'[d] = feeHeld[d]
        /\ receipts' = [s \in FeeSubmits |-> receipts'[s]]
    BY <1>7 DEF WriteFee, FeeTypeOK
  <2>4. Submitted' = Submitted
    BY <2>1 DEF Submitted
  <2>5. receipts' \in [FeeSubmits -> Receipts \cup {NoReceipt}]
    BY <2>1, <2>3
  <2>6. FeeTypeOK' /\ FeeLocals'
    BY <2>2, <2>3, <2>5 DEF FeeTypeOK
  <2>7. FeeUnwritten' /\ FeeAbsent'
    BY <2>1, <2>3 DEF FeeTypeOK
  <2>8. FeeHands'
    BY <2>3, <2>4 DEF FeeHands, FeeTypeOK
  <2> QED
    BY <2>6, <2>7, <2>8
<1> QED
  BY <1>1, <1>2, <1>3, <1>4, <1>5, <1>6, <1>7 DEF FeeNext

\* What was decided is not open again while the payment is not updated.
LEMMA DecidedStays ==
  FeeInv /\ FeeNext /\ world.calls \cap FeeUpdates = {} =>
    \A s \in FeeSubmits : Decided(s) => Decided(s)'
<1> SUFFICES ASSUME FeeInv, FeeNext, world.calls \cap FeeUpdates = {},
                    NEW s \in FeeSubmits, Decided(s)
             PROVE  Decided(s)'
  OBVIOUS
<1>1. CASE \E c \in FeeSavers : WriteFee(c)
  <2>1. PICK c \in FeeSavers : WriteFee(c)
    BY <1>1
  <2>2. c \in FeeVerifiers /\ fpc[c] = "write"
    BY <2>1 DEF FeeSavers, FeeInv, FeeAbsent, WriteFee, FeeGoto
  <2>3. \A t \in DOMAIN feeHeld[c].receipts : feeHeld[c].receipts[t].status # "PENDING"
    BY <2>2 DEF FeeInv, FeeHands, FeeSavers
  <2>4. receipts[s].status # "PENDING" /\ receipts[s] \in Receipts
    BY DEF Decided, Submitted, FeeInv, FeeTypeOK
  <2>5. receipts'[s] \in Receipts /\ receipts'[s].status # "PENDING"
    BY <2>1, <2>3, <2>4, SavedReceiptOf, MergedReceipt
  <2> QED
    BY <2>5, FeeNamesAssumption DEF Decided, Submitted
<1>2. CASE \E t \in FeeSubmits : InsertReceipt(t)
  BY <1>2 DEF InsertReceipt, FeeInv, FeeUnwritten, FeeTypeOK, FeeGoto, Decided, Submitted
<1>3. CASE UNCHANGED receipts
  BY <1>3 DEF Decided, Submitted
<1> QED
  BY <1>1, <1>2, <1>3 DEF FeeNext, FindFee, CheckPending, FindReceipt, ReadFee, DiffFee, Hold,
       Decline, FeeSavers

-----------------------------------------------------------------------------
(* Calls one after the other.                                              *)

\* One call is under way at a time.
FeeAlone ==
  world.serial => \A c, d \in FeeCalls :
    fpc[c] \notin {"idle", "done"} /\ fpc[d] \notin {"idle", "done"} => c = d

\* What a call has read is the case until it writes.
FeeSettled ==
  world.serial =>
    /\ \A s \in FeeSubmits : fpc[s] = "insert" => ~HasPending(feePayer[s])
    /\ \A v \in FeeVerifiers :
         fpc[v] \in {"diff", "write"} => \A s \in DOMAIN feeHeld[v].receipts : Undecided(s)
    /\ \A u \in FeeUpdates :
         fpc[u] \in {"diff", "write"} =>
           /\ \A s \in DOMAIN feeHeld[u].receipts : feeHeld[u].receipts[s] = receipts[s]
           /\ Submitted # {} => feeHeld[u].fee.amount = fee.amount
    /\ \A u \in FeeUpdates : fpc[u] = "write" =>
         \A s \in DOMAIN feeHeld[u].receipts : feeDirty[u].receipts[s] = {}

FeeSerialInv == FeeAlone /\ FeeSettled /\ OnePendingEach

LEMMA FeeSerialInit == FeeInit => FeeSerialInv
BY DEF FeeInit, Coming, FeeSerialInv, FeeAlone, FeeSettled, OnePendingEach, Submitted, FeeCalls

LEMMA FeeSerialStutter ==
  FeeSerialInv /\ UNCHANGED feeVars /\ UNCHANGED world => FeeSerialInv'
BY DEF feeVars, FeeSerialInv, FeeAlone, FeeSettled, OnePendingEach, Submitted, HasPending,
       Undecided

\* A call takes a step: it was not over, and began with nobody else under way.
FeeMoves(c) == /\ fpc[c] # "done"
               /\ fpc[c] = "idle" => FeeMayBegin
               /\ \E to : fpc' = [fpc EXCEPT ![c] = to]

LEMMA FeeMover == FeeNext => \E c \in FeeCalls : FeeMoves(c)
<1>1. CASE \E s \in FeeSubmits : FindFee(s) \/ CheckPending(s) \/ InsertReceipt(s)
  BY <1>1 DEF FindFee, CheckPending, InsertReceipt, FeeGoto, FeeCalls, FeeMoves
<1>2. CASE \E v \in FeeVerifiers, s \in FeeSubmits : FindReceipt(v, s)
  BY <1>2 DEF FindReceipt, Hold, Decline, FeeGoto, FeeCalls, FeeMoves
<1>3. CASE \E u \in FeeUpdates : ReadFee(u)
  BY <1>3 DEF ReadFee, Hold, Decline, FeeGoto, FeeCalls, FeeMoves
<1>4. CASE \E c \in FeeSavers : DiffFee(c) \/ WriteFee(c)
  BY <1>4 DEF DiffFee, WriteFee, FeeGoto, FeeCalls, FeeMoves, FeeSavers
<1> QED
  BY <1>1, <1>2, <1>3, <1>4 DEF FeeNext, FeeSavers

\* Served one after the other, the call that takes a step is the only one.
LEMMA FeeAloneNext == FeeTypeOK /\ FeeAlone /\ FeeNext /\ UNCHANGED world => FeeAlone'
<1> SUFFICES ASSUME FeeTypeOK, FeeAlone, UNCHANGED world, world.serial,
                    NEW c \in FeeCalls, FeeMoves(c)
             PROVE  \A d, e \in FeeCalls :
                      fpc'[d] \notin {"idle", "done"} /\ fpc'[e] \notin {"idle", "done"} => d = e
  BY FeeMover DEF FeeAlone
<1> QED
  BY DEF FeeMoves, FeeTypeOK, FeeAlone, FeeMayBegin

\* What was read stays the case; what was decided stays as it is, and so does
\* the amount of a payment with submissions.
LEMMA FeeSettledNext ==
  FeeInv /\ FeeSerialInv /\ FeeNext /\ UNCHANGED world /\ world.serial =>
    /\ FeeSettled' /\ OnePendingEach'
    /\ \A s \in FeeSubmits : Decided(s) => receipts'[s] = receipts[s]
    /\ Submitted # {} => fee'.amount = fee.amount
<1> SUFFICES ASSUME FeeInv, FeeSerialInv, FeeNext, UNCHANGED world, world.serial
             PROVE  /\ FeeSettled' /\ OnePendingEach'
                    /\ \A s \in FeeSubmits : Decided(s) => receipts'[s] = receipts[s]
                    /\ Submitted # {} => fee'.amount = fee.amount
  OBVIOUS
<1> DEFINE Others(c) == \A q \in FeeCalls : q # c => fpc[q] \in {"idle", "done"}
           Goal == /\ FeeSettled' /\ OnePendingEach'
                   /\ \A s \in FeeSubmits : Decided(s) => receipts'[s] = receipts[s]
                   /\ Submitted # {} => fee'.amount = fee.amount
<1> USE FeeNamesAssumption
<1> USE DEF FeeInv, FeeSerialInv, FeeTypeOK, FeeSettled, OnePendingEach, FeeGoto, FeeLocals
<1>1. \A c \in FeeCalls : fpc[c] # "done" /\ (fpc[c] = "idle" => FeeMayBegin) => Others(c)
  BY DEF FeeAlone, FeeMayBegin
<1>2. ASSUME NEW s \in FeeSubmits, FindFee(s) PROVE Goal
  BY <1>1, <1>2 DEF FindFee, FeeCalls, Submitted
<1>3. ASSUME NEW s \in FeeSubmits, CheckPending(s) PROVE Goal
  BY <1>1, <1>3 DEF CheckPending, FeeCalls, HasPending, Submitted
<1>4. ASSUME NEW s \in FeeSubmits, InsertReceipt(s) PROVE Goal
  BY <1>1, <1>4 DEF InsertReceipt, FeeCalls, HasPending, FeeUnwritten, Submitted, Decided,
       Undecided
<1>5. ASSUME NEW v \in FeeVerifiers, NEW s \in FeeSubmits, FindReceipt(v, s) PROVE Goal
  BY <1>1, <1>5 DEF FindReceipt, Hold, Decline, FeeCalls, Undecided, Submitted
<1>6. ASSUME NEW u \in FeeUpdates, ReadFee(u) PROVE Goal
  <2>1. CASE Decline(u)
    BY <1>1, <1>6, <2>1 DEF ReadFee, Decline, FeeCalls, Submitted
  <2>2. CASE ~Decline(u)
    <3>1. PICK amount \in IF Fixed(u) THEN {fee.amount} ELSE FeeAmounts :
            Hold(u, [fee EXCEPT !.amount = amount], [s \in Submitted |-> receipts[s]])
      BY <1>6, <2>2 DEF ReadFee
    <3>2. /\ fpc[u] = "idle" /\ fpc' = [fpc EXCEPT ![u] = "diff"] /\ Others(u)
          /\ UNCHANGED <<fee, receipts, feePayer, feeDirty>>
          /\ feeHeld'[u].receipts = [s \in Submitted |-> receipts[s]]
          /\ feeHeld'[u].fee = [fee EXCEPT !.amount = amount]
      BY <1>1, <1>6, <3>1 DEF Hold, ReadFee, FeeCalls
    <3>3. Submitted # {} => feeHeld'[u].fee.amount = fee.amount
      BY <3>1, <3>2 DEF Fixed, FeeRows
    <3>4. \A s \in DOMAIN feeHeld'[u].receipts : feeHeld'[u].receipts[s] = receipts'[s]
      BY <3>2
    <3>5. \A q \in FeeCalls : q # u => fpc'[q] \in {"idle", "done"}
      BY <3>2
    <3>6. fpc'[u] = "diff" /\ u \notin FeeSubmits /\ u \notin FeeVerifiers
      BY <3>2 DEF FeeCalls
    <3>7. Submitted' = Submitted
      BY <3>2 DEF Submitted
    <3>8. /\ \A s \in FeeSubmits : fpc'[s] # "insert"
          /\ \A v \in FeeVerifiers : fpc'[v] \notin {"diff", "write"}
          /\ \A w \in FeeUpdates : fpc'[w] # "write"
          /\ \A w \in FeeUpdates : fpc'[w] = "diff" => w = u
      BY <3>5, <3>6 DEF FeeCalls
    <3>9. Submitted' # {} => feeHeld'[u].fee.amount = fee'.amount
      BY <3>2, <3>3, <3>7
    <3>10. FeeSettled'
      BY <3>4, <3>8, <3>9
    <3> QED
      BY <3>2, <3>7, <3>10
  <2> QED
    BY <2>1, <2>2
<1>7. ASSUME NEW c \in FeeSavers, DiffFee(c) PROVE Goal
  <2>1. /\ fpc[c] = "diff" /\ fpc' = [fpc EXCEPT ![c] = "write"] /\ Others(c)
        /\ UNCHANGED <<fee, receipts, feePayer, feeHeld>>
        /\ \A s \in FeeSubmits : s \in DOMAIN feeHeld[c].receipts =>
             feeDirty'[c].receipts[s] = Dirty(feeHeld[c].receipts[s], receipts[s])
    BY <1>1, <1>7 DEF DiffFee, FeeCalls, FeeSavers
  <2>2. \A s \in DOMAIN feeHeld[c].receipts : s \in FeeSubmits
    BY <2>1 DEF FeeHands, Submitted
  <2>3. c \in FeeUpdates => \A s \in DOMAIN feeHeld[c].receipts : feeDirty'[c].receipts[s] = {}
    BY <2>1, <2>2 DEF Dirty
  <2> QED
    BY <2>1, <2>3 DEF FeeCalls, FeeSavers, Undecided, Submitted
<1>8. ASSUME NEW c \in FeeSavers, WriteFee(c) PROVE Goal
  <2>1. fpc[c] = "write" /\ fpc' = [fpc EXCEPT ![c] = "done"] /\ Others(c) /\ feePayer' = feePayer
    BY <1>1, <1>8 DEF WriteFee, FeeCalls, FeeSavers
  <2>2. \A s \in FeeSubmits : receipts'[s] # receipts[s] =>
          /\ c \in FeeVerifiers /\ Undecided(s)
          /\ receipts'[s] \in Receipts
    <3> SUFFICES ASSUME NEW s \in FeeSubmits, receipts'[s] # receipts[s]
                 PROVE  c \in FeeVerifiers /\ Undecided(s) /\ receipts'[s] \in Receipts
      OBVIOUS
    <3>1. /\ s \in DOMAIN feeHeld[c].receipts
          /\ receipts[s] \in Receipts /\ feeHeld[c].receipts[s] \in Receipts
          /\ receipts'[s] = Merge(receipts[s], feeHeld[c].receipts[s], feeDirty[c].receipts[s])
      BY <1>8, SavedReceiptOf
    <3>2. c \notin FeeUpdates
      BY <2>1, <3>1, MergedReceipt
    <3> QED
      BY <2>1, <3>1, <3>2, MergedReceipt DEF FeeSavers
  <2>3. Submitted # {} => fee'.amount = fee.amount
    BY <1>8, <2>1, MergedFee DEF WriteFee, FeeHands, FeeSavers
  <2>4. \A s \in FeeSubmits : receipts'[s] # NoReceipt =>
          /\ s \in Submitted
          /\ receipts'[s].status = "PENDING" => receipts[s].status = "PENDING"
    BY <2>2 DEF Undecided, Submitted
  <2>5. OnePendingEach'
    BY <2>1, <2>4 DEF Submitted
  <2>6. FeeSettled'
    BY <2>1 DEF FeeCalls, FeeSavers
  <2> QED
    BY <2>2, <2>3, <2>5, <2>6 DEF Decided, Undecided
<1> QED
  BY <1>2, <1>3, <1>4, <1>5, <1>6, <1>7, <1>8 DEF FeeNext, FeeSavers

-----------------------------------------------------------------------------
(* Subscriptions                                                           *)

\* A createPayment call that has not inserted has no payment yet.
Unwritten == \A b \in BillSubmits : bpc[b] \in {"idle", "insert"} => bills[b] = NoBill

\* A verification past the lock holds it, and its payment is pending still.
LockHeld == \A v \in BillVerifiers :
              bpc[v] \in {"refresh", "commit"} =>
                /\ locker = v
                /\ billCase[v] \in Created
                /\ bills[billCase[v]].status = "PENDING"

\* The inductive invariant.
BillInv == BillTypeOK /\ Unwritten /\ LockHeld /\ PlanIsPaid

-----------------------------------------------------------------------------
\* The invariant holds before the first call.
LEMMA BillInitInv == FeesInit => BillInv
<1> SUFFICES ASSUME FeesInit PROVE BillInv
  OBVIOUS
<1> USE BillNamesAssumption DEF FeesInit, BillInit
<1>1. bpc \in [BillCalls -> {"idle", "done"}]
  BY DEF Coming
<1>2. monthOf \in [BillSubmits -> Months] /\ billCase \in [BillVerifiers -> BillSubmits]
  BY DEF About
<1>3. BillTypeOK
  BY <1>1, <1>2 DEF BillTypeOK, PaymentStatus
<1>4. Created = {}
  BY DEF Created
<1>5. Unwritten /\ LockHeld /\ PlanIsPaid
  BY <1>1, <1>4 DEF Unwritten, LockHeld, PlanIsPaid, BillCalls
<1> QED
  BY <1>3, <1>5 DEF BillInv

\* The other two services do not touch it.
LEMMA BillStutter == BillInv /\ UNCHANGED billVars => BillInv'
BY DEF BillInv, BillTypeOK, Unwritten, LockHeld, PlanIsPaid, Created, billVars

\* Every step of createPayment and verifyPayment preserves it.
LEMMA BillNextInv == BillInv /\ BillNext => BillInv'
<1> SUFFICES ASSUME BillInv, NEW c \in BillCalls, BillStep(c) PROVE BillInv'
  BY DEF BillNext
<1> USE BillNamesAssumption
<1> USE DEF BillInv, BillGoto, BillCalls
<1>1. ASSUME c \in BillSubmits, FindBill(c) PROVE BillInv'
  <2>1. BillTypeOK'
    BY <1>1 DEF FindBill, BillTypeOK
  <2>2. Unwritten' /\ LockHeld' /\ PlanIsPaid'
    BY <1>1 DEF FindBill, BillTypeOK, Unwritten, LockHeld, PlanIsPaid, Created
  <2> QED
    BY <2>1, <2>2
<1>2. ASSUME c \in BillSubmits, InsertBill(c) PROVE BillInv'
  <2>1. bills[c] = NoBill
    BY <1>2 DEF InsertBill, Unwritten
  <2>2. BillTypeOK'
    BY <1>2 DEF InsertBill, BillTypeOK, Bills, PaymentStatus
  <2>3. Created' = Created \cup {c}
    BY <1>2 DEF InsertBill, Created, Bills, PaymentStatus, BillTypeOK
  <2>4. \A b \in Created : b # c /\ bills'[b] = bills[b]
    BY <1>2, <2>1 DEF InsertBill, Created, BillTypeOK
  <2>5. bills'[c].status = "PENDING"
    BY <1>2 DEF InsertBill, BillTypeOK
  <2>6. Unwritten'
    BY <1>2 DEF InsertBill, Unwritten, BillTypeOK
  <2>7. LockHeld'
    BY <1>2, <2>3, <2>4 DEF InsertBill, LockHeld, BillTypeOK
  <2>8. PlanIsPaid'
    BY <1>2, <2>3, <2>4, <2>5 DEF InsertBill, PlanIsPaid
  <2> QED
    BY <2>2, <2>6, <2>7, <2>8
<1>3. ASSUME c \in BillVerifiers, BeginBill(c) PROVE BillInv'
  <2>1. BillTypeOK'
    BY <1>3 DEF BeginBill, BillTypeOK
  <2>2. Unwritten' /\ LockHeld' /\ PlanIsPaid'
    BY <1>3 DEF BeginBill, BillTypeOK, Unwritten, LockHeld, PlanIsPaid, Created
  <2> QED
    BY <2>1, <2>2
<1>4. ASSUME c \in BillVerifiers, LockBill(c) PROVE BillInv'
  <2>1. locker = Nobody /\ UNCHANGED <<bills, plan, monthOf, billCase>>
    BY <1>4 DEF LockBill, Unlocked
  <2>2. \A v \in BillVerifiers : bpc[v] \notin {"refresh", "commit"}
    BY <2>1 DEF LockHeld
  <2>3. Unwritten' /\ PlanIsPaid'
    BY <1>4, <2>1 DEF LockBill, BillTypeOK, Unwritten, PlanIsPaid, Created
  <2>4. CASE Verifiable(billCase[c])
    <3>1. PICK s \in PaymentStatus :
            /\ bpc' = [bpc EXCEPT ![c] = IF s = "VERIFIED" THEN "refresh" ELSE "commit"]
            /\ ruling' = [ruling EXCEPT ![c] = s]
            /\ locker' = c
      BY <1>4, <2>4 DEF LockBill
    <3>2. BillTypeOK'
      BY <1>4, <2>1, <3>1 DEF BillTypeOK
    <3>3. LockHeld'
      BY <1>4, <2>1, <2>2, <2>4, <3>1 DEF LockHeld, Verifiable, BillTypeOK, Created
    <3> QED
      BY <2>3, <3>2, <3>3
  <2>5. CASE ~Verifiable(billCase[c])
    <3>1. bpc' = [bpc EXCEPT ![c] = "done"] /\ UNCHANGED <<ruling, locker>>
      BY <1>4, <2>5 DEF LockBill
    <3>2. BillTypeOK'
      BY <2>1, <3>1 DEF BillTypeOK
    <3>3. LockHeld'
      BY <2>1, <2>2, <3>1 DEF LockHeld, BillTypeOK
    <3> QED
      BY <2>3, <3>2, <3>3
  <2> QED
    BY <2>4, <2>5
<1>5. ASSUME c \in BillVerifiers, RefreshUser(c) PROVE BillInv'
  <2>1. BillTypeOK'
    BY <1>5 DEF RefreshUser, BillTypeOK
  <2>2. Unwritten' /\ LockHeld' /\ PlanIsPaid'
    BY <1>5 DEF RefreshUser, BillTypeOK, Unwritten, LockHeld, PlanIsPaid, Created
  <2> QED
    BY <2>1, <2>2
<1>6. ASSUME c \in BillVerifiers, CommitBill(c) PROVE BillInv'
  <2> DEFINE b == billCase[c]
  <2>1. /\ bpc[c] = "commit" /\ bpc' = [bpc EXCEPT ![c] = "done"]
        /\ bills' = [bills EXCEPT ![b] = [status |-> ruling[c], verifiedBy |-> c]]
        /\ plan' = IF ruling[c] = "VERIFIED" THEN b ELSE plan
        /\ locker' = Nobody
        /\ UNCHANGED <<monthOf, billCase, ruling>>
    BY <1>6 DEF CommitBill, GrantedPlan
  <2>2. locker = c /\ b \in Created /\ bills[b].status = "PENDING"
    BY <1>6, <2>1 DEF LockHeld
  <2>3. [status |-> ruling[c], verifiedBy |-> c] \in Bills
    BY <1>6 DEF BillTypeOK, Bills
  <2>4. b \in BillSubmits
    BY <2>2 DEF Created
  <2>5. BillTypeOK'
    BY <2>1, <2>3, <2>4 DEF BillTypeOK
  <2>6. Created' = Created
    BY <2>1, <2>2, <2>3, <2>4 DEF Created, BillTypeOK
  <2>7. Unwritten'
    BY <1>6, <2>1, <2>2, <2>4 DEF Unwritten, BillTypeOK, Created
  <2>8. LockHeld'
    BY <1>6, <2>1, <2>2 DEF LockHeld, BillTypeOK
  <2>9. /\ bills'[b].status = ruling[c]
        /\ \A x \in Created : x # b => bills'[x] = bills[x]
    BY <2>1, <2>4 DEF BillTypeOK, Created
  <2>10. PlanIsPaid'
    BY <2>1, <2>2, <2>6, <2>9, <2>4 DEF PlanIsPaid
  <2> QED
    BY <2>5, <2>7, <2>8, <2>10
<1>7. ASSUME c \in BillVerifiers, RollBackBill(c) PROVE BillInv'
  <2>1. /\ bpc' = [bpc EXCEPT ![c] = "done"]
        /\ locker' = IF locker = c THEN Nobody ELSE locker
        /\ UNCHANGED <<bills, plan, monthOf, billCase, ruling>>
    BY <1>7 DEF RollBackBill
  <2>2. BillTypeOK'
    BY <2>1 DEF BillTypeOK
  <2>3. Unwritten' /\ LockHeld' /\ PlanIsPaid'
    BY <1>7, <2>1 DEF BillTypeOK, Unwritten, LockHeld, PlanIsPaid, Created
  <2> QED
    BY <2>2, <2>3
<1> QED
  BY <1>1, <1>2, <1>3, <1>4, <1>5, <1>6, <1>7 DEF BillStep

\* A step of the three services is one of subscriptions or leaves them alone.
LEMMA FeesStepBill == [FeesNext]_feesVars => BillNext \/ UNCHANGED billVars
BY DEF FeesNext, feesVars, billVars

\* Types, the lock and the plan of every reachable state.
THEOREM BillInvariant == FeesSpec => []BillInv
<1>1. BillInv /\ [FeesNext]_feesVars => BillInv'
  BY FeesStepBill, BillStutter, BillNextInv
<1> QED
  BY BillInitInv, <1>1, PTL DEF FeesSpec

\* A user has a paid plan exactly when a payment of theirs was verified.
THEOREM PlanPaid == FeesSpec => []PlanIsPaid
<1>1. BillInv => PlanIsPaid
  BY DEF BillInv
<1> QED
  BY BillInvariant, <1>1, PTL

\* What a step may do to payments and plan.
LEMMA GrantStep ==
  BillInv /\ BillNext =>
    /\ \A b \in Created : bills[b].status # "PENDING" => bills'[b] = bills[b]
    /\ plan' # plan => bills[plan'].status = "PENDING"
<1> SUFFICES ASSUME BillInv, NEW c \in BillCalls, BillStep(c)
             PROVE  /\ \A b \in Created : bills[b].status # "PENDING" => bills'[b] = bills[b]
                    /\ plan' # plan => bills[plan'].status = "PENDING"
  BY DEF BillNext
<1> USE DEF BillInv, BillGoto
<1>1. CASE c \in BillSubmits /\ InsertBill(c)
  BY <1>1 DEF InsertBill, Unwritten, Created, BillTypeOK
<1>2. CASE c \in BillVerifiers /\ CommitBill(c)
  BY <1>2 DEF CommitBill, GrantedPlan, LockHeld, Created, BillTypeOK
<1>3. CASE UNCHANGED <<bills, plan>>
  BY <1>3
<1> QED
  BY <1>1, <1>2, <1>3 DEF BillStep, FindBill, BeginBill, LockBill, RefreshUser, RollBackBill

\* A payment is decided once, and grants a plan only in the step that verifies
\* it, however the verifications of it overlap.
THEOREM GrantsOnce == FeesSpec => GrantedByVerifying
<1>1. BillInv /\ [FeesNext]_feesVars =>
        [/\ \A b \in Created : bills[b].status # "PENDING" => bills'[b] = bills[b]
         /\ plan' # plan => bills[plan'].status = "PENDING"]_<<bills, plan>>
  BY FeesStepBill, GrantStep DEF billVars
<1> QED
  BY BillInvariant, <1>1, PTL DEF FeesSpec, GrantedByVerifying

-----------------------------------------------------------------------------
(* Subscriptions, calls one after the other.                               *)

\* One call is under way at a time, and no pending payment for its month is
\* there while a createPayment call is about to insert one.
BillAlone ==
  world.serial => \A c, d \in BillCalls :
    bpc[c] \notin {"idle", "done"} /\ bpc[d] \notin {"idle", "done"} => c = d

BillSettled ==
  world.serial => \A b \in BillSubmits : bpc[b] = "insert" => ~HasBill(monthOf[b])

BillSerialInv == BillAlone /\ BillSettled /\ OneBillAMonth

LEMMA BillSerialInit == FeesInit => BillSerialInv
BY DEF FeesInit, BillInit, Coming, BillSerialInv, BillAlone, BillSettled, OneBillAMonth, Created,
       BillCalls

LEMMA BillSerialStutter ==
  BillSerialInv /\ UNCHANGED billVars /\ UNCHANGED world => BillSerialInv'
BY DEF billVars, BillSerialInv, BillAlone, BillSettled, OneBillAMonth, Created, HasBill

\* A second pending payment for a month takes two calls at a time.
LEMMA BillSerialNext ==
  BillInv /\ BillSerialInv /\ BillNext /\ UNCHANGED world => BillSerialInv'
<1> SUFFICES ASSUME BillInv, BillSerialInv, UNCHANGED world, world.serial,
                    NEW c \in BillCalls, BillStep(c)
             PROVE  BillSerialInv'
  BY DEF BillNext, BillSerialInv, BillAlone, BillSettled, OneBillAMonth
<1> USE BillNamesAssumption
<1> USE DEF BillInv, BillTypeOK, BillGoto
<1>1. /\ \A q \in BillCalls : q # c => bpc[q] \in {"idle", "done"} /\ bpc'[q] = bpc[q]
      /\ monthOf' = monthOf
  BY DEF BillStep, FindBill, InsertBill, BeginBill, LockBill, RefreshUser, CommitBill,
       RollBackBill, BillSerialInv, BillAlone, BillMayBegin
<1>2. BillAlone'
  BY <1>1 DEF BillAlone
<1>3. CASE c \in BillSubmits /\ FindBill(c)
  BY <1>1, <1>2, <1>3 DEF FindBill, BillSerialInv, BillSettled, OneBillAMonth, BillCalls, HasBill,
       Created
<1>4. CASE c \in BillSubmits /\ InsertBill(c)
  <2>1. \A b \in BillSubmits : bpc'[b] # "insert"
    BY <1>1, <1>4 DEF InsertBill, BillCalls
  <2>2. ~HasBill(monthOf[c]) /\ Created' \subseteq Created \cup {c}
    BY <1>4 DEF InsertBill, BillSerialInv, BillSettled, Created
  <2>3. \A b \in Created : b # c => bills'[b] = bills[b]
    BY <1>4 DEF InsertBill, Created
  <2>4. OneBillAMonth'
    BY <1>1, <2>2, <2>3 DEF OneBillAMonth, BillSerialInv, HasBill, Created
  <2> QED
    BY <1>2, <2>1, <2>4 DEF BillSerialInv, BillSettled
<1>5. CASE c \in BillVerifiers
  <2>1. \A b \in BillSubmits : bpc'[b] # "insert"
    BY <1>1, <1>5 DEF BillCalls
  <2>2. bills' = bills \/ CommitBill(c)
    BY <1>5 DEF BillStep, BeginBill, LockBill, RefreshUser, RollBackBill
  <2>3. \A b \in Created' : /\ b \in Created
                            /\ bills'[b].status = "PENDING" => bills[b].status = "PENDING"
    BY <1>5, <2>2 DEF CommitBill, LockHeld, Created
  <2>4. OneBillAMonth'
    BY <1>1, <2>3 DEF OneBillAMonth, BillSerialInv
  <2> QED
    BY <1>2, <2>1, <2>4 DEF BillSerialInv, BillSettled
<1> QED
  BY <1>3, <1>4, <1>5 DEF BillStep, BillCalls

-----------------------------------------------------------------------------
(* The three services together.                                            *)

\* A step of one service leaves the two others alone.
LEMMA FeesStepOf ==
  [FeesNext]_feesVars =>
    /\ UNCHANGED world
    /\ FeeNext \/ UNCHANGED feeVars
    /\ SlipNext \/ UNCHANGED slipVars
    /\ BillNext \/ UNCHANGED billVars
BY DEF FeesNext, feesVars, feeVars, slipVars, billVars

\* The inductive invariant of the three services.
FeesInv == /\ FeeInv /\ FeeSerialInv
           /\ SlipInv /\ SlipSerialInv
           /\ BillInv /\ BillSerialInv

\* Every reachable state of the three services satisfies it.
THEOREM FeesInvariant == FeesSpec => []FeesInv
<1>1. FeesInit => FeesInv
  BY BillInitInv, BillSerialInit, FeeInitInv, FeeSerialInit, SlipInitInv, SlipSerialInit
     DEF FeesInit, FeesInv
<1>2. FeesInv /\ [FeesNext]_feesVars => FeesInv'
  <2> SUFFICES ASSUME FeesInv, [FeesNext]_feesVars PROVE FeesInv'
    OBVIOUS
  <2> USE DEF FeesInv
  <2>1. FeeInv' /\ FeeSerialInv'
    <3>1. CASE FeeNext
      <4>1. FeeSettled' /\ OnePendingEach'
        BY <3>1, FeeSettledNext, FeesStepOf DEF FeeSettled, OnePendingEach
      <4> QED
        BY <3>1, <4>1, FeeNextInv, FeeAloneNext, FeesStepOf DEF FeeInv, FeeSerialInv
    <3> QED
      BY <3>1, FeeStutter, FeeSerialStutter, FeesStepOf
  <2>2. SlipInv' /\ SlipSerialInv'
    <3>1. CASE SlipNext
      <4>1. SlipSettled' /\ OneSlipEach'
        BY <3>1, SlipSettledNext, FeesStepOf DEF SlipSettled, OneSlipEach
      <4> QED
        BY <3>1, <4>1, SlipNextInv, SlipAloneNext, FeesStepOf DEF SlipInv, SlipSerialInv
    <3> QED
      BY <3>1, SlipStutter, SlipSerialStutter, FeesStepOf
  <2>3. BillInv' /\ BillSerialInv'
    BY BillNextInv, BillSerialNext, BillStutter, BillSerialStutter, FeesStepOf
  <2> QED
    BY <2>1, <2>2, <2>3
<1> QED
  BY <1>1, <1>2, PTL DEF FeesSpec

\* Payments, submissions, plans and calls keep their types.
THEOREM FeesTyped == FeesSpec => []FeesTypeOK
<1>1. FeesInv => FeesTypeOK
  BY DEF FeesInv, FeeInv, SlipInv, BillInv, FeesTypeOK
<1> QED
  BY FeesInvariant, <1>1, PTL

\* Calls one after the other leave one pending submission of a member, one
\* submission for a subject and one pending payment for a month.
THEOREM OneOfEach == FeesSpec => []OneAtATime
<1>1. FeesInv => OneAtATime
  BY DEF FeesInv, FeeSerialInv, SlipSerialInv, BillSerialInv, OneAtATime
<1> QED
  BY FeesInvariant, <1>1, PTL

\* A submission for a subject carries one verdict, however verifications and
\* deletions of it overlap, unless three verifications of it do.
THEOREM VerdictsWhole == FeesSpec => []WholeVerdict
<1>1. FeesInv => WholeVerdict
  BY SlipVerdicts DEF FeesInv
<1> QED
  BY FeesInvariant, <1>1, PTL

\* What was decided is not opened, changed or removed by a later call, nor is
\* the amount that was paid.
THEOREM Settled == FeesSpec => VerdictsStand
<1>1. FeesInv /\ [FeesNext]_feesVars =>
        [\A s \in FeeSubmits :
           /\ Decided(s)
           /\ world.serial \/ world.calls \cap FeeUpdates = {}
           => Decided(s)' /\ (world.serial => receipts'[s] = receipts[s])]_receipts
  <2> SUFFICES ASSUME FeesInv, [FeesNext]_feesVars, receipts' # receipts,
                      NEW s \in FeeSubmits, Decided(s),
                      world.serial \/ world.calls \cap FeeUpdates = {}
               PROVE  Decided(s)' /\ (world.serial => receipts'[s] = receipts[s])
    OBVIOUS
  <2>1. FeeNext
    BY FeesStepOf DEF feeVars
  <2>2. world.serial => receipts'[s] = receipts[s]
    BY <2>1, FeesStepOf, FeeSettledNext DEF FeesInv
  <2>3. Decided(s)'
    BY <2>1, <2>2, DecidedStays DEF FeesInv, Decided, Submitted
  <2> QED
    BY <2>2, <2>3
<1>2. FeesInv /\ [FeesNext]_feesVars =>
        [\A s \in SlipSubmits :
           world.serial /\ s \in Uploaded /\ slips[s].status = "VERIFIED"
             => slips'[s] = slips[s]]_slips
  BY FeesStepOf, SlipSettledNext DEF FeesInv, slipVars
<1>3. FeesInv /\ [FeesNext]_feesVars =>
        [world.serial /\ Submitted # {} => fee'.amount = fee.amount]_fee
  BY FeesStepOf, FeeSettledNext DEF FeesInv, feeVars
<1> QED
  BY FeesInvariant, <1>1, <1>2, <1>3, PTL
     DEF FeesSpec, VerdictsStand, DecisionsStand, VerifiedStays, AmountSettled
=============================================================================
