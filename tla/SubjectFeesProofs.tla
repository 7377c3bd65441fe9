-------------------------- MODULE SubjectFeesProofs --------------------------
(***************************************************************************)
(* The submissions of a subject payment, for any number of users,          *)
(* verifications and deletions.                                            *)
(***************************************************************************)
EXTENDS SubjectFees, TLAPS

\* Nobody gave the verdict PENDING.
Decisive == ~ \E v \in SlipVerifiers : slipHeld[v] = [status |-> "PENDING", verifiedBy |-> v]

\* A submission is there only once its submitPayment call is over.
SlipUnwritten == \A s \in SlipSubmits : dpc[s] # "done" => slips[s] = NoSlip

\* What a verification holds: nothing before it begins, then its own verdict on
\* a submission that was made.
SlipHands ==
  \A v \in SlipVerifiers :
    /\ dpc[v] = "idle" => slipHeld[v] = NewSlip
    /\ dpc[v] \in {"diff", "update", "reinsert"} => slipHeld[v].verifiedBy = v
    /\ slipHeld[v].verifiedBy = v => dpc[slipCase[v]] = "done"

\* The verifications of s that are through.
Through(s) == {v \in Ruled(s) : dpc[v] = "done"}

\* A verification that is to update the verifier alone has found the verdict of
\* another one the same as its own; one that is to insert a row again has found
\* none, and what was deleted never comes back as it was at first.
SlipAgrees ==
  Decisive => \A v \in SlipVerifiers :
    dpc[v] = "update" =>
      /\ "verifiedBy" \in slipDirty[v]
      /\ \/ "status" \in slipDirty[v]
         \/ \E y \in Through(slipCase[v]) : slipHeld[y].status = slipHeld[v].status

SlipGone ==
  Decisive => \A v \in SlipVerifiers : dpc[v] = "reinsert" => slips[slipCase[v]] # NewSlip

\* What the rows may be, in terms of the verifications that are through.
RowSound(s) ==
  \/ slips[s] = NewSlip
  \/ \E v \in Through(s) : slips[s] = slipHeld[v]
  \/ \E v, x, y \in Through(s) :
       /\ x # v /\ y # v
       /\ slips[s] = [status |-> slipHeld[x].status, verifiedBy |-> v]
       /\ slipHeld[y].status = slipHeld[v].status
       /\ slipHeld[y].status # slipHeld[x].status

SlipRows ==
  Decisive => \A s \in Uploaded : RowSound(s) /\ (slips[s] = NewSlip => Through(s) = {})

SlipCasesOK == slipCase \in [SlipVerifiers \cup SlipDeletes -> SlipSubmits]

\* The inductive invariant of calls that overlap.
SlipInv == /\ SlipTypeOK /\ SlipCasesOK /\ SlipUnwritten /\ SlipHands
           /\ SlipAgrees /\ SlipGone /\ SlipRows

-----------------------------------------------------------------------------
\* What an update of some columns makes of a submission.
LEMMA MergedSlip ==
  ASSUME NEW r \in Slips, NEW e \in Slips, NEW D
  PROVE  /\ Merge(r, e, D) \in Slips
         /\ Merge(r, e, D).status = IF "status" \in D THEN e.status ELSE r.status
         /\ Merge(r, e, D).verifiedBy = IF "verifiedBy" \in D THEN e.verifiedBy
                                                               ELSE r.verifiedBy
<1>1. DOMAIN r = {"status", "verifiedBy"} /\ DOMAIN e = {"status", "verifiedBy"}
  BY DEF Slips
<1>2. r.status \in Verdicts /\ e.status \in Verdicts
  BY DEF Slips
<1>3. /\ r.verifiedBy \in SlipVerifiers \cup {NoVerdict}
      /\ e.verifiedBy \in SlipVerifiers \cup {NoVerdict}
  BY DEF Slips
<1> QED
  BY <1>1, <1>2, <1>3 DEF Merge, Slips

\* The columns that differ, by name.
LEMMA DirtySlip ==
  ASSUME NEW r \in Slips, NEW e \in Slips
  PROVE  /\ "status" \in Dirty(e, r) <=> e.status # r.status
         /\ "verifiedBy" \in Dirty(e, r) <=> e.verifiedBy # r.verifiedBy
BY DEF Dirty, Slips

\* The invariant holds before the first call.
LEMMA SlipInitInv == SlipInit => SlipInv
<1> SUFFICES ASSUME SlipInit PROVE SlipInv
  OBVIOUS
<1> USE SlipNamesAssumption DEF SlipInit
<1>1. dpc \in [SlipCalls -> {"idle", "done"}]
  BY DEF Coming
<1>2. slipPayer \in [SlipSubmits -> SlipPayers] /\ SlipCasesOK
  BY DEF About, SlipCasesOK
<1>3. SlipTypeOK
  BY <1>1, <1>2 DEF SlipTypeOK, Slips, NewSlip, Verdicts
<1>4. Uploaded = {}
  BY DEF Uploaded
<1>5. SlipUnwritten /\ SlipHands /\ SlipAgrees /\ SlipGone /\ SlipRows
  BY <1>1, <1>4 DEF SlipUnwritten, SlipHands, SlipAgrees, SlipGone, SlipRows, SlipCalls, NewSlip
<1> QED
  BY <1>2, <1>3, <1>5 DEF SlipInv

\* The other services do not touch it.
LEMMA SlipStutter == SlipInv /\ UNCHANGED slipVars => SlipInv'
<1> SUFFICES ASSUME SlipInv, UNCHANGED slipVars PROVE SlipInv'
  OBVIOUS
<1> USE DEF slipVars
<1>1. SlipTypeOK' /\ SlipCasesOK' /\ SlipUnwritten' /\ SlipHands'
  BY DEF SlipInv, SlipTypeOK, SlipCasesOK, SlipUnwritten, SlipHands
<1>2. SlipAgrees' /\ SlipGone' /\ SlipRows'
  BY DEF SlipInv, SlipAgrees, SlipGone, SlipRows, RowSound, Through, Ruled, Decisive, Uploaded
<1> QED
  BY <1>1, <1>2 DEF SlipInv

\* Types, and who has written or holds what.
LEMMA SlipTypeNext ==
  SlipTypeOK /\ SlipCasesOK /\ SlipUnwritten /\ SlipHands /\ SlipNext =>
    SlipTypeOK' /\ SlipCasesOK' /\ SlipUnwritten' /\ SlipHands'
<1> SUFFICES ASSUME SlipTypeOK, SlipCasesOK, SlipUnwritten, SlipHands, SlipNext
             PROVE  SlipTypeOK' /\ SlipCasesOK' /\ SlipUnwritten' /\ SlipHands'
  OBVIOUS
<1> USE SlipNamesAssumption
<1> USE DEF SlipGoto, SlipCalls, SlipCasesOK, SlipUnwritten, SlipHands
<1>0. \A v \in SlipVerifiers : NewSlip.verifiedBy # v
  BY DEF NewSlip
<1>1. ASSUME LastDatePasses
      PROVE  SlipTypeOK' /\ SlipCasesOK' /\ SlipUnwritten' /\ SlipHands'
  BY <1>1 DEF LastDatePasses, SlipTypeOK
<1>2. ASSUME NEW u \in DueUpdates, UpdateDue(u)
      PROVE  SlipTypeOK' /\ SlipCasesOK' /\ SlipUnwritten' /\ SlipHands'
  BY <1>2 DEF UpdateDue, SlipTypeOK
<1>3. ASSUME NEW s \in SlipSubmits, FindDue(s)
      PROVE  SlipTypeOK' /\ SlipCasesOK' /\ SlipUnwritten' /\ SlipHands'
  BY <1>3 DEF FindDue, SlipTypeOK
<1>4. ASSUME NEW s \in SlipSubmits, CheckSlip(s)
      PROVE  SlipTypeOK' /\ SlipCasesOK' /\ SlipUnwritten' /\ SlipHands'
  BY <1>4 DEF CheckSlip, SlipTypeOK
<1>5. ASSUME NEW s \in SlipSubmits, InsertSlip(s)
      PROVE  SlipTypeOK' /\ SlipCasesOK' /\ SlipUnwritten' /\ SlipHands'
  <2>1. NewSlip \in Slips
    BY DEF NewSlip, Slips, Verdicts
  <2> QED
    BY <1>5, <2>1 DEF InsertSlip, SlipTypeOK
<1>6. ASSUME NEW v \in SlipVerifiers, FindSlip(v)
      PROVE  SlipTypeOK' /\ SlipCasesOK' /\ SlipUnwritten' /\ SlipHands'
  <2>1. CASE ~Open(slipCase[v])
    BY <1>6, <2>1 DEF FindSlip, SlipTypeOK
  <2>2. CASE Open(slipCase[v])
    <3>1. PICK verdict \in Verdicts :
            slipHeld' = [slipHeld EXCEPT ![v] = [status |-> verdict, verifiedBy |-> v]]
      BY <1>6, <2>2 DEF FindSlip
    <3>2. [status |-> verdict, verifiedBy |-> v] \in Slips
      BY DEF Slips
    <3>3. /\ SlipGoto(v, "idle", "diff")
          /\ UNCHANGED <<accepting, slips, slipPayer, slipCase, slipDirty>>
      BY <1>6, <2>2 DEF FindSlip
    <3>4. slipCase[v] \in SlipSubmits /\ slips[slipCase[v]] # NoSlip
      BY <2>2 DEF Open, Uploaded
    <3>5. dpc[slipCase[v]] = "done"
      BY <3>4
    <3>6. slipHeld' \in [SlipVerifiers -> Slips]
      BY <3>1, <3>2 DEF SlipTypeOK
    <3>7. SlipTypeOK' /\ SlipCasesOK' /\ SlipUnwritten'
      BY <3>3, <3>6 DEF SlipTypeOK
    <3>8. SlipHands'
      BY <3>1, <3>3, <3>5 DEF SlipTypeOK
    <3> QED
      BY <3>7, <3>8
  <2> QED
    BY <2>1, <2>2
<1>7. ASSUME NEW v \in SlipVerifiers, DiffSlip(v)
      PROVE  SlipTypeOK' /\ SlipCasesOK' /\ SlipUnwritten' /\ SlipHands'
  <2>1. Differing(v) \in SUBSET {"status", "verifiedBy"}
    BY DEF Differing, Dirty, Slips, SlipTypeOK
  <2> QED
    BY <1>7, <2>1 DEF DiffSlip, SlipTypeOK
<1>8. ASSUME NEW v \in SlipVerifiers, WriteSlip(v)
      PROVE  SlipTypeOK' /\ SlipCasesOK' /\ SlipUnwritten' /\ SlipHands'
  <2> DEFINE s == slipCase[v]
  <2>1. /\ dpc[v] \in {"update", "reinsert"} /\ dpc' = [dpc EXCEPT ![v] = "done"]
        /\ UNCHANGED <<accepting, slipPayer, slipCase, slipHeld, slipDirty>>
    BY <1>8 DEF WriteSlip
  <2>2. /\ s \in SlipSubmits /\ dpc[s] = "done" /\ slipHeld[v] \in Slips
    BY <2>1 DEF SlipTypeOK
  <2>3. CASE UNCHANGED slips
    BY <2>1, <2>3 DEF SlipTypeOK
  <2>4. CASE s \notin Uploaded /\ slips' = [slips EXCEPT ![s] = slipHeld[v]]
    BY <2>1, <2>2, <2>4 DEF SlipTypeOK
  <2>5. CASE /\ s \in Uploaded
             /\ slips' = [slips EXCEPT ![s] = Merge(slips[s], slipHeld[v], slipDirty[v])]
    <3>1. slips[s] \in Slips
      BY <2>2, <2>5 DEF Uploaded, SlipTypeOK
    <3>2. Merge(slips[s], slipHeld[v], slipDirty[v]) \in Slips
      BY <2>2, <3>1, MergedSlip
    <3> QED
      BY <2>1, <2>2, <2>5, <3>2 DEF SlipTypeOK
  <2> QED
    BY <1>8, <2>3, <2>4, <2>5 DEF WriteSlip
<1>9. ASSUME NEW d \in SlipDeletes, FindOwn(d)
      PROVE  SlipTypeOK' /\ SlipCasesOK' /\ SlipUnwritten' /\ SlipHands'
  BY <1>9 DEF FindOwn, SlipTypeOK
<1>10. ASSUME NEW d \in SlipDeletes, DeleteSlip(d)
       PROVE  SlipTypeOK' /\ SlipCasesOK' /\ SlipUnwritten' /\ SlipHands'
  BY <1>10 DEF DeleteSlip, SlipTypeOK
<1> QED
  BY <1>1, <1>2, <1>3, <1>4, <1>5, <1>6, <1>7, <1>8, <1>9, <1>10 DEF SlipNext

\* A step of verifySubmission is one of its own three, or leaves it alone.
LEMMA SlipMoves ==
  ASSUME SlipTypeOK, SlipNext, NEW v \in SlipVerifiers
  PROVE  /\ slipCase' = slipCase
         /\ \/ FindSlip(v) \/ DiffSlip(v) \/ WriteSlip(v)
            \/ /\ dpc'[v] = dpc[v] /\ slipHeld'[v] = slipHeld[v]
               /\ slipDirty'[v] = slipDirty[v]
<1> USE SlipNamesAssumption DEF SlipTypeOK, SlipGoto, SlipCalls
<1>1. CASE LastDatePasses \/ \E u \in DueUpdates : UpdateDue(u)
  BY <1>1 DEF LastDatePasses, UpdateDue
<1>2. CASE \E s \in SlipSubmits : FindDue(s) \/ CheckSlip(s) \/ InsertSlip(s)
  BY <1>2 DEF FindDue, CheckSlip, InsertSlip
<1>3. ASSUME NEW w \in SlipVerifiers, w # v, FindSlip(w) \/ DiffSlip(w) \/ WriteSlip(w)
      PROVE  /\ dpc'[v] = dpc[v] /\ slipHeld'[v] = slipHeld[v]
             /\ slipDirty'[v] = slipDirty[v] /\ slipCase' = slipCase
  <2>1. CASE FindSlip(w)
    BY <1>3, <2>1 DEF FindSlip
  <2>2. CASE DiffSlip(w)
    BY <1>3, <2>2 DEF DiffSlip
  <2>3. CASE WriteSlip(w)
    BY <1>3, <2>3 DEF WriteSlip
  <2> QED
    BY <1>3, <2>1, <2>2, <2>3
<1>4. FindSlip(v) \/ DiffSlip(v) \/ WriteSlip(v) => slipCase' = slipCase
  BY DEF FindSlip, DiffSlip, WriteSlip
<1>5. CASE \E d \in SlipDeletes : FindOwn(d) \/ DeleteSlip(d)
  BY <1>5 DEF FindOwn, DeleteSlip
<1> QED
  BY <1>1, <1>2, <1>3, <1>4, <1>5 DEF SlipNext

\* What may become of a row in a step.
LEMMA RowMoves ==
  ASSUME SlipTypeOK, SlipNext, NEW s \in SlipSubmits, slips'[s] # slips[s]
  PROVE  \/ dpc[s] = "insert" /\ slips'[s] = NewSlip /\ UNCHANGED slipHeld
         \/ \E v \in SlipVerifiers : WriteSlip(v) /\ slipCase[v] = s
         \/ slips'[s] = NoSlip
<1> USE DEF SlipTypeOK, SlipGoto
<1>1. CASE LastDatePasses \/ \E u \in DueUpdates : UpdateDue(u)
  BY <1>1 DEF LastDatePasses, UpdateDue
<1>2. CASE \E t \in SlipSubmits : FindDue(t) \/ CheckSlip(t) \/ InsertSlip(t)
  BY <1>2 DEF FindDue, CheckSlip, InsertSlip
<1>3. CASE \E w \in SlipVerifiers : FindSlip(w) \/ DiffSlip(w) \/ WriteSlip(w)
  BY <1>3 DEF FindSlip, DiffSlip, WriteSlip
<1>4. CASE \E d \in SlipDeletes : FindOwn(d) \/ DeleteSlip(d)
  BY <1>4 DEF FindOwn, DeleteSlip
<1> QED
  BY <1>1, <1>2, <1>3, <1>4 DEF SlipNext

\* What a verification that is through did is never forgotten, and whoever gave
\* a verdict keeps it.
LEMMA SlipThrough ==
  ASSUME SlipInv, SlipNext
  PROVE  /\ Decisive' => Decisive
         /\ \A s : \A x \in Through(s) : x \in Through(s)' /\ slipHeld'[x] = slipHeld[x]
<1> USE DEF SlipInv
<1>1. \A v \in SlipVerifiers : slipHeld[v].verifiedBy = v => dpc[v] # "idle"
  BY SlipNamesAssumption DEF SlipHands, NewSlip
<1>2. \A v \in SlipVerifiers :
        dpc[v] # "idle" => /\ slipHeld'[v] = slipHeld[v]
                           /\ dpc[v] = "done" => dpc'[v] = "done"
  <2> SUFFICES ASSUME NEW v \in SlipVerifiers, dpc[v] # "idle"
               PROVE  /\ slipHeld'[v] = slipHeld[v]
                      /\ dpc[v] = "done" => dpc'[v] = "done"
    OBVIOUS
  <2> QED
    BY SlipMoves DEF FindSlip, DiffSlip, WriteSlip, SlipGoto
<1>3. \A s : \A x \in Through(s) : x \in Through(s)' /\ slipHeld'[x] = slipHeld[x]
  BY <1>2, SlipMoves DEF Through, Ruled
<1>4. Decisive' => Decisive
  BY <1>1, <1>2 DEF Decisive
<1> QED
  BY <1>3, <1>4

\* A row that is not written stays sound.
LEMMA SoundKept ==
  ASSUME SlipInv, SlipNext, NEW s \in SlipSubmits, slips'[s] = slips[s], RowSound(s)
  PROVE  RowSound(s)'
<1>1. CASE slips[s] = NewSlip
  BY <1>1 DEF RowSound
<1>2. ASSUME NEW v \in Through(s), slips[s] = slipHeld[v]
      PROVE  RowSound(s)'
  BY <1>2, SlipThrough DEF RowSound
<1>3. ASSUME NEW v \in Through(s), NEW x \in Through(s), NEW y \in Through(s),
             x # v, y # v,
             slips[s] = [status |-> slipHeld[x].status, verifiedBy |-> v],
             slipHeld[y].status = slipHeld[v].status,
             slipHeld[y].status # slipHeld[x].status
      PROVE  RowSound(s)'
  <2>1. /\ v \in Through(s)' /\ slipHeld'[v] = slipHeld[v]
        /\ x \in Through(s)' /\ slipHeld'[x] = slipHeld[x]
        /\ y \in Through(s)' /\ slipHeld'[y] = slipHeld[y]
    BY SlipThrough
  <2> QED
    BY <1>3, <2>1 DEF RowSound
<1> QED
  BY <1>1, <1>2, <1>3 DEF RowSound

\* In a sound row status and verifier are from verifications that are through.
LEMMA SoundRow ==
  ASSUME SlipInv, NEW s \in Uploaded, RowSound(s), slips[s] # NewSlip
  PROVE  \E v, x \in Through(s) : /\ slips[s].verifiedBy = v
                                 /\ slips[s].status = slipHeld[x].status
<1>1. \A v \in Through(s) : v \in SlipVerifiers /\ slipHeld[v].verifiedBy = v
  BY DEF Through, Ruled
<1>2. CASE \E v \in Through(s) : slips[s] = slipHeld[v]
  BY <1>1, <1>2
<1>3. CASE \E v, x, y \in Through(s) :
             /\ x # v /\ y # v
             /\ slips[s] = [status |-> slipHeld[x].status, verifiedBy |-> v]
             /\ slipHeld[y].status = slipHeld[v].status
             /\ slipHeld[y].status # slipHeld[x].status
  <2>1. PICK v, x \in Through(s) : slips[s] = [status |-> slipHeld[x].status, verifiedBy |-> v]
    BY <1>3
  <2> QED
    BY <2>1
<1> QED
  BY <1>2, <1>3 DEF RowSound

\* A row that a verification changes is its own.
LEMMA WrittenSlip ==
  ASSUME SlipInv, Decisive, NEW v \in SlipVerifiers, WriteSlip(v),
         slipCase[v] \in Uploaded, dpc[v] = "update"
  PROVE  /\ slips[slipCase[v]] \in Slips /\ slips'[slipCase[v]] \in Slips
         /\ slips'[slipCase[v]].verifiedBy = v
         /\ slips'[slipCase[v]].status = IF "status" \in slipDirty[v]
                                          THEN slipHeld[v].status
                                          ELSE slips[slipCase[v]].status
<1> DEFINE s == slipCase[v]
<1> USE DEF SlipInv, SlipTypeOK
<1>1. slips'[s] = Merge(slips[s], slipHeld[v], slipDirty[v])
  BY DEF WriteSlip, SlipGoto, Uploaded
<1>2. slips[s] \in Slips /\ slipHeld[v] \in Slips /\ slipHeld[v].verifiedBy = v
  BY DEF Uploaded, SlipHands
<1>3. "verifiedBy" \in slipDirty[v]
  BY DEF SlipAgrees
<1> QED
  BY <1>1, <1>2, <1>3, MergedSlip

\* What a verification holds before it writes, as long as nobody is undecided.
LEMMA SlipAgreesNext == SlipInv /\ SlipNext => SlipAgrees'
<1> SUFFICES ASSUME SlipInv, SlipNext, Decisive', NEW v \in SlipVerifiers, dpc'[v] = "update"
             PROVE  /\ "verifiedBy" \in slipDirty'[v]
                    /\ \/ "status" \in slipDirty'[v]
                       \/ \E y \in Through(slipCase[v])' :
                             slipHeld'[y].status = slipHeld'[v].status
  BY DEF SlipAgrees
<1> DEFINE s == slipCase[v]
<1>1. Decisive
  BY SlipThrough
<1>2. CASE dpc'[v] = dpc[v] /\ slipHeld'[v] = slipHeld[v] /\ slipDirty'[v] = slipDirty[v]
  <2>1. slipCase' = slipCase
    BY SlipMoves DEF SlipInv
  <2>2. /\ "verifiedBy" \in slipDirty[v]
        /\ \/ "status" \in slipDirty[v]
           \/ \E y \in Through(s) : slipHeld[y].status = slipHeld[v].status
    BY <1>1, <1>2 DEF SlipInv, SlipAgrees
  <2> QED
    BY <1>2, <2>1, <2>2, SlipThrough DEF Through, Ruled
<1>3. CASE DiffSlip(v)
  <2>1. /\ s \in Uploaded /\ dpc[v] = "diff" /\ slipHeld' = slipHeld
        /\ slipDirty'[v] = Dirty(slipHeld[v], slips[s])
    BY <1>3 DEF DiffSlip, SlipGoto, SlipInv, SlipTypeOK, SlipCalls, Differing
  <2>2. slipHeld[v] \in Slips /\ slipHeld[v].verifiedBy = v /\ slips[s] \in Slips
    BY <2>1 DEF SlipInv, SlipTypeOK, SlipHands, Uploaded
  <2>3. CASE slips[s] = NewSlip
    <3>1. slipHeld[v] = [status |-> slipHeld[v].status, verifiedBy |-> v]
      BY <2>2 DEF Slips
    <3>2. slipHeld[v].status # "PENDING"
      BY <1>1, <3>1 DEF Decisive
    <3> QED
      BY <2>1, <2>2, <2>3, <3>2, DirtySlip, SlipNamesAssumption DEF NewSlip
  <2>4. CASE slips[s] # NewSlip
    <3>1. RowSound(s)
      BY <1>1, <2>1 DEF SlipInv, SlipRows
    <3>2. PICK u, x \in Through(s) : /\ slips[s].verifiedBy = u
                                    /\ slips[s].status = slipHeld[x].status
      BY <2>1, <2>4, <3>1, SoundRow
    <3>3. u # v
      BY <2>1 DEF Through
    <3>4. "verifiedBy" \in slipDirty'[v]
      BY <2>1, <2>2, <3>2, <3>3, DirtySlip
    <3>5. "status" \in slipDirty'[v] \/ slipHeld[x].status = slipHeld[v].status
      BY <2>1, <2>2, <3>2, DirtySlip
    <3>6. x \in Through(s)' /\ slipHeld' = slipHeld /\ slipCase' = slipCase
      BY <2>1, <3>2, SlipThrough, SlipMoves DEF SlipInv, Through, Ruled
    <3> QED
      BY <2>1, <3>4, <3>5, <3>6 DEF Through, Ruled
  <2> QED
    BY <2>3, <2>4
<1>4. ~FindSlip(v) /\ ~WriteSlip(v)
  BY DEF FindSlip, WriteSlip, SlipGoto, SlipInv, SlipTypeOK, SlipCalls
<1> QED
  BY <1>2, <1>3, <1>4, SlipMoves DEF SlipInv

\* A step that makes a row new is the insertion of submitPayment.
LEMMA OnlyInsertsNew ==
  ASSUME SlipInv, SlipNext, Decisive, NEW s \in SlipSubmits, slips'[s] = NewSlip
  PROVE  \/ slips[s] = NewSlip /\ ~ \E v \in SlipVerifiers : WriteSlip(v) /\ slipCase[v] = s
         \/ dpc[s] = "insert" /\ UNCHANGED slipHeld
<1>1. NewSlip \in Slips /\ NewSlip # NoSlip
  BY SlipNamesAssumption DEF Slips, NewSlip, Verdicts
<1>2. ASSUME NEW v \in SlipVerifiers, WriteSlip(v), slipCase[v] = s PROVE FALSE
  <2>1. NewSlip.verifiedBy # v
    BY SlipNamesAssumption DEF NewSlip
  <2>2. slipHeld[v].verifiedBy = v
    BY <1>2 DEF WriteSlip, SlipGoto, SlipInv, SlipHands
  <2>3. CASE dpc[v] = "update"
    <3>1. CASE s \in Uploaded
      BY <1>2, <2>1, <2>3, <3>1, WrittenSlip
    <3>2. CASE s \notin Uploaded
      BY <1>1, <1>2, <2>3, <3>2 DEF WriteSlip, SlipGoto, Uploaded
    <3> QED
      BY <3>1, <3>2
  <2>4. CASE dpc[v] = "reinsert"
    <3>1. slips[s] # NewSlip
      BY <1>2, <2>4 DEF SlipInv, SlipGone
    <3> QED
      BY <1>2, <2>1, <2>2, <2>4, <3>1 DEF WriteSlip, SlipGoto, SlipInv, SlipTypeOK
  <2> QED
    BY <1>2, <2>3, <2>4 DEF WriteSlip, SlipGoto
<1> QED
  BY <1>1, <1>2, RowMoves DEF SlipInv

\* A row that is to be inserted again is never as it was at first.
LEMMA SlipGoneNext == SlipInv /\ SlipNext => SlipGone'
<1> SUFFICES ASSUME SlipInv, SlipNext, Decisive', NEW v \in SlipVerifiers,
                    dpc'[v] = "reinsert", slips'[slipCase[v]] = NewSlip
             PROVE  FALSE
  BY SlipMoves DEF SlipGone, SlipInv
<1> DEFINE s == slipCase[v]
<1> USE DEF SlipInv
<1>1. s \in SlipSubmits /\ Decisive /\ NewSlip # NoSlip
  BY SlipThrough, SlipNamesAssumption DEF SlipCasesOK, Slips, NewSlip, Verdicts
<1>2. dpc[v] \in {"diff", "reinsert"} /\ slipHeld'[v] = slipHeld[v]
  BY SlipMoves DEF FindSlip, DiffSlip, WriteSlip, SlipGoto, SlipTypeOK, SlipCalls
<1>3. dpc[s] = "done"
  BY <1>2 DEF SlipHands
<1>4. slips[s] = NewSlip
  BY <1>1, <1>3, OnlyInsertsNew
<1>5. dpc[v] = "diff"
  BY <1>1, <1>2, <1>4 DEF SlipGone
<1>6. DiffSlip(v)
  BY <1>5, SlipMoves DEF FindSlip, WriteSlip, SlipGoto
<1>7. s \notin Uploaded
  BY <1>5, <1>6 DEF DiffSlip, SlipGoto, SlipTypeOK, SlipCalls
<1> QED
  BY <1>1, <1>4, <1>7 DEF Uploaded

\* A row that is as submitPayment inserted it has met no verification yet.
LEMMA SlipFreshNext ==
  ASSUME SlipInv, SlipNext, Decisive', NEW s \in SlipSubmits, slips'[s] = NewSlip,
         NEW w \in Through(s)'
  PROVE  FALSE
<1> USE DEF SlipInv
<1>1. Decisive /\ NewSlip # NoSlip /\ NewSlip.verifiedBy # w
  BY SlipThrough, SlipNamesAssumption DEF Slips, NewSlip, Verdicts, Through, Ruled
<1>2. /\ w \in SlipVerifiers /\ dpc'[w] = "done" /\ slipHeld'[w].verifiedBy = w
      /\ slipCase[w] = s
  BY SlipMoves DEF Through, Ruled
<1>3. CASE slipHeld'[w] = slipHeld[w] /\ dpc[s] = "insert"
  BY <1>2, <1>3 DEF SlipHands
<1>4. CASE slips[s] = NewSlip /\ ~WriteSlip(w)
  <2>1. Through(s) = {}
    BY <1>1, <1>4 DEF SlipRows, Uploaded
  <2>2. dpc[w] # "done" \/ slipHeld'[w] # slipHeld[w]
    BY <1>2, <2>1 DEF Through, Ruled
  <2>3. FindSlip(w)
    BY <1>2, <1>4, <2>2, SlipMoves DEF DiffSlip, SlipGoto, SlipTypeOK, SlipCalls
  <2>4. slipHeld'[w] = NewSlip
    BY <1>2, <2>3 DEF FindSlip, SlipGoto, SlipTypeOK, SlipCalls, SlipHands
  <2> QED
    BY <1>1, <1>2, <2>4
<1> QED
  BY <1>1, <1>2, <1>3, <1>4, OnlyInsertsNew

\* A verification that writes leaves a sound row.
LEMMA WritesSound ==
  ASSUME SlipInv, SlipNext, Decisive, NEW v \in SlipVerifiers, WriteSlip(v),
         NEW s \in SlipSubmits, slipCase[v] = s, slips'[s] # slips[s]
  PROVE  RowSound(s)'
<1> USE DEF SlipInv
<1>1. /\ dpc[v] \in {"update", "reinsert"} /\ dpc'[v] = "done"
      /\ UNCHANGED <<slipHeld, slipCase>>
  BY DEF WriteSlip, SlipGoto, SlipTypeOK, SlipCalls
<1>2. /\ v \in Through(s)' /\ v \notin Through(s) /\ slipHeld[v] \in Slips
      /\ slipHeld[v].verifiedBy = v
  BY <1>1 DEF Through, Ruled, SlipHands, SlipTypeOK
<1>3. CASE slips'[s] = slipHeld[v]
  BY <1>1, <1>2, <1>3 DEF RowSound
<1>4. CASE slips'[s] # slipHeld[v]
  <2>1. dpc[v] = "update" /\ s \in Uploaded
    BY <1>1, <1>4 DEF WriteSlip, SlipGoto, SlipTypeOK, SlipCalls
  <2>2. /\ slips'[s] \in Slips /\ slips'[s].verifiedBy = v
        /\ slips'[s].status = IF "status" \in slipDirty[v] THEN slipHeld[v].status
                                                           ELSE slips[s].status
    BY <2>1, WrittenSlip
  <2>3. slips'[s].status # slipHeld[v].status
    BY <1>2, <1>4, <2>2 DEF Slips
  <2>4. slips'[s].status = slips[s].status /\ "status" \notin slipDirty[v]
    BY <2>2, <2>3
  <2>5. PICK y \in Through(s) : slipHeld[y].status = slipHeld[v].status
    BY <2>1, <2>4 DEF SlipAgrees
  <2>6. RowSound(s) /\ slips[s] # NewSlip
    BY <2>1, <2>5 DEF SlipRows
  <2>7. PICK u, x \in Through(s) : slips[s].status = slipHeld[x].status
    BY <2>1, <2>6, SoundRow
  <2>8. slips'[s] = [status |-> slipHeld[x].status, verifiedBy |-> v]
    BY <2>2, <2>4, <2>7 DEF Slips
  <2>9. x # v /\ y # v /\ slipHeld[y].status # slipHeld[x].status
    BY <1>2, <2>3, <2>4, <2>5, <2>7
  <2>10. x \in Through(s)' /\ y \in Through(s)'
    BY <2>5, <2>7, SlipThrough
  <2> QED
    BY <1>1, <1>2, <2>5, <2>8, <2>9, <2>10 DEF RowSound
<1> QED
  BY <1>3, <1>4

\* The invariant of the rows.
LEMMA SlipRowsNext == SlipInv /\ SlipTypeOK' /\ SlipNext => SlipRows'
<1> SUFFICES ASSUME SlipInv, SlipTypeOK', SlipNext, Decisive',
                    NEW s \in SlipSubmits, slips'[s] # NoSlip
             PROVE  RowSound(s)' /\ (slips'[s] = NewSlip => Through(s)' = {})
  BY DEF SlipRows, Uploaded
<1>1. Decisive
  BY SlipThrough
<1>2. slips'[s] = NewSlip => Through(s)' = {}
  BY SlipFreshNext
<1>3. CASE slips'[s] = slips[s]
  BY <1>1, <1>2, <1>3, SoundKept DEF SlipInv, SlipRows, Uploaded
<1>4. CASE slips'[s] = NewSlip
  BY <1>2, <1>4 DEF RowSound
<1>5. ASSUME NEW v \in SlipVerifiers, WriteSlip(v), slipCase[v] = s, slips'[s] # slips[s]
      PROVE  RowSound(s)'
  BY <1>1, <1>5, WritesSound
<1> QED
  BY <1>2, <1>3, <1>4, <1>5, RowMoves DEF SlipInv

\* Every step of the four handlers preserves the invariant.
LEMMA SlipNextInv == SlipInv /\ SlipNext => SlipInv'
<1>1. SlipInv /\ SlipNext => SlipTypeOK' /\ SlipCasesOK' /\ SlipUnwritten' /\ SlipHands'
  BY SlipTypeNext DEF SlipInv
<1> QED
  BY <1>1, SlipAgreesNext, SlipGoneNext, SlipRowsNext DEF SlipInv

\* What the invariant says of verdicts.
LEMMA SlipVerdicts == SlipInv => WholeVerdict
<1> SUFFICES ASSUME SlipInv, Decisive, NEW s \in Uploaded, RowSound(s)
             PROVE  \/ slips[s] = NewSlip
                    \/ \E v \in Ruled(s) : slips[s] = slipHeld[v]
                    \/ \E v, x, y \in Ruled(s) :
                         /\ x # v /\ y # v
                         /\ slips[s] = [status |-> slipHeld[x].status, verifiedBy |-> v]
                         /\ slipHeld[y].status = slipHeld[v].status
                         /\ slipHeld[y].status # slipHeld[x].status
  BY DEF SlipInv, SlipRows, WholeVerdict, Decisive
<1>1. Through(s) \subseteq Ruled(s)
  BY DEF Through
<1> QED
  BY <1>1 DEF RowSound

-----------------------------------------------------------------------------
(* Calls one after the other.                                              *)

\* One call is under way at a time.
SlipAlone ==
  world.serial => \A c, d \in SlipCalls :
    dpc[c] \notin {"idle", "done"} /\ dpc[d] \notin {"idle", "done"} => c = d

\* What a call has found is the case until it writes.
SlipSettled ==
  world.serial =>
    /\ \A s \in SlipSubmits : dpc[s] = "insert" => ~HasSlip(slipPayer[s])
    /\ \A v \in SlipVerifiers : dpc[v] \in {"diff", "update"} => Open(slipCase[v])
    /\ \A v \in SlipVerifiers : dpc[v] # "reinsert"
    /\ \A d \in SlipDeletes : dpc[d] = "delete" => Deletable(slipCase[d])

SlipSerialInv == SlipAlone /\ SlipSettled /\ OneSlipEach

\* It holds before the first call, and the other services do not touch it.
LEMMA SlipSerialInit == SlipInit => SlipSerialInv
BY DEF SlipInit, Coming, SlipSerialInv, SlipAlone, SlipSettled, OneSlipEach, Uploaded, SlipCalls

LEMMA SlipSerialStutter ==
  SlipSerialInv /\ UNCHANGED slipVars /\ UNCHANGED world => SlipSerialInv'
BY DEF slipVars, SlipSerialInv, SlipAlone, SlipSettled, OneSlipEach, Uploaded, HasSlip, Open,
       Deletable

\* Served one after the other, the call that takes a step is the only one.
LEMMA SlipAloneNext ==
  SlipTypeOK /\ SlipAlone /\ SlipNext /\ UNCHANGED world => SlipAlone'
<1> SUFFICES ASSUME SlipTypeOK, SlipAlone, SlipNext, UNCHANGED world, world.serial
             PROVE  \A c, d \in SlipCalls :
                      dpc'[c] \notin {"idle", "done"} /\ dpc'[d] \notin {"idle", "done"} => c = d
  BY DEF SlipAlone
<1> DEFINE Moves(c) == /\ dpc[c] # "done"
                       /\ dpc[c] = "idle" => SlipMayBegin
                       /\ \E to : dpc' = [dpc EXCEPT ![c] = to]
<1>1. ASSUME NEW c \in SlipCalls, Moves(c)
      PROVE  \A d, e \in SlipCalls :
               dpc'[d] \notin {"idle", "done"} /\ dpc'[e] \notin {"idle", "done"} => d = e
  BY <1>1 DEF SlipTypeOK, SlipAlone, SlipMayBegin
<1>2. dpc' = dpc \/ \E c \in SlipCalls : Moves(c)
  <2>1. CASE LastDatePasses \/ \E u \in DueUpdates : UpdateDue(u)
    BY <2>1 DEF LastDatePasses, UpdateDue, SlipGoto, SlipCalls
  <2>2. CASE \E s \in SlipSubmits : FindDue(s) \/ CheckSlip(s) \/ InsertSlip(s)
    BY <2>2 DEF FindDue, CheckSlip, InsertSlip, SlipGoto, SlipCalls
  <2>3. CASE \E v \in SlipVerifiers : FindSlip(v) \/ DiffSlip(v) \/ WriteSlip(v)
    BY <2>3 DEF FindSlip, DiffSlip, WriteSlip, SlipGoto, SlipCalls
  <2>4. CASE \E d \in SlipDeletes : FindOwn(d) \/ DeleteSlip(d)
    BY <2>4 DEF FindOwn, DeleteSlip, SlipGoto, SlipCalls
  <2> QED
    BY <2>1, <2>2, <2>3, <2>4 DEF SlipNext
<1> QED
  BY <1>1, <1>2 DEF SlipAlone

\* What was found stays the case until the call that found it writes.
LEMMA SlipSettledNext ==
  SlipInv /\ SlipSerialInv /\ SlipNext /\ UNCHANGED world /\ world.serial =>
    /\ SlipSettled' /\ OneSlipEach'
    /\ \A s \in Uploaded : slips[s].status = "VERIFIED" => slips'[s] = slips[s]
<1> SUFFICES ASSUME SlipInv, SlipSerialInv, SlipNext, UNCHANGED world, world.serial
             PROVE  /\ SlipSettled' /\ OneSlipEach'
                    /\ \A s \in Uploaded : slips[s].status = "VERIFIED" => slips'[s] = slips[s]
  OBVIOUS
<1> DEFINE Others(c) == \A q \in SlipCalls : q # c => dpc[q] \in {"idle", "done"}
           Goal == /\ SlipSettled' /\ OneSlipEach'
                   /\ \A s \in Uploaded : slips[s].status = "VERIFIED" => slips'[s] = slips[s]
<1> USE SlipNamesAssumption
<1> USE DEF SlipInv, SlipSerialInv, SlipTypeOK, SlipCasesOK, SlipSettled, OneSlipEach, SlipGoto, Uploaded
<1>1. \A c \in SlipCalls : dpc[c] # "done" /\ (dpc[c] = "idle" => SlipMayBegin) => Others(c)
  BY DEF SlipAlone, SlipMayBegin
<1>2. ASSUME NEW s \in SlipSubmits, FindDue(s) PROVE Goal
  BY <1>1, <1>2 DEF FindDue, SlipCalls
<1>3. ASSUME NEW s \in SlipSubmits, CheckSlip(s) PROVE Goal
  BY <1>1, <1>3 DEF CheckSlip, SlipCalls, HasSlip
<1>4. ASSUME NEW s \in SlipSubmits, InsertSlip(s) PROVE Goal
  BY <1>1, <1>4 DEF InsertSlip, SlipCalls, HasSlip, SlipUnwritten
<1>5. ASSUME NEW v \in SlipVerifiers, FindSlip(v) PROVE Goal
  BY <1>1, <1>5 DEF FindSlip, SlipCalls, Open
<1>6. ASSUME NEW v \in SlipVerifiers, DiffSlip(v) PROVE Goal
  BY <1>1, <1>6 DEF DiffSlip, SlipCalls, Open
<1>7. ASSUME NEW v \in SlipVerifiers, WriteSlip(v) PROVE Goal
  BY <1>1, <1>7 DEF WriteSlip, SlipCalls, Open
<1>8. ASSUME NEW d \in SlipDeletes, FindOwn(d) PROVE Goal
  BY <1>1, <1>8 DEF FindOwn, SlipCalls, Deletable
<1>9. ASSUME NEW d \in SlipDeletes, DeleteSlip(d) PROVE Goal
  BY <1>1, <1>9 DEF DeleteSlip, SlipCalls, Deletable
<1>10. ASSUME NEW u \in DueUpdates, UpdateDue(u) PROVE Goal
  BY <1>1, <1>10 DEF UpdateDue, SlipCalls
<1>11. ASSUME LastDatePasses PROVE Goal
  BY <1>11 DEF LastDatePasses, HasSlip, Open, Deletable
<1> QED
  BY <1>2, <1>3, <1>4, <1>5, <1>6, <1>7, <1>8, <1>9, <1>10, <1>11 DEF SlipNext
=============================================================================
