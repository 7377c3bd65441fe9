-------------------------------- MODULE Fees --------------------------------
(***************************************************************************)
(* The three kinds of payments of src/modules/payment side by side.  They  *)
(* share no rows: a run examines each in worlds of its own.                *)
(***************************************************************************)
EXTENDS InstituteFees, SubjectFees, Subscriptions

feesVars == <<world, feeVars, slipVars, billVars>>

FeesInit == world \in Worlds /\ FeeInit /\ SlipInit /\ BillInit

AllFinished == FeesFinished /\ SlipsFinished /\ BillsFinished

FeesNext == \/ FeeNext /\ UNCHANGED <<world, slipVars, billVars>>
            \/ SlipNext /\ UNCHANGED <<world, feeVars, billVars>>
            \/ BillNext /\ UNCHANGED <<world, feeVars, slipVars>>
            \/ AllFinished /\ UNCHANGED feesVars

FeesSpec == FeesInit /\ [][FeesNext]_feesVars

\* A request that was accepted is worked on until it is answered.
FairFeesSpec ==
  /\ FeesSpec
  /\ \A v \in BillVerifiers :
       WF_feesVars((LockBill(v) \/ RefreshUser(v) \/ CommitBill(v))
                   /\ UNCHANGED <<world, feeVars, slipVars>>)

-----------------------------------------------------------------------------
\* The type invariant of the three services together.
FeesTypeOK == FeeTypeOK /\ SlipTypeOK /\ BillTypeOK

\* What the three services refuse as already there is there once, one call
\* after the other: a pending submission of a member, a submission for a
\* subject, a pending payment for a month.
OneAtATime == OnePendingEach /\ OneSlipEach /\ OneBillAMonth

\* Verdicts stand: no later call opens, changes or removes what was decided, and
\* none changes the amount that was paid.
VerdictsStand == DecisionsStand /\ VerifiedStays /\ AmountSettled
=============================================================================
