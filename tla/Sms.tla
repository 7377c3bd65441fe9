--------------------------------- MODULE Sms ---------------------------------
(***************************************************************************)
(* The SMS accounts of institutes: the registry of sender masks, and on    *)
(* one institute's credentials row and its cache the calls that list       *)
(* masks, the campaigns that spend and the payments that refill it.        *)
(***************************************************************************)
EXTENDS SenderMask, SmsPayment, SmsCampaign

\* Payments, lists of masks and campaigns are different calls.
ASSUME CallsAssumption ==
  /\ (Verifiers \cup Submissions) \cap (MaskMakers \cup Actors) = {}
  /\ MaskMakers \cap Actors = {}

smsVars == <<credVars, maskVars, paymentVars, campaignVars>>

SmsInit == /\ world \in Worlds
           /\ CredInit /\ MaskInit /\ PaymentInit /\ CampaignInit
           /\ world.calls \subseteq Ops => creds = NoRow    \* it is not looked at

\* The process dies with its cache and whatever it was doing.
Crash ==
  /\ world.faulty
  /\ EndCampaigns
  /\ vpc' = [v \in Verifiers |-> IF vpc[v] = "idle" THEN "idle" ELSE "done"]
  /\ mpc' = [m \in MaskMakers |-> IF mpc[m] = "idle" THEN "idle" ELSE "done"]
  /\ opc' = [o \in Ops |-> IF opc[o] = "idle" THEN "idle" ELSE "done"]
  /\ cache' = NotCached
  /\ UNCHANGED <<world, creds, mask, entity, columns, masks, target, held, dirty,
                 paymentStatus, about, seen, grants, opening>>

SmsFinished == OpsFinished /\ VerifiersFinished /\ MakersFinished /\ CampaignFinished

SmsNext ==
  \/ MaskNext /\ UNCHANGED <<credVars, paymentVars, campaignVars>>
  \/ PaymentNext /\ UNCHANGED <<maskVars, campaignVars>>
  \/ CampaignNext /\ UNCHANGED <<maskVars, paymentVars>>
  \/ CredNext /\ UNCHANGED <<maskVars, paymentVars, campaignVars>>
  \/ Crash
  \/ SmsFinished /\ UNCHANGED smsVars

SmsSpec == SmsInit /\ [][SmsNext]_smsVars

\* A statement that can run does, a waiting request gets a connection that
\* becomes free, and a started request or a queued job goes on.
SmsFairness ==
  /\ \A v \in Verifiers : WF_smsVars(vpc[v] # "idle" /\ VerifierStep(v)
                                     /\ UNCHANGED <<maskVars, campaignVars>>)
  /\ \A c \in Composers : WF_smsVars(pc[c] # "idle" /\ ComposerStep(c)
                                     /\ UNCHANGED <<maskVars, paymentVars>>)
  /\ \A d \in Deciders : WF_smsVars(pc[d] # "idle" /\ DeciderStep(d)
                                    /\ UNCHANGED <<maskVars, paymentVars>>)

FairSmsSpec == SmsSpec /\ SmsFairness

-----------------------------------------------------------------------------
\* The type invariant of the registry, the row, the payments and the campaigns.
SmsTypeOK == MaskTypeOK /\ CredTypeOK /\ PaymentTypeOK /\ CampaignTypeOK

\* Masks of an institute: one is the default, none changes hands, and a
\* suspended one waits for an administrator.
MasksHold == []OneDefault /\ OwnerKept /\ SuspensionKept

\* The list of masks that messages are judged by is not shortened by whoever
\* saves the row, and no message bears a mask outside it.
ListingHolds == []OnlyListedMasks /\ MasksKept

\* A payment is verified exactly when it was granted, and grants are not lost.
GrantsSettled == VerifiedIffGranted /\ GrantsKept

\* What was sent: once, not after a rejection, and paid when it is called sent.
SentSoundly == SentOnce /\ RejectedUnsent /\ SentIsPaid

\* What was begun ends: verifications of payments and approved messages.
JobsEnd == ApprovedSettles /\ VerificationsEnd
=============================================================================
