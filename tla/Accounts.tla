------------------------------ MODULE Accounts ------------------------------
(***************************************************************************)
(* How a user comes in: the codes that verify a contact, the password and  *)
(* the refresh tokens.  They share no rows: a run examines each in worlds  *)
(* of its own.                                                             *)
(***************************************************************************)
EXTENDS ContactCodes, Passwords, Sessions

accountVars == <<world, otpVars, passwordVars, sessionVars>>

AccountsInit == world \in Worlds /\ OtpInit /\ PasswordInit /\ SessionInit

AccountsFinished ==
  /\ OtpsFinished
  /\ \A c \in PwCalls : ppc[c] \in {"done", "in", "refused"}
  /\ \A c \in Changes : job[c] \in {"none", "done"}
  /\ \A c \in SessionCalls : spc[c] = "done"

AccountsNext == \/ OtpNext /\ UNCHANGED <<world, passwordVars, sessionVars>>
                \/ PasswordNext /\ UNCHANGED <<world, otpVars, sessionVars>>
                \/ SessionNext /\ UNCHANGED <<world, otpVars, passwordVars>>
                \/ AccountsFinished /\ UNCHANGED accountVars

AccountsSpec == AccountsInit /\ [][AccountsNext]_accountVars

-----------------------------------------------------------------------------
\* The type invariant of the three services together.
AccountsTypeOK == OtpTypeOK /\ PasswordTypeOK /\ SessionTypeOK

\* The codes that verify a contact: as many a day as the limit says, one of them
\* alive, each accepted once.
OtpSound == DailyLimit /\ OneLiveCode /\ AcceptedOnce

\* The codes that set a password: each sets one, only the newest does, and the
\* guesses at it are limited.
CodesHold == []CodeSetsOne /\ []NewestCodeOnly /\ GuessesLimited
=============================================================================
