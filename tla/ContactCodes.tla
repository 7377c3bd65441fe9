---------------------------- MODULE ContactCodes ----------------------------
(***************************************************************************)
(* The codes by which an e-mail address or a phone number is verified      *)
(* before a user registers with it                                         *)
(* (src/modules/user/services/user-otp.service.ts).  A code is named by    *)
(* the request that makes it.  requestEmailOtp and requestPhoneOtp take    *)
(* the same steps on different columns, and so do the two verifications:   *)
(* a contact stands for an address or a number.  Delivery may fail without *)
(* effect and is left out.                                                 *)
(***************************************************************************)
EXTENDS Integers, FiniteSets, Calls

CONSTANTS CodeRequests,  \* requestEmailOtp and requestPhoneOtp calls
          CodeChecks,    \* verifyEmailOtp and verifyPhoneOtp calls
          Contacts,      \* addresses and numbers, in their normal form
          Taken,         \* contacts a user is registered with
          MaxRequests,   \* MAX_REQUESTS_PER_DAY
          MaxRerequests, \* MAX_REREQUESTS_PER_DAY
          LastDay,       \* bound on the days that pass
          NoOtp          \* no row

ASSUME LimitsAssumption == /\ MaxRequests \in Nat \ {0}
                           /\ MaxRerequests \in 0..MaxRequests
                           /\ LastDay \in Nat
                           /\ Taken \subseteq Contacts

VARIABLES otps,      \* the row of each request
          day,       \* today
          opc,       \* where each call is
          contact,   \* the contact each request is about
          presented, \* the code each verification presents
          accepted   \* how often each code was accepted; no call reads it

otpVars == <<otps, day, opc, contact, presented, accepted>>

OtpCalls == CodeRequests \cup CodeChecks

Otps == [revoked : BOOLEAN, expired : BOOLEAN, verified : BOOLEAN, day : 0..LastDay]

ASSUME OtpNamesAssumption == /\ IsFiniteSet(CodeRequests)
                             /\ CodeRequests \cap CodeChecks = {}
                             /\ NoOtp \notin Otps

Sent == {r \in CodeRequests : otps[r] # NoOtp}

\* expiresAt lies ahead; a later request moves it to the past (revoked).
Live(r) == r \in Sent /\ ~otps[r].revoked /\ ~otps[r].expired

OtpInit == /\ otps = [r \in CodeRequests |-> NoOtp]
           /\ day = 0
           /\ opc = [c \in OtpCalls |-> Coming(c)]
           /\ contact \in About(CodeRequests, Contacts)
           /\ presented \in About(CodeChecks, CodeRequests)
           /\ accepted = [r \in CodeRequests |-> 0]

OtpGoto(c, from, to) == opc[c] = from /\ opc' = [opc EXCEPT ![c] = to]

OtpMayBegin == world.serial => \A c \in OtpCalls : opc[c] \in {"idle", "done"}

-----------------------------------------------------------------------------
(* Requests                                                                *)

SentToday_Mutant(r) ==
  Cardinality({q \in Sent : contact[q] = contact[r] /\ otps[q].day = day /\ ~otps[q].verified})
SentToday(r) == Cardinality({q \in Sent : contact[q] = contact[r] /\ otps[q].day = day})

WithinDailyLimit(r) == SentToday(r) < MaxRequests

\* Requests beyond the first ones of a day count as re-requests.
WithinRerequests(r) ==
  SentToday(r) > MaxRequests - MaxRerequests
    => SentToday(r) - (MaxRequests - MaxRerequests) < MaxRerequests

CheckDailyLimit(r) ==
  /\ OtpMayBegin
  /\ OtpGoto(r, "idle", IF contact[r] \notin Taken /\ WithinDailyLimit(r)
                           /\ WithinRerequests(r)
                        THEN "expire" ELSE "done")
  /\ UNCHANGED <<otps, day, contact, presented, accepted>>

Superseded(r, q) == contact[q] = contact[r] /\ Live(q) /\ ~otps[q].verified

ExpirePrevious(r) ==
  /\ OtpGoto(r, "expire", "insert")
  /\ otps' = [q \in CodeRequests |-> IF Superseded(r, q)
                                     THEN [otps[q] EXCEPT !.revoked = TRUE]
                                     ELSE otps[q]]
  /\ UNCHANGED <<day, contact, presented, accepted>>

InsertCode(r) ==
  /\ OtpGoto(r, "insert", "done")
  /\ otps' = [otps EXCEPT ![r] = [revoked |-> FALSE, expired |-> FALSE,
                                  verified |-> FALSE, day |-> day]]
  /\ UNCHANGED <<day, contact, presented, accepted>>

-----------------------------------------------------------------------------
(* Verifications                                                           *)

Acceptable(c) == Live(presented[c]) /\ ~otps[presented[c]].verified

FindCode(c) ==
  /\ OtpMayBegin
  /\ OtpGoto(c, "idle", IF Acceptable(c) THEN "mark" ELSE "done")
  /\ UNCHANGED <<otps, day, contact, presented, accepted>>

\* save writes back the expiresAt of the entity as well when a request moved
\* it meanwhile.
MarkVerified(c) ==
  /\ OtpGoto(c, "mark", "done")
  /\ otps' = [otps EXCEPT ![presented[c]].verified = TRUE,
                          ![presented[c]].revoked = FALSE]
  /\ accepted' = [accepted EXCEPT ![presented[c]] = @ + 1]
  /\ UNCHANGED <<day, contact, presented>>

-----------------------------------------------------------------------------
(* Time                                                                    *)

OtpExpires(r) == /\ Live(r)
                 /\ otps' = [otps EXCEPT ![r].expired = TRUE]
                 /\ UNCHANGED <<day, opc, contact, presented, accepted>>

\* A code may live past midnight.
DayPasses == /\ day < LastDay
             /\ \E c \in OtpCalls : opc[c] # "done"
             /\ day' = day + 1
             /\ UNCHANGED <<otps, opc, contact, presented, accepted>>

OtpNext == \/ \E r \in CodeRequests : \/ CheckDailyLimit(r) \/ ExpirePrevious(r)
                                      \/ InsertCode(r) \/ OtpExpires(r)
           \/ \E c \in CodeChecks : FindCode(c) \/ MarkVerified(c)
           \/ DayPasses

OtpsFinished == \A c \in OtpCalls : opc[c] = "done"

-----------------------------------------------------------------------------
(* Properties                                                              *)

\* Codes, days and calls have their types.
OtpTypeOK == /\ otps \in [CodeRequests -> Otps \cup {NoOtp}]
             /\ day \in 0..LastDay
             /\ opc \in [OtpCalls -> {"idle", "expire", "insert", "mark", "done"}]
             /\ contact \in [CodeRequests -> Contacts]
             /\ presented \in [CodeChecks -> CodeRequests]
             /\ accepted \in [CodeRequests -> Nat]

\* "Maximum 5 requests per day allowed": no contact gets more codes on one
\* day, midnight passing between the count and the INSERT included, when
\* requests come one after the other; overlapping ones count the same rows.
DailyLimit ==
  world.serial => \A r \in Sent :
    Cardinality({q \in Sent : contact[q] = contact[r] /\ otps[q].day = otps[r].day})
      <= MaxRequests

\* The code sent last is the only one of a contact that still works, on
\* whatever day the others were sent.
OneLiveCode ==
  world.serial => \A q, r \in Sent :
    /\ contact[q] = contact[r]
    /\ Live(q) /\ Live(r) /\ ~otps[q].verified /\ ~otps[r].verified
    => q = r

\* A code is accepted once, calls coming one after the other.
AcceptedOnce == world.serial => \A r \in CodeRequests : accepted[r] <= 1
=============================================================================
