--------------------------- MODULE AccountsProofs ---------------------------
(***************************************************************************)
(* How a user comes in, for any number of calls, contacts, days, codes,    *)
(* passwords, tokens and seconds, and whatever calls a world has.          *)
(***************************************************************************)
EXTENDS Accounts, FiniteSetTheorems, TLAPS

(* Contact codes.                                                          *)

\* A request has no row before it is over; a verification marks a row that is
\* there.
OtpRoles ==
  /\ \A r \in CodeRequests : /\ opc[r] # "mark"
                             /\ opc[r] # "done" => otps[r] = NoOtp
  /\ \A c \in CodeChecks : /\ opc[c] \in {"idle", "mark", "done"}
                           /\ opc[c] = "mark" => presented[c] \in Sent

\* No code was sent later than today.
NoneAhead == \A r \in Sent : otps[r].day <= day

\* The inductive invariant of calls that overlap.
OtpInv == OtpTypeOK /\ OtpRoles /\ NoneAhead

\* Calls one after the other: one is under way at a time,
OtpAlone ==
  world.serial => \A c, d \in OtpCalls :
    opc[c] \notin {"idle", "done"} /\ opc[d] \notin {"idle", "done"} => c = d

CodesOn(k, d) == {q \in Sent : contact[q] = k /\ otps[q].day = d}

\* no contact has more codes of one day than the limit,
DailyCount ==
  world.serial => \A k \in Contacts, d \in 0..LastDay : Cardinality(CodesOn(k, d)) <= MaxRequests

\* a request past its check may still send one today, and sends it when no
\* other of the contact works,
RequestsSettled ==
  world.serial => \A r \in CodeRequests :
    /\ opc[r] \in {"expire", "insert"} => Cardinality(CodesOn(contact[r], day)) < MaxRequests
    /\ opc[r] = "insert" => \A q \in Sent : contact[q] = contact[r] /\ Live(q) => otps[q].verified

\* and a code is accepted when it has not been before.
ChecksSettled ==
  world.serial =>
    /\ \A c \in CodeChecks : opc[c] = "mark" => ~otps[presented[c]].verified
    /\ \A r \in CodeRequests : accepted[r] # 0 =>
         accepted[r] = 1 /\ r \in Sent /\ otps[r].verified

OtpSerialInv == OtpAlone /\ DailyCount /\ RequestsSettled /\ ChecksSettled /\ OneLiveCode

-----------------------------------------------------------------------------
\* The invariants hold before the first call.
LEMMA OtpInitInv == OtpInit => OtpInv /\ OtpSerialInv
<1> SUFFICES ASSUME OtpInit PROVE OtpInv /\ OtpSerialInv
  OBVIOUS
<1> USE LimitsAssumption, OtpNamesAssumption DEF OtpInit
<1>1. opc \in [OtpCalls -> {"idle", "done"}]
  BY DEF Coming
<1>2. contact \in [CodeRequests -> Contacts] /\ presented \in [CodeChecks -> CodeRequests]
  BY DEF About
<1>3. OtpTypeOK
  BY <1>1, <1>2 DEF OtpTypeOK
<1>4. Sent = {}
  BY DEF Sent
<1>5. OtpInv
  BY <1>1, <1>3, <1>4 DEF OtpInv, OtpRoles, NoneAhead, OtpCalls
<1>6. \A k, d : CodesOn(k, d) = {}
  BY <1>4 DEF CodesOn
<1>7. DailyCount
  BY <1>6, FS_EmptySet DEF DailyCount
<1>8. OtpAlone /\ RequestsSettled /\ ChecksSettled /\ OneLiveCode
  BY <1>1, <1>4 DEF OtpAlone, RequestsSettled, ChecksSettled, OneLiveCode, OtpCalls
<1> QED
  BY <1>5, <1>7, <1>8 DEF OtpSerialInv

\* Passwords and sessions do not touch them.
LEMMA OtpStutter == OtpInv /\ OtpSerialInv /\ UNCHANGED <<world, otpVars>>
                      => OtpInv' /\ OtpSerialInv'
<1> SUFFICES ASSUME OtpInv, OtpSerialInv, UNCHANGED <<world, otpVars>>
             PROVE OtpInv' /\ OtpSerialInv'
  OBVIOUS
<1> USE DEF otpVars
<1>1. OtpInv'
  BY DEF OtpInv, OtpTypeOK, OtpRoles, NoneAhead, Sent
<1>2. Sent' = Sent /\ (\A q \in CodeRequests : Live(q)' = Live(q))
  BY DEF Sent, Live
<1>3. \A k, d : CodesOn(k, d)' = CodesOn(k, d)
  BY DEF CodesOn, Sent
<1>4. OtpAlone' /\ ChecksSettled' /\ OneLiveCode'
  BY <1>2 DEF OtpSerialInv, OtpAlone, ChecksSettled, OneLiveCode, Sent
<1>5. DailyCount'
  BY <1>3 DEF OtpSerialInv, DailyCount, CodesOn, Sent
<1>6. RequestsSettled'
  BY <1>2, <1>3 DEF OtpSerialInv, RequestsSettled, CodesOn, Sent
<1> QED
  BY <1>1, <1>4, <1>5, <1>6 DEF OtpSerialInv

\* Every step of the service preserves the first one.
LEMMA OtpNextInv == OtpInv /\ OtpNext => OtpInv'
<1> SUFFICES ASSUME OtpInv, OtpNext PROVE OtpInv'
  OBVIOUS
<1> USE LimitsAssumption, OtpNamesAssumption
<1> USE DEF OtpInv, OtpGoto, OtpCalls
<1>1. ASSUME NEW r \in CodeRequests, CheckDailyLimit(r) PROVE OtpInv'
  BY <1>1 DEF CheckDailyLimit, OtpTypeOK, OtpRoles, NoneAhead, Sent
<1>2. ASSUME NEW r \in CodeRequests, ExpirePrevious(r) PROVE OtpInv'
  <2>1. \A q \in CodeRequests : otps[q] \in Otps =>
          /\ otps'[q] \in Otps
          /\ otps'[q].day = otps[q].day
    BY <1>2 DEF ExpirePrevious, Otps
  <2>2. \A q \in CodeRequests : otps[q] = NoOtp => otps'[q] = NoOtp
    BY <1>2 DEF ExpirePrevious, Superseded, Live, Sent
  <2>3. Sent' = Sent
    BY <2>1, <2>2 DEF Sent, OtpTypeOK
  <2>4. OtpTypeOK'
    <3>1. otps' = [q \in CodeRequests |-> otps'[q]]
      BY <1>2 DEF ExpirePrevious
    <3>2. \A q \in CodeRequests : otps'[q] \in Otps \cup {NoOtp}
      BY <2>1, <2>2 DEF OtpTypeOK
    <3>3. otps' \in [CodeRequests -> Otps \cup {NoOtp}]
      BY <3>1, <3>2
    <3> QED
      BY <1>2, <3>3 DEF ExpirePrevious, OtpTypeOK
  <2>5. OtpRoles'
    BY <1>2, <2>2, <2>3 DEF ExpirePrevious, OtpRoles, OtpTypeOK
  <2>6. NoneAhead'
    BY <1>2, <2>1, <2>3 DEF ExpirePrevious, NoneAhead, Sent, OtpTypeOK
  <2> QED
    BY <2>4, <2>5, <2>6
<1>3. ASSUME NEW r \in CodeRequests, InsertCode(r) PROVE OtpInv'
  <2> DEFINE row == [revoked |-> FALSE, expired |-> FALSE, verified |-> FALSE, day |-> day]
  <2>1. row \in Otps /\ row.day = day
    BY DEF Otps, OtpTypeOK
  <2>2. otps' = [otps EXCEPT ![r] = row]
    BY <1>3 DEF InsertCode
  <2> HIDE DEF row
  <2>3. OtpTypeOK'
    <3>1. otps' \in [CodeRequests -> Otps \cup {NoOtp}]
      BY <2>1, <2>2 DEF OtpTypeOK
    <3> QED
      BY <1>3, <3>1 DEF InsertCode, OtpTypeOK
  <2>4. Sent' = Sent \cup {r}
    BY <2>1, <2>2 DEF Sent, OtpTypeOK
  <2>5. OtpRoles'
    BY <1>3, <2>2, <2>4 DEF InsertCode, OtpRoles, OtpTypeOK
  <2>6. NoneAhead'
    BY <1>3, <2>1, <2>2, <2>4 DEF InsertCode, NoneAhead, Sent, OtpTypeOK
  <2> QED
    BY <2>3, <2>5, <2>6
<1>4. ASSUME NEW r \in CodeRequests, OtpExpires(r) PROVE OtpInv'
  <2>1. r \in Sent /\ otps[r] \in Otps
    BY <1>4 DEF OtpExpires, Live, Sent, OtpTypeOK
  <2>2. /\ otps' \in [CodeRequests -> Otps \cup {NoOtp}]
        /\ Sent' = Sent
        /\ \A q \in Sent : otps'[q].day = otps[q].day
        /\ \A q \in CodeRequests \ Sent : otps'[q] = otps[q]
    <3>1. otps'[r] \in Otps /\ otps'[r].day = otps[r].day
      BY <1>4, <2>1 DEF OtpExpires, Sent, OtpTypeOK, Otps
    <3>2. /\ \A q \in CodeRequests \ {r} : otps'[q] = otps[q]
          /\ otps' = [q \in CodeRequests |-> otps'[q]]
      BY <1>4, <2>1 DEF OtpExpires, Sent, OtpTypeOK
    <3>3. otps' \in [CodeRequests -> Otps \cup {NoOtp}]
      BY <3>1, <3>2 DEF OtpTypeOK
    <3> QED
      BY <2>1, <3>1, <3>2, <3>3 DEF Sent
  <2>7. OtpTypeOK'
    BY <1>4, <2>2 DEF OtpExpires, OtpTypeOK
  <2>8. OtpRoles'
    BY <1>4, <2>2 DEF OtpExpires, OtpRoles, OtpTypeOK, Sent
  <2>9. NoneAhead'
    BY <1>4, <2>2 DEF OtpExpires, NoneAhead
  <2> QED
    BY <2>7, <2>8, <2>9
<1>5. ASSUME NEW c \in CodeChecks, FindCode(c) PROVE OtpInv'
  <2>2. Sent' = Sent /\ UNCHANGED <<otps, day, presented>>
    BY <1>5 DEF FindCode, Sent
  <2>7. OtpTypeOK'
    BY <1>5, <2>2 DEF FindCode, Acceptable, Live, OtpTypeOK
  <2>8. OtpRoles'
    BY <1>5, <2>2 DEF FindCode, Acceptable, Live, OtpRoles, OtpTypeOK, Sent
  <2>9. NoneAhead'
    BY <1>5, <2>2 DEF FindCode, Acceptable, Live, NoneAhead
  <2> QED
    BY <2>7, <2>8, <2>9
<1>6. ASSUME NEW c \in CodeChecks, MarkVerified(c) PROVE OtpInv'
  <2> DEFINE r == presented[c]
  <2>1. r \in Sent /\ otps[r] \in Otps
    BY <1>6 DEF MarkVerified, OtpRoles, Sent, OtpTypeOK
  <2>2. /\ otps' \in [CodeRequests -> Otps \cup {NoOtp}]
        /\ Sent' = Sent
        /\ \A q \in Sent : otps'[q].day = otps[q].day
        /\ \A q \in CodeRequests \ Sent : otps'[q] = otps[q]
    <3>1. otps'[r] \in Otps /\ otps'[r].day = otps[r].day
      BY <1>6, <2>1 DEF MarkVerified, Sent, OtpTypeOK, Otps
    <3>2. /\ \A q \in CodeRequests \ {r} : otps'[q] = otps[q]
          /\ otps' = [q \in CodeRequests |-> otps'[q]]
      BY <1>6, <2>1 DEF MarkVerified, Sent, OtpTypeOK
    <3>3. otps' \in [CodeRequests -> Otps \cup {NoOtp}]
      BY <3>1, <3>2 DEF OtpTypeOK
    <3> QED
      BY <2>1, <3>1, <3>2, <3>3 DEF Sent
  <2>3. accepted' \in [CodeRequests -> Nat]
    BY <1>6, <2>1 DEF MarkVerified, OtpTypeOK, Sent
  <2>7. OtpTypeOK'
    BY <1>6, <2>2, <2>3 DEF MarkVerified, OtpTypeOK
  <2>8. OtpRoles'
    BY <1>6, <2>2, <2>3 DEF MarkVerified, OtpRoles, OtpTypeOK, Sent
  <2>9. NoneAhead'
    BY <1>6, <2>2, ZenonT(40) DEF MarkVerified, NoneAhead
  <2> QED
    BY <2>7, <2>8, <2>9
<1>7. ASSUME DayPasses PROVE OtpInv'
  <2>1. OtpTypeOK'
    BY <1>7 DEF DayPasses, OtpTypeOK
  <2>2. OtpRoles'
    BY <1>7 DEF DayPasses, OtpRoles, Sent
  <2>3. NoneAhead'
    BY <1>7 DEF DayPasses, NoneAhead, Sent, OtpTypeOK, Otps
  <2> QED
    BY <2>1, <2>2, <2>3
<1> QED
  BY <1>1, <1>2, <1>3, <1>4, <1>5, <1>6, <1>7 DEF OtpNext

\* And, of calls one after the other, the second one: the checks of a call
\* hold until it acts on them.
LEMMA OtpNextSerial ==
  OtpInv /\ OtpSerialInv /\ OtpNext /\ UNCHANGED world => OtpSerialInv'
<1> SUFFICES ASSUME OtpInv, OtpSerialInv, OtpNext, UNCHANGED world, world.serial
             PROVE OtpSerialInv'
  BY DEF OtpSerialInv, OtpAlone, DailyCount, RequestsSettled, ChecksSettled, OneLiveCode
<1> USE LimitsAssumption, OtpNamesAssumption
<1> USE DEF OtpInv, OtpSerialInv, OtpGoto, OtpCalls
<1>1. \A k, d : IsFiniteSet(CodesOn(k, d))
  BY FS_Subset DEF CodesOn, Sent
<1>2. ASSUME NEW r \in CodeRequests, CheckDailyLimit(r) PROVE OtpSerialInv'
  <2>1. \A c \in OtpCalls : opc[c] \in {"idle", "done"}
    BY <1>2 DEF CheckDailyLimit, OtpMayBegin
  <2>2. /\ Sent' = Sent /\ UNCHANGED <<otps, day, contact, presented, accepted>>
        /\ \A k, d : CodesOn(k, d)' = CodesOn(k, d)
        /\ \A q \in CodeRequests : Live(q)' = Live(q)
    BY <1>2 DEF CheckDailyLimit, Sent, CodesOn, Live
  <2>3. opc'[r] = "expire" => Cardinality(CodesOn(contact[r], day)) < MaxRequests
    BY <1>2 DEF CheckDailyLimit, OtpTypeOK, WithinDailyLimit, SentToday, CodesOn
  <2>4. /\ opc'[r] \in {"expire", "done"}
        /\ \A c \in OtpCalls \ {r} : opc'[c] = opc[c]
    BY <1>2 DEF CheckDailyLimit, OtpTypeOK
  <2>5. OtpAlone'
    BY <2>1, <2>4 DEF OtpAlone
  <2>6. DailyCount' /\ OneLiveCode'
    <3>1. DailyCount'
      BY <2>2 DEF DailyCount
    <3>2. OneLiveCode'
      BY <2>2 DEF OneLiveCode, Live, Sent
    <3> QED
      BY <3>1, <3>2
  <2>7. RequestsSettled'
    BY <2>1, <2>2, <2>3, <2>4 DEF RequestsSettled
  <2>8. ChecksSettled'
    BY <2>1, <2>2, <2>4 DEF ChecksSettled
  <2> QED
    BY <2>5, <2>6, <2>7, <2>8
<1>3. ASSUME NEW r \in CodeRequests, ExpirePrevious(r) PROVE OtpSerialInv'
  <2>1. /\ opc[r] = "expire" /\ opc'[r] = "insert"
        /\ \A c \in OtpCalls \ {r} : opc'[c] = opc[c] /\ opc[c] \in {"idle", "done"}
        /\ UNCHANGED <<day, contact, presented, accepted>>
    BY <1>3 DEF ExpirePrevious, OtpTypeOK, OtpAlone
  <2>2. \A q \in CodeRequests : IF Superseded(r, q)
                                THEN otps'[q] = [otps[q] EXCEPT !.revoked = TRUE]
                                ELSE otps'[q] = otps[q]
    BY <1>3 DEF ExpirePrevious
  <2>3. \A q \in Sent : /\ otps[q] \in Otps /\ otps'[q] \in Otps
                        /\ otps'[q].day = otps[q].day
                        /\ otps'[q].verified = otps[q].verified
                        /\ otps'[q].revoked <=> otps[q].revoked \/ Superseded(r, q)
                        /\ otps'[q].expired = otps[q].expired
    <3> SUFFICES ASSUME NEW q \in Sent
                 PROVE  /\ otps[q] \in Otps /\ otps'[q] \in Otps
                        /\ otps'[q].day = otps[q].day
                        /\ otps'[q].verified = otps[q].verified
                        /\ otps'[q].revoked <=> otps[q].revoked \/ Superseded(r, q)
                        /\ otps'[q].expired = otps[q].expired
      OBVIOUS
    <3>1. q \in CodeRequests /\ otps[q] \in Otps
      BY DEF Sent, OtpTypeOK
    <3>2. CASE Superseded(r, q)
      BY <2>2, <3>1, <3>2 DEF Otps
    <3>3. CASE ~Superseded(r, q)
      BY <2>2, <3>1, <3>3
    <3> QED
      BY <3>2, <3>3
  <2>4. \A q \in CodeRequests \ Sent : otps'[q] = otps[q]
    BY <2>2 DEF Superseded, Live
  <2>5. Sent' = Sent
    BY <2>3, <2>4 DEF Sent
  <2>6. \A q \in Sent : Live(q)' => Live(q) /\ ~Superseded(r, q)
    BY <2>3, <2>5 DEF Live
  <2>7. \A k, d : CodesOn(k, d)' = CodesOn(k, d)
    BY <2>1, <2>3, <2>5 DEF CodesOn
  <2>8. OtpAlone'
    BY <2>1 DEF OtpAlone
  <2>9. DailyCount'
    BY <2>7 DEF DailyCount
  <2>10. RequestsSettled'
    BY <2>1, <2>3, <2>5, <2>6, <2>7 DEF RequestsSettled, Superseded
  <2>11. ChecksSettled'
    BY <2>1, <2>3, <2>5 DEF ChecksSettled
  <2>12. OneLiveCode'
    BY <2>1, <2>3, <2>5, <2>6 DEF OneLiveCode
  <2> QED
    BY <2>8, <2>9, <2>10, <2>11, <2>12
<1>4. ASSUME NEW r \in CodeRequests, InsertCode(r) PROVE OtpSerialInv'
  <2> DEFINE row == [revoked |-> FALSE, expired |-> FALSE, verified |-> FALSE, day |-> day]
  <2>1. row \in Otps /\ row.day = day /\ row.verified = FALSE
    BY DEF Otps, OtpTypeOK
  <2>2. otps' = [otps EXCEPT ![r] = row]
    BY <1>4 DEF InsertCode
  <2> HIDE DEF row
  <2>3. /\ opc[r] = "insert" /\ opc'[r] = "done"
        /\ \A c \in OtpCalls \ {r} : opc'[c] = opc[c] /\ opc[c] \in {"idle", "done"}
        /\ UNCHANGED <<day, contact, presented, accepted>>
    BY <1>4 DEF InsertCode, OtpTypeOK, OtpAlone
  <2>4. r \notin Sent /\ Sent' = Sent \cup {r}
    BY <2>1, <2>2, <2>3 DEF Sent, OtpTypeOK, OtpRoles
  <2>5. otps'[r] = row /\ \A q \in Sent : otps'[q] = otps[q] /\ q # r
    BY <2>2, <2>4 DEF OtpTypeOK, Sent
  <2>6. \A q \in Sent : Live(q)' = Live(q)
    BY <2>4, <2>5 DEF Live
  <2>7. \A k, d : CodesOn(k, d)' = IF k = contact[r] /\ d = day THEN CodesOn(k, d) \cup {r}
                                   ELSE CodesOn(k, d)
    BY <2>1, <2>3, <2>4, <2>5 DEF CodesOn
  <2>8. DailyCount'
    <3> SUFFICES ASSUME NEW k \in Contacts, NEW d \in 0..LastDay
                 PROVE Cardinality(CodesOn(k, d)') <= MaxRequests
      BY DEF DailyCount
    <3>1. CASE k = contact[r] /\ d = day
      <4>1. Cardinality(CodesOn(k, d)) < MaxRequests
        BY <2>3, <3>1 DEF RequestsSettled
      <4>2. Cardinality(CodesOn(k, d) \cup {r}) = Cardinality(CodesOn(k, d)) + 1
        <5> DEFINE C == CodesOn(k, d)
        <5>1. IsFiniteSet(C)
          BY <1>1
        <5>2. r \notin C
          BY <2>4 DEF CodesOn
        <5> HIDE DEF C
        <5>3. Cardinality(C \cup {r}) = Cardinality(C) + 1
          BY <5>1, <5>2, FS_AddElement
        <5> QED
          BY <5>3 DEF C
      <4>3. Cardinality(CodesOn(k, d)) \in Nat
        BY <1>1, FS_CardinalityType
      <4> QED
        BY <2>7, <3>1, <4>1, <4>2, <4>3
    <3>2. CASE ~(k = contact[r] /\ d = day)
      BY <2>7, <3>2 DEF DailyCount
    <3> QED
      BY <3>1, <3>2
  <2>9. OtpAlone'
    BY <2>3 DEF OtpAlone
  <2>10. RequestsSettled'
    BY <2>3 DEF RequestsSettled
  <2>11. accepted'[r] = 0
    BY <2>3, <2>4 DEF ChecksSettled
  <2>12. ChecksSettled'
    BY <2>3, <2>4, <2>5, <2>11 DEF ChecksSettled
  <2>13. OneLiveCode'
    BY <2>3, <2>4, <2>5, <2>6 DEF OneLiveCode, RequestsSettled
  <2> QED
    BY <2>8, <2>9, <2>10, <2>12, <2>13
<1>5. ASSUME NEW r \in CodeRequests, OtpExpires(r) PROVE OtpSerialInv'
  <2>1. r \in Sent /\ otps[r] \in Otps
    BY <1>5 DEF OtpExpires, Live, Sent, OtpTypeOK
  <2>2. UNCHANGED <<day, opc, contact, presented, accepted>>
    BY <1>5 DEF OtpExpires
  <2>3. /\ otps'[r] \in Otps
        /\ otps'[r].day = otps[r].day
        /\ otps'[r].verified = otps[r].verified
        /\ otps'[r].expired
    BY <1>5, <2>1 DEF OtpExpires, OtpTypeOK, Sent, Otps
  <2>4. \A q \in CodeRequests \ {r} : otps'[q] = otps[q]
    BY <1>5, <2>1 DEF OtpExpires, OtpTypeOK
  <2>5. Sent' = Sent
    BY <2>1, <2>3, <2>4 DEF Sent
  <2>6. \A q \in Sent : /\ Live(q)' => Live(q)
                        /\ otps'[q].verified = otps[q].verified
                        /\ otps'[q].day = otps[q].day
    <3>1. ~Live(r)'
      BY <2>3 DEF Live
    <3>2. \A q \in Sent \ {r} : otps'[q] = otps[q] /\ q \in CodeRequests
      BY <2>4 DEF Sent
    <3>3. \A q \in Sent \ {r} : Live(q)' => Live(q)
      BY <2>5, <3>2 DEF Live
    <3> QED
      BY <2>3, <3>1, <3>2, <3>3
  <2>7. \A k, d : CodesOn(k, d)' = CodesOn(k, d)
    BY <2>2, <2>5, <2>6 DEF CodesOn
  <2>8. OtpAlone' /\ DailyCount'
    BY <2>2, <2>7 DEF OtpAlone, DailyCount
  <2>9. RequestsSettled'
    BY <2>2, <2>5, <2>6, <2>7 DEF RequestsSettled
  <2>10. ChecksSettled'
    BY <2>2, <2>5, <2>6 DEF ChecksSettled, OtpRoles
  <2>11. OneLiveCode'
    BY <2>2, <2>5, <2>6 DEF OneLiveCode
  <2> QED
    BY <2>8, <2>9, <2>10, <2>11
<1>6. ASSUME NEW c \in CodeChecks, FindCode(c) PROVE OtpSerialInv'
  <2>1. \A d \in OtpCalls : opc[d] \in {"idle", "done"}
    BY <1>6 DEF FindCode, OtpMayBegin
  <2>2. /\ Sent' = Sent /\ UNCHANGED <<otps, day, contact, presented, accepted>>
        /\ \A k, d : CodesOn(k, d)' = CodesOn(k, d)
        /\ \A q \in CodeRequests : Live(q)' = Live(q)
    BY <1>6 DEF FindCode, Sent, CodesOn, Live
  <2>3. opc'[c] = "mark" => ~otps[presented[c]].verified
    BY <1>6 DEF FindCode, OtpTypeOK, Acceptable
  <2>4. /\ opc'[c] \in {"mark", "done"}
        /\ \A d \in OtpCalls \ {c} : opc'[d] = opc[d]
    BY <1>6 DEF FindCode, OtpTypeOK
  <2>5. OtpAlone'
    BY <2>1, <2>4 DEF OtpAlone
  <2>6. DailyCount' /\ OneLiveCode'
    <3>1. DailyCount'
      BY <2>2 DEF DailyCount
    <3>2. OneLiveCode'
      BY <2>2 DEF OneLiveCode, Live, Sent
    <3> QED
      BY <3>1, <3>2
  <2>7. RequestsSettled'
    BY <2>1, <2>2, <2>4 DEF RequestsSettled
  <2>8. ChecksSettled'
    BY <2>1, <2>2, <2>3, <2>4 DEF ChecksSettled
  <2> QED
    BY <2>5, <2>6, <2>7, <2>8
<1>7. ASSUME NEW c \in CodeChecks, MarkVerified(c) PROVE OtpSerialInv'
  <2> DEFINE r == presented[c]
  <2>1. r \in Sent /\ otps[r] \in Otps /\ ~otps[r].verified /\ accepted[r] = 0
    BY <1>7 DEF MarkVerified, OtpRoles, Sent, OtpTypeOK, ChecksSettled
  <2>2. /\ opc[c] = "mark" /\ opc'[c] = "done"
        /\ \A d \in OtpCalls \ {c} : opc'[d] = opc[d] /\ opc[d] \in {"idle", "done"}
        /\ UNCHANGED <<day, contact, presented>>
    BY <1>7 DEF MarkVerified, OtpTypeOK, OtpAlone
  <2>3. /\ otps'[r] \in Otps
        /\ otps'[r].day = otps[r].day
        /\ otps'[r].verified
    BY <1>7, <2>1 DEF MarkVerified, OtpTypeOK, Sent, Otps
  <2>4. \A q \in CodeRequests \ {r} : otps'[q] = otps[q] /\ accepted'[q] = accepted[q]
    BY <1>7, <2>1 DEF MarkVerified, OtpTypeOK
  <2>5. accepted'[r] = 1
    BY <1>7, <2>1 DEF MarkVerified, OtpTypeOK, Sent
  <2>6. Sent' = Sent
    BY <2>1, <2>3, <2>4 DEF Sent
  <2>7. \A q \in Sent : /\ Live(q)' => Live(q) \/ otps'[q].verified
                        /\ otps[q].verified => otps'[q].verified
                        /\ otps'[q].day = otps[q].day
    <3>1. \A q \in Sent \ {r} : otps'[q] = otps[q] /\ q \in CodeRequests
      BY <2>4 DEF Sent
    <3>2. \A q \in Sent \ {r} : Live(q)' => Live(q)
      BY <2>6, <3>1 DEF Live
    <3> QED
      BY <2>3, <3>1, <3>2
  <2>8. \A k, d : CodesOn(k, d)' = CodesOn(k, d)
    BY <2>2, <2>6, <2>7 DEF CodesOn
  <2>9. OtpAlone' /\ DailyCount'
    BY <2>2, <2>8 DEF OtpAlone, DailyCount
  <2>10. RequestsSettled'
    BY <2>2 DEF RequestsSettled
  <2>11. ChecksSettled'
    BY <2>1, <2>2, <2>3, <2>4, <2>5, <2>6 DEF ChecksSettled
  <2>12. OneLiveCode'
    BY <2>2, <2>6, <2>7 DEF OneLiveCode
  <2> QED
    BY <2>9, <2>10, <2>11, <2>12
<1>8. ASSUME DayPasses PROVE OtpSerialInv'
  <2>1. day' = day + 1 /\ UNCHANGED <<otps, opc, contact, presented, accepted>>
    BY <1>8 DEF DayPasses
  <2>2. Sent' = Sent /\ \A q \in CodeRequests : Live(q)' = Live(q)
    BY <2>1 DEF Sent, Live
  <2>3. \A k, d : CodesOn(k, d)' = CodesOn(k, d)
    BY <2>1, <2>2 DEF CodesOn
  <2>4. \A k : Cardinality(CodesOn(k, day + 1)) < MaxRequests
    <3>1. \A k : CodesOn(k, day + 1) = {}
      BY DEF CodesOn, NoneAhead, OtpTypeOK, Sent, Otps
    <3> QED
      BY <3>1, FS_EmptySet
  <2>5. OtpAlone' /\ DailyCount' /\ OneLiveCode' /\ ChecksSettled'
    <3>1. OtpAlone' /\ DailyCount'
      BY <2>1, <2>3 DEF OtpAlone, DailyCount
    <3>2. OneLiveCode' /\ ChecksSettled'
      BY <2>1 DEF OneLiveCode, ChecksSettled, Live, Sent
    <3> QED
      BY <3>1, <3>2
  <2>6. \A r \in CodeRequests :
          Cardinality(CodesOn(contact[r], day)') < MaxRequests
    BY <2>1, <2>2, <2>4 DEF CodesOn
  <2>7. RequestsSettled'
    <3>1. \A r \in CodeRequests : opc[r] = "insert" =>
            \A q \in Sent : contact[q] = contact[r] /\ Live(q) => otps[q].verified
      BY DEF RequestsSettled
    <3>2. \A r \in CodeRequests : opc'[r] = "insert" =>
            \A q \in Sent' : contact'[q] = contact'[r] /\ Live(q)' => otps'[q].verified
      BY <2>1, <3>1 DEF Live, Sent
    <3> QED
      BY <2>1, <2>6, <3>2 DEF RequestsSettled
  <2> QED
    BY <2>5, <2>7
<1> QED
  BY <1>2, <1>3, <1>4, <1>5, <1>6, <1>7, <1>8 DEF OtpNext

\* What the properties say of it.
LEMMA OtpMeaning == OtpInv /\ OtpSerialInv => OtpSound
<1> SUFFICES ASSUME OtpInv, OtpSerialInv PROVE DailyLimit /\ AcceptedOnce
  BY DEF OtpSound, OtpSerialInv
<1>1. ASSUME world.serial, NEW r \in Sent
      PROVE Cardinality({q \in Sent : contact[q] = contact[r] /\ otps[q].day = otps[r].day})
              <= MaxRequests
  <2>1. contact[r] \in Contacts /\ otps[r].day \in 0..LastDay
    BY DEF OtpInv, OtpTypeOK, Sent, Otps
  <2> QED
    BY <1>1, <2>1 DEF OtpSerialInv, DailyCount, CodesOn
<1>2. AcceptedOnce
  BY DEF OtpInv, OtpTypeOK, OtpSerialInv, ChecksSettled, AcceptedOnce
<1> QED
  BY <1>1, <1>2 DEF DailyLimit

-----------------------------------------------------------------------------
(* Refresh tokens.                                                         *)

\* A call has no row before it is over, a refresh at work has found one with the
\* string it was shown, and what has died was stored.
SessionRoles ==
  /\ \A i \in Issuers : /\ spc[i] # "done" => tokens[i] = NoToken
                        /\ spc[i] = "store" => shown[i] \in Seconds
  /\ \A r \in Refreshes :
       /\ spc[r] = "idle" => shown[r] = NoToken
       /\ spc[r] \in {"user", "lock", "revoke"} =>
            record[r] \in Stored /\ shown[r] = tokens[record[r]].string
  /\ \A s \in dead : \E i \in Stored : tokens[i].string = s

\* The inductive invariant of calls that overlap.
SessionInv == SessionTypeOK /\ SessionRoles

\* Calls one after the other, no two tokens signed in one second: every string is
\* that of one row, the next one is new, and a dead one is revoked.
SessionAlone ==
  world.serial => \A c, d \in SessionCalls :
    spc[c] \notin {"idle", "done"} /\ spc[d] \notin {"idle", "done"} => c = d

StringsDiffer ==
  world.serial /\ world.paced =>
    /\ \A i, j \in Stored : tokens[i].string = tokens[j].string => i = j
    /\ \A i \in Issuers, j \in Stored : spc[i] = "store" => tokens[j].string # shown[i]

DeadRevoked ==
  world.serial /\ world.paced => \A i \in Stored : tokens[i].string \in dead => tokens[i].revoked

SessionSerialInv == SessionAlone /\ StringsDiffer /\ DeadRevoked

\* The invariants hold before the first call.
LEMMA SessionInitInv == SessionInit => SessionInv /\ SessionSerialInv
<1> SUFFICES ASSUME SessionInit PROVE SessionInv /\ SessionSerialInv
  OBVIOUS
<1> USE SecondAssumption, TokenNamesAssumption DEF SessionInit
<1>1. spc \in [SessionCalls -> {"idle", "done"}]
  BY DEF Coming
<1>2. Stored = {}
  BY DEF Stored
<1>3. SessionTypeOK
  BY <1>1 DEF SessionTypeOK, Seconds
<1>4. SessionRoles
  BY <1>1, <1>2 DEF SessionRoles, SessionCalls, Issuers
<1>5. SessionSerialInv
  BY <1>1, <1>2 DEF SessionSerialInv, SessionAlone, StringsDiffer, DeadRevoked, SessionCalls
<1> QED
  BY <1>3, <1>4, <1>5 DEF SessionInv

\* Codes and passwords do not touch them.
LEMMA SessionStutter == SessionInv /\ SessionSerialInv /\ UNCHANGED <<world, sessionVars>>
                          => SessionInv' /\ SessionSerialInv'
<1> SUFFICES ASSUME SessionInv, SessionSerialInv, UNCHANGED <<world, sessionVars>>
             PROVE SessionInv' /\ SessionSerialInv'
  OBVIOUS
<1> USE DEF sessionVars
<1>1. SessionInv'
  BY DEF SessionInv, SessionTypeOK, SessionRoles, Stored
<1>2. SessionSerialInv'
  BY DEF SessionSerialInv, SessionAlone, StringsDiffer, DeadRevoked, Stored
<1> QED
  BY <1>1, <1>2

\* A row that is revoked keeps its string.
LEMMA RevokeKeeps ==
  ASSUME SessionTypeOK, NEW S \in SUBSET Stored, Revoke(S)
  PROVE  /\ tokens' \in [Issuers -> TokenRows \cup {NoToken}]
         /\ Stored' = Stored
         /\ \A i \in Stored : /\ tokens'[i].string = tokens[i].string
                              /\ tokens'[i].revoked <=> tokens[i].revoked \/ i \in S
         /\ \A i \in Issuers \ Stored : tokens'[i] = NoToken
<1> USE TokenNamesAssumption
<1>1. ASSUME NEW i \in Stored
      PROVE  /\ tokens'[i] \in TokenRows /\ i \in Issuers
             /\ tokens'[i].string = tokens[i].string
             /\ tokens'[i].revoked <=> tokens[i].revoked \/ i \in S
  <2>1. i \in Issuers /\ tokens[i] \in TokenRows
    BY DEF Stored, SessionTypeOK
  <2>2. CASE i \in S
    BY <2>1, <2>2 DEF Revoke, TokenRows
  <2>3. CASE i \notin S
    BY <2>1, <2>3 DEF Revoke
  <2> QED
    BY <2>1, <2>2, <2>3
<1>2. \A i \in Issuers \ Stored : tokens'[i] = NoToken
  BY DEF Revoke, Stored
<1>3. tokens' = [i \in Issuers |-> tokens'[i]]
  BY DEF Revoke
<1>4. \A i \in Issuers : tokens'[i] \in TokenRows \cup {NoToken}
  BY <1>1, <1>2
<1>5. tokens' \in [Issuers -> TokenRows \cup {NoToken}]
  BY <1>3, <1>4
<1>6. Stored' = Stored
  BY <1>1, <1>2 DEF Stored
<1> QED
  BY <1>1, <1>2, <1>5, <1>6

\* Every step of the service preserves both.
LEMMA SessionNextInv ==
  SessionInv /\ SessionSerialInv /\ SessionNext /\ UNCHANGED world
    => SessionInv' /\ SessionSerialInv'
<1> SUFFICES ASSUME SessionInv, SessionSerialInv, SessionNext, UNCHANGED world
             PROVE SessionInv' /\ SessionSerialInv'
  OBVIOUS
<1> USE SecondAssumption, TokenNamesAssumption
<1> USE DEF SessionInv, SessionSerialInv, SessionGoto, SessionCalls, Issuers
<1>a. ASSUME NEW c \in SessionCalls, SessionMayBegin,
             \A d \in SessionCalls \ {c} : spc'[d] = spc[d]
      PROVE SessionAlone'
  BY <1>a DEF SessionMayBegin, SessionAlone
<1>b. ASSUME NEW c \in SessionCalls, spc[c] \notin {"idle", "done"},
             \A d \in SessionCalls \ {c} : spc'[d] = spc[d]
      PROVE SessionAlone'
  BY <1>b DEF SessionAlone
<1>1. ASSUME NEW l \in SignIns, SignIn(l) PROVE SessionInv' /\ SessionSerialInv'
  <2>1. /\ UNCHANGED <<tokens, second, active, shown, record, dead>>
        /\ Stored' = Stored
        /\ spc[l] = "idle" /\ spc' = [spc EXCEPT ![l] = "sign"]
    BY <1>1 DEF SignIn, Stored
  <2>2. SessionTypeOK'
    BY <2>1 DEF SessionTypeOK
  <2>3. SessionRoles'
    BY <2>1 DEF SessionRoles, SessionTypeOK
  <2>4. SessionAlone'
    BY <1>1, <1>a, <2>1 DEF SignIn, SessionTypeOK
  <2>5. StringsDiffer' /\ DeadRevoked'
    BY <2>1 DEF StringsDiffer, DeadRevoked, SessionTypeOK
  <2> QED
    BY <2>2, <2>3, <2>4, <2>5
<1>2. ASSUME NEW i \in Issuers, SignToken(i) PROVE SessionInv' /\ SessionSerialInv'
  <2>1. /\ UNCHANGED <<tokens, second, active, record, dead>>
        /\ Stored' = Stored
        /\ spc[i] = "sign" /\ spc' = [spc EXCEPT ![i] = "store"]
        /\ shown' = [shown EXCEPT ![i] = second]
        /\ world.paced => \A j \in Stored : tokens[j].string # second
    BY <1>2 DEF SignToken, Stored
  <2>2. SessionTypeOK'
    BY <2>1 DEF SessionTypeOK
  <2>3. SessionRoles'
    BY <2>1 DEF SessionRoles, SessionTypeOK
  <2>4. SessionAlone'
    BY <1>b, <2>1 DEF SessionTypeOK
  <2>5. StringsDiffer'
    BY <2>1 DEF StringsDiffer, SessionTypeOK
  <2>6. DeadRevoked'
    BY <2>1 DEF DeadRevoked
  <2> QED
    BY <2>2, <2>3, <2>4, <2>5, <2>6
<1>3. ASSUME NEW i \in Issuers, StoreToken(i) PROVE SessionInv' /\ SessionSerialInv'
  <2> DEFINE row == [string |-> shown[i], revoked |-> FALSE, expired |-> FALSE]
  <2>1. /\ UNCHANGED <<second, active, shown, record, dead>>
        /\ spc[i] = "store" /\ spc' = [spc EXCEPT ![i] = "done"]
        /\ tokens' = [tokens EXCEPT ![i] = row]
    BY <1>3 DEF StoreToken
  <2>2. shown[i] \in Seconds
    BY <2>1 DEF SessionRoles
  <2>3. row \in TokenRows /\ row.string = shown[i] /\ row.revoked = FALSE
    BY <2>2 DEF TokenRows
  <2> HIDE DEF row
  <2>4. i \notin Stored /\ Stored' = Stored \cup {i}
    BY <2>1, <2>3 DEF SessionRoles, SessionTypeOK, Stored
  <2>5. tokens'[i] = row /\ \A j \in Stored : tokens'[j] = tokens[j]
    BY <2>1, <2>4 DEF SessionTypeOK, Stored
  <2>6. SessionTypeOK'
    BY <2>1, <2>3 DEF SessionTypeOK
  <2>7. SessionRoles'
    BY <2>1, <2>4, <2>5 DEF SessionRoles, SessionTypeOK
  <2>8. SessionAlone'
    BY <1>b, <2>1 DEF SessionTypeOK
  <2>9. ASSUME world.serial, world.paced
        PROVE (\A j \in Stored : tokens[j].string # shown[i]) /\ shown[i] \notin dead
    BY <2>1, <2>9 DEF StringsDiffer, SessionRoles
  <2>10. StringsDiffer'
    <3> SUFFICES ASSUME world.serial, world.paced PROVE StringsDiffer'
      BY DEF StringsDiffer
    <3>1. \A j \in Issuers : spc'[j] # "store"
      BY <2>1 DEF SessionAlone, SessionTypeOK
    <3> QED
      BY <2>3, <2>4, <2>5, <2>9, <3>1 DEF StringsDiffer
  <2>11. DeadRevoked'
    BY <2>1, <2>3, <2>4, <2>5, <2>9 DEF DeadRevoked
  <2> QED
    BY <2>6, <2>7, <2>8, <2>10, <2>11
<1>4. ASSUME NEW i \in Issuers, TokenExpires(i) PROVE SessionInv' /\ SessionSerialInv'
  <2>1. /\ UNCHANGED <<second, active, spc, shown, record, dead>>
        /\ i \in Stored /\ tokens[i] \in TokenRows
        /\ tokens' = [tokens EXCEPT ![i].expired = TRUE]
    BY <1>4 DEF TokenExpires, Stored, SessionTypeOK
  <2>2. /\ tokens'[i] \in TokenRows
        /\ tokens'[i].string = tokens[i].string
        /\ tokens'[i].revoked = tokens[i].revoked
    BY <2>1 DEF TokenRows, SessionTypeOK
  <2>3. /\ \A j \in Issuers \ {i} : tokens'[j] = tokens[j]
        /\ tokens' = [j \in Issuers |-> tokens'[j]]
    BY <2>1 DEF SessionTypeOK
  <2>4. tokens' \in [Issuers -> TokenRows \cup {NoToken}] /\ Stored' = Stored
    BY <2>1, <2>2, <2>3 DEF SessionTypeOK, Stored
  <2>5. \A j \in Stored : /\ tokens'[j].string = tokens[j].string
                          /\ tokens'[j].revoked = tokens[j].revoked
    BY <2>2, <2>3 DEF Stored
  <2>6. SessionTypeOK'
    BY <2>1, <2>4 DEF SessionTypeOK
  <2>7. SessionRoles'
    BY <2>1, <2>3, <2>4, <2>5 DEF SessionRoles, Stored
  <2>8. SessionAlone'
    BY <2>1 DEF SessionAlone
  <2>9. StringsDiffer' /\ DeadRevoked'
    BY <2>1, <2>4, <2>5 DEF StringsDiffer, DeadRevoked
  <2> QED
    BY <2>6, <2>7, <2>8, <2>9
<1>5. ASSUME NEW r \in Refreshes, FindRecord(r) PROVE SessionInv' /\ SessionSerialInv'
  <2>1. PICK s \in {tokens[i].string : i \in Stored} :
          /\ shown' = [shown EXCEPT ![r] = s]
          /\ \/ \E i \in Stored : /\ Matches(i, s)
                                  /\ record' = [record EXCEPT ![r] = i]
                                  /\ SessionGoto(r, "idle", IF tokens[i].expired THEN "done"
                                                            ELSE "user")
             \/ /\ ~\E i \in Stored : Matches(i, s)
                /\ SessionGoto(r, "idle", "done")
                /\ UNCHANGED record
    BY <1>5 DEF FindRecord
  <2>2. /\ UNCHANGED <<tokens, second, active, dead>> /\ Stored' = Stored
        /\ spc[r] = "idle"
    BY <1>5, <2>1 DEF FindRecord, Stored
  <2>3. s \in Seconds
    BY <2>1 DEF Stored, SessionTypeOK, TokenRows
  <2>4. /\ spc' \in [SessionCalls -> {"idle", "sign", "store", "user", "lock", "revoke", "done"}]
        /\ spc'[r] \in {"user", "done"}
        /\ \A c \in SessionCalls \ {r} : spc'[c] = spc[c]
    BY <2>1 DEF SessionTypeOK
  <2>5. /\ record' \in [Refreshes -> Issuers \cup {NoToken}]
        /\ \A q \in Refreshes \ {r} : record'[q] = record[q]
        /\ spc'[r] = "user" => record'[r] \in Stored /\ tokens[record'[r]].string = s
    BY <2>1 DEF SessionTypeOK, Stored, Matches
  <2>6. SessionTypeOK'
    BY <2>1, <2>2, <2>3, <2>4, <2>5 DEF SessionTypeOK
  <2>7. SessionRoles'
    BY <2>1, <2>2, <2>4, <2>5 DEF SessionRoles, SessionTypeOK
  <2>8. SessionAlone'
    BY <1>5, <1>a, <2>4 DEF FindRecord
  <2>9. StringsDiffer' /\ DeadRevoked'
    BY <2>1, <2>2, <2>4 DEF StringsDiffer, DeadRevoked, SessionTypeOK
  <2> QED
    BY <2>6, <2>7, <2>8, <2>9
<1>6. ASSUME NEW r \in Refreshes, CheckUser(r) PROVE SessionInv' /\ SessionSerialInv'
  <2>1. /\ UNCHANGED <<tokens, second, active, shown, record, dead>>
        /\ Stored' = Stored
        /\ spc[r] = "user"
        /\ spc' = [spc EXCEPT ![r] = IF active THEN "revoke" ELSE "lock"]
    BY <1>6 DEF CheckUser, Stored
  <2>2. SessionTypeOK'
    BY <2>1 DEF SessionTypeOK
  <2>3. SessionRoles'
    BY <2>1 DEF SessionRoles, SessionTypeOK
  <2>4. SessionAlone'
    BY <1>b, <2>1 DEF SessionTypeOK
  <2>5. StringsDiffer' /\ DeadRevoked'
    BY <2>1 DEF StringsDiffer, DeadRevoked, SessionTypeOK
  <2> QED
    BY <2>2, <2>3, <2>4, <2>5
<1>7. ASSUME NEW r \in Refreshes, RevokeAll(r) PROVE SessionInv' /\ SessionSerialInv'
  <2>1. /\ UNCHANGED <<second, active, shown, record>>
        /\ spc[r] = "lock" /\ spc' = [spc EXCEPT ![r] = "done"]
        /\ Revoke(Stored)
        /\ dead' = dead \cup {tokens[i].string : i \in Stored}
    BY <1>7 DEF RevokeAll, Locked
  <2>2. /\ tokens' \in [Issuers -> TokenRows \cup {NoToken}]
        /\ Stored' = Stored
        /\ \A i \in Stored : tokens'[i].string = tokens[i].string /\ tokens'[i].revoked
        /\ \A i \in Issuers \ Stored : tokens'[i] = NoToken
    BY <2>1, RevokeKeeps
  <2>3. dead' \subseteq Seconds
    BY <2>1 DEF SessionTypeOK, Stored, TokenRows
  <2>4. SessionTypeOK'
    BY <2>1, <2>2, <2>3 DEF SessionTypeOK
  <2>5. SessionRoles'
    BY <2>1, <2>2 DEF SessionRoles, SessionTypeOK, Stored
  <2>6. SessionAlone'
    BY <1>b, <2>1 DEF SessionTypeOK
  <2>7. StringsDiffer' /\ DeadRevoked'
    BY <2>1, <2>2 DEF StringsDiffer, DeadRevoked, SessionTypeOK
  <2> QED
    BY <2>4, <2>5, <2>6, <2>7
<1>8. ASSUME NEW r \in Refreshes, RevokeOld(r) PROVE SessionInv' /\ SessionSerialInv'
  <2>1. /\ UNCHANGED <<second, active, shown, record>>
        /\ spc[r] = "revoke" /\ spc' = [spc EXCEPT ![r] = "sign"]
        /\ Revoke({record[r]})
        /\ dead' = dead \cup {shown[r]}
    BY <1>8 DEF RevokeOld
  <2>2. record[r] \in Stored /\ shown[r] = tokens[record[r]].string
    BY <2>1 DEF SessionRoles
  <2>3. /\ tokens' \in [Issuers -> TokenRows \cup {NoToken}]
        /\ Stored' = Stored
        /\ \A i \in Stored : /\ tokens'[i].string = tokens[i].string
                             /\ tokens'[i].revoked <=> tokens[i].revoked \/ i = record[r]
        /\ \A i \in Issuers \ Stored : tokens'[i] = NoToken
    <3> DEFINE S == {record[r]}
    <3>1. S \in SUBSET Stored /\ Revoke(S)
      BY <2>1, <2>2
    <3>2. \A i : i \in S <=> i = record[r]
      OBVIOUS
    <3> HIDE DEF S
    <3> QED
      BY <3>1, <3>2, RevokeKeeps
  <2>4. dead' \subseteq Seconds
    BY <2>1, <2>2 DEF SessionTypeOK, Stored, TokenRows
  <2>5. SessionTypeOK'
    BY <2>1, <2>3, <2>4 DEF SessionTypeOK
  <2>6. SessionRoles'
    BY <2>1, <2>2, <2>3 DEF SessionRoles, SessionTypeOK, Stored
  <2>7. SessionAlone'
    BY <1>b, <2>1 DEF SessionTypeOK
  <2>8. StringsDiffer' /\ DeadRevoked'
    BY <2>1, <2>2, <2>3 DEF StringsDiffer, DeadRevoked, SessionTypeOK
  <2> QED
    BY <2>5, <2>6, <2>7, <2>8
<1>9. ASSUME NEW o \in SignOuts, SignOut(o) PROVE SessionInv' /\ SessionSerialInv'
  <2>1. PICK s \in {tokens[i].string : i \in Stored} :
          /\ Revoke({i \in Stored : tokens[i].string = s})
          /\ dead' = dead \cup {s}
    BY <1>9 DEF SignOut
  <2>2. /\ UNCHANGED <<second, active, shown, record>>
        /\ spc[o] = "idle" /\ spc' = [spc EXCEPT ![o] = "done"]
    BY <1>9 DEF SignOut
  <2>3. /\ tokens' \in [Issuers -> TokenRows \cup {NoToken}]
        /\ Stored' = Stored
        /\ \A i \in Stored : /\ tokens'[i].string = tokens[i].string
                             /\ tokens'[i].revoked <=> tokens[i].revoked \/ tokens[i].string = s
        /\ \A i \in Issuers \ Stored : tokens'[i] = NoToken
    <3> DEFINE S == {i \in Stored : tokens[i].string = s}
    <3>1. S \in SUBSET Stored /\ Revoke(S)
      BY <2>1
    <3>2. \A i \in Stored : i \in S <=> tokens[i].string = s
      OBVIOUS
    <3> HIDE DEF S
    <3> QED
      BY <3>1, <3>2, RevokeKeeps
  <2>4. dead' \subseteq Seconds
    BY <2>1 DEF SessionTypeOK, Stored, TokenRows
  <2>5. SessionTypeOK'
    BY <2>2, <2>3, <2>4 DEF SessionTypeOK
  <2>6. SessionRoles'
    BY <2>1, <2>2, <2>3 DEF SessionRoles, SessionTypeOK, Stored
  <2>7. SessionAlone'
    BY <1>9, <1>a, <2>2 DEF SignOut, SessionTypeOK
  <2>8. StringsDiffer' /\ DeadRevoked'
    BY <2>1, <2>2, <2>3 DEF StringsDiffer, DeadRevoked, SessionTypeOK
  <2> QED
    BY <2>5, <2>6, <2>7, <2>8
<1>10. ASSUME Tick PROVE SessionInv' /\ SessionSerialInv'
  BY <1>10 DEF Tick, SessionTypeOK, SessionRoles, SessionAlone, StringsDiffer, DeadRevoked,
               Stored, Seconds
<1>11. ASSUME ActivityChanges PROVE SessionInv' /\ SessionSerialInv'
  BY <1>11 DEF ActivityChanges, SessionTypeOK, SessionRoles, SessionAlone, StringsDiffer,
               DeadRevoked, Stored
<1> QED
  BY <1>1, <1>2, <1>3, <1>4, <1>5, <1>6, <1>7, <1>8, <1>9, <1>10, <1>11 DEF SessionNext

\* A refresh finds no row with a dead string that is not revoked.
LEMMA SessionStepHolds ==
  SessionInv /\ SessionSerialInv /\ [SessionNext]_sessionVars
    => \A r \in Refreshes :
         world.serial /\ world.paced /\ spc[r] = "idle" /\ shown'[r] \in dead => spc'[r] = "done"
<1> SUFFICES ASSUME SessionInv, SessionSerialInv, [SessionNext]_sessionVars, NEW r \in Refreshes,
                    world.serial, world.paced, spc[r] = "idle", shown'[r] \in dead
             PROVE spc'[r] = "done"
  OBVIOUS
<1> USE TokenNamesAssumption
<1> USE DEF SessionInv, SessionSerialInv, SessionGoto, SessionCalls, Issuers
<1>1. shown[r] = NoToken /\ shown'[r] # shown[r]
  BY DEF SessionRoles, SessionTypeOK
<1>2. PICK q \in SessionCalls : SignToken(q) \/ (q \in Refreshes /\ FindRecord(q))
  BY <1>1 DEF SessionNext, SignIn, StoreToken, TokenExpires, CheckUser, RevokeAll, RevokeOld,
              SignOut, Tick, ActivityChanges, sessionVars
<1>3. q = r
  BY <1>1, <1>2 DEF SignToken, FindRecord, SessionTypeOK
<1>4. FindRecord(r)
  BY <1>2, <1>3 DEF SignToken
<1>5. PICK s \in {tokens[i].string : i \in Stored} :
        /\ shown' = [shown EXCEPT ![r] = s]
        /\ (~\E i \in Stored : Matches(i, s)) => SessionGoto(r, "idle", "done")
  BY <1>4 DEF FindRecord
<1>6. s \in dead
  BY <1>5 DEF SessionTypeOK
<1>7. ~\E i \in Stored : Matches(i, s)
  BY <1>6 DEF DeadRevoked, Matches
<1> QED
  BY <1>5, <1>7 DEF SessionTypeOK

-----------------------------------------------------------------------------
(* Passwords.                                                              *)

PwTyped == /\ PasswordTypeOK
           /\ kind \in [Issues -> CodeTypes] /\ use \in [Presenters -> Issues]
           /\ installs \in [Issues -> Nat] /\ misses \in [Issues -> Nat]
           /\ world \in Worlds

\* A call has no code before it is over; one that is about to write to a code has
\* found it; a call that does not come is over.
PwRoles ==
  /\ \A i \in Issues : ppc[i] \in {"idle", "replace", "insert"} => codes[i] = NoCode
  /\ \A c \in PwCalls :
       /\ ppc[c] \in {"discard", "verify", "install", "use"} =>
            c \in Presenters /\ Issued(use[c])
       /\ ppc[c] \in {"install", "use"} => c \notin Verifies
       /\ ppc[c] = "use" => c \notin Completes
       /\ c \notin world.calls => ppc[c] = "done"
  /\ \A i \in Issues : ~Issued(i) => installs[i] = 0 /\ misses[i] = 0

\* The inductive invariant of calls that overlap.
PwInv == PwTyped /\ PwRoles

\* Calls one after the other: one is under way at a time,
Resting == {"idle", "done", "in", "refused"}

PwAlone == world.serial => \A c, d \in PwCalls : ppc[c] \notin Resting /\ ppc[d] \notin Resting => c = d

\* what it has found of a code is the case until it acts on it, and as long as a
\* code may be guessed no wrong guess is forgotten.
CodesSettled ==
  world.serial =>
    /\ \A v \in PwCalls : ppc[v] = "verify" =>
         Awaiting(use[v]) /\ codes[use[v]].attempts < MaxAttempts
    /\ \A i \in Issues : ppc[i] = "insert" => \A j \in Issues : Unused(j) => kind[j] # kind[i]
    /\ \A i \in Issues : Awaiting(i) /\ codes[i].attempts < MaxAttempts
                           => misses[i] <= codes[i].attempts

\* A code that verifyOTPComplete has set a password with.
Completed(i) == codes[i].verified /\ ~codes[i].token /\ kind[i] = "FIRST_LOGIN"

\* A code that has set a password is spent, or about to be.
CodesSpent ==
  world.serial /\ ~world.faulty =>
    /\ \A i \in Issues : installs[i] # 0 =>
         /\ installs[i] = 1
         /\ codes[i].used \/ Completed(i) \/ \E c \in Setups \cup Redeems : ppc[c] = "use" /\ use[c] = i
    /\ \A c \in PwCalls : ppc[c] = "install" =>
         installs[use[c]] = 0 /\ (c \in Completes => Completed(use[c]))

PwSerialInv == PwAlone /\ CodesSettled /\ CodesSpent /\ NewestCodeOnly

\* Only setPassword sets a password in this world.
SetupsOnly == /\ world.serial /\ ~world.faulty
              /\ world.calls \cap (Completes \cup Redeems \cup Changes \cup Rewrites) = {}

\* The cached password is the current one, or setPassword is about to store that.
IndexFollows ==
  SetupsOnly =>
    /\ ~world.cached => index = Uncached /\ \A c \in PwCalls : ppc[c] \notin {"details", "read", "store"}
    /\ index \notin {Uncached, password} =>
         \E c \in Setups : ppc[c] \in {"use", "details", "read", "store"}
    /\ \A c \in PwCalls : ppc[c] = "store" => held[c] = password
    /\ \A c \in Changes : job[c] = "none"

\* The invariants hold before the first call.
LEMMA PwInitInv == world \in Worlds /\ PasswordInit => PwInv /\ PwSerialInv /\ IndexFollows
<1> SUFFICES ASSUME world \in Worlds, PasswordInit PROVE PwInv /\ PwSerialInv /\ IndexFollows
  OBVIOUS
<1> USE AttemptsAssumption, PwNamesAssumption DEF PasswordInit
<1>1. /\ ppc \in [PwCalls -> {"idle", "done"}]
      /\ \A c \in PwCalls : c \notin world.calls => ppc[c] = "done"
  BY DEF Coming
<1>2. kind \in [Issues -> CodeTypes] /\ use \in [Presenters -> Issues]
  BY DEF About
<1>3. PwTyped
  BY <1>1, <1>2 DEF PwTyped, PasswordTypeOK, PasswordValues
<1>4. \A j \in Issues : ~Issued(j) /\ ~Unused(j) /\ ~Awaiting(j)
  BY DEF Issued, Unused, Awaiting
<1>5. PwRoles
  BY <1>1, <1>4 DEF PwRoles, PwCalls
<1>6. PwAlone /\ CodesSettled /\ CodesSpent /\ NewestCodeOnly
  BY <1>1, <1>4 DEF PwAlone, CodesSettled, CodesSpent, NewestCodeOnly, Resting, PwCalls
<1>7. IndexFollows
  BY <1>1 DEF IndexFollows
<1> QED
  BY <1>3, <1>5, <1>6, <1>7 DEF PwInv, PwSerialInv

\* Codes for a contact and sessions do not touch them.
LEMMA PwStutter ==
  PwInv /\ PwSerialInv /\ IndexFollows /\ UNCHANGED <<world, passwordVars>>
    => PwInv' /\ PwSerialInv' /\ IndexFollows'
<1> SUFFICES ASSUME PwInv, PwSerialInv, IndexFollows, UNCHANGED <<world, passwordVars>>
             PROVE PwInv' /\ PwSerialInv' /\ IndexFollows'
  OBVIOUS
<1> USE DEF passwordVars
<1>1. PwInv'
  BY DEF PwInv, PwTyped, PasswordTypeOK, PwRoles, Issued
<1>2. PwAlone' /\ CodesSettled'
  BY DEF PwSerialInv, PwAlone, CodesSettled, Awaiting, Unused, Issued
<1>3. CodesSpent' /\ NewestCodeOnly'
  BY DEF PwSerialInv, CodesSpent, Completed, NewestCodeOnly, Unused, Issued
<1>4. IndexFollows'
  BY DEF IndexFollows, SetupsOnly
<1> QED
  BY <1>1, <1>2, <1>3, <1>4 DEF PwSerialInv

\* A step that writes to codes that are there makes no other.
LEMMA CodesWritten ==
  ASSUME PwTyped, codes' = [i \in Issues |-> codes'[i]],
         \A i \in Issues : IF Issued(i) THEN codes'[i] \in CodeRows ELSE codes'[i] = NoCode
  PROVE  /\ codes' \in [Issues -> CodeRows \cup {NoCode}]
         /\ \A i \in Issues : codes'[i] = NoCode <=> codes[i] = NoCode
<1>1. \A i \in Issues : codes'[i] \in CodeRows \cup {NoCode}
  OBVIOUS
<1>2. codes' \in [Issues -> CodeRows \cup {NoCode}]
  BY <1>1
<1> QED
  BY <1>2, PwNamesAssumption DEF Issued

\* What becomes of a code when its attempts are counted.
LEMMA CountedCode ==
  ASSUME PwTyped, NEW i \in Issues
  PROVE  IF Issued(i)
         THEN /\ Counted(i) \in CodeRows
              /\ Counted(i).used = codes[i].used
              /\ Counted(i).verified = codes[i].verified
              /\ Counted(i).token = codes[i].token
              /\ Awaiting(i) /\ codes[i].attempts < MaxAttempts
                   => Counted(i).attempts = codes[i].attempts + 1
              /\ codes[i].attempts >= MaxAttempts => Counted(i).attempts = codes[i].attempts
         ELSE Counted(i) = NoCode
<1> USE AttemptsAssumption, PwNamesAssumption
<1>1. CASE ~Issued(i)
  BY <1>1 DEF Counted, Unused, Issued
<1>2. CASE Issued(i)
  <2>1. codes[i] \in CodeRows
    BY <1>2 DEF PwTyped, PasswordTypeOK, Issued
  <2>2. CASE Unused(i) /\ kind[i] = "FIRST_LOGIN" /\ codes[i].attempts < MaxAttempts
    <3>1. Counted(i) = [codes[i] EXCEPT !.attempts = codes[i].attempts + 1]
      BY <2>2 DEF Counted
    <3>2. codes[i].attempts + 1 \in 0..MaxAttempts
      BY <2>1, <2>2 DEF CodeRows
    <3> QED
      BY <1>2, <2>1, <2>2, <3>1, <3>2 DEF CodeRows
  <2>3. CASE ~(Unused(i) /\ kind[i] = "FIRST_LOGIN" /\ codes[i].attempts < MaxAttempts)
    <3>1. Counted(i) = codes[i]
      BY <2>3 DEF Counted
    <3>2. ~(Awaiting(i) /\ codes[i].attempts < MaxAttempts)
      BY <2>3 DEF Awaiting
    <3> QED
      BY <1>2, <2>1, <3>1, <3>2
  <2> QED
    BY <2>2, <2>3
<1> QED
  BY <1>1, <1>2

\* Every step of the services preserves the first one.
LEMMA PwNextInv == PwInv /\ PasswordNext /\ UNCHANGED world => PwInv'
<1> SUFFICES ASSUME PwInv, PasswordNext, UNCHANGED world PROVE PwInv'
  OBVIOUS
<1> USE AttemptsAssumption, PwNamesAssumption
<1> USE DEF PwInv, PwGoto, PwCalls, Presenters, Setters
<1>a. ASSUME NEW c \in PwCalls, NEW to, ppc[c] # "done", ppc' = [ppc EXCEPT ![c] = to],
             UNCHANGED use,
             \A i \in Issues : codes'[i] = NoCode <=> codes[i] = NoCode,
             \A i \in Issues : ~Issued(i) => installs'[i] = 0 /\ misses'[i] = 0,
             to \in {"discard", "verify", "install", "use"} => c \in Presenters /\ Issued(use[c]),
             to \in {"install", "use"} => c \notin Verifies,
             to = "use" => c \notin Completes,
             c \in Issues /\ to \in {"idle", "replace", "insert"} => codes[c] = NoCode
      PROVE PwRoles'
  BY <1>a DEF PwRoles, Issued, PwTyped, PasswordTypeOK
<1>b. \A i \in Issues : ~Issued(i) => installs[i] = 0 /\ misses[i] = 0
  BY DEF PwRoles
<1>1. ASSUME NEW i \in Issues, CheckIssue(i) PROVE PwInv'
  <2>1. PICK to \in {"replace", "done"} : ppc[i] = "idle" /\ ppc' = [ppc EXCEPT ![i] = to]
    BY <1>1 DEF CheckIssue
  <2>2. UNCHANGED <<password, codes, kind, index, details, use, held, job, installs, misses>>
    BY <1>1 DEF CheckIssue
  <2>3. PwTyped'
    BY <2>1, <2>2 DEF PwTyped, PasswordTypeOK
  <2>4. PwRoles'
    BY <1>a, <1>b, <2>1, <2>2 DEF PwRoles
  <2> QED
    BY <2>3, <2>4
<1>2. ASSUME NEW i \in Issues, ReplaceCodes(i) PROVE PwInv'
  <2>1. /\ ppc[i] = "replace" /\ ppc' = [ppc EXCEPT ![i] = "insert"]
        /\ UNCHANGED <<password, kind, index, details, use, held, job, installs, misses>>
    BY <1>2 DEF ReplaceCodes
  <2>2. ASSUME NEW j \in Issues
        PROVE IF Issued(j) THEN codes'[j] \in CodeRows ELSE codes'[j] = NoCode
    <3>1. CASE Replaces(i, j)
      <4>1. Issued(j) /\ codes[j] \in CodeRows
        BY <3>1 DEF Replaces, Unused, Issued, PwTyped, PasswordTypeOK
      <4>2. codes'[j] = [codes[j] EXCEPT !.used = TRUE]
        BY <1>2, <3>1 DEF ReplaceCodes
      <4> QED
        BY <4>1, <4>2 DEF CodeRows
    <3>2. CASE ~Replaces(i, j)
      BY <1>2, <3>2 DEF ReplaceCodes, Issued, PwTyped, PasswordTypeOK
    <3> QED
      BY <3>1, <3>2
  <2>3. codes' = [j \in Issues |-> codes'[j]]
    BY <1>2 DEF ReplaceCodes
  <2>4. /\ codes' \in [Issues -> CodeRows \cup {NoCode}]
        /\ \A j \in Issues : codes'[j] = NoCode <=> codes[j] = NoCode
    BY <2>2, <2>3, CodesWritten
  <2>5. PwTyped'
    BY <2>1, <2>4 DEF PwTyped, PasswordTypeOK
  <2>6. PwRoles'
    BY <1>a, <1>b, <2>1, <2>4 DEF PwRoles
  <2> QED
    BY <2>5, <2>6
<1>3. ASSUME NEW i \in Issues, InsertToken(i) PROVE PwInv'
  <2>1. /\ ppc[i] = "insert" /\ ppc' = [ppc EXCEPT ![i] = "done"]
        /\ UNCHANGED <<password, kind, index, details, use, held, job, installs, misses>>
        /\ codes' = [codes EXCEPT ![i] = FreshCode]
    BY <1>3 DEF InsertToken
  <2>2. FreshCode \in CodeRows
    BY DEF FreshCode, CodeRows
  <2>3. PwTyped'
    BY <2>1, <2>2 DEF PwTyped, PasswordTypeOK
  <2>4. \A j \in Issues : codes'[j] = IF j = i THEN FreshCode ELSE codes[j]
    BY <2>1 DEF PwTyped, PasswordTypeOK
  <2>5. /\ \A c \in PwCalls \ {i} : ppc'[c] = ppc[c]
        /\ ppc'[i] = "done"
    BY <2>1 DEF PwTyped, PasswordTypeOK
  <2>6. PwRoles'
    BY <2>1, <2>2, <2>4, <2>5 DEF PwRoles, Issued
  <2> QED
    BY <2>3, <2>6
<1>4. ASSUME NEW i \in Issues, CodeExpires(i) PROVE PwInv'
  <2>1. /\ UNCHANGED <<password, kind, index, details, ppc, use, held, job, installs, misses>>
        /\ codes' = [codes EXCEPT ![i].expired = TRUE]
        /\ Issued(i) /\ codes[i] \in CodeRows
    BY <1>4 DEF CodeExpires, Unused, Issued, PwTyped, PasswordTypeOK
  <2>2. codes'[i] \in CodeRows
    BY <2>1 DEF CodeRows, PwTyped, PasswordTypeOK
  <2>3. \A j \in Issues : IF Issued(j) THEN codes'[j] \in CodeRows ELSE codes'[j] = NoCode
    BY <2>1, <2>2 DEF PwTyped, PasswordTypeOK, Issued
  <2>4. codes' = [j \in Issues |-> codes'[j]]
    BY <2>1 DEF PwTyped, PasswordTypeOK
  <2>5. /\ codes' \in [Issues -> CodeRows \cup {NoCode}]
        /\ \A j \in Issues : codes'[j] = NoCode <=> codes[j] = NoCode
    BY <2>3, <2>4, CodesWritten
  <2>6. PwTyped'
    BY <2>1, <2>5 DEF PwTyped, PasswordTypeOK
  <2>7. PwRoles'
    BY <2>1, <2>5 DEF PwRoles, Issued
  <2> QED
    BY <2>6, <2>7
<1>5. ASSUME NEW v \in Verifies \cup Completes, FindToken(v) PROVE PwInv'
  <2>1. PICK to \in {"discard", "verify", "count"} :
          /\ ppc[v] = "idle" /\ ppc' = [ppc EXCEPT ![v] = to]
          /\ to # "count" => Issued(use[v])
    BY <1>5 DEF FindToken, Awaiting, Unused
  <2>2. UNCHANGED <<password, codes, kind, index, details, use, held, job, installs, misses>>
    BY <1>5 DEF FindToken
  <2>3. PwTyped'
    BY <2>1, <2>2 DEF PwTyped, PasswordTypeOK
  <2>4. PwRoles'
    BY <1>a, <1>b, <2>1, <2>2
  <2> QED
    BY <2>3, <2>4
<1>6. ASSUME NEW v \in Verifies, FindResetToken(v) PROVE PwInv'
  <2>1. /\ ppc[v] = "idle" /\ ppc' = [ppc EXCEPT ![v] = "discard"]
        /\ Issued(use[v])
        /\ UNCHANGED <<password, codes, kind, index, details, use, held, job, installs, misses>>
    BY <1>6 DEF FindResetToken, Unused
  <2>2. PwTyped'
    BY <2>1 DEF PwTyped, PasswordTypeOK
  <2>3. PwRoles'
    BY <1>a, <1>b, <2>1
  <2> QED
    BY <2>2, <2>3
<1>7. ASSUME NEW v \in Verifies \cup Completes, CountAttempt(v) PROVE PwInv'
  <2>1. /\ ppc[v] = "count" /\ ppc' = [ppc EXCEPT ![v] = "done"]
        /\ UNCHANGED <<password, kind, index, details, use, held, job, installs>>
        /\ codes' = [i \in Issues |-> Counted(i)]
        /\ misses' = [i \in Issues |-> IF Awaiting(i) THEN misses[i] + 1 ELSE misses[i]]
    BY <1>7 DEF CountAttempt
  <2>2. \A j \in Issues : IF Issued(j) THEN codes'[j] \in CodeRows ELSE codes'[j] = NoCode
    BY <2>1, CountedCode
  <2>3. codes' = [j \in Issues |-> codes'[j]]
    BY <2>1
  <2>4. /\ codes' \in [Issues -> CodeRows \cup {NoCode}]
        /\ \A j \in Issues : codes'[j] = NoCode <=> codes[j] = NoCode
    BY <2>2, <2>3, CodesWritten
  <2>5. misses' \in [Issues -> Nat]
    BY <2>1 DEF PwTyped
  <2>6. PwTyped'
    BY <2>1, <2>4, <2>5 DEF PwTyped, PasswordTypeOK
  <2>7. \A i \in Issues : ~Issued(i) => misses'[i] = misses[i]
    BY <2>1 DEF Awaiting, Unused
  <2>8. PwRoles'
    BY <1>a, <1>b, <2>1, <2>4, <2>7
  <2> QED
    BY <2>6, <2>8
<1>8. ASSUME NEW v \in Verifies \cup Completes, DiscardToken(v) PROVE PwInv'
  <2>1. /\ ppc[v] = "discard" /\ ppc' = [ppc EXCEPT ![v] = "done"]
        /\ UNCHANGED <<password, kind, index, details, use, held, job, installs, misses>>
        /\ codes' = [codes EXCEPT ![use[v]].used = TRUE]
    BY <1>8 DEF DiscardToken
  <2>2. use[v] \in Issues /\ codes[use[v]] \in CodeRows
    BY <2>1 DEF PwRoles, PwTyped, PasswordTypeOK, Issued
  <2>3. codes'[use[v]] \in CodeRows
    BY <2>1, <2>2 DEF CodeRows, PwTyped, PasswordTypeOK
  <2>4. \A j \in Issues : IF Issued(j) THEN codes'[j] \in CodeRows ELSE codes'[j] = NoCode
    BY <2>1, <2>2, <2>3 DEF PwTyped, PasswordTypeOK, Issued
  <2>5. codes' = [j \in Issues |-> codes'[j]]
    BY <2>1 DEF PwTyped, PasswordTypeOK
  <2>6. /\ codes' \in [Issues -> CodeRows \cup {NoCode}]
        /\ \A j \in Issues : codes'[j] = NoCode <=> codes[j] = NoCode
    BY <2>4, <2>5, CodesWritten
  <2>7. PwTyped'
    BY <2>1, <2>6 DEF PwTyped, PasswordTypeOK
  <2>8. PwRoles'
    BY <1>a, <1>b, <2>1, <2>6
  <2> QED
    BY <2>7, <2>8
<1>9. ASSUME NEW v \in Verifies \cup Completes, VerifyToken(v) PROVE PwInv'
  <2>1. PICK token \in BOOLEAN :
          codes' = [codes EXCEPT ![use[v]].verified = TRUE, ![use[v]].token = token]
    BY <1>9 DEF VerifyToken
  <2>2. PICK to \in {"install", "done"} :
          /\ ppc[v] = "verify" /\ ppc' = [ppc EXCEPT ![v] = to]
          /\ to = "install" => v \in Completes
    BY <1>9 DEF VerifyToken
  <2>3. UNCHANGED <<password, kind, index, details, use, held, job, installs, misses>>
    BY <1>9 DEF VerifyToken
  <2>4. use[v] \in Issues /\ codes[use[v]] \in CodeRows /\ Issued(use[v])
    BY <2>2 DEF PwRoles, PwTyped, PasswordTypeOK, Issued
  <2>5. codes'[use[v]] \in CodeRows
    BY <2>1, <2>4 DEF CodeRows, PwTyped, PasswordTypeOK
  <2>6. \A j \in Issues : IF Issued(j) THEN codes'[j] \in CodeRows ELSE codes'[j] = NoCode
    BY <2>1, <2>4, <2>5 DEF PwTyped, PasswordTypeOK, Issued
  <2>7. codes' = [j \in Issues |-> codes'[j]]
    BY <2>1 DEF PwTyped, PasswordTypeOK
  <2>8. /\ codes' \in [Issues -> CodeRows \cup {NoCode}]
        /\ \A j \in Issues : codes'[j] = NoCode <=> codes[j] = NoCode
    BY <2>6, <2>7, CodesWritten
  <2>9. PwTyped'
    BY <2>2, <2>3, <2>8 DEF PwTyped, PasswordTypeOK
  <2>10. PwRoles'
    BY <1>a, <1>b, <2>2, <2>3, <2>4, <2>8
  <2> QED
    BY <2>9, <2>10
<1>10. ASSUME NEW c \in Setups \cup Redeems, CheckCode(c) PROVE PwInv'
  <2>1. PICK to \in {"install", "done"} :
          /\ ppc[c] = "idle" /\ ppc' = [ppc EXCEPT ![c] = to]
          /\ to = "install" => Issued(use[c])
    BY <1>10 DEF CheckCode, FindVerified, FindRedeemable, Unused
  <2>2. UNCHANGED <<password, codes, kind, index, details, use, held, job, installs, misses>>
    BY <1>10 DEF CheckCode
  <2>3. PwTyped'
    BY <2>1, <2>2 DEF PwTyped, PasswordTypeOK
  <2>4. PwRoles'
    BY <1>a, <1>b, <2>1, <2>2
  <2> QED
    BY <2>3, <2>4
<1>11. ASSUME NEW c \in Setters, InstallPassword(c) PROVE PwInv'
  <2>1. PICK to \in {"use", "done"} :
          /\ ppc[c] = "install" /\ ppc' = [ppc EXCEPT ![c] = to]
          /\ to = "use" => c \notin Completes
    BY <1>11 DEF InstallPassword, AfterInstall
  <2>2. /\ UNCHANGED <<codes, kind, index, details, use, held, job, misses>>
        /\ password' = c
        /\ installs' = [installs EXCEPT ![use[c]] = @ + 1]
    BY <1>11 DEF InstallPassword
  <2>3. c \in Presenters /\ c \notin Verifies /\ Issued(use[c]) /\ use[c] \in Issues
    BY <2>1 DEF PwRoles, PwTyped
  <2>4. installs' \in [Issues -> Nat]
    BY <2>2, <2>3 DEF PwTyped
  <2>5. PwTyped'
    BY <2>1, <2>2, <2>4 DEF PwTyped, PasswordTypeOK, PasswordValues
  <2>6. \A i \in Issues : ~Issued(i) => installs'[i] = 0 /\ misses'[i] = 0
    BY <1>b, <2>2, <2>3 DEF PwTyped
  <2>7. PwRoles'
    BY <1>a, <2>1, <2>2, <2>3, <2>6
  <2> QED
    BY <2>5, <2>7
<1>12. ASSUME NEW c \in Setters, UseCode(c) PROVE PwInv'
  <2>1. PICK to \in {"details", "done"} : ppc[c] = "use" /\ ppc' = [ppc EXCEPT ![c] = to]
    BY <1>12 DEF UseCode
  <2>2. /\ UNCHANGED <<password, kind, index, details, use, held, job, installs, misses>>
        /\ codes' = [codes EXCEPT ![use[c]].used = TRUE] \/ codes' = codes
    BY <1>12 DEF UseCode
  <2>3. use[c] \in Issues /\ codes[use[c]] \in CodeRows
    BY <2>1 DEF PwRoles, PwTyped, PasswordTypeOK, Issued
  <2>4. codes'[use[c]] \in CodeRows /\ (\A j \in Issues : j # use[c] => codes'[j] = codes[j])
    <3>1. CASE codes' = codes
      BY <2>3, <3>1
    <3>2. CASE codes' = [codes EXCEPT ![use[c]].used = TRUE]
      BY <2>3, <3>2 DEF CodeRows, PwTyped, PasswordTypeOK
    <3> QED
      BY <2>2, <3>1, <3>2
  <2>5. \A j \in Issues : IF Issued(j) THEN codes'[j] \in CodeRows ELSE codes'[j] = NoCode
    BY <2>3, <2>4 DEF PwTyped, PasswordTypeOK, Issued
  <2>6. codes' = [j \in Issues |-> codes'[j]]
    BY <2>2 DEF PwTyped, PasswordTypeOK
  <2>7. /\ codes' \in [Issues -> CodeRows \cup {NoCode}]
        /\ \A j \in Issues : codes'[j] = NoCode <=> codes[j] = NoCode
    BY <2>5, <2>6, CodesWritten
  <2>8. PwTyped'
    BY <2>1, <2>2, <2>7 DEF PwTyped, PasswordTypeOK
  <2>9. PwRoles'
    BY <1>a, <1>b, <2>1, <2>2, <2>7
  <2> QED
    BY <2>8, <2>9
<1>13. ASSUME NEW c \in Changes \cup Rewrites,
              \/ c \in Changes /\ (CheckCurrent(c) \/ UpdateInTransaction(c) \/ CommitPassword(c))
              \/ c \in Rewrites /\ Rewrite(c)
       PROVE PwInv'
  <2>1. PICK to \in {"write", "commit", "done"} :
          ppc[c] # "done" /\ ppc' = [ppc EXCEPT ![c] = to]
    BY <1>13 DEF CheckCurrent, UpdateInTransaction, CommitPassword, Rewrite
  <2>2. UNCHANGED <<codes, kind, index, use, held, installs, misses>>
    BY <1>13 DEF CheckCurrent, UpdateInTransaction, CommitPassword, Rewrite
  <2>3. password' \in PasswordValues /\ details' \in BOOLEAN
    <3>1. password' \in {password, c} /\ details' \in {details, world.cached}
      BY <1>13 DEF CheckCurrent, UpdateInTransaction, CommitPassword, Rewrite
    <3> QED
      BY <3>1 DEF PwTyped, PasswordTypeOK, PasswordValues
  <2>4. job' \in [Changes -> {"none", "details", "read", "store", "done"}]
    BY <1>13 DEF CheckCurrent, UpdateInTransaction, CommitPassword, Rewrite, PwTyped, PasswordTypeOK
  <2>5. PwTyped'
    BY <2>1, <2>2, <2>3, <2>4 DEF PwTyped, PasswordTypeOK
  <2>6. PwRoles'
    BY <1>a, <1>b, <2>1, <2>2
  <2> QED
    BY <2>5, <2>6
<1>14. ASSUME NEW c \in Changes, RefreshAfterChange(c) PROVE PwInv'
  <2>1. UNCHANGED <<password, codes, kind, ppc, use, installs, misses>>
    BY <1>14 DEF RefreshAfterChange
  <2>2. /\ job' \in [Changes -> {"none", "details", "read", "store", "done"}]
        /\ held' \in [PwCalls -> PasswordValues]
        /\ index' \in PasswordValues \cup {Uncached} /\ details' \in BOOLEAN
    <3>1. \E to \in {"read", "store", "done"} : job' = [job EXCEPT ![c] = to]
      BY <1>14 DEF RefreshAfterChange, JobGoto
    <3>2. held' = held \/ held' = [held EXCEPT ![c] = password]
      BY <1>14 DEF RefreshAfterChange
    <3>3. index' \in {index, held[c]} /\ details' \in {details, TRUE}
      BY <1>14 DEF RefreshAfterChange
    <3>4. password \in PasswordValues /\ held[c] \in PasswordValues
      BY DEF PwTyped, PasswordTypeOK
    <3>5. job' \in [Changes -> {"none", "details", "read", "store", "done"}]
      BY <3>1 DEF PwTyped, PasswordTypeOK
    <3>6. held' \in [PwCalls -> PasswordValues]
      BY <3>2, <3>4 DEF PwTyped, PasswordTypeOK
    <3>7. index' \in PasswordValues \cup {Uncached} /\ details' \in BOOLEAN
      BY <3>3, <3>4 DEF PwTyped, PasswordTypeOK
    <3> QED
      BY <3>5, <3>6, <3>7
  <2>3. PwTyped'
    BY <2>1, <2>2 DEF PwTyped, PasswordTypeOK
  <2>4. PwRoles'
    BY <2>1 DEF PwRoles, Issued
  <2> QED
    BY <2>3, <2>4
<1>15. ASSUME NEW l \in Logins, TryIndex(l) PROVE PwInv'
  <2>1. PICK p \in PasswordValues \ {NoPassword} :
          /\ held' = [held EXCEPT ![l] = p]
          /\ PwGoto(l, "idle", CASE index = Uncached -> "database"
                                 [] index # Uncached /\ index # p -> "refused"
                                 [] OTHER -> IF details THEN "in" ELSE "database")
    BY <1>15 DEF TryIndex
  <2>2. PICK to \in {"database", "refused", "in"} :
          ppc[l] = "idle" /\ ppc' = [ppc EXCEPT ![l] = to]
    BY <2>1
  <2>3. UNCHANGED <<password, codes, kind, index, details, use, job, installs, misses>>
    BY <1>15 DEF TryIndex
  <2>4. PwTyped'
    BY <2>1, <2>2, <2>3 DEF PwTyped, PasswordTypeOK
  <2>5. PwRoles'
    BY <1>a, <1>b, <2>2, <2>3
  <2> QED
    BY <2>4, <2>5
<1>16. ASSUME NEW l \in Logins, TryDatabase(l) PROVE PwInv'
  <2>1. PICK to \in {"refused", "details", "in"} :
          ppc[l] = "database" /\ ppc' = [ppc EXCEPT ![l] = to]
    BY <1>16 DEF TryDatabase
  <2>2. UNCHANGED <<password, codes, kind, index, details, use, held, job, installs, misses>>
    BY <1>16 DEF TryDatabase
  <2>3. PwTyped'
    BY <2>1, <2>2 DEF PwTyped, PasswordTypeOK
  <2>4. PwRoles'
    BY <1>a, <1>b, <2>1, <2>2
  <2> QED
    BY <2>3, <2>4
<1>17. ASSUME NEW c \in Setups \cup Logins, CacheDetails(c) \/ ReadForIndex(c) \/ StoreIndex(c)
       PROVE PwInv'
  <2>1. PICK to \in {"read", "store", "in", "done"} :
          ppc[c] # "done" /\ ppc' = [ppc EXCEPT ![c] = to]
    BY <1>17 DEF CacheDetails, ReadForIndex, StoreIndex
  <2>2. UNCHANGED <<password, codes, kind, use, job, installs, misses>>
    BY <1>17 DEF CacheDetails, ReadForIndex, StoreIndex
  <2>3. /\ held' \in [PwCalls -> PasswordValues]
        /\ index' \in PasswordValues \cup {Uncached} /\ details' \in BOOLEAN
    <3>1. held' = held \/ held' = [held EXCEPT ![c] = password]
      BY <1>17 DEF CacheDetails, ReadForIndex, StoreIndex
    <3>2. index' \in {index, held[c]} /\ details' \in {details, TRUE}
      BY <1>17 DEF CacheDetails, ReadForIndex, StoreIndex
    <3>3. password \in PasswordValues /\ held[c] \in PasswordValues
      BY DEF PwTyped, PasswordTypeOK
    <3>4. held' \in [PwCalls -> PasswordValues]
      BY <3>1, <3>3 DEF PwTyped, PasswordTypeOK
    <3>5. index' \in PasswordValues \cup {Uncached} /\ details' \in BOOLEAN
      BY <3>2, <3>3 DEF PwTyped, PasswordTypeOK
    <3> QED
      BY <3>4, <3>5
  <2>4. PwTyped'
    BY <2>1, <2>2, <2>3 DEF PwTyped, PasswordTypeOK
  <2>5. PwRoles'
    BY <1>a, <1>b, <2>1, <2>2
  <2> QED
    BY <2>4, <2>5
<1>18. ASSUME EntryExpires PROVE PwInv'
  <2>1. /\ UNCHANGED <<password, codes, kind, ppc, use, held, job, installs, misses>>
        /\ index' \in {index, Uncached} /\ details' \in {details, FALSE}
    BY <1>18 DEF EntryExpires
  <2>2. PwTyped'
    BY <2>1 DEF PwTyped, PasswordTypeOK
  <2>3. PwRoles'
    BY <2>1 DEF PwRoles, Issued
  <2> QED
    BY <2>2, <2>3
<1>19. ASSUME NEW c \in Changes,
              \/ CheckCurrent(c) \/ UpdateInTransaction(c)
              \/ CommitPassword(c) \/ RefreshAfterChange(c)
       PROVE PwInv'
  BY <1>13, <1>14, <1>19
<1>20. ASSUME NEW v \in Verifies \cup Completes,
              FindToken(v) \/ CountAttempt(v) \/ DiscardToken(v) \/ VerifyToken(v)
       PROVE PwInv'
  BY <1>5, <1>7, <1>8, <1>9, <1>20
<1>21. ASSUME NEW c \in Rewrites, Rewrite(c) PROVE PwInv'
  BY <1>13, <1>21
<1> HIDE DEF PwInv, PwGoto, PwCalls, Presenters, Setters
<1> QED
  BY <1>1, <1>2, <1>3, <1>4, <1>6, <1>10, <1>11, <1>12, <1>15, <1>16, <1>17, <1>18, <1>19, <1>20,
     <1>21 DEF PasswordNext

\* And, of calls one after the other, the second one.
LEMMA PwNextSerial == PwInv /\ PwSerialInv /\ PasswordNext /\ UNCHANGED world => PwSerialInv'
<1> SUFFICES ASSUME PwInv, PwSerialInv, PasswordNext, UNCHANGED world, world.serial
             PROVE PwSerialInv'
  BY DEF PwSerialInv, PwAlone, CodesSettled, CodesSpent, NewestCodeOnly
<1> USE AttemptsAssumption, PwNamesAssumption
<1> DEFINE Others(c) == \A d \in PwCalls \ {c} : ppc'[d] = ppc[d] /\ ppc[d] \in Resting
\* The call that takes a step is the only one under way.
<1>a. ASSUME NEW c \in PwCalls, NEW to, PwMayBegin \/ ppc[c] \notin Resting,
             ppc' = [ppc EXCEPT ![c] = to]
      PROVE Others(c) /\ ppc'[c] = to /\ PwAlone'
  BY <1>a DEF PwSerialInv, PwMayBegin, PwAlone, Resting, PwInv, PwTyped, PasswordTypeOK
\* A step that wakes no code.
<1>b. ASSUME NEW c \in PwCalls, Others(c), UNCHANGED <<kind, use, misses>>,
             ppc'[c] = "verify" => Awaiting(use[c])' /\ codes'[use[c]].attempts < MaxAttempts,
             c \in Issues /\ ppc'[c] = "insert" => \A j \in Issues : Unused(j)' => kind[j] # kind[c],
             \A j \in Issues : /\ Unused(j)' => Unused(j)
                               /\ Awaiting(j)' => Awaiting(j) /\ codes'[j].attempts = codes[j].attempts
      PROVE CodesSettled' /\ NewestCodeOnly'
  <2>1. CodesSettled'
    BY <1>b DEF CodesSettled, PwSerialInv, Resting, PwCalls
  <2>2. NewestCodeOnly'
    BY <1>b DEF NewestCodeOnly, PwSerialInv
  <2> QED
    BY <2>1, <2>2
\* A step that sets no password and keeps what is spent.
<1>c. ASSUME NEW c \in PwCalls, Others(c), UNCHANGED <<kind, use, installs>>,
             ppc[c] # "use", ppc'[c] # "install",
             \A j \in Issues : codes[j].used \/ Completed(j) => codes'[j].used \/ Completed(j)'
      PROVE CodesSpent'
  BY <1>c DEF CodesSpent, PwSerialInv, Resting, PwCalls, Setters
\* Both, of a step that writes to no code.
<1>d. ASSUME NEW c \in PwCalls, NEW to, PwMayBegin \/ ppc[c] \notin Resting,
             ppc' = [ppc EXCEPT ![c] = to], UNCHANGED <<codes, kind, use, installs, misses>>,
             to \notin {"insert", "verify", "install"}, ppc[c] # "use"
      PROVE PwSerialInv'
  <2>1. Others(c) /\ ppc'[c] = to /\ PwAlone'
    BY <1>a, <1>d
  <2>2. \A j \in Issues : /\ Unused(j)' = Unused(j) /\ Awaiting(j)' = Awaiting(j)
                          /\ Completed(j)' = Completed(j)
    BY <1>d DEF Unused, Issued, Awaiting, Completed
  <2> HIDE DEF Others
  <2>3. CodesSettled' /\ NewestCodeOnly'
    BY <1>b, <1>d, <2>1, <2>2
  <2>4. CodesSpent'
    BY <1>c, <1>d, <2>1, <2>2
  <2> QED
    BY <2>1, <2>3, <2>4 DEF PwSerialInv
<1> HIDE DEF Others
<1>1. ASSUME NEW i \in Issues, CheckIssue(i) PROVE PwSerialInv'
  <2>1. PICK to \in {"replace", "done"} : ppc[i] = "idle" /\ ppc' = [ppc EXCEPT ![i] = to]
    BY <1>1 DEF CheckIssue, PwGoto
  <2> QED
    BY <1>1, <1>d, <2>1 DEF CheckIssue, PwCalls
<1>2. ASSUME NEW i \in Issues, ReplaceCodes(i) PROVE PwSerialInv'
  <2>1. /\ ppc[i] = "replace" /\ ppc' = [ppc EXCEPT ![i] = "insert"]
        /\ UNCHANGED <<kind, use, installs, misses>>
    BY <1>2 DEF ReplaceCodes, PwGoto
  <2>2. Others(i) /\ ppc'[i] = "insert" /\ PwAlone'
    BY <1>a, <2>1 DEF Resting, PwCalls
  <2>3. ASSUME NEW j \in Issues
        PROVE /\ Unused(j)' => Unused(j) /\ kind[j] # kind[i]
              /\ Awaiting(j)' => Awaiting(j) /\ codes'[j].attempts = codes[j].attempts
              /\ codes[j].used \/ Completed(j) => codes'[j].used \/ Completed(j)'
    <3>1. CASE Replaces(i, j)
      <4>1. Issued(j) /\ codes[j] \in CodeRows
        BY <3>1 DEF Replaces, Unused, Issued, PwInv, PwTyped, PasswordTypeOK
      <4>2. codes'[j] = [codes[j] EXCEPT !.used = TRUE]
        BY <1>2, <3>1 DEF ReplaceCodes
      <4>3. codes'[j].used
        BY <4>1, <4>2 DEF CodeRows
      <4> QED
        BY <4>3 DEF Unused, Awaiting
    <3>2. CASE ~Replaces(i, j)
      <4>1. codes'[j] = codes[j]
        BY <1>2, <3>2 DEF ReplaceCodes
      <4> QED
        BY <2>1, <3>2, <4>1 DEF Replaces, Unused, Issued, Awaiting, Completed
    <3> QED
      BY <3>1, <3>2
  <2>4. CodesSettled' /\ NewestCodeOnly'
    BY <1>b, <2>1, <2>2, <2>3 DEF PwCalls
  <2>5. CodesSpent'
    BY <1>c, <2>1, <2>2, <2>3 DEF PwCalls
  <2> QED
    BY <2>2, <2>4, <2>5 DEF PwSerialInv
<1>3. ASSUME NEW i \in Issues, InsertToken(i) PROVE PwSerialInv'
  <2>1. /\ ppc[i] = "insert" /\ ppc' = [ppc EXCEPT ![i] = "done"]
        /\ UNCHANGED <<kind, use, installs, misses>>
        /\ codes' = [codes EXCEPT ![i] = FreshCode]
    BY <1>3 DEF InsertToken, PwGoto
  <2>2. Others(i) /\ ppc'[i] = "done" /\ PwAlone'
    BY <1>a, <2>1 DEF Resting, PwCalls
  <2>3. ~Issued(i) /\ installs[i] = 0 /\ misses[i] = 0
    BY <2>1 DEF PwInv, PwRoles, Issued
  <2>4. codes'[i] = FreshCode /\ \A j \in Issues \ {i} : codes'[j] = codes[j]
    BY <2>1 DEF PwInv, PwTyped, PasswordTypeOK
  <2>5. \A j \in Issues \ {i} : /\ Unused(j)' = Unused(j) /\ Awaiting(j)' = Awaiting(j)
                                /\ Completed(j)' = Completed(j)
    BY <2>1, <2>4 DEF Unused, Issued, Awaiting, Completed
  <2>6. \A j \in Issues : Unused(j) => kind[j] # kind[i]
    BY <2>1 DEF PwSerialInv, CodesSettled
  <2>7. CodesSettled'
    <3>1. misses'[i] <= codes'[i].attempts
      BY <2>1, <2>3, <2>4 DEF FreshCode
    <3>2. \A c \in PwCalls : ppc'[c] \notin {"verify", "insert"}
      BY <2>2 DEF Others, Resting
    <3> QED
      BY <2>1, <2>4, <2>5, <3>1, <3>2 DEF PwSerialInv, CodesSettled, PwCalls
  <2>8. NewestCodeOnly'
    BY <2>1, <2>5, <2>6 DEF NewestCodeOnly, PwSerialInv
  <2>9. CodesSpent'
    <3>1. \A c \in PwCalls : ppc'[c] # "install" /\ ppc[c] # "use"
      BY <2>1, <2>2 DEF Others, Resting
    <3>2. Setups \cup Redeems \subseteq PwCalls
      BY DEF PwCalls, Setters
    <3> QED
      BY <2>1, <2>3, <2>4, <2>5, <3>1, <3>2 DEF CodesSpent, PwSerialInv
  <2> QED
    BY <2>2, <2>7, <2>8, <2>9 DEF PwSerialInv
<1>4. ASSUME NEW i \in Issues, CodeExpires(i) PROVE PwSerialInv'
  <2>1. /\ UNCHANGED <<kind, ppc, use, installs, misses>>
        /\ codes' = [codes EXCEPT ![i].expired = TRUE]
        /\ Issued(i) /\ codes[i] \in CodeRows
    BY <1>4 DEF CodeExpires, Unused, Issued, PwInv, PwTyped, PasswordTypeOK
  <2>2. /\ \A j \in Issues \ {i} : codes'[j] = codes[j]
        /\ codes'[i].used = codes[i].used /\ codes'[i].verified = codes[i].verified
        /\ codes'[i].token = codes[i].token /\ codes'[i].attempts = codes[i].attempts
        /\ codes'[i] # NoCode
    <3>1. /\ \A j \in Issues \ {i} : codes'[j] = codes[j]
          /\ codes'[i] = [codes[i] EXCEPT !.expired = TRUE]
      BY <2>1 DEF PwInv, PwTyped, PasswordTypeOK
    <3>2. codes'[i] \in CodeRows
      BY <2>1 DEF CodeRows, PwInv, PwTyped, PasswordTypeOK
    <3> DEFINE old == codes[i]
               new == codes'[i]
    <3>3. old \in CodeRows /\ new = [old EXCEPT !.expired = TRUE]
      BY <2>1, <3>1
    <3> HIDE DEF old, new
    <3>4. /\ new.used = old.used /\ new.verified = old.verified
          /\ new.token = old.token /\ new.attempts = old.attempts
      BY <3>3 DEF CodeRows
    <3> QED
      BY <3>1, <3>2, <3>4 DEF old, new
  <2>3. \A j \in Issues : /\ Unused(j)' = Unused(j) /\ Awaiting(j)' = Awaiting(j)
                          /\ Completed(j)' = Completed(j)
                          /\ codes'[j].used = codes[j].used
                          /\ codes'[j].attempts = codes[j].attempts
    BY <2>1, <2>2 DEF Unused, Issued, Awaiting, Completed
  <2>4. PwAlone' /\ NewestCodeOnly'
    BY <2>1, <2>3 DEF PwSerialInv, PwAlone, NewestCodeOnly
  <2>5. \A c \in PwCalls : ppc[c] \in {"verify", "install"} => use[c] \in Issues
    BY DEF PwInv, PwRoles, PwTyped
  <2>6. CodesSettled' /\ CodesSpent'
    BY <2>1, <2>3, <2>5 DEF PwSerialInv, CodesSettled, CodesSpent
  <2> QED
    BY <2>4, <2>6 DEF PwSerialInv
<1>5. ASSUME NEW v \in Verifies \cup Completes, FindToken(v) PROVE PwSerialInv'
  <2>1. PICK to \in {"discard", "verify", "count"} :
          /\ ppc[v] = "idle" /\ ppc' = [ppc EXCEPT ![v] = to]
          /\ to = "verify" => Awaiting(use[v]) /\ ~TooMany(use[v])
    BY <1>5 DEF FindToken, PwGoto
  <2>2. PwMayBegin /\ UNCHANGED <<codes, kind, use, installs, misses>>
    BY <1>5 DEF FindToken
  <2>3. Others(v) /\ ppc'[v] = to /\ PwAlone'
    BY <1>a, <2>1, <2>2 DEF PwCalls, Presenters
  <2>4. use[v] \in Issues
    BY DEF PwInv, PwTyped, Presenters
  <2>5. Awaiting(use[v]) /\ ~TooMany(use[v]) =>
          Awaiting(use[v])' /\ codes'[use[v]].attempts < MaxAttempts
    BY <2>2, <2>4 DEF TooMany, Awaiting, Unused, Issued, PwInv, PwTyped, PasswordTypeOK, CodeRows
  <2>6. \A j \in Issues : /\ Unused(j)' = Unused(j) /\ Awaiting(j)' = Awaiting(j)
                          /\ Completed(j)' = Completed(j)
    BY <2>2 DEF Unused, Issued, Awaiting, Completed
  <2>7. v \in PwCalls /\ v \notin Issues
    BY DEF PwCalls, Presenters
  <2>8. CodesSettled' /\ NewestCodeOnly'
    BY <1>b, <2>1, <2>2, <2>3, <2>5, <2>6, <2>7
  <2>9. CodesSpent'
    BY <1>c, <2>1, <2>2, <2>3, <2>6, <2>7
  <2> QED
    BY <2>3, <2>8, <2>9 DEF PwSerialInv
<1>6. ASSUME NEW v \in Verifies, FindResetToken(v) PROVE PwSerialInv'
  BY <1>6, <1>d DEF FindResetToken, PwGoto, PwCalls, Presenters
<1>7. ASSUME NEW v \in Verifies \cup Completes, CountAttempt(v) PROVE PwSerialInv'
  <2>1. /\ ppc[v] = "count" /\ ppc' = [ppc EXCEPT ![v] = "done"]
        /\ UNCHANGED <<kind, use, installs>>
        /\ codes' = [i \in Issues |-> Counted(i)]
        /\ misses' = [i \in Issues |-> IF Awaiting(i) THEN misses[i] + 1 ELSE misses[i]]
    BY <1>7 DEF CountAttempt, PwGoto
  <2>2. v \in PwCalls /\ v \notin Issues
    BY DEF PwCalls, Presenters
  <2>3. Others(v) /\ ppc'[v] = "done" /\ PwAlone'
    BY <1>a, <2>1, <2>2 DEF Resting
  <2>4. ASSUME NEW j \in Issues
        PROVE /\ Unused(j)' = Unused(j) /\ Awaiting(j)' = Awaiting(j)
              /\ codes[j].used \/ Completed(j) => codes'[j].used \/ Completed(j)'
    <3>1. codes'[j] = Counted(j)
      BY <2>1
    <3>2. CASE Issued(j)
      <4>1. /\ codes'[j] \in CodeRows
            /\ codes'[j].used = codes[j].used /\ codes'[j].verified = codes[j].verified
            /\ codes'[j].token = codes[j].token
        BY <3>1, <3>2, CountedCode DEF PwInv
      <4> QED
        BY <2>1, <3>2, <4>1 DEF Unused, Issued, Awaiting, Completed
    <3>3. CASE ~Issued(j)
      <4>1. codes'[j] = codes[j]
        BY <3>1, <3>3, CountedCode DEF PwInv, Issued
      <4> QED
        BY <2>1, <4>1 DEF Unused, Issued, Awaiting, Completed
    <3> QED
      BY <3>2, <3>3
  <2>5. \A c \in PwCalls : ppc'[c] \notin {"verify", "insert", "install"}
    BY <2>3 DEF Others, Resting
  <2>6. ASSUME NEW j \in Issues, Awaiting(j)', codes'[j].attempts < MaxAttempts
        PROVE misses'[j] <= codes'[j].attempts
    <3>1. Awaiting(j) /\ Issued(j) /\ codes'[j] = Counted(j)
      BY <2>1, <2>4, <2>6 DEF Awaiting, Unused
    <3>2. codes[j].attempts \in 0..MaxAttempts /\ misses[j] \in Nat
      BY <3>1 DEF PwInv, PwTyped, PasswordTypeOK, CodeRows, Issued
    <3>3. codes[j].attempts < MaxAttempts
      BY <2>6, <3>1, <3>2, CountedCode DEF PwInv
    <3>4. codes'[j].attempts = codes[j].attempts + 1
      BY <3>1, <3>3, CountedCode DEF PwInv
    <3>5. misses[j] <= codes[j].attempts
      BY <3>1, <3>3 DEF PwSerialInv, CodesSettled
    <3> QED
      BY <2>1, <3>1, <3>2, <3>4, <3>5
  <2>7. CodesSettled'
    BY <2>5, <2>6 DEF CodesSettled, PwCalls
  <2>8. NewestCodeOnly'
    BY <2>1, <2>4 DEF NewestCodeOnly, PwSerialInv
  <2>9. CodesSpent'
    BY <1>c, <2>1, <2>2, <2>3, <2>4
  <2> QED
    BY <2>3, <2>7, <2>8, <2>9 DEF PwSerialInv
<1>8. ASSUME NEW v \in Verifies \cup Completes, DiscardToken(v) PROVE PwSerialInv'
  <2>1. /\ ppc[v] = "discard" /\ ppc' = [ppc EXCEPT ![v] = "done"]
        /\ UNCHANGED <<kind, use, installs, misses>>
        /\ codes' = [codes EXCEPT ![use[v]].used = TRUE]
    BY <1>8 DEF DiscardToken, PwGoto
  <2>2. v \in PwCalls /\ v \notin Issues
    BY DEF PwCalls, Presenters
  <2>3. Others(v) /\ ppc'[v] = "done" /\ PwAlone'
    BY <1>a, <2>1, <2>2 DEF Resting
  <2>4. use[v] \in Issues /\ codes[use[v]] \in CodeRows
    BY <2>1, <2>2 DEF PwInv, PwRoles, PwTyped, PasswordTypeOK, Issued
  <2>5. codes'[use[v]].used /\ \A j \in Issues : j # use[v] => codes'[j] = codes[j]
    BY <2>1, <2>4 DEF CodeRows, PwInv, PwTyped, PasswordTypeOK
  <2>6. \A j \in Issues :
          /\ Unused(j)' => Unused(j)
          /\ Awaiting(j)' => Awaiting(j) /\ codes'[j].attempts = codes[j].attempts
          /\ codes[j].used \/ Completed(j) => codes'[j].used \/ Completed(j)'
    BY <2>1, <2>5 DEF Unused, Issued, Awaiting, Completed
  <2>7. CodesSettled' /\ NewestCodeOnly'
    BY <1>b, <2>1, <2>2, <2>3, <2>6
  <2>8. CodesSpent'
    BY <1>c, <2>1, <2>2, <2>3, <2>6
  <2> QED
    BY <2>3, <2>7, <2>8 DEF PwSerialInv
<1>9. ASSUME NEW v \in Verifies \cup Completes, VerifyToken(v) PROVE PwSerialInv'
  <2>1. PICK token \in BOOLEAN :
          /\ codes' = [codes EXCEPT ![use[v]].verified = TRUE, ![use[v]].token = token]
          /\ v \in Completes => ~token
    BY <1>9 DEF VerifyToken
  <2>2. PICK to \in {"install", "done"} :
          /\ ppc[v] = "verify" /\ ppc' = [ppc EXCEPT ![v] = to]
          /\ to = "install" => v \in Completes
    BY <1>9 DEF VerifyToken, PwGoto
  <2>3. UNCHANGED <<kind, use, installs, misses>>
    BY <1>9 DEF VerifyToken
  <2>4. v \in PwCalls /\ v \notin Issues
    BY DEF PwCalls, Presenters
  <2>5. Others(v) /\ ppc'[v] = to /\ PwAlone'
    BY <1>a, <2>2, <2>4 DEF Resting
  <2>6. use[v] \in Issues /\ codes[use[v]] \in CodeRows /\ Awaiting(use[v])
    BY <2>2, <2>4 DEF PwInv, PwRoles, PwTyped, PasswordTypeOK, Issued, PwSerialInv, CodesSettled
  <2>7. /\ codes'[use[v]] \in CodeRows
        /\ codes'[use[v]].verified /\ codes'[use[v]].token = token
        /\ codes'[use[v]].used = codes[use[v]].used
    BY <2>1, <2>6 DEF CodeRows, PwInv, PwTyped, PasswordTypeOK
  <2>8. \A j \in Issues : j # use[v] => codes'[j] = codes[j]
    BY <2>1, <2>6 DEF PwInv, PwTyped, PasswordTypeOK
  <2>9. \A j \in Issues :
          /\ Unused(j)' => Unused(j)
          /\ Awaiting(j)' => Awaiting(j) /\ codes'[j].attempts = codes[j].attempts
    BY <2>3, <2>6, <2>7, <2>8 DEF Unused, Issued, Awaiting
  <2>10. \A j \in Issues : codes[j].used \/ Completed(j) => codes'[j].used \/ Completed(j)'
    BY <2>3, <2>6, <2>7, <2>8 DEF Completed, Awaiting, Unused
  <2>11. CodesSettled' /\ NewestCodeOnly'
    BY <1>b, <2>2, <2>3, <2>4, <2>5, <2>9
  <2>12. CASE to = "done"
    BY <1>c, <2>2, <2>3, <2>4, <2>5, <2>10, <2>11, <2>12 DEF PwSerialInv
  <2>13. CASE to = "install"
    <3>1. \A c \in PwCalls : ppc[c] # "use" /\ (ppc'[c] = "install" => c = v)
      BY <2>2, <2>5 DEF Others, Resting
    <3>2. Setups \cup Redeems \subseteq PwCalls
      BY DEF PwCalls, Setters
    <3>3. ~world.faulty => installs[use[v]] = 0
      BY <2>6, <3>1, <3>2 DEF PwSerialInv, CodesSpent, Completed, Awaiting, Unused
    <3>4. Completed(use[v])'
      BY <2>1, <2>2, <2>3, <2>6, <2>7, <2>13 DEF Completed, Awaiting
    <3>5. CodesSpent'
      BY <2>3, <2>10, <3>1, <3>2, <3>3, <3>4 DEF PwSerialInv, CodesSpent
    <3> QED
      BY <2>5, <2>11, <3>5 DEF PwSerialInv
  <2> QED
    BY <2>12, <2>13
<1>10. ASSUME NEW c \in Setups \cup Redeems, CheckCode(c) PROVE PwSerialInv'
  <2>1. PICK to \in {"install", "done"} :
          /\ ppc[c] = "idle" /\ ppc' = [ppc EXCEPT ![c] = to]
          /\ to = "install" => \/ c \in Setups /\ FindVerified(c)
                               \/ c \in Redeems /\ FindRedeemable(c)
    BY <1>10 DEF CheckCode, PwGoto
  <2>2. PwMayBegin /\ UNCHANGED <<codes, kind, use, installs, misses>>
    BY <1>10 DEF CheckCode
  <2>3. c \in PwCalls /\ c \notin Issues /\ c \notin Completes /\ use[c] \in Issues
    BY DEF PwCalls, Presenters, Setters, PwInv, PwTyped
  <2>4. Others(c) /\ ppc'[c] = to /\ PwAlone'
    BY <1>a, <2>1, <2>2, <2>3
  <2>5. CASE to = "done"
    BY <1>d, <2>1, <2>2, <2>3, <2>5
  <2>6. CASE to = "install"
    <3>1. \A j \in Issues : /\ Unused(j)' = Unused(j) /\ Awaiting(j)' = Awaiting(j)
                            /\ Completed(j)' = Completed(j)
      BY <2>2 DEF Unused, Issued, Awaiting, Completed
    <3>2. \A d \in PwCalls : ppc[d] # "use" /\ (ppc'[d] = "install" => d = c)
      BY <2>1, <2>4 DEF Others, Resting
    <3>3. Setups \cup Redeems \subseteq PwCalls
      BY DEF PwCalls, Setters
    <3>4. Unused(use[c]) /\ ~Completed(use[c])
      BY <2>1, <2>6 DEF FindVerified, FindRedeemable, Completed
    <3>5. ~world.faulty => installs[use[c]] = 0
      BY <2>3, <3>2, <3>3, <3>4 DEF PwSerialInv, CodesSpent, Unused
    <3>6. CodesSpent'
      BY <2>2, <2>3, <3>1, <3>2, <3>3, <3>5 DEF PwSerialInv, CodesSpent
    <3>7. CodesSettled' /\ NewestCodeOnly'
      BY <1>b, <2>1, <2>2, <2>3, <2>4, <2>6, <3>1
    <3> QED
      BY <2>4, <3>6, <3>7 DEF PwSerialInv
  <2> QED
    BY <2>5, <2>6
<1>11. ASSUME NEW c \in Setters, InstallPassword(c) PROVE PwSerialInv'
  <2>1. /\ ppc[c] = "install" /\ ppc' = [ppc EXCEPT ![c] = AfterInstall(c)]
        /\ UNCHANGED <<codes, kind, use, misses>>
        /\ installs' = [installs EXCEPT ![use[c]] = installs[use[c]] + 1]
    BY <1>11 DEF InstallPassword, PwGoto
  <2>2. c \in PwCalls /\ c \notin Issues
    BY DEF PwCalls
  <2>3. use[c] \in Issues /\ Issued(use[c]) /\ c \in Setups \cup Redeems \cup Completes
    BY <2>1, <2>2 DEF PwInv, PwRoles, PwTyped, Presenters
  <2>4. Others(c) /\ ppc'[c] = AfterInstall(c) /\ PwAlone'
    BY <1>a, <2>1, <2>2 DEF Resting
  <2>5. AfterInstall(c) = IF c \in Completes THEN "done" ELSE "use"
    BY DEF AfterInstall
  <2>6. \A j \in Issues : /\ Unused(j)' = Unused(j) /\ Awaiting(j)' = Awaiting(j)
                          /\ Completed(j)' = Completed(j)
    BY <2>1 DEF Unused, Issued, Awaiting, Completed
  <2>7. CodesSettled' /\ NewestCodeOnly'
    BY <1>b, <2>1, <2>2, <2>4, <2>5, <2>6
  <2>8. CodesSpent'
    <3> SUFFICES ASSUME ~world.faulty PROVE CodesSpent'
      BY DEF CodesSpent
    <3>1. installs[use[c]] = 0 /\ (c \in Completes => Completed(use[c]))
      BY <2>1, <2>2 DEF PwSerialInv, CodesSpent
    <3>2. /\ installs'[use[c]] = 1
          /\ \A j \in Issues : j # use[c] => installs'[j] = installs[j]
      BY <2>1, <2>3, <3>1 DEF PwInv, PwTyped
    <3>3. \A d \in PwCalls : ppc[d] # "use" /\ ppc'[d] # "install"
      BY <2>1, <2>4, <2>5 DEF Others, Resting
    <3>4. Setups \cup Redeems \subseteq PwCalls
      BY DEF PwCalls, Setters
    <3>5. \A j \in Issues : j = use[c] =>
            Completed(j)' \/ (c \in Setups \cup Redeems /\ ppc'[c] = "use" /\ use'[c] = j)
      BY <2>1, <2>3, <2>4, <2>5, <2>6, <3>1
    <3>6. ASSUME NEW j \in Issues, installs'[j] # 0
          PROVE /\ installs'[j] = 1
                /\ \/ codes'[j].used \/ Completed(j)'
                   \/ \E d \in Setups \cup Redeems : ppc'[d] = "use" /\ use'[d] = j
      <4>1. CASE j = use[c]
        BY <3>2, <3>5, <4>1
      <4>2. CASE j # use[c]
        BY <2>1, <2>6, <3>2, <3>3, <3>4, <3>6, <4>2 DEF PwSerialInv, CodesSpent
      <4> QED
        BY <4>1, <4>2
    <3> QED
      BY <3>3, <3>6 DEF CodesSpent
  <2> QED
    BY <2>4, <2>7, <2>8 DEF PwSerialInv
<1>12. ASSUME NEW c \in Setters, UseCode(c) PROVE PwSerialInv'
  <2>1. PICK to \in {"details", "done"} : ppc[c] = "use" /\ ppc' = [ppc EXCEPT ![c] = to]
    BY <1>12 DEF UseCode, PwGoto
  <2>2. /\ UNCHANGED <<kind, use, installs, misses>>
        /\ \/ codes' = [codes EXCEPT ![use[c]].used = TRUE]
           \/ world.faulty /\ codes' = codes
    BY <1>12 DEF UseCode
  <2>3. c \in PwCalls /\ c \notin Issues
    BY DEF PwCalls
  <2>4. use[c] \in Issues /\ codes[use[c]] \in CodeRows
    BY <2>1, <2>3 DEF PwInv, PwRoles, PwTyped, PasswordTypeOK, Issued
  <2>5. Others(c) /\ ppc'[c] = to /\ PwAlone'
    BY <1>a, <2>1, <2>3 DEF Resting
  <2>6. /\ \A j \in Issues : j # use[c] => codes'[j] = codes[j]
        /\ codes'[use[c]] = codes[use[c]] \/ codes'[use[c]].used
        /\ ~world.faulty => codes'[use[c]].used
    <3>1. CASE codes' = [codes EXCEPT ![use[c]].used = TRUE]
      BY <2>4, <3>1 DEF CodeRows, PwInv, PwTyped, PasswordTypeOK
    <3>2. CASE world.faulty /\ codes' = codes
      BY <3>2
    <3> QED
      BY <2>2, <3>1, <3>2
  <2>7. \A j \in Issues :
          /\ Unused(j)' => Unused(j)
          /\ Awaiting(j)' => Awaiting(j) /\ codes'[j].attempts = codes[j].attempts
          /\ codes[j].used \/ Completed(j) => codes'[j].used \/ Completed(j)'
    BY <2>2, <2>6 DEF Unused, Issued, Awaiting, Completed
  <2>8. CodesSettled' /\ NewestCodeOnly'
    BY <1>b, <2>2, <2>3, <2>5, <2>7
  <2>9. CodesSpent'
    <3> SUFFICES ASSUME ~world.faulty PROVE CodesSpent'
      BY DEF CodesSpent
    <3>1. \A d \in PwCalls : ppc'[d] # "install" /\ (ppc[d] = "use" => d = c)
      BY <2>5 DEF Others, Resting
    <3>2. Setups \cup Redeems \subseteq PwCalls
      BY DEF PwCalls, Setters
    <3>3. \A j \in Issues : installs[j] # 0 =>
            /\ installs[j] = 1
            /\ codes[j].used \/ Completed(j) \/ j = use[c]
      BY <3>1, <3>2 DEF PwSerialInv, CodesSpent
    <3> QED
      BY <2>2, <2>6, <2>7, <3>1, <3>3 DEF CodesSpent
  <2> QED
    BY <2>5, <2>8, <2>9 DEF PwSerialInv
<1>13. ASSUME NEW c \in Changes \cup Rewrites,
              \/ c \in Changes /\ (CheckCurrent(c) \/ UpdateInTransaction(c) \/ CommitPassword(c))
              \/ c \in Rewrites /\ Rewrite(c)
       PROVE PwSerialInv'
  <2>1. PICK to \in {"write", "commit", "done"} :
          ppc[c] # "use" /\ ppc' = [ppc EXCEPT ![c] = to]
    BY <1>13 DEF CheckCurrent, UpdateInTransaction, CommitPassword, Rewrite, PwGoto
  <2>2. /\ PwMayBegin \/ ppc[c] \notin Resting
        /\ UNCHANGED <<codes, kind, use, installs, misses>>
    BY <1>13 DEF CheckCurrent, UpdateInTransaction, CommitPassword, Rewrite, PwGoto, Resting
  <2> QED
    BY <1>d, <2>1, <2>2 DEF PwCalls, Setters
<1>14. ASSUME NEW c \in Changes, RefreshAfterChange(c) PROVE PwSerialInv'
  <2>1. UNCHANGED <<codes, kind, ppc, use, installs, misses>>
    BY <1>14 DEF RefreshAfterChange
  <2>2. PwAlone' /\ CodesSettled'
    BY <2>1 DEF PwSerialInv, PwAlone, CodesSettled, Awaiting, Unused, Issued
  <2>3. CodesSpent' /\ NewestCodeOnly'
    BY <2>1 DEF PwSerialInv, CodesSpent, Completed, NewestCodeOnly, Unused, Issued
  <2> QED
    BY <2>2, <2>3 DEF PwSerialInv
<1>15. ASSUME NEW l \in Logins, TryIndex(l) PROVE PwSerialInv'
  <2>1. PICK p \in PasswordValues \ {NoPassword} :
          PwGoto(l, "idle", CASE index = Uncached -> "database"
                              [] index # Uncached /\ index # p -> "refused"
                              [] OTHER -> IF details THEN "in" ELSE "database")
    BY <1>15 DEF TryIndex
  <2>2. PICK to \in {"database", "refused", "in"} :
          ppc[l] = "idle" /\ ppc' = [ppc EXCEPT ![l] = to]
    BY <2>1 DEF PwGoto
  <2> QED
    BY <1>15, <1>d, <2>2 DEF TryIndex, PwCalls
<1>16. ASSUME NEW l \in Logins, TryDatabase(l) PROVE PwSerialInv'
  <2>1. PICK to \in {"refused", "details", "in"} :
          ppc[l] = "database" /\ ppc' = [ppc EXCEPT ![l] = to]
    BY <1>16 DEF TryDatabase, PwGoto
  <2> QED
    BY <1>16, <1>d, <2>1 DEF TryDatabase, PwCalls, Resting
<1>17. ASSUME NEW c \in Setups \cup Logins, CacheDetails(c) \/ ReadForIndex(c) \/ StoreIndex(c)
       PROVE PwSerialInv'
  <2>1. PICK to \in {"read", "store", "in", "done"} :
          ppc[c] \in {"details", "read", "store"} /\ ppc' = [ppc EXCEPT ![c] = to]
    BY <1>17 DEF CacheDetails, ReadForIndex, StoreIndex, PwGoto
  <2>2. UNCHANGED <<codes, kind, use, installs, misses>>
    BY <1>17 DEF CacheDetails, ReadForIndex, StoreIndex
  <2> QED
    BY <1>d, <2>1, <2>2 DEF PwCalls, Setters, Resting
<1>18. ASSUME EntryExpires PROVE PwSerialInv'
  <2>1. UNCHANGED <<codes, kind, ppc, use, installs, misses>>
    BY <1>18 DEF EntryExpires
  <2>2. PwAlone' /\ CodesSettled'
    BY <2>1 DEF PwSerialInv, PwAlone, CodesSettled, Awaiting, Unused, Issued
  <2>3. CodesSpent' /\ NewestCodeOnly'
    BY <2>1 DEF PwSerialInv, CodesSpent, Completed, NewestCodeOnly, Unused, Issued
  <2> QED
    BY <2>2, <2>3 DEF PwSerialInv
<1>19. ASSUME NEW c \in Changes,
              \/ CheckCurrent(c) \/ UpdateInTransaction(c)
              \/ CommitPassword(c) \/ RefreshAfterChange(c)
       PROVE PwSerialInv'
  BY <1>13, <1>14, <1>19
<1>20. ASSUME NEW v \in Verifies \cup Completes,
              FindToken(v) \/ CountAttempt(v) \/ DiscardToken(v) \/ VerifyToken(v)
       PROVE PwSerialInv'
  BY <1>5, <1>7, <1>8, <1>9, <1>20
<1>21. ASSUME NEW c \in Rewrites, Rewrite(c) PROVE PwSerialInv'
  BY <1>13, <1>21
<1> QED
  BY <1>1, <1>2, <1>3, <1>4, <1>6, <1>10, <1>11, <1>12, <1>15, <1>16, <1>17, <1>18, <1>19, <1>20,
     <1>21 DEF PasswordNext

\* Where only setPassword sets a password, the cached one follows.
LEMMA IndexNext ==
  PwInv /\ PwSerialInv /\ IndexFollows /\ PasswordNext /\ UNCHANGED world => IndexFollows'
<1> SUFFICES ASSUME PwInv, PwSerialInv, IndexFollows, PasswordNext, UNCHANGED world, SetupsOnly
             PROVE IndexFollows'
  BY DEF IndexFollows, SetupsOnly
<1> USE PwNamesAssumption
<1> DEFINE Others(c) == \A d \in PwCalls \ {c} : ppc'[d] = ppc[d] /\ ppc[d] \in Resting
<1>1. world.serial /\ ~world.faulty /\ world.cached \in BOOLEAN
  BY AttemptsAssumption DEF SetupsOnly, PwInv, PwTyped
<1>2. \A c \in Completes \cup Redeems \cup Changes \cup Rewrites : c \in PwCalls /\ ppc[c] = "done"
  BY DEF SetupsOnly, PwInv, PwRoles, PwCalls, Setters
<1>3. ASSUME NEW c \in PwCalls, NEW to, PwMayBegin \/ ppc[c] \notin Resting,
             ppc' = [ppc EXCEPT ![c] = to]
      PROVE Others(c) /\ ppc'[c] = to
  BY <1>1, <1>3 DEF PwSerialInv, PwMayBegin, PwAlone, Resting, PwInv, PwTyped, PasswordTypeOK
<1>4. /\ ~world.cached => index = Uncached /\ \A c \in PwCalls : ppc[c] \notin {"details", "read", "store"}
      /\ index \notin {Uncached, password} =>
           \E c \in Setups : ppc[c] \in {"use", "details", "read", "store"}
      /\ \A c \in PwCalls : ppc[c] = "store" => held[c] = password
      /\ \A c \in Changes : job[c] = "none"
  BY DEF IndexFollows
<1>5. Setups \subseteq PwCalls
  BY DEF PwCalls, Setters
\* A step that neither sets nor caches a password.
<1>6. ASSUME NEW c \in PwCalls, Others(c), UNCHANGED <<password, index, job>>,
             ppc[c] \notin {"use", "details", "read", "store"},
             ppc'[c] \notin {"details", "read", "store"},
             \A d \in PwCalls \ {c} : held'[d] = held[d]
      PROVE IndexFollows'
  BY <1>4, <1>5, <1>6 DEF IndexFollows
<1>7. ASSUME NEW c \in PwCalls, NEW to, PwMayBegin \/ ppc[c] \notin Resting,
             ppc' = [ppc EXCEPT ![c] = to], UNCHANGED <<password, index, job>>,
             held' = held \/ \E p : held' = [held EXCEPT ![c] = p],
             ppc[c] \notin {"use", "details", "read", "store"},
             to \notin {"details", "read", "store"}
      PROVE IndexFollows'
  <2>1. Others(c) /\ ppc'[c] = to
    BY <1>3, <1>7
  <2>2. \A d \in PwCalls \ {c} : held'[d] = held[d]
    BY <1>7 DEF PwInv, PwTyped, PasswordTypeOK
  <2> HIDE DEF Others
  <2> QED
    BY <1>6, <1>7, <2>1, <2>2
<1> HIDE DEF Others
<1>8. ASSUME NEW i \in Issues, CheckIssue(i) \/ ReplaceCodes(i) \/ InsertToken(i) PROVE IndexFollows'
  <2>1. PICK to \in {"replace", "insert", "done"} :
          ppc[i] \in {"idle", "replace", "insert"} /\ ppc' = [ppc EXCEPT ![i] = to]
    BY <1>8 DEF CheckIssue, ReplaceCodes, InsertToken, PwGoto
  <2>2. /\ UNCHANGED <<password, index, held, job>>
        /\ PwMayBegin \/ ppc[i] \notin Resting
    BY <1>8 DEF CheckIssue, ReplaceCodes, InsertToken, PwGoto, Resting
  <2> QED
    BY <1>7, <2>1, <2>2 DEF PwCalls
<1>9. ASSUME NEW i \in Issues, CodeExpires(i) PROVE IndexFollows'
  BY <1>4, <1>9 DEF CodeExpires, IndexFollows
<1>10. ASSUME NEW v \in Verifies \cup Completes,
              FindToken(v) \/ CountAttempt(v) \/ DiscardToken(v) \/ VerifyToken(v)
       PROVE IndexFollows'
  <2>1. PICK to \in {"discard", "verify", "count", "install", "done"} :
          ppc[v] \in {"idle", "count", "discard", "verify"} /\ ppc' = [ppc EXCEPT ![v] = to]
    BY <1>10 DEF FindToken, CountAttempt, DiscardToken, VerifyToken, PwGoto
  <2>2. /\ UNCHANGED <<password, index, held, job>>
        /\ PwMayBegin \/ ppc[v] \notin Resting
    BY <1>10 DEF FindToken, CountAttempt, DiscardToken, VerifyToken, PwGoto, Resting
  <2> QED
    BY <1>7, <2>1, <2>2 DEF PwCalls, Presenters
<1>11. ASSUME NEW v \in Verifies, FindResetToken(v) PROVE IndexFollows'
  BY <1>7, <1>11 DEF FindResetToken, PwGoto, PwCalls, Presenters
<1>12. ASSUME NEW c \in Setups \cup Redeems, CheckCode(c) PROVE IndexFollows'
  <2>1. PICK to \in {"install", "done"} : ppc[c] = "idle" /\ ppc' = [ppc EXCEPT ![c] = to]
    BY <1>12 DEF CheckCode, PwGoto
  <2>2. PwMayBegin /\ UNCHANGED <<password, index, held, job>>
    BY <1>12 DEF CheckCode
  <2> QED
    BY <1>7, <2>1, <2>2 DEF PwCalls, Setters
<1>13. ASSUME NEW c \in Setters, InstallPassword(c) PROVE IndexFollows'
  <2>1. /\ ppc[c] = "install" /\ c \in Setups /\ c \in PwCalls /\ c \notin Completes
    BY <1>2, <1>13 DEF InstallPassword, PwGoto, PwCalls, Setters
  <2>2. ppc' = [ppc EXCEPT ![c] = "use"] /\ UNCHANGED <<index, held, job>>
    BY <1>13, <2>1 DEF InstallPassword, PwGoto, AfterInstall
  <2>3. Others(c) /\ ppc'[c] = "use"
    BY <1>3, <2>1, <2>2 DEF Resting
  <2>4. \A d \in PwCalls : ppc'[d] \notin {"details", "read", "store"}
    BY <2>3 DEF Others, Resting
  <2> QED
    BY <1>4, <2>1, <2>2, <2>3, <2>4 DEF IndexFollows
<1>14. ASSUME NEW c \in Setters, UseCode(c) PROVE IndexFollows'
  <2>1. /\ ppc[c] = "use" /\ c \in Setups /\ c \in PwCalls
    BY <1>2, <1>14 DEF UseCode, PwGoto, PwCalls, Setters
  <2>2. /\ ppc' = [ppc EXCEPT ![c] = IF world.cached THEN "details" ELSE "done"]
        /\ UNCHANGED <<password, index, held, job>>
    BY <1>1, <1>14, <2>1 DEF UseCode, PwGoto, RefreshesIndex
  <2>3. Others(c) /\ ppc'[c] = IF world.cached THEN "details" ELSE "done"
    BY <1>3, <2>1, <2>2 DEF Resting
  <2>4. \A d \in PwCalls : ppc'[d] # "store" /\ (d # c => ppc'[d] \notin {"details", "read", "store"})
    BY <2>3 DEF Others, Resting
  <2> QED
    BY <1>1, <1>4, <2>1, <2>2, <2>3, <2>4 DEF IndexFollows
<1>15. ASSUME NEW c \in Changes,
              \/ CheckCurrent(c) \/ UpdateInTransaction(c)
              \/ CommitPassword(c) \/ RefreshAfterChange(c)
       PROVE IndexFollows'
  BY <1>2, <1>4, <1>15 DEF CheckCurrent, UpdateInTransaction, CommitPassword, RefreshAfterChange,
                           PwGoto, JobGoto
<1>16. ASSUME NEW c \in Rewrites, Rewrite(c) PROVE IndexFollows'
  BY <1>2, <1>16 DEF Rewrite, PwGoto
<1>17. ASSUME NEW l \in Logins, TryIndex(l) PROVE IndexFollows'
  <2>1. PICK p \in PasswordValues \ {NoPassword} :
          /\ held' = [held EXCEPT ![l] = p]
          /\ PwGoto(l, "idle", CASE index = Uncached -> "database"
                                 [] index # Uncached /\ index # p -> "refused"
                                 [] OTHER -> IF details THEN "in" ELSE "database")
    BY <1>17 DEF TryIndex
  <2>2. PICK to \in {"database", "refused", "in"} :
          ppc[l] = "idle" /\ ppc' = [ppc EXCEPT ![l] = to]
    BY <2>1 DEF PwGoto
  <2>3. PwMayBegin /\ UNCHANGED <<password, index, job>>
    BY <1>17 DEF TryIndex
  <2> QED
    BY <1>7, <2>1, <2>2, <2>3 DEF PwCalls
<1>18. ASSUME NEW l \in Logins, TryDatabase(l) PROVE IndexFollows'
  <2>1. PICK to \in {"refused", "details", "in"} :
          /\ ppc[l] = "database" /\ ppc' = [ppc EXCEPT ![l] = to]
          /\ to = "details" => world.cached
    BY <1>18 DEF TryDatabase, PwGoto
  <2>2. UNCHANGED <<password, index, held, job>>
    BY <1>18 DEF TryDatabase
  <2>3. CASE to # "details"
    BY <1>7, <2>1, <2>2, <2>3 DEF PwCalls, Resting
  <2>4. CASE to = "details"
    <3>1. Others(l) /\ ppc'[l] = to
      BY <1>3, <2>1 DEF PwCalls, Resting
    <3>2. \A c \in PwCalls : ppc'[c] # "store" /\ ppc[c] \notin {"use", "details", "read", "store"}
      BY <2>1, <2>4, <3>1 DEF Others, Resting
    <3> QED
      BY <1>4, <1>5, <2>1, <2>2, <2>4, <3>2 DEF IndexFollows
  <2> QED
    BY <2>3, <2>4
<1>19. ASSUME NEW c \in Setups \cup Logins, CacheDetails(c) \/ ReadForIndex(c) PROVE IndexFollows'
  <2>1. PICK to \in {"read", "store"} :
          /\ ppc[c] \in {"details", "read"} /\ ppc' = [ppc EXCEPT ![c] = to]
          /\ held' = IF to = "store" THEN [held EXCEPT ![c] = password] ELSE held
    BY <1>19 DEF CacheDetails, ReadForIndex, PwGoto
  <2>2. UNCHANGED <<password, index, job>>
    BY <1>19 DEF CacheDetails, ReadForIndex
  <2>3. c \in PwCalls
    BY DEF PwCalls, Setters
  <2>4. Others(c) /\ ppc'[c] = to
    BY <1>3, <2>1, <2>3 DEF Resting
  <2>5. \A d \in PwCalls : d # c => ppc[d] \in Resting /\ ppc'[d] \in Resting
    BY <2>4 DEF Others
  <2>6. world.cached
    BY <1>1, <1>4, <2>1, <2>3
  <2>7. \A d \in PwCalls : ppc'[d] = "store" => held'[d] = password
    BY <2>1, <2>3, <2>4, <2>5 DEF Resting, PwInv, PwTyped, PasswordTypeOK
  <2>8. index \notin {Uncached, password} =>
          \E d \in Setups : ppc'[d] \in {"use", "details", "read", "store"}
    BY <1>4, <1>5, <2>1, <2>4, <2>5 DEF Resting
  <2> QED
    BY <1>4, <2>2, <2>6, <2>7, <2>8 DEF IndexFollows
<1>20. ASSUME NEW c \in Setups \cup Logins, StoreIndex(c) PROVE IndexFollows'
  <2>1. PICK to \in {"in", "done"} : ppc[c] = "store" /\ ppc' = [ppc EXCEPT ![c] = to]
    BY <1>20 DEF StoreIndex, PwGoto
  <2>2. UNCHANGED <<password, held, job>> /\ index' = held[c]
    BY <1>20 DEF StoreIndex
  <2>3. c \in PwCalls
    BY DEF PwCalls, Setters
  <2>4. Others(c) /\ ppc'[c] = to
    BY <1>3, <2>1, <2>3 DEF Resting
  <2>5. world.cached /\ held[c] = password
    BY <1>1, <1>4, <2>1, <2>3
  <2>6. \A d \in PwCalls : ppc'[d] # "store"
    BY <2>4 DEF Others, Resting
  <2> QED
    BY <1>4, <2>2, <2>5, <2>6 DEF IndexFollows
<1>21. ASSUME EntryExpires PROVE IndexFollows'
  <2>1. UNCHANGED <<password, ppc, held, job>> /\ index' \in {index, Uncached}
    BY <1>21 DEF EntryExpires
  <2> QED
    BY <1>4, <2>1 DEF IndexFollows
<1> QED
  BY <1>8, <1>9, <1>10, <1>11, <1>12, <1>13, <1>14, <1>15, <1>16, <1>17, <1>18, <1>19, <1>20,
     <1>21 DEF PasswordNext

\* What an UPDATE of other columns leaves of a code.
LEMMA VerifiedKept ==
  ASSUME PwInv, NEW i \in Issues,
         \/ codes' = [codes EXCEPT ![i].used = TRUE]
         \/ codes' = [codes EXCEPT ![i].expired = TRUE]
  PROVE  \A j \in Issues : Issued(j) => codes'[j].verified = codes[j].verified
<1> SUFFICES ASSUME NEW j \in Issues, Issued(j) PROVE codes'[j].verified = codes[j].verified
  OBVIOUS
<1> DEFINE old == codes[j]
           new == codes'[j]
<1>1. old \in CodeRows
  BY DEF PwInv, PwTyped, PasswordTypeOK, Issued
<1>2. new = old \/ new = [old EXCEPT !.used = TRUE] \/ new = [old EXCEPT !.expired = TRUE]
  BY DEF PwInv, PwTyped, PasswordTypeOK
<1> HIDE DEF old, new
<1>3. new.verified = old.verified
  BY <1>1, <1>2 DEF CodeRows
<1> QED
  BY <1>3 DEF old, new

\* A first-login code is marked as verified while guesses are left, and no step
\* takes the mark away.
LEMMA GuessStep ==
  PwInv /\ PwSerialInv /\ [PasswordNext]_passwordVars
    => \A i \in Issues : world.serial /\ misses[i] >= MaxAttempts /\ Issued(i)
                           => codes'[i].verified = codes[i].verified
<1> SUFFICES ASSUME PwInv, PwSerialInv, [PasswordNext]_passwordVars, NEW i \in Issues,
                    world.serial, misses[i] >= MaxAttempts, Issued(i)
             PROVE codes'[i].verified = codes[i].verified
  OBVIOUS
<1> USE AttemptsAssumption, PwNamesAssumption
<1>0. CASE UNCHANGED codes
  BY <1>0
<1>1. ASSUME NEW j \in Issues, ReplaceCodes(j) PROVE codes'[i].verified = codes[i].verified
  <2> DEFINE old == codes[i]
             new == codes'[i]
  <2>1. old \in CodeRows
    BY DEF PwInv, PwTyped, PasswordTypeOK, Issued
  <2>2. new = old \/ new = [old EXCEPT !.used = TRUE]
    BY <1>1 DEF ReplaceCodes
  <2> HIDE DEF old, new
  <2>3. new.verified = old.verified
    BY <2>1, <2>2 DEF CodeRows
  <2> QED
    BY <2>3 DEF old, new
<1>2. ASSUME NEW j \in Issues, InsertToken(j) PROVE codes'[i].verified = codes[i].verified
  <2>1. ~Issued(j) /\ codes' = [codes EXCEPT ![j] = FreshCode]
    BY <1>2 DEF InsertToken, PwGoto, PwInv, PwRoles, Issued
  <2> QED
    BY <2>1 DEF PwInv, PwTyped, PasswordTypeOK
<1>3. ASSUME NEW j \in Issues, CodeExpires(j) PROVE codes'[i].verified = codes[i].verified
  BY <1>3, VerifiedKept DEF CodeExpires
<1>4. ASSUME NEW v \in Verifies \cup Completes, CountAttempt(v)
      PROVE codes'[i].verified = codes[i].verified
  BY <1>4, CountedCode DEF CountAttempt, PwInv
<1>5. ASSUME NEW v \in Verifies \cup Completes, DiscardToken(v)
      PROVE codes'[i].verified = codes[i].verified
  <2>1. use[v] \in Issues /\ codes' = [codes EXCEPT ![use[v]].used = TRUE]
    BY <1>5 DEF DiscardToken, PwInv, PwTyped, Presenters
  <2> QED
    BY <2>1, VerifiedKept
<1>6. ASSUME NEW v \in Verifies \cup Completes, VerifyToken(v)
      PROVE codes'[i].verified = codes[i].verified
  <2>1. /\ ppc[v] = "verify" /\ v \in PwCalls
        /\ \E token \in BOOLEAN :
             codes' = [codes EXCEPT ![use[v]].verified = TRUE, ![use[v]].token = token]
    BY <1>6 DEF VerifyToken, PwGoto, PwCalls, Presenters
  <2>2. use[v] \in Issues
    BY DEF PwInv, PwTyped, Presenters
  <2>3. Awaiting(use[v]) /\ codes[use[v]].attempts < MaxAttempts
    BY <2>1 DEF PwSerialInv, CodesSettled
  <2>4. misses[use[v]] <= codes[use[v]].attempts
    BY <2>2, <2>3 DEF PwSerialInv, CodesSettled
  <2>5. /\ codes[use[v]].attempts \in Nat /\ misses[use[v]] \in Nat
    BY <2>2, <2>3 DEF Awaiting, Unused, Issued, PwInv, PwTyped, PasswordTypeOK, CodeRows
  <2>6. i # use[v]
    BY <2>3, <2>4, <2>5
  <2> QED
    BY <2>1, <2>6 DEF PwInv, PwTyped, PasswordTypeOK
<1>7. ASSUME NEW c \in Setters, UseCode(c) PROVE codes'[i].verified = codes[i].verified
  <2>1. c \in PwCalls /\ ppc[c] = "use"
    BY <1>7 DEF UseCode, PwGoto, PwCalls
  <2>2. use[c] \in Issues
    BY <2>1 DEF PwInv, PwRoles, PwTyped
  <2>3. codes' = [codes EXCEPT ![use[c]].used = TRUE] \/ codes' = codes
    BY <1>7 DEF UseCode
  <2> QED
    BY <1>0, <2>2, <2>3, VerifiedKept
<1> QED
  BY <1>0, <1>1, <1>2, <1>3, <1>4, <1>5, <1>6, <1>7
     DEF PasswordNext, CheckIssue, FindToken, FindResetToken, CheckCode, InstallPassword,
         CheckCurrent, UpdateInTransaction, CommitPassword, RefreshAfterChange, Rewrite, TryIndex,
         TryDatabase, CacheDetails, ReadForIndex, StoreIndex, EntryExpires, passwordVars

\* A login is judged by the cached password, which is the current one, or by the
\* database.
LEMMA LoginStep ==
  PwInv /\ PwSerialInv /\ IndexFollows /\ [PasswordNext]_passwordVars
    => \A l \in Logins :
         /\ world.serial /\ ~world.faulty /\ Rejects(l)
         /\ world.calls \cap (Completes \cup Redeems \cup Changes \cup Rewrites) = {}
         => held'[l] # password
<1> SUFFICES ASSUME PwInv, PwSerialInv, IndexFollows, [PasswordNext]_passwordVars, NEW l \in Logins,
                    SetupsOnly, Rejects(l)
             PROVE held'[l] # password
  BY DEF SetupsOnly
<1> USE PwNamesAssumption
<1>1. l \in PwCalls /\ ppc[l] # "refused" /\ ppc'[l] = "refused" /\ ppc \in [PwCalls -> {ppc[c] : c \in PwCalls}]
  BY DEF PwCalls, Rejects, PwInv, PwTyped, PasswordTypeOK
<1>2. ASSUME NEW c, NEW to, ppc' = [ppc EXCEPT ![c] = to], to # "refused" PROVE FALSE
  BY <1>1, <1>2
<1>3. ~UNCHANGED ppc
  BY <1>1
<1>4. ASSUME NEW m \in Logins, TryIndex(m) PROVE held'[l] # password
  <2>1. PICK p \in PasswordValues \ {NoPassword} :
          /\ held' = [held EXCEPT ![m] = p]
          /\ PwGoto(m, "idle", CASE index = Uncached -> "database"
                                 [] index # Uncached /\ index # p -> "refused"
                                 [] OTHER -> IF details THEN "in" ELSE "database")
    BY <1>4 DEF TryIndex
  <2>2. m = l
    BY <1>1, <2>1 DEF PwGoto
  <2>3. index # Uncached /\ index # p
    BY <1>1, <2>1, <2>2 DEF PwGoto
  <2>4. PwMayBegin
    BY <1>4 DEF TryIndex
  <2>5. index = password
    BY <2>3, <2>4 DEF IndexFollows, SetupsOnly, PwMayBegin, PwCalls, Setters
  <2> QED
    BY <1>1, <2>1, <2>2, <2>3, <2>5 DEF PwInv, PwTyped, PasswordTypeOK
<1>5. ASSUME NEW m \in Logins, TryDatabase(m) PROVE held'[l] # password
  <2>1. m = l
    BY <1>1, <1>5 DEF TryDatabase, PwGoto
  <2> QED
    BY <1>1, <1>5, <2>1 DEF TryDatabase, PwGoto
<1>6. ASSUME NEW i \in Issues, CheckIssue(i) \/ ReplaceCodes(i) \/ InsertToken(i) \/ CodeExpires(i)
      PROVE FALSE
  BY <1>2, <1>3, <1>6 DEF CheckIssue, ReplaceCodes, InsertToken, CodeExpires, PwGoto
<1>7. ASSUME NEW v \in Verifies \cup Completes,
             FindToken(v) \/ CountAttempt(v) \/ DiscardToken(v) \/ VerifyToken(v)
      PROVE FALSE
  BY <1>2, <1>7 DEF FindToken, CountAttempt, DiscardToken, VerifyToken, PwGoto
<1>8. ASSUME NEW v \in Verifies, FindResetToken(v) PROVE FALSE
  BY <1>2, <1>8 DEF FindResetToken, PwGoto
<1>9. ASSUME NEW c \in Setups \cup Redeems, CheckCode(c) PROVE FALSE
  BY <1>2, <1>9 DEF CheckCode, PwGoto
<1>10. ASSUME NEW c \in Setters, InstallPassword(c) \/ UseCode(c) PROVE FALSE
  BY <1>2, <1>10 DEF InstallPassword, AfterInstall, UseCode, PwGoto
<1>11. ASSUME NEW c \in Changes,
              \/ CheckCurrent(c) \/ UpdateInTransaction(c)
              \/ CommitPassword(c) \/ RefreshAfterChange(c)
       PROVE FALSE
  BY <1>2, <1>3, <1>11 DEF CheckCurrent, UpdateInTransaction, CommitPassword, RefreshAfterChange,
                           PwGoto
<1>12. ASSUME NEW c \in Rewrites, Rewrite(c) PROVE FALSE
  BY <1>2, <1>12 DEF Rewrite, PwGoto
<1>13. ASSUME NEW c \in Setups \cup Logins, CacheDetails(c) \/ ReadForIndex(c) \/ StoreIndex(c)
       PROVE FALSE
  BY <1>2, <1>13 DEF CacheDetails, ReadForIndex, StoreIndex, PwGoto
<1>14. ~EntryExpires
  BY <1>3 DEF EntryExpires
<1> QED
  BY <1>3, <1>4, <1>5, <1>6, <1>7, <1>8, <1>9, <1>10, <1>11, <1>12, <1>13, <1>14
     DEF PasswordNext, passwordVars

-----------------------------------------------------------------------------
(* The three together.                                                     *)

\* The inductive invariant.
AccountsInv == /\ OtpInv /\ OtpSerialInv
               /\ PwInv /\ PwSerialInv /\ IndexFollows
               /\ SessionInv /\ SessionSerialInv

\* It holds in every state.
LEMMA AccountsInductive == AccountsSpec => []AccountsInv
<1>1. AccountsInit => AccountsInv
  BY OtpInitInv, PwInitInv, SessionInitInv DEF AccountsInit, AccountsInv
<1>2. AccountsInv /\ [AccountsNext]_accountVars => AccountsInv'
  <2> SUFFICES ASSUME AccountsInv, [AccountsNext]_accountVars PROVE AccountsInv'
    OBVIOUS
  <2> USE DEF AccountsInv
  <2>1. UNCHANGED world
    BY DEF AccountsNext, accountVars
  <2>2. OtpInv' /\ OtpSerialInv'
    <3>1. CASE OtpNext
      BY <2>1, <3>1, OtpNextInv, OtpNextSerial
    <3>2. CASE UNCHANGED otpVars
      BY <2>1, <3>2, OtpStutter
    <3> QED
      BY <3>1, <3>2 DEF AccountsNext, accountVars
  <2>3. PwInv' /\ PwSerialInv' /\ IndexFollows'
    <3>1. CASE PasswordNext
      BY <2>1, <3>1, PwNextInv, PwNextSerial, IndexNext
    <3>2. CASE UNCHANGED passwordVars
      BY <2>1, <3>2, PwStutter
    <3> QED
      BY <3>1, <3>2 DEF AccountsNext, accountVars
  <2>4. SessionInv' /\ SessionSerialInv'
    <3>1. CASE SessionNext
      BY <2>1, <3>1, SessionNextInv
    <3>2. CASE UNCHANGED sessionVars
      BY <2>1, <3>2, SessionStutter
    <3> QED
      BY <3>1, <3>2 DEF AccountsNext, accountVars
  <2> QED
    BY <2>2, <2>3, <2>4
<1> QED
  BY <1>1, <1>2, PTL DEF AccountsSpec

\* Every variable of the three services keeps its type.
THEOREM AccountsTyped == AccountsSpec => []AccountsTypeOK
<1>1. AccountsInv => AccountsTypeOK
  BY DEF AccountsInv, OtpInv, PwInv, PwTyped, SessionInv, AccountsTypeOK
<1> QED
  BY <1>1, AccountsInductive, PTL

\* requestEmailOtp and requestPhoneOtp keep to the daily limit and leave one code
\* of a contact alive, and a verification accepts a code once.
THEOREM ContactCodesSound == AccountsSpec => []OtpSound
<1>1. AccountsInv => OtpSound
  BY OtpMeaning DEF AccountsInv
<1> QED
  BY <1>1, AccountsInductive, PTL

\* A code sets one password, the newest of its type is the only one that works,
\* and a first-login code is not accepted after MaxAttempts wrong guesses.
THEOREM PasswordCodesHold == AccountsSpec => CodesHold
<1>1. AccountsInv => CodeSetsOne
  <2> SUFFICES ASSUME AccountsInv, world.serial, ~world.faulty, NEW i \in Issues
               PROVE installs[i] <= 1
    BY DEF CodeSetsOne
  <2>1. installs[i] = 0 \/ installs[i] = 1
    BY DEF AccountsInv, PwSerialInv, CodesSpent
  <2> QED
    BY <2>1
<1>2. AccountsInv => NewestCodeOnly
  BY DEF AccountsInv, PwSerialInv
<1>3. AccountsInv /\ [AccountsNext]_accountVars =>
        [\A i \in Issues : world.serial /\ misses[i] >= MaxAttempts /\ Issued(i)
           => codes'[i].verified = codes[i].verified]_<<codes, misses>>
  <2> SUFFICES ASSUME AccountsInv, [AccountsNext]_accountVars
               PROVE \A i \in Issues : world.serial /\ misses[i] >= MaxAttempts /\ Issued(i)
                       => codes'[i].verified = codes[i].verified
    OBVIOUS
  <2>1. [PasswordNext]_passwordVars
    BY DEF AccountsNext, accountVars
  <2> QED
    BY <2>1, GuessStep DEF AccountsInv
<1> QED
  BY <1>1, <1>2, <1>3, AccountsInductive, PTL DEF CodesHold, GuessesLimited, AccountsSpec

\* Whoever presents the password that setPassword wrote gets in, where no other
\* way to set one is taken and no statement fails.
THEOREM LoginsFollowSetup == AccountsSpec => LoginAfterSetup
<1>1. AccountsInv /\ [AccountsNext]_accountVars =>
        [\A l \in Logins :
           /\ world.serial /\ ~world.faulty /\ Rejects(l)
           /\ world.calls \cap (Completes \cup Redeems \cup Changes \cup Rewrites) = {}
           => held'[l] # password]_passwordVars
  <2> SUFFICES ASSUME AccountsInv, [AccountsNext]_accountVars
               PROVE \A l \in Logins :
                       /\ world.serial /\ ~world.faulty /\ Rejects(l)
                       /\ world.calls \cap (Completes \cup Redeems \cup Changes \cup Rewrites) = {}
                       => held'[l] # password
    OBVIOUS
  <2>1. [PasswordNext]_passwordVars
    BY DEF AccountsNext, accountVars
  <2> QED
    BY <2>1, LoginStep DEF AccountsInv
<1> QED
  BY <1>1, AccountsInductive, PTL DEF LoginAfterSetup, AccountsSpec

\* A refresh token that was exchanged, signed out or revoked is not exchanged
\* again.
THEOREM TokensStayDead == AccountsSpec => DeadStaysDead
<1>1. AccountsInv /\ [AccountsNext]_accountVars =>
        [\A r \in Refreshes :
           world.serial /\ world.paced /\ spc[r] = "idle" /\ shown'[r] \in dead
             => spc'[r] = "done"]_sessionVars
  <2> SUFFICES ASSUME AccountsInv, [AccountsNext]_accountVars
               PROVE \A r \in Refreshes :
                       world.serial /\ world.paced /\ spc[r] = "idle" /\ shown'[r] \in dead
                         => spc'[r] = "done"
    OBVIOUS
  <2>1. [SessionNext]_sessionVars
    BY DEF AccountsNext, accountVars
  <2> QED
    BY <2>1, SessionStepHolds DEF AccountsInv
<1> QED
  BY <1>1, AccountsInductive, PTL DEF DeadStaysDead, AccountsSpec

=============================================================================
