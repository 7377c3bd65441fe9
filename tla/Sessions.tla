------------------------------ MODULE Sessions ------------------------------
(***************************************************************************)
(* The refresh tokens of one user (src/auth/auth.service.ts).  A token is  *)
(* signed over the user and the second of its issue: two tokens of the     *)
(* same second are the same string.  A row of refresh_tokens is named by   *)
(* the login or the refresh that stored it.                                *)
(***************************************************************************)
EXTENDS Integers, Calls

CONSTANTS SignIns,    \* loginV2 calls
          Refreshes,  \* refreshAccessToken calls
          SignOuts,   \* revokeRefreshToken calls
          LastSecond, \* bound on the seconds that pass
          NoToken     \* no row, or no string

ASSUME SecondAssumption == LastSecond \in Nat

Issuers == SignIns \cup Refreshes
SessionCalls == Issuers \cup SignOuts
Seconds == 0..LastSecond

VARIABLES tokens,   \* the row of each issuer
          second,   \* the time
          active,   \* is the user active, in an active institute?
          spc,      \* where each call is
          shown,    \* the string a call presents, then the one it signs
          record,   \* the row each refresh found
          dead      \* strings exchanged, signed out or revoked; no call reads it

sessionVars == <<tokens, second, active, spc, shown, record, dead>>

TokenRows == [string : Seconds, revoked : BOOLEAN, expired : BOOLEAN]

ASSUME TokenNamesAssumption == /\ SignIns \cap Refreshes = {}
                               /\ Issuers \cap SignOuts = {}
                               /\ NoToken \notin Seconds \cup TokenRows

SessionInit == /\ tokens = [i \in Issuers |-> NoToken]
               /\ second = 0
               /\ active = TRUE
               /\ spc = [c \in SessionCalls |-> Coming(c)]
               /\ shown = [c \in SessionCalls |-> NoToken]
               /\ record = [r \in Refreshes |-> NoToken]
               /\ dead = {}

SessionGoto(c, from, to) == spc[c] = from /\ spc' = [spc EXCEPT ![c] = to]

SessionMayBegin ==
  world.serial => \A c \in SessionCalls : spc[c] \in {"idle", "done"}

Stored == {i \in Issuers : tokens[i] # NoToken}

-----------------------------------------------------------------------------
SignIn(l) ==
  /\ SessionMayBegin
  /\ SessionGoto(l, "idle", "sign")
  /\ UNCHANGED <<tokens, second, active, shown, record, dead>>

\* In a paced world no two tokens are signed in one second.
SignToken(i) ==
  /\ world.paced => \A j \in Stored : tokens[j].string # second
  /\ SessionGoto(i, "sign", "store")
  /\ shown' = [shown EXCEPT ![i] = second]
  /\ UNCHANGED <<tokens, second, active, record, dead>>

StoreToken(i) ==
  /\ SessionGoto(i, "store", "done")
  /\ tokens' = [tokens EXCEPT ![i] = [string |-> shown[i], revoked |-> FALSE,
                                      expired |-> FALSE]]
  /\ UNCHANGED <<second, active, shown, record, dead>>

Matches(i, s) == tokens[i].string = s /\ ~tokens[i].revoked

\* The string is looked up; any row with it that is not revoked will do.
FindRecord(r) ==
  /\ SessionMayBegin
  /\ \E s \in {tokens[i].string : i \in Stored} :
       /\ shown' = [shown EXCEPT ![r] = s]
       /\ \/ \E i \in Stored : /\ Matches(i, s)
                               /\ record' = [record EXCEPT ![r] = i]
                               /\ SessionGoto(r, "idle", IF tokens[i].expired THEN "done"
                                                         ELSE "user")
          \/ /\ ~\E i \in Stored : Matches(i, s)
             /\ SessionGoto(r, "idle", "done")
             /\ UNCHANGED record
  /\ UNCHANGED <<tokens, second, active, dead>>

CheckUser(r) ==
  /\ SessionGoto(r, "user", IF active THEN "revoke" ELSE "lock")
  /\ UNCHANGED <<tokens, second, active, shown, record, dead>>

Revoke(S) == tokens' = [i \in Issuers |-> IF i \in S THEN [tokens[i] EXCEPT !.revoked = TRUE]
                                          ELSE tokens[i]]

\* An inactive user, or one without an active institute, keeps no token.
Locked_Mutant(r) == {record[r]}
Locked(r) == Stored

RevokeAll(r) ==
  /\ SessionGoto(r, "lock", "done")
  /\ Revoke(Locked(r))
  /\ dead' = dead \cup {tokens[i].string : i \in Stored}
  /\ UNCHANGED <<second, active, shown, record>>

RevokeOld(r) ==
  /\ SessionGoto(r, "revoke", "sign")
  /\ Revoke({record[r]})
  /\ dead' = dead \cup {shown[r]}
  /\ UNCHANGED <<second, active, shown, record>>

SignOut(o) ==
  /\ SessionMayBegin
  /\ SessionGoto(o, "idle", "done")
  /\ \E s \in {tokens[i].string : i \in Stored} :
       /\ Revoke({i \in Stored : tokens[i].string = s})
       /\ dead' = dead \cup {s}
  /\ UNCHANGED <<second, active, shown, record>>

-----------------------------------------------------------------------------
TokenExpires(i) == /\ i \in Stored /\ ~tokens[i].expired
                   /\ tokens' = [tokens EXCEPT ![i].expired = TRUE]
                   /\ UNCHANGED <<second, active, spc, shown, record, dead>>

\* In a paced world the clock waits until the second is used.
Tick == /\ second < LastSecond
        /\ \E c \in SessionCalls : spc[c] # "done"
        /\ world.paced => \E i \in Stored : tokens[i].string = second
        /\ second' = second + 1
        /\ UNCHANGED <<tokens, active, spc, shown, record, dead>>

\* Someone changes the user or the institute.
ActivityChanges == /\ \E c \in SessionCalls : spc[c] # "done"
                   /\ active' = ~active
                   /\ UNCHANGED <<tokens, second, spc, shown, record, dead>>

SessionNext == \/ \E l \in SignIns : SignIn(l)
               \/ \E i \in Issuers : SignToken(i) \/ StoreToken(i) \/ TokenExpires(i)
               \/ \E r \in Refreshes : \/ FindRecord(r) \/ CheckUser(r)
                                       \/ RevokeAll(r) \/ RevokeOld(r)
               \/ \E o \in SignOuts : SignOut(o)
               \/ Tick \/ ActivityChanges

-----------------------------------------------------------------------------
(* Properties                                                              *)

\* Tokens and calls have their types.
SessionTypeOK ==
  /\ tokens \in [Issuers -> TokenRows \cup {NoToken}]
  /\ second \in Seconds /\ active \in BOOLEAN
  /\ spc \in [SessionCalls -> {"idle", "sign", "store", "user", "lock", "revoke", "done"}]
  /\ shown \in [SessionCalls -> Seconds \cup {NoToken}]
  /\ record \in [Refreshes -> Issuers \cup {NoToken}]
  /\ dead \subseteq Seconds

\* "Invalid or revoked refresh token": a token that was exchanged, signed out
\* or revoked with all others is never exchanged again, in whatever order
\* logins, refreshes and sign-outs follow one another and the user's account
\* is closed and opened, as long as no two tokens are signed in one second.
DeadStaysDead ==
  [][\A r \in Refreshes :
       world.serial /\ world.paced /\ spc[r] = "idle" /\ shown'[r] \in dead
         => spc'[r] = "done"]_sessionVars
=============================================================================
