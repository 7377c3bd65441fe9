------------------------------ MODULE Passwords ------------------------------
(***************************************************************************)
(* The password of one user and the calls that set it: first login,        *)
(* password reset and password change with a code sent by e-mail, password *)
(* change and profile completion with a session, and the logins that are   *)
(* judged by a cached copy of it (src/auth/services/first-login.service.ts *)
(* and password-reset.service.ts, src/auth/auth.service.ts,                *)
(* src/common/services/cache-user-management.service.ts).                  *)
(*                                                                         *)
(* A code is named by the call that issues it, a password by the call that *)
(* sets it.  Types: FIRST_LOGIN, PASSWORD_RESET and CHANGE_PASSWORD.       *)
(***************************************************************************)
EXTENDS Integers, FiniteSets, Calls

CONSTANTS Issues,      \* calls that send a code
          CodeTypes,   \* what the codes may be for
          Verifies,    \* verifyOTP, verifyOTPEnhanced, verifyPasswordResetOtp
          Completes,   \* verifyOTPComplete calls
          Setups,      \* setPassword calls
          Redeems,     \* resetPassword and completePasswordChange calls
          Changes,     \* AuthService.changePassword calls
          Rewrites,    \* PasswordResetService.changePassword and completeProfile
          Logins,      \* validateUser calls
          MaxAttempts, \* wrong codes before a first-login code is given up
          Opening,     \* the password of an old user
          NoPassword,  \* the column of a new user
          NoCode,      \* no row
          Uncached     \* no entry

ASSUME AttemptsAssumption == /\ MaxAttempts \in Nat \ {0}
                             /\ \A w \in Worlds : w.cached \in BOOLEAN

Presenters == Verifies \cup Completes \cup Setups \cup Redeems
Setters == Completes \cup Setups \cup Redeems \cup Changes \cup Rewrites
PwCalls == Issues \cup Presenters \cup Setters \cup Logins

PasswordValues == Setters \cup {Opening, NoPassword}

VARIABLES password, \* users.password
          codes,    \* the password_reset_tokens row of each issue
          kind,     \* its type
          index,    \* user:email:..., the password of the cached index
          details,  \* is user:details:... cached?
          ppc,      \* where each call is
          use,      \* the code each call presents
          held,     \* the password a call presents, then the one it read
          job,      \* where the cache refresh of each change is
          installs, \* passwords set by each code; no call reads it
          misses    \* wrong codes presented since each code was issued; as well

passwordVars == <<password, codes, kind, index, details, ppc, use, held, job,
                  installs, misses>>

CodeRows == [used : BOOLEAN, verified : BOOLEAN, expired : BOOLEAN,
             token : BOOLEAN, attempts : 0..MaxAttempts]

ASSUME PwNamesAssumption == /\ Issues \cap (Presenters \cup Setters \cup Logins) = {}
                            /\ Verifies \cap (Setters \cup Logins) = {}
                            /\ Completes \cap (Setups \cup Redeems) = {}
                            /\ Setups \cap Redeems = {}
                            /\ (Changes \cup Rewrites) \cap Presenters = {}
                            /\ Changes \cap Rewrites = {}
                            /\ Setters \cap Logins = {}
                            /\ NoCode \notin CodeRows

FreshCode == [used |-> FALSE, verified |-> FALSE, expired |-> FALSE,
              token |-> FALSE, attempts |-> 0]

PasswordInit == /\ password \in {Opening, NoPassword}
                /\ codes = [i \in Issues |-> NoCode]
                /\ kind \in About(Issues, CodeTypes)
                /\ index = Uncached
                /\ details = FALSE
                /\ ppc = [c \in PwCalls |-> Coming(c)]
                /\ use \in About(Presenters, Issues)
                /\ held = [c \in PwCalls |-> NoPassword]
                /\ job = [c \in Changes |-> "none"]
                /\ installs = [i \in Issues |-> 0]
                /\ misses = [i \in Issues |-> 0]

PwGoto(c, from, to) == ppc[c] = from /\ ppc' = [ppc EXCEPT ![c] = to]

PwMayBegin == world.serial => /\ \A c \in PwCalls : ppc[c] \in {"idle", "done", "in", "refused"}
                              /\ \A c \in Changes : job[c] \in {"none", "done"}

Issued(i) == codes[i] # NoCode
Unused(i) == Issued(i) /\ ~codes[i].used

-----------------------------------------------------------------------------
(* Sending a code                                                          *)

\* The password column is not selected by default.  initiateFirstLogin does
\* not select it, so its check for a password never refuses; the change of a
\* password selects it and compares it with the current one.
MayIssue(i) == kind[i] = "CHANGE_PASSWORD" => password # NoPassword

CheckIssue(i) ==
  /\ PwMayBegin
  /\ PwGoto(i, "idle", IF MayIssue(i) THEN "replace" ELSE "done")
  /\ UNCHANGED <<password, codes, kind, index, details, use, held, job, installs, misses>>

\* A code for a first login replaces those of any type.
Replaces(i, j) == Unused(j) /\ (kind[i] = "FIRST_LOGIN" \/ kind[i] = kind[j])

ReplaceCodes(i) ==
  /\ PwGoto(i, "replace", "insert")
  /\ codes' = [j \in Issues |-> IF Replaces(i, j) THEN [codes[j] EXCEPT !.used = TRUE]
                                ELSE codes[j]]
  /\ UNCHANGED <<password, kind, index, details, use, held, job, installs, misses>>

InsertToken(i) ==
  /\ PwGoto(i, "insert", "done")
  /\ codes' = [codes EXCEPT ![i] = FreshCode]
  /\ UNCHANGED <<password, kind, index, details, use, held, job, installs, misses>>

-----------------------------------------------------------------------------
(* First login: verification                                               *)

Awaiting(i) == Unused(i) /\ kind[i] = "FIRST_LOGIN" /\ ~codes[i].verified

TooMany_Mutant(i) == codes[i].attempts > MaxAttempts
TooMany(i) == codes[i].attempts >= MaxAttempts

FindToken(v) ==
  /\ PwMayBegin
  /\ \/ Awaiting(use[v]) /\ PwGoto(v, "idle", IF codes[use[v]].expired \/ TooMany(use[v])
                                              THEN "discard" ELSE "verify")
     \/ PwGoto(v, "idle", "count")          \* a wrong code
  /\ UNCHANGED <<password, codes, kind, index, details, use, held, job, installs, misses>>

\* verifyPasswordResetOtp writes only when the code has expired.
FindResetToken(v) ==
  /\ PwMayBegin
  /\ Unused(use[v]) /\ kind[use[v]] = "PASSWORD_RESET" /\ codes[use[v]].expired
  /\ PwGoto(v, "idle", "discard")
  /\ UNCHANGED <<password, codes, kind, index, details, use, held, job, installs, misses>>

Counted_Mutant(i) == IF Issued(i) /\ kind[i] = "FIRST_LOGIN"
                       THEN [codes[i] EXCEPT !.attempts = @ + 1] ELSE codes[i]
Counted(i) == IF Unused(i) /\ kind[i] = "FIRST_LOGIN" /\ codes[i].attempts < MaxAttempts
                THEN [codes[i] EXCEPT !.attempts = @ + 1] ELSE codes[i]

CountAttempt(v) ==
  /\ PwGoto(v, "count", "done")
  /\ codes' = [i \in Issues |-> Counted(i)]
  /\ misses' = [i \in Issues |-> IF Awaiting(i) THEN misses[i] + 1 ELSE misses[i]]
  /\ UNCHANGED <<password, kind, index, details, use, held, job, installs>>

DiscardToken(v) ==
  /\ PwGoto(v, "discard", "done")
  /\ codes' = [codes EXCEPT ![use[v]].used = TRUE]
  /\ UNCHANGED <<password, kind, index, details, use, held, job, installs, misses>>

\* verifyOTP answers with a token for setPassword, or the caller goes on to
\* complete a profile with a session (verifyOTPEnhanced, verifyOTPComplete).
VerifyToken(v) ==
  /\ PwGoto(v, "verify", IF v \in Completes THEN "install" ELSE "done")
  /\ \E token \in IF v \in Completes THEN {FALSE} ELSE BOOLEAN :
       codes' = [codes EXCEPT ![use[v]].verified = TRUE, ![use[v]].token = token]
  /\ UNCHANGED <<password, kind, index, details, use, held, job, installs, misses>>

-----------------------------------------------------------------------------
(* Setting the password with a code                                        *)

FindVerified(s) == Unused(use[s]) /\ codes[use[s]].token /\ codes[use[s]].verified

FindRedeemable(r) == /\ Unused(use[r]) /\ ~codes[use[r]].expired
                     /\ kind[use[r]] \in {"PASSWORD_RESET", "CHANGE_PASSWORD"}

CheckCode(c) ==
  /\ PwMayBegin
  /\ PwGoto(c, "idle", IF (c \in Setups /\ FindVerified(c)) \/ (c \in Redeems /\ FindRedeemable(c))
                       THEN "install" ELSE "done")
  /\ UNCHANGED <<password, codes, kind, index, details, use, held, job, installs, misses>>

AfterInstall(c) == IF c \in Completes THEN "done" ELSE "use"

InstallPassword(c) ==
  /\ PwGoto(c, "install", AfterInstall(c))
  /\ password' = c
  /\ installs' = [installs EXCEPT ![use[c]] = @ + 1]
  /\ UNCHANGED <<codes, kind, index, details, use, held, job, misses>>

\* Only setPassword refreshes the caches afterwards.
RefreshesIndex_Mutant(c) == FALSE
RefreshesIndex(c) == c \in Setups /\ world.cached

UseCode(c) ==
  /\ \/ /\ PwGoto(c, "use", IF RefreshesIndex(c) THEN "details" ELSE "done")
        /\ codes' = [codes EXCEPT ![use[c]].used = TRUE]
     \/ world.faulty /\ PwGoto(c, "use", "done") /\ UNCHANGED codes
  /\ UNCHANGED <<password, kind, index, details, use, held, job, installs, misses>>

-----------------------------------------------------------------------------
(* Setting it with a session                                               *)

\* Both know the current password; completeProfile need not.
CheckCurrent(c) ==
  /\ PwMayBegin
  /\ password # NoPassword
  /\ PwGoto(c, "idle", "write")
  /\ UNCHANGED <<password, codes, kind, index, details, use, held, job, installs, misses>>

\* The refresh is started inside the transaction and not awaited.
UpdateInTransaction(c) ==
  /\ PwGoto(c, "write", "commit")
  /\ job' = [job EXCEPT ![c] = IF world.cached THEN "details" ELSE "done"]
  /\ UNCHANGED <<password, codes, kind, index, details, use, held, installs, misses>>

CommitPassword(c) ==
  /\ PwGoto(c, "commit", "done")
  /\ password' = c
  /\ UNCHANGED <<codes, kind, index, details, use, held, job, installs, misses>>

\* No cached copy of the password is refreshed; completeProfile refreshes the
\* details.
Rewrite(c) ==
  /\ PwMayBegin
  /\ PwGoto(c, "idle", "done")
  /\ password' = c
  /\ details' \in {details, world.cached}
  /\ UNCHANGED <<codes, kind, index, use, held, job, installs, misses>>

-----------------------------------------------------------------------------
(* Login                                                                   *)

\* The password of the cached index decides while there is one.
TryIndex(l) ==
  /\ PwMayBegin
  /\ ppc[l] = "idle"
  /\ \E p \in PasswordValues \ {NoPassword} :
       /\ held' = [held EXCEPT ![l] = p]
       /\ PwGoto(l, "idle", CASE index = Uncached -> "database"
                              [] index # Uncached /\ index # p -> "refused"
                              [] OTHER -> IF details THEN "in" ELSE "database")
  /\ UNCHANGED <<password, codes, kind, index, details, use, job, installs, misses>>

TryDatabase(l) ==
  /\ PwGoto(l, "database", IF password # held[l] THEN "refused"
                           ELSE IF world.cached THEN "details" ELSE "in")
  /\ UNCHANGED <<password, codes, kind, index, details, use, held, job, installs, misses>>

\* setUserCache or refreshUserCache, then setUserIndexes: a SELECT and a SET.
CacheDetails(c) ==
  /\ PwGoto(c, "details", "read")
  /\ details' = TRUE
  /\ UNCHANGED <<password, codes, kind, index, use, held, job, installs, misses>>

ReadForIndex(c) ==
  /\ PwGoto(c, "read", "store")
  /\ held' = [held EXCEPT ![c] = password]
  /\ UNCHANGED <<password, codes, kind, index, details, use, job, installs, misses>>

StoreIndex(c) ==
  /\ PwGoto(c, "store", IF c \in Logins THEN "in" ELSE "done")
  /\ index' = held[c]
  /\ UNCHANGED <<password, codes, kind, details, use, held, job, installs, misses>>

JobGoto(c, from, to) == job[c] = from /\ job' = [job EXCEPT ![c] = to]

RefreshAfterChange(c) ==
  /\ \/ JobGoto(c, "details", "read") /\ details' = TRUE /\ UNCHANGED <<index, held>>
     \/ /\ JobGoto(c, "read", "store")
        /\ held' = [held EXCEPT ![c] = password]
        /\ UNCHANGED <<index, details>>
     \/ JobGoto(c, "store", "done") /\ index' = held[c] /\ UNCHANGED <<details, held>>
  /\ UNCHANGED <<password, codes, kind, ppc, use, installs, misses>>

-----------------------------------------------------------------------------
\* An hour for the index, the details on their own; fifteen minutes for a code.
EntryExpires == /\ \/ index # Uncached /\ index' = Uncached /\ UNCHANGED details
                   \/ details /\ details' = FALSE /\ UNCHANGED index
                /\ UNCHANGED <<password, codes, kind, ppc, use, held, job, installs, misses>>

CodeExpires(i) == /\ Unused(i) /\ ~codes[i].expired
                  /\ codes' = [codes EXCEPT ![i].expired = TRUE]
                  /\ UNCHANGED <<password, kind, index, details, ppc, use, held, job,
                                 installs, misses>>

PasswordNext ==
  \/ \E i \in Issues : CheckIssue(i) \/ ReplaceCodes(i) \/ InsertToken(i) \/ CodeExpires(i)
  \/ \E v \in Verifies \cup Completes : \/ FindToken(v) \/ CountAttempt(v)
                                        \/ DiscardToken(v) \/ VerifyToken(v)
  \/ \E v \in Verifies : FindResetToken(v)
  \/ \E c \in Setups \cup Redeems : CheckCode(c)
  \/ \E c \in Setters : InstallPassword(c) \/ UseCode(c)
  \/ \E c \in Changes : \/ CheckCurrent(c) \/ UpdateInTransaction(c)
                        \/ CommitPassword(c) \/ RefreshAfterChange(c)
  \/ \E c \in Rewrites : Rewrite(c)
  \/ \E l \in Logins : TryIndex(l) \/ TryDatabase(l)
  \/ \E c \in Setups \cup Logins : CacheDetails(c) \/ ReadForIndex(c) \/ StoreIndex(c)
  \/ EntryExpires

-----------------------------------------------------------------------------
(* Properties                                                              *)

\* Passwords, codes, cache entries and calls have their types.
PasswordTypeOK ==
  /\ password \in PasswordValues
  /\ codes \in [Issues -> CodeRows \cup {NoCode}]
  /\ index \in PasswordValues \cup {Uncached}
  /\ details \in BOOLEAN
  /\ held \in [PwCalls -> PasswordValues]
  /\ job \in [Changes -> {"none", "details", "read", "store", "done"}]
  /\ ppc \in [PwCalls -> {"idle", "replace", "insert", "count", "discard", "verify",
                          "install", "use", "write", "commit", "database", "details",
                          "read", "store", "in", "refused", "done"}]

\* One code sets one password, whichever of the ways to present it are taken,
\* unless the statement that uses it up fails after the password is set.
CodeSetsOne == world.serial /\ ~world.faulty => \A i \in Issues : installs[i] <= 1

\* A new code is the only one of its type that still works.
NewestCodeOnly ==
  world.serial => \A i, j \in Issues : Unused(i) /\ Unused(j) /\ kind[i] = kind[j] => i = j

\* "Too many failed attempts": a first-login code is not accepted after that
\* many wrong ones.
GuessesLimited ==
  [][\A i \in Issues : world.serial /\ misses[i] >= MaxAttempts /\ Issued(i)
       => codes'[i].verified = codes[i].verified]_<<codes, misses>>

Rejects(l) == ppc[l] \notin {"refused"} /\ ppc'[l] = "refused"

\* setPassword refreshes the cached index after it wrote the password: whoever
\* presents the current password gets in, a first login of an old user included,
\* as long as no other way to set a password is taken and no statement fails
\* between the two.
LoginAfterSetup ==
  [][\A l \in Logins :
       /\ world.serial /\ ~world.faulty /\ Rejects(l)
       /\ world.calls \cap (Completes \cup Redeems \cup Changes \cup Rewrites) = {}
       => held'[l] # password]_passwordVars
=============================================================================
