----------------------------- MODULE InstantSms -----------------------------
(***************************************************************************)
(* The credit account of one institute and the instant SMS requests that   *)
(* spend it (src/modules/sms/services/instant-sms.service.ts).             *)
(*                                                                         *)
(* A sender is one sendSingleSms or sendBulkSms call, from validation to   *)
(* the background processing of its campaign; a topper is one topupCredits *)
(* call; a viewer is one getCreditBalance call.  Every step between two    *)
(* awaits on the database or the SMS gateway is one action.  MySQL runs    *)
(* at its default isolation: a plain SELECT takes no lock, an UPDATE waits *)
(* for the row lock.  mysql2 returns DECIMAL columns as strings.           *)
(***************************************************************************)
EXTENDS Integers, FiniteSets

CONSTANTS Senders,        \* ids of send requests
          BulkSenders,    \* those of them that are sendBulkSms calls
          Toppers,        \* ids of top-up requests
          Viewers,        \* ids of balance enquiries
          CostPerMessage, \* SMS_COST_PER_MESSAGE
          BulkSizes,      \* recipient counts a bulk filter may yield
          TopupAmounts,   \* amounts a top-up may carry
          OpeningRows,    \* the account rows the database may start with
          NoRow,          \* no sms_credits row for the institute
          Nobody,         \* no transaction holds the row lock
          DbMayFail,      \* may a statement of a request fail?
          MaxCrashes      \* bound on process crashes

\* A cost that is configured is a string, and so is the balance: for a single
\* message they are compared as strings.  For 1, the default, that agrees with
\* the comparison of numbers; for others it need not ("10.00" is below "2").
ASSUME CostAssumption   == CostPerMessage = 1
ASSUME SizesAssumption  == BulkSizes \subseteq Nat \ {0}
ASSUME TopupAssumption  == TopupAmounts \subseteq Nat \ {0}
ASSUME CrashAssumption  == MaxCrashes \in Nat
ASSUME FailAssumption   == DbMayFail \in BOOLEAN
ASSUME ActorAssumption  == /\ Senders \cap Toppers = {}
                           /\ Senders \cap Viewers = {}
                           /\ Toppers \cap Viewers = {}
                           /\ Nobody \notin Senders
                           /\ BulkSenders \subseteq Senders

Requests == Senders \cup Toppers \cup Viewers

Amounts == {CostPerMessage} \cup {n * CostPerMessage : n \in BulkSizes}

\* totalUsed is kept in hundredths, the scale of the column.
Accounts == [balance : Int, totalPurchased : Nat, totalUsed : Nat]

ASSUME RowAssumption == /\ NoRow \notin Accounts
                        /\ \A o \in OpeningRows : o = NoRow \/
                             (o \in Accounts /\ o.balance = o.totalPurchased)

EmptyAccount == [balance |-> 0, totalPurchased |-> 0, totalUsed |-> 0]

VARIABLES row,       \* the institute's sms_credits row
          lock,      \* sender whose transaction holds SELECT ... FOR UPDATE
          pc,        \* where each request is
          amount,    \* credits each sender asks for, each topper brings
          snap,      \* the row each request last read
          campaign,  \* status of each sender's sms_campaigns row
          answer,    \* what the gateway told each sender
          delivered, \* senders whose messages the gateway accepted
          charged,   \* total deducted by committed deductions
          granted,   \* total of committed top-ups, opening balance included
          paid,      \* senders whose deduction committed
          crashes    \* crashes so far

vars == <<row, lock, pc, amount, snap, campaign, answer, delivered, charged,
          granted, paid, crashes>>

\* The observations made by charged, granted and paid are of commits; no
\* handler reads them.
ghosts == <<charged, granted, paid>>

NoCampaign == "none"
CampaignStatuses == {"PENDING", "SENDING", "SUCCESS", "FAILED"}
Settled == {"SUCCESS", "FAILED"}

BalanceOf(r) == IF r = NoRow THEN 0 ELSE r.balance

(***************************************************************************)
(* credit.totalUsed += amount appends the digits of amount to "x.yz"; the  *)
(* DECIMAL(10,2) column rounds the result, so it moves by one hundredth    *)
(* when the first digit of amount is 5 or more and not at all otherwise.   *)
(***************************************************************************)
LeadingDigit(n) == CHOOSE d \in 1..9 :
                     \E k \in 0..7 : d * 10^k <= n /\ n < (d + 1) * 10^k

AppendAndRound(used, n) == IF LeadingDigit(n) >= 5 THEN used + 1 ELSE used

-----------------------------------------------------------------------------
Init == /\ row \in OpeningRows
        /\ lock = Nobody
        /\ pc = [r \in Requests |-> "idle"]
        /\ amount = [r \in Requests |-> 0]
        /\ snap = [r \in Requests |-> NoRow]
        /\ campaign = [s \in Senders |-> NoCampaign]
        /\ answer = [s \in Senders |-> "none"]
        /\ delivered = {}
        /\ charged = 0
        /\ granted = BalanceOf(row)
        /\ paid = {}
        /\ crashes = 0

Goto(r, from, to) == /\ pc[r] = from
                     /\ pc' = [pc EXCEPT ![r] = to]

LockFree_Mutant == TRUE
LockFree == lock = Nobody

-----------------------------------------------------------------------------
(* Senders: deductCredits, then the campaign row, then the background job. *)

\* The mask, the number or the filter is refused before any credit moves.
Refuse(s) == /\ Goto(s, "idle", "done")
             /\ UNCHANGED <<row, lock, amount, snap, campaign, answer,
                            delivered, ghosts, crashes>>

Begin(s, n) == /\ Goto(s, "idle", "lock")
               /\ amount' = [amount EXCEPT ![s] = n]
               /\ UNCHANGED <<row, lock, snap, campaign, answer, delivered,
                              ghosts, crashes>>

BeginSingle_Mutant(s) ==
  /\ s \notin BulkSenders
  /\ Goto(s, "idle", "record")
  /\ amount' = [amount EXCEPT ![s] = CostPerMessage]
  /\ UNCHANGED <<row, lock, snap, campaign, answer, delivered, ghosts, crashes>>

BeginSingle(s) == s \notin BulkSenders /\ Begin(s, CostPerMessage)

BeginBulk(s) == /\ s \in BulkSenders
                /\ \E n \in BulkSizes : Begin(s, n * CostPerMessage)

\* SELECT ... FOR UPDATE waits for the lock; no row means 404 and a rollback.
LockCredit(s) ==
  /\ LockFree
  /\ \/ /\ row # NoRow
        /\ Goto(s, "lock", "deduct")
        /\ lock' = s
        /\ snap' = [snap EXCEPT ![s] = row]
     \/ /\ row = NoRow \/ DbMayFail
        /\ Goto(s, "lock", "done")
        /\ UNCHANGED <<lock, snap>>
  /\ UNCHANGED <<row, amount, campaign, answer, delivered, ghosts, crashes>>

Enough_Mutant(s) == snap[s].totalPurchased >= amount[s]
Enough(s) == snap[s].balance >= amount[s]

CommitDeduction(s) ==
  /\ row' = [row EXCEPT !.balance = snap[s].balance - amount[s],
                        !.totalUsed = AppendAndRound(snap[s].totalUsed, amount[s])]
  /\ charged' = charged + amount[s]
  /\ paid' = paid \cup {s}

Release_Mutant(s) == lock' = IF Enough(s) THEN Nobody ELSE lock
Release(s) == lock' = Nobody

\* Balance check, save, commit or rollback, release.
Deduct(s) ==
  /\ pc[s] = "deduct"
  /\ Release(s)
  /\ \/ /\ Enough(s)
        /\ CommitDeduction(s)
        /\ Goto(s, "deduct", "record")
     \/ /\ Enough(s) /\ DbMayFail         \* committed, the answer lost
        /\ CommitDeduction(s)
        /\ Goto(s, "deduct", "done")
     \/ /\ ~Enough(s) \/ DbMayFail        \* 400, or a failed statement
        /\ Goto(s, "deduct", "done")
        /\ UNCHANGED <<row, charged, paid>>
  /\ UNCHANGED <<amount, snap, campaign, answer, delivered, granted, crashes>>

\* The campaign row is created in a transaction of its own, after the commit.
CreateCampaign(s) ==
  /\ \/ /\ Goto(s, "record", "start")
        /\ campaign' = [campaign EXCEPT ![s] = "PENDING"]
     \/ /\ DbMayFail
        /\ Goto(s, "record", "done")
        /\ UNCHANGED campaign
  /\ UNCHANGED <<row, lock, amount, snap, answer, delivered, ghosts, crashes>>

\* processSingleSms and processBulkSms, which nobody awaits.
MarkSending(s) ==
  /\ \/ /\ Goto(s, "start", "gateway")
        /\ campaign' = [campaign EXCEPT ![s] = "SENDING"]
     \/ /\ DbMayFail
        /\ Goto(s, "start", "recover")
        /\ UNCHANGED campaign
  /\ UNCHANGED <<row, lock, amount, snap, answer, delivered, ghosts, crashes>>

Answer(s, a) == answer' = [answer EXCEPT ![s] = a]

\* The provider turns every failure into success: false, a timeout of a
\* request the gateway did accept included.  For a single message it also
\* takes any answer whose text contains "success" for one, "unsuccessful" too.
CallGateway(s) ==
  /\ Goto(s, "gateway", "result")
  /\ \/ delivered' = delivered \cup {s} /\ Answer(s, "success")
     \/ delivered' = delivered \cup {s} /\ Answer(s, "failure")
     \/ UNCHANGED delivered /\ Answer(s, "failure")
     \/ s \notin BulkSenders /\ UNCHANGED delivered /\ Answer(s, "success")
  /\ UNCHANGED <<row, lock, amount, snap, campaign, ghosts, crashes>>

Verdict_Mutant1(s) == "SUCCESS"
Verdict(s) == IF answer[s] = "success" THEN "SUCCESS" ELSE "FAILED"

RecordResult(s) ==
  /\ \/ /\ Goto(s, "result", "done")
        /\ campaign' = [campaign EXCEPT ![s] = Verdict(s)]
     \/ /\ DbMayFail
        /\ Goto(s, "result", "recover")
        /\ UNCHANGED campaign
  /\ UNCHANGED <<row, lock, amount, snap, answer, delivered, ghosts, crashes>>

\* The catch block of the background job.
MarkFailed(s) ==
  /\ Goto(s, "recover", "done")
  /\ \/ campaign' = [campaign EXCEPT ![s] = "FAILED"]
     \/ DbMayFail /\ UNCHANGED campaign
  /\ UNCHANGED <<row, lock, amount, snap, answer, delivered, ghosts, crashes>>

SenderStep(s) == \/ Refuse(s) \/ BeginSingle(s) \/ BeginBulk(s)
                 \/ LockCredit(s) \/ Deduct(s) \/ CreateCampaign(s)
                 \/ MarkSending(s) \/ CallGateway(s) \/ RecordResult(s)
                 \/ MarkFailed(s)

-----------------------------------------------------------------------------
(* Toppers: topupCredits reads without a lock and writes what it computed. *)

ReadForTopup(t) ==
  /\ Goto(t, "idle", "commit")
  /\ \E n \in TopupAmounts : amount' = [amount EXCEPT ![t] = n]
  /\ snap' = [snap EXCEPT ![t] = row]
  /\ UNCHANGED <<row, lock, campaign, answer, delivered, ghosts, crashes>>

AccountRead(t) == IF snap[t] = NoRow THEN EmptyAccount ELSE snap[t]

\* INSERT of a new row fails on the primary key when somebody was faster.
InsertClashes(t) == snap[t] = NoRow /\ row # NoRow

NewBalance(t) == AccountRead(t).balance + amount[t]

NewPurchased_Mutant1(t) == AccountRead(t).totalPurchased - amount[t]
NewPurchased(t) == AccountRead(t).totalPurchased + amount[t]

CommitTopup(t) ==
  /\ LockFree
  /\ Goto(t, "commit", "done")
  /\ \/ /\ ~InsertClashes(t)
        /\ row' = [balance |-> NewBalance(t),
                   totalPurchased |-> NewPurchased(t),
                   totalUsed |-> IF row = NoRow THEN 0 ELSE row.totalUsed]
        /\ granted' = granted + amount[t]
     \/ /\ InsertClashes(t) \/ DbMayFail
        /\ UNCHANGED <<row, granted>>
  /\ UNCHANGED <<lock, amount, snap, campaign, answer, delivered, charged,
                 paid, crashes>>

TopperStep(t) == ReadForTopup(t) \/ CommitTopup(t)

-----------------------------------------------------------------------------
(* Viewers: getCreditBalance creates the account it does not find.         *)

ViewBalance(v) ==
  /\ Goto(v, "idle", IF row = NoRow THEN "reload" ELSE "done")
  /\ UNCHANGED <<row, lock, amount, snap, campaign, answer, delivered,
                 ghosts, crashes>>

\* repository.save looks the primary key up before it opens a transaction.
ReloadForSave(v) ==
  /\ Goto(v, "reload", "save")
  /\ snap' = [snap EXCEPT ![v] = row]
  /\ UNCHANGED <<row, lock, amount, campaign, answer, delivered, ghosts,
                 crashes>>

\* INSERT of zeros, or UPDATE of the found row to zeros.
SaveEmpty(v) ==
  /\ LockFree
  /\ Goto(v, "save", "done")
  /\ \/ ~InsertClashes(v) /\ row' = EmptyAccount
     \/ (InsertClashes(v) \/ DbMayFail) /\ UNCHANGED row
  /\ UNCHANGED <<lock, amount, snap, campaign, answer, delivered, ghosts,
                 crashes>>

ViewerStep(v) == ViewBalance(v) \/ ReloadForSave(v) \/ SaveEmpty(v)

-----------------------------------------------------------------------------
\* The process dies: requests and background jobs are gone, the database
\* rolls the open transaction back.
Crash ==
  /\ crashes < MaxCrashes
  /\ crashes' = crashes + 1
  /\ pc' = [r \in Requests |-> IF pc[r] = "idle" THEN "idle" ELSE "done"]
  /\ lock' = Nobody
  /\ UNCHANGED <<row, amount, snap, campaign, answer, delivered, ghosts>>

Finished == \A r \in Requests : pc[r] = "done"

Next == \/ \E s \in Senders : SenderStep(s)
        \/ \E t \in Toppers : TopperStep(t)
        \/ \E v \in Viewers : ViewerStep(v)
        \/ Crash
        \/ Finished /\ UNCHANGED vars

Spec == Init /\ [][Next]_vars

\* The event loop and the statement timeouts let every started request go
\* on; that a request ever arrives is not assumed.
Fairness == /\ \A s \in Senders : WF_vars(pc[s] # "idle" /\ SenderStep(s))
            /\ \A t \in Toppers : WF_vars(pc[t] # "idle" /\ TopperStep(t))
            /\ \A v \in Viewers : WF_vars(pc[v] # "idle" /\ ViewerStep(v))

FairSpec == Spec /\ Fairness

-----------------------------------------------------------------------------
(* Properties                                                              *)

PCs == {"idle", "lock", "deduct", "record", "start", "gateway", "result",
        "recover", "commit", "reload", "save", "done"}

\* The variables have their types.
TypeOK ==
  /\ row \in Accounts \cup {NoRow}
  /\ lock \in Senders \cup {Nobody}
  /\ pc \in [Requests -> PCs]
  /\ amount \in [Requests -> Nat]
  /\ snap \in [Requests -> Accounts \cup {NoRow}]
  /\ campaign \in [Senders -> CampaignStatuses \cup {NoCampaign}]
  /\ answer \in [Senders -> {"none", "success", "failure"}]
  /\ delivered \subseteq Senders
  /\ charged \in Nat
  /\ granted \in Nat
  /\ paid \subseteq Senders
  /\ crashes \in 0..MaxCrashes

\* Whatever interleaving of sends, top-ups and enquiries, lost updates
\* included, the stored balance never becomes negative: the check made under
\* the row lock is still true when the balance is written.
NeverOverdrawn == BalanceOf(row) >= 0

\* Racing writers of the account may hand an institute credits for free but
\* never take any that the row itself records as purchased: what was bought,
\* less every deduction that committed, is still there.
NeverUnderstated ==
  row # NoRow => row.balance >= row.totalPurchased - charged

\* The balance is sound whatever overlaps: it covers every deduction that was
\* granted, and an institute has at least what it bought and did not spend.
BalanceSound == NeverOverdrawn /\ NeverUnderstated

\* As long as nobody tops up, enquiries and sends keep the books exact: the
\* balance is what was purchased less what was charged, whatever the order of
\* the concurrent deductions and whatever statement fails.
LedgerExact ==
  row # NoRow => row.balance = row.totalPurchased - charged

\* No message leaves for the gateway without a deduction that committed
\* before, crashes and failed statements included.
DeliveredArePaid == delivered \subseteq paid

\* A bulk campaign that says SUCCESS was accepted by the gateway: the catch
\* block, the retry-less background job and a crash leave no false success.
SuccessIsDelivered ==
  \A s \in BulkSenders : campaign[s] = "SUCCESS" => s \in delivered

\* Without crashes and failing statements every campaign that was created is
\* settled although nobody awaits its background job.
CampaignSettles ==
  \A s \in Senders : campaign[s] = "PENDING" ~> campaign[s] \in Settled

\* Every request that started is answered: no path out of the transaction,
\* the refusals included, keeps the row lock others wait for.
RequestsEnd == \A r \in Requests : pc[r] # "idle" ~> pc[r] = "done"

\* Everything that starts ends: the background jobs and the requests.
EverythingEnds == CampaignSettles /\ RequestsEnd

\* The account behaves as the prepaid ledger it is meant to be.
Ledger == INSTANCE CreditLedger
            WITH Requests <- Senders, available <- BalanceOf(row)

LedgerSpec == Ledger!LedgerSpec

-----------------------------------------------------------------------------
(* What the documents say and the code does not do                         *)

\* The SMS README: "Credit deduction uses pessimistic locking to prevent race
\* conditions".  A race-free account holds what was granted less what was
\* charged; topupCredits reads without that lock.
BalanceTracked == row # NoRow => row.balance = granted - charged
=============================================================================
