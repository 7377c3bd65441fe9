-------------------------- MODULE InstantSmsProofs --------------------------
(***************************************************************************)
(* What InstantSms guarantees for every set of requests, every amount and  *)
(* every opening account.                                                  *)
(***************************************************************************)
EXTENDS InstantSms, TLAPS

-----------------------------------------------------------------------------
(* The inductive invariants                                                *)

\* The row lock protects what it is meant to: a sender between its SELECT ...
\* FOR UPDATE and its commit is alone there, and the row is what it read.
RowHeld == \A s \in Senders :
             pc[s] = "deduct" => lock = s /\ row # NoRow /\ snap[s] = row

TypeInv == TypeOK /\ RowHeld

\* What a top-up or an enquiry read long ago was still a solvent account.
Solvent(r) == r # NoRow => /\ r.balance >= 0
                           /\ r.balance >= r.totalPurchased - charged

AccountInv == /\ Solvent(row)
              /\ \A t \in Toppers : Solvent(snap[t])

-----------------------------------------------------------------------------
(* Type correctness                                                        *)

\* Appending digits to totalUsed keeps it a natural number of hundredths.
LEMMA AppendType == ASSUME NEW u \in Nat, NEW n
                    PROVE  AppendAndRound(u, n) \in Nat
BY DEF AppendAndRound

\* A request may cost only a positive number of credits.
LEMMA CostType == /\ CostPerMessage \in Nat \ {0}
                  /\ \A n \in BulkSizes : n * CostPerMessage \in Nat \ {0}
<1>1. CostPerMessage \in Nat \ {0}
  BY CostAssumption
<1>2. ASSUME NEW n \in BulkSizes PROVE n * CostPerMessage \in Nat \ {0}
  <2>1. n \in Nat /\ n > 0
    BY SizesAssumption
  <2>2. CostPerMessage \in Nat /\ CostPerMessage > 0
    BY CostAssumption
  <2>3. \A a, b \in Nat : a > 0 /\ b > 0 => a * b \in Nat /\ a * b > 0
    OBVIOUS
  <2> QED BY <2>1, <2>2, <2>3
<1> QED BY <1>1, <1>2

\* The empty account is an account, and so is any account read with the empty
\* one in place of a missing row.
LEMMA ReadType == ASSUME NEW t \in Requests, TypeOK
                  PROVE  /\ EmptyAccount \in Accounts
                         /\ AccountRead(t) \in Accounts
BY DEF TypeOK, EmptyAccount, Accounts, AccountRead

\* The steps of a sender preserve the types and the meaning of the row lock.
LEMMA SenderType == ASSUME NEW s \in Senders, TypeInv, SenderStep(s)
                    PROVE  TypeInv'
<1> USE ActorAssumption DEF TypeInv, TypeOK, RowHeld, PCs, Requests, Goto,
                            ghosts, CampaignStatuses
<1>1. CASE Refuse(s)
  BY <1>1 DEF Refuse
<1>2. ASSUME NEW n \in Nat, Begin(s, n) PROVE TypeInv'
  BY <1>2 DEF Begin
<1>3. CASE BeginSingle(s)
  BY <1>2, <1>3, CostType DEF BeginSingle
<1>4. CASE BeginBulk(s)
  BY <1>2, <1>4, CostType DEF BeginBulk
<1>5. CASE LockCredit(s)
  BY <1>5 DEF LockCredit, LockFree
<1>6. CASE Deduct(s)
  <2>1. /\ snap[s] = row /\ row \in Accounts /\ lock = s
        /\ \A r \in Senders : r # s => pc[r] # "deduct"
    BY <1>6 DEF Deduct
  <2>2. ASSUME CommitDeduction(s)
        PROVE  /\ row' \in Accounts
               /\ charged' \in Nat
               /\ paid' \subseteq Senders
    <3>1. AppendAndRound(snap[s].totalUsed, amount[s]) \in Nat
      BY AppendType, <2>1 DEF Accounts
    <3>2. amount[s] \in Nat
      OBVIOUS
    <3>3. snap[s].balance - amount[s] \in Int
      BY <2>1, <3>2 DEF Accounts
    <3>4. row' \in Accounts
      BY <2>1, <2>2, <3>1, <3>3 DEF CommitDeduction, Accounts
    <3> QED BY <2>2, <3>2, <3>4 DEF CommitDeduction
  <2>3. CASE CommitDeduction(s)
    BY <1>6, <2>1, <2>2, <2>3 DEF Deduct, Release
  <2>4. CASE UNCHANGED <<row, charged, paid>>
    BY <1>6, <2>1, <2>4 DEF Deduct, Release
  <2> QED BY <1>6, <2>3, <2>4 DEF Deduct
<1>7. CASE CreateCampaign(s)
  BY <1>7 DEF CreateCampaign
<1>8. CASE MarkSending(s)
  BY <1>8 DEF MarkSending
<1>9. CASE CallGateway(s)
  BY <1>9 DEF CallGateway, Answer
<1>10. CASE RecordResult(s)
  BY <1>10 DEF RecordResult, Verdict
<1>11. CASE MarkFailed(s)
  BY <1>11 DEF MarkFailed
<1> QED BY <1>1, <1>3, <1>4, <1>5, <1>6, <1>7, <1>8, <1>9, <1>10, <1>11
        DEF SenderStep

\* So do the steps of a top-up.
LEMMA TopperType == ASSUME NEW t \in Toppers, TypeInv, TopperStep(t)
                    PROVE  TypeInv'
<1> USE ActorAssumption DEF TypeInv, TypeOK, RowHeld, PCs, Requests, Goto, ghosts
<1>1. CASE ReadForTopup(t)
  BY <1>1, TopupAssumption DEF ReadForTopup
<1>2. CASE CommitTopup(t)
  <2>1. lock = Nobody /\ \A s \in Senders : pc[s] # "deduct"
    BY <1>2 DEF CommitTopup, LockFree
  <2>2. ASSUME row' = [balance |-> NewBalance(t),
                       totalPurchased |-> NewPurchased(t),
                       totalUsed |-> IF row = NoRow THEN 0 ELSE row.totalUsed]
        PROVE  row' \in Accounts
    BY <2>2, ReadType DEF NewBalance, NewPurchased, Accounts
  <2> QED BY <1>2, <2>1, <2>2 DEF CommitTopup, LockFree
<1> QED BY <1>1, <1>2 DEF TopperStep

\* And those of an enquiry.
LEMMA ViewerType == ASSUME NEW v \in Viewers, TypeInv, ViewerStep(v)
                    PROVE  TypeInv'
<1> USE ActorAssumption DEF TypeInv, TypeOK, RowHeld, PCs, Requests, Goto, ghosts
<1>1. CASE ViewBalance(v)
  BY <1>1 DEF ViewBalance
<1>2. CASE ReloadForSave(v)
  BY <1>2 DEF ReloadForSave
<1>3. CASE SaveEmpty(v)
  <2>1. EmptyAccount \in Accounts
    BY ReadType
  <2> QED BY <1>3, <2>1 DEF SaveEmpty, LockFree
<1> QED BY <1>1, <1>2, <1>3 DEF ViewerStep

\* The types hold at the start.
LEMMA InitType == Init => TypeInv
BY RowAssumption, CrashAssumption
DEF Init, TypeInv, TypeOK, RowHeld, BalanceOf, Accounts, PCs, Requests

\* A crash loses the requests, never the row.
LEMMA CrashType == TypeInv /\ Crash => TypeInv'
BY CrashAssumption DEF TypeInv, TypeOK, RowHeld, Crash, PCs, Requests, ghosts

\* Every step preserves types and lock.
LEMMA NextType == TypeInv /\ [Next]_vars => TypeInv'
<1> SUFFICES ASSUME TypeInv, [Next]_vars PROVE TypeInv'
  OBVIOUS
<1>1. CASE UNCHANGED vars
  BY <1>1 DEF TypeInv, TypeOK, RowHeld, vars
<1> QED BY <1>1, SenderType, TopperType, ViewerType, CrashType DEF Next

\* Every reachable state has the declared types, and whoever is about to write
\* a deduction holds the row it read.
THEOREM TypeCorrect == Spec => [](TypeOK /\ RowHeld)
<1>1. Init => TypeInv
  BY InitType
<1>2. TypeInv /\ [Next]_vars => TypeInv'
  BY NextType
<1> QED BY <1>1, <1>2, PTL DEF Spec, TypeInv
-----------------------------------------------------------------------------
(* The account is never overdrawn and never understated                    *)

\* Charging more can only weaken what a solvent account must still hold.
LEMMA SolventGrows ==
  ASSUME NEW r \in Accounts \cup {NoRow}, NEW c \in Nat, NEW d \in Nat, c <= d,
         r # NoRow => r.balance >= 0 /\ r.balance >= r.totalPurchased - c
  PROVE  r # NoRow => r.balance >= 0 /\ r.balance >= r.totalPurchased - d
BY DEF Accounts

\* A step that writes no account and no total keeps every account solvent.
LEMMA AccountIdle ==
  ASSUME TypeInv, AccountInv, UNCHANGED <<row, charged>>,
         \A t \in Toppers : snap'[t] = snap[t] \/ snap'[t] = row
  PROVE  AccountInv'
BY DEF AccountInv, Solvent

\* Nor does a sender: what it writes is what it read, less what it checked.
LEMMA SenderAccount == ASSUME NEW s \in Senders, TypeInv, AccountInv, SenderStep(s)
                       PROVE  AccountInv'
<1>1. CASE Deduct(s)
  <2>1. snap[s] = row /\ row \in Accounts /\ amount[s] \in Nat /\ charged \in Nat
    BY <1>1 DEF Deduct, TypeInv, TypeOK, RowHeld, Requests
  <2>2. CASE Enough(s) /\ CommitDeduction(s)
    <3>1. /\ row'.balance = row.balance - amount[s]
          /\ row'.totalPurchased = row.totalPurchased
          /\ charged' = charged + amount[s]
          /\ row.balance >= amount[s]
      BY <2>1, <2>2 DEF Enough, CommitDeduction, Accounts
    <3>2. /\ row.balance \in Int /\ row.totalPurchased \in Nat
          /\ row.balance >= row.totalPurchased - charged
      BY <2>1, RowAssumption DEF Accounts, AccountInv, Solvent
    <3>3. Solvent(row)'
      BY <2>1, <3>1, <3>2 DEF Solvent
    <3>4. ASSUME NEW t \in Toppers PROVE Solvent(snap[t])'
      <4>1. snap[t] \in Accounts \cup {NoRow} /\ snap'[t] = snap[t]
        BY <1>1 DEF Deduct, TypeInv, TypeOK, Requests
      <4>2. charged' \in Nat /\ charged <= charged'
        BY <2>1, <3>1
      <4> QED BY <2>1, <4>1, <4>2, SolventGrows DEF AccountInv, Solvent
    <3> QED BY <3>3, <3>4 DEF AccountInv
  <2>3. CASE UNCHANGED <<row, charged, paid>>
    BY <1>1, <2>3, AccountIdle DEF Deduct
  <2> QED BY <1>1, <2>2, <2>3 DEF Deduct
<1>2. CASE LockCredit(s)
  BY <1>2, AccountIdle, ActorAssumption
  DEF LockCredit, ghosts, TypeInv, TypeOK, Requests
<1>3. CASE ~Deduct(s) /\ ~LockCredit(s)
  <2>1. UNCHANGED <<row, charged, snap>>
    BY <1>3 DEF SenderStep, Refuse, BeginSingle, BeginBulk, Begin, CreateCampaign,
                MarkSending, CallGateway, RecordResult, MarkFailed, ghosts
  <2> QED BY <2>1, AccountIdle
<1> QED BY <1>1, <1>2, <1>3

\* Nor does a top-up, however stale the account it read.
LEMMA TopperAccount == ASSUME NEW t \in Toppers, TypeInv, AccountInv, TopperStep(t)
                       PROVE  AccountInv'
<1>1. CASE ReadForTopup(t)
  BY <1>1, AccountIdle DEF ReadForTopup, ghosts, TypeInv, TypeOK, Requests
<1>2. CASE CommitTopup(t)
  <2>1. UNCHANGED <<charged, snap>> /\ charged \in Nat /\ amount[t] \in Nat
    BY <1>2 DEF CommitTopup, TypeInv, TypeOK, Requests
  <2>2. CASE UNCHANGED <<row, granted>>
    BY <2>1, <2>2, AccountIdle
  <2>3. CASE row' = [balance |-> NewBalance(t),
                     totalPurchased |-> NewPurchased(t),
                     totalUsed |-> IF row = NoRow THEN 0 ELSE row.totalUsed]
    <3> DEFINE r == AccountRead(t)
    <3>1. r \in Accounts /\ r.balance >= 0 /\ r.balance >= r.totalPurchased - charged
      BY <2>1, ReadType
      DEF AccountRead, EmptyAccount, AccountInv, Solvent, TypeInv, TypeOK, Requests
    <3>2. /\ row'.balance = r.balance + amount[t]
          /\ row'.totalPurchased = r.totalPurchased + amount[t]
      BY <2>3 DEF NewBalance, NewPurchased
    <3>3. r.balance \in Int /\ r.totalPurchased \in Nat
      BY <3>1 DEF Accounts
    <3>4. Solvent(row)'
      <4> HIDE DEF r
      <4> QED BY <2>1, <3>1, <3>2, <3>3 DEF Solvent
    <3> QED BY <2>1, <3>4 DEF AccountInv, Solvent
  <2> QED BY <1>2, <2>2, <2>3 DEF CommitTopup
<1> QED BY <1>1, <1>2 DEF TopperStep

\* An enquiry writes the empty account or nothing.
LEMMA ViewerAccount == ASSUME NEW v \in Viewers, TypeInv, AccountInv, ViewerStep(v)
                       PROVE  AccountInv'
<1>1. CASE ViewBalance(v)
  BY <1>1, AccountIdle DEF ViewBalance, ghosts
<1>2. CASE ReloadForSave(v)
  BY <1>2, AccountIdle, ActorAssumption
  DEF ReloadForSave, ghosts, TypeInv, TypeOK, Requests
<1>3. CASE SaveEmpty(v)
  <2>1. UNCHANGED <<charged, snap>> /\ charged \in Nat
    BY <1>3 DEF SaveEmpty, ghosts, TypeInv, TypeOK
  <2>2. Solvent(EmptyAccount)'
    BY <2>1 DEF Solvent, EmptyAccount
  <2>3. row' = row \/ row' = EmptyAccount
    BY <1>3 DEF SaveEmpty
  <2> QED BY <2>1, <2>2, <2>3 DEF AccountInv, Solvent
<1> QED BY <1>1, <1>2, <1>3 DEF ViewerStep

\* An opening account is solvent.
LEMMA InitAccount == Init => AccountInv
BY RowAssumption DEF Init, AccountInv, Solvent, Accounts, Requests

\* Every step leaves the account, and what toppers read of it, solvent.
LEMMA NextAccount == TypeInv /\ AccountInv /\ [Next]_vars => AccountInv'
<1> SUFFICES ASSUME TypeInv, AccountInv, [Next]_vars PROVE AccountInv'
  OBVIOUS
<1>1. CASE Crash
  BY <1>1, AccountIdle DEF Crash, ghosts
<1>2. CASE UNCHANGED vars
  BY <1>2, AccountIdle DEF vars
<1> QED BY <1>1, <1>2, SenderAccount, TopperAccount, ViewerAccount DEF Next

\* A solvent account is not overdrawn and not understated.
LEMMA AccountSafe == AccountInv => NeverOverdrawn /\ NeverUnderstated
BY DEF AccountInv, Solvent, NeverOverdrawn, NeverUnderstated, BalanceOf

\* Whatever races for the account of an institute, its balance never goes
\* negative.
THEOREM NotOverdrawn == Spec => []NeverOverdrawn
<1>1. Init => TypeInv /\ AccountInv
  BY InitType, InitAccount
<1>2. TypeInv /\ AccountInv /\ [Next]_vars => (TypeInv /\ AccountInv)'
  BY NextType, NextAccount
<1>3. AccountInv => NeverOverdrawn
  BY AccountSafe
<1> QED BY <1>1, <1>2, <1>3, PTL DEF Spec

\* A lost update of the account is always in the institute's favour: it still
\* holds what the row says was purchased less all that was ever charged.
THEOREM NotUnderstated == Spec => []NeverUnderstated
<1>1. Init => TypeInv /\ AccountInv
  BY InitType, InitAccount
<1>2. TypeInv /\ AccountInv /\ [Next]_vars => (TypeInv /\ AccountInv)'
  BY NextType, NextAccount
<1>3. AccountInv => NeverUnderstated
  BY AccountSafe
<1> QED BY <1>1, <1>2, <1>3, PTL DEF Spec

\* Both together: the balance is sound whatever sends, top-ups and enquiries
\* overlap.
THEOREM SoundBalance == Spec => []BalanceSound
<1>1. NeverOverdrawn /\ NeverUnderstated => BalanceSound
  BY DEF BalanceSound
<1> QED BY <1>1, NotOverdrawn, NotUnderstated, PTL

-----------------------------------------------------------------------------
(* Nothing is delivered that was not paid for                              *)

\* Where a request stands tells whether it was charged and sent.
PaidInv == /\ delivered \subseteq paid
           /\ \A s \in Senders :
                /\ pc[s] \in {"idle", "lock", "deduct"} => s \notin paid
                /\ pc[s] \in {"record", "start", "gateway"} => s \in paid \ delivered

\* A sender delivers only behind its own committed deduction.
LEMMA SenderPaid == ASSUME NEW s \in Senders, TypeInv, PaidInv, SenderStep(s)
                    PROVE  PaidInv'
<1> USE DEF PaidInv, Goto, ghosts
<1>0. pc \in [Requests -> PCs] /\ s \in Requests /\ Senders \subseteq Requests
  BY DEF TypeInv, TypeOK, Requests
<1>1. CASE Refuse(s) \/ BeginSingle(s) \/ BeginBulk(s)
  BY <1>0, <1>1 DEF Refuse, BeginSingle, BeginBulk, Begin
<1>2. CASE LockCredit(s)
  BY <1>0, <1>2 DEF LockCredit
<1>3. CASE Deduct(s)
  BY <1>0, <1>3 DEF Deduct, CommitDeduction
<1>4. CASE CreateCampaign(s) \/ MarkSending(s)
  BY <1>0, <1>4 DEF CreateCampaign, MarkSending
<1>5. CASE CallGateway(s)
  BY <1>0, <1>5 DEF CallGateway
<1>6. CASE RecordResult(s) \/ MarkFailed(s)
  BY <1>0, <1>6 DEF RecordResult, MarkFailed
<1> QED BY <1>1, <1>2, <1>3, <1>4, <1>5, <1>6 DEF SenderStep

\* Top-ups, enquiries and crashes charge and send nothing.
LEMMA OthersPaid ==
  ASSUME TypeInv, PaidInv,
         Crash \/ UNCHANGED vars \/ (\E t \in Toppers : TopperStep(t))
               \/ (\E v \in Viewers : ViewerStep(v))
  PROVE  PaidInv'
<1>0. UNCHANGED <<paid, delivered>>
  BY DEF Crash, vars, TopperStep, ReadForTopup, CommitTopup, ViewerStep,
         ViewBalance, ReloadForSave, SaveEmpty, ghosts
<1>1. ASSUME NEW s \in Senders
      PROVE  pc'[s] = pc[s] \/ pc'[s] = "done"
  <2>1. ASSUME NEW r \in Toppers \cup Viewers, NEW to, pc' = [pc EXCEPT ![r] = to]
        PROVE  pc'[s] = pc[s]
    BY <2>1, ActorAssumption DEF TypeInv, TypeOK, Requests
  <2>2. CASE Crash
    BY <2>2 DEF Crash, Requests, TypeInv, TypeOK
  <2>3. CASE UNCHANGED vars
    BY <2>3 DEF vars
  <2>4. CASE \E t \in Toppers : TopperStep(t)
    BY <2>1, <2>4 DEF TopperStep, ReadForTopup, CommitTopup, Goto
  <2>5. CASE \E v \in Viewers : ViewerStep(v)
    BY <2>1, <2>5 DEF ViewerStep, ViewBalance, ReloadForSave, SaveEmpty, Goto
  <2> QED BY <2>2, <2>3, <2>4, <2>5
<1> QED BY <1>0, <1>1 DEF PaidInv

\* Every step preserves that what is delivered is paid.
LEMMA NextPaid == TypeInv /\ PaidInv /\ [Next]_vars => PaidInv'
<1> SUFFICES ASSUME TypeInv, PaidInv, [Next]_vars PROVE PaidInv'
  OBVIOUS
<1>1. CASE \E s \in Senders : SenderStep(s)
  BY <1>1, SenderPaid
<1>2. CASE ~ \E s \in Senders : SenderStep(s)
  BY <1>2, OthersPaid DEF Next
<1> QED BY <1>1, <1>2

\* No message reaches the gateway for which no deduction committed, whatever
\* crashes and whichever statements fail.
THEOREM DeliveredPaid == Spec => []DeliveredArePaid
<1>1. Init => TypeInv /\ PaidInv
  BY InitType DEF Init, PaidInv, Requests
<1>2. TypeInv /\ PaidInv /\ [Next]_vars => (TypeInv /\ PaidInv)'
  BY NextType, NextPaid
<1>3. PaidInv => DeliveredArePaid
  BY DEF PaidInv, DeliveredArePaid
<1> QED BY <1>1, <1>2, <1>3, PTL DEF Spec

-----------------------------------------------------------------------------
(* A campaign that says SUCCESS was sent                                   *)

\* What the gateway answered to a bulk campaign, and what its row says of it,
\* is no more than what the gateway took.
SuccessInv == \A s \in BulkSenders :
                /\ answer[s] = "success" => s \in delivered
                /\ campaign[s] = "SUCCESS" => s \in delivered

\* A step that keeps the answers and turns no campaign to SUCCESS.
LEMMA SuccessIdle ==
  ASSUME SuccessInv, UNCHANGED answer, delivered \subseteq delivered',
         \A s \in BulkSenders : campaign'[s] = "SUCCESS" =>
            campaign[s] = "SUCCESS" \/ answer[s] = "success"
  PROVE  SuccessInv'
BY DEF SuccessInv

\* A sender believes the gateway, and no failure makes it say SUCCESS.
LEMMA SenderSuccess == ASSUME NEW s \in Senders, TypeInv, SuccessInv, SenderStep(s)
                       PROVE  SuccessInv'
<1>0. /\ campaign \in [Senders -> CampaignStatuses \cup {NoCampaign}]
      /\ answer \in [Senders -> {"none", "success", "failure"}]
      /\ BulkSenders \subseteq Senders
  BY ActorAssumption DEF TypeInv, TypeOK
<1>1. CASE Refuse(s) \/ BeginSingle(s) \/ BeginBulk(s) \/ LockCredit(s) \/ Deduct(s)
  BY <1>1, SuccessIdle
  DEF Refuse, BeginSingle, BeginBulk, Begin, LockCredit, Deduct
<1>2. CASE CreateCampaign(s) \/ MarkSending(s) \/ MarkFailed(s)
  BY <1>0, <1>2, SuccessIdle DEF CreateCampaign, MarkSending, MarkFailed
<1>3. CASE CallGateway(s)
  BY <1>0, <1>3 DEF CallGateway, Answer, SuccessInv
<1>4. CASE RecordResult(s)
  BY <1>0, <1>4, SuccessIdle DEF RecordResult, Verdict
<1> QED BY <1>1, <1>2, <1>3, <1>4 DEF SenderStep

\* Every step keeps it, a crash in the middle of a campaign included.
LEMMA NextSuccess == TypeInv /\ SuccessInv /\ [Next]_vars => SuccessInv'
<1> SUFFICES ASSUME TypeInv, SuccessInv, [Next]_vars PROVE SuccessInv'
  OBVIOUS
<1>1. CASE Crash \/ UNCHANGED vars
  BY <1>1, SuccessIdle DEF Crash, vars
<1>2. CASE \E t \in Toppers : TopperStep(t)
  BY <1>2, SuccessIdle DEF TopperStep, ReadForTopup, CommitTopup
<1>3. CASE \E v \in Viewers : ViewerStep(v)
  BY <1>3, SuccessIdle DEF ViewerStep, ViewBalance, ReloadForSave, SaveEmpty
<1> QED BY <1>1, <1>2, <1>3, SenderSuccess DEF Next

\* A bulk campaign recorded as SUCCESS was accepted by the gateway, whatever
\* fails or crashes between the answer and the row that records it.
THEOREM SuccessTrue == Spec => []SuccessIsDelivered
<1>1. Init => TypeInv /\ SuccessInv
  BY InitType, ActorAssumption DEF Init, SuccessInv, NoCampaign
<1>2. TypeInv /\ SuccessInv /\ [Next]_vars => (TypeInv /\ SuccessInv)'
  BY NextType, NextSuccess
<1>3. SuccessInv => SuccessIsDelivered
  BY DEF SuccessInv, SuccessIsDelivered
<1> QED BY <1>1, <1>2, <1>3, PTL DEF Spec

-----------------------------------------------------------------------------
(* Without top-ups the account is an exact prepaid ledger                  *)

\* What the books of an account nobody tops up look like between two steps.
\* An enquiry that is about to write zeros does so to an account that was
\* created empty and from which nothing could be charged.
BooksInv ==
  /\ row # NoRow => row.balance = row.totalPurchased - charged
  /\ row = NoRow => charged = 0
  /\ \A s \in Senders : pc[s] \in {"lock", "deduct"} => amount[s] \in Amounts
  /\ \A v \in Viewers : pc[v] \in {"reload", "save"} =>
       /\ charged = 0
       /\ row # NoRow => row.balance = 0 /\ row.totalPurchased = 0

\* What a request may cost is a positive natural number.
LEMMA AmountsPositive == Amounts \subseteq Nat \ {0}
BY CostType DEF Amounts

\* Where a request goes is of interest to the books only in four places.
LEMMA BooksIdle ==
  ASSUME BooksInv, UNCHANGED <<row, charged>>,
         \A s \in Senders : pc'[s] \in {"lock", "deduct"} =>
            (pc[s] \in {"lock", "deduct"} /\ amount'[s] = amount[s])
              \/ amount'[s] \in Amounts,
         \A v \in Viewers : pc'[v] \in {"reload", "save"} =>
            pc[v] \in {"reload", "save"}
  PROVE  BooksInv'
BY DEF BooksInv

\* A sender moves the same credits in the row and in the books.
LEMMA SenderBooks == ASSUME NEW s \in Senders, TypeInv, BooksInv, SenderStep(s)
                     PROVE  BooksInv'
<1>0. /\ pc \in [Requests -> PCs] /\ s \in Requests /\ s \notin Viewers
      /\ Senders \subseteq Requests /\ Viewers \subseteq Requests
      /\ amount \in [Requests -> Nat] /\ charged \in Nat
  BY ActorAssumption DEF TypeInv, TypeOK, Requests
<1>1. ASSUME NEW from, NEW to, Goto(s, from, to)
      PROVE  /\ \A q \in Senders : q # s => pc'[q] = pc[q]
             /\ pc'[s] = to
             /\ \A v \in Viewers : pc'[v] = pc[v]
  BY <1>0, <1>1 DEF Goto
<1>2. ASSUME NEW n \in Amounts, Begin(s, n) PROVE BooksInv'
  <2>1. UNCHANGED <<row, charged>> /\ amount' = [amount EXCEPT ![s] = n]
    BY <1>2 DEF Begin, ghosts
  <2>2. Goto(s, "idle", "lock")
    BY <1>2 DEF Begin
  <2> QED BY <1>0, <1>1, <1>2, <2>1, <2>2, BooksIdle
<1>3. CASE BeginSingle(s) \/ BeginBulk(s)
  BY <1>2, <1>3 DEF BeginSingle, BeginBulk, Amounts
<1>4. CASE Deduct(s)
  <2>1. /\ snap[s] = row /\ row \in Accounts /\ row # NoRow
        /\ amount[s] \in Nat \ {0}
    BY <1>4, AmountsPositive DEF Deduct, TypeInv, TypeOK, RowHeld, BooksInv
  <2>2. PICK to \in {"record", "done"} : Goto(s, "deduct", to)
    BY <1>4 DEF Deduct
  <2>3. UNCHANGED amount
    BY <1>4 DEF Deduct
  <2>4. CASE Enough(s) /\ CommitDeduction(s)
    <3>1. /\ row'.balance = row.balance - amount[s]
          /\ row'.totalPurchased = row.totalPurchased
          /\ charged' = charged + amount[s]
          /\ row.balance >= amount[s]
      BY <2>1, <2>4 DEF Enough, CommitDeduction, Accounts
    <3>2. row.balance \in Int /\ row.totalPurchased \in Nat
      BY <2>1 DEF Accounts
    <3>3. row'.balance = row'.totalPurchased - charged'
      BY <1>0, <2>1, <3>1, <3>2 DEF BooksInv
    <3>4. \A v \in Viewers : pc[v] \notin {"reload", "save"}
      BY <2>1, <3>1 DEF BooksInv
    <3>5. row' # NoRow
      <4>1. AppendAndRound(snap[s].totalUsed, amount[s]) \in Nat
        BY <2>1, AppendType DEF Accounts
      <4>2. snap[s].balance - amount[s] \in Int
        BY <2>1, <3>2
      <4>3. row' \in Accounts
        BY <2>1, <2>4, <4>1, <4>2 DEF CommitDeduction, Accounts
      <4> QED BY <4>3, RowAssumption
    <3>6. \A q \in Senders : pc'[q] \in {"lock", "deduct"} => amount'[q] \in Amounts
      BY <1>1, <2>2, <2>3 DEF BooksInv
    <3>7. \A v \in Viewers : pc'[v] \notin {"reload", "save"}
      BY <1>1, <2>2, <3>4
    <3> QED BY <3>3, <3>5, <3>6, <3>7 DEF BooksInv
  <2>5. CASE UNCHANGED <<row, charged, paid>>
    BY <1>1, <2>2, <2>3, <2>5, BooksIdle
  <2> QED BY <1>4, <2>4, <2>5 DEF Deduct
<1>5. CASE ~Deduct(s) /\ ~BeginSingle(s) /\ ~BeginBulk(s)
  <2>1. UNCHANGED <<row, charged, amount>>
    BY <1>5 DEF SenderStep, Refuse, LockCredit, CreateCampaign, MarkSending,
                CallGateway, RecordResult, MarkFailed, ghosts
  <2>2. \/ Goto(s, "lock", "deduct")
        \/ \E from \in PCs : \E to \in PCs \ {"lock", "deduct"} : Goto(s, from, to)
    BY <1>5 DEF SenderStep, Refuse, LockCredit, CreateCampaign, MarkSending,
                CallGateway, RecordResult, MarkFailed, PCs
  <2>3. CASE Goto(s, "lock", "deduct")
    <3>1. pc[s] = "lock"
      BY <2>3 DEF Goto
    <3> QED BY <1>1, <2>1, <2>3, <3>1, BooksIdle
  <2>4. ASSUME NEW from \in PCs, NEW to \in PCs \ {"lock", "deduct"}, Goto(s, from, to)
        PROVE  BooksInv'
    BY <1>1, <2>1, <2>4, BooksIdle
  <2> QED BY <2>2, <2>3, <2>4
<1> QED BY <1>3, <1>4, <1>5

\* An enquiry writes an empty account only where the books are empty.
LEMMA ViewerBooks == ASSUME NEW v \in Viewers, TypeInv, BooksInv, ViewerStep(v)
                     PROVE  BooksInv'
<1>0. /\ pc \in [Requests -> PCs] /\ v \in Requests /\ v \notin Senders
      /\ Viewers \subseteq Requests
  BY ActorAssumption DEF TypeInv, TypeOK, Requests
<1> USE DEF BooksInv, Goto, ghosts
<1>1. CASE ViewBalance(v)
  BY <1>0, <1>1 DEF ViewBalance
<1>2. CASE ReloadForSave(v)
  BY <1>0, <1>2 DEF ReloadForSave
<1>3. CASE SaveEmpty(v)
  BY <1>0, <1>3, ReadType, RowAssumption DEF SaveEmpty, EmptyAccount
<1> QED BY <1>1, <1>2, <1>3 DEF ViewerStep

\* An opening account agrees with the books.
LEMMA InitBooks == Init => BooksInv
BY RowAssumption DEF Init, BooksInv, Accounts, Requests

\* Without top-ups every step keeps row and books in agreement.
LEMMA NextBooks == ASSUME Toppers = {}, TypeInv, BooksInv, [Next]_vars
                   PROVE  BooksInv'
<1>1. CASE Crash
  BY <1>1 DEF Crash, BooksInv, ghosts, Requests
<1>2. CASE UNCHANGED vars
  BY <1>2 DEF vars, BooksInv
<1> QED BY <1>1, <1>2, SenderBooks, ViewerBooks DEF Next

\* As long as nobody tops an account up, its balance is to the credit what was
\* purchased less what was charged, however the deductions interleave.
THEOREM BooksExact == ASSUME Toppers = {} PROVE Spec => []LedgerExact
<1>1. Init => TypeInv /\ BooksInv
  BY InitType, InitBooks
<1>2. TypeInv /\ BooksInv /\ [Next]_vars => (TypeInv /\ BooksInv)'
  BY NextType, NextBooks
<1>3. BooksInv => LedgerExact
  BY DEF BooksInv, LedgerExact
<1> QED BY <1>1, <1>2, <1>3, PTL DEF Spec

\* A step that touches neither what is available nor who paid or was served is
\* invisible to the ledger.
LEMMA LedgerStutter == ASSUME UNCHANGED <<BalanceOf(row), paid, delivered>>
                       PROVE  UNCHANGED Ledger!ledgerVars
BY DEF Ledger!ledgerVars

\* A step of a sender is a step of the ledger or a stutter.
LEMMA SenderLedger ==
  ASSUME NEW s \in Senders, TypeInv, PaidInv, BooksInv, SenderStep(s)
  PROVE  [Ledger!LedgerNext]_(Ledger!ledgerVars)
<1>1. CASE Deduct(s)
  <2>1. /\ snap[s] = row /\ row \in Accounts /\ row # NoRow
        /\ amount[s] \in Amounts /\ amount[s] \in Nat \ {0}
        /\ s \notin paid /\ UNCHANGED delivered
    BY <1>1, AmountsPositive
    DEF Deduct, TypeInv, TypeOK, RowHeld, PaidInv, BooksInv
  <2>2. CASE Enough(s) /\ CommitDeduction(s)
    <3>1. /\ row'.balance = row.balance - amount[s]
          /\ row.balance >= amount[s]
          /\ paid' = paid \cup {s}
      BY <2>1, <2>2 DEF Enough, CommitDeduction, Accounts
    <3>2. row' # NoRow
      <4>1. AppendAndRound(snap[s].totalUsed, amount[s]) \in Nat
        BY <2>1, AppendType DEF Accounts
      <4>2. snap[s].balance - amount[s] \in Int
        BY <2>1 DEF Accounts
      <4>3. row' \in Accounts
        BY <2>1, <2>2, <4>1, <4>2 DEF CommitDeduction, Accounts
      <4> QED BY <4>3, RowAssumption
    <3>3. row.balance \in Int
      BY <2>1 DEF Accounts
    <3>4. Ledger!Charge(s, amount[s])
      BY <2>1, <3>1, <3>2, <3>3 DEF Ledger!Charge, BalanceOf
    <3> QED BY <2>1, <3>4 DEF Ledger!LedgerNext
  <2>3. CASE UNCHANGED <<row, charged, paid>>
    BY <2>1, <2>3, LedgerStutter DEF BalanceOf
  <2> QED BY <1>1, <2>2, <2>3 DEF Deduct
<1>2. CASE CallGateway(s)
  <2>1. s \in paid \ delivered /\ UNCHANGED <<row, paid>>
    BY <1>2 DEF CallGateway, PaidInv, Goto, ghosts
  <2>2. CASE delivered' = delivered \cup {s}
    <3>1. Ledger!Deliver(s)
      BY <2>1, <2>2 DEF Ledger!Deliver, BalanceOf
    <3> QED BY <3>1 DEF Ledger!LedgerNext
  <2>3. CASE UNCHANGED delivered
    BY <2>1, <2>3, LedgerStutter DEF BalanceOf
  <2> QED BY <1>2, <2>2, <2>3 DEF CallGateway
<1>3. CASE ~Deduct(s) /\ ~CallGateway(s)
  <2>1. UNCHANGED <<row, paid, delivered>>
    BY <1>3 DEF SenderStep, Refuse, BeginSingle, BeginBulk, Begin, LockCredit,
                CreateCampaign, MarkSending, RecordResult, MarkFailed, ghosts
  <2> QED BY <2>1, LedgerStutter DEF BalanceOf
<1> QED BY <1>1, <1>2, <1>3

\* The zeros an enquiry writes replace nothing but zeros.
LEMMA ViewerLedger ==
  ASSUME NEW v \in Viewers, TypeInv, BooksInv, ViewerStep(v)
  PROVE  UNCHANGED <<BalanceOf(row), paid, delivered>>
<1>1. CASE ViewBalance(v) \/ ReloadForSave(v)
  BY <1>1 DEF ViewBalance, ReloadForSave, BalanceOf, ghosts
<1>2. CASE SaveEmpty(v)
  <2>1. BalanceOf(row) = 0
    BY <1>2 DEF SaveEmpty, Goto, BooksInv, BalanceOf
  <2>2. EmptyAccount # NoRow /\ EmptyAccount.balance = 0
    BY ReadType, RowAssumption DEF EmptyAccount, Accounts
  <2> QED BY <1>2, <2>1, <2>2 DEF SaveEmpty, BalanceOf, ghosts
<1> QED BY <1>1, <1>2 DEF ViewerStep

\* A step of the service is a step of the ledger or a stutter.
LEMMA NextLedger ==
  ASSUME Toppers = {}, TypeInv, PaidInv, BooksInv, [Next]_vars
  PROVE  [Ledger!LedgerNext]_(Ledger!ledgerVars)
<1>1. CASE Crash
  BY <1>1, LedgerStutter DEF Crash, BalanceOf, ghosts
<1>2. CASE UNCHANGED vars
  BY <1>2, LedgerStutter DEF vars, BalanceOf
<1>3. CASE \E v \in Viewers : ViewerStep(v)
  BY <1>3, ViewerLedger, LedgerStutter
<1> QED BY <1>1, <1>2, <1>3, SenderLedger DEF Next

\* The initial states are initial states of the ledger.
LEMMA InitLedger == Init => Ledger!LedgerInit
BY RowAssumption DEF Init, Ledger!LedgerInit, BalanceOf, Accounts

\* The instant SMS service, without top-ups, is a prepaid ledger: each request
\* is charged once, within what is available, before it is delivered.
THEOREM ImplementsLedger == ASSUME Toppers = {} PROVE Spec => LedgerSpec
<1>1. Init => TypeInv /\ PaidInv /\ BooksInv /\ Ledger!LedgerInit
  BY InitType, InitBooks, InitLedger DEF Init, PaidInv, Requests
<1>2. TypeInv /\ PaidInv /\ BooksInv /\ [Next]_vars => (TypeInv /\ PaidInv /\ BooksInv)'
  BY NextType, NextPaid, NextBooks
<1>3. TypeInv /\ PaidInv /\ BooksInv /\ [Next]_vars
        => [Ledger!LedgerNext]_(Ledger!ledgerVars)
  BY NextLedger
<1> QED BY <1>1, <1>2, <1>3, PTL DEF Spec, LedgerSpec, Ledger!LedgerSpec
=============================================================================
