---------------------------- MODULE Subscriptions ----------------------------
(***************************************************************************)
(* The payments one user makes for a subscription, month by month, and     *)
(* their verification, which changes the plan of the user                  *)
(* (src/modules/payment/services/payment.service.ts).  A payment is named  *)
(* by the createPayment call that makes it.  A verification is one         *)
(* transaction: it locks the rows of the payment and its user, and         *)
(* refreshes the cached user on another connection of the pool before it   *)
(* commits.                                                                *)
(***************************************************************************)
EXTENDS Integers, FiniteSets, Calls

CONSTANTS BillSubmits,   \* createPayment calls
          BillVerifiers, \* verifyPayment calls
          Months,        \* months that are paid for
          Connections,   \* size of the pool
          NoBill,        \* no payment; the FREE plan of a user nothing granted
          Nobody         \* verified_by IS NULL; no holder of the lock

ASSUME ConnectionsAssumption == Connections \in Nat \ {0}

BillCalls == BillSubmits \cup BillVerifiers

VARIABLES bills,     \* the payment of each createPayment call
          plan,      \* the payment that last set plan and expiry of the user
          bpc,       \* where each call is
          monthOf,   \* the month of each createPayment call
          billCase,  \* the payment each verification is about
          ruling,    \* the status each verification gives
          locker     \* who holds the row locks of the user's payments

billVars == <<bills, plan, bpc, monthOf, billCase, ruling, locker>>

PaymentStatus == {"PENDING", "VERIFIED", "REJECTED", "EXPIRED"}

Bills == [status : PaymentStatus, verifiedBy : BillVerifiers \cup {Nobody}]

ASSUME BillNamesAssumption == /\ BillSubmits \cap BillVerifiers = {}
                              /\ Nobody \notin BillVerifiers
                              /\ NoBill \notin BillSubmits
                              /\ NoBill \notin Bills

Created == {b \in BillSubmits : bills[b] # NoBill}

BillInit == /\ bills = [b \in BillSubmits |-> NoBill]
            /\ plan = NoBill
            /\ bpc = [c \in BillCalls |-> Coming(c)]
            /\ monthOf \in About(BillSubmits, Months)
            /\ billCase \in About(BillVerifiers, BillSubmits)
            /\ ruling = [v \in BillVerifiers |-> "PENDING"]
            /\ locker = Nobody

BillGoto(c, from, to) == bpc[c] = from /\ bpc' = [bpc EXCEPT ![c] = to]

BillMayBegin == world.serial => \A c \in BillCalls : bpc[c] \in {"idle", "done"}

-----------------------------------------------------------------------------
(* createPayment                                                           *)

HasBill(m) == \E b \in Created : monthOf[b] = m /\ bills[b].status = "PENDING"

FindBill(b) ==
  /\ BillMayBegin
  /\ BillGoto(b, "idle", IF HasBill(monthOf[b]) THEN "done" ELSE "insert")
  /\ UNCHANGED <<bills, plan, monthOf, billCase, ruling, locker>>

InsertBill(b) ==
  /\ BillGoto(b, "insert", "done")
  /\ bills' = [bills EXCEPT ![b] = [status |-> "PENDING", verifiedBy |-> Nobody]]
  /\ UNCHANGED <<plan, monthOf, billCase, ruling, locker>>

-----------------------------------------------------------------------------
(* verifyPayment                                                           *)

InTransaction == {v \in BillVerifiers : bpc[v] \in {"lock", "refresh", "commit"}}

BillConnectionFree == Cardinality(InTransaction) < Connections

BeginBill(v) ==
  /\ BillMayBegin
  /\ BillConnectionFree
  /\ BillGoto(v, "idle", "lock")
  /\ UNCHANGED <<bills, plan, monthOf, billCase, ruling, locker>>

Unlocked_Mutant(b) == TRUE
Unlocked(b) == locker = Nobody

Verifiable(b) == b \in Created /\ bills[b].status = "PENDING"

\* A payment that does not exist locks nothing; a refusal rolls back.
LockBill(v) ==
  /\ Unlocked(billCase[v])
  /\ IF Verifiable(billCase[v])
       THEN \E s \in PaymentStatus :
              /\ BillGoto(v, "lock", IF s = "VERIFIED" THEN "refresh" ELSE "commit")
              /\ ruling' = [ruling EXCEPT ![v] = s]
              /\ locker' = v
       ELSE BillGoto(v, "lock", "done") /\ UNCHANGED <<ruling, locker>>
  /\ UNCHANGED <<bills, plan, monthOf, billCase>>

CanRefresh_Mutant(v) == BillConnectionFree /\ locker = Nobody
CanRefresh(v) == BillConnectionFree

\* refreshUserCache reads the user outside the transaction, without a lock;
\* what goes wrong there is ignored.
RefreshUser(v) ==
  /\ CanRefresh(v)
  /\ BillGoto(v, "refresh", "commit")
  /\ UNCHANGED <<bills, plan, monthOf, billCase, ruling, locker>>

GrantedPlan_Mutant(v) == billCase[v]
GrantedPlan(v) == IF ruling[v] = "VERIFIED" THEN billCase[v] ELSE plan

\* The updates of payment and user become visible together.
CommitBill(v) ==
  /\ BillGoto(v, "commit", "done")
  /\ bills' = [bills EXCEPT ![billCase[v]] = [status |-> ruling[v], verifiedBy |-> v]]
  /\ plan' = GrantedPlan(v)
  /\ locker' = Nobody
  /\ UNCHANGED <<monthOf, billCase, ruling>>

RollBackBill(v) ==
  /\ world.faulty
  /\ \E at \in {"lock", "refresh", "commit"} : BillGoto(v, at, "done")
  /\ locker' = IF locker = v THEN Nobody ELSE locker
  /\ UNCHANGED <<bills, plan, monthOf, billCase, ruling>>

BillStep(c) == \/ c \in BillSubmits /\ (FindBill(c) \/ InsertBill(c))
               \/ c \in BillVerifiers /\ \/ BeginBill(c) \/ LockBill(c)
                                         \/ RefreshUser(c) \/ CommitBill(c)
                                         \/ RollBackBill(c)

BillNext == \E c \in BillCalls : BillStep(c)

BillsFinished == \A c \in BillCalls : bpc[c] = "done"

-----------------------------------------------------------------------------
(* Properties                                                              *)

\* Payments, plan, calls and lock have their types.
BillTypeOK ==
  /\ bills \in [BillSubmits -> Bills \cup {NoBill}]
  /\ plan \in BillSubmits \cup {NoBill}
  /\ bpc \in [BillCalls -> {"idle", "insert", "lock", "refresh", "commit", "done"}]
  /\ monthOf \in [BillSubmits -> Months]
  /\ billCase \in [BillVerifiers -> BillSubmits]
  /\ ruling \in [BillVerifiers -> PaymentStatus]
  /\ locker \in BillVerifiers \cup {Nobody}

\* "Payment for month ... already exists and is pending verification": one at
\* a time, a month being paid again after a rejection.
OneBillAMonth ==
  world.serial => \A a, b \in Created :
    /\ monthOf[a] = monthOf[b]
    /\ bills[a].status = "PENDING" /\ bills[b].status = "PENDING"
    => a = b

\* A user has a paid plan exactly when a payment was verified, and it is the
\* plan of a verified payment, whatever fails or overlaps.
PlanIsPaid ==
  /\ plan # NoBill => plan \in Created /\ bills[plan].status = "VERIFIED"
  /\ plan = NoBill => \A b \in Created : bills[b].status # "VERIFIED"

\* "Payment is not in pending status": a payment is decided once, and grants a
\* plan in the step that verifies it and never again, however verifications
\* of the same payment overlap.
GrantedByVerifying ==
  [][/\ \A b \in Created : bills[b].status # "PENDING" => bills'[b] = bills[b]
     /\ plan' # plan => bills[plan'].status = "PENDING"]_<<bills, plan>>

\* Every verification ends: no one keeps the lock or a connection another
\* needs, as long as there are fewer verifications at a time than connections.
BillsEnd == \A v \in BillVerifiers : bpc[v] = "lock" ~> bpc[v] = "done"
=============================================================================
