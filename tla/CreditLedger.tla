---------------------------- MODULE CreditLedger ----------------------------
(***************************************************************************)
(* What a prepaid message account promises: a request is paid for once,    *)
(* never with more than is available, and nothing is delivered that was    *)
(* not paid for.  Money only leaves the account; putting money in is not   *)
(* part of this promise.                                                   *)
(***************************************************************************)
EXTENDS Naturals

CONSTANTS Requests,     \* the identities of send requests
          Amounts       \* what one request may cost, natural numbers

VARIABLES available,    \* credits that can still be spent
          paid,         \* requests that have been charged
          delivered     \* requests whose messages went out

ledgerVars == <<available, paid, delivered>>

LedgerInit == /\ available \in Nat
              /\ paid = {}
              /\ delivered = {}

Charge(r, n) == /\ r \notin paid
                /\ n <= available
                /\ available' = available - n
                /\ paid' = paid \cup {r}
                /\ UNCHANGED delivered

Deliver(r) == /\ r \in paid \ delivered
              /\ delivered' = delivered \cup {r}
              /\ UNCHANGED <<available, paid>>

LedgerNext == \E r \in Requests : (\E n \in Amounts : Charge(r, n)) \/ Deliver(r)

LedgerSpec == LedgerInit /\ [][LedgerNext]_ledgerVars
=============================================================================
