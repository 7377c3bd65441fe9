------------------------------- MODULE MCFees -------------------------------
(***************************************************************************)
(* Each service alone in two kinds of days: calls one after the other,     *)
(* enough of them for a submission, its verdict and a second round; and    *)
(* overlapping submissions, verdicts and deletions.                        *)
(***************************************************************************)
EXTENDS Fees

CONSTANTS fs1, fs2, fv1, fv2, fu1,
          ss1, ss2, sv1, sv2, sv3, sd1, du1,
          bs1, bs2, bs3, bv1, bv2

OneFee == {[amount |-> 1, active |-> TRUE, status |-> "ACTIVE"]}

Queue(calls)   == [calls |-> calls, serial |-> TRUE, faulty |-> TRUE]
Overlap(calls) == [calls |-> calls, serial |-> FALSE, faulty |-> FALSE]
Trouble(calls) == [calls |-> calls, serial |-> FALSE, faulty |-> TRUE]

Days == {Queue({fs1, fs2, fv1, fv2, fu1}), Overlap({fs1, fs2, fv1, fv2}),
         Overlap({fs1, fs2, fu1}),
         Queue({ss1, ss2, sv1, sv2, sd1, du1}), Overlap({ss1, sv1, sv2, sd1}),
         Overlap({ss1, sv1, sv2, sv3}),
         Queue({bs1, bs2, bs3, bv1, bv2}), Trouble({bs1, bs2, bv1, bv2})}

UpdateDay == {Overlap({fs1, fv1, fu1})}
=============================================================================
