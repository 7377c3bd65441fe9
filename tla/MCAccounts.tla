----------------------------- MODULE MCAccounts -----------------------------
(***************************************************************************)
(* Codes for a contact over two days and a contact that is taken; the ways *)
(* to set a password with logins in between, with and without caches; and  *)
(* logins, refreshes and sign-outs.                                        *)
(***************************************************************************)
EXTENDS Accounts

CONSTANTS q1, q2, q3, q4, x1, x2,
          i1, i2, v1, v2, v3, p1, s1, s2, d1, d2, h1, w1, l1, l2,
          n1, n2, r1, r2, r3, o1

Queue(calls, cached) == [calls |-> calls, serial |-> TRUE, faulty |-> FALSE,
                         cached |-> cached, paced |-> TRUE]
Trouble(calls, cached) == [Queue(calls, cached) EXCEPT !.faulty = TRUE]
Overlap(calls) == [Queue(calls, TRUE) EXCEPT !.serial = FALSE, !.paced = FALSE]

Days == {Queue({q1, q2, q3, q4, x1}, FALSE), Queue({q1, q2, x1, x2}, FALSE),
         Overlap({q1, q2, x1}),
         Queue({i1, v1, v2, v3, s1}, TRUE), Queue({i1, i2, v1, s1, s2}, FALSE),
         Queue({i1, i2, d1, d2, v1}, FALSE), Trouble({i1, v1, p1, d1}, FALSE),
         Trouble({i1, v1, s1, l1, l2}, TRUE),
         Queue({i1, v1, s1, l1, l2}, TRUE), Queue({i1, d1, l1, l2}, TRUE),
         Queue({i1, d1, h1, w1}, TRUE), Overlap({h1, w1, l1}), Overlap({i1, i2, d1}),
         Queue({n1, n2, r1, r2, o1}, FALSE), Queue({n1, r1, r2, r3}, FALSE),
         Overlap({n1, r1, r2, o1})}
=============================================================================
