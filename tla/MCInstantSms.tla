---------------------------- MODULE MCInstantSms ----------------------------
(***************************************************************************)
(* Values for the constants of InstantSms.  Three hundred credits would    *)
(* show nothing that six do not: the amounts are chosen so that two sends  *)
(* fit, three do not, and one amount starts with a digit of 5 or more.     *)
(***************************************************************************)
EXTENDS InstantSms, TLC

CONSTANTS s1, s2, s3, t1, t2, v1, v2

Account(n) == [balance |-> n, totalPurchased |-> n, totalUsed |-> 0]

OpenWithSix == {Account(6)}
OpenOrNew   == {NoRow, Account(6)}
OpenAnyhow  == {NoRow, Account(0), Account(6)}

ActorSymmetry == Permutations(BulkSenders) \cup Permutations(Senders \ BulkSenders)
                   \cup Permutations(Toppers) \cup Permutations(Viewers)
=============================================================================
