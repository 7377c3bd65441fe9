-------------------------------- MODULE MCSms --------------------------------
(***************************************************************************)
(* Two masks and two institutes: a default can move from one mask to the   *)
(* other and a mask id can be fought for.  Two messages of two recipients  *)
(* against three credits: one fits, both do not.  Two submissions of two   *)
(* credits, decided one after the other on a faulty database, or together. *)
(***************************************************************************)
EXTENDS Sms, TLC

CONSTANTS m1, m2, i1, i2, rc1, rc2, ra1, ra2, rr1, ru1, rd1, rd2,
          k1, k2, b1, b2, p1, p2, v1, v2, v3, c1, c2, a1, a2, r1

Row(i, st, def) == [owner |-> i, status |-> st, isDefault |-> def]

\* m1 is in use as a default; m2 is in use, unknown or still waiting.
OpenInUse == {(m1 :> Row(i1, "ACTIVE", TRUE)) @@ (m2 :> r) :
                r \in {NoMask, Row(i1, "ACTIVE", FALSE), Row(i2, "PENDING", FALSE)}}

OpenRow == [credits |-> 3, purchased |-> 4, used |-> 1, unlimited |-> FALSE,
            masks |-> {k1}]

Unlimited == [credits |-> 9, purchased |-> 9, used |-> 0, unlimited |-> TRUE,
              masks |-> {k1}]

OpenBoth == {NoRow, OpenRow}

List(n, k)   == [size |-> n, first |-> n, custom |-> TRUE, mask |-> k]
Filter(n, m) == [size |-> n, first |-> m, custom |-> FALSE, mask |-> k1]

\* The bulk limit forbids one request, a mask is not listed; of a filtered
\* audience one recipient is of the first type, and one may join.
Messages == {List(2, k1), List(2, k2), List(4, k1), Filter(2, 1)}
Joined == {0, 1}

Queue(calls)   == [calls |-> calls, serial |-> TRUE, faulty |-> FALSE]
Trouble(calls) == [calls |-> calls, serial |-> TRUE, faulty |-> TRUE]
Overlap(calls) == [calls |-> calls, serial |-> FALSE, faulty |-> FALSE]

Days == {Queue({rc1, ra1, rr1, ru1, rd1}), Queue({ra1, ra2, ru1, rd1, rd2}),
         Overlap({rc1, rc2, ru1, rd1}), Overlap({ra1, rr1, ru1, rd1}),
         Trouble({p1, p2, v1, v2, v3}), Overlap({p1, p2, v1, v2, b1}),
         Trouble({c1, c2, a1}), Trouble({c1, a1, a2, r1}),
         Overlap({c1, c2, b1}), Overlap({c2, b1, b2}), Overlap({c2, a1, r1}),
         Overlap({c2, a1, a2}), Overlap({p1, v1, c2, a1})}

RushHour    == {Overlap({p1, p2, v1, v2, v3})}
TwoMessages == {Queue({c1, c2, a1, a2})}
=============================================================================
