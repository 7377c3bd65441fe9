------------------------------ MODULE SmsProofs ------------------------------
(***************************************************************************)
(* The sender masks of institutes and the credentials, payments and        *)
(* campaigns of one, for any number of calls, masks and credits.           *)
(***************************************************************************)
EXTENDS Sms, FiniteSetTheorems, TLAPS

(* Sender masks.                                                           *)

\* What a call holds: a new row to insert, or the row of its mask, registered
\* under the same owner, to save.
MaskHands ==
  \A o \in Ops :
    /\ opc[o] = "insert" => held[o] \in MaskRows
    /\ opc[o] \in {"clear", "diff", "write"} =>
         /\ held[o] \in MaskRows
         /\ masks[target[o]] \in MaskRows
         /\ held[o].owner = masks[target[o]].owner

\* The status each kind of call is about to write.
MaskAims ==
  \A o \in Ops :
    /\ opc[o] = "clear" => o \in Defaulters
    /\ opc[o] = "insert" => o \in Creators
    /\ opc[o] \in {"diff", "write"} =>
         /\ o \notin Creators
         /\ o \in MaskRejecters => held[o].status = "REJECTED"
         /\ o \in Suspenders => held[o].status = "SUSPENDED"

\* The inductive invariant of calls that overlap.
MaskInv == MaskTypeOK /\ MaskHands /\ MaskAims

\* Calls one after the other: one is under way at a time,
MaskAlone ==
  world.serial => \A o, q \in Ops :
    opc[o] \notin {"idle", "done"} /\ opc[q] \notin {"idle", "done"} => o = q

\* and what it has read is the case until it writes.
MaskSettled ==
  world.serial => \A o \in Ops :
    /\ opc[o] = "insert" => ~held[o].isDefault /\ ~Registered(target[o])
    /\ opc[o] \in {"diff", "write"} /\ o \notin Defaulters =>
         held[o].isDefault = masks[target[o]].isDefault
    /\ opc[o] \in {"clear", "diff", "write"} /\ o \in Defaulters =>
         masks[target[o]].status = "ACTIVE" /\ held[o].status = "ACTIVE"
    /\ opc[o] \in {"diff", "write"} /\ o \in Defaulters =>
         \A m \in Masks : Registered(m) /\ masks[m].owner = held[o].owner => ~masks[m].isDefault

MaskSerialInv == MaskAlone /\ MaskSettled /\ OneDefault

\* What an update of some columns makes of a mask.
LEMMA MergedMask ==
  ASSUME NEW r \in MaskRows, NEW e \in MaskRows, NEW D
  PROVE  /\ Merge(r, e, D) \in MaskRows
         /\ Merge(r, e, D).owner = IF "owner" \in D THEN e.owner ELSE r.owner
         /\ Merge(r, e, D).status = IF "status" \in D THEN e.status ELSE r.status
         /\ Merge(r, e, D).isDefault = IF "isDefault" \in D THEN e.isDefault ELSE r.isDefault
<1>1. /\ DOMAIN r = {"owner", "status", "isDefault"}
      /\ DOMAIN e = {"owner", "status", "isDefault"}
  BY DEF MaskRows
<1>2. r.owner \in Institutes /\ e.owner \in Institutes
  BY DEF MaskRows
<1>3. r.status \in Statuses /\ e.status \in Statuses
  BY DEF MaskRows
<1>4. r.isDefault \in BOOLEAN /\ e.isDefault \in BOOLEAN
  BY DEF MaskRows
<1> DEFINE m == Merge(r, e, D)
<1>5. m = [c \in {"owner", "status", "isDefault"} |-> IF c \in D THEN e[c] ELSE r[c]]
  BY <1>1 DEF Merge
<1>6. m.owner \in Institutes /\ m.status \in Statuses /\ m.isDefault \in BOOLEAN
  BY <1>2, <1>3, <1>4, <1>5
<1>7. m = [owner |-> m.owner, status |-> m.status, isDefault |-> m.isDefault]
  BY <1>5
<1> QED
  BY <1>5, <1>6, <1>7 DEF MaskRows

\* Both hold before the first call.
LEMMA MaskInitInv == MaskInit => MaskInv /\ MaskSerialInv
<1> SUFFICES ASSUME MaskInit PROVE MaskInv /\ MaskSerialInv
  OBVIOUS
<1> USE MasksAssumption DEF MaskInit
<1>1. masks \in OpeningMasks
  BY DEF OpeningFor
<1>2. masks \in [Masks -> MaskRows \cup {NoMask}] /\ OneDefaultIn(masks)
  BY <1>1
<1>3. opc \in [Ops -> {"idle", "done"}]
  BY DEF Coming
<1>4. (CHOOSE m \in Masks : TRUE) \in Masks
  OBVIOUS
<1>5. MaskTypeOK
  BY <1>2, <1>3, <1>4 DEF MaskTypeOK
<1>6. MaskHands /\ MaskAims /\ MaskAlone /\ MaskSettled /\ OneDefault
  BY <1>2, <1>3 DEF MaskHands, MaskAims, MaskAlone, MaskSettled, OneDefault
<1> QED
  BY <1>5, <1>6 DEF MaskInv, MaskSerialInv

\* The rest of the SMS service does not touch them.
LEMMA MaskStutter ==
  MaskInv /\ MaskSerialInv /\ UNCHANGED maskVars /\ UNCHANGED world => MaskInv' /\ MaskSerialInv'
<1> SUFFICES ASSUME MaskInv, MaskSerialInv, UNCHANGED maskVars, UNCHANGED world
             PROVE  MaskInv' /\ MaskSerialInv'
  OBVIOUS
<1> USE DEF maskVars
<1>1. MaskInv'
  BY DEF MaskInv, MaskTypeOK, MaskHands, MaskAims
<1>2. MaskSerialInv'
  BY DEF MaskSerialInv, MaskAlone, MaskSettled, OneDefault, OneDefaultIn, Registered
<1> QED
  BY <1>1, <1>2

\* A crash ends the calls and keeps the registry.
LEMMA MaskCrash == MaskInv /\ MaskSerialInv /\ Crash => MaskInv' /\ MaskSerialInv'
<1> SUFFICES ASSUME MaskInv, MaskSerialInv, Crash PROVE MaskInv' /\ MaskSerialInv'
  OBVIOUS
<1>1. /\ \A o \in Ops : opc'[o] \in {"idle", "done"}
      /\ opc' \in [Ops -> {"idle", "done"}]
      /\ UNCHANGED <<world, masks, target, held, dirty>>
  BY DEF Crash
<1>2. MaskInv'
  BY <1>1 DEF MaskInv, MaskTypeOK, MaskHands, MaskAims
<1>3. MaskSerialInv'
  BY <1>1 DEF MaskSerialInv, MaskAlone, MaskSettled, OneDefault, OneDefaultIn
<1> QED
  BY <1>2, <1>3

\* What a call that goes on after its first read has in its hands.
Fresh(o, m, e, next) ==
  /\ e \in MaskRows
  /\ \/ next = "insert" /\ o \in Creators /\ ~Registered(m) /\ ~e.isDefault
     \/ /\ next \in {"clear", "diff"} /\ o \notin Creators
        /\ next = "clear" <=> o \in Defaulters
        /\ masks[m] \in MaskRows /\ e.owner = masks[m].owner
        /\ o \in Defaulters => masks[m].status = "ACTIVE" /\ e.status = "ACTIVE"
        /\ o \notin Defaulters => e.isDefault = masks[m].isDefault
        /\ o \in MaskRejecters => e.status = "REJECTED"
        /\ o \in Suspenders => e.status = "SUSPENDED"

\* The first step of a call ends it or leaves it with that.
LEMMA Begins ==
  MaskTypeOK /\ Begin =>
    \E o \in Ops, m \in Masks :
      Refuse(o, m) \/ \E e, next : Hold(o, m, e, next) /\ Fresh(o, m, e, next)
<1> SUFFICES ASSUME MaskTypeOK, Begin
             PROVE  \E o \in Ops, m \in Masks :
                      Refuse(o, m) \/ \E e, next : Hold(o, m, e, next) /\ Fresh(o, m, e, next)
  OBVIOUS
<1> USE OpsAssumption DEF Ops
<1>1. \A m \in Masks : Registered(m) => masks[m] \in MaskRows
  BY DEF MaskTypeOK, Registered
<1>2. ASSUME NEW m \in Masks, NEW c \in Creators, NEW i \in Institutes, CheckFree(c, m, i),
             ~Refuse(c, m)
      PROVE  \E e, next : Hold(c, m, e, next) /\ Fresh(c, m, e, next)
  <2> DEFINE e == [owner |-> i, status |-> "PENDING", isDefault |-> FALSE]
  <2>1. Hold(c, m, e, "insert") /\ ~Registered(m)
    BY <1>2 DEF CheckFree
  <2>2. e \in MaskRows /\ ~e.isDefault
    BY DEF MaskRows, Statuses
  <2> QED
    BY <2>1, <2>2 DEF Fresh
<1>3. ASSUME NEW m \in Masks, NEW o \in MaskApprovers \cup MaskRejecters \cup Suspenders,
             NEW s \in Statuses, Registered(m), Hold(o, m, [masks[m] EXCEPT !.status = s], "diff"),
             o \in MaskRejecters => s = "REJECTED", o \in Suspenders => s = "SUSPENDED"
      PROVE  \E e, next : Hold(o, m, e, next) /\ Fresh(o, m, e, next)
  <2> DEFINE e == [masks[m] EXCEPT !.status = s]
  <2>1. /\ e \in MaskRows /\ e.owner = masks[m].owner /\ e.isDefault = masks[m].isDefault
        /\ e.status = s
    BY <1>1, <1>3 DEF MaskRows
  <2>2. masks[m] \in MaskRows
    BY <1>1, <1>3
  <2>3. Fresh(o, m, e, "diff")
    BY <1>3, <2>1, <2>2 DEF Fresh
  <2> QED
    BY <1>3, <2>3
<1>4. ASSUME NEW m \in Masks, NEW d \in Defaulters, NEW i \in Institutes,
             ValidateDefault(d, m, i), ~Refuse(d, m)
      PROVE  \E e, next : Hold(d, m, e, next) /\ Fresh(d, m, e, next)
  <2> DEFINE e == [masks[m] EXCEPT !.isDefault = TRUE]
  <2>1. Hold(d, m, e, "clear") /\ masks[m] \in MaskRows /\ masks[m].status = "ACTIVE"
    BY <1>1, <1>4 DEF ValidateDefault, Usable
  <2>2. e \in MaskRows /\ e.owner = masks[m].owner /\ e.status = masks[m].status
    BY <2>1 DEF MaskRows
  <2>3. Fresh(d, m, e, "clear")
    BY <2>1, <2>2 DEF Fresh
  <2> QED
    BY <2>1, <2>3
<1>5. ASSUME NEW m \in Masks, NEW o \in MaskApprovers \cup MaskRejecters \cup Suspenders,
             \/ o \in MaskApprovers /\ ReadToApprove(o, m)
             \/ o \in MaskRejecters /\ ReadToReject(o, m)
             \/ o \in Suspenders /\ ReadToSuspend(o, m),
             ~Refuse(o, m)
      PROVE  \E e, next : Hold(o, m, e, next) /\ Fresh(o, m, e, next)
  <2>1. CASE o \in MaskApprovers
    BY <1>3, <1>5, <2>1 DEF ReadToApprove, Approvable, Statuses
  <2>2. CASE o \in MaskRejecters
    BY <1>3, <1>5, <2>2 DEF ReadToReject, Statuses
  <2>3. CASE o \in Suspenders
    BY <1>3, <1>5, <2>3 DEF ReadToSuspend, Statuses
  <2> QED
    BY <2>1, <2>2, <2>3
<1> QED
  BY <1>2, <1>4, <1>5 DEF Begin

\* Every step of the five handlers preserves it, and no mask changes hands.
LEMMA MaskNextInv ==
  MaskInv /\ MaskNext =>
    /\ MaskInv'
    /\ \A m \in Masks : Registered(m) => Registered(m)' /\ masks'[m].owner = masks[m].owner
<1> SUFFICES ASSUME MaskInv, MaskNext
             PROVE  /\ MaskInv'
                    /\ \A m \in Masks : Registered(m) =>
                         Registered(m)' /\ masks'[m].owner = masks[m].owner
  OBVIOUS
<1> USE OpsAssumption, MasksAssumption DEF MaskInv, OpAt, Registered
<1> DEFINE Goal == /\ MaskInv'
                   /\ \A m \in Masks : Registered(m) =>
                        Registered(m)' /\ masks'[m].owner = masks[m].owner
<1>1. ASSUME NEW o \in Ops, NEW m \in Masks, Refuse(o, m) PROVE Goal
  BY <1>1 DEF Refuse, MaskTypeOK, MaskHands, MaskAims
<1>2. ASSUME NEW o \in Ops, NEW m \in Masks, NEW e, NEW next, Hold(o, m, e, next),
             Fresh(o, m, e, next)
      PROVE  Goal
  <2>1. e \in MaskRows /\ next \in {"insert", "clear", "diff"} /\ masks' = masks
    BY <1>2 DEF Hold, Fresh
  <2>2. MaskTypeOK'
    BY <1>2, <2>1 DEF Hold, MaskTypeOK
  <2>3. MaskHands' /\ MaskAims'
    BY <1>2, <2>1 DEF Hold, Fresh, MaskTypeOK, MaskHands, MaskAims
  <2> QED
    BY <2>1, <2>2, <2>3
<1>3. ASSUME NEW o \in Ops, Insert(o) PROVE Goal
  <2>1. held[o] \in MaskRows /\ target[o] \in Masks /\ opc[o] = "insert"
        /\ opc' = [opc EXCEPT ![o] = "done"] /\ UNCHANGED <<target, held, dirty>>
    BY <1>3 DEF Insert, MaskHands, MaskTypeOK
  <2>2. \A m \in Masks : /\ Registered(m) => masks'[m] = masks[m]
                         /\ masks'[m] \in MaskRows \cup {NoMask}
    BY <1>3, <2>1 DEF Insert, KeyFree, MaskTypeOK
  <2>3. MaskTypeOK'
    BY <1>3, <2>1 DEF Insert, MaskTypeOK
  <2>4. MaskHands' /\ MaskAims'
    BY <2>1, <2>2 DEF MaskTypeOK, MaskHands, MaskAims
  <2> QED
    BY <2>2, <2>3, <2>4
<1>4. ASSUME NEW o \in Ops, ClearDefaults(o) PROVE Goal
  <2>1. opc[o] = "clear" /\ opc' = [opc EXCEPT ![o] = "diff"] /\ UNCHANGED <<target, held, dirty>>
    BY <1>4 DEF ClearDefaults
  <2>2. \A m \in Masks : /\ masks'[m] \in MaskRows <=> masks[m] \in MaskRows
                         /\ masks[m] = NoMask <=> masks'[m] = NoMask
                         /\ masks[m] \in MaskRows => masks'[m].owner = masks[m].owner
                         /\ masks'[m] \in MaskRows \cup {NoMask}
    <3> SUFFICES ASSUME NEW m \in Masks
                 PROVE  /\ masks'[m] \in MaskRows <=> masks[m] \in MaskRows
                        /\ masks[m] = NoMask <=> masks'[m] = NoMask
                        /\ masks[m] \in MaskRows => masks'[m].owner = masks[m].owner
                        /\ masks'[m] \in MaskRows \cup {NoMask}
      OBVIOUS
    <3>1. masks'[m] = masks[m] \/ masks'[m] = [masks[m] EXCEPT !.isDefault = FALSE]
      BY <1>4 DEF ClearDefaults, Cleared
    <3>2. CASE masks[m] = NoMask
      BY <1>4, <3>2 DEF ClearDefaults, Cleared
    <3>3. CASE masks[m] \in MaskRows
      <4>1. /\ [masks[m] EXCEPT !.isDefault = FALSE] \in MaskRows
            /\ [masks[m] EXCEPT !.isDefault = FALSE].owner = masks[m].owner
        BY <3>3 DEF MaskRows
      <4> QED
        BY <3>1, <3>3, <4>1
    <3> QED
      BY <3>2, <3>3 DEF MaskTypeOK
  <2>3. masks' = [m \in Masks |-> masks'[m]]
    BY <1>4 DEF ClearDefaults
  <2>4. MaskTypeOK'
    BY <2>1, <2>2, <2>3 DEF MaskTypeOK
  <2>5. MaskHands' /\ MaskAims'
    BY <2>1, <2>2 DEF MaskTypeOK, MaskHands, MaskAims, Ops
  <2> QED
    BY <2>2, <2>4, <2>5 DEF MaskTypeOK
<1>5. ASSUME NEW o \in Ops, Diff(o) PROVE Goal
  <2>1. Dirty(held[o], masks[target[o]]) \in SUBSET {"owner", "status", "isDefault"}
    BY <1>5 DEF Diff, MaskHands, Dirty, MaskRows
  <2>2. MaskTypeOK'
    BY <1>5, <2>1 DEF Diff, MaskTypeOK
  <2>3. MaskHands' /\ MaskAims' /\ masks' = masks
    BY <1>5 DEF Diff, MaskTypeOK, MaskHands, MaskAims
  <2> QED
    BY <2>2, <2>3
<1>6. ASSUME NEW o \in Ops, Write(o) PROVE Goal
  <2> DEFINE t == target[o]
  <2>1. /\ opc[o] = "write" /\ opc' = [opc EXCEPT ![o] = "done"]
        /\ masks' = [masks EXCEPT ![t] = Merge(masks[t], held[o], dirty[o])]
        /\ UNCHANGED <<target, held, dirty>>
    BY <1>6 DEF Write
  <2>2. t \in Masks /\ masks[t] \in MaskRows /\ held[o] \in MaskRows
        /\ held[o].owner = masks[t].owner
    BY <2>1 DEF MaskTypeOK, MaskHands
  <2>3. masks'[t] \in MaskRows /\ masks'[t].owner = masks[t].owner
    BY <2>1, <2>2, MergedMask DEF MaskTypeOK
  <2>4. \A m \in Masks : m # t => masks'[m] = masks[m]
    BY <2>1
  <2>5. MaskTypeOK'
    BY <2>1, <2>2, <2>3, MergedMask DEF MaskTypeOK
  <2>6. MaskHands' /\ MaskAims'
    BY <2>1, <2>2, <2>3, <2>4 DEF MaskTypeOK, MaskHands, MaskAims
  <2> QED
    BY <2>2, <2>3, <2>4, <2>5, <2>6
<1> QED
  BY <1>1, <1>2, <1>3, <1>4, <1>5, <1>6, Begins DEF MaskNext, Continue

\* Served one after the other, the call that takes a step is the only one.
LEMMA MaskMoves ==
  ASSUME MaskTypeOK, MaskNext
  PROVE  \E o \in Ops : /\ opc[o] # "done"
                        /\ opc[o] = "idle" => OpMayBegin
                        /\ \A q \in Ops : q # o => opc'[q] = opc[q]
<1>1. ASSUME Begin
      PROVE  \E o \in Ops : /\ opc[o] = "idle" /\ OpMayBegin
                            /\ \A q \in Ops : q # o => opc'[q] = opc[q]
  BY <1>1, Begins DEF Begin, Refuse, Hold, OpAt, MaskTypeOK
<1>2. ASSUME NEW o \in Ops, Continue(o)
      PROVE  opc[o] \notin {"idle", "done"} /\ \A q \in Ops : q # o => opc'[q] = opc[q]
  BY <1>2 DEF Continue, Insert, ClearDefaults, Diff, Write, OpAt, MaskTypeOK
<1> QED
  BY <1>1, <1>2 DEF MaskNext

LEMMA MaskAloneNext == MaskTypeOK /\ MaskAlone /\ MaskNext /\ UNCHANGED world => MaskAlone'
BY MaskMoves DEF MaskAlone, OpMayBegin

\* The only mask is changed by the only call, which has read it as it is.
LEMMA MaskSettledNext ==
  MaskInv /\ MaskSerialInv /\ MaskNext /\ UNCHANGED world /\ world.serial =>
    /\ MaskSettled' /\ OneDefault'
    /\ \A m \in Masks : Unsuspended(m) => Approving(m)
<1> SUFFICES ASSUME MaskInv, MaskSerialInv, MaskNext, UNCHANGED world, world.serial
             PROVE  /\ MaskSettled' /\ OneDefault'
                    /\ \A m \in Masks : Unsuspended(m) => Approving(m)
  OBVIOUS
<1> DEFINE Others(o) == \A q \in Ops : q # o => opc[q] \in {"idle", "done"}
           Goal == /\ MaskSettled' /\ OneDefault'
                   /\ \A m \in Masks : Unsuspended(m) => Approving(m)
<1> USE OpsAssumption, MasksAssumption
<1> USE DEF MaskInv, MaskSerialInv, OpAt
<1>0. \A o \in Ops : opc[o] # "done" /\ (opc[o] = "idle" => OpMayBegin) => Others(o)
  BY DEF MaskAlone, OpMayBegin
<1>1. ASSUME NEW o \in Ops, NEW m \in Masks, Refuse(o, m) PROVE Goal
  BY <1>1 DEF Refuse, MaskTypeOK, MaskSettled, OneDefault, OneDefaultIn, Unsuspended, Registered
<1>2. ASSUME NEW o \in Ops, NEW m \in Masks, NEW e, NEW next, Hold(o, m, e, next),
             Fresh(o, m, e, next), OpMayBegin
      PROVE  Goal
  <2>1. /\ masks' = masks /\ opc' = [opc EXCEPT ![o] = next] /\ opc[o] = "idle"
        /\ target'[o] = m /\ held'[o] = e /\ Others(o)
    BY <1>0, <1>2 DEF Hold, MaskTypeOK
  <2>2. MaskSettled'
    BY <1>2, <2>1 DEF Fresh, MaskTypeOK, MaskSettled, Registered
  <2> QED
    BY <2>1, <2>2 DEF OneDefault, OneDefaultIn, Unsuspended, Registered
<1>3. ASSUME NEW o \in Ops, Insert(o) PROVE Goal
  <2>1. /\ opc[o] = "insert" /\ opc' = [opc EXCEPT ![o] = "done"] /\ Others(o)
        /\ masks' = [masks EXCEPT ![target[o]] = held[o]]
        /\ ~held[o].isDefault /\ ~Registered(target[o])
    BY <1>0, <1>3 DEF Insert, KeyFree, MaskSettled
  <2>2. MaskSettled'
    BY <2>1 DEF MaskTypeOK, MaskSettled
  <2>3. OneDefault' /\ \A m \in Masks : ~Unsuspended(m)
    BY <2>1 DEF MaskTypeOK, OneDefault, OneDefaultIn, Unsuspended, Registered
  <2> QED
    BY <2>2, <2>3
<1>4. ASSUME NEW o \in Ops, ClearDefaults(o) PROVE Goal
  <2>1. /\ opc[o] = "clear" /\ opc' = [opc EXCEPT ![o] = "diff"] /\ Others(o)
        /\ UNCHANGED <<target, held, dirty>> /\ o \in Defaulters
    BY <1>0, <1>4 DEF ClearDefaults, MaskAims
  <2>2. \A m \in Masks :
          /\ masks[m] = NoMask <=> masks'[m] = NoMask
          /\ Registered(m) => /\ masks'[m].owner = masks[m].owner
                              /\ masks'[m].status = masks[m].status
                              /\ masks'[m].isDefault => masks[m].isDefault
                              /\ masks[m].owner = held[o].owner => ~masks'[m].isDefault
    <3> SUFFICES ASSUME NEW m \in Masks
                 PROVE  /\ masks[m] = NoMask <=> masks'[m] = NoMask
                        /\ Registered(m) =>
                             /\ masks'[m].owner = masks[m].owner
                             /\ masks'[m].status = masks[m].status
                             /\ masks'[m].isDefault => masks[m].isDefault
                             /\ masks[m].owner = held[o].owner => ~masks'[m].isDefault
      OBVIOUS
    <3>1. CASE ~Registered(m) \/ masks[m].owner # held[o].owner
      BY <1>4, <3>1 DEF ClearDefaults, Cleared, Registered
    <3>2. CASE Registered(m) /\ masks[m].owner = held[o].owner
      <4>1. masks[m] \in MaskRows /\ masks'[m] = [masks[m] EXCEPT !.isDefault = FALSE]
        BY <1>4, <3>2 DEF ClearDefaults, Cleared, MaskTypeOK, Registered
      <4>2. masks'[m] \in MaskRows
        BY <4>1 DEF MaskRows
      <4> QED
        BY <4>1, <4>2 DEF MaskRows, Registered
    <3> QED
      BY <3>1, <3>2
  <2>3. MaskSettled'
    BY <2>1, <2>2 DEF MaskTypeOK, MaskHands, MaskSettled, Registered
  <2>4. OneDefault' /\ \A m \in Masks : ~Unsuspended(m)
    BY <2>2 DEF OneDefault, OneDefaultIn, Unsuspended, Registered
  <2> QED
    BY <2>3, <2>4
<1>5. ASSUME NEW o \in Ops, Diff(o) PROVE Goal
  <2>1. /\ opc[o] = "diff" /\ opc' = [opc EXCEPT ![o] = "write"] /\ Others(o)
        /\ UNCHANGED <<masks, target, held>>
    BY <1>0, <1>5 DEF Diff
  <2>2. MaskSettled'
    BY <2>1 DEF MaskTypeOK, MaskSettled, Registered
  <2> QED
    BY <2>1, <2>2 DEF OneDefault, OneDefaultIn, Unsuspended, Registered
<1>6. ASSUME NEW o \in Ops, Write(o) PROVE Goal
  <2> DEFINE t == target[o]
  <2>1. /\ opc[o] = "write" /\ opc' = [opc EXCEPT ![o] = "done"] /\ Others(o)
        /\ masks' = [masks EXCEPT ![t] = Merge(masks[t], held[o], dirty[o])]
        /\ UNCHANGED <<target, held>>
    BY <1>0, <1>6 DEF Write
  <2>2. t \in Masks /\ masks[t] \in MaskRows /\ held[o] \in MaskRows
        /\ held[o].owner = masks[t].owner
    BY <2>1 DEF MaskTypeOK, MaskHands
  <2>3. /\ masks'[t] \in MaskRows /\ masks'[t].owner = masks[t].owner
        /\ masks'[t].status \in {masks[t].status, held[o].status}
        /\ masks'[t].isDefault \in {masks[t].isDefault, held[o].isDefault}
        /\ \A m \in Masks : m # t => masks'[m] = masks[m]
    BY <2>1, <2>2, MergedMask DEF MaskTypeOK
  <2>4. MaskSettled'
    BY <2>1 DEF MaskTypeOK, MaskSettled
  <2>5. OneDefault'
    <3>1. CASE o \in Defaulters
      <4>1. \A m \in Masks : Registered(m) /\ masks[m].owner = held[o].owner => ~masks[m].isDefault
        BY <2>1, <3>1 DEF MaskSettled
      <4> QED
        BY <2>2, <2>3, <4>1 DEF OneDefault, OneDefaultIn, Registered
    <3>2. CASE o \notin Defaulters
      <4>1. masks'[t].isDefault = masks[t].isDefault
        BY <2>1, <2>3, <3>2 DEF MaskSettled
      <4> QED
        BY <2>2, <2>3, <4>1 DEF OneDefault, OneDefaultIn
    <3> QED
      BY <3>1, <3>2
  <2>6. ASSUME NEW m \in Masks, Unsuspended(m) PROVE Approving(m)
    <3>1. m = t /\ held[o].status = "ACTIVE" /\ masks[t].status = "SUSPENDED"
      BY <2>2, <2>3, <2>6 DEF Unsuspended
    <3>2. o \in MaskApprovers
      BY <2>1, <3>1 DEF MaskAims, MaskSettled, Ops
    <3> QED
      BY <2>1, <3>1, <3>2 DEF Approving, MaskTypeOK
  <2> QED
    BY <2>4, <2>5, <2>6
<1> QED
  BY <1>1, <1>2, <1>3, <1>4, <1>5, <1>6, Begins DEF MaskNext, Continue, Begin

-----------------------------------------------------------------------------
(* Credentials, payments and campaigns.                                    *)

\* There is a row, and a row in the caller's hands, when a call writes it.
RowsAtHand ==
  /\ \A m \in MaskMakers : mpc[m] \in {"diff", "write"} =>
       creds # NoRow /\ entity[m] \in CredRows
  /\ \A v \in Verifiers : vpc[v] = "approve" /\ seen[v] # NoRow => creds # NoRow
  /\ \A c \in Composers : pc[c] \in {"store", "check"} => creds # NoRow /\ loaded[c] \in CredRows
  /\ \A a \in Approvers : result[a].ok > 0 => creds # NoRow
  /\ cache # NotCached => creds # NoRow

\* The inductive invariant of calls that overlap.
RowInv == CredTypeOK /\ PaymentTypeOK /\ CampaignTypeOK /\ RowsAtHand

\* What the updates make of a row.
LEMMA GrantedRow ==
  ASSUME NEW r \in CredRows, NEW n \in Nat
  PROVE  /\ Granted(r, n) \in CredRows
         /\ Granted(r, n).credits = r.credits + n /\ Granted(r, n).masks = r.masks
<1> DEFINE g == Granted(r, n)
<1>1. /\ r.credits + n \in Nat /\ r.purchased + n \in Nat
      /\ r.used \in Nat /\ r.unlimited \in BOOLEAN /\ r.masks \in SUBSET MaskIds
  BY DEF CredRows
<1>2. /\ g.credits = r.credits + n /\ g.purchased = r.purchased + n
      /\ g.used = r.used /\ g.unlimited = r.unlimited /\ g.masks = r.masks
  BY DEF Granted, CredRows
<1>3. g = [c \in {"credits", "purchased", "used", "unlimited", "masks"} |-> g[c]]
  BY DOMAIN r = {"credits", "purchased", "used", "unlimited", "masks"} DEF Granted, CredRows
<1>4. g = [credits |-> g.credits, purchased |-> g.purchased, used |-> g.used,
           unlimited |-> g.unlimited, masks |-> g.masks]
  BY <1>3
<1>5. /\ g.credits \in Nat /\ g.purchased \in Nat /\ g.used \in Nat
      /\ g.unlimited \in BOOLEAN /\ g.masks \in SUBSET MaskIds
  BY <1>1, <1>2
<1>6. g \in CredRows
  BY <1>4, <1>5 DEF CredRows
<1> QED
  BY <1>2, <1>6

LEMMA DeductedRow ==
  ASSUME NEW r \in CredRows, NEW n \in Nat
  PROVE  /\ Deducted(r, n) \in CredRows
         /\ Deducted(r, n).masks = r.masks /\ Deducted(r, n).unlimited = r.unlimited
         /\ Deducted(r, n).used = r.used + n
         /\ Deducted(r, n).credits = IF r.credits > n THEN r.credits - n ELSE 0
<1> DEFINE left == IF r.credits > n THEN r.credits - n ELSE 0
           d == Deducted(r, n)
<1>1. /\ left \in Nat /\ r.purchased \in Nat /\ r.used + n \in Nat
      /\ r.unlimited \in BOOLEAN /\ r.masks \in SUBSET MaskIds
  BY DEF CredRows
<1>2. /\ d.credits = left /\ d.purchased = r.purchased /\ d.used = r.used + n
      /\ d.unlimited = r.unlimited /\ d.masks = r.masks
  BY DEF Deducted, CredRows
<1>3. d = [c \in {"credits", "purchased", "used", "unlimited", "masks"} |-> d[c]]
  BY DOMAIN r = {"credits", "purchased", "used", "unlimited", "masks"} DEF Deducted, CredRows
<1>4. d = [credits |-> d.credits, purchased |-> d.purchased, used |-> d.used,
           unlimited |-> d.unlimited, masks |-> d.masks]
  BY <1>3
<1>5. /\ d.credits \in Nat /\ d.purchased \in Nat /\ d.used \in Nat
      /\ d.unlimited \in BOOLEAN /\ d.masks \in SUBSET MaskIds
  BY <1>1, <1>2
<1>6. d \in CredRows
  BY <1>4, <1>5 DEF CredRows
<1> QED
  BY <1>2, <1>6

LEMMA MergedRow ==
  ASSUME NEW r \in CredRows, NEW e \in CredRows, NEW D
  PROVE  /\ Merge(r, e, D) \in CredRows
         /\ Merge(r, e, D).masks = IF "masks" \in D THEN e.masks ELSE r.masks
<1>1. /\ DOMAIN r = {"credits", "purchased", "used", "unlimited", "masks"}
      /\ DOMAIN e = {"credits", "purchased", "used", "unlimited", "masks"}
  BY DEF CredRows
<1>2. /\ r.credits \in Nat /\ r.purchased \in Nat /\ r.used \in Nat
      /\ e.credits \in Nat /\ e.purchased \in Nat /\ e.used \in Nat
  BY DEF CredRows
<1>3. r.unlimited \in BOOLEAN /\ e.unlimited \in BOOLEAN
  BY DEF CredRows
<1>4. r.masks \in SUBSET MaskIds /\ e.masks \in SUBSET MaskIds
  BY DEF CredRows
<1> DEFINE m == Merge(r, e, D)
<1>5. m = [c \in {"credits", "purchased", "used", "unlimited", "masks"} |->
             IF c \in D THEN e[c] ELSE r[c]]
  BY <1>1 DEF Merge
<1>6. m.credits \in Nat /\ m.purchased \in Nat /\ m.used \in Nat
  BY <1>2, <1>5
<1>7. m.unlimited \in BOOLEAN /\ m.masks \in SUBSET MaskIds
  BY <1>3, <1>4, <1>5
<1>8. m = [credits |-> m.credits, purchased |-> m.purchased, used |-> m.used,
           unlimited |-> m.unlimited, masks |-> m.masks]
  BY <1>5
<1> QED
  BY <1>5, <1>6, <1>7, <1>8 DEF CredRows

LEMMA EmptyIsRow == EmptyRow \in CredRows /\ EmptyRow.credits = 0 /\ EmptyRow.masks = {}
BY DEF EmptyRow, CredRows

LEMMA AddedRow ==
  ASSUME NEW r \in CredRows, NEW m \in MaskMakers, mask[m] \in MaskIds
  PROVE  AddTo(r, m) \in CredRows /\ AddTo(r, m).masks = r.masks \cup {mask[m]}
BY DEF AddTo, CredRows

\* They hold before the first call.
LEMMA RowInitInv == SmsInit => RowInv
<1> SUFFICES ASSUME SmsInit PROVE RowInv
  OBVIOUS
<1> USE RowsAssumption, PoolAssumption, CampaignAssumption
<1> USE DEF SmsInit, CredInit, PaymentInit, CampaignInit
<1>1. creds \in CredRows \cup {NoRow}
  OBVIOUS
<1>2. /\ mpc \in [MaskMakers -> {"idle", "done"}] /\ vpc \in [Verifiers -> {"idle", "done"}]
      /\ pc \in [Actors -> {"idle", "done"}]
  BY DEF Coming
<1>3. IF creds = NoRow THEN TRUE ELSE creds.credits \in Nat
  BY <1>1 DEF CredRows
<1>4. CredTypeOK
  BY <1>1, <1>2 DEF CredTypeOK, About
<1>5. PaymentTypeOK
  BY <1>2, <1>3 DEF PaymentTypeOK, About
<1>6. CampaignTypeOK
  BY <1>1, <1>2, EmptyIsRow DEF CampaignTypeOK, About, Terminal
<1>7. RowsAtHand
  BY <1>2 DEF RowsAtHand, Actors
<1> QED
  BY <1>4, <1>5, <1>6, <1>7 DEF RowInv

\* The createSenderMask calls and the cache's own clock preserve it.
LEMMA CredRowInv ==
  RowInv /\ CredNext /\ UNCHANGED <<paymentVars, campaignVars>> => RowInv'
<1> SUFFICES ASSUME RowInv, CredNext, UNCHANGED <<paymentVars, campaignVars>> PROVE RowInv'
  OBVIOUS
<1> USE RowsAssumption, EmptyIsRow
<1> USE DEF RowInv, MakerAt, paymentVars, campaignVars, composing, sending, makerVars
<1>0. ASSUME creds' \in CredRows \cup {NoRow}, creds # NoRow => creds' # NoRow,
             CredTypeOK', cache' \in {cache, NotCached},
             \A m \in MaskMakers : mpc'[m] \in {"diff", "write"} =>
               creds' # NoRow /\ entity'[m] \in CredRows
      PROVE  RowInv'
  <2>1. PaymentTypeOK' /\ CampaignTypeOK'
    BY DEF PaymentTypeOK, CampaignTypeOK
  <2>2. RowsAtHand'
    BY <1>0 DEF RowsAtHand
  <2> QED
    BY <1>0, <2>1, <2>2
<1>1. ASSUME NEW m \in MaskMakers, FindCredentials(m) PROVE RowInv'
  <2>1. creds # NoRow => AddTo(creds, m) \in CredRows
    BY AddedRow DEF CredTypeOK
  <2>2. CredTypeOK'
    BY <1>1, <2>1 DEF FindCredentials, CredTypeOK
  <2> QED
    BY <1>0, <1>1, <2>1, <2>2 DEF FindCredentials, CredTypeOK, RowsAtHand
<1>2. ASSUME NEW m \in MaskMakers, CreateCredentials(m) PROVE RowInv'
  <2>1. AddTo(EmptyRow, m) \in CredRows
    BY AddedRow DEF CredTypeOK
  <2>2. CredTypeOK'
    BY <1>2, <2>1 DEF CreateCredentials, CredTypeOK
  <2> QED
    BY <1>0, <1>2, <2>1, <2>2 DEF CreateCredentials, CredTypeOK, RowsAtHand
<1>3. ASSUME NEW m \in MaskMakers, DiffCredentials(m) PROVE RowInv'
  <2>1. entity[m] \in CredRows
    BY <1>3 DEF DiffCredentials, RowsAtHand
  <2>2. Dirty(entity[m], creds) \in SUBSET DOMAIN EmptyRow
    BY <2>1 DEF Dirty, CredRows, EmptyRow
  <2>3. CredTypeOK'
    BY <1>3, <2>2 DEF DiffCredentials, CredTypeOK
  <2> QED
    BY <1>0, <1>3, <2>3 DEF DiffCredentials, CredTypeOK, RowsAtHand
<1>4. ASSUME NEW m \in MaskMakers, SaveCredentials(m) PROVE RowInv'
  <2>1. entity[m] \in CredRows /\ creds \in CredRows
    BY <1>4 DEF SaveCredentials, RowsAtHand, CredTypeOK
  <2>2. creds' \in CredRows
    BY <1>4, <2>1, MergedRow DEF SaveCredentials
  <2>3. CredTypeOK'
    BY <1>4, <2>2 DEF SaveCredentials, CredTypeOK, InvalidateInstituteCache
  <2> QED
    BY <1>0, <1>4, <2>2, <2>3 DEF SaveCredentials, CredTypeOK, RowsAtHand, InvalidateInstituteCache
<1>5. ASSUME CacheExpires PROVE RowInv'
  <2>1. CredTypeOK'
    BY <1>5 DEF CacheExpires, CredTypeOK, InvalidateInstituteCache
  <2> QED
    BY <1>0, <1>5, <2>1 DEF CacheExpires, InvalidateInstituteCache, CredTypeOK, RowsAtHand
<1> QED
  BY <1>1, <1>2, <1>3, <1>4, <1>5 DEF CredNext

\* A row that a verification may write.
LEMMA CreditedIsRow ==
  ASSUME RowInv, NEW v \in Verifiers, vpc[v] = "approve", ~InsertFails(v)
  PROVE  /\ Credited(v) \in CredRows
         /\ Credited(v).masks = IF creds = NoRow THEN {} ELSE creds.masks
         /\ seen[v] = creds =>
              Credited(v).credits = Requested + IF creds = NoRow THEN 0 ELSE creds.credits
<1> USE RowsAssumption, PoolAssumption, EmptyIsRow DEF RowInv
<1>1. seen[v] \in CredRows \cup {NoRow} /\ creds \in CredRows \cup {NoRow}
  BY DEF PaymentTypeOK, CredTypeOK
<1>2. CreditedRow(v) \in CredRows
  BY <1>1, GrantedRow DEF CreditedRow
<1>3. CASE seen[v] = NoRow
  <2>1. creds = NoRow /\ Credited(v) = Granted(EmptyRow, Requested)
    BY <1>3 DEF InsertFails, Credited, CreditedRow
  <2>2. /\ Granted(EmptyRow, Requested) \in CredRows /\ Granted(EmptyRow, Requested).masks = {}
        /\ Granted(EmptyRow, Requested).credits = 0 + Requested
    BY GrantedRow
  <2> QED
    BY <2>1, <2>2
<1>4. CASE seen[v] # NoRow
  <2>1. creds \in CredRows
    BY <1>1, <1>4 DEF RowsAtHand
  <2>2. /\ Credited(v) \in CredRows /\ Credited(v).masks = creds.masks
        /\ Credited(v).credits = CreditedRow(v).credits
    BY <1>2, <1>4, <2>1 DEF Credited, CredRows
  <2>3. seen[v] = creds => CreditedRow(v).credits = creds.credits + Requested
    BY <1>4, <2>1, GrantedRow DEF CreditedRow
  <2>4. creds.credits \in Nat
    BY <2>1 DEF CredRows
  <2> QED
    BY <2>1, <2>2, <2>3, <2>4
<1> QED
  BY <1>3, <1>4

LEMMA PaymentRowInv ==
  RowInv /\ PaymentNext /\ UNCHANGED campaignVars => RowInv'
<1> SUFFICES ASSUME RowInv, PaymentNext, UNCHANGED campaignVars PROVE RowInv'
  OBVIOUS
<1> USE RowsAssumption, PoolAssumption
<1> USE DEF RowInv, At, campaignVars, composing, sending, credVars, makerVars
<1>1. ASSUME NEW s \in Submissions, SubmitPayment(s) PROVE RowInv'
  <2>1. PaymentTypeOK'
    BY <1>1 DEF SubmitPayment, PaymentTypeOK
  <2> QED
    BY <1>1, <2>1 DEF SubmitPayment, CredTypeOK, CampaignTypeOK, RowsAtHand
<1>2. ASSUME NEW v \in Verifiers, UNCHANGED <<credVars, paymentStatus, about, seen, grants, opening>>,
             NEW to \in {"begin", "find", "reject", "done"}, vpc' = [vpc EXCEPT ![v] = to]
      PROVE  RowInv'
  <2>1. PaymentTypeOK'
    BY <1>2 DEF PaymentTypeOK
  <2>2. RowsAtHand'
    BY <1>2 DEF PaymentTypeOK, RowsAtHand
  <2> QED
    BY <1>2, <2>1, <2>2 DEF CredTypeOK, CampaignTypeOK
<1>3. ASSUME NEW v \in Verifiers, ReadCredentials(v) PROVE RowInv'
  <2>1. PaymentTypeOK'
    BY <1>3 DEF ReadCredentials, PaymentTypeOK, CredTypeOK
  <2>2. RowsAtHand'
    BY <1>3 DEF ReadCredentials, PaymentTypeOK, RowsAtHand
  <2> QED
    BY <1>3, <2>1, <2>2 DEF ReadCredentials, CredTypeOK, CampaignTypeOK
<1>4. ASSUME NEW v \in Verifiers, CommitApproval(v) PROVE RowInv'
  <2>1. creds' \in CredRows
    BY <1>4, CreditedIsRow DEF CommitApproval
  <2>2. CredTypeOK'
    BY <1>4, <2>1 DEF CommitApproval, CredTypeOK, InvalidateInstituteCache
  <2>3. PaymentTypeOK'
    BY <1>4 DEF CommitApproval, PaymentTypeOK, Settle
  <2>4. RowsAtHand'
    BY <1>4, <2>1 DEF CommitApproval, PaymentTypeOK, RowsAtHand, InvalidateInstituteCache
  <2> QED
    BY <2>2, <2>3, <2>4 DEF CampaignTypeOK
<1>5. ASSUME NEW v \in Verifiers, CommitRejection(v) PROVE RowInv'
  <2>1. CredTypeOK'
    BY <1>5 DEF CommitRejection, CredTypeOK, InvalidateInstituteCache
  <2>2. PaymentTypeOK'
    BY <1>5 DEF CommitRejection, PaymentTypeOK, Settle
  <2>3. RowsAtHand'
    BY <1>5 DEF CommitRejection, PaymentTypeOK, RowsAtHand, InvalidateInstituteCache
  <2> QED
    BY <2>1, <2>2, <2>3 DEF CampaignTypeOK
<1> QED
  BY <1>1, <1>2, <1>3, <1>4, <1>5
  DEF PaymentNext, VerifierStep, FindSubmission, BeginTransaction, RollBack, LookUpAndRelease

\* Composing a message preserves it,
LEMMA ComposerRowInv ==
  ASSUME RowInv, UNCHANGED paymentVars, NEW c \in Composers, ComposerStep(c)
  PROVE  RowInv'
<1> USE RowsAssumption, CampaignAssumption
<1> USE DEF RowInv, Goto, credVars, makerVars, composing, sending, paymentVars, Actors, Deciders
<1>0. ASSUME creds' \in {creds, AdminRow}, creds = NoRow \/ creds' = creds, cache' \in CredRows \cup {NotCached},
             cache' = NotCached \/ creds' # NoRow, UNCHANGED <<world, makerVars>>,
             UNCHANGED <<wish, case, sending, funds, crashes>>,
             status' \in {status, [status EXCEPT ![c] = "PENDING_VERIFICATION"]},
             NEW to \in {"store", "create", "check", "done"}, pc' = [pc EXCEPT ![c] = to],
             NEW r \in CredRows \cup {NoRow}, loaded' \in {loaded, [loaded EXCEPT ![c] = r]},
             to \in {"store", "check"} => creds' # NoRow /\ loaded'[c] \in CredRows
      PROVE  RowInv'
  <2>1. CredTypeOK' /\ PaymentTypeOK'
    BY <1>0 DEF CredTypeOK, PaymentTypeOK
  <2>2. CampaignTypeOK'
    <3>1. /\ status' \in [Composers -> Terminal \cup {"none", "APPROVED", "PENDING_VERIFICATION"}]
          /\ loaded' \in [Composers -> CredRows \cup {NoRow}]
      <4>1. /\ status \in [Composers -> Terminal \cup {"none", "APPROVED", "PENDING_VERIFICATION"}]
            /\ loaded \in [Composers -> CredRows \cup {NoRow}]
        BY DEF CampaignTypeOK
      <4>2. status' \in [Composers -> Terminal \cup {"none", "APPROVED", "PENDING_VERIFICATION"}]
        BY <1>0, <4>1
      <4>3. loaded' \in [Composers -> CredRows \cup {NoRow}]
        <5>1. CASE loaded' = loaded
          BY <4>1, <5>1
        <5>2. CASE loaded' = [loaded EXCEPT ![c] = r]
          BY <1>0, <4>1, <5>2
        <5> QED
          BY <1>0, <5>1, <5>2
      <4> QED
        BY <4>2, <4>3
    <3>2. pc' \in [Actors -> {"idle", "create", "store", "check", "save", "recipients",
                              "stamp", "send", "charge", "final", "failed", "done"}]
      BY <1>0 DEF CampaignTypeOK
    <3> QED
      BY <1>0, <3>1, <3>2 DEF CampaignTypeOK
  <2>3. creds # NoRow => creds' # NoRow
    BY <1>0
  <2>4. \A d \in Composers : pc'[d] \in {"store", "check"} => creds' # NoRow /\ loaded'[d] \in CredRows
    BY <1>0, <2>3 DEF RowsAtHand, CampaignTypeOK
  <2>5. RowsAtHand'
    BY <1>0, <2>3, <2>4 DEF RowsAtHand
  <2> QED
    BY <2>1, <2>2, <2>5
<1>1. creds \in CredRows \cup {NoRow} /\ cache \in CredRows \cup {NotCached}
      /\ (cache # NotCached => creds # NoRow)
  BY DEF CredTypeOK, RowsAtHand
<1>2. CASE LoadCached(c)
  <2>1. /\ cache \in CredRows /\ creds # NoRow /\ UNCHANGED <<world, creds, cache, makerVars, wish, case, sending, funds, crashes, status>>
        /\ pc' = [pc EXCEPT ![c] = "check"] /\ loaded' = [loaded EXCEPT ![c] = cache]
    BY <1>1, <1>2 DEF LoadCached
  <2>2. loaded'[c] \in CredRows
    BY <2>1 DEF CampaignTypeOK
  <2> QED
    BY <1>0, <1>1, <2>1, <2>2
<1>3. CASE FetchCredentials(c)
  <2>1. UNCHANGED <<world, creds, cache, makerVars, wish, case, sending, funds, crashes, status>>
    BY <1>3 DEF FetchCredentials
  <2>2. CASE creds # NoRow
    <3>1. /\ pc' = [pc EXCEPT ![c] = "store"] /\ loaded' = [loaded EXCEPT ![c] = creds]
          /\ creds \in CredRows
      BY <1>1, <1>3, <2>2 DEF FetchCredentials
    <3>2. loaded'[c] \in CredRows
      BY <3>1 DEF CampaignTypeOK
    <3> QED
      BY <1>0, <1>1, <2>1, <2>2, <3>1, <3>2
  <2>3. CASE creds = NoRow
    <3>1. \E to \in {"create", "done"} : pc' = [pc EXCEPT ![c] = to] /\ loaded' = loaded
      BY <1>3, <2>3 DEF FetchCredentials
    <3> QED
      BY <1>0, <1>1, <2>1, <3>1
  <2> QED
    BY <2>2, <2>3
<1>4. CASE CreateUnlimited(c)
  <2>1. UNCHANGED <<world, cache, makerVars, wish, case, sending, funds, crashes, status>>
    BY <1>4 DEF CreateUnlimited
  <2>2. CASE creds = NoRow /\ Goto(c, "create", "store") /\ creds' = AdminRow
             /\ loaded' = [loaded EXCEPT ![c] = AdminRow]
    <3>1. loaded'[c] \in CredRows
      BY <2>2 DEF CampaignTypeOK
    <3> QED
      BY <1>0, <1>1, <2>1, <2>2, <3>1
  <2>3. CASE Goto(c, "create", "done") /\ UNCHANGED <<creds, loaded>>
    BY <1>0, <1>1, <2>1, <2>3
  <2> QED
    BY <1>4, <2>2, <2>3 DEF CreateUnlimited
<1>5. CASE StoreCredentials(c)
  <2>1. loaded[c] \in CredRows /\ creds # NoRow
    BY <1>5 DEF StoreCredentials, RowsAtHand
  <2> QED
    BY <1>0, <1>1, <1>5, <2>1 DEF StoreCredentials
<1>6. CASE Compose(c)
  BY <1>0, <1>1, <1>6 DEF Compose, SetStatus
<1> QED
  BY <1>2, <1>3, <1>4, <1>5, <1>6 DEF ComposerStep

\* and so does deciding and sending it.
LEMMA DeciderRowInv ==
  ASSUME RowInv, UNCHANGED paymentVars, NEW d \in Deciders, DeciderStep(d)
  PROVE  RowInv'
<1> USE RowsAssumption, CampaignAssumption
<1> USE DEF RowInv, Goto, credVars, makerVars, composing, sending, paymentVars, Actors, Deciders
<1>1. creds \in CredRows \cup {NoRow} /\ cache \in CredRows \cup {NotCached}
      /\ (cache # NotCached => creds # NoRow) /\ case[d] \in Composers /\ d \notin Composers
  BY DEF CredTypeOK, RowsAtHand, CampaignTypeOK
\* A step that leaves the row alone,
<1>2. ASSUME UNCHANGED credVars, UNCHANGED <<composing, case, funds, crashes>>,
             NEW s \in Terminal \cup {"APPROVED"}, status' \in {status, [status EXCEPT ![case[d]] = s]},
             NEW to \in {"save", "done", "recipients", "stamp", "send", "charge", "final", "failed"},
             pc' = [pc EXCEPT ![d] = to],
             found' \in [Approvers -> Nat], result' \in [Approvers -> [ok : Nat, failed : Nat]],
             out' \in [Approvers -> Nat], paid' \in [Approvers -> Nat],
             \A a \in Approvers : result'[a].ok > 0 => creds # NoRow
      PROVE  RowInv'
  <2>1. CredTypeOK' /\ PaymentTypeOK'
    BY <1>2 DEF CredTypeOK, PaymentTypeOK
  <2>2. CampaignTypeOK'
    BY <1>1, <1>2 DEF CampaignTypeOK, Terminal
  <2>3. \A c \in Composers : pc'[c] = pc[c]
    BY <1>1, <1>2 DEF CampaignTypeOK
  <2>4. RowsAtHand'
    BY <1>2, <2>3 DEF RowsAtHand
  <2> QED
    BY <2>1, <2>2, <2>4
<1>3. /\ found \in [Approvers -> Nat] /\ result \in [Approvers -> [ok : Nat, failed : Nat]]
      /\ out \in [Approvers -> Nat] /\ paid \in [Approvers -> Nat]
      /\ \A a \in Approvers : result[a].ok > 0 => creds # NoRow
  BY DEF CampaignTypeOK, RowsAtHand
<1>4. CASE ReadMessage(d)
  BY <1>2, <1>3, <1>4 DEF ReadMessage, Terminal
<1>5. CASE d \in Rejecters /\ SaveRejected(d)
  BY <1>2, <1>3, <1>5 DEF SaveRejected, SetStatus, Terminal
<1>6. CASE d \in Approvers /\ SaveApproved(d)
  BY <1>2, <1>3, <1>6 DEF SaveApproved, SetStatus, Terminal
<1>7. CASE d \in Approvers /\ QueueJob(d)
  <2>1. \A n \in Audience(wish[case[d]]) : n \in Nat
    BY <1>1 DEF Audience, CampaignTypeOK
  <2>2. found' \in [Approvers -> Nat]
    BY <1>3, <1>7, <2>1 DEF QueueJob
  <2> QED
    BY <1>2, <1>3, <1>7, <2>2 DEF QueueJob, Terminal
<1>8. CASE d \in Approvers /\ StampSentAt(d)
  BY <1>2, <1>3, <1>8 DEF StampSentAt, Terminal
<1>9. CASE d \in Approvers /\ SendNothing(d)
  <2>1. /\ result' \in [Approvers -> [ok : Nat, failed : Nat]]
        /\ \A a \in Approvers : result'[a].ok > 0 => creds # NoRow
    BY <1>3, <1>9 DEF SendNothing
  <2> QED
    BY <1>2, <1>3, <1>9, <2>1 DEF SendNothing, Terminal
<1>10. CASE d \in Approvers /\ SendBatches(d)
  <2>1. PICK valid \in 1..found[d] : \E ok \in 0..valid : \E failed \in 0..(valid - ok) :
          /\ result' = [result EXCEPT ![d] = [ok |-> ok, failed |-> failed]]
          /\ \E sent \in ok..valid : out' = [out EXCEPT ![d] = sent]
    BY <1>10 DEF SendBatches
  <2>2. PICK ok \in 0..valid : \E failed \in 0..(valid - ok) :
          /\ result' = [result EXCEPT ![d] = [ok |-> ok, failed |-> failed]]
          /\ \E sent \in ok..valid : out' = [out EXCEPT ![d] = sent]
    BY <2>1
  <2> PICK failed \in 0..(valid - ok) :
          /\ result' = [result EXCEPT ![d] = [ok |-> ok, failed |-> failed]]
          /\ \E sent \in ok..valid : out' = [out EXCEPT ![d] = sent]
    BY <2>2
  <2> PICK sent \in ok..valid : out' = [out EXCEPT ![d] = sent]
    OBVIOUS
  <2>3. found[d] \in Nat
    BY <1>3, <1>10
  <2>4. ok \in Nat /\ failed \in Nat /\ sent \in Nat
    BY <2>3
  <2>5. [ok |-> ok, failed |-> failed] \in [ok : Nat, failed : Nat]
    BY <2>4
  <2>6. result' \in [Approvers -> [ok : Nat, failed : Nat]] /\ out' \in [Approvers -> Nat]
    <3>1. result' = [result EXCEPT ![d] = [ok |-> ok, failed |-> failed]]
      OBVIOUS
    <3>2. out' = [out EXCEPT ![d] = sent]
      OBVIOUS
    <3>3. out' \in [Approvers -> Nat]
      BY <1>3, <2>4, <3>2
    <3>4. result' \in [Approvers -> [ok : Nat, failed : Nat]]
      <4> DEFINE r == [ok |-> ok, failed |-> failed]
      <4>1. r \in [ok : Nat, failed : Nat] /\ result' = [result EXCEPT ![d] = r]
        BY <2>5, <3>1
      <4> HIDE DEF r
      <4> QED
        BY <1>3, <4>1, ZenonT(40)
    <3> QED
      BY <3>3, <3>4
  <2>7. creds # NoRow
    BY <1>10 DEF SendBatches
  <2> QED
    BY <1>2, <1>3, <1>10, <2>6, <2>7 DEF SendBatches, Terminal
<1>11. CASE d \in Approvers /\ Charge(d)
  <2>1. CASE result[d].ok = 0 /\ Goto(d, "charge", "final") /\ UNCHANGED <<creds, cache, paid>>
    BY <1>2, <1>3, <1>11, <2>1 DEF Charge, Terminal
  <2>2. CASE Goto(d, "charge", "failed") /\ UNCHANGED <<creds, cache, paid>>
    BY <1>2, <1>3, <1>11, <2>2 DEF Charge, Terminal
  <2>3. CASE result[d].ok > 0 /\ Goto(d, "charge", "final") /\ creds' = Deducted(creds, result[d].ok)
             /\ paid' = [paid EXCEPT ![d] = result[d].ok] /\ InvalidateInstituteCache
    <3>1. creds \in CredRows /\ result[d].ok \in Nat
      BY <1>1, <1>3, <1>11, <2>3
    <3>2. creds' \in CredRows
      BY <2>3, <3>1, DeductedRow
    <3>3. CredTypeOK' /\ PaymentTypeOK'
      BY <1>11, <2>3, <3>2 DEF Charge, CredTypeOK, PaymentTypeOK, InvalidateInstituteCache
    <3>4. CampaignTypeOK'
      BY <1>11, <2>3, <3>1 DEF Charge, CampaignTypeOK, Terminal
    <3>5. \A c \in Composers : pc'[c] = pc[c]
      BY <1>1, <2>3 DEF CampaignTypeOK
    <3>6. RowsAtHand'
      BY <1>11, <2>3, <3>2, <3>5 DEF Charge, RowsAtHand, InvalidateInstituteCache
    <3> QED
      BY <3>3, <3>4, <3>6
  <2> QED
    BY <1>11, <2>1, <2>2, <2>3 DEF Charge
<1>12. CASE d \in Approvers /\ Finalize(d)
  <2>1. FinalStatus(d) \in Terminal
    BY DEF FinalStatus, Terminal
  <2> QED
    BY <1>2, <1>3, <1>12, <2>1 DEF Finalize, SetStatus
<1>13. CASE d \in Approvers /\ MarkFailed(d)
  BY <1>2, <1>3, <1>13 DEF MarkFailed, SetStatus, Terminal
<1> QED
  BY <1>4, <1>5, <1>6, <1>7, <1>8, <1>9, <1>10, <1>11, <1>12, <1>13 DEF DeciderStep

\* A crash keeps the row and drops what was in memory.
LEMMA CrashRowInv == RowInv /\ Crash => RowInv'
<1> SUFFICES ASSUME RowInv, Crash PROVE RowInv'
  OBVIOUS
<1> USE RowsAssumption, CampaignAssumption
<1> USE DEF RowInv, Crash, EndCampaigns, composing, sending, Actors, Deciders
<1>1. CredTypeOK'
  BY DEF CredTypeOK
<1>2. PaymentTypeOK'
  BY DEF PaymentTypeOK
<1>3. CampaignTypeOK'
  BY DEF CampaignTypeOK
<1>4. RowsAtHand'
  BY DEF RowsAtHand
<1> QED
  BY <1>1, <1>2, <1>3, <1>4

LEMMA RowNextInv == RowInv /\ [SmsNext]_smsVars => RowInv'
<1> SUFFICES ASSUME RowInv, [SmsNext]_smsVars PROVE RowInv'
  OBVIOUS
<1>1. ASSUME UNCHANGED <<credVars, paymentVars, campaignVars>> PROVE RowInv'
  BY <1>1 DEF RowInv, CredTypeOK, PaymentTypeOK, CampaignTypeOK, RowsAtHand, credVars, makerVars,
              paymentVars, campaignVars, composing, sending
<1> QED
  BY <1>1, CredRowInv, PaymentRowInv, ComposerRowInv, DeciderRowInv, CrashRowInv
  DEF SmsNext, smsVars, CampaignNext

\* One world is the case throughout.
LEMMA WorldStays == [SmsNext]_smsVars => UNCHANGED world
<1> SUFFICES ASSUME [SmsNext]_smsVars PROVE UNCHANGED world
  OBVIOUS
<1> USE DEF credVars
<1>1. PaymentNext => UNCHANGED world
  BY DEF PaymentNext, SubmitPayment, VerifierStep, FindSubmission, BeginTransaction, ReadCredentials,
         CommitApproval, CommitRejection, RollBack, LookUpAndRelease
<1>2. \A c \in Composers : ComposerStep(c) => UNCHANGED world
  BY DEF ComposerStep, LoadCached, FetchCredentials, CreateUnlimited, StoreCredentials, Compose
<1>3. \A d \in Deciders : DeciderStep(d) => UNCHANGED world
  BY DEF DeciderStep, ReadMessage, SaveRejected, SaveApproved, QueueJob, StampSentAt, SendNothing,
         SendBatches, Charge, Finalize, MarkFailed
<1>4. CredNext => UNCHANGED world
  BY DEF CredNext, FindCredentials, CreateCredentials, DiffCredentials, SaveCredentials, CacheExpires
<1> QED
  BY <1>1, <1>2, <1>3, <1>4 DEF SmsNext, smsVars, CampaignNext, Crash

\* What a step of the service does to the masks.
LEMMA MaskSteps ==
  ASSUME MaskInv, MaskSerialInv, [SmsNext]_smsVars
  PROVE  /\ MaskInv' /\ MaskSerialInv'
         /\ \A m \in Masks : Registered(m) => Registered(m)' /\ masks'[m].owner = masks[m].owner
         /\ \A m \in Masks : world.serial /\ Unsuspended(m) => Approving(m)
<1> DEFINE Kept == \A m \in Masks : /\ Registered(m) => /\ Registered(m)'
                                                        /\ masks'[m].owner = masks[m].owner
                                    /\ ~Unsuspended(m)
<1>1. UNCHANGED world
  BY WorldStays
<1>2. CASE MaskNext
  <2>1. MaskInv' /\ \A m \in Masks : Registered(m) => Registered(m)' /\ masks'[m].owner = masks[m].owner
    BY <1>2, MaskNextInv
  <2>2. MaskAlone'
    BY <1>1, <1>2, MaskAloneNext DEF MaskInv, MaskSerialInv
  <2>3. CASE world.serial
    BY <1>1, <1>2, <2>1, <2>2, <2>3, MaskSettledNext DEF MaskSerialInv
  <2>4. CASE ~world.serial
    BY <1>1, <2>1, <2>2, <2>4 DEF MaskSerialInv, MaskSettled, OneDefault
  <2> QED
    BY <2>3, <2>4
<1>3. CASE UNCHANGED maskVars
  <2>1. Kept
    BY <1>3 DEF maskVars, Unsuspended, Registered
  <2> QED
    BY <1>1, <1>3, <2>1, MaskStutter
<1>4. CASE Crash
  <2>1. Kept
    BY <1>4 DEF Crash, Unsuspended, Registered
  <2> QED
    BY <1>4, <2>1, MaskCrash
<1> QED
  BY <1>2, <1>3, <1>4 DEF SmsNext, smsVars

\* Masks of institutes: however calls overlap none changes hands; served one
\* after the other, an institute has one default and a suspended mask waits for
\* an administrator, whatever crashes and whatever else the service does.
THEOREM MasksSound == SmsSpec => MasksHold
<1>1. SmsInit => MaskInv /\ MaskSerialInv
  BY MaskInitInv DEF SmsInit
<1>2. MaskInv /\ MaskSerialInv /\ [SmsNext]_smsVars => MaskInv' /\ MaskSerialInv'
  BY MaskSteps
<1>3. MaskInv /\ MaskSerialInv /\ [SmsNext]_smsVars =>
        [\A m \in Masks : Registered(m) => masks'[m] # NoMask /\ masks'[m].owner = masks[m].owner]_masks
  BY MaskSteps DEF Registered
<1>4. MaskInv /\ MaskSerialInv /\ [SmsNext]_smsVars =>
        [\A m \in Masks : world.serial /\ Unsuspended(m) => Approving(m)]_masks
  BY MaskSteps
<1>5. MaskSerialInv => OneDefault
  BY DEF MaskSerialInv
<1> QED
  BY <1>1, <1>2, <1>3, <1>4, <1>5, PTL DEF SmsSpec, MasksHold, OwnerKept, SuspensionKept

\* The registry, the row, the payments and the campaigns keep their types, for
\* any number of calls, masks and credits, and the crashes are bounded.
THEOREM SmsTyped == SmsSpec => []SmsTypeOK
<1>1. SmsInit => MaskInv /\ MaskSerialInv /\ RowInv
  BY MaskInitInv, RowInitInv DEF SmsInit
<1>2. MaskInv /\ MaskSerialInv /\ RowInv /\ [SmsNext]_smsVars => MaskInv' /\ MaskSerialInv' /\ RowInv'
  BY MaskSteps, RowNextInv
<1>3. MaskInv /\ RowInv => SmsTypeOK
  BY DEF MaskInv, RowInv, SmsTypeOK
<1> QED
  BY <1>1, <1>2, <1>3, PTL DEF SmsSpec

-----------------------------------------------------------------------------
(* The list of masks.                                                      *)

Saving(m) == mpc[m] \in {"diff", "write"}

Added == AddedBy(MaskMakers)

\* Two lists that were read at different times differ by what calls that
\* finished have added, and by the mask of the caller.
ListInv ==
  /\ \A m \in MaskMakers : m \notin world.calls => mpc[m] = "done"
  /\ \A m \in MaskMakers : Saving(m) =>
       /\ mask[m] \in entity[m].masks
       /\ creds.masks \subseteq entity[m].masks \cup Added
       /\ entity[m].masks \subseteq creds.masks \cup Added \cup {mask[m]}
  /\ \A m, n \in MaskMakers : Saving(m) /\ Saving(n) =>
       entity[m].masks \subseteq entity[n].masks \cup Added \cup {mask[m]}

\* A mask that is listed, or was before another call saved the row.
Known(k) == creds # NoRow /\ (k \in creds.masks \/ Overwritten(k))

\* What is cached or was read knows only such masks, and a message that is
\* decided exists.
SnapshotInv ==
  /\ cache # NotCached => \A k \in cache.masks : Known(k)
  /\ \A c \in Composers : pc[c] \in {"store", "check"} => \A k \in loaded[c].masks : Known(k)
  /\ \A c \in Composers : status[c] # "none" => Known(wish[c].mask)
  /\ \A d \in Deciders : pc[d] \notin {"idle", "done"} => status[case[d]] # "none"

\* What everything but createSenderMask leaves of the list and of its calls.
ListAlone ==
  /\ UNCHANGED <<world, mask, entity>>
  /\ \A m \in MaskMakers : mpc'[m] \in {mpc[m], "done"}
  /\ creds # NoRow => creds' # NoRow /\ creds'.masks = creds.masks

MakerStep(m) == \/ FindCredentials(m) \/ CreateCredentials(m)
                \/ DiffCredentials(m) \/ SaveCredentials(m)

LEMMA ListMoves ==
  ASSUME RowInv, [SmsNext]_smsVars
  PROVE  ListAlone \/ \E m \in MaskMakers : MakerStep(m)
<1> USE DEF RowInv, credVars, makerVars
<1>1. ASSUME UNCHANGED <<world, creds, makerVars>> PROVE ListAlone
  BY <1>1 DEF ListAlone
<1>2. CASE PaymentNext
  <2>1. CASE \E v \in Verifiers : CommitApproval(v)
    <3>1. PICK v \in Verifiers : CommitApproval(v)
      BY <2>1
    <3>2. creds # NoRow => creds' # NoRow /\ creds'.masks = creds.masks
      BY <3>1, CreditedIsRow, RowsAssumption DEF CommitApproval, At
    <3> QED
      BY <3>1, <3>2 DEF CommitApproval, ListAlone
  <2> QED
    BY <1>1, <1>2, <2>1 DEF PaymentNext, SubmitPayment, VerifierStep, FindSubmission,
       BeginTransaction, ReadCredentials, CommitRejection, RollBack, LookUpAndRelease
<1>3. ASSUME NEW c \in Composers, ComposerStep(c) PROVE ListAlone
  <2>1. CASE CreateUnlimited(c)
    BY <2>1 DEF CreateUnlimited, ListAlone
  <2> QED
    BY <1>1, <1>3, <2>1 DEF ComposerStep, LoadCached, FetchCredentials, StoreCredentials, Compose
<1>4. ASSUME NEW d \in Deciders, DeciderStep(d) PROVE ListAlone
  <2>1. CASE d \in Approvers /\ Charge(d)
    <3>1. result[d] \in [ok : Nat, failed : Nat] /\ creds \in CredRows \cup {NoRow}
      BY <2>1 DEF CampaignTypeOK, CredTypeOK
    <3>2. CASE creds' = creds
      BY <2>1, <3>2 DEF Charge, ListAlone
    <3>3. CASE result[d].ok > 0 /\ creds' = Deducted(creds, result[d].ok)
      <4>1. creds # NoRow /\ creds \in CredRows
        BY <2>1, <3>1, <3>3 DEF RowsAtHand
      <4>2. creds' \in CredRows /\ creds'.masks = creds.masks
        BY <3>1, <3>3, <4>1, DeductedRow
      <4> QED
        BY <2>1, <4>2, RowsAssumption DEF Charge, ListAlone
    <3> QED
      BY <2>1, <3>2, <3>3 DEF Charge
  <2> QED
    BY <1>1, <1>4, <2>1 DEF DeciderStep, ReadMessage, SaveRejected, SaveApproved, QueueJob,
       StampSentAt, SendNothing, SendBatches, Finalize, MarkFailed
<1>5. CASE CredNext
  BY <1>1, <1>5 DEF CredNext, MakerStep, CacheExpires
<1>6. CASE Crash
  BY <1>6 DEF Crash, ListAlone, CredTypeOK
<1> QED
  BY <1>1, <1>2, <1>3, <1>4, <1>5, <1>6 DEF SmsNext, smsVars, CampaignNext

\* What a mask that is dropped has behind it.
Dropped(k) ==
  \E m \in MaskMakers : /\ mpc[m] = "write" /\ mpc'[m] = "done"
                        /\ mask[m] # k /\ k \in AddedBy(MaskMakers \ {m})

LEMMA ListNextInv ==
  ASSUME RowInv, ListInv, [SmsNext]_smsVars
  PROVE  /\ ListInv'
         /\ UNCHANGED mask /\ \A m \in MaskMakers : mpc[m] = "done" => mpc'[m] = "done"
         /\ creds # NoRow => creds' # NoRow /\ \A k \in creds.masks \ creds'.masks : Dropped(k)
<1> USE RowsAssumption, EmptyIsRow DEF RowInv, MakerAt
<1> DEFINE Goal == /\ ListInv'
                   /\ UNCHANGED mask /\ \A m \in MaskMakers : mpc[m] = "done" => mpc'[m] = "done"
                   /\ creds # NoRow =>
                        creds' # NoRow /\ \A k \in creds.masks \ creds'.masks : Dropped(k)
<1>0. UNCHANGED world
  BY WorldStays
<1>1. CASE ListAlone
  <2>1. \A m \in MaskMakers : Saving(m)' => Saving(m) /\ creds # NoRow
    BY <1>1 DEF ListAlone, Saving, RowsAtHand
  <2>2. Added \subseteq Added'
    BY <1>1 DEF ListAlone, Added, AddedBy
  <2>3. ListInv'
    BY <1>1, <2>1, <2>2 DEF ListAlone, ListInv
  <2> QED
    BY <1>1, <2>3 DEF ListAlone
<1>2. ASSUME NEW m \in MaskMakers, MakerStep(m) PROVE Goal
  <2>0. mask[m] \in MaskIds /\ mpc[m] # "done" /\ m \in world.calls
        /\ UNCHANGED <<world, mask>>
        /\ \A n \in MaskMakers \ {m} : mpc'[n] = mpc[n] /\ entity'[n] = entity[n]
    BY <1>2 DEF MakerStep, FindCredentials, CreateCredentials, DiffCredentials, SaveCredentials,
                CredTypeOK, ListInv
  <2>1. Added' = IF mpc'[m] = "done" THEN Added \cup {mask[m]} ELSE Added
    BY <2>0 DEF Added, AddedBy
  <2>2. \A n \in MaskMakers \ {m} : Saving(n)' <=> Saving(n)
    BY <2>0 DEF Saving
  <2>3. CASE FindCredentials(m)
    <3>1. CASE Saving(m)'
      <4>1. creds \in CredRows /\ creds' = creds /\ entity'[m] = AddTo(creds, m)
        BY <2>3, <3>1 DEF FindCredentials, Saving, CredTypeOK
      <4>2. entity'[m].masks = creds.masks \cup {mask[m]} /\ Added' = Added
        BY <2>0, <2>1, <3>1, <4>1, AddedRow DEF Saving
      <4>3. ListInv'
        BY <2>0, <2>2, <4>1, <4>2 DEF ListInv
      <4> QED
        BY <2>0, <4>1, <4>3
    <3>2. CASE ~Saving(m)'
      <4>1. creds' = creds /\ Added \subseteq Added' /\ mask' = mask
        BY <2>0, <2>1, <2>3 DEF FindCredentials
      <4>2. ListInv'
        BY <2>0, <2>2, <3>2, <4>1 DEF ListInv
      <4> QED
        BY <2>0, <4>1, <4>2
    <3> QED
      BY <3>1, <3>2
  <2>4. CASE CreateCredentials(m)
    <3>1. CASE creds = NoRow
      <4>1. creds' = EmptyRow /\ entity'[m] = AddTo(EmptyRow, m)
        BY <2>4, <3>1 DEF CreateCredentials, CredTypeOK
      <4>2. entity'[m].masks = {mask[m]}
        BY <2>0, <4>1, AddedRow
      <4>3. \A n \in MaskMakers \ {m} : ~Saving(n)'
        BY <2>2, <3>1 DEF Saving, RowsAtHand
      <4>4. ListInv'
        BY <2>0, <4>1, <4>2, <4>3 DEF ListInv
      <4> QED
        BY <2>0, <3>1, <4>4
    <3>2. CASE creds # NoRow
      <4>1. creds' = creds /\ ~Saving(m)' /\ Added \subseteq Added' /\ mask' = mask
        BY <2>0, <2>1, <2>4, <3>2 DEF CreateCredentials, Saving, CredTypeOK
      <4>2. ListInv'
        BY <2>0, <2>2, <4>1 DEF ListInv
      <4> QED
        BY <2>0, <4>1, <4>2
    <3> QED
      BY <3>1, <3>2
  <2>5. CASE DiffCredentials(m)
    <3>1. creds' = creds /\ entity' = entity /\ Saving(m) /\ mask' = mask /\ Added' = Added
      BY <2>0, <2>1, <2>5 DEF DiffCredentials, Saving, CredTypeOK
    <3>2. ListInv'
      BY <2>0, <2>2, <3>1 DEF ListInv
    <3> QED
      BY <2>0, <3>1, <3>2
  <2>6. CASE SaveCredentials(m)
    <3>1. /\ mpc[m] = "write" /\ mpc'[m] = "done" /\ entity' = entity /\ Saving(m)
          /\ creds' = Merge(creds, entity[m], columns[m])
      BY <2>6 DEF SaveCredentials, Saving, CredTypeOK
    <3>2. creds # NoRow /\ creds \in CredRows /\ entity[m] \in CredRows
      BY <3>1 DEF RowsAtHand, CredTypeOK
    <3>3. creds' \in CredRows /\ creds'.masks \in {creds.masks, entity[m].masks}
      BY <3>1, <3>2, MergedRow
    <3>4. Added' = Added \cup {mask[m]}
      BY <2>1, <3>1
    <3>5. creds.masks \subseteq entity[m].masks \cup Added /\ mask[m] \in entity[m].masks
      BY <3>1 DEF ListInv
    <3>6. ASSUME NEW k \in creds.masks \ creds'.masks PROVE Dropped(k)
      <4>1. k \in Added /\ mask[m] # k
        BY <3>3, <3>5, <3>6
      <4>2. k \in AddedBy(MaskMakers \ {m})
        BY <3>1, <4>1 DEF Added, AddedBy
      <4> QED
        BY <3>1, <4>1, <4>2 DEF Dropped
    <3>7. ListInv'
      <4>1. \A n \in MaskMakers : Saving(n)' => n # m /\ Saving(n)
        BY <2>2, <3>1 DEF Saving
      <4> QED
        BY <2>0, <3>1, <3>3, <3>4, <4>1 DEF ListInv
    <3> QED
      BY <2>0, <3>2, <3>3, <3>6, <3>7
  <2> QED
    BY <1>2, <2>3, <2>4, <2>5, <2>6 DEF MakerStep
<1> QED
  BY <1>1, <1>2, ListMoves

LEMMA KnownStays ==
  ASSUME RowInv, ListInv, [SmsNext]_smsVars, NEW k, Known(k)
  PROVE  Known(k)'
<1>1. /\ UNCHANGED <<world, mask>> /\ \A m \in MaskMakers : mpc[m] = "done" => mpc'[m] = "done"
      /\ creds' # NoRow /\ (k \in creds.masks \ creds'.masks => Dropped(k))
  BY ListNextInv, WorldStays DEF Known
<1>2. ASSUME NEW S \in SUBSET MaskMakers, k \in AddedBy(S) PROVE k \in AddedBy(S)'
  BY <1>1, <1>2 DEF AddedBy
<1>3. ASSUME NEW m \in MaskMakers, mpc'[m] = "done", m \in world.calls, mask[m] # k,
             k \in AddedBy(MaskMakers \ {m})
      PROVE  Overwritten(k)'
  <2>1. k \in AddedBy(MaskMakers \ {m})'
    BY <1>2, <1>3
  <2> QED
    BY <1>1, <1>3, <2>1 DEF Overwritten
<1>4. Dropped(k) => Overwritten(k)'
  BY <1>3 DEF Dropped, ListInv
<1>5. Overwritten(k) => Overwritten(k)'
  BY <1>1, <1>3 DEF Overwritten
<1> QED
  BY <1>1, <1>4, <1>5 DEF Known

LEMMA SnapshotNextInv ==
  ASSUME RowInv, ListInv, SnapshotInv, [SmsNext]_smsVars
  PROVE  SnapshotInv'
<1> USE RowsAssumption, CampaignAssumption
<1> USE DEF RowInv, credVars, makerVars, campaignVars, composing, Goto, Actors, Deciders
<1>1. \A k : Known(k) => Known(k)'
  BY KnownStays
<1>2. ASSUME UNCHANGED <<status, wish, case, loaded>>, cache' \in {cache, NotCached},
             \A a \in Actors : pc'[a] \in {pc[a], "done"}
      PROVE  SnapshotInv'
  BY <1>1, <1>2 DEF SnapshotInv
<1>3. CASE PaymentNext /\ UNCHANGED campaignVars
  BY <1>2, <1>3 DEF PaymentNext, SubmitPayment, VerifierStep, FindSubmission, BeginTransaction,
     ReadCredentials, CommitApproval, CommitRejection, RollBack, LookUpAndRelease,
     InvalidateInstituteCache
<1>4. CASE CredNext /\ UNCHANGED campaignVars
  BY <1>2, <1>4 DEF CredNext, FindCredentials, CreateCredentials, DiffCredentials, SaveCredentials,
     CacheExpires, InvalidateInstituteCache
<1>5. CASE Crash
  BY <1>2, <1>5 DEF Crash, EndCampaigns
<1>6. ASSUME NEW c \in Composers, ComposerStep(c), UNCHANGED paymentVars PROVE SnapshotInv'
  <2>1. \A d \in Deciders : pc'[d] = pc[d] /\ case'[d] = case[d] /\ case[d] \in Composers
    BY <1>6 DEF ComposerStep, LoadCached, FetchCredentials, CreateUnlimited, StoreCredentials, Compose,
                CampaignTypeOK
  <2>2. /\ UNCHANGED wish /\ \A b \in Composers : status[b] # "none" => status'[b] # "none"
        /\ \A b \in Composers \ {c} : pc'[b] = pc[b] /\ loaded'[b] = loaded[b] /\ status'[b] = status[b]
    BY <1>6 DEF ComposerStep, LoadCached, FetchCredentials, CreateUnlimited, StoreCredentials, Compose,
                CampaignTypeOK, SetStatus
  <2>3. ASSUME cache' # NotCached => \A k \in cache'.masks : Known(k)',
               pc'[c] \in {"store", "check"} => \A k \in loaded'[c].masks : Known(k)',
               status'[c] # "none" => Known(wish[c].mask)'
        PROVE  SnapshotInv'
    BY <1>1, <2>1, <2>2, <2>3 DEF SnapshotInv
  <2>4. CASE LoadCached(c)
    BY <1>1, <2>3, <2>4 DEF LoadCached, SnapshotInv, CampaignTypeOK
  <2>5. CASE FetchCredentials(c)
    <3>1. \A k \in creds.masks : creds # NoRow => Known(k)
      BY DEF Known
    <3> QED
      BY <1>1, <2>3, <2>5, <3>1 DEF FetchCredentials, SnapshotInv, CampaignTypeOK
  <2>6. CASE CreateUnlimited(c)
    <3>1. CASE creds = NoRow /\ creds' = AdminRow /\ loaded' = [loaded EXCEPT ![c] = AdminRow]
      <4>1. \A k \in AdminRow.masks : Known(k)'
        BY <3>1 DEF Known
      <4>2. cache' = NotCached /\ status[c] = "none" /\ status' = status
        BY <2>6, <3>1 DEF CreateUnlimited, RowsAtHand, SnapshotInv, Known
      <4> QED
        BY <2>3, <3>1, <4>1, <4>2 DEF CampaignTypeOK
    <3>2. CASE Goto(c, "create", "done") /\ UNCHANGED <<creds, loaded>>
      BY <1>1, <2>3, <2>6, <3>2 DEF CreateUnlimited, SnapshotInv, CampaignTypeOK
    <3> QED
      BY <2>6, <3>1, <3>2 DEF CreateUnlimited
  <2>7. CASE StoreCredentials(c)
    BY <1>1, <2>3, <2>7 DEF StoreCredentials, SnapshotInv, CampaignTypeOK
  <2>8. CASE Compose(c)
    <3>1. pc[c] = "check" /\ pc'[c] = "done" /\ UNCHANGED <<cache, loaded>>
      BY <2>8 DEF Compose, CampaignTypeOK
    <3>2. Acceptable(c) => Known(wish[c].mask)
      BY <3>1 DEF Acceptable, MaskListed, SnapshotInv
    <3>3. status'[c] # "none" => Acceptable(c) \/ status[c] # "none"
      BY <2>8 DEF Compose
    <3> QED
      BY <1>1, <2>2, <2>3, <3>1, <3>2, <3>3 DEF SnapshotInv
  <2> QED
    BY <1>6, <2>4, <2>5, <2>6, <2>7, <2>8 DEF ComposerStep
<1>7. ASSUME NEW d \in Deciders, DeciderStep(d), UNCHANGED paymentVars PROVE SnapshotInv'
  <2>1. case[d] \in Composers /\ \A c \in Composers : c # d
    BY DEF CampaignTypeOK
  <2>2. /\ UNCHANGED <<wish, loaded, case>> /\ cache' \in {cache, NotCached}
        /\ \A e \in Actors \ {d} : pc'[e] = pc[e]
    BY <1>7 DEF DeciderStep, ReadMessage, SaveRejected, SaveApproved, QueueJob, StampSentAt,
       SendNothing, SendBatches, Charge, Finalize, MarkFailed, InvalidateInstituteCache, CampaignTypeOK
  <2>3. CASE ReadMessage(d)
    <3>1. pc'[d] \in {"save", "done"} /\ (pc'[d] = "save" => status[case[d]] # "none")
          /\ status' = status
      BY <2>3 DEF ReadMessage, Decidable, CampaignTypeOK
    <3> QED
      BY <1>1, <2>1, <2>2, <3>1 DEF SnapshotInv
  <2>4. CASE ~ReadMessage(d)
    <3>1. pc[d] \notin {"idle", "done"}
      BY <1>7, <2>4 DEF DeciderStep, SaveRejected, SaveApproved, QueueJob, StampSentAt, SendNothing,
         SendBatches, Charge, Finalize, MarkFailed
    <3>2. \E t : t # "none" /\ status' \in {status, [status EXCEPT ![case[d]] = t]}
      BY <1>7, <2>4 DEF DeciderStep, SaveRejected, SaveApproved, QueueJob, StampSentAt, SendNothing,
         SendBatches, Charge, Finalize, MarkFailed, FinalStatus, SetStatus
    <3>3. status[case[d]] # "none"
      BY <3>1 DEF SnapshotInv
    <3>4. \A c \in Composers : status'[c] # "none" <=> status[c] # "none"
      BY <2>1, <3>2, <3>3 DEF CampaignTypeOK
    <3> QED
      BY <1>1, <2>1, <2>2, <3>3, <3>4 DEF SnapshotInv, CampaignTypeOK
  <2> QED
    BY <2>3, <2>4
<1>8. CASE UNCHANGED <<credVars, campaignVars>>
  BY <1>2, <1>8
<1> QED
  BY <1>3, <1>4, <1>5, <1>6, <1>7, <1>8 DEF SmsNext, smsVars, CampaignNext

\* However calls overlap, whatever crashes and however old a cached row has
\* become: the list of masks loses only what two createSenderMask calls that
\* met overwrote, and a message bears a listed mask but for these.
THEOREM ListingKept == SmsSpec => ListingHolds
<1> DEFINE Inv == RowInv /\ ListInv /\ SnapshotInv
<1>1. SmsInit => Inv
  <2> SUFFICES ASSUME SmsInit PROVE Inv
    OBVIOUS
  <2>1. ListInv
    BY DEF SmsInit, CredInit, ListInv, Saving, Coming
  <2>2. SnapshotInv
    BY CampaignAssumption DEF SmsInit, CredInit, CampaignInit, SnapshotInv, Coming, Actors, Deciders
  <2> QED
    BY <2>1, <2>2, RowInitInv
<1>2. Inv /\ [SmsNext]_smsVars => Inv'
  BY RowNextInv, ListNextInv, SnapshotNextInv
<1>3. Inv => OnlyListedMasks
  BY DEF SnapshotInv, Known, OnlyListedMasks
<1>4. Inv /\ [SmsNext]_smsVars =>
        [creds # NoRow => \A k \in creds.masks \ creds'.masks :
           \E m \in MaskMakers : /\ mpc[m] = "write" /\ mpc'[m] = "done"
                                 /\ mask[m] # k /\ k \in AddedBy(MaskMakers \ {m})]_creds
  BY ListNextInv DEF Dropped
<1> QED
  BY <1>1, <1>2, <1>3, <1>4, PTL DEF SmsSpec, ListingHolds, MasksKept

-----------------------------------------------------------------------------
(* Payments.                                                               *)

Verifying(v) == vpc[v] \notin {"idle", "done"}

\* Verifications one after the other: one is under way at a time, and its
\* submission is pending until it commits.
PayInv ==
  world.serial =>
    /\ \A v, w \in Verifiers : Verifying(v) /\ Verifying(w) => v = w
    /\ \A v \in Verifiers : vpc[v] \in {"begin", "find", "approve", "reject"} => Pending(v)
    /\ \A s \in Submissions : paymentStatus[s] = "VERIFIED" <=> grants[s] > 0

\* With no other calls, the verification under way has read the row as it is,
\* and nothing was granted before there was one.
BalanceInv ==
  world.serial /\ world.calls \subseteq Verifiers \cup Submissions =>
    /\ \A m \in MaskMakers : mpc[m] = "done"
    /\ \A a \in Actors : pc[a] = "done"
    /\ \A v \in Verifiers : vpc[v] = "approve" => seen[v] = creds
    /\ creds = NoRow => opening = 0 /\ \A s \in Submissions : grants[s] = 0
    /\ creds # NoRow => creds.credits = opening + TotalGranted

\* Neither a crash nor another service touches what they speak of.
LEMMA PayStutter ==
  ASSUME RowInv, PayInv, UNCHANGED world, UNCHANGED <<paymentStatus, about, grants>>,
         \A v \in Verifiers : vpc'[v] \in {vpc[v], "done"}
  PROVE  PayInv'
BY DEF PayInv, Verifying, Pending

LEMMA PayNextInv == RowInv /\ PayInv /\ [SmsNext]_smsVars => PayInv'
<1> SUFFICES ASSUME RowInv, PayInv, [SmsNext]_smsVars, world.serial PROVE PayInv'
  BY WorldStays DEF PayInv
<1> USE DEF RowInv, At
<1>0. UNCHANGED world
  BY WorldStays
<1>1. ASSUME NEW s \in Submissions, SubmitPayment(s) PROVE PayInv'
  <2>1. paymentStatus[s] = "none" /\ paymentStatus' = [paymentStatus EXCEPT ![s] = "PENDING"]
        /\ UNCHANGED <<vpc, about, grants>>
    BY <1>1 DEF SubmitPayment
  <2>2. \A v \in Verifiers : Pending(v) => Pending(v)'
    BY <2>1 DEF Pending, PaymentTypeOK
  <2> QED
    BY <1>0, <2>1, <2>2 DEF PayInv, PaymentTypeOK, Verifying
<1>2. ASSUME NEW v \in Verifiers, VerifierStep(v) PROVE PayInv'
  <2>1. /\ \A w \in Verifiers \ {v} : ~Verifying(w) /\ vpc'[w] = vpc[w]
        /\ about' = about /\ about[v] \in Submissions
    BY <1>2 DEF VerifierStep, FindSubmission, BeginTransaction, ReadCredentials, CommitApproval,
       CommitRejection, RollBack, LookUpAndRelease, VerifierMayBegin, PayInv, PaymentTypeOK, Verifying
  <2>2. \A w \in Verifiers \ {v} : ~Verifying(w)'
    BY <2>1 DEF Verifying
  <2>3. ASSUME vpc'[v] \in {"begin", "find", "approve", "reject"} => Pending(v)',
               \A s \in Submissions : (paymentStatus[s] = "VERIFIED" <=> grants[s] > 0)'
        PROVE  PayInv'
    BY <1>0, <2>1, <2>2, <2>3 DEF PayInv, Verifying
  <2>4. CASE UNCHANGED <<paymentStatus, grants>>
    <3>1. vpc'[v] \in {"begin", "find", "approve", "reject"} => Pending(v)
      BY <1>2, <2>4 DEF VerifierStep, FindSubmission, BeginTransaction, ReadCredentials,
         CommitApproval, CommitRejection, RollBack, LookUpAndRelease, PayInv, PaymentTypeOK
    <3> QED
      BY <2>1, <2>3, <2>4, <3>1 DEF Pending, PayInv
  <2>5. CASE CommitApproval(v)
    <3>1. /\ vpc'[v] = "lookup" /\ paymentStatus' = [paymentStatus EXCEPT ![about[v]] = "VERIFIED"]
          /\ grants' = [grants EXCEPT ![about[v]] = @ + 1]
      BY <2>5 DEF CommitApproval, Settle, PaymentTypeOK
    <3> QED
      BY <2>1, <2>3, <3>1 DEF PayInv, PaymentTypeOK
  <2>6. CASE CommitRejection(v)
    <3>1. /\ vpc'[v] = "lookup" /\ paymentStatus' = [paymentStatus EXCEPT ![about[v]] = "REJECTED"]
          /\ grants' = grants /\ paymentStatus[about[v]] = "PENDING"
      BY <2>6 DEF CommitRejection, Settle, PaymentTypeOK, PayInv, Pending
    <3> QED
      BY <2>1, <2>3, <3>1 DEF PayInv, PaymentTypeOK
  <2> QED
    BY <1>2, <2>4, <2>5, <2>6 DEF VerifierStep, FindSubmission, BeginTransaction, ReadCredentials,
       RollBack, LookUpAndRelease
<1>3. CASE UNCHANGED paymentVars
  BY <1>0, <1>3, PayStutter DEF paymentVars
<1>4. CASE Crash
  BY <1>0, <1>4, PayStutter DEF Crash
<1> QED
  BY <1>1, <1>2, <1>3, <1>4 DEF SmsNext, smsVars, PaymentNext

\* A grant counts once, for the one submission that was not granted yet.
LEMMA CountedOnce ==
  ASSUME PaymentTypeOK, NEW t \in Submissions, grants[t] = 0,
         grants' = [grants EXCEPT ![t] = @ + 1]
  PROVE  TotalGranted' = TotalGranted + Requested /\ TotalGranted \in Nat
<1> DEFINE G == {s \in Submissions : grants[s] > 0}
<1>1. IsFiniteSet(G)
  BY PoolAssumption, FS_Subset
<1>2. {s \in Submissions : grants'[s] > 0} = G \cup {t} /\ t \notin G
  BY DEF PaymentTypeOK
<1>3. Cardinality(G \cup {t}) = Cardinality(G) + 1 /\ Cardinality(G) \in Nat
  BY <1>1, <1>2, FS_AddElement, FS_CardinalityType
<1> HIDE DEF G
<1>4. TotalGranted = Requested * Cardinality(G) /\ TotalGranted' = Requested * Cardinality(G \cup {t})
  BY <1>2 DEF TotalGranted, G
<1> QED
  BY <1>3, <1>4, PoolAssumption

LEMMA NoneCounted == (\A s \in Submissions : grants[s] = 0) => TotalGranted = 0
<1> SUFFICES ASSUME \A s \in Submissions : grants[s] = 0 PROVE TotalGranted = 0
  OBVIOUS
<1>1. {s \in Submissions : grants[s] > 0} = {}
  OBVIOUS
<1>2. Cardinality({s \in Submissions : grants[s] > 0}) = 0
  BY <1>1, FS_EmptySet
<1> QED
  BY <1>2, PoolAssumption DEF TotalGranted

LEMMA BalanceNextInv ==
  RowInv /\ PayInv /\ BalanceInv /\ [SmsNext]_smsVars => BalanceInv'
<1> SUFFICES ASSUME RowInv, PayInv, BalanceInv, [SmsNext]_smsVars, world.serial,
                    world.calls \subseteq Verifiers \cup Submissions
             PROVE  BalanceInv'
  BY WorldStays DEF BalanceInv
<1> USE RowsAssumption DEF RowInv, At
<1>0. UNCHANGED world /\ \A m \in MaskMakers : mpc[m] = "done"
  BY WorldStays DEF BalanceInv
<1>1. \A a \in Actors : pc[a] = "done"
  BY DEF BalanceInv
<1>2. ASSUME UNCHANGED <<creds, opening, grants>>, \A m \in MaskMakers : mpc'[m] = "done",
             \A a \in Actors : pc'[a] = "done",
             \A v \in Verifiers : vpc'[v] = "approve" => seen'[v] = creds
      PROVE  BalanceInv'
  BY <1>0, <1>2 DEF BalanceInv, TotalGranted
<1>3. CASE UNCHANGED <<creds, mpc, paymentVars, campaignVars>>
  BY <1>0, <1>1, <1>2, <1>3 DEF paymentVars, campaignVars, BalanceInv
<1>4. CASE CredNext /\ UNCHANGED <<paymentVars, campaignVars>>
  <2>1. CacheExpires
    BY <1>0, <1>4 DEF CredNext, FindCredentials, CreateCredentials, DiffCredentials, SaveCredentials,
       MakerAt
  <2> QED
    BY <1>3, <1>4, <2>1 DEF CacheExpires, makerVars
<1>5. CASE CampaignNext
  <2>1. FALSE
    BY <1>1, <1>5 DEF CampaignNext, ComposerStep, LoadCached, FetchCredentials, CreateUnlimited,
       StoreCredentials, Compose, DeciderStep, ReadMessage, SaveRejected, SaveApproved, QueueJob,
       StampSentAt, SendNothing, SendBatches, Charge, Finalize, MarkFailed, Goto, Actors, Deciders
  <2> QED
    BY <2>1
<1>6. CASE Crash
  <2>1. \A v \in Verifiers : vpc'[v] # "approve"
    BY <1>6 DEF Crash
  <2> QED
    BY <1>0, <1>1, <1>2, <1>6, <2>1 DEF Crash, EndCampaigns
<1>7. ASSUME PaymentNext, UNCHANGED campaignVars, UNCHANGED <<creds, mpc, opening, grants>> PROVE BalanceInv'
  <2>1. \A v \in Verifiers : vpc'[v] = "approve" => seen'[v] = creds
    BY <1>7 DEF PaymentNext, SubmitPayment, VerifierStep, FindSubmission, BeginTransaction,
       ReadCredentials, CommitApproval, CommitRejection, RollBack, LookUpAndRelease, PaymentTypeOK,
       BalanceInv
  <2> QED
    BY <1>0, <1>1, <1>2, <1>7, <2>1 DEF campaignVars
<1>8. ASSUME NEW v \in Verifiers, CommitApproval(v), UNCHANGED campaignVars PROVE BalanceInv'
  <2> DEFINE t == about[v]
  <2>1. /\ vpc[v] = "approve" /\ vpc' = [vpc EXCEPT ![v] = "lookup"] /\ creds' = Credited(v)
        /\ grants' = [grants EXCEPT ![t] = @ + 1] /\ UNCHANGED <<mpc, seen, opening>> /\ ~InsertFails(v)
    BY <1>8 DEF CommitApproval, makerVars
  <2>2. t \in Submissions /\ grants[t] = 0
    BY <2>1 DEF PayInv, Pending, PaymentTypeOK
  <2>3. seen[v] = creds
    BY <2>1 DEF BalanceInv
  <2>4. creds' \in CredRows /\ creds'.credits = Requested + IF creds = NoRow THEN 0 ELSE creds.credits
    BY <2>1, <2>3, CreditedIsRow
  <2>5. TotalGranted' = TotalGranted + Requested /\ TotalGranted \in Nat
    BY <2>1, <2>2, CountedOnce
  <2>6. \A w \in Verifiers : vpc'[w] # "approve"
    BY <2>1 DEF PayInv, Verifying, PaymentTypeOK
  <2>7. creds = NoRow => TotalGranted = 0 /\ opening = 0
    <3> SUFFICES ASSUME creds = NoRow PROVE TotalGranted = 0 /\ opening = 0
      OBVIOUS
    <3>1. opening = 0 /\ \A s \in Submissions : grants[s] = 0
      BY DEF BalanceInv
    <3> QED
      BY <3>1, NoneCounted
  <2>8. creds' # NoRow /\ creds'.credits = opening + TotalGranted'
    <3>1. CASE creds = NoRow
      <4>1. creds'.credits = Requested + 0 /\ creds' # NoRow
        BY <2>4, <3>1
      <4>2. TotalGranted = 0 /\ opening = 0
        BY <2>7, <3>1
      <4> QED
        BY <2>5, <4>1, <4>2, PoolAssumption
    <3>2. CASE creds # NoRow
      <4>1. creds'.credits = Requested + creds.credits /\ creds' # NoRow
        BY <2>4, <3>2
      <4>2. creds.credits = opening + TotalGranted
        BY <3>2 DEF BalanceInv
      <4>3. opening \in Nat /\ Requested \in Nat
        BY PoolAssumption DEF PaymentTypeOK
      <4> QED
        BY <2>5, <4>1, <4>2, <4>3
    <3> QED
      BY <3>1, <3>2
  <2> QED
    BY <1>0, <1>1, <1>8, <2>1, <2>6, <2>8 DEF BalanceInv, campaignVars
<1> QED
  BY <1>3, <1>4, <1>5, <1>6, <1>7, <1>8 DEF SmsNext, smsVars, PaymentNext, SubmitPayment, VerifierStep,
     FindSubmission, BeginTransaction, ReadCredentials, CommitRejection, RollBack, LookUpAndRelease,
     credVars, makerVars

\* Decided one after the other, a payment is verified exactly when its credits
\* were granted, whatever statements fail and wherever the process dies; and
\* with no other calls the balance is what was granted, to the credit.
THEOREM PaymentsSettled == SmsSpec => []GrantsSettled
<1> DEFINE Inv == RowInv /\ PayInv /\ BalanceInv
<1>1. SmsInit => Inv
  <2> SUFFICES ASSUME SmsInit PROVE Inv
    OBVIOUS
  <2>1. PayInv
    BY DEF SmsInit, PaymentInit, PayInv, Verifying, Coming
  <2>2. TotalGranted = 0
    BY NoneCounted DEF SmsInit, PaymentInit
  <2>3. creds # NoRow => opening = creds.credits /\ opening \in Nat
    BY RowInitInv, RowsAssumption DEF SmsInit, PaymentInit, RowInv, PaymentTypeOK
  <2>4. BalanceInv
    BY <2>2, <2>3, CallsAssumption
    DEF SmsInit, CredInit, PaymentInit, CampaignInit, BalanceInv, Coming
  <2> QED
    BY <2>1, <2>4, RowInitInv
<1>2. Inv /\ [SmsNext]_smsVars => Inv'
  BY RowNextInv, PayNextInv, BalanceNextInv
<1>3. Inv => GrantsSettled
  BY DEF PayInv, BalanceInv, GrantsSettled, VerifiedIffGranted, GrantsKept
<1> QED
  BY <1>1, <1>2, <1>3, PTL DEF SmsSpec

-----------------------------------------------------------------------------
(* Campaigns.                                                              *)

\* A job has recipients until it sends and an answer for one of them after, and
\* it is past its deduction when it settles.
JobInv ==
  \A a \in Approvers :
    /\ pc[a] \in {"stamp", "send"} => found[a] > 0
    /\ pc[a] \in {"charge", "final"} => result[a].ok + result[a].failed > 0
    /\ pc[a] = "final" /\ result[a].ok > 0 => paid[a] = result[a].ok

\* What settles a message as sent: a job that ended and was paid for.
PaidBy(c, a) == /\ case[a] = c /\ pc[a] = "done"
                /\ result[a].ok > 0 /\ paid[a] = result[a].ok
                /\ status[c] = "SENT" <=> result[a].failed = 0

PaidInv == \A c \in Composers : status[c] \in {"SENT", "PARTIALLY_SENT"} =>
             \E a \in Approvers : PaidBy(c, a)

\* Past the point where its approval was stored.
Approved(a) == \/ pc[a] \in {"recipients", "stamp", "send", "charge", "final", "failed"}
               \/ out[a] > 0

\* One administrator at a time: whoever is about to decide a message finds it
\* waiting, and the one approval it gets leaves it neither waiting nor rejected.
DecideInv ==
  world.serial =>
    /\ \A c \in Composers : status[c] # "none" => pc[c] = "done"
    /\ \A d \in Deciders : pc[d] = "save" =>
         status[case[d]] = "PENDING_VERIFICATION"
    /\ \A d, e \in Deciders : pc[d] = "save" /\ pc[e] = "save" /\ case[d] = case[e] => d = e
    /\ \A a \in Approvers : Approved(a) =>
         status[case[a]] \notin {"none", "PENDING_VERIFICATION", "REJECTED"}
    /\ \A a, b \in Approvers : Approved(a) /\ Approved(b) /\ case[a] = case[b] => a = b

CampaignInv == JobInv /\ PaidInv /\ DecideInv

\* Whatever else happens leaves a campaign alone or ends what was under way.
LEMMA CampaignStutter ==
  ASSUME RowInv, CampaignInv, UNCHANGED world, UNCHANGED <<status, case, sending>>,
         \A a \in Actors : pc'[a] \in {pc[a], "done"}
  PROVE  CampaignInv'
<1> USE DEF Actors, Deciders, sending
<1>1. JobInv'
  BY DEF CampaignInv, JobInv
<1>2. PaidInv'
  <2> SUFFICES ASSUME NEW c \in Composers, status[c] \in {"SENT", "PARTIALLY_SENT"}
               PROVE  \E a \in Approvers : PaidBy(c, a)'
    BY DEF PaidInv
  <2>1. PICK a \in Approvers : PaidBy(c, a)
    BY DEF CampaignInv, PaidInv
  <2> QED
    BY <2>1 DEF PaidBy
<1>3. DecideInv'
  BY DEF CampaignInv, DecideInv, Approved
<1> QED
  BY <1>1, <1>2, <1>3 DEF CampaignInv

LEMMA ComposerCampaignInv ==
  ASSUME RowInv, CampaignInv, UNCHANGED world, NEW c \in Composers, ComposerStep(c)
  PROVE  CampaignInv'
<1> USE CampaignAssumption DEF RowInv, Goto, sending, composing, Actors, Deciders
<1>1. /\ pc[c] # "done" /\ UNCHANGED <<case, sending>>
      /\ \A a \in Actors \ {c} : pc'[a] = pc[a]
      /\ pc'[c] \in {"create", "store", "check", "done"}
      /\ \/ status' = status
         \/ status' = [status EXCEPT ![c] = "PENDING_VERIFICATION"] /\ pc'[c] = "done"
  BY DEF ComposerStep, LoadCached, FetchCredentials, CreateUnlimited, StoreCredentials, Compose,
         SetStatus, CampaignTypeOK
<1>2. \A d \in Deciders : pc'[d] = pc[d] /\ case[d] \in Composers
  BY <1>1 DEF CampaignTypeOK
<1>3. JobInv'
  BY <1>1, <1>2 DEF CampaignInv, JobInv
<1>4. PaidInv'
  <2> SUFFICES ASSUME NEW b \in Composers, status'[b] \in {"SENT", "PARTIALLY_SENT"}
               PROVE  \E a \in Approvers : PaidBy(b, a)'
    BY DEF PaidInv
  <2>1. status'[b] = status[b]
    BY <1>1 DEF CampaignTypeOK
  <2>2. PICK a \in Approvers : PaidBy(b, a)
    BY <2>1 DEF CampaignInv, PaidInv
  <2> QED
    BY <1>1, <1>2, <2>1, <2>2 DEF PaidBy
<1>5. DecideInv'
  <2> SUFFICES ASSUME world.serial PROVE DecideInv'
    BY DEF DecideInv
  <2>1. status[c] = "none" /\ \A b \in Composers \ {c} : status'[b] = status[b]
    BY <1>1 DEF CampaignInv, DecideInv, CampaignTypeOK
  <2>2. \A b \in Composers : status'[b] # "none" => pc'[b] = "done"
    BY <1>1, <2>1 DEF CampaignInv, DecideInv
  <2>3. \A d \in Deciders : pc[d] = "save" => case[d] # c
    BY <2>1 DEF CampaignInv, DecideInv
  <2>4. \A a \in Approvers : Approved(a)' => Approved(a) /\ case[a] # c
    BY <1>1, <1>2, <2>1 DEF CampaignInv, DecideInv, Approved
  <2>5. \A a \in Approvers : Approved(a)' => status'[case'[a]] \notin {"none", "PENDING_VERIFICATION", "REJECTED"}
    BY <1>1, <1>2, <2>1, <2>4 DEF CampaignInv, DecideInv
  <2> QED
    BY <1>1, <1>2, <2>1, <2>2, <2>3, <2>4, <2>5 DEF CampaignInv, DecideInv
<1> QED
  BY <1>3, <1>4, <1>5 DEF CampaignInv

LEMMA DeciderJobInv ==
  ASSUME RowInv, JobInv, NEW d \in Deciders, DeciderStep(d)
  PROVE  JobInv'
<1> USE CampaignAssumption DEF RowInv, Goto, sending, Actors, Deciders
<1>1. \A a \in Approvers : /\ found[a] \in Nat /\ result[a] \in [ok : Nat, failed : Nat]
                           /\ paid[a] \in Nat
  BY DEF CampaignTypeOK
<1>2. \A a \in Approvers \ {d} : /\ pc'[a] = pc[a] /\ found'[a] = found[a]
                                 /\ result'[a] = result[a] /\ paid'[a] = paid[a]
  BY DEF DeciderStep, ReadMessage, SaveRejected, SaveApproved, QueueJob, StampSentAt, SendNothing,
         SendBatches, Charge, Finalize, MarkFailed, CampaignTypeOK
<1>3. ASSUME d \in Approvers => /\ pc'[d] \in {"stamp", "send"} => found'[d] > 0
                                /\ pc'[d] \in {"charge", "final"} => result'[d].ok + result'[d].failed > 0
                                /\ pc'[d] = "final" /\ result'[d].ok > 0 => paid'[d] = result'[d].ok
      PROVE  JobInv'
  BY <1>2, <1>3 DEF JobInv
<1>4. CASE ReadMessage(d) \/ (d \in Rejecters /\ SaveRejected(d))
  BY <1>3, <1>4 DEF ReadMessage, SaveRejected, CampaignTypeOK
<1>5. CASE d \in Approvers /\ (SaveApproved(d) \/ Finalize(d) \/ MarkFailed(d))
  BY <1>3, <1>5 DEF SaveApproved, Finalize, MarkFailed, CampaignTypeOK
<1>6. CASE d \in Approvers /\ QueueJob(d)
  <2>1. PICK n \in Audience(wish[case[d]]) :
          /\ Goto(d, "recipients", IF n = 0 THEN "done" ELSE "stamp") /\ found' = [found EXCEPT ![d] = n]
    BY <1>6 DEF QueueJob
  <2>2. n \in Nat
    BY DEF Audience, CampaignTypeOK
  <2> QED
    BY <1>3, <2>1, <2>2 DEF CampaignTypeOK
<1>7. CASE d \in Approvers /\ StampSentAt(d)
  BY <1>3, <1>7 DEF StampSentAt, JobInv, CampaignTypeOK
<1>8. CASE d \in Approvers /\ SendNothing(d)
  <2>1. pc'[d] = "charge" /\ result'[d].ok = 0 /\ result'[d].failed = found[d] /\ found[d] > 0
    BY <1>8 DEF SendNothing, JobInv, CampaignTypeOK
  <2> QED
    BY <1>1, <1>3, <1>8, <2>1
<1>9. CASE d \in Approvers /\ SendBatches(d)
  <2>1. \E valid \in 1..found[d] : \E ok \in 0..valid : \E failed \in 0..(valid - ok) :
          ok + failed > 0 /\ pc'[d] = "charge" /\ result'[d] = [ok |-> ok, failed |-> failed]
    BY <1>9 DEF SendBatches, CampaignTypeOK
  <2>2. pc'[d] = "charge" /\ result'[d].ok + result'[d].failed > 0
    BY <2>1
  <2> QED
    BY <1>3, <2>2
<1>10. CASE d \in Approvers /\ Charge(d)
  BY <1>1, <1>3, <1>10 DEF Charge, JobInv, CampaignTypeOK
<1> QED
  BY <1>4, <1>5, <1>6, <1>7, <1>8, <1>9, <1>10 DEF DeciderStep

\* The witness of a message that was sent has ended, and stays as it is.
LEMMA DeciderPaidInv ==
  ASSUME RowInv, JobInv, PaidInv, NEW d \in Deciders, DeciderStep(d)
  PROVE  PaidInv'
<1> USE CampaignAssumption DEF RowInv, Goto, sending, composing, Actors, Deciders
<1> DEFINE t == case[d]
<1>1. /\ t \in Composers /\ case' = case
      /\ \A a \in Approvers \ {d} : pc'[a] = pc[a] /\ result'[a] = result[a] /\ paid'[a] = paid[a]
      /\ pc[d] # "done"
      /\ \A c \in Composers \ {t} : status'[c] = status[c]
  BY DEF DeciderStep, ReadMessage, SaveRejected, SaveApproved, QueueJob, StampSentAt, SendNothing,
         SendBatches, Charge, Finalize, MarkFailed, CampaignTypeOK, SetStatus
<1>2. ASSUME NEW c \in Composers, NEW a \in Approvers, PaidBy(c, a), status'[c] = status[c]
      PROVE  PaidBy(c, a)'
  BY <1>1, <1>2 DEF PaidBy
<1>3. ASSUME status'[t] \in {"SENT", "PARTIALLY_SENT"} =>
               status'[t] = status[t] \/ \E a \in Approvers : PaidBy(t, a)'
      PROVE  PaidInv'
  <2> SUFFICES ASSUME NEW c \in Composers, status'[c] \in {"SENT", "PARTIALLY_SENT"}
               PROVE  \E a \in Approvers : PaidBy(c, a)'
    BY DEF PaidInv
  <2>1. CASE status'[c] = status[c]
    BY <1>2, <2>1 DEF PaidInv
  <2>2. CASE status'[c] # status[c]
    BY <1>1, <1>3, <2>2 DEF PaidBy
  <2> QED
    BY <2>1, <2>2
<1>4. CASE d \in Approvers /\ Finalize(d)
  <2>1. CASE status' = status
    BY <1>3, <2>1
  <2>2. CASE Goto(d, "final", "done") /\ SetStatus(t, FinalStatus(d))
    <3>1. pc'[d] = "done" /\ status'[t] = FinalStatus(d) /\ UNCHANGED sending
      BY <1>1, <1>4, <2>2 DEF Finalize, SetStatus, CampaignTypeOK
    <3>2. /\ result[d].ok \in Nat /\ result[d].failed \in Nat
          /\ result[d].ok + result[d].failed > 0 /\ (result[d].ok > 0 => paid[d] = result[d].ok)
      BY <1>4, <2>2 DEF CampaignTypeOK, JobInv
    <3>3. status'[t] \in {"SENT", "PARTIALLY_SENT"} =>
            result[d].ok > 0 /\ (status'[t] = "SENT" <=> result[d].failed = 0)
      BY <3>1, <3>2 DEF FinalStatus
    <3>4. status'[t] \in {"SENT", "PARTIALLY_SENT"} => PaidBy(t, d)'
      BY <1>1, <3>1, <3>2, <3>3 DEF PaidBy
    <3> QED
      BY <1>3, <1>4, <3>4
  <2> QED
    BY <1>4, <2>1, <2>2 DEF Finalize
<1>5. CASE ~(d \in Approvers /\ Finalize(d))
  <2>1. status' = status \/ status'[t] \in {"APPROVED", "REJECTED", "FAILED"}
    BY <1>1, <1>5 DEF DeciderStep, ReadMessage, SaveRejected, SaveApproved, QueueJob, StampSentAt,
       SendNothing, SendBatches, Charge, MarkFailed, CampaignTypeOK, SetStatus
  <2> QED
    BY <1>3, <2>1
<1> QED
  BY <1>4, <1>5

LEMMA DeciderDecideInv ==
  ASSUME RowInv, DecideInv, UNCHANGED world, NEW d \in Deciders, DeciderStep(d)
  PROVE  DecideInv'
<1> SUFFICES ASSUME world.serial PROVE DecideInv'
  BY DEF DecideInv
<1> USE CampaignAssumption DEF RowInv, Goto, sending, composing, Actors, Deciders
<1> DEFINE t == case[d]
           Others == \A e \in Deciders \ {d} : case[e] = t => pc[e] # "save"
<1>1. /\ t \in Composers /\ case' = case
      /\ \A a \in Actors \ {d} : pc'[a] = pc[a] /\ \A b \in Approvers \ {d} : out'[b] = out[b]
      /\ \A c \in Composers \ {t} : status'[c] = status[c]
      /\ \A c \in Composers : c # d
  BY DEF DeciderStep, ReadMessage, SaveRejected, SaveApproved, QueueJob, StampSentAt, SendNothing,
         SendBatches, Charge, Finalize, MarkFailed, CampaignTypeOK, SetStatus
<1>2. \A a \in Approvers \ {d} : Approved(a)' <=> Approved(a)
  BY <1>1 DEF Approved
\* A read that finds the message waiting, with nobody else about to decide it,
<1>3. CASE ReadMessage(d)
  <2>1. /\ status' = status /\ Others /\ pc'[d] \in {"save", "done"} /\ out' = out
        /\ pc'[d] = "save" => status[t] = "PENDING_VERIFICATION"
        /\ pc[d] = "idle"
    BY <1>3 DEF ReadMessage, Alone, Decidable, CampaignTypeOK
  <2>2. \A a \in Approvers : Approved(a)' => Approved(a)
    BY <1>2, <2>1 DEF Approved
  <2> QED
    BY <1>1, <2>1, <2>2 DEF DecideInv
\* a decision on it,
<1>4. CASE (d \in Rejecters /\ SaveRejected(d)) \/ (d \in Approvers /\ SaveApproved(d))
  <2>1. /\ pc[d] = "save" /\ pc'[d] \in {"recipients", "done"} /\ status[t] = "PENDING_VERIFICATION"
        /\ d \in Approvers => status'[t] = "APPROVED"
        /\ d \in Rejecters => status'[t] = "REJECTED"
        /\ out' = out
    BY <1>1, <1>4 DEF SaveRejected, SaveApproved, SetStatus, CampaignTypeOK, DecideInv
  <2>2. Others /\ \A a \in Approvers : case[a] = t => ~Approved(a)
    BY <2>1 DEF DecideInv
  <2>3. \A a \in Approvers : Approved(a)' => a = d \/ (Approved(a) /\ case[a] # t)
    BY <1>2, <2>2
  <2>4. pc[t] = "done" /\ pc'[t] = "done"
    BY <1>1, <2>1 DEF DecideInv
  <2>5. status'[t] \notin {"none", "PENDING_VERIFICATION"} /\ (d \in Approvers => status'[t] # "REJECTED")
    BY <2>1
  <2>6. \A e \in Deciders : pc'[e] = "save" => e # d /\ pc[e] = "save" /\ case[e] # t
    BY <1>1, <2>1, <2>2
  <2>7. \A c \in Composers : status'[c] # "none" => pc'[c] = "done"
    BY <1>1, <2>4 DEF DecideInv
  <2>8. \A e \in Deciders : case[e] \in Composers
    BY DEF CampaignTypeOK
  <2>9. \A a \in Approvers : Approved(a)' => status'[case[a]] \notin {"none", "PENDING_VERIFICATION", "REJECTED"}
    BY <1>1, <2>3, <2>5, <2>8 DEF DecideInv
  <2> QED
    BY <1>1, <2>3, <2>6, <2>7, <2>8, <2>9 DEF DecideInv
\* and the job of an approved one.
<1>5. CASE d \in Approvers /\ ~SaveApproved(d) /\ ~ReadMessage(d)
  <2>1. /\ Approved(d) /\ pc'[d] # "save"
        /\ status'[t] = status[t] \/ status'[t] \in {"FAILED", "SENT", "PARTIALLY_SENT"}
    BY <1>1, <1>5 DEF DeciderStep, QueueJob, StampSentAt, SendNothing, SendBatches, Charge, Finalize,
       FinalStatus, MarkFailed, CampaignTypeOK, SetStatus, Approved
  <2>2. /\ status[t] \notin {"none", "PENDING_VERIFICATION", "REJECTED"}
        /\ status'[t] \notin {"none", "PENDING_VERIFICATION", "REJECTED"}
    BY <1>5, <2>1 DEF DecideInv
  <2>3. \A e \in Deciders : case[e] = t => pc[e] # "save"
    BY <2>2 DEF DecideInv
  <2>4. \A a \in Approvers : Approved(a)' => Approved(a)
    BY <1>2, <2>1
  <2>5. pc[t] = "done" /\ pc'[t] = "done"
    BY <1>1, <2>2 DEF DecideInv
  <2>6. \A e \in Deciders : pc'[e] = "save" => pc[e] = "save" /\ case[e] # t
    BY <1>1, <2>1, <2>3
  <2>7. \A c \in Composers : status'[c] # "none" => pc'[c] = "done"
    BY <1>1, <2>5 DEF DecideInv
  <2>8. \A e \in Deciders : case[e] \in Composers
    BY DEF CampaignTypeOK
  <2>9. \A a \in Approvers : Approved(a)' => status'[case[a]] \notin {"none", "PENDING_VERIFICATION", "REJECTED"}
    BY <1>1, <2>2, <2>4, <2>8 DEF DecideInv
  <2> QED
    BY <1>1, <2>4, <2>6, <2>7, <2>8, <2>9 DEF DecideInv
<1> QED
  BY <1>3, <1>4, <1>5 DEF DeciderStep

LEMMA CampaignNextInv == RowInv /\ CampaignInv /\ [SmsNext]_smsVars => CampaignInv'
<1> SUFFICES ASSUME RowInv, CampaignInv, [SmsNext]_smsVars PROVE CampaignInv'
  OBVIOUS
<1>0. UNCHANGED world
  BY WorldStays
<1>1. CASE \E c \in Composers : ComposerStep(c)
  BY <1>0, <1>1, ComposerCampaignInv
<1>2. CASE \E d \in Deciders : DeciderStep(d)
  BY <1>0, <1>2, DeciderJobInv, DeciderPaidInv, DeciderDecideInv DEF CampaignInv
<1>3. CASE UNCHANGED campaignVars
  BY <1>0, <1>3, CampaignStutter DEF campaignVars
<1>4. CASE Crash
  BY <1>0, <1>4, CampaignStutter DEF Crash, EndCampaigns
<1> QED
  BY <1>1, <1>2, <1>3, <1>4 DEF SmsNext, smsVars, CampaignNext

\* Decided by one administrator at a time, a message goes out for one approval
\* at most and never after a rejection; and however calls overlap, fail or
\* crash, a message that says it was sent was paid for.
THEOREM CampaignsSound == SmsSpec => []SentSoundly
<1> DEFINE Inv == RowInv /\ CampaignInv
<1>1. SmsInit => Inv
  <2> SUFFICES ASSUME SmsInit PROVE Inv
    OBVIOUS
  <2>1. CampaignInv
    BY CampaignAssumption DEF SmsInit, CampaignInit, CampaignInv, JobInv, PaidInv, DecideInv, Approved,
       Coming, Actors, Deciders
  <2> QED
    BY <2>1, RowInitInv
<1>2. Inv /\ [SmsNext]_smsVars => Inv'
  BY RowNextInv, CampaignNextInv
<1>3. Inv => SentSoundly
  <2> SUFFICES ASSUME Inv PROVE SentSoundly
    OBVIOUS
  <2> USE DEF CampaignInv
  <2>1. SentIsPaid
    BY DEF PaidInv, PaidBy, SentIsPaid
  <2>2. \A c \in Composers, a \in Approvers : a \in Jobs(c) => Approved(a) /\ case[a] = c
    BY DEF Jobs, Approved
  <2>3. RejectedUnsent
    BY <2>2 DEF RejectedUnsent, DecideInv, Jobs
  <2>4. ASSUME world.serial, NEW c \in Composers PROVE Cardinality(Jobs(c)) <= 1
    <3>1. CASE Jobs(c) = {}
      BY <3>1, FS_EmptySet
    <3>2. CASE Jobs(c) # {}
      <4>1. PICK a \in Approvers : a \in Jobs(c)
        BY <3>2 DEF Jobs
      <4>2. Jobs(c) = {a}
        BY <2>2, <2>4, <4>1 DEF DecideInv, Jobs
      <4> QED
        BY <4>2, FS_Singleton
    <3> QED
      BY <3>1, <3>2
  <2> QED
    BY <2>1, <2>3, <2>4 DEF SentSoundly, SentOnce
<1> QED
  BY <1>1, <1>2, <1>3, PTL DEF SmsSpec
-----------------------------------------------------------------------------
(* Credits deducted by jobs.                                               *)

\* SumFunction takes one member after the other out of the domain.  What is
\* proved of its sums is proved for a smallest subset that would be an exception.
Pick(T) == CHOOSE x \in T : TRUE

Sums(g, S, f) ==
  g = [T \in SUBSET S |-> IF T = {} THEN 0 ELSE f[Pick(T)] + g[T \ {Pick(T)}]]

TheSums(S, f) == CHOOSE g : Sums(g, S, f)

\* SumFunction is the sum over the whole domain in the function of all sums.
LEMMA Summed ==
  ASSUME NEW f PROVE SumFunction(f) = TheSums(DOMAIN f, f)[DOMAIN f]
BY DEF SumFunction, SumFunctionOnSet, FoldFunctionOnSet, MapThenFoldSet, TheSums, Sums, Pick

LEMMA Picked == ASSUME NEW T, T # {} PROVE Pick(T) \in T
BY DEF Pick

\* Sets of subsets of a finite set have a smallest member.
LEMMA SmallestSubset ==
  ASSUME NEW S, IsFiniteSet(S), NEW B, B \subseteq SUBSET S, B # {}
  PROVE  \E T \in B : \A U \in B : U \subseteq T => U = T
<1>1. IsWellFoundedOn(StrictSubsetOrdering(S), FiniteSubsetsOf(S))
  BY FS_StrictSubsetOrderingWellFounded
<1>2. B \subseteq FiniteSubsetsOf(S)
  BY FS_FiniteSubsetsOfFinite
<1>3. PICK T \in B : \A U \in B : ~(<<U, T>> \in StrictSubsetOrdering(S))
  BY <1>1, <1>2, WFMin
<1> QED
  BY <1>3 DEF StrictSubsetOrdering

LEMMA SumsAt ==
  ASSUME NEW S, NEW f, NEW g, Sums(g, S, f), NEW T \in SUBSET S
  PROVE  /\ g[T] = IF T = {} THEN 0 ELSE f[Pick(T)] + g[T \ {Pick(T)}]
         /\ T # {} => Pick(T) \in T /\ T \ {Pick(T)} \in SUBSET S /\ T \ {Pick(T)} # T
BY Picked DEF Sums

\* Sums over a subset do not depend on the set they are taken in,
LEMMA SumsAgree ==
  ASSUME NEW R, NEW S, IsFiniteSet(R), R \subseteq S, NEW f, NEW g, NEW h,
         Sums(g, R, f), Sums(h, S, f)
  PROVE  g[R] = h[R]
<1> DEFINE B == {T \in SUBSET R : g[T] # h[T]}
<1> SUFFICES ASSUME B # {} PROVE FALSE
  OBVIOUS
<1>1. PICK T \in B : \A U \in B : U \subseteq T => U = T
  <2>1. B \subseteq SUBSET R
    OBVIOUS
  <2> HIDE DEF B
  <2> QED
    BY <2>1, SmallestSubset
<1>2. T \in SUBSET S
  OBVIOUS
<1>3. /\ g[T] = IF T = {} THEN 0 ELSE f[Pick(T)] + g[T \ {Pick(T)}]
      /\ T # {} => Pick(T) \in T /\ T \ {Pick(T)} \in SUBSET R /\ T \ {Pick(T)} # T
  BY SumsAt
<1>4. /\ h[T] = IF T = {} THEN 0 ELSE f[Pick(T)] + h[T \ {Pick(T)}]
      /\ T # {} => Pick(T) \in T /\ T \ {Pick(T)} \in SUBSET S /\ T \ {Pick(T)} # T
  BY SumsAt, <1>2
<1>5. T # {} => g[T \ {Pick(T)}] = h[T \ {Pick(T)}]
  BY <1>1, <1>3
<1> QED
  BY <1>3, <1>4, <1>5

\* so that there are such sums,
LEMMA SumsExist ==
  ASSUME NEW S, IsFiniteSet(S), NEW f PROVE Sums(TheSums(S, f), S, f)
<1> DEFINE B == {T \in SUBSET S : ~Sums(TheSums(T, f), T, f)}
<1> SUFFICES ASSUME B # {} PROVE FALSE
  OBVIOUS
<1>1. PICK T \in B : \A U \in B : U \subseteq T => U = T
  <2>1. B \subseteq SUBSET S
    OBVIOUS
  <2> HIDE DEF B
  <2> QED
    BY <2>1, SmallestSubset
<1> DEFINE v(U) == TheSums(U, f)[U]
           g == [U \in SUBSET T |-> IF U = {} THEN 0 ELSE f[Pick(U)] + v(U \ {Pick(U)})]
<1>2. ASSUME NEW U \in SUBSET T, U # T PROVE Sums(TheSums(U, f), U, f) /\ g[U] = v(U)
  <2>1. Sums(TheSums(U, f), U, f)
    BY <1>1, <1>2
  <2>2. v(U) = IF U = {} THEN 0 ELSE f[Pick(U)] + TheSums(U, f)[U \ {Pick(U)}]
    BY <2>1, SumsAt
  <2>3. ASSUME U # {} PROVE TheSums(U, f)[U \ {Pick(U)}] = v(U \ {Pick(U)})
    <3>1. U \ {Pick(U)} \in SUBSET T /\ U \ {Pick(U)} # T
      BY <1>2, <2>3, Picked
    <3>2. Sums(TheSums(U \ {Pick(U)}, f), U \ {Pick(U)}, f)
      BY <3>1, <1>1
    <3>3. IsFiniteSet(U \ {Pick(U)})
      BY FS_Subset
    <3> QED
      BY <2>1, <3>2, <3>3, SumsAgree
  <2> QED
    BY <2>1, <2>2, <2>3
<1>3. Sums(g, T, f)
  <2> SUFFICES ASSUME NEW U \in SUBSET T, U # {}
               PROVE  g[U \ {Pick(U)}] = v(U \ {Pick(U)})
    BY DEF Sums
  <2>1. U \ {Pick(U)} \in SUBSET T /\ U \ {Pick(U)} # T
    BY Picked
  <2> QED
    BY <2>1, <1>2
<1> QED
  <2>1. \E h : Sums(h, T, f)
    BY <1>3
  <2>2. Sums(TheSums(T, f), T, f)
    BY <2>1 DEF TheSums
  <2> QED
    BY <1>1, <2>2

\* which are zero where all is,
LEMMA SumOfNone ==
  ASSUME NEW S, IsFiniteSet(S), NEW f, DOMAIN f = S, \A x \in S : f[x] = 0
  PROVE  SumFunction(f) = 0
<1> DEFINE g == TheSums(S, f)
           B == {T \in SUBSET S : g[T] # 0}
<1>1. Sums(g, S, f)
  BY SumsExist
<1> SUFFICES ASSUME B # {} PROVE FALSE
  BY Summed
<1>2. PICK T \in B : \A U \in B : U \subseteq T => U = T
  <2>1. B \subseteq SUBSET S
    OBVIOUS
  <2> HIDE DEF B
  <2> QED
    BY <2>1, SmallestSubset
<1>3. /\ g[T] = IF T = {} THEN 0 ELSE f[Pick(T)] + g[T \ {Pick(T)}]
      /\ T # {} => Pick(T) \in T /\ T \ {Pick(T)} \in SUBSET S /\ T \ {Pick(T)} # T
  BY <1>1, SumsAt
<1> HIDE DEF g
<1> QED
  BY <1>2, <1>3

\* e is f with n more at a,
OneMore(e, f, S, a, n) ==
  /\ IsFiniteSet(S) /\ a \in S /\ n \in Nat
  /\ f \in [S -> Nat] /\ e \in [S -> Nat]
  /\ e[a] = f[a] + n /\ \A s \in S \ {a} : e[s] = f[s]

\* and the sum grows by what one of the terms grows by.
LEMMA SumOfOneMore ==
  ASSUME NEW e, NEW f, NEW S, NEW a, NEW n, OneMore(e, f, S, a, n)
  PROVE  /\ SumFunction(f) \in Nat
         /\ SumFunction(e) = SumFunction(f) + n
<1> DEFINE g == TheSums(S, f)
           h == TheSums(S, e)
           B == {T \in SUBSET S : ~ /\ g[T] \in Nat
                                    /\ h[T] = g[T] + IF a \in T THEN n ELSE 0}
<1>0. /\ IsFiniteSet(S) /\ a \in S /\ n \in Nat /\ f \in [S -> Nat] /\ e \in [S -> Nat]
      /\ e[a] = f[a] + n /\ \A s \in S \ {a} : e[s] = f[s]
  BY DEF OneMore
<1>1. Sums(g, S, f) /\ Sums(h, S, e)
  BY <1>0, SumsExist
<1>2. DOMAIN e = S /\ DOMAIN f = S
  BY <1>0
<1>3. SumFunction(f) = g[S] /\ SumFunction(e) = h[S]
  BY <1>2, Summed
<1> SUFFICES ASSUME B # {} PROVE FALSE
  BY <1>0, <1>3
<1>4. PICK T \in B : \A U \in B : U \subseteq T => U = T
  <2>1. B \subseteq SUBSET S
    OBVIOUS
  <2> HIDE DEF B
  <2> QED
    BY <1>0, <2>1, SmallestSubset
<1> DEFINE p == Pick(T)
<1>5. /\ g[T] = IF T = {} THEN 0 ELSE f[p] + g[T \ {p}]
      /\ T # {} => p \in T /\ T \ {p} \in SUBSET S /\ T \ {p} # T
  BY <1>1, SumsAt
<1>6. /\ h[T] = IF T = {} THEN 0 ELSE e[p] + h[T \ {p}]
      /\ T # {} => p \in T /\ T \ {p} \in SUBSET S /\ T \ {p} # T
  <2>1. Sums(h, S, e) /\ T \in SUBSET S
    BY <1>1
  <2> HIDE DEF h, B
  <2> QED
    BY <2>1, SumsAt
<1>7. T # {} => /\ f[p] \in Nat /\ e[p] = f[p] + IF p = a THEN n ELSE 0
  BY <1>0, <1>5
<1> HIDE DEF g, h, p
<1>8. T # {} => /\ g[T \ {p}] \in Nat
                /\ h[T \ {p}] = g[T \ {p}] + IF a \in T \ {p} THEN n ELSE 0
  BY <1>4, <1>5
<1>9. CASE T = {}
  BY <1>4, <1>5, <1>6, <1>9
<1>10. CASE T # {}
  <2> DEFINE G == g[T \ {p}]
             H == h[T \ {p}]
  <2>1. g[T] = f[p] + G /\ h[T] = e[p] + H
    BY <1>5, <1>6, <1>10
  <2>2. G \in Nat /\ H = G + IF a \in T \ {p} THEN n ELSE 0
    BY <1>8, <1>10
  <2>3. p \in T /\ f[p] \in Nat /\ e[p] = f[p] + IF p = a THEN n ELSE 0
    BY <1>5, <1>7, <1>10
  <2> HIDE DEF G, H
  <2>4. g[T] \in Nat /\ h[T] = g[T] + IF a \in T THEN n ELSE 0
    BY <1>0, <2>1, <2>2, <2>3
  <2> QED
    BY <2>4, <1>4
<1> QED
  BY <1>9, <1>10

\* A job deducts once, towards its end.
Unpaid ==
  \A a \in Approvers :
    pc[a] \in {"idle", "save", "recipients", "stamp", "send", "charge"} => paid[a] = 0

\* Where only campaigns come, a limited row is the one the institute started
\* with, less what was deducted.
SpentInv ==
  world.calls \subseteq Composers \cup Deciders =>
    /\ \A m \in MaskMakers : mpc[m] = "done"
    /\ \A v \in Verifiers : vpc[v] = "done"
    /\ creds # NoRow /\ ~creds.unlimited =>
         /\ creds.used = funds.used + TotalPaid
         /\ creds.credits = IF funds.credits > TotalPaid THEN funds.credits - TotalPaid ELSE 0

\* What one deduction adds.
LEMMA ChargedOnce ==
  ASSUME CampaignTypeOK, NEW a \in Approvers, NEW n \in Nat, paid[a] = 0,
         paid' = [paid EXCEPT ![a] = n]
  PROVE  TotalPaid \in Nat /\ TotalPaid' = TotalPaid + n
<1>1. OneMore(paid', paid, Approvers, a, n)
  BY CampaignAssumption DEF CampaignTypeOK, OneMore
<1>2. SumFunction(paid) \in Nat /\ SumFunction(paid') = SumFunction(paid) + n
  BY <1>1, SumOfOneMore
<1> QED
  BY <1>2 DEF TotalPaid

LEMMA UnpaidNext == RowInv /\ Unpaid /\ [SmsNext]_smsVars => Unpaid'
<1> SUFFICES ASSUME RowInv, Unpaid, [SmsNext]_smsVars PROVE Unpaid'
  OBVIOUS
<1> USE CampaignAssumption DEF RowInv, Unpaid, Goto, sending, Actors, Deciders
<1>1. CASE UNCHANGED campaignVars
  BY <1>1 DEF campaignVars
<1>2. CASE Crash
  BY <1>2 DEF Crash, EndCampaigns
<1>3. CASE \E c \in Composers : ComposerStep(c)
  BY <1>3 DEF ComposerStep, LoadCached, FetchCredentials, CreateUnlimited, StoreCredentials, Compose,
     CampaignTypeOK
<1>4. ASSUME NEW d \in Deciders, DeciderStep(d) PROVE Unpaid'
  <2>1. CASE d \in Approvers /\ Charge(d)
    BY <2>1 DEF Charge, CampaignTypeOK
  <2>2. CASE UNCHANGED paid
    <3>1. pc' = pc \/ \E to \in {"save", "done", "recipients", "stamp", "send", "charge", "final", "failed"} :
             /\ pc' = [pc EXCEPT ![d] = to]
             /\ to \in {"save", "recipients", "stamp", "send", "charge"} =>
                  pc[d] \in {"idle", "save", "recipients", "stamp", "send"}
      BY <1>4, <2>2 DEF DeciderStep, ReadMessage, SaveRejected, SaveApproved, QueueJob, StampSentAt,
         SendNothing, SendBatches, Charge, Finalize, MarkFailed
    <3> QED
      BY <2>2, <3>1 DEF CampaignTypeOK
  <2> QED
    BY <1>4, <2>1, <2>2 DEF DeciderStep, ReadMessage, SaveRejected, SaveApproved, QueueJob, StampSentAt,
       SendNothing, SendBatches, Finalize, MarkFailed
<1> QED
  BY <1>1, <1>2, <1>3, <1>4 DEF SmsNext, smsVars, CampaignNext

LEMMA SpentNext == RowInv /\ Unpaid /\ SpentInv /\ [SmsNext]_smsVars => SpentInv'
<1> SUFFICES ASSUME RowInv, Unpaid, SpentInv, [SmsNext]_smsVars,
                    world.calls \subseteq Composers \cup Deciders
             PROVE  SpentInv'
  BY WorldStays DEF SpentInv
<1> USE DEF RowInv
<1>0. /\ UNCHANGED world
      /\ \A m \in MaskMakers : mpc[m] = "done"
      /\ \A v \in Verifiers : vpc[v] = "done"
  BY WorldStays DEF SpentInv
<1>1. ASSUME UNCHANGED <<creds, paid, funds>>, \A m \in MaskMakers : mpc'[m] = "done",
             \A v \in Verifiers : vpc'[v] = "done"
      PROVE  SpentInv'
  BY <1>0, <1>1 DEF SpentInv, TotalPaid
<1>2. CASE UNCHANGED <<creds, mpc, vpc, campaignVars>>
  BY <1>0, <1>1, <1>2 DEF campaignVars, sending
<1>3. CASE CredNext /\ UNCHANGED <<paymentVars, campaignVars>>
  <2>1. CacheExpires
    BY <1>0, <1>3 DEF CredNext, FindCredentials, CreateCredentials, DiffCredentials, SaveCredentials,
       MakerAt
  <2> QED
    BY <1>2, <1>3, <2>1 DEF CacheExpires, makerVars, paymentVars
<1>4. CASE PaymentNext /\ UNCHANGED campaignVars
  <2>1. \E s \in Submissions : SubmitPayment(s)
    BY <1>0, <1>4 DEF PaymentNext, VerifierStep, FindSubmission, BeginTransaction, ReadCredentials,
       CommitApproval, CommitRejection, RollBack, LookUpAndRelease, At
  <2> QED
    BY <1>2, <1>4, <2>1 DEF SubmitPayment, credVars, makerVars
<1>5. CASE Crash
  BY <1>0, <1>1, <1>5 DEF Crash, EndCampaigns, sending
<1>6. ASSUME NEW c \in Composers, ComposerStep(c), UNCHANGED paymentVars PROVE SpentInv'
  <2>1. UNCHANGED <<mpc, vpc, paid, funds>>
    BY <1>6 DEF ComposerStep, LoadCached, FetchCredentials, CreateUnlimited, StoreCredentials, Compose,
       credVars, makerVars, paymentVars, sending
  <2>2. CASE UNCHANGED creds
    BY <1>0, <1>1, <2>1, <2>2
  <2>3. CASE creds' = AdminRow
    BY <1>0, <2>1, <2>3, CampaignAssumption DEF SpentInv
  <2> QED
    BY <1>6, <2>2, <2>3 DEF ComposerStep, LoadCached, FetchCredentials, CreateUnlimited,
       StoreCredentials, Compose, credVars
<1>7. ASSUME NEW d \in Deciders, DeciderStep(d), UNCHANGED paymentVars PROVE SpentInv'
  <2>1. UNCHANGED <<mpc, vpc, funds>>
    BY <1>7 DEF DeciderStep, ReadMessage, SaveRejected, SaveApproved, QueueJob, StampSentAt,
       SendNothing, SendBatches, Charge, Finalize, MarkFailed, credVars, makerVars, paymentVars
  <2>2. CASE UNCHANGED <<creds, paid>>
    BY <1>0, <1>1, <2>1, <2>2
  <2>3. ASSUME d \in Approvers, result[d].ok > 0, pc[d] = "charge",
               creds' = Deducted(creds, result[d].ok), paid' = [paid EXCEPT ![d] = result[d].ok]
        PROVE  SpentInv'
    <3> DEFINE n == result[d].ok
    <3>1. creds \in CredRows /\ n \in Nat /\ funds \in CredRows
      BY <2>3 DEF CredTypeOK, CampaignTypeOK, RowsAtHand
    <3>2. TotalPaid \in Nat /\ TotalPaid' = TotalPaid + n
      BY <2>3, <3>1, ChargedOnce DEF Unpaid
    <3>3. /\ creds'.unlimited = creds.unlimited /\ creds'.used = creds.used + n
          /\ creds'.credits = IF creds.credits > n THEN creds.credits - n ELSE 0
      BY <2>3, <3>1, DeductedRow
    <3>4. funds.used \in Nat /\ funds.credits \in Nat
      BY <3>1 DEF CredRows
    <3>5. ASSUME ~creds'.unlimited
          PROVE  /\ creds.used = funds.used + TotalPaid
                 /\ creds.credits = IF funds.credits > TotalPaid THEN funds.credits - TotalPaid ELSE 0
      BY <3>1, <3>3, <3>5, RowsAssumption DEF SpentInv
    <3> HIDE DEF n
    <3>6. ASSUME ~creds'.unlimited
          PROVE  /\ creds'.used = funds.used + (TotalPaid + n)
                 /\ creds'.credits = IF funds.credits > TotalPaid + n
                                       THEN funds.credits - (TotalPaid + n) ELSE 0
      BY <3>1, <3>2, <3>3, <3>4, <3>5, <3>6
    <3> QED
      BY <1>0, <2>1, <3>2, <3>6 DEF SpentInv
  <2> QED
    BY <1>7, <2>2, <2>3 DEF DeciderStep, ReadMessage, SaveRejected, SaveApproved, QueueJob, StampSentAt,
       SendNothing, SendBatches, Charge, Finalize, MarkFailed, Goto, sending, credVars
<1> QED
  BY <1>2, <1>3, <1>4, <1>5, <1>6, <1>7 DEF SmsNext, smsVars, CampaignNext, credVars, makerVars, paymentVars

\* Jobs of any number of approvals, overlapping, failing or ended by a crash,
\* lose no deduction: unless a payment or the list of masks is saved too, the
\* row has used what they deducted and kept the rest, or nothing.
THEOREM ChargesSound == SmsSpec => []ChargesAddUp
<1> DEFINE Inv == RowInv /\ Unpaid /\ SpentInv
<1>1. SmsInit => Inv
  <2> SUFFICES ASSUME SmsInit PROVE Inv
    OBVIOUS
  <2>1. Unpaid
    BY DEF SmsInit, CampaignInit, Unpaid
  <2>2. TotalPaid = 0
    BY SumOfNone, CampaignAssumption DEF SmsInit, CampaignInit, TotalPaid
  <2>3. creds # NoRow => creds = funds /\ funds.used \in Nat /\ funds.credits \in Nat
    BY RowInitInv DEF SmsInit, CampaignInit, RowInv, CampaignTypeOK, CredRows
  <2>4. SpentInv
    BY <2>2, <2>3, CallsAssumption
    DEF SmsInit, CredInit, PaymentInit, SpentInv, Coming, Actors
  <2> QED
    BY <2>1, <2>4, RowInitInv
<1>2. Inv /\ [SmsNext]_smsVars => Inv'
  BY RowNextInv, UnpaidNext, SpentNext
<1>3. Inv => ChargesAddUp
  BY DEF SpentInv, ChargesAddUp
<1> QED
  BY <1>1, <1>2, <1>3, PTL DEF SmsSpec
=============================================================================
