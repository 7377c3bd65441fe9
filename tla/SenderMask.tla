----------------------------- MODULE SenderMask -----------------------------
(***************************************************************************)
(* The registry of SMS sender masks and the requests that change it        *)
(* (src/modules/sms/services/sender-mask-validation.service.ts).  An op is *)
(* one call of a service method; each of its database calls is an action.  *)
(***************************************************************************)
EXTENDS EntitySave, Calls

CONSTANTS Masks,       \* mask ids institutes ask for
          Institutes,
          Creators,    \* createMaskRequest calls
          MaskApprovers,\* approveMask calls
          MaskRejecters,\* rejectMask calls
          Suspenders,  \* suspendMask calls
          Defaulters,  \* setDefaultMask calls
          OpeningMasks,\* registries the database may start with
          NoMask       \* no row with the mask id

Ops == Creators \cup MaskApprovers \cup MaskRejecters \cup Suspenders \cup Defaulters

Statuses == {"PENDING", "ACTIVE", "SUSPENDED", "REJECTED"}

MaskRows == [owner : Institutes, status : Statuses, isDefault : BOOLEAN]

\* No institute has two default masks in a registry.
OneDefaultIn(registry) ==
  \A m, n \in Masks :
    /\ registry[m] # NoMask /\ registry[m].isDefault
    /\ registry[n] # NoMask /\ registry[n].isDefault
    /\ registry[m].owner = registry[n].owner
    => m = n

ASSUME OpsAssumption ==
  /\ Creators \cap (MaskApprovers \cup MaskRejecters \cup Suspenders \cup Defaulters) = {}
  /\ MaskApprovers \cap (MaskRejecters \cup Suspenders \cup Defaulters) = {}
  /\ MaskRejecters \cap (Suspenders \cup Defaulters) = {}
  /\ Suspenders \cap Defaulters = {}

ASSUME MasksAssumption ==
  /\ Masks # {} /\ OpeningMasks # {} /\ NoMask \notin MaskRows
  /\ OpeningMasks \subseteq [Masks -> MaskRows \cup {NoMask}]
  /\ \A registry \in OpeningMasks : OneDefaultIn(registry)

VARIABLES masks,   \* the sender_masks row of each mask id
          opc,     \* where each call is
          target,  \* the mask each call is about
          held,    \* the entity each call works on
          dirty    \* the columns its save found to differ

maskVars == <<masks, opc, target, held, dirty>>

Registered(m) == masks[m] # NoMask

MaskInit == /\ masks \in OpeningFor(Ops, OpeningMasks)
            /\ opc = [o \in Ops |-> Coming(o)]
            /\ target = [o \in Ops |-> CHOOSE m \in Masks : TRUE]
            /\ held = [o \in Ops |-> NoMask]
            /\ dirty = [o \in Ops |-> {}]

OpAt(o, from, to) == opc[o] = from /\ opc' = [opc EXCEPT ![o] = to]

OpMayBegin == world.serial => \A o \in Ops : opc[o] \in {"idle", "done"}

Refuse(o, m) == /\ OpAt(o, "idle", "done")
                /\ target' = [target EXCEPT ![o] = m]
                /\ UNCHANGED <<masks, held, dirty>>

\* The call goes on with this entity in memory.
Hold(o, m, entity, next) ==
  /\ OpAt(o, "idle", next)
  /\ target' = [target EXCEPT ![o] = m]
  /\ held' = [held EXCEPT ![o] = entity]
  /\ UNCHANGED <<masks, dirty>>

-----------------------------------------------------------------------------
CheckFree(c, m, i) ==
  \/ Registered(m) /\ Refuse(c, m)
  \/ /\ ~Registered(m)
     /\ Hold(c, m, [owner |-> i, status |-> "PENDING", isDefault |-> FALSE],
             "insert")

\* The unique key on mask_id decides between two requests that both saw it free.
KeyFree_Mutant(m) == TRUE
KeyFree(m) == ~Registered(m)

Insert(c) ==
  /\ OpAt(c, "insert", "done")
  /\ masks' = IF KeyFree(target[c]) THEN [masks EXCEPT ![target[c]] = held[c]]
                                    ELSE masks
  /\ UNCHANGED <<target, held, dirty>>

Approvable(m) == Registered(m) /\ masks[m].status # "ACTIVE"

ReadToApprove(a, m) ==
  \/ ~Approvable(m) /\ Refuse(a, m)
  \/ /\ Approvable(m)
     /\ Hold(a, m, [masks[m] EXCEPT !.status = "ACTIVE"], "diff")

ReadToReject(r, m) ==
  \/ ~Registered(m) /\ Refuse(r, m)
  \/ Registered(m) /\ Hold(r, m, [masks[m] EXCEPT !.status = "REJECTED"], "diff")

ReadToSuspend_Mutant(s, m) ==
  \/ ~Registered(m) /\ Refuse(s, m)
  \/ Registered(m) /\ Hold(s, m, [masks[m] EXCEPT !.status = "DISABLED"], "diff")
ReadToSuspend(s, m) ==
  \/ ~Registered(m) /\ Refuse(s, m)
  \/ Registered(m) /\ Hold(s, m, [masks[m] EXCEPT !.status = "SUSPENDED"], "diff")

\* validateMaskForInstitute
Usable(m, i) == Registered(m) /\ masks[m].owner = i /\ masks[m].status = "ACTIVE"

ValidateDefault(d, m, i) ==
  \/ ~Usable(m, i) /\ Refuse(d, m)
  \/ Usable(m, i) /\ Hold(d, m, [masks[m] EXCEPT !.isDefault = TRUE], "clear")

\* One UPDATE of every default mask of the institute.
Cleared(m, i) == IF Registered(m) /\ masks[m].owner = i
                   THEN [masks[m] EXCEPT !.isDefault = FALSE] ELSE masks[m]

ClearDefaults(d) ==
  /\ OpAt(d, "clear", "diff")
  /\ masks' = [m \in Masks |-> Cleared(m, held[d].owner)]
  /\ UNCHANGED <<target, held, dirty>>

\* repository.save, in its two halves.
Diff(o) ==
  /\ OpAt(o, "diff", "write")
  /\ dirty' = [dirty EXCEPT ![o] = Dirty(held[o], masks[target[o]])]
  /\ UNCHANGED <<masks, target, held>>

Write(o) ==
  /\ OpAt(o, "write", "done")
  /\ masks' = [masks EXCEPT ![target[o]] = Merge(@, held[o], dirty[o])]
  /\ UNCHANGED <<target, held, dirty>>

-----------------------------------------------------------------------------
Begin == /\ OpMayBegin
         /\ \E m \in Masks :
              \/ \E c \in Creators, i \in Institutes : CheckFree(c, m, i)
              \/ \E a \in MaskApprovers : ReadToApprove(a, m)
              \/ \E r \in MaskRejecters : ReadToReject(r, m)
              \/ \E s \in Suspenders : ReadToSuspend(s, m)
              \/ \E d \in Defaulters, i \in Institutes : ValidateDefault(d, m, i)

Continue(o) == Insert(o) \/ ClearDefaults(o) \/ Diff(o) \/ Write(o)

OpsFinished == \A o \in Ops : opc[o] = "done"

MaskNext == Begin \/ \E o \in Ops : Continue(o)

-----------------------------------------------------------------------------
(* Properties                                                              *)

\* Masks, entities and calls have their types.
MaskTypeOK ==
  /\ masks \in [Masks -> MaskRows \cup {NoMask}]
  /\ opc \in [Ops -> {"idle", "insert", "clear", "diff", "write", "done"}]
  /\ target \in [Ops -> Masks]
  /\ held \in [Ops -> MaskRows \cup {NoMask}]
  /\ dirty \in [Ops -> SUBSET {"owner", "status", "isDefault"}]

\* A mask belongs to whoever registered it first: whatever requests overlap,
\* no save of an old entity and no second registration moves it to another
\* institute.
OwnerKept == [][\A m \in Masks : Registered(m) =>
                  masks'[m] # NoMask /\ masks'[m].owner = masks[m].owner]_masks

\* An institute has one default mask (the entity: "Default mask for this
\* institute"): setDefaultMask clears the others before it sets its own, and no
\* later call brings one back, as long as calls do not overlap.
OneDefault == world.serial => OneDefaultIn(masks)

Unsuspended(m) == /\ Registered(m) /\ masks[m].status = "SUSPENDED"
                  /\ masks'[m].status = "ACTIVE"

Approving(m) == \E a \in MaskApprovers : target[a] = m /\ opc[a] = "write" /\ opc'[a] = "done"

\* A suspended mask is usable again only when an administrator approves it.
SuspensionKept ==
  [][\A m \in Masks : world.serial /\ Unsuspended(m) => Approving(m)]_masks
=============================================================================
