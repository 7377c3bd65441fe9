--------------------------- MODULE SmsCredentials ---------------------------
(***************************************************************************)
(* The institute_sms_credentials row of one institute, the in-process      *)
(* cache of it, and the createSenderMask calls that extend its mask list   *)
(* (src/modules/sms/services/sms.service.ts).  Campaigns and payments      *)
(* share this state: SmsCampaign and SmsPayment extend this module.        *)
(*                                                                         *)
(* One row per institute: createSenderMask handles a duplicate institute   *)
(* id reported by the database, so a second INSERT is taken to fail.       *)
(***************************************************************************)
EXTENDS Integers, FiniteSets, EntitySave, Calls

CONSTANTS MaskIds,      \* masks an institute may list
          MaskMakers,   \* createSenderMask calls
          OpeningRows,  \* rows the database may start with
          NoRow,        \* no credentials row
          NotCached     \* no cache entry

VARIABLES creds,     \* the row
          cache,     \* credentialsCache, the row as it was when read
          mpc,       \* where each createSenderMask call is
          mask,      \* the mask each of them adds
          entity,    \* the entity it works on
          columns    \* the columns its save found to differ

makerVars == <<mpc, mask, entity, columns>>
credVars  == <<world, creds, cache, makerVars>>

CredRows == [credits : Nat, purchased : Nat, used : Nat,
             unlimited : BOOLEAN, masks : SUBSET MaskIds]

\* The two marks are not rows.
ASSUME RowsAssumption == /\ OpeningRows \subseteq CredRows \cup {NoRow}
                         /\ NoRow \notin CredRows /\ NotCached \notin CredRows

EmptyRow == [credits |-> 0, purchased |-> 0, used |-> 0,
             unlimited |-> FALSE, masks |-> {}]

\* What a payment grants.
Granted(r, n) == [r EXCEPT !.credits = @ + n, !.purchased = @ + n]

\* What deductCreditsAfterDelivery does to the row it finds, in one UPDATE.
Deducted_Mutant(r, n) == [r EXCEPT !.credits = IF @ > n THEN @ - n ELSE 0]
Deducted(r, n) == [r EXCEPT !.credits = IF @ > n THEN @ - n ELSE 0,
                            !.used = @ + n]

InvalidateInstituteCache == cache' = NotCached

CredInit == /\ creds \in OpeningRows
            /\ cache = NotCached
            /\ mpc = [m \in MaskMakers |-> Coming(m)]
            /\ mask \in About(MaskMakers, MaskIds)
            /\ entity = [m \in MaskMakers |-> NoRow]
            /\ columns = [m \in MaskMakers |-> {}]

MakerAt(m, from, to) == mpc[m] = from /\ mpc' = [mpc EXCEPT ![m] = to]

\* push changes the mask list of the entity in memory.
AddTo(r, m) == [r EXCEPT !.masks = @ \cup {mask[m]}]

FindCredentials(m) ==
  /\ \/ /\ creds = NoRow
        /\ MakerAt(m, "idle", "create")
        /\ UNCHANGED entity
     \/ /\ creds # NoRow
        /\ IF mask[m] \in creds.masks
             THEN MakerAt(m, "idle", "done") /\ UNCHANGED entity
             ELSE /\ MakerAt(m, "idle", "diff")
                  /\ entity' = [entity EXCEPT ![m] = AddTo(creds, m)]
  /\ UNCHANGED <<world, creds, cache, mask, columns>>

CreateCredentials(m) ==
  /\ \/ /\ creds = NoRow
        /\ creds' = EmptyRow
        /\ entity' = [entity EXCEPT ![m] = AddTo(EmptyRow, m)]
        /\ MakerAt(m, "create", "diff")
     \/ /\ creds # NoRow                     \* duplicate institute id
        /\ MakerAt(m, "create", "done")
        /\ UNCHANGED <<creds, entity>>
  /\ UNCHANGED <<world, cache, mask, columns>>

DiffCredentials(m) ==
  /\ MakerAt(m, "diff", "write")
  /\ columns' = [columns EXCEPT ![m] = Dirty(entity[m], creds)]
  /\ UNCHANGED <<world, creds, cache, mask, entity>>

SaveCredentials(m) ==
  /\ MakerAt(m, "write", "done")
  /\ creds' = Merge(creds, entity[m], columns[m])
  /\ InvalidateInstituteCache
  /\ UNCHANGED <<world, mask, entity, columns>>

\* An entry is dropped after thirty minutes, by the reader that finds it old
\* or by the cleanup timer.
CacheExpires == /\ cache # NotCached
                /\ InvalidateInstituteCache
                /\ UNCHANGED <<world, creds, makerVars>>

CredNext == \/ \E m \in MaskMakers :
                 \/ FindCredentials(m) \/ CreateCredentials(m)
                 \/ DiffCredentials(m) \/ SaveCredentials(m)
            \/ CacheExpires

MakersFinished == \A m \in MaskMakers : mpc[m] = "done"

\* The masks that finished calls of S came to add.
AddedBy(S) == {mask[m] : m \in {n \in S \cap world.calls : mpc[n] = "done"}}

CredTypeOK == /\ creds \in CredRows \cup {NoRow}
              /\ cache \in CredRows \cup {NotCached}
              /\ mpc \in [MaskMakers -> {"idle", "create", "diff", "write", "done"}]
              /\ mask \in [MaskMakers -> MaskIds]
              /\ entity \in [MaskMakers -> CredRows \cup {NoRow}]
              /\ columns \in [MaskMakers -> SUBSET DOMAIN EmptyRow]
=============================================================================
