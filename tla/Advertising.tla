----------------------------- MODULE Advertising -----------------------------
(***************************************************************************)
(* Advertisements (src/modules/advertisement): their rows, the cached list *)
(* of those that may be sent, and the choice of the one that goes with a   *)
(* message.  An advertisement counts the times it was chosen               *)
(* (currentSendings) up to a limit (maxSendings).                          *)
(***************************************************************************)
EXTENDS Integers, Requests

CONSTANT Ads

VARIABLES ads,     \* advertisements
          listed   \* the cached list of advertisements, or none

adVars == <<ads, listed>>

\* What an advertisement may aim at.
Aspects == {"type", "plan", "institute", "age", "gender", "job"}

\* For each aspect: everybody, people like the user ("hit") or others ("miss").
Aims == [Aspects -> {"any", "hit", "miss"}]

NewAd == [active |-> TRUE, max |-> 1, sent |-> 0, aims |-> [a \in Aspects |-> "any"],
          bonus |-> 1, platforms |-> {}, cascade |-> FALSE]

\* The rows there may be.  A request to create or update one names some of the
\* columns, never the counter; only its creation starts that, at 0.
AdRows == [active : BOOLEAN, max : Nat, sent : Nat, aims : Aims, bonus : Nat,
           platforms : SUBSET {"email", "sms", "telegram", "whatsapp"}, cascade : BOOLEAN]

ASSUME AdsAssumption == NoRow \notin Ads \cup AdRows

ASSUME AdWorldsAssumption ==
  \A w \in Worlds :
    /\ w.serial \in BOOLEAN /\ w.faulty \in BOOLEAN /\ w.caching \in BOOLEAN
    /\ w.at.ads \in [Ads -> AdRows \cup {NoRow}]
    /\ \A r \in w.calls : r.op \in {"adCreate", "adUpdate"} =>
         /\ r.ad \in Ads
         /\ DOMAIN r.set \subseteq DOMAIN NewAd \ {"sent"}
         /\ r.set ++ NewAd \in AdRows

AdsInit == ads = world.at.ads /\ listed = NoRow

-----------------------------------------------------------------------------
(* calculateMatchScore.  Only the plan and the institute of a student reach *)
(* it from an attendance mark: the query selects neither user type, gender, *)
(* year of birth nor place of residence, so what aims at a place misses.    *)

Points == [type |-> [hit |-> 30, miss |-> -20], plan |-> [hit |-> 25, miss |-> -15],
           institute |-> [hit |-> 15, miss |-> -10], age |-> [hit |-> 15, miss |-> -10],
           gender |-> [hit |-> 10, miss |-> -5], job |-> [hit |-> 8, miss |-> 0]]

PointsFor(aspect, aim) ==
  IF aim = "any" THEN IF aspect = "institute" THEN 0 ELSE Points[aspect].hit
  ELSE Points[aspect][aim]

\* The bonus is for priority, at most 5, and for the first week, 3.
Score(aims, bonus) ==
  LET points(a) == PointsFor(a, aims[a])
      total == 10 + points("type") + points("plan") + points("institute") + points("age")
                  + points("gender") + points("job") + bonus
  IN  IF total < 0 THEN 0 ELSE total

\* fetchFromDatabase asks for it, isAdvertisementActive asks again.
Sendable(ad) == ad # NoRow /\ ad.active /\ ad.sent < ad.max

\* The advertisements of a list that may be chosen: the best.
Best(list) ==
  LET score(a) == Score(list[a].aims, list[a].bonus)
      good == {a \in DOMAIN list : Sendable(list[a]) /\ score(a) > 0}
  IN  {a \in good : \A b \in good : score(b) <= score(a)}

\* One more sending is counted, by a statement that meets the row or none.
Incremented(ad) == IF ad = NoRow THEN NoRow ELSE [ad EXCEPT !.sent = ad.sent + 1]

FromDatabase == [a \in {b \in Ads : Sendable(ads[b])} |-> ads[a]]

-----------------------------------------------------------------------------
\* invalidateCache deletes the list; a failure is logged.
Forget_Mutant(op) == IF op = "adRemove" THEN {listed} ELSE {NoRow}
Forget(op) == {NoRow} \cup (IF world.faulty THEN {listed} ELSE {})

\* create, update and remove write the row, then delete the list.
WriteAd(r) ==
  /\ \E op \in {"adCreate", "adUpdate", "adRemove"} : At(r, op, "start")
  /\ GoOn(r, "forget", NoRow)
  /\ ads' = [ads EXCEPT ![r.ad] = CASE r.op = "adCreate" -> r.set ++ NewAd
                                    [] r.op = "adUpdate" /\ @ # NoRow -> r.set ++ @
                                    [] OTHER -> NoRow]
  /\ UNCHANGED listed

ForgetList(r) ==
  /\ \E op \in {"adCreate", "adUpdate", "adRemove"} : At(r, op, "forget")
  /\ End(r)
  /\ listed' \in Forget(r.op)
  /\ UNCHANGED ads

\* The list lives for an hour.
ListExpires ==
  /\ listed # NoRow /\ world.caching /\ ~RequestsOver
  /\ listed' = NoRow
  /\ UNCHANGED <<ads, requestVars>>

AdStep(r) == WriteAd(r) \/ ForgetList(r)

-----------------------------------------------------------------------------
(* Properties                                                              *)

\* Advertisements have their types.
AdTypeOK == \A a \in Ads : ads[a] # NoRow => /\ ads[a].sent \in Nat /\ ads[a].max \in Nat
                                             /\ ads[a].aims \in Aims

\* "If ad has specific user type targeting but doesn't match, reduce score
\* significantly": whatever their bonuses, an advertisement for everybody is
\* chosen before one for other types of users, other plans or other ages, even
\* if that one aims at the student's own institute.
EverybodyFirst ==
  \A aims \in Aims :
    (\E a \in {"type", "plan", "age"} : aims[a] = "miss")
      => Score([a \in Aspects |-> "any"], 1) > Score(aims, 8)
=============================================================================
