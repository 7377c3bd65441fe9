----------------------------- MODULE EntitySave -----------------------------
(***************************************************************************)
(* What repository.save(entity) of TypeORM does with a row that exists: it *)
(* reads the row again, computes which columns of the entity differ from   *)
(* it, and updates those columns and no others.  Rows and entities are     *)
(* records with the same fields.                                           *)
(***************************************************************************)

\* The columns an update has to write.
Dirty(entity, stored) == {f \in DOMAIN entity : entity[f] # stored[f]}

\* The row after the update of these columns.
Merge(stored, entity, columns) ==
  [f \in DOMAIN stored |-> IF f \in columns THEN entity[f] ELSE stored[f]]
=============================================================================
