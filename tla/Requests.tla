------------------------------ MODULE Requests ------------------------------
(***************************************************************************)
(* Requests to the API.  A request is a record: op names the handler that  *)
(* serves it, the other fields are its arguments.  world.calls is the set  *)
(* of requests that come, world.at what the tables hold before them.  A    *)
(* handler is a series of steps, each up to its next await on the          *)
(* database, another service or a lock; pc[r] is the step r is to take and *)
(* held[r] what its local variables remember.                              *)
(***************************************************************************)
EXTENDS EntitySave, Calls

CONSTANT NoRow    \* no row, no file, nothing remembered

VARIABLES pc, held

\* The row with these columns changed or added (the @@ of TLC).
columns ++ row == [c \in DOMAIN columns \cup DOMAIN row |->
                     IF c \in DOMAIN columns THEN columns[c] ELSE row[c]]

\* Columns that are some of these rows', with values of theirs.
Fits(columns, rows) == \A row \in rows : columns ++ row \in rows

requestVars == <<pc, held>>

RequestInit == /\ pc = [r \in world.calls |-> "start"]
               /\ held = [r \in world.calls |-> NoRow]

Quiet == \A q \in world.calls : pc[q] \in {"start", "done"}

\* Served one after the other, a request begins when no other is under way.
At(r, op, step) ==
  /\ r.op = op /\ pc[r] = step
  /\ step = "start" /\ world.serial => Quiet

GoOn(r, step, value) == /\ pc' = [pc EXCEPT ![r] = step]
                        /\ held' = [held EXCEPT ![r] = value]

End(r) == GoOn(r, "done", NoRow)

RequestsOver == \A r \in world.calls : pc[r] = "done"

-----------------------------------------------------------------------------
(* repository.save(entity) in two statements: the row is read and compared *)
(* with the entity, then the columns that differ are updated, or the       *)
(* entity is inserted.  An entity may have fewer columns than the row.     *)

Comparison(entity, row) ==
  IF row = NoRow THEN [found |-> FALSE, set |-> entity]
  ELSE [found |-> TRUE, set |-> [c \in Dirty(entity, row) |-> entity[c]]]

\* The key is taken since the row was looked for: the insert fails.
KeyTaken(r, row) == ~held[r].found /\ row # NoRow

\* The row after the second statement; an update meets no row that is gone.
Saved(r, row, default) ==
  CASE held[r].found /\ row # NoRow -> held[r].set ++ row
    [] ~held[r].found /\ row = NoRow -> held[r].set ++ default
    [] OTHER -> row
=============================================================================
