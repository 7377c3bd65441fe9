-------------------------------- MODULE Calls --------------------------------
(***************************************************************************)
(* The circumstances of a run: a world says which calls come, whether they *)
(* are served one after the other and whether the database is faulty.  One *)
(* world is the case throughout a behaviour, so that one run examines many *)
(* small ones, and a property can be stated for those it is promised in.   *)
(***************************************************************************)

CONSTANT Worlds

VARIABLE world

\* A call that does not come is over from the start.
Coming(a) == IF a \in world.calls THEN "idle" ELSE "done"

\* What each call of S is about, any member of X; of no interest when the call
\* does not come.
About(S, X) == {f \in [S -> X] : \A s \in S \ world.calls : f[s] = CHOOSE x \in X : TRUE}

\* What the database may start with, where calls of S look at it.
OpeningFor(S, X) == IF S \cap world.calls = {} THEN {CHOOSE x \in X : TRUE} ELSE X
=============================================================================
