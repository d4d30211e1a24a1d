------------------------------ MODULE Throttle -------------------------------
(***************************************************************************)
(* What the interval test `if (time - last_x_time_ > interval) {           *)
(* last_x_time_ = time; ... }` in a plugin's OnUpdate promises, counted in *)
(* world updates rather than in seconds.  `since` is the number of world  *)
(* updates since the stamp was last taken (Interval + 1 stands for "more   *)
(* than Interval"), `late` whether simulation time has been set back by a  *)
(* world reset since then; `stamp` flips at every stamp, so that a stamp   *)
(* taken while `since` is 0 is still a step.                               *)
(*                                                                         *)
(*  - the guarded code runs at the earliest in the Interval-th update     *)
(*    after the last stamp (a difference of exactly one interval may      *)
(*    round either way);                                                   *)
(*  - it runs at the latest in the (Interval + 1)-th update, unless time   *)
(*    went back since the stamp;                                           *)
(*  - it runs again and again.                                             *)
(***************************************************************************)
EXTENDS Naturals

CONSTANT Interval

VARIABLES since, late, stamp

tvars == <<since, late, stamp>>

TInit == since = 0 /\ late = FALSE /\ stamp = FALSE

\* A world update that runs the guarded code and takes the stamp.
Fire ==
  /\ since + 1 >= Interval
  /\ since' = 0 /\ late' = FALSE /\ stamp' = ~stamp

\* A world update that does not.
Skip ==
  /\ since + 1 <= Interval \/ late
  /\ since' = IF since + 1 > Interval THEN Interval + 1 ELSE since + 1
  /\ UNCHANGED <<late, stamp>>

\* A world reset: simulation time goes back to zero.
GoBack ==
  /\ late' \in {late, TRUE}
  /\ UNCHANGED <<since, stamp>>

TNext == Fire \/ Skip \/ GoBack

TSpec == TInit /\ [][TNext]_tvars /\ []<>(since = 0)
=============================================================================
