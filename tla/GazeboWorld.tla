----------------------------- MODULE GazeboWorld -----------------------------
(***************************************************************************)
(* The part of the Gazebo host the plugins see: simulation time, advanced *)
(* by one physics step per world update and set back to zero by a world   *)
(* reset (World::Reset), after which the host calls each plugin's Reset(). *)
(* Time is kept as Lamport's timers: a plugin's `time - last_x_time_` is   *)
(* the number of steps since it stamped last_x_time_, and the absolute     *)
(* time is not kept.  Once a timer is past its interval the interval test  *)
(* no longer changes, so the timer stops there and the state is finite.    *)
(***************************************************************************)
EXTENDS Integers

CONSTANTS
  MaxResets,  \* how many world resets a behaviour may contain
  MaxBack     \* the longest simulation time a reset takes back, in steps

VARIABLE resets

world == resets

WorldInit == resets = 0

\* A timer one world update later: time advances one step.
Elapse(e, interval) == IF e > interval THEN e ELSE e + 1

\* A world reset sets simulation time from T back to 0, which moves every
\* timer back by T; T is at least each timer, since no stamp is negative.
Shifts(timers) == {T \in 0..MaxBack : \A e \in timers : T >= e}

WorldReset == resets < MaxResets /\ resets' = resets + 1
=============================================================================
