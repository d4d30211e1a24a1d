-------------------------------- MODULE Gps ----------------------------------
(***************************************************************************)
(* The Gps model plugin (src/plugins/src/plugins/localization/gps.cpp):    *)
(* Load, OnUpdate on every world update, the empty Reset, and              *)
(* send_position with its two publishers.  Poses are not modelled: a send  *)
(* is the set of topics it published on.                                   *)
(***************************************************************************)
EXTENDS Integers, GazeboWorld

CONSTANT Interval   \* 1.0 / 10.0 s, in physics steps

ASSUME Interval \in Nat \ {0} /\ MaxBack >= Interval + 1

VARIABLES
  loaded,              \* Load has run (OnUpdate is connected)
  elapsed,             \* time - last_sent_time_, in steps
  publish_world_node,  \* publish_world_node_
  gps_conn,            \* gps_pub_->HasConnections()
  world_conn,          \* gps_world_pub_->HasConnections()
  published,           \* topics the last world update published on
  since,               \* world updates since Load or the last send_position
  stamp                \* flips whenever last_sent_time_ is stamped in OnUpdate

vars == <<world, loaded, elapsed, publish_world_node, gps_conn, world_conn,
          published, since, stamp>>

Init ==
  /\ WorldInit
  /\ loaded = FALSE /\ elapsed = 0 /\ publish_world_node = FALSE
  /\ gps_conn = FALSE /\ world_conn = FALSE /\ published = {}
  /\ since = 0 /\ stamp = FALSE

\* `time - last_sent_time_ > 0.1` on doubles: with steps of a fixed size,
\* a difference of exactly Interval steps may round either way (up).
Due(e, up) == e > Interval \/ (e = Interval /\ up)

\* send_position: publish on the model topic if it has subscribers, and on
\* the world topic if that is enabled and has subscribers.
SendPosition ==
  (IF gps_conn THEN {"gps"} ELSE {})
    \cup (IF publish_world_node /\ world_conn THEN {"world"} ELSE {})

\* Load: connect OnUpdate, stamp last_sent_time_ with the current simulation
\* time and read plugins/enable-public-object-pose-publisher.
Load ==
  /\ ~loaded
  /\ loaded' = TRUE
  /\ elapsed' = 0
  /\ publish_world_node' \in BOOLEAN
  /\ since' = 0
  /\ UNCHANGED <<world, gps_conn, world_conn, published, stamp>>

\* Fault variant: last_sent_time_ is assigned before the interval test.
OnUpdateEarlyStamp(up) ==
  /\ loaded
  /\ IF Due(0, up)
       THEN published' = SendPosition /\ since' = 0 /\ stamp' = ~stamp
       ELSE published' = {} /\ since' = Elapse(since, Interval + 1) /\ UNCHANGED stamp
  /\ elapsed' = 0
  /\ UNCHANGED <<world, loaded, publish_world_node, gps_conn, world_conn>>

\* A world update with OnUpdate: send when more than 0.1 s have passed.
OnUpdate(up) ==
  /\ loaded
  /\ LET e == Elapse(elapsed, Interval) IN
       IF Due(e, up)
         THEN /\ elapsed' = 0 /\ published' = SendPosition /\ since' = 0
              /\ stamp' = ~stamp
         ELSE /\ elapsed' = e /\ published' = {} /\ since' = Elapse(since, Interval + 1)
              /\ UNCHANGED stamp
  /\ UNCHANGED <<world, loaded, publish_world_node, gps_conn, world_conn>>

\* World reset: Gps::Reset() is empty; last_sent_time_ is kept while
\* simulation time goes back.
Reset ==
  /\ WorldReset
  /\ \E T \in Shifts({elapsed}) : elapsed' = elapsed - T
  /\ published' = {}
  /\ UNCHANGED <<loaded, publish_world_node, gps_conn, world_conn, since, stamp>>

\* Subscribers come and go on either topic.
Subscribers ==
  /\ gps_conn' \in BOOLEAN /\ world_conn' \in BOOLEAN
  /\ <<gps_conn', world_conn'>> # <<gps_conn, world_conn>>
  /\ published' = {}
  /\ UNCHANGED <<world, loaded, elapsed, publish_world_node, since, stamp>>

Next == Load \/ (\E up \in BOOLEAN : OnUpdate(up)) \/ Reset \/ Subscribers

\* Gazebo loads the plugins of the models in the world, and runs world
\* updates while the simulation is not paused.
Fairness == WF_vars(Load) /\ WF_vars(\E up \in BOOLEAN : OnUpdate(up))

Spec == Init /\ [][Next]_vars /\ Fairness

-----------------------------------------------------------------------------
\* While the simulation runs, OnUpdate calls send_position at least once
\* every Interval + 1 world updates: last_sent_time_ is never so far ahead
\* of simulation time that the interval test stays false.
SendGapBounded == loaded => since <= Interval + 1

\* The send throttle seen as a Throttle: the world updates since the last
\* stamp, and whether a world reset has set simulation time back since then
\* (last_sent_time_ is then further ahead than the updates since it).
SendThrottle == INSTANCE Throttle WITH
  since <- IF ~loaded THEN 0 ELSE IF since > Interval THEN Interval + 1 ELSE since,
  late  <- loaded /\ elapsed < since,
  stamp <- stamp

\* OnUpdate's test on last_sent_time_ implements Throttle: send_position
\* runs no earlier than Interval and, until a world reset sets time back,
\* no later than Interval + 1 world updates after the last call, and
\* again and again, also after world resets, once time has caught up.
SendThrottled == SendThrottle!TSpec
=============================================================================
