--------------------------- MODULE ConveyorVision ---------------------------
(***************************************************************************)
(* The ConveyorVision model plugin (src/plugins/src/plugins/conveyor-      *)
(* vision/conveyor_vision.cpp): Load, OnUpdate with its send throttle, the *)
(* empty Reset, the set-conveyor subscriber callback, and                  *)
(* send_conveyor_result with its early returns and its search for the      *)
(* first machine near the camera's look point.  Geometry is abstracted to  *)
(* which world models are near the look point and which end of the belt    *)
(* (input or output) is closer to the camera.                              *)
(***************************************************************************)
EXTENDS Integers, Sequences, SequencesExt, GazeboWorld

CONSTANTS
  Models,       \* the world's model names, in index order: "BS", "RS", ... or other
  Interval,     \* send_interval_ = 0.05 s, in physics steps
  LinksPresent, \* for each of camera and base link, whether GetLink finds it
  Data,         \* the values a set-conveyor message carries (mm)
  MaxOffset     \* bound on |offset_z_| in mm

ASSUME Interval \in Nat \ {0} /\ MaxBack >= Interval + 1
ASSUME LinksPresent \subseteq [camera : BOOLEAN, base : BOOLEAN] /\ LinksPresent # {}

NoResult == [machine |-> 0, side |-> "none", slide |-> "none"]

VARIABLES
  loaded,       \* Load has run (OnUpdate connected, subscriber created)
  links,        \* [camera, base]: the links the model has
  elapsed,      \* time - last_sent_time_, in steps
  conn,         \* conveyor_pub_->HasConnections()
  near,         \* indices of the models within RADIUS_DETECTION_AREA of the look point
  side,         \* the belt end closer to the camera: "input" or "output"
  published,    \* the result the last world update published, or NoResult
  offset_z,     \* offset_z_, in mm
  stale,        \* world updates a result has been computable and not published
  since,        \* world updates since Load or the last stamp of last_sent_time_
  stamp         \* flips whenever last_sent_time_ is stamped in OnUpdate

vars == <<world, loaded, links, elapsed, conn, near, side, published, offset_z, stale,
          since, stamp>>

Init ==
  /\ WorldInit
  /\ loaded = FALSE /\ links = [camera |-> FALSE, base |-> FALSE]
  /\ elapsed = 0 /\ conn = FALSE /\ near = {} /\ side = "input"
  /\ published = NoResult /\ offset_z = 0 /\ stale = 0 /\ since = 0
  /\ stamp = FALSE

\* is_machine: the name contains BS, SS, CS, DS or RS.
is_machine(i) == Models[i] \in {"BS", "SS", "CS", "DS", "RS"}
is_RS(i) == Models[i] = "RS"

\* A result can be computed: a subscriber, both links, a machine near.
Detectable ==
  conn /\ links.camera /\ links.base /\ \E i \in near : is_machine(i)

\* `time - last_sent_time_ > send_interval_`; exactly Interval may round either way.
Due(e, up) == e > Interval \/ (e = Interval /\ up)

\* send_conveyor_result: return without a result when there is no subscriber
\* or a link is missing; otherwise publish for the first machine (in model
\* order) near the look point and stop.  The slide pose of an RS is
\* computed for the input end; res_slide stays default-constructed when the
\* output end is closer, and is sent all the same.
send_conveyor_result ==
  IF ~conn \/ ~links.camera \/ ~links.base \/ ~\E i \in near : is_machine(i)
    THEN NoResult
    ELSE LET m == Min({i \in near : is_machine(i)})
         IN  [machine |-> m, side |-> side,
              slide |-> IF ~is_RS(m) THEN "none"
                        ELSE IF side = "input" THEN "computed" ELSE "default"]

\* Load: read the configuration, advertise, zero offset_z_, subscribe to
\* the set-conveyor topic, stamp last_sent_time_.
Load ==
  /\ ~loaded
  /\ loaded' = TRUE
  /\ links' \in LinksPresent
  /\ elapsed' = 0
  /\ offset_z' = 0
  /\ since' = 0
  /\ UNCHANGED <<world, conn, near, side, published, stale, stamp>>

\* The count of updates a computable result has waited, after this update.
Waited(res) == IF Detectable /\ res = NoResult THEN Elapse(stale, Interval) ELSE 0

\* Fault variant: last_sent_time_ is assigned before the interval test.
OnUpdateEarlyStamp(up) ==
  /\ loaded
  /\ elapsed' = 0
  /\ published' = IF Due(0, up) THEN send_conveyor_result ELSE NoResult
  /\ since' = IF Due(0, up) THEN 0 ELSE Elapse(since, Interval + 1)
  /\ stamp' = IF Due(0, up) THEN ~stamp ELSE stamp
  /\ stale' = Waited(published')
  /\ UNCHANGED <<world, loaded, links, conn, near, side, offset_z>>

\* A world update with OnUpdate.
OnUpdate(up) ==
  /\ loaded
  /\ LET e == Elapse(elapsed, Interval) IN
       IF Due(e, up)
         THEN /\ elapsed' = 0 /\ published' = send_conveyor_result /\ since' = 0
              /\ stamp' = ~stamp
         ELSE /\ elapsed' = e /\ published' = NoResult
              /\ since' = Elapse(since, Interval + 1) /\ UNCHANGED stamp
  /\ stale' = Waited(published')
  /\ UNCHANGED <<world, loaded, links, conn, near, side, offset_z>>

\* on_set_conveyor_msg, on the transport thread: offset_z_ += data / 1000.
OnSetConveyorMsg(d) ==
  /\ loaded
  /\ offset_z + d \in -MaxOffset..MaxOffset
  /\ offset_z' = offset_z + d
  /\ UNCHANGED <<world, loaded, links, elapsed, conn, near, side, published, stale, since, stamp>>

\* World reset: ConveyorVision::Reset() is empty; last_sent_time_ is kept
\* while simulation time goes back.
Reset ==
  /\ WorldReset
  /\ \E T \in Shifts({elapsed}) : elapsed' = elapsed - T
  /\ published' = NoResult
  /\ UNCHANGED <<loaded, links, conn, near, side, offset_z, stale, since, stamp>>

\* The robot moves: other models come near the look point, the other belt
\* end may become the closer one.  Nothing is published between updates.
Move ==
  /\ near' \in SUBSET DOMAIN Models /\ side' \in {"input", "output"}
  /\ <<near', side'>> # <<near, side>>
  /\ published' = NoResult
  /\ UNCHANGED <<world, loaded, links, elapsed, conn, offset_z, since, stamp>>
  /\ stale' = IF Detectable' THEN stale ELSE 0

\* A subscriber connects to or leaves the result topic.
Subscribers ==
  /\ conn' = ~conn
  /\ published' = NoResult
  /\ UNCHANGED <<world, loaded, links, elapsed, near, side, offset_z, since, stamp>>
  /\ stale' = IF Detectable' THEN stale ELSE 0

Next ==
  \/ Load \/ (\E up \in BOOLEAN : OnUpdate(up)) \/ (\E d \in Data : OnSetConveyorMsg(d))
  \/ Reset \/ Move \/ Subscribers

\* Gazebo loads the plugin of the model and runs world updates while the
\* simulation is not paused; robot motion and subscribers are not forced.
Fairness == WF_vars(Load) /\ WF_vars(\E up \in BOOLEAN : OnUpdate(up))

Spec == Init /\ [][Next]_vars /\ Fairness

-----------------------------------------------------------------------------
\* Until the first world reset, while a subscriber listens, both links exist
\* and a machine is near the look point, a result is published within
\* Interval world updates: the throttle stamps every call, early returns
\* included, and a call made while a result is computable publishes one.
ResultsKeepComing == (loaded /\ resets = 0) => stale <= Interval

\* A result that can be computed is eventually published, unless the robot
\* moves away or the subscriber leaves first; also after world resets.
ResultEventually == Detectable ~> (published # NoResult \/ ~Detectable)

\* A result carries a slide pose only when one was computed for the
\* machine's slide (the message's slide field stands for a real pose).
SlideComputed == published.slide # "default"

\* The send throttle seen as a Throttle (see Gps).
SendThrottle == INSTANCE Throttle WITH
  since <- IF ~loaded THEN 0 ELSE IF since > Interval THEN Interval + 1 ELSE since,
  late  <- loaded /\ elapsed < since,
  stamp <- stamp

\* OnUpdate's test on last_sent_time_ implements Throttle: it is stamped,
\* with or without a result, no earlier than Interval and, until a world
\* reset sets time back, no later than Interval + 1 world updates after
\* the last stamp, and again and again, also after world resets.
SendThrottled == SendThrottle!TSpec
=============================================================================
