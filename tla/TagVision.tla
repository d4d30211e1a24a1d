------------------------------ MODULE TagVision ------------------------------
(***************************************************************************)
(* The TagVision model plugin (src/plugins/src/plugins/tag-vision/         *)
(* tag-vision.cpp): Load looks for the camera link, OnUpdate searches the  *)
(* world for tag models every SEARCH_FOR_TAGS_INTERVAL, reads the link's   *)
(* pose, and every SEND_INTERVAL publishes the tags in view with the id    *)
(* get_tag_id_from_name derives from their model names.  Poses and the     *)
(* field-of-view test are abstracted to the choice of the tags in view.    *)
(* A model name is a record: the text before the id (`pre`), whether the  *)
(* text after it starts with a number (`digits`), and that number (`num`); *)
(* a world model is such a name and `inst`, which tells apart two model   *)
(* objects (ModelPtr) inserted under the same name one after the other.   *)
(* Models are inserted and removed; InitialModels[1] carries the plugin.  *)
(***************************************************************************)
EXTENDS Integers, Sequences, SequencesExt, GazeboWorld

CONSTANTS
  Names,           \* model objects that can be inserted into the world
  InitialModels,   \* the world's model list when the plugin is loaded
  SearchInterval,  \* SEARCH_FOR_TAGS_INTERVAL, in physics steps
  SendInterval,    \* SEND_INTERVAL, in physics steps
  LinkPresent      \* whether the model has a link matching *tag_vision*

ASSUME SearchInterval \in Nat \ {0} /\ SendInterval \in Nat \ {0}
ASSUME MaxBack >= SearchInterval + 1 /\ MaxBack >= SendInterval + 1
ASSUME LinkPresent \subseteq BOOLEAN /\ LinkPresent # {}

VARIABLES
  models,          \* the world's model list, in index order
  loaded,          \* Load has run
  link,            \* link_ is not null
  sent,            \* time - last_sent_time_, in steps
  searched,        \* time - last_searched_for_new_tags_time_, in steps
  tag_poses,       \* the keys of tag_poses_
  published,       \* the result last published: [name, id] of each tag in view
  age,             \* world updates each tag in the world has been undiscovered
  fault,           \* "none", or the reason the physics thread died
  sinceSearch,     \* world updates since Load or the last search stamp
  sinceSend,       \* world updates since Load or the last send stamp
  stampSearch,     \* flips whenever OnUpdate stamps last_searched_for_new_tags_time_
  stampSend        \* flips whenever OnUpdate stamps last_sent_time_

vars == <<world, models, loaded, link, sent, searched, tag_poses, published,
          age, fault, sinceSearch, sinceSend, stampSearch, stampSend>>

Init ==
  /\ WorldInit
  /\ models = InitialModels
  /\ loaded = FALSE /\ link = FALSE
  /\ sent = 0 /\ searched = 0
  /\ tag_poses = {} /\ published = {}
  /\ age = [n \in Range(InitialModels) |-> 0]
  /\ fault = "none"
  /\ sinceSearch = 0 /\ sinceSend = 0
  /\ stampSearch = FALSE /\ stampSend = FALSE

\* fnmatch("*tag_*", name, FNM_CASEFOLD) == 0
IsTagName(n) == n.pre \in {"tag_", "TAG_"}

\* get_tag_id_from_name: 0 when name.find("tag_") fails, else std::stoi of
\* what follows, which throws std::invalid_argument when it is no number.
StoiThrows(n) == n.pre = "tag_" /\ ~n.digits
get_tag_id_from_name(n) == IF n.pre # "tag_" THEN 0 ELSE n.num

\* `time - last > interval` on doubles; exactly `interval` may round either way.
Due(e, interval, up) == e > interval \/ (e = interval /\ up)

\* Fault variant: last_searched_for_new_tags_time_ is not initialised, so
\* the first search test sees any time difference.
LoadStampsOnlySend ==
  /\ ~loaded
  /\ loaded' = TRUE
  /\ link' \in LinkPresent
  /\ sent' = 0 /\ searched' \in 0..SearchInterval + 1
  /\ age' = [n \in DOMAIN age |-> 0]
  /\ sinceSearch' = 0 /\ sinceSend' = 0
  /\ UNCHANGED <<world, models, tag_poses, published, fault, stampSearch, stampSend>>

\* Load: find the link, connect OnUpdate, stamp both times.
Load ==
  /\ ~loaded
  /\ loaded' = TRUE
  /\ link' \in LinkPresent
  /\ sent' = 0 /\ searched' = 0
  /\ age' = [n \in DOMAIN age |-> 0]
  /\ sinceSearch' = 0 /\ sinceSend' = 0
  /\ UNCHANGED <<world, models, tag_poses, published, fault, stampSearch, stampSend>>

\* The tags found by one pass over the world's model list.
TagsIn(ms) == {ms[i] : i \in {i \in 1..Len(ms) : IsTagName(ms[i])}}

\* Fault variant: the search loop stops one model early.
SearchSkipsLast(ms) == {ms[i] : i \in {i \in 1..Len(ms) - 1 : IsTagName(ms[i])}}

\* The printed name of a model object.
NameOf(n) == [pre |-> n.pre, num |-> n.num, digits |-> n.digits]

\* Fault variant: tag_poses_ keyed by the model's name, so a tag whose name
\* is already a key is not added.
SearchKeyedByName(ms) ==
  {m \in TagsIn(ms) : \A k \in tag_poses : NameOf(k) # NameOf(m)}

\* One pass of the search loop, adding the tags not yet in tag_poses_.
Search(ms) == TagsIn(ms)

\* A world update with OnUpdate.  `vis` are the tags in view when a result
\* is computed; the first that get_tag_id_from_name cannot convert ends the
\* thread with an uncaught exception.
OnUpdate(upSearch, upSend) ==
  /\ loaded /\ fault = "none"
  /\ LET es     == Elapse(searched, SearchInterval)
         search == Due(es, SearchInterval, upSearch)
         tags   == IF search THEN tag_poses \cup Search(models) ELSE tag_poses
         ee     == Elapse(sent, SendInterval)
     IN /\ searched' = IF search THEN 0 ELSE es
        /\ sinceSearch' = IF search THEN 0 ELSE Elapse(sinceSearch, SearchInterval + 1)
        /\ stampSearch' = IF search THEN ~stampSearch ELSE stampSearch
        /\ tag_poses' = tags
        /\ age' = [n \in DOMAIN age |->
                     IF n \in tags \/ ~IsTagName(n) \/ n \notin Range(models) THEN 0
                     ELSE Elapse(age[n], SearchInterval)]
        /\ IF ~link
             THEN fault' = "null_link" /\ UNCHANGED <<sent, published, sinceSend, stampSend>>
           ELSE IF Due(ee, SendInterval, upSend)
             THEN /\ sent' = 0 /\ sinceSend' = 0 /\ stampSend' = ~stampSend
                  /\ \E vis \in SUBSET tags :
                       IF \E n \in vis : StoiThrows(n)
                         THEN fault' = "invalid_argument" /\ UNCHANGED published
                         ELSE /\ published' = {[name |-> n, id |-> get_tag_id_from_name(n)] : n \in vis}
                              /\ UNCHANGED fault
           ELSE /\ sent' = ee /\ sinceSend' = Elapse(sinceSend, SendInterval + 1)
                /\ UNCHANGED <<published, fault, stampSend>>
  /\ UNCHANGED <<world, models, loaded, link>>

\* A model is inserted into the world: a new model object, never one that
\* was in the world before.
Spawn(n) ==
  /\ n \notin DOMAIN age
  /\ models' = Append(models, n)
  /\ age' = age @@ (n :> 0)
  /\ UNCHANGED <<world, loaded, link, sent, searched, tag_poses, published, fault,
                 sinceSearch, sinceSend, stampSearch, stampSend>>

\* A model other than the plugin's own is removed from the world; the later
\* models move down one index.  tag_poses_ is not told.
RemoveModel(i) ==
  /\ i \in 2..Len(models)
  /\ models' = RemoveAt(models, i)
  /\ UNCHANGED <<world, loaded, link, sent, searched, tag_poses, published, age,
                 fault, sinceSearch, sinceSend, stampSearch, stampSend>>

\* World reset: TagVision::Reset() is empty; both stamps are kept while
\* simulation time goes back.
Reset ==
  /\ WorldReset
  /\ \E T \in Shifts({sent, searched}) : sent' = sent - T /\ searched' = searched - T
  /\ UNCHANGED <<models, loaded, link, tag_poses, published, age, fault,
                 sinceSearch, sinceSend, stampSearch, stampSend>>

Next ==
  \/ Load
  \/ \E upSearch, upSend \in BOOLEAN : OnUpdate(upSearch, upSend)
  \/ \E n \in Names : Spawn(n)
  \/ \E i \in 2..Len(models) : RemoveModel(i)
  \/ Reset

\* Gazebo loads the plugin of the model and runs world updates while the
\* simulation is not paused; nothing forces a model to be spawned or removed.
Fairness ==
  WF_vars(Load) /\ WF_vars(\E upSearch, upSend \in BOOLEAN : OnUpdate(upSearch, upSend))

Spec == Init /\ [][Next]_vars /\ Fairness

-----------------------------------------------------------------------------
\* Until the first world reset, every tag model in the world is in
\* tag_poses_ at the latest in the (SEARCH_FOR_TAGS_INTERVAL + 1)-th world
\* update after it appeared or the plugin was loaded: the search throttle
\* fires in time and the search loop visits every index of the model list.
\* (A reset delays the search as it delays Gps::send_position.)
TagDiscovered ==
  (loaded /\ fault = "none" /\ resets = 0) =>
    \A n \in TagsIn(models) : n \notin tag_poses => age[n] <= SearchInterval

\* Every tag model in the world is eventually in tag_poses_ unless it is
\* removed first, also when world resets have moved simulation time behind
\* last_searched_for_new_tags_time_, and also when it was inserted under the
\* name of a tag model found earlier and removed since: tag_poses_ is keyed
\* by the model object, whose old entry stays.
TagsEventuallyDiscovered ==
  \A n \in Names \cup Range(InitialModels) :
    IsTagName(n) =>
      ((loaded /\ n \in Range(models)) ~> (n \in tag_poses \/ n \notin Range(models)))

\* OnUpdate never dereferences link_ while it is null (Load reports a missing
\* link and goes on).
NoNullLinkDeref == fault # "null_link"

\* The two timers seen as Throttles (see Gps).
SearchThrottle == INSTANCE Throttle WITH
  Interval <- SearchInterval,
  since <- IF ~loaded THEN 0
           ELSE IF sinceSearch > SearchInterval THEN SearchInterval + 1 ELSE sinceSearch,
  late  <- loaded /\ searched < sinceSearch,
  stamp <- stampSearch
SendThrottle == INSTANCE Throttle WITH
  Interval <- SendInterval,
  since <- IF ~loaded THEN 0
           ELSE IF sinceSend > SendInterval THEN SendInterval + 1 ELSE sinceSend,
  late  <- loaded /\ sent < sinceSend,
  stamp <- stampSend

\* The search for new tags and the computation of a result each implement
\* Throttle with their own interval, although one world reset sets both
\* stamps back at once: neither runs early, neither is late until time
\* went back, and both run again and again.
TimersThrottled == SearchThrottle!TSpec /\ SendThrottle!TSpec
=============================================================================
