# Model-checking project for gazebo-rcll

TLA+ models of the code under `src/plugins/src`, checked with TLC. This file is
the inventory of the system, the plan of the project, and the account of what
each run checks.

## 1. Inventory

### Components

| Component | Source | State it keeps | Operations |
|---|---|---|---|
| **LockPtr** (shared lockable handle) | `libs/core/utils/lockptr.h` | per handle: `__cpp_object`, `__obj_mutex`, `__ref_count`, `__ref_mutex`; per referent (shared): the count, the reference mutex, the object mutex | constructors (empty, owning, copy, cross-type copy, internal 4-pointer), destructor, three `operator=`, `swap`, `clear`, `lock`/`try_lock`/`unlock`, `cast_*`, `==`, `bool`, `refcount` |
| fawkes `Mutex` | not in the repository (`core/threading/mutex.h`) | holder | `lock`, `try_lock`, `unlock` |
| string helpers | `libs/utils/misc/string_split.h` | none (pure) | `str_split`, `str_split_to_queue`, two `str_join` |
| `ConfigurableAspect` | `libs/configurable/configurable.cpp` | `config` pointer | constructor loads `config.yaml`, destructor deletes it |
| Gps plugin | `plugins/localization/gps.{h,cpp}` | `last_sent_time_`, `publish_world_node_`, publishers | `Load`, `OnUpdate`, `Reset`, `send_position` |
| ConveyorVision plugin | `plugins/conveyor-vision/conveyor_vision.cpp` | `last_sent_time_`, `send_interval_`, `offset_z_` | `Load`, `OnUpdate`, `Reset`, `on_set_conveyor_msg`, `send_conveyor_result` |
| TagVision plugin | `plugins/tag-vision/tag-vision.{h,cpp}` | `last_sent_time_`, `last_searched_for_new_tags_time_`, `tag_poses_` map, `link_`, `link_pose_` | `Load`, `OnUpdate`, `Reset`, `get_tag_id_from_name` |
| Gyro, LightSignalDetection | headers only | declared members | no definitions in the repository |
| Gazebo API wrappers | `libs/utils/misc/gazebo_api_wrappers.h` | none | version-selecting macros |

### How they interact

LockPtr is self-contained: no other file of the repository uses it. Its
copies may live on several threads; they share one heap-allocated count and
two mutexes. The reference mutex is taken inside the constructors and the
destructor; the object mutex only by callers through `lock`/`try_lock`/`unlock`.

The plugins are callbacks of the Gazebo host: `Load` once, `OnUpdate` on every
world update (the physics thread), `Reset` on a world reset, and transport
subscriber callbacks (`on_set_conveyor_msg`) on the transport thread. Each
inherits `ConfigurableAspect` and reads values from it. They publish
messages when simulation time has advanced past a send interval.

### What is hard

* LockPtr: concurrent copies and destructions of handles to one referent
  (interleaved load/store of the count under a mutex); the zero crossing of the
  count; the order of copy, swap and release in `operator=`; deallocating
  mutexes that may still be held; the copy constructor reading the source's
  pointers before it locks.
* Plugins: simulation time going backwards on a world reset while
  `last_sent_time_` is kept (every `Reset()` is empty); `Load` continuing when
  the tag-vision link is not found although `OnUpdate` dereferences it; the
  subscriber callback running on another thread than `OnUpdate`.

### What makes each component correct

* LockPtr: every handle is all-null or names one referent's four allocations
  (I1, which the model keeps by construction, see section 3); the count equals the number of handles that own a unit of it and is
  positive while allocated (I3); no handle or running operation touches freed
  memory; each referent is deleted exactly once, when its last handle goes, and
  eventually after it goes; the reference mutex is always released.
* String helpers: `str_split` returns the non-empty fields between delimiters;
  `str_join` of a split restores the string with empty fields removed.
* Plugins: a sensor is published at most once per interval and, while the
  simulation runs, again within every interval (also after a reset).

## 2. Plan

Modules, in order of importance, with their state:

1. `LockPtr.tla` — the handle with threads, handle objects and per-referent
   count and mutexes, with `MC_LockPtr.tla` (done).
2. `LockPtrAbstract.tla` — the atomic shared-ownership specification;
   `LockPtr` refines it through `AbsOwner` (done).
3. A run without the caller contract that the copy source outlives the call
   (done: `lockptr_source_released`).
4. `StrSplit.tla` — `str_split`/`str_split_to_queue` and `str_join` as the
   loops they are, checked against a reference definition of fields over all
   strings up to length 5 (done).
5. `GazeboWorld.tla` (simulation time and world reset), `Gps.tla`,
   `TagVision.tla`, `ConveyorVision.tla` — the plugins' callbacks (done).
6. Simulation time as timers (`time - last_*_time_`), so that the plugin
   runs need no time bound, include world resets and check liveness under
   fair world updates (done, second sitting); `on_set_conveyor_msg` (done).
7. `Throttle.tla` — what the interval test of every plugin timer promises;
   the four timers of the three plugins refine it (done, third sitting); the
   string-delimiter `str_join` (done, third sitting).
8. Removal and re-insertion of models in TagVision (done, fourth sitting).
9. Left: tag names outside the RCLL
   convention (needs a run of its own); a
   three-thread LockPtr instance (checked by hand at one handle per thread
   and two referents: 0.9M states, no error; not a run of its own).

## 3. The LockPtr model

### State

| TLA+ | Code |
|---|---|
| `slot[s]` | a `LockPtr` object (local variable or member); `Dead` before its constructor and after its destructor has been entered; otherwise the record of its four pointers (`Handle`) |
| `alloc[o]` | whether `new int`, `new Mutex()` x2 of referent `o` have happened, and whether they were deleted |
| `deleted[o]` | how often `delete __cpp_object` ran |
| `refcount[o]`, `refmx[o]`, `objmx[o]` | `*__ref_count`, the holder of `*__ref_mutex`, the holder of `*__obj_mutex` |
| `pc[t]`, `op[t]`, `h[t]`, `val[t]`, `dst[t]`, `src[t]` | the thread's position inside a call, the call, the handle the constructor/destructor works on (also the temporary of `operator=`), the loaded count value, the target handle, the copied-from handle |

Referent, count and mutexes are allocated together by `LockPtr(T*)` and are
named by one element of `Objs`; the four fields are nevertheless kept apart,
so a handle whose fields name different allocations is expressible. Every
action writes whole handle records and `Swap` exchanges them in one step, so
no such handle is reachable: the model takes swap() (lines 387-400) as atomic,
which the one-owner contract of section 3 justifies.

### Actions

Each call a thread makes starts with one action (`ConstructEmpty`,
`ConstructOwning`, `CopyConstruct`, `Assign`, `AssignRaw`, `Clear`, `Swap`,
`Destroy`, `ObjLock`, `ObjTryLock`, `ObjUnlock`); counted constructors and the
destructor then take the steps `IncLock`/`IncRead`/`IncWrite` and
`DecLock`/`DecRead`/`DecWrite`: the mutex acquisition, the load and the store
of `++`/`--`. `IncWrite` also completes the constructor: a copy stores its
handle; `operator=` swaps the temporary with `*this` and goes on to destroy the
temporary. `DecWrite` performs the zero test and either deletes referent,
count and both mutexes (keeping the reference mutex locked, as the code does)
or unlocks. A failed `try_lock` changes nothing and is a stuttering step.

The copy constructor and the cross-type copy constructor (and the matching
`operator=` overloads) are the same action: static types are not modelled.

### Caller contract

The model assumes what the class comment leaves to the caller: a handle object
is constructed, assigned and destroyed only by its owning thread; another
thread may copy from it only while its owner is not operating on it, and the
owner does not release it until the copy has counted itself (`Busy`,
`BeingRead`); a caller holds at most one object lock and unlocks only what it
holds. Dropping the last handle while holding its object lock is *not*
excluded.

### Runs

| Run | Config | Checks | Result |
|---|---|---|---|
| `lockptr_safety` | `MC_LockPtr.cfg`: 2 threads, 4 handles (2 each), 2 referents | `TypeOK`, `RefCountAccurate`, `NoUseAfterFree` | pass, ~620k states |
| `lockptr_liveness` | `MC_LockPtr_live.cfg`: 2 threads, 3 handles, 2 referents | `RefMutexReleased`, `ImplementsSharedOwnership` (refinement of `LockPtrAbstract`) | pass |
| `lockptr_refmutex_freed_locked` | `MC_LockPtr_RefMutexUnlockedWhenFreed.cfg` | `RefMutexUnlockedWhenFreed` | violation: the zero path deletes the locked reference mutex |
| `lockptr_objmutex_freed_locked` | `MC_LockPtr_ObjMutexUnlockedWhenFreed.cfg` | `ObjMutexUnlockedWhenFreed` | violation: the last handle dropped under the object lock deletes a locked mutex |
| `lockptr_source_released` | `MC_LockPtr_SourceReleased.cfg` | `NoUseAfterFree` | violation: a copy racing with the release of its source touches freed memory |

Bounds: two threads are enough for every two-party race on one count (copy
vs. destroy, destroy vs. destroy, assign vs. copy); two handles per thread let
a thread copy, self-assign and swap locally while the other thread holds a
copy; two referents let assignment move a handle between referents and let
swap exchange different referents. The count is bounded by the number of
handles plus in-flight temporaries.

### Fairness

`WF_vars(Step(t))` for each thread: a thread inside a LockPtr call whose next
step is enabled is eventually scheduled (the OS scheduler). Nothing forces a
thread to make a new call. The mutexes are not fair, so no property claims that
a waiting thread acquires a contended mutex; `RefMutexReleased` only needs the
holder to make progress.

### Findings

* The destructor deletes `__ref_mutex` while holding it (line 311), with no
  `unlock()`. Spec section 5 leaves the policy open (unlock-then-free or
  free-while-held), so this is a gap in the spec rather than a divergence; the
  code's choice destroys a locked mutex, which POSIX leaves undefined.
* If the last handle is destroyed while its object lock is held, `__obj_mutex`
  is deleted locked (line 312).
* `cast_dynamic`, `cast_static` and `cast_const` (lines 492, 504, 514) call a
  three-argument constructor `LockPtr(T*, int*, Mutex*)` that LockPtr does not
  declare (it has a four-argument one that also takes the object mutex): the
  family does not compile when instantiated, and would not share the object
  mutex if it did. It is therefore not modelled.

### Source-released run

`MC_LockPtr_SourceReleased.cfg` sets `SourceMayBeReleased = TRUE`, dropping the
`Busy`/`BeingRead` guards. TLC finds: thread t2 starts copying a handle of
t1 (reads its four pointers, lines 350-353), t1's destructor drops the last
unit and frees the referent, count and mutexes, and t2, about to lock at line
356, holds pointers to freed memory. The class comment calls LockPtr thread-safe;
the model shows that this holds only under the contract of section 3.

## 4. The string helpers

`StrSplit.tla` runs one call: either `str_split` of a string over
`{a, b, /}` up to length 5, or `str_join` of a list of up to 3 items followed
by `str_split` of the result. `SplitStep` is one successful `std::getline`
(the text up to the next delimiter, which is consumed) with the `item != ""`
test; `SplitReturn` is getline failing on the exhausted stream. `JoinStep`
is one iteration of the loop of `str_join(l, char)` with its `first` flag,
`JoinStepStr` the same loop of `str_join(l, std::string)`, which puts a
whole string (`sep`, from `Seps`: `//` and `/a`) between items. The reference
`Fields` defines the fields of a string as its maximal runs of non-delimiters.

| Run | Checks | Result |
|---|---|---|
| `strsplit` (`MC_StrSplit.cfg`) | `SplitIsFields`, `JoinSplitRoundTrip` | pass, ~3.9k states |

The round trip holds for a separator made of delimiters only (`//`: the
empty field between them is dropped); `/a` is in the run to show the
condition is needed.

The run ends in phase `done`, so deadlock checking is off in that cfg.

## 5. The plugins

`GazeboWorld.tla` is the host as the plugins see it. Simulation time
advances by one physics step per world update; a world reset (`WorldReset`)
sets it back to zero and the host calls each plugin's `Reset()`. The models
do not keep the absolute time: as in Lamport's real-time abstraction, each
plugin keeps its timers `time - last_x_time_` in steps. A world update
advances each timer by one (`Elapse`); once a timer is past its interval the
test `time - last > interval` cannot change any more, so `Elapse` stops it
there, which keeps the state finite without losing a behaviour of the
test. A world reset from time T moves every timer back by T (`Shifts`: T is
at least each timer, since stamps are not negative, and at most `MaxBack`).
The interval tests compare doubles: when the difference is exactly one
interval, the model lets it round either way (`Due(..., up)`). Subscribers,
robot motion and model insertion are environment actions.

* `Gps.tla`: `Load` (stamps `last_sent_time_`, reads the world-publisher
  flag), `OnUpdate` with `send_position` (`SendPosition`: the topics
  published on), the empty `Reset`, subscribers. `elapsed` is the timer;
  `since` counts world updates since the last send.
* `TagVision.tla`: `Load` (the link may be missing), `OnUpdate` (the tag
  search when `searched` passes `SearchInterval`, `link_->pose`, and when
  `sent` passes `SendInterval` a result of the tags in view with
  `get_tag_id_from_name`), `Reset`, and the world's `Spawn` and
  `RemoveModel` of models other than the robot. A model is a name and an
  `inst`: a model inserted again under the name of a removed one is a new
  object (a new `ModelPtr`), and `tag_poses` holds objects, as the code's map
  does. A crash of the physics thread is `fault`. `age` counts the updates
  an undiscovered tag has been in the world since `Load`.
* `ConveyorVision.tla`: `Load` (which links exist, `offset_z_ = 0`),
  `OnUpdate` with `send_conveyor_result` (early returns for no subscriber or
  a missing link, the first machine near the look point in model order, the
  RS slide), `Reset`, `OnSetConveyorMsg` (the transport-thread callback,
  `offset_z_` in mm), `Move` and `Subscribers`. `stale` counts updates in
  which a result was computable and none was published.

| Run | Config | Checks | Result |
|---|---|---|---|
| `gps_liveness` | `MC_Gps.cfg`: interval 3 steps, one reset taking back up to 8 | `SendThrottled` | pass, ~940 states |
| `gps_world_reset` | `MC_Gps_Reset.cfg` | `SendGapBounded` | violation: after a reset no position is sent until time catches up |
| `tagvision_discovery` | `MC_TagVision.cfg`: robot, `tag_01` at load, a machine, removal of either, and `tag_01` inserted again as a new object; one reset | `TagDiscovered`, `TagsEventuallyDiscovered`, `TimersThrottled` | pass, ~156k states |
| `tagvision_missing_link` | `MC_TagVision_NoLink.cfg` | `NoNullLinkDeref` | violation: the first `OnUpdate` dereferences the null `link_` |
| `conveyor_results` | `MC_ConveyorVision.cfg`: robot, RS, BS; all link combinations; one reset | `ResultsKeepComing`, `ResultEventually`, `SendThrottled` | pass, ~18k states |
| `conveyor_rs_slide` | `MC_ConveyorVision_Slide.cfg` | `SlideComputed` | violation: an RS seen from its output end gets a default slide pose |

### The throttle refinement

`Throttle.tla` is the abstract specification of one interval timer
`if (time - last_x_time_ > interval) { last_x_time_ = time; ... }`, counted
in world updates: `since` is the number of updates since the stamp and
`late` whether a world reset has set time back since then. `Fire` (the
guarded code runs and stamps) is allowed from the `Interval`-th update on;
`Skip` only up to the `Interval`-th, or later when `late`; `GoBack` is a
world reset; and the stamp is taken again and again. Each plugin keeps the
count of updates since its stamp (`since`, `sinceSearch`, `sinceSend`) and
a bit that flips at each stamp (`stamp`, `stampSearch`, `stampSend`),
history variables that no action reads, and maps to `Throttle` by a named
`INSTANCE ... WITH`: `since` capped at `Interval + 1`, and `late` when the
timer `time - last_x_time_` is behind that count, which is exactly when a
reset has moved it back. Before `Load` the mapping is the initial state.
The stamp bit makes a stamp taken while `since` is 0 a step of `Throttle`
rather than a stuttering step, so a second stamp right after the first is
not hidden by the mapping.
`SendThrottled` (Gps, ConveyorVision) and `TimersThrottled` (TagVision's
search and send timers, both set back by one reset) check the plugin's
behaviours against `TSpec`: a send before the interval, a send missing
after it without a reset, and a plugin that stops sending are each a
violation. The lower bound holds across resets because a reset only moves
the timer back.

The bounded-latency properties (`TagDiscovered`, `ResultsKeepComing`) are
stated up to the first world reset, because a reset breaks them in the same
way `gps_world_reset` shows for Gps; the liveness properties hold across it.

Bounds: intervals of 2 or 3 steps give several sends and the rounding case;
`MaxBack` is larger than every interval, so a reset can put a timer behind
by more than an interval. One reset is enough for the stall and the
recovery. Three models give a non-machine, a ring station and another
machine, so the first-machine choice and the RS slide both happen.

Fairness: `WF` on `Load` (Gazebo loads the plugins of the models in the
world) and on `OnUpdate` (the host runs world updates while the simulation
is not paused). Subscribers, robot motion, model insertion and resets are
not fair. The liveness properties assume finitely many resets (`MaxResets`):
a world reset again and again before time catches up would starve the
plugins, which is the `gps_world_reset` finding in its extreme.

Plugin findings:
* `Reset()` is empty in all three plugins, so `last_sent_time_` (and
  TagVision's search time) keep their pre-reset values and the plugins fall
  silent after a world reset until time catches up (`gps.cpp:103`).
* TagVision `Load` reports a missing link and goes on; `OnUpdate` line 129
  dereferences it.
* ConveyorVision attaches `res_slide` for every RS (line 238) but computes it
  only when the input end is closer (line 221).
* Not run, but in the model: the tag search matches `*tag_*` without
  regard to case, while `get_tag_id_from_name` looks for `tag_` with case and
  calls `std::stoi` unguarded.

## 6. Not modelled

* `operator==`, `operator!=`, `operator bool`, `operator->`, `operator*`,
  `refcount()` and the `*_ptr()` accessors change no state; the refinement
  mapping uses `__cpp_object` identity, which is what `operator==` compares.
* `ConfigurableAspect`, the Gazebo wrappers and the geometry of the plugins
  (poses, distances) are I/O and arithmetic on floating-point poses; the
  plugin models replace geometry by nondeterministic choices (tags in view,
  models near the look point, the closer belt end).
* TagVision keeps every tag it found in `tag_poses_`, removed ones
  included, and the model does the same; no run states that a removed tag
  must not be reported (`tag-vision.cpp:138`), which the code would violate.
  RCLL worlds do not delete tag models during a game.
* `str_split_to_queue` repeats the loop of `str_split` with a queue; it is
  not a second action.
* Gyro and LightSignalDetection have only headers in the repository.
