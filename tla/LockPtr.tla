------------------------------- MODULE LockPtr -------------------------------
(***************************************************************************)
(* fawkes::LockPtr<T> (src/plugins/src/libs/core/utils/lockptr.h): a      *)
(* reference-counted handle whose referent, object mutex, reference count *)
(* and reference-count mutex are shared by every copy.                     *)
(*                                                                         *)
(* Threads own handle objects (Slots).  Each LockPtr operation a thread    *)
(* calls is split at the points where another thread can interleave: the   *)
(* acquisition of a mutex, the load and the store of ++*__ref_count and  *)
(* --*__ref_count.  The four pointer fields of a handle are kept apart,  *)
(* so a handle whose fields disagree is a state the model can express.    *)
(* A referent, its count and its two mutexes are allocated by one owning   *)
(* constructor call and named by one element of Objs.                      *)
(***************************************************************************)
EXTENDS Naturals, FiniteSets

CONSTANTS
  Threads,     \* threads calling LockPtr operations
  Slots,       \* LockPtr objects (variables, members) the threads own
  SlotOwner,   \* SlotOwner[s]: the only thread that constructs, assigns or destroys s
  Objs,        \* heap objects a LockPtr(T *) constructor can take ownership of
  Null,        \* the null pointer
  Dead,        \* a slot whose LockPtr object is not constructed
  NoOwner,     \* an unlocked mutex
  SourceMayBeReleased  \* TRUE: drop the caller contract that a copy's source outlives the call

ASSUME Assumptions ==
  /\ SlotOwner \in [Slots -> Threads]
  /\ Null \notin Objs /\ NoOwner \notin Threads
  /\ SourceMayBeReleased \in BOOLEAN

VARIABLES
  slot,      \* slot[s]: Dead or the four fields of LockPtr s
  alloc,     \* alloc[o]: "unalloc" | "live" | "freed", the count and the two mutexes of o
  deleted,   \* deleted[o]: how often `delete __cpp_object` ran on referent o
  refcount,  \* refcount[o]: *__ref_count
  refmx,     \* refmx[o]: holder of *__ref_mutex
  objmx,     \* objmx[o]: holder of *__obj_mutex
  pc,        \* pc[t]: where thread t is inside a LockPtr operation
  op,        \* op[t]: the operation in progress
  h,         \* h[t]: the handle the running constructor/destructor works on
  val,       \* val[t]: the count value loaded by ++ or --
  dst,       \* dst[t]: the slot being constructed or assigned
  src        \* src[t]: the slot a copy reads from, until the copy has counted itself

vars == <<slot, alloc, deleted, refcount, refmx, objmx, pc, op, h, val, dst, src>>

Ptr == Objs \cup {Null}
Handle == [obj : Ptr, objmx : Ptr, cnt : Ptr, refmx : Ptr]
Empty == [obj |-> Null, objmx |-> Null, cnt |-> Null, refmx |-> Null]
Own(o) == [obj |-> o, objmx |-> o, cnt |-> o, refmx |-> o]

\* The test every incrementing constructor makes before touching the count.
IsBound(x) == x.obj # Null /\ x.objmx # Null /\ x.cnt # Null /\ x.refmx # Null
\* The weaker test ~LockPtr() makes before decrementing.
HasCount(x) == x.cnt # Null /\ x.refmx # Null

Idle(t) == pc[t] = "idle"
Owned(t) == {s \in Slots : SlotOwner[s] = t}
\* A slot another thread is copying from: its owner must leave it alone
\* until the copy has incremented the count (the source outlives the call).
BeingRead(s) == ~SourceMayBeReleased /\ \E u \in Threads : src[u] = s
HoldsObjLock(t) == \E o \in Objs : objmx[o] = t
\* A slot whose owner is in the middle of an operation on it: a copy
\* from another thread may not start on it.
Busy(s) == ~SourceMayBeReleased /\ \E u \in Threads : dst[u] = s

Init ==
  /\ slot = [s \in Slots |-> Dead]
  /\ alloc = [o \in Objs |-> "unalloc"]
  /\ deleted = [o \in Objs |-> 0]
  /\ refcount = [o \in Objs |-> 0]
  /\ refmx = [o \in Objs |-> NoOwner]
  /\ objmx = [o \in Objs |-> NoOwner]
  /\ pc = [t \in Threads |-> "idle"]
  /\ op = [t \in Threads |-> "none"]
  /\ h = [t \in Threads |-> Empty]
  /\ val = [t \in Threads |-> 0]
  /\ dst = [t \in Threads |-> Null]
  /\ src = [t \in Threads |-> Null]

Finish(t) ==
  /\ pc' = [pc EXCEPT ![t] = "idle"]
  /\ op' = [op EXCEPT ![t] = "none"]
  /\ h' = [h EXCEPT ![t] = Empty]
  /\ dst' = [dst EXCEPT ![t] = Null]
  /\ src' = [src EXCEPT ![t] = Null]


\* The destructor of a handle x run by thread t: it touches the count only
\* when __ref_count and __ref_mutex are both set.
StartDestroy(t, x) ==
  /\ pc' = [pc EXCEPT ![t] = IF HasCount(x) THEN "dec_lock" ELSE "idle"]
  /\ op' = [op EXCEPT ![t] = IF HasCount(x) THEN "destroy" ELSE "none"]
  /\ h' = [h EXCEPT ![t] = IF HasCount(x) THEN x ELSE Empty]
  /\ dst' = [dst EXCEPT ![t] = Null]

-----------------------------------------------------------------------------
(* Constructors that do not touch a shared count.                          *)

\* LockPtr(): all four fields 0.
ConstructEmpty(t, s) ==
  /\ Idle(t) /\ s \in Owned(t) /\ slot[s] = Dead
  /\ slot' = [slot EXCEPT ![s] = Empty]
  /\ UNCHANGED <<alloc, deleted, refcount, refmx, objmx, pc, op, h, val, dst, src>>

\* Fault variant: `*__ref_count = 1` left out, the fresh count reads 0.
ConstructOwningZeroCount(t, s, p) ==
  /\ Idle(t) /\ s \in Owned(t) /\ slot[s] = Dead
  /\ p # Null => alloc[p] = "unalloc"
  /\ IF p = Null
       THEN /\ slot' = [slot EXCEPT ![s] = Empty]
            /\ UNCHANGED <<alloc, refcount>>
       ELSE /\ slot' = [slot EXCEPT ![s] = Own(p)]
            /\ alloc' = [alloc EXCEPT ![p] = "live"]
            /\ refcount' = [refcount EXCEPT ![p] = 0]
  /\ UNCHANGED <<deleted, refmx, objmx, pc, op, h, val, dst, src>>

\* LockPtr(T *cpp_object): a non-null object gets a fresh count of 1 and
\* two fresh mutexes; a null one gives an empty handle.
ConstructOwning(t, s, p) ==
  /\ Idle(t) /\ s \in Owned(t) /\ slot[s] = Dead
  /\ p # Null => alloc[p] = "unalloc"
  /\ IF p = Null
       THEN /\ slot' = [slot EXCEPT ![s] = Empty]
            /\ UNCHANGED <<alloc, refcount>>
       ELSE /\ slot' = [slot EXCEPT ![s] = Own(p)]
            /\ alloc' = [alloc EXCEPT ![p] = "live"]
            /\ refcount' = [refcount EXCEPT ![p] = 1]
  /\ UNCHANGED <<deleted, refmx, objmx, pc, op, h, val, dst, src>>

-----------------------------------------------------------------------------
(* The counted constructors: the copy constructor and the constructor from *)
(* a castable LockPtr read the four fields of the source; when all four   *)
(* are set they run lock(); ++*__ref_count; unlock() on the source's    *)
(* reference-count mutex.                                                  *)

CopyConstruct(t, d, s) ==
  /\ Idle(t) /\ d \in Owned(t) /\ slot[d] = Dead
  /\ s # d /\ slot[s] # Dead /\ ~Busy(s)
  /\ IF IsBound(slot[s])
       THEN /\ pc' = [pc EXCEPT ![t] = "inc_lock"]
            /\ op' = [op EXCEPT ![t] = "copy"]
            /\ h' = [h EXCEPT ![t] = slot[s]]
            /\ dst' = [dst EXCEPT ![t] = d]
            /\ src' = [src EXCEPT ![t] = s]
            /\ UNCHANGED slot
       ELSE /\ slot' = [slot EXCEPT ![d] = slot[s]]
            /\ UNCHANGED <<pc, op, h, dst, src>>
  /\ UNCHANGED <<alloc, deleted, refcount, refmx, objmx, val>>

\* Fault variant: the copy constructor increments without __ref_mutex->lock().
IncLockSkipped(t) ==
  /\ pc[t] = "inc_lock"
  /\ pc' = [pc EXCEPT ![t] = "inc_read"]
  /\ UNCHANGED <<slot, alloc, deleted, refcount, refmx, objmx, op, h, val, dst, src>>

\* __ref_mutex->lock(): blocks while another thread holds it.
IncLock(t) ==
  /\ pc[t] = "inc_lock" /\ refmx[h[t].refmx] = NoOwner
  /\ refmx' = [refmx EXCEPT ![h[t].refmx] = t]
  /\ pc' = [pc EXCEPT ![t] = "inc_read"]
  /\ UNCHANGED <<slot, alloc, deleted, refcount, objmx, op, h, val, dst, src>>

\* ++*__ref_count: the load.
IncRead(t) ==
  /\ pc[t] = "inc_read"
  /\ val' = [val EXCEPT ![t] = refcount[h[t].cnt]]
  /\ pc' = [pc EXCEPT ![t] = "inc_write"]
  /\ UNCHANGED <<slot, alloc, deleted, refcount, refmx, objmx, op, h, dst, src>>

\* Fault variant: operator= keeps the new handle but destroys it as the
\* temporary, instead of the old one it swapped out.
IncWriteDestroysNew(t) ==
  LET x == h[t] IN
  /\ pc[t] = "inc_write"
  /\ refcount' = [refcount EXCEPT ![x.cnt] = val[t] + 1]
  /\ refmx' = [refmx EXCEPT ![x.refmx] = NoOwner]
  /\ val' = [val EXCEPT ![t] = 0]
  /\ src' = [src EXCEPT ![t] = Null]
  /\ slot' = [slot EXCEPT ![dst[t]] = x]
  /\ IF op[t] = "assign"
       THEN /\ pc' = [pc EXCEPT ![t] = "dec_lock"]
            /\ op' = [op EXCEPT ![t] = "destroy"]
            /\ dst' = [dst EXCEPT ![t] = Null]
            /\ UNCHANGED h
       ELSE /\ pc' = [pc EXCEPT ![t] = "idle"]
            /\ op' = [op EXCEPT ![t] = "none"]
            /\ h' = [h EXCEPT ![t] = Empty]
            /\ dst' = [dst EXCEPT ![t] = Null]
  /\ UNCHANGED <<alloc, deleted, objmx>>

\* ++*__ref_count: the store, then __ref_mutex->unlock().  The
\* constructor returns: a copy stores the handle into its slot; the
\* temporary of operator= is swapped with *this and then destroyed.
IncWrite(t) ==
  LET x == h[t] IN
  /\ pc[t] = "inc_write"
  /\ refcount' = [refcount EXCEPT ![x.cnt] = val[t] + 1]
  /\ refmx' = [refmx EXCEPT ![x.refmx] = NoOwner]
  /\ val' = [val EXCEPT ![t] = 0]
  /\ src' = [src EXCEPT ![t] = Null]
  /\ slot' = [slot EXCEPT ![dst[t]] = x]
  /\ IF op[t] = "assign" /\ HasCount(slot[dst[t]])
       THEN /\ pc' = [pc EXCEPT ![t] = "dec_lock"]
            /\ op' = [op EXCEPT ![t] = "destroy"]
            /\ h' = [h EXCEPT ![t] = slot[dst[t]]]
            /\ dst' = [dst EXCEPT ![t] = Null]
       ELSE /\ pc' = [pc EXCEPT ![t] = "idle"]
            /\ op' = [op EXCEPT ![t] = "none"]
            /\ h' = [h EXCEPT ![t] = Empty]
            /\ dst' = [dst EXCEPT ![t] = Null]
  /\ UNCHANGED <<alloc, deleted, objmx>>

-----------------------------------------------------------------------------
(* Assignment: build a temporary from the source, swap it with *this, and *)
(* destroy the temporary, which now holds what *this held before.         *)

\* operator=(const LockPtr<T> &) and operator=(const LockPtr<T_CastFrom> &):
\* the temporary is a counted copy of the source (which may be *this).
Assign(t, d, s) ==
  /\ Idle(t) /\ d \in Owned(t) /\ slot[d] # Dead /\ ~BeingRead(d)
  /\ slot[s] # Dead /\ ~Busy(s)
  /\ IF IsBound(slot[s])
       THEN /\ pc' = [pc EXCEPT ![t] = "inc_lock"]
            /\ op' = [op EXCEPT ![t] = "assign"]
            /\ h' = [h EXCEPT ![t] = slot[s]]
            /\ dst' = [dst EXCEPT ![t] = d]
            /\ src' = [src EXCEPT ![t] = s]
            /\ UNCHANGED slot
       ELSE /\ slot' = [slot EXCEPT ![d] = slot[s]]
            /\ StartDestroy(t, slot[d])
            /\ UNCHANGED src
  /\ UNCHANGED <<alloc, deleted, refcount, refmx, objmx, val>>


\* operator=(T *ptr): the temporary is LockPtr(ptr), which allocates a fresh
\* count and mutexes for a non-null ptr.
AssignRaw(t, d, p) ==
  /\ Idle(t) /\ d \in Owned(t) /\ slot[d] # Dead /\ ~BeingRead(d)
  /\ p # Null => alloc[p] = "unalloc"
  /\ IF p = Null
       THEN /\ slot' = [slot EXCEPT ![d] = Empty]
            /\ UNCHANGED <<alloc, refcount>>
       ELSE /\ slot' = [slot EXCEPT ![d] = Own(p)]
            /\ alloc' = [alloc EXCEPT ![p] = "live"]
            /\ refcount' = [refcount EXCEPT ![p] = 1]
  /\ StartDestroy(t, slot[d])
  /\ UNCHANGED <<deleted, refmx, objmx, val, src>>

\* Fault variant: clear() drops the fields without destroying the temporary.
ClearWithoutRelease(t, d) ==
  /\ Idle(t) /\ d \in Owned(t) /\ slot[d] # Dead /\ ~BeingRead(d)
  /\ slot' = [slot EXCEPT ![d] = Empty]
  /\ UNCHANGED <<alloc, deleted, refcount, refmx, objmx, pc, op, h, val, dst, src>>

\* clear(): swap with an empty temporary and destroy it.
Clear(t, d) ==
  /\ Idle(t) /\ d \in Owned(t) /\ slot[d] # Dead /\ ~BeingRead(d)
  /\ slot' = [slot EXCEPT ![d] = Empty]
  /\ StartDestroy(t, slot[d])
  /\ UNCHANGED <<alloc, deleted, refcount, refmx, objmx, val, src>>

\* swap(other): exchange the four fields, no lock, no count.
Swap(t, a, b) ==
  /\ Idle(t) /\ {a, b} \subseteq Owned(t) /\ a # b
  /\ slot[a] # Dead /\ slot[b] # Dead /\ ~BeingRead(a) /\ ~BeingRead(b)
  /\ slot' = [slot EXCEPT ![a] = slot[b], ![b] = slot[a]]
  /\ UNCHANGED <<alloc, deleted, refcount, refmx, objmx, pc, op, h, val, dst, src>>

-----------------------------------------------------------------------------
(* ~LockPtr(): lock(); --*__ref_count; on zero delete the referent, the   *)
(* count and both mutexes (the reference mutex while it is still locked); *)
(* otherwise unlock().                                                     *)

\* The handle's lifetime ends when its destructor is entered.
Destroy(t, s) ==
  /\ Idle(t) /\ s \in Owned(t) /\ slot[s] # Dead /\ ~BeingRead(s)
  /\ slot' = [slot EXCEPT ![s] = Dead]
  /\ StartDestroy(t, slot[s])
  /\ UNCHANGED <<alloc, deleted, refcount, refmx, objmx, val, src>>

DecLock(t) ==
  /\ pc[t] = "dec_lock" /\ refmx[h[t].refmx] = NoOwner
  /\ refmx' = [refmx EXCEPT ![h[t].refmx] = t]
  /\ pc' = [pc EXCEPT ![t] = "dec_read"]
  /\ UNCHANGED <<slot, alloc, deleted, refcount, objmx, op, h, val, dst, src>>

DecRead(t) ==
  /\ pc[t] = "dec_read"
  /\ val' = [val EXCEPT ![t] = refcount[h[t].cnt]]
  /\ pc' = [pc EXCEPT ![t] = "dec_write"]
  /\ UNCHANGED <<slot, alloc, deleted, refcount, refmx, objmx, op, h, dst, src>>

\* Fault variant: the non-zero branch of ~LockPtr() misses __ref_mutex->unlock().
DecWriteNoUnlock(t) ==
  LET x == h[t]
      n == val[t] - 1
  IN
  /\ pc[t] = "dec_write"
  /\ refcount' = [refcount EXCEPT ![x.cnt] = n]
  /\ IF n = 0
       THEN /\ deleted' = IF x.obj # Null
                            THEN [deleted EXCEPT ![x.obj] = @ + 1]
                            ELSE deleted
            /\ alloc' = [o \in Objs |->
                           IF o \in {x.cnt, x.refmx, x.objmx} THEN "freed"
                           ELSE alloc[o]]
       ELSE UNCHANGED <<deleted, alloc>>
  /\ val' = [val EXCEPT ![t] = 0]
  /\ Finish(t)
  /\ UNCHANGED <<slot, objmx, refmx>>

\* The store of --*__ref_count and the `*__ref_count == 0` test on it.
DecWrite(t) ==
  LET x == h[t]
      n == val[t] - 1
  IN
  /\ pc[t] = "dec_write"
  /\ refcount' = [refcount EXCEPT ![x.cnt] = n]
  /\ IF n = 0
       THEN /\ deleted' = IF x.obj # Null
                            THEN [deleted EXCEPT ![x.obj] = @ + 1]
                            ELSE deleted
            /\ alloc' = [o \in Objs |->
                           IF o \in {x.cnt, x.refmx, x.objmx} THEN "freed"
                           ELSE alloc[o]]
            /\ UNCHANGED refmx
       ELSE /\ refmx' = [refmx EXCEPT ![x.refmx] = NoOwner]
            /\ UNCHANGED <<deleted, alloc>>
  /\ val' = [val EXCEPT ![t] = 0]
  /\ Finish(t)
  /\ UNCHANGED <<slot, objmx>>

-----------------------------------------------------------------------------
(* The object mutex: lock(), try_lock() and unlock() forward to           *)
(* *__obj_mutex; LockPtr itself never takes it.  Callers are assumed to    *)
(* hold at most one object lock and to unlock only a lock they hold.      *)

\* lock(): blocks until the object mutex is free.
ObjLock(t, s) ==
  /\ Idle(t) /\ s \in Owned(t) /\ slot[s] # Dead /\ slot[s].objmx # Null
  /\ ~HoldsObjLock(t)
  /\ pc' = [pc EXCEPT ![t] = "obj_lock"]
  /\ h' = [h EXCEPT ![t] = slot[s]]
  /\ UNCHANGED <<slot, alloc, deleted, refcount, refmx, objmx, op, val, dst, src>>

ObjLockAcquire(t) ==
  /\ pc[t] = "obj_lock" /\ objmx[h[t].objmx] = NoOwner
  /\ objmx' = [objmx EXCEPT ![h[t].objmx] = t]
  /\ Finish(t)
  /\ UNCHANGED <<slot, alloc, deleted, refcount, refmx, val>>

\* try_lock(): takes a free object mutex; on a held one it returns false
\* and changes nothing, which is a stuttering step.
ObjTryLock(t, s) ==
  /\ Idle(t) /\ s \in Owned(t) /\ slot[s] # Dead /\ slot[s].objmx # Null
  /\ ~HoldsObjLock(t) /\ objmx[slot[s].objmx] = NoOwner
  /\ objmx' = [objmx EXCEPT ![slot[s].objmx] = t]
  /\ UNCHANGED <<slot, alloc, deleted, refcount, refmx, pc, op, h, val, dst, src>>

ObjUnlock(t, s) ==
  /\ Idle(t) /\ s \in Owned(t) /\ slot[s] # Dead /\ slot[s].objmx # Null
  /\ objmx[slot[s].objmx] = t
  /\ objmx' = [objmx EXCEPT ![slot[s].objmx] = NoOwner]
  /\ UNCHANGED <<slot, alloc, deleted, refcount, refmx, pc, op, h, val, dst, src>>

-----------------------------------------------------------------------------
Call(t) ==
  \/ \E s \in Slots : ConstructEmpty(t, s) \/ Destroy(t, s) \/ Clear(t, s)
                      \/ ObjLock(t, s) \/ ObjTryLock(t, s) \/ ObjUnlock(t, s)
  \/ \E s \in Slots, p \in Ptr : ConstructOwning(t, s, p) \/ AssignRaw(t, s, p)
  \/ \E d, s \in Slots : CopyConstruct(t, d, s) \/ Assign(t, d, s) \/ Swap(t, d, s)

Step(t) ==
  \/ IncLock(t) \/ IncRead(t) \/ IncWrite(t)
  \/ DecLock(t) \/ DecRead(t) \/ DecWrite(t)
  \/ ObjLockAcquire(t)

Next == \E t \in Threads : Call(t) \/ Step(t)

\* A thread that is inside a LockPtr call and able to run is eventually
\* scheduled; nothing obliges a thread to make a new call.
Fairness == \A t \in Threads : WF_vars(Step(t))

Spec == Init /\ [][Next]_vars /\ Fairness


-----------------------------------------------------------------------------
(* Properties.                                                             *)

InFlight == {"inc_lock", "inc_read", "inc_write", "dec_lock", "dec_read", "dec_write"}
Decrementing(t) == pc[t] \in {"dec_lock", "dec_read", "dec_write"}
Fields(x) == {x.obj, x.objmx, x.cnt, x.refmx} \ {Null}

TypeOK ==
  /\ slot \in [Slots -> Handle \cup {Dead}]
  /\ alloc \in [Objs -> {"unalloc", "live", "freed"}]
  /\ deleted \in [Objs -> Nat]
  /\ refcount \in [Objs -> Nat]
  /\ refmx \in [Objs -> Threads \cup {NoOwner}]
  /\ objmx \in [Objs -> Threads \cup {NoOwner}]
  /\ pc \in [Threads -> InFlight \cup {"idle", "obj_lock"}]
  /\ op \in [Threads -> {"none", "copy", "assign", "destroy"}]
  /\ h \in [Threads -> Handle]
  /\ val \in [Threads -> Nat]
  /\ dst \in [Threads -> Slots \cup {Null}]
  /\ src \in [Threads -> Slots \cup {Null}]

\* The handles that own one unit of o's count: the constructed LockPtrs
\* bound to it, and the ones whose destructor has not yet decremented.
Holders(o) ==
  Cardinality({s \in Slots : slot[s] # Dead /\ slot[s].cnt = o})
  + Cardinality({t \in Threads : Decrementing(t) /\ h[t].cnt = o})

\* I3 and no leak: while o's count is allocated it equals the number of
\* LockPtrs that own a unit of it, and that number is positive; so the
\* increments of concurrent copies and the decrements of concurrent
\* destructors are never lost and the last one frees o.
RefCountAccurate ==
  \A o \in Objs : alloc[o] = "live" => refcount[o] = Holders(o) /\ Holders(o) > 0

\* No use after free: no constructed LockPtr, and no constructor,
\* destructor or lock() in progress, points at a freed referent, count or
\* mutex; the referent is deleted exactly once, when its count is freed.
NoUseAfterFree ==
  /\ \A s \in Slots : slot[s] # Dead => \A o \in Fields(slot[s]) : alloc[o] = "live"
  /\ \A t \in Threads : pc[t] # "idle" => \A o \in Fields(h[t]) : alloc[o] = "live"
  /\ \A o \in Objs : deleted[o] = IF alloc[o] = "freed" THEN 1 ELSE 0

\* The reference-count mutex is held only for the few steps of ++ or --:
\* a thread that takes it on a live count eventually releases it or frees
\* it with the count.
RefMutexReleased ==
  \A o \in Objs, t \in Threads :
    (refmx[o] = t /\ alloc[o] = "live") ~> (refmx[o] # t \/ alloc[o] = "freed")

\* Spec 5 leaves open unlock-then-free or free-while-held, but asks that the
\* reference-count mutex is never freed in an acquired state without a
\* chosen policy; a held mutex is never deleted.  ~LockPtr() deletes
\* __ref_mutex without unlock(), undefined behaviour for a POSIX mutex.
RefMutexUnlockedWhenFreed ==
  \A o \in Objs : alloc[o] = "freed" => refmx[o] = NoOwner

\* Deallocating the object mutex with the last LockPtr never destroys a
\* mutex some thread still holds through lock() or try_lock().
ObjMutexUnlockedWhenFreed ==
  \A o \in Objs : alloc[o] = "freed" => objmx[o] = NoOwner


-----------------------------------------------------------------------------
(* Refinement: a handle names the referent in its __cpp_object field, and  *)
(* the referent's lifetime is that of its count and mutexes.  Every call  *)
(* is then one step of LockPtrAbstract: the store that ends a counted     *)
(* constructor is Share, the decrement to zero is Delete, and the lock,   *)
(* load and unlock steps are stuttering.                                  *)

AbsOwner == [s \in Slots |-> IF slot[s] = Dead THEN Dead ELSE slot[s].obj]

Abs == INSTANCE LockPtrAbstract WITH owner <- AbsOwner, state <- alloc

\* LockPtr implements shared ownership: a referent is deleted only when no
\* LockPtr names it, exactly once, and always once none does.
ImplementsSharedOwnership == Abs!ASpec

=============================================================================
