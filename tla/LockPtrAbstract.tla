--------------------------- MODULE LockPtrAbstract ---------------------------
(***************************************************************************)
(* What LockPtr promises, with every call atomic and no count: each handle *)
(* object names a referent or none; a referent is deleted only when no     *)
(* handle names it, exactly once, and eventually once none does.           *)
(***************************************************************************)
CONSTANTS Slots, Objs, Null, Dead

VARIABLES owner, state   \* owner[s]: the referent handle s names; state[o]: its lifetime

avars == <<owner, state>>

Named == {owner[s] : s \in Slots}
Orphan(o) == state[o] = "live" /\ o \notin Named

AInit ==
  /\ owner = [s \in Slots |-> Dead]
  /\ state = [o \in Objs |-> "unalloc"]

\* A handle starts naming nothing or a freshly allocated referent
\* (construction, assignment from a raw pointer, clear()).
Make(s, p) ==
  /\ p # Null => state[p] = "unalloc"
  /\ owner' = [owner EXCEPT ![s] = p]
  /\ state' = IF p = Null THEN state ELSE [state EXCEPT ![p] = "live"]

\* A handle starts naming a referent another handle names (copy, assignment).
Share(d, o) ==
  /\ o \in Named \cap Objs
  /\ owner' = [owner EXCEPT ![d] = o]
  /\ UNCHANGED state

Drop(s) ==
  /\ owner[s] # Dead
  /\ owner' = [owner EXCEPT ![s] = Dead]
  /\ UNCHANGED state

Exchange(a, b) ==
  /\ owner' = [owner EXCEPT ![a] = owner[b], ![b] = owner[a]]
  /\ UNCHANGED state

Delete(o) ==
  /\ Orphan(o)
  /\ state' = [state EXCEPT ![o] = "freed"]
  /\ UNCHANGED owner

ANext ==
  \/ \E s \in Slots, p \in Objs \cup {Null} : Make(s, p)
  \/ \E d \in Slots, o \in Objs : Share(d, o)
  \/ \E s \in Slots : Drop(s)
  \/ \E a, b \in Slots : Exchange(a, b)
  \/ \E o \in Objs : Delete(o)

ASpec == AInit /\ [][ANext]_avars /\ \A o \in Objs : WF_avars(Delete(o))
=============================================================================
