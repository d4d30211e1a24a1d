----------------------------- MODULE MC_LockPtr -----------------------------
(* Two threads with two LockPtr objects each and two heap objects.        *)
EXTENDS LockPtr

MC_SlotOwner == [s \in Slots |-> IF s \in {"s1", "s2"} THEN "t1" ELSE "t2"]
=============================================================================
