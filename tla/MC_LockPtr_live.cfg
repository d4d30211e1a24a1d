CONSTANTS
  Threads = {"t1", "t2"}
  Slots = {"s1", "s2", "s3"}
  SlotOwner <- MC_SlotOwner
  Objs = {o1, o2}
  Null = Null
  Dead = Dead
  NoOwner = NoOwner
  SourceMayBeReleased = FALSE
SPECIFICATION Spec
PROPERTY RefMutexReleased
PROPERTY ImplementsSharedOwnership
