\* TagVision with its link and RCLL tag names; one world reset taking back
\* up to 5 steps of simulation time.
CONSTANTS
  Names <- MC_Names
  InitialModels <- MC_InitialModels
  SearchInterval = 3
  SendInterval = 2
  LinkPresent = {TRUE}
  MaxBack = 5
  MaxResets = 1
SPECIFICATION Spec
INVARIANT TagDiscovered
PROPERTY TagsEventuallyDiscovered
PROPERTY TimersThrottled
