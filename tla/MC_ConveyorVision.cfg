\* ConveyorVision: 3 world models, any combination of links, one world reset
\* taking back up to 3 steps, set-conveyor messages of +-10 mm.
CONSTANTS
  Models <- MC_Models
  LinksPresent <- MC_LinksPresent
  Interval = 2
  Data <- MC_Data
  MaxOffset = 10
  MaxBack = 3
  MaxResets = 1
SPECIFICATION Spec
INVARIANT ResultsKeepComing
PROPERTY ResultEventually
PROPERTY SendThrottled
