\* TagVision whose model may lack the tag_vision link.
CONSTANTS
  Names <- MC_Names
  InitialModels <- MC_InitialModels
  SearchInterval = 3
  SendInterval = 2
  LinkPresent = {TRUE, FALSE}
  MaxBack = 5
  MaxResets = 0
SPECIFICATION Spec
INVARIANT NoNullLinkDeref
