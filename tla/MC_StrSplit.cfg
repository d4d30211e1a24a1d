CONSTANTS
  Chars = {"a", "b", "/"}
  Delim = "/"
  MaxLen = 5
  Words <- MC_Words
  MaxItems = 3
  Seps <- MC_Seps
SPECIFICATION Spec
INVARIANT SplitIsFields
INVARIANT JoinSplitRoundTrip
\* str_split returns: the run ends in phase "done".
CHECK_DEADLOCK FALSE
