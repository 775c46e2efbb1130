\* -k and --strip-packages-from-results with a slot that was never filled.
SPECIFICATION Spec
CONSTANTS
  Nil = Nil
  MaxNodes = 2
  MaxResults = 1
  Option <- StripKeepGoing
  Kind <- TwoKinds
INVARIANTS KeepGoingSurvives
