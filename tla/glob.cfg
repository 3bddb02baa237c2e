SPECIFICATION Spec
CONSTANTS
  Characters = {"a", "b"}
  Star = "*"
  Any = "?"
  Unknown = Unknown
  MaxPattern = 4
  MaxText = 4
CHECK_DEADLOCK FALSE
INVARIANT DepthIsBounded
INVARIANT WorkIsBounded
INVARIANT MatchIsRight
PROPERTY Terminates
