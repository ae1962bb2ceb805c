SPECIFICATION PureSpec

CONSTANTS
  Configurations <- SmallAndShipped
  Column = {"id", "content", "stamp", "version"}
  Key = {"id"}
  Generated = {"stamp"}
  VersionColumn = "version"
  Plain = {"one", "two"}
  Binary = {"bytes"}
  Hex <- HexText
  Null = "null"

INVARIANTS
  VerdictIsRight
  ShippedIsRunnable
  CopyFollowsRow

CHECK_DEADLOCK FALSE
