\* Two owners, three overlapping writes of one flag.
CONSTANTS
  Approvers = {u1, u2}
  FlagCalls = {c1, c2, c3}
  FlagValues = {v1, v2}
  NoValue = null
SPECIFICATION FlagsSpec
INVARIANT FlagByTwo
CHECK_DEADLOCK FALSE
