\* Every input of MCInputs.
SPECIFICATION Spec
CONSTANTS
  Names <- MCNames
  Connection = "connection"
  Blank = ""
  Values = {v, w}
  v = v
  w = w
  Inputs <- MCInputs
INVARIANTS
  InComputed
  OutComputed
  NothingLost
  RelayedIsEndToEnd
CHECK_DEADLOCK FALSE
