\* A Connection value with an empty element.
SPECIFICATION Spec
CONSTANTS
  Names <- MCNames
  Connection = "connection"
  Blank = ""
  Values = {v, w}
  v = v
  w = w
  Inputs <- MCInputs
INVARIANTS
  OptionsFollowGrammar
CHECK_DEADLOCK FALSE
