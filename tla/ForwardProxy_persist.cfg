\* The refusal of a connection that is not persistent.
SPECIFICATION FairSpec
CONSTANTS
  Conns = {c1}
  Requests <- MCRequests
  Names <- MCNames
  Connection = "connection"
  Blank = ""
  Values = {v}
  v = v
  talker = c1
  Text = Text
  Junk = Junk
  Units <- MCUnits
  NoRequest = NoRequest
  BufSize = 1
  MaxWire <- MCWire2
PROPERTIES
  NonPersistentEnds
CHECK_DEADLOCK FALSE
