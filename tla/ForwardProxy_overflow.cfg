\* A body longer than the buffer in the tunnel.
SPECIFICATION Spec
CONSTANTS
  Conns = {c1}
  Requests <- MCRequests
  Names <- MCNames
  Connection = "connection"
  Blank = ""
  Values = {v}
  v = v
  talker = c1
  Text = Text
  Junk = Junk
  Units <- MCUnits
  NoRequest = NoRequest
  BufSize = 1
  MaxWire <- MCWire5
INVARIANTS
  OnlyRequestsRelayed
CHECK_DEADLOCK FALSE
