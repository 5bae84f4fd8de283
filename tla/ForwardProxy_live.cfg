\* One client that sends beside one that is silent, under fairness.
SPECIFICATION FairSpec
CONSTANTS
  Conns = {c1, c2}
  Requests <- MCShortRequests
  Names <- MCNames
  Connection = "connection"
  Blank = ""
  Values = {v}
  v = v
  talker = c1
  Text = Text
  Junk = Junk
  Units <- MCShortUnits
  NoRequest = NoRequest
  BufSize = 1
  MaxWire <- MCOneTalks
PROPERTIES
  GoneClientIsReleased
  EveryRequestServed
  BacklogIsServed
CHECK_DEADLOCK FALSE
