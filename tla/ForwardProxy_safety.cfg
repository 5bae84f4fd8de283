\* One client, pipelining up to five tokens.
SPECIFICATION Spec
CONSTANTS
  Conns = {c1}
  Requests <- MCRequests
  Names <- MCNames
  Connection = "connection"
  Blank = ""
  Values = {v}
  v = v
  talker = c1
  Text = Text
  Junk = Junk
  Units <- MCUnits
  NoRequest = NoRequest
  BufSize = 1
  MaxWire <- MCWire5
INVARIANTS
  TypeOK
  RepliesInOrder
  FinalReplyIsLast
  UpstreamOnlyAfterOk
  RemoteOnlyForTunnel
  UpstreamInOrder
  HopByHopStripped
PROPERTIES
  ServiceKept
  HandlerAdvances
CHECK_DEADLOCK FALSE
