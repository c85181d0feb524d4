\* A request whose handler may hang, and whose reply cannot be encoded, one
\* that is handled, one of no route and one that is malformed; a source; two
\* breaks of the link.
SPECIFICATION MCFairSpec
CONSTANTS
  b = b  n = n  u = u  m = m  s1 = s1
  Requests = {b, n, u, m}
  Sources = {s1}
  Kind <- MCKind
  Unencodable <- MCUnencodable
  NoItem = NoItem
  MaxConn = 3
  MaxEvents = 1
INVARIANTS TypeOK TransportInv ExactlyOnePlace LossNeedsBrokenLink
PROPERTIES Reconnects ImplementsRequestReply
ACTION_CONSTRAINT InOrder
