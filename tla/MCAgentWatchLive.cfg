\* A server that opens and lists and sends no JSON once, one informer that
\* changes twice (the second event cannot be encoded), two breaks of the link.
SPECIFICATION MCFairSpec
CONSTANTS
  o = o  c = c  l = l  x = x  p = p
  Requests = {o, l, x}
  Sources = {p}
  Kind <- MCKind
  Want <- MCWant
  Topic <- MCTopic
  Unencodable <- MCUnencodable
  NoItem = NoItem
  MaxConn = 3
  MaxEvents = 2
  Preloaded = 0
PROPERTIES WritesGoToCurrentConn WatcherCatchesUp
