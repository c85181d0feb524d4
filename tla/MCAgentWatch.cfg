\* A server that opens, closes and lists, one informer whose cache holds an
\* object at the start and changes once, and one break of the link.
SPECIFICATION MCSpec
CONSTANTS
  o = o  c = c  l = l  x = x  p = p
  Requests = {o, c, l}
  Sources = {p}
  Kind <- MCKind
  Want <- MCWant
  Topic <- MCTopic
  Unencodable = {}
  NoItem = NoItem
  MaxConn = 2
  MaxEvents = 2
  Preloaded = 1
INVARIANTS WatchTypeOK ListedSessionIsFed
PROPERTY ImplementsWatchResource
