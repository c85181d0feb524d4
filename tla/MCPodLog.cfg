\* Two logs that reuse a session id, one of its own, and a close of the first id.
SPECIFICATION MCSpec
CONSTANTS
  l1 = l1  l2 = l2  l3 = l3  c1 = c1  c2 = c2  a = a  b = b
  Logs = {l1, l2, l3}
  Closes = {c1}
  Sessions <- MCSessions
  SessionOf <- MCSessionOf
  NoLog = NoLog
  MaxChunks = 2
INVARIANTS TypeOK AtMostOneLateChunk
PROPERTIES CloseEndsTheLog CloseAfterChunkWorks
ACTION_CONSTRAINTS OneBreaks OneChunk
