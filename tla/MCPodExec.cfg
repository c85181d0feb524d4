\* Two terminals, in one session or in two, and two inputs to the first
\* session, one of them with a resize; any of them may have no text.
SPECIFICATION MCFairSpec
CONSTANTS
  p1 = p1  p2 = p2  i1 = i1  i2 = i2  a = a  b = b
  Processes = {p1, p2}
  Sessions <- MCSessions
  SessionOf <- MCSessionOf
  Inputs = {i1, i2}
  Resizes = {i1}
  NoProcess = NoProcess
  MaxOutput = 1
INVARIANTS TypeOK LastIsLast OnlyReuseHidesSession AtMostOneInputLost
PROPERTIES StdInIsAnswered ExecConcludes
ACTION_CONSTRAINTS FirstInA OnePrints
