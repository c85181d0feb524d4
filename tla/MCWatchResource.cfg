\* Two watched resources, a delta already cached and two to come for each;
\* two opens, a close and an invalid request.
SPECIFICATION MCSpec
CONSTANTS
  o1 = o1  o2 = o2  c1 = c1  bad = bad  k1 = k1  k2 = k2
  Resources = {k1, k2}
  Actions = {o1, o2, c1, bad}
  Want <- MCWant
  Preloaded = 1
  MaxDeltas = 2
INVARIANTS TypeOK EventsInOrder AtMostOneLateEvent ListThenEventsIsComplete OrderlyServerDecides
