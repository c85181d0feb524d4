\* A delete, two updates and two applies, over two core objects and a custom one.
SPECIFICATION MCSpec
CONSTANTS
  d1 = d1  u1 = u1  u2 = u2  a1 = a1  a2 = a2  x = x  y = y  z = z
  Requests = {d1, u1, u2, a1, a2}
  Objects = {x, y, z}
  Kinds = {"core", "custom"}
  Core = {"core"}
  Garbage = Garbage
  Action <- MCAction
  Plan <- MCPlan
  KindOf <- MCKindOf
INVARIANTS TypeOK DeleteStopsAtFailure ApplyReportsEachDocument MappingIsFrozen
