\* The caveat of thread_safe_store.go:27 against the assignment in place.
SPECIFICATION MCSpec
CONSTANTS
  h1 = h1  h2 = h2  h0 = h0  i1 = i1  i2 = i2
  Handlers = {h1, h2, h0}
  Ask <- MCAsk
  Images = {i1, i2}
  Others = {4}
  First <- MCFirst
  MaxTries = 2
  MaxVersion = 3
INVARIANT CacheIsUnmodified
