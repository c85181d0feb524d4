\* Two handlers that ask for different replicas and one that asks for none,
\* two attempts each, other clients that change the image and the replicas.
SPECIFICATION MCSpec
CONSTANTS
  h1 = h1  h2 = h2  h0 = h0  i1 = i1  i2 = i2
  Handlers = {h1, h2, h0}
  Ask <- MCAsk
  Images = {i1, i2}
  Others = {4}
  First <- MCFirst
  MaxTries = 2
  MaxVersion = 4
INVARIANTS TypeOK OthersAreKept SuccessStoresTheValue
