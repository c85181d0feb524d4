\* The comment of deployment.go:181 against what the retry loop reads.
SPECIFICATION MCSpec
CONSTANTS
  h1 = h1  h2 = h2  h0 = h0  i1 = i1  i2 = i2
  Handlers = {h1, h2, h0}
  Ask <- MCAsk
  Images = {i1, i2}
  Others = {4}
  First <- MCFirst
  MaxTries = 2
  MaxVersion = 3
PROPERTY RetrievesLatest
