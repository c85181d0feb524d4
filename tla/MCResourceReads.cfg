\* Every resource in turn: a list, and a get of what it has shown.
SPECIFICATION Spec
CONSTANTS
  a = a  b = b  l = l  g = g
  Resources <- AllResources
  Objects = {a, b}
  InLast = {b}
  Home <- MCHome
  NameOf <- MCNameOf
  Substrings <- MCSubstrings
  Extra <- MCExtra
  Queries <- MCQueries
  Blank = Blank  Invalid = Invalid  None = None
  Lists = {l}  Gets = {g}
  MaxWrites = 1
INVARIANTS TypeOK ListIsOfItsTime ListedCanBeGot LongLivedIsFound
