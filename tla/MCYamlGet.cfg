\* Two GETs as YAML, one UpdateObj and one plain encoding of two versions.
SPECIFICATION MCSpec
CONSTANTS
  y1 = y1  y2 = y2  u = u  g = g
  Yamls = {y1, y2, u}
  Updates = {u}
  Plains = {g}
  MaxVersion = 2
INVARIANTS TypeOK LoneYamlIsRight OnlyRivalsLeaveTraces
