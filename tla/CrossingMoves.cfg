SPECIFICATION TaxonomySpec
CONSTANTS
  TreeEdits = {x1, x2}
  MaxNode = 2
  MaxAtStart = 2
  MaxDepth = 3
  Top = Top
CHECK_DEADLOCK FALSE
INVARIANT NoCircle
