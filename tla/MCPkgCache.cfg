CONSTANTS
  a = a
  b = b
  c = c
  Pkg = {a, b, c}
  Sources = 1
  List <- OneList
  Linkable = TRUE
  MaxVersion = 2
  MaxDay = 1
  MaxConnects = 1
  MaxQueries = 1
  MaxDeaths = 1
SPECIFICATION Spec
INVARIANTS
  CacheInv
PROPERTIES
  RowsStay
  TableCatchesUp
