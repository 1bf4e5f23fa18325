SPECIFICATION BothSpec
CONSTANTS
  anna = anna  ivan = ivan  konstantin = konstantin
  n1 = n1  n2 = n2  n3 = n3  n4 = n4  n5 = n5
  Blank = Blank
  NULL = NULL
  Names <- MCNames
  TenLong <- MCTenLong
  Nodes <- MCNodes
  MAX_LEN = 5
  ListMax = 4
SYMMETRY Symmetry
INVARIANTS EnteredIsFound
