SPECIFICATION Spec
CONSTANTS
  i1 = i1
  i2 = i2
  i3 = i3
  a = a
  b = b
  long = long
  Root = Root
  NoItem = NoItem
  Overlap = TRUE
  NoName = NoName
  Item = {Root, i1, i2, i3}
  Name = {a, b}
  LongName = {}
  MknodType = {"REG"}
  Char = {a, b, long}
  Spelling <- TwoOrThree
  PATH_LEN_MAX = 9
  FILE_NAME_MAX = 2
  MAX_FILES = 3
  MaxPath = 3
SYMMETRY Symmetry
PROPERTY ImplementsNamespace
CHECK_DEADLOCK FALSE
