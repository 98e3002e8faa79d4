SPECIFICATION Spec
CONSTANTS
  x = x
  y = y
  Byte = {x, y}
  Garbage = Garbage
  MaxSize = 5
  MaxCount = 3
  Word = 256
SYMMETRY Symmetry
INVARIANTS
  TypeOK
  FitsBuffer
  NoGarbage
PROPERTIES
  NoStaleBytes
  ImplementsByteFile
