SPECIFICATION Spec
CONSTANTS
  x = x
  y = y
  Byte = {x, y}
  Garbage = Garbage
  MaxSize = 4
  MaxCount = 2
  Word = 256
PROPERTY ReadsStopAtEnd
