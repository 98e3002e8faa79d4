SPECIFICATION Spec
CONSTANTS
  v1 = v1
  v2 = v2
  v3 = v3
  Key = {0, 6, 7, 14, 15, 23}
  Value = {v1, v2, v3}
  ValuesOf <- SomeValues
  NoValue = NoValue
  Hash <- Identity
  MaxCap = 16
INVARIANTS
  TypeOK
  Reachable
  SizeCounts
  LoopsEnd
  VisitsEveryEntry
  RoundsClean
PROPERTY ImplementsKeyValue
