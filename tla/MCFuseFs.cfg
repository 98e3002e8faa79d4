SPECIFICATION FuseSpec
CONSTANTS
  i1 = i1
  i2 = i2
  i3 = i3
  a = a
  b = b
  h1 = h1
  h2 = h2
  f1 = f1
  f2 = f2
  me = me
  Root = Root
  NoItem = NoItem
  NoName = NoName
  NoId = NoId
  Overlap = TRUE
  Mounter = me
  Item = {Root, i1, i2, i3}
  Name = {a, b, h1, h2}
  LongName = {}
  HiddenName = {h1, h2}
  MknodType = {"REG"}
  File = {f1, f2}
  Perm <- AllOrNothing
  ChownTo <- OwnerOnly
  MaxPath = 2
  MaxChanged = 1
  MaxWaiting = 2
SYMMETRY Symmetry
VIEW WithoutReply
INVARIANTS
  FuseTypeOK
  OpenFilesLive
  HiddenInUse
  RenamesFinish
PROPERTIES
  ImplementsPosixFiles
CHECK_DEADLOCK FALSE
