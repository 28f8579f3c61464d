SPECIFICATION FairSerialSpec
CONSTANTS
  Frame = Frame
  Callers = {c1}
  Writers = {w1}
  NoThread = NoThread
  Activities = Activities
  Devices = Devices
  Tables = {macros}
  RowTables = {macros}
  Plain = Plain
  Xchg = Xchg
  NoKind = NoKind
  MaxRequests = 2
  MaxTries = 2
  MaxDepth = 2
  MaxFlaps = 0
PROPERTIES
  DeferredLeaves
CHECK_DEADLOCK FALSE
