SPECIFICATION SerialSpec
CONSTANTS
  Frame = Frame
  Callers = {c1}
  Writers = {w1}
  NoThread = NoThread
  Activities = Activities
  Devices = Devices
  Tables = {macros}
  RowTables = {macros}
  Plain = Plain
  Xchg = Xchg
  NoKind = NoKind
  MaxRequests = 2
  MaxTries = 1
  MaxDepth = 1
  MaxFlaps = 1
INVARIANTS
  EachRequestInOnePlace
  MarkHasHolder
  SentInOrder
  QuietWire
PROPERTIES
  ExchangeKeepsWire
CHECK_DEADLOCK FALSE
