\* Two bridges of one config entry, one executor thread, two CALL_MEs.
SPECIFICATION Spec
CONSTANTS
  Bridges = {1, 2}
  Admins = {a1}
  Calls = {c1, c2}
  None = None
  MaxAsked = 3
INVARIANTS FoundAgain HiddenWhenOff ToldIsTrue
PROPERTY SessionsOutliveTheSwitch
CHECK_DEADLOCK FALSE
SYMMETRY Symmetry
