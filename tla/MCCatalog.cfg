\* One change, three requests, one flap: see the README for the bounds.
SPECIFICATION Spec
CONSTANTS
  Sizes = {0, 2}
  MaxChanges = 1
  MaxCalls = 3
  MaxFlaps = 1
INVARIANTS
  SnapshotIsWhole
  Fresh
CHECK_DEADLOCK FALSE
