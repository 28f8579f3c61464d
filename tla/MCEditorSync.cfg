\* Of an activity and of a device: two edits, two syncs, one trouble; the user
\* may stop at any time.
SPECIFICATION MCSpec
CONSTANTS
  c1 = c1  c2 = c2  n1 = n1  n2 = n2  none = none  some = some  ok = ok
  Commands = {c1, c2}
  Names = {n1, n2}
  Scripts = {none, some}
  Empty = none
  Buttons = {ok}
  Bases <- MCBases
  MaxKey = 4
  MaxEdits = 2
  MaxSyncs = 2
  MaxTrouble = 1
  Starts <- MCStarts
  MaxId = 3
INVARIANTS SyncedAsEdited NothingElseLost DeviceAsEdited BrowseKept
PROPERTIES PayloadsSurvive
CHECK_DEADLOCK FALSE
