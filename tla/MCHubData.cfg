\* Two edits of one activity, of two threads, and one trouble; three reads of
\* two entities, whose tables are edited once, and one break.
SPECIFICATION MCSpec
CONSTANTS
  a1 = a1
  d1 = d1
  d2 = d2
  t1 = t1
  t2 = t2
  Acts = {a1}
  Devs = {d1, d2}
  Threads = {t1, t2}
  Versions = {"X1", "X1S"}
  FavIds = {1, 2}
  Starts <- MCStarts
  MaxEdits = 2
  MaxTrouble = 1
  e1 = e1
  e2 = e2
  Entities = {e1, e2}
  MaxVersion = 2
  MaxReads = 3
  MaxBreaks = 1
SYMMETRY MCSymmetry
CHECK_DEADLOCK FALSE
INVARIANTS TableIsWhole CacheFollowsWrites
PROPERTIES MembersKept ShownIsKept
