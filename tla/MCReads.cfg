\* Pairs of those who wait: reads, an export, fetches, a prime.
SPECIFICATION MCSpec
CONSTANTS
  r1 = r1
  r2 = r2
  e1 = e1
  f1 = f1
  f2 = f2
  p1 = p1
  Readers = {r1, r2}
  Exporters = {e1}
  Fetchers = {f1, f2}
  Primers = {p1}
  Companies <- Small
  Flaky <- Unsteady
  NoTable = NoTable
INVARIANT ReadIsWhole
PROPERTIES TimeoutIsHonest FetchReturns
CHECK_DEADLOCK FALSE
