CONSTANTS
  t1 = t1
  t2 = t2
  Free = Free
  Threads = {t1, t2}
  Programs <- MCPrograms
  MaxOps = 3
  MaxLate = 1
SPECIFICATION Spec
SYMMETRY MCSymmetry
CHECK_DEADLOCK FALSE
INVARIANTS AckIsOwn TimeoutMeansSilence CreatedIsOwn 
