\* Three overlapping requests over three days.
CONSTANTS
  Requests = {r1, r2, r3}
  MaxDay = 3
  MaxBalance = 2
SPECIFICATION Spec
SYMMETRY MCSymmetry
INVARIANTS
  TypeOK
  PromiseIsKept
  SummaryIsTrue
  PaidOnlyAfterFree
