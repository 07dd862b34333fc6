\* Two jobs and two overlapping requests share three units of two assets.
CONSTANTS
  fullTime = fullTime
  partTime = partTime
  fullTimePosting = fullTimePosting
  posting = posting
  Preferred <- MCPreferred
  General = posting
  Supply <- MCSupply
  Types = {fullTime, partTime}
  Jobs = {j1, j2}
  Requests = {r1, r2}
SPECIFICATION Spec
\* A company whose jobs are all deleted has nothing left to do.
CHECK_DEADLOCK FALSE
SYMMETRY MCSymmetry
INVARIANTS
  TypeOK
  ConsumptionsAreNumbered
  ConsumptionsExplainBalance
PROPERTIES
  PublicationsAreCharged
