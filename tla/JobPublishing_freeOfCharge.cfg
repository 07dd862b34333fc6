\* One job, one request at a time.
CONSTANTS
  fullTime = fullTime
  partTime = partTime
  fullTimePosting = fullTimePosting
  posting = posting
  Preferred <- MCPreferred
  General = posting
  Supply <- MCSupply
  Types = {fullTime, partTime}
  Jobs = {j1}
  Requests = {r1}
SPECIFICATION Spec
\* A company whose jobs are all deleted has nothing left to do.
CHECK_DEADLOCK FALSE
INVARIANTS
  PublishedHasConsumed
