\* Two requests overlap.
CONSTANTS
  Requests = {r1, r2}
  MaxInterviews = 2
SPECIFICATION Spec
\* A hired or rejected application is settled.
CHECK_DEADLOCK FALSE
PROPERTIES
  FollowsDocumentedFlow
