\* Two answers overlap.
CONSTANTS
  Requests = {r1, r2}
  MaxInterviews = 1
  Types = {"ExchangeContact"}
  MaxAsks = 1
SPECIFICATION ISpec
\* A hired or rejected application is settled.
CHECK_DEADLOCK FALSE
INVARIANTS
  ToldOnce
