\* Two requests overlap, over one interaction request at a time.
CONSTANTS
  Requests = {r1, r2}
  MaxInterviews = 2
  Types = {"ExchangeContact", "RespondInterviewInvitation", "RespondOffer"}
  MaxAsks = 1
SPECIFICATION ISpec
\* A hired or rejected application is settled.
CHECK_DEADLOCK FALSE
SYMMETRY MCSymmetry
INVARIANTS
  TypeOK
  ChatTypeOK
  StagesAreConsented
  AcceptancesAreApplied
  AnswersArePosted
