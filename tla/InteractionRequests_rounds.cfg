\* One request at a time: several applications, invitations and answers.
CONSTANTS
  Requests = {r1}
  MaxInterviews = 3
  Types = {"ExchangeContact", "RespondInterviewInvitation", "RespondOffer"}
  MaxAsks = 2
SPECIFICATION ISpec
\* A hired or rejected application is settled.
CHECK_DEADLOCK FALSE
INVARIANTS
  OnePendingInvitation
  StageHasItsRows
  HiredHasAcceptedOffer
PROPERTIES
  FollowsDocumentedFlow
  AcceptedOfferStays
  AnswerIsFinal
