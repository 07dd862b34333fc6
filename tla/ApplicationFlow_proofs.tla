------------------------ MODULE ApplicationFlow_proofs ------------------------
(***************************************************************************)
(* For any number of overlapping requests: the types, that no stage is      *)
(* reached without the consents it needs, and, for each of the properties   *)
(* that stale copies break, which handlers have to take turns for it.       *)
(***************************************************************************)
EXTENDS ApplicationFlow, TLAPS

(* What a status stands for. *)
StatusConsented(s) ==
  /\ s \in {"Interviewing", "Offering", "Hired"} => "AcceptInterview" \in consents
  /\ s \in {"Offering", "Hired"} => "SendOffer" \in consents
  /\ s = "Hired" => "AcceptOffer" \in consents

(* What an offer stands for. *)
OfferConsented(o) ==
  /\ o # "Absent" => {"AcceptInterview", "SendOffer"} \subseteq consents
  /\ o = "Accepted" => "AcceptOffer" \in consents

(* A copy may be stale, but the consents behind it are never taken back; and *)
(* a request goes on only from the rows its handler asks for.                *)
CopyConsented(q) ==
  q.handler # "none" =>
    /\ q.status \in Allowed(q.handler)
    /\ StatusConsented(q.status)
    /\ OfferConsented(q.offer)
    /\ q.ready /\ q.handler \in {"AcceptOffer", "RejectOffer"} => q.offer = "Sent"
    /\ q.ready /\ q.handler = "Hire" => q.offer = "Accepted"

IInv ==
  /\ TypeOK
  /\ StatusConsented(status) /\ OfferConsented(offer)
  /\ \A r \in Requests : CopyConsented(req[r])

(* A request that loads, looks up or is abandoned changes its own copies.    *)
LEMMA CopiesReplaced ==
  ASSUME IInv, UNCHANGED rows, NEW r \in Requests, NEW q \in Request,
         CopyConsented(q), req' = [req EXCEPT ![r] = q]
  PROVE  IInv'
<1>1. TypeOK' /\ StatusConsented(status)' /\ OfferConsented(offer)'
  BY DEF IInv, TypeOK, rows, StatusConsented, OfferConsented
<1>2. ASSUME NEW p \in Requests  PROVE CopyConsented(req[p])'
  <2>1. PICK c : c = req'[p] /\ CopyConsented(c)
    BY DEF IInv, TypeOK
  <2>2. CopyConsented(c)'
    BY <2>1 DEF CopyConsented, StatusConsented, OfferConsented, rows
  <2>3. QED BY <2>1, <2>2 DEF CopyConsented, StatusConsented, OfferConsented
<1>3. QED BY <1>1, <1>2 DEF IInv

LEMMA LoadKeeps ==
  ASSUME IInv, NEW r \in Requests, NEW h \in Handlers, Load(r, h)
  PROVE  IInv'
<1>1. PICK q : q = [handler |-> h, ready |-> h \notin Reading,
                    status |-> status, interview |-> 0, offer |-> "Absent"]
  OBVIOUS
<1>2. UNCHANGED rows /\ status \in Allowed(h) /\ req' = [req EXCEPT ![r] = q]
  BY <1>1 DEF Load
<1>3. q \in Request
  BY <1>1, BoundIsNatural DEF Request, IInv, TypeOK, OfferStatus
<1>4. CopyConsented(q)
  BY <1>1, <1>2 DEF CopyConsented, IInv, OfferConsented, Reading
<1>5. QED BY <1>2, <1>3, <1>4, CopiesReplaced

LEMMA FindInvitationKeeps ==
  ASSUME IInv, NEW r \in Requests, FindInvitation(r)
  PROVE  IInv'
<1>1. PICK i \in Invitations : req' = [req EXCEPT ![r] = [@ EXCEPT !.ready = TRUE, !.interview = i]]
  BY DEF FindInvitation
<1>2. i \in 0 .. MaxInterviews
  BY BoundIsNatural DEF Invitations, IInv, TypeOK
<1>3. PICK q : q = [req[r] EXCEPT !.ready = TRUE, !.interview = i]
  OBVIOUS
<1>4. req[r] \in Request /\ CopyConsented(req[r]) /\ UNCHANGED rows
      /\ req[r].handler \in {"AcceptInterview", "RejectInterview"}
  BY DEF FindInvitation, IInv, TypeOK
<1>5. q \in Request /\ q.handler = req[r].handler /\ q.status = req[r].status /\ q.offer = req[r].offer
  BY <1>2, <1>3, <1>4 DEF Request
<1>6. CopyConsented(q)
  BY <1>4, <1>5 DEF CopyConsented
<1>7. req' = [req EXCEPT ![r] = q]
  BY <1>1, <1>3
<1>8. QED BY <1>4, <1>5, <1>6, <1>7, CopiesReplaced

LEMMA FindNoInvitationKeeps ==
  ASSUME IInv, NEW r \in Requests, FindNoInvitation(r)
  PROVE  IInv'
<1>1. req' = [req EXCEPT ![r] = [@ EXCEPT !.ready = TRUE]]
  BY DEF FindNoInvitation
<1>2. PICK q : q = [req[r] EXCEPT !.ready = TRUE]
  OBVIOUS
<1>3. req[r] \in Request /\ CopyConsented(req[r]) /\ UNCHANGED rows /\ req[r].handler = "Invite"
  BY DEF FindNoInvitation, IInv, TypeOK
<1>4. q \in Request /\ q.handler = req[r].handler /\ q.status = req[r].status /\ q.offer = req[r].offer
  BY <1>2, <1>3 DEF Request
<1>5. CopyConsented(q)
  BY <1>3, <1>4 DEF CopyConsented
<1>6. req' = [req EXCEPT ![r] = q]
  BY <1>1, <1>2
<1>7. QED BY <1>3, <1>4, <1>5, <1>6, CopiesReplaced

LEMMA FindOfferKeeps ==
  ASSUME IInv, NEW r \in Requests, FindOffer(r)
  PROVE  IInv'
<1>1. req' = [req EXCEPT ![r] = [@ EXCEPT !.ready = TRUE, !.offer = offer]]
  BY DEF FindOffer
<1>2. PICK q : q = [req[r] EXCEPT !.ready = TRUE, !.offer = offer]
  OBVIOUS
<1>3. req[r] \in Request /\ CopyConsented(req[r]) /\ UNCHANGED rows
      /\ req[r].handler \in {"SendOffer", "AcceptOffer", "RejectOffer", "Hire"}
      /\ offer \in Offers(req[r].handler) /\ offer \in OfferStatus /\ OfferConsented(offer)
  BY DEF FindOffer, IInv, TypeOK
<1>4. q \in Request /\ q.handler = req[r].handler /\ q.status = req[r].status /\ q.offer = offer
  BY <1>2, <1>3 DEF Request
<1>5. CopyConsented(q)
  BY <1>3, <1>4 DEF CopyConsented, Offers, Hirable
<1>6. req' = [req EXCEPT ![r] = q]
  BY <1>1, <1>2
<1>7. QED BY <1>3, <1>4, <1>5, <1>6, CopiesReplaced

LEMMA IdleIsFine == Idle \in Request /\ CopyConsented(Idle)
BY BoundIsNatural DEF Idle, Request, CopyConsented, Status, OfferStatus

LEMMA AbandonKeeps ==
  ASSUME IInv, NEW r \in Requests, Abandon(r)
  PROVE  IInv'
BY IdleIsFine, CopiesReplaced DEF Abandon, Done

-----------------------------------------------------------------------------
(* A request that saves and is done: consents only grow, so what the others  *)
(* hold stays backed.                                                        *)
LEMMA SaveKeeps ==
  ASSUME IInv, NEW r \in Requests, Done(r), consents \subseteq consents',
         status' \in Status, offer' \in OfferStatus, consents' \subseteq Consents,
         interviews' \in Seq(InterviewStatus), Len(interviews') <= MaxInterviews,
         StatusConsented(status)', OfferConsented(offer)'
  PROVE  IInv'
<1>1. req' = [req EXCEPT ![r] = Idle]
  BY DEF Done
<1>2. TypeOK'
  BY <1>1, IdleIsFine DEF IInv, TypeOK
<1>3. ASSUME NEW p \in Requests  PROVE CopyConsented(req[p])'
  <2>1. PICK c : c = req'[p] /\ CopyConsented(c)
    BY <1>1, IdleIsFine DEF IInv, TypeOK
  <2>2. CopyConsented(c)'
    BY <2>1 DEF CopyConsented, StatusConsented, OfferConsented
  <2>3. QED BY <2>1, <2>2 DEF CopyConsented, StatusConsented, OfferConsented
<1>4. QED BY <1>2, <1>3 DEF IInv

(* The status after a save is the stored one, or the new one. *)
LEMMA Moved ==
  ASSUME NEW r \in Requests, NEW new, MoveTo(r, new)
  PROVE  status' = status \/ status' = new
BY DEF MoveTo, Saved

(* Handlers that write nothing but a status anybody may have. *)
LEMMA PlainMoveKeeps ==
  ASSUME IInv, NEW r \in Requests, NEW new \in {"Pending", "Screening", "Withdrawn", "Rejected"},
         MoveTo(r, new), Done(r), UNCHANGED <<offer, consents>>,
         interviews' \in Seq(InterviewStatus), Len(interviews') <= MaxInterviews
  PROVE  IInv'
<1>1. status' = status \/ status' = new
  BY Moved
<1>2. status' \in Status /\ StatusConsented(status)'
  BY <1>1 DEF IInv, TypeOK, StatusConsented, Status, Open
<1>3. offer' \in OfferStatus /\ consents' \subseteq Consents /\ OfferConsented(offer)'
  BY DEF IInv, TypeOK, OfferConsented
<1>4. QED BY <1>2, <1>3, SaveKeeps

(* An interview is invited to, or its invitation answered. *)
LEMMA InterviewsTyped ==
  ASSUME IInv, NEW i, NEW s \in InterviewStatus, interviews' = [interviews EXCEPT ![i] = s]
  PROVE  interviews' \in Seq(InterviewStatus) /\ Len(interviews') <= MaxInterviews
<1>1. interviews \in Seq(InterviewStatus) /\ Len(interviews) <= MaxInterviews
  BY DEF IInv, TypeOK
<1>2. PICK n \in Nat : n = Len(interviews) /\ interviews \in [1 .. n -> InterviewStatus]
  BY <1>1
<1>3. interviews' \in [1 .. n -> InterviewStatus]
  BY <1>2
<1>4. interviews' \in Seq(InterviewStatus) /\ Len(interviews') = n
  BY <1>2, <1>3
<1>5. QED BY <1>1, <1>2, <1>4

(* What the copies of the request that is served say. *)
LEMMA CopyOf ==
  ASSUME IInv, NEW r \in Requests, NEW h \in Handlers, Serving(r, h)
  PROVE  /\ req[r].handler = h /\ req[r].ready /\ req[r] \in Request
         /\ req[r].status \in Allowed(h)
         /\ StatusConsented(req[r].status) /\ OfferConsented(req[r].offer)
         /\ h \in {"AcceptOffer", "RejectOffer"} => req[r].offer = "Sent"
         /\ h = "Hire" => req[r].offer = "Accepted"
BY DEF IInv, TypeOK, Serving, CopyConsented, Handlers

LEMMA InviteKeeps ==
  ASSUME IInv, NEW r \in Requests, InviteInterview(r)
  PROVE  IInv'
<1>1. interviews \in Seq(InterviewStatus) /\ Len(interviews) < MaxInterviews
      /\ interviews' = Append(interviews, "AwaitingCandidate")
  BY DEF InviteInterview, IInv, TypeOK
<1>2. interviews' \in Seq(InterviewStatus) /\ Len(interviews') <= MaxInterviews
  BY <1>1, BoundIsNatural DEF InterviewStatus
<1>3. QED BY <1>2, PlainMoveKeeps DEF InviteInterview

LEMMA AcceptInterviewKeeps ==
  ASSUME IInv, NEW r \in Requests, AcceptInterviewInvitation(r)
  PROVE  IInv'
<1>1. /\ MoveTo(r, "Interviewing") /\ Done(r) /\ offer' = offer
      /\ consents' = consents \cup {"AcceptInterview"}
      /\ interviews' = [interviews EXCEPT ![req[r].interview] = "Scheduled"]
  BY DEF AcceptInterviewInvitation, Record, Consents
<1>2. status' = status \/ status' = "Interviewing"
  BY <1>1, Moved
<1>3. consents \subseteq consents' /\ consents' \subseteq Consents
  BY <1>1 DEF IInv, TypeOK, Consents
<1>4. status' \in Status /\ StatusConsented(status)'
  BY <1>1, <1>2 DEF IInv, TypeOK, StatusConsented, Status, Open
<1>5. offer' \in OfferStatus /\ OfferConsented(offer)'
  BY <1>1 DEF IInv, TypeOK, OfferConsented
<1>6. interviews' \in Seq(InterviewStatus) /\ Len(interviews') <= MaxInterviews
  BY <1>1, InterviewsTyped DEF InterviewStatus
<1>7. QED BY <1>1, <1>3, <1>4, <1>5, <1>6, SaveKeeps

LEMMA RejectInterviewKeeps ==
  ASSUME IInv, NEW r \in Requests, RejectInterviewInvitation(r)
  PROVE  IInv'
<1>1. interviews' \in Seq(InterviewStatus) /\ Len(interviews') <= MaxInterviews
  BY InterviewsTyped DEF RejectInterviewInvitation, InterviewStatus
<1>2. QED BY <1>1, PlainMoveKeeps DEF RejectInterviewInvitation

(* The offer is sent to somebody whose copy was in the interview stage. *)
LEMMA SendOfferKeeps ==
  ASSUME IInv, NEW r \in Requests, SendOffer(r)
  PROVE  IInv'
<1>1. /\ MoveTo(r, "Offering") /\ Done(r) /\ interviews' = interviews
      /\ offer' = Saved(req[r].offer, offer, "Sent")
      /\ consents' = consents \cup {"SendOffer"}
  BY DEF SendOffer, Record, Consents
<1>2. "AcceptInterview" \in consents
  BY CopyOf DEF SendOffer, Allowed, Offerable, StatusConsented, Handlers
<1>3. status' = status \/ status' = "Offering"
  BY <1>1, Moved
<1>4. consents \subseteq consents' /\ consents' \subseteq Consents
  BY <1>1 DEF IInv, TypeOK, Consents
<1>5. status' \in Status /\ StatusConsented(status)'
  BY <1>1, <1>2, <1>3 DEF IInv, TypeOK, StatusConsented, Status, Open
<1>6. offer' = offer \/ offer' = "Sent"
  BY <1>1 DEF Saved
<1>7. offer' \in OfferStatus /\ OfferConsented(offer)'
  BY <1>1, <1>2, <1>6 DEF IInv, TypeOK, OfferConsented, OfferStatus
<1>8. QED BY <1>1, <1>4, <1>5, <1>7, SaveKeeps DEF IInv, TypeOK

(* The candidate answers an offer that the copy shows sent. *)
LEMMA AcceptOfferKeeps ==
  ASSUME IInv, NEW r \in Requests, AcceptOfferInvitation(r)
  PROVE  IInv'
<1>1. /\ Done(r) /\ UNCHANGED <<status, interviews>>
      /\ offer' = Saved(req[r].offer, offer, "Accepted")
      /\ consents' = consents \cup {"AcceptOffer"}
  BY DEF AcceptOfferInvitation, Record, Consents
<1>2. {"AcceptInterview", "SendOffer"} \subseteq consents
  BY CopyOf DEF AcceptOfferInvitation, OfferConsented, Handlers
<1>3. consents \subseteq consents' /\ consents' \subseteq Consents
  BY <1>1 DEF IInv, TypeOK, Consents
<1>4. offer' = offer \/ offer' = "Accepted"
  BY <1>1 DEF Saved
<1>5. offer' \in OfferStatus /\ OfferConsented(offer)'
  BY <1>1, <1>2, <1>4 DEF IInv, TypeOK, OfferConsented, OfferStatus
<1>6. status' \in Status /\ StatusConsented(status)'
  BY <1>1 DEF IInv, TypeOK, StatusConsented
<1>7. QED BY <1>1, <1>3, <1>5, <1>6, SaveKeeps DEF IInv, TypeOK

LEMMA RejectOfferKeeps ==
  ASSUME IInv, NEW r \in Requests, RejectOfferInvitation(r)
  PROVE  IInv'
<1>1. /\ MoveTo(r, "Interviewing") /\ Done(r) /\ UNCHANGED <<interviews, consents>>
      /\ offer' = Saved(req[r].offer, offer, "Rejected")
  BY DEF RejectOfferInvitation, AfterRefusal
<1>2. {"AcceptInterview", "SendOffer"} \subseteq consents
  BY CopyOf DEF RejectOfferInvitation, OfferConsented, Handlers
<1>3. status' = status \/ status' = "Interviewing"
  BY <1>1, Moved
<1>4. status' \in Status /\ StatusConsented(status)'
  BY <1>1, <1>2, <1>3 DEF IInv, TypeOK, StatusConsented, Status, Open
<1>5. offer' = offer \/ offer' = "Rejected"
  BY <1>1 DEF Saved
<1>6. offer' \in OfferStatus /\ OfferConsented(offer)'
  BY <1>1, <1>2, <1>5 DEF IInv, TypeOK, OfferConsented, OfferStatus
<1>7. QED BY <1>1, <1>4, <1>6, SaveKeeps DEF IInv, TypeOK

(* Whoever is hired had accepted the offer that the copy shows. *)
LEMMA HireKeeps ==
  ASSUME IInv, NEW r \in Requests, Hire(r)
  PROVE  IInv'
<1>1. MoveTo(r, "Hired") /\ Done(r) /\ UNCHANGED <<interviews, offer, consents>>
  BY DEF Hire
<1>2. Consents \subseteq consents
  BY CopyOf DEF Hire, OfferConsented, Handlers, Consents
<1>3. status' = status \/ status' = "Hired"
  BY <1>1, Moved
<1>4. status' \in Status /\ StatusConsented(status)'
  BY <1>1, <1>2, <1>3 DEF IInv, TypeOK, StatusConsented, Status, Consents
<1>5. offer' \in OfferStatus /\ OfferConsented(offer)'
  BY <1>1 DEF IInv, TypeOK, OfferConsented
<1>6. QED BY <1>1, <1>4, <1>5, SaveKeeps DEF IInv, TypeOK

-----------------------------------------------------------------------------
LEMMA InitHolds == Init => IInv
<1>1. ASSUME Init  PROVE IInv
  <2>1. TypeOK
    BY <1>1, IdleIsFine, BoundIsNatural DEF Init, TypeOK, Status, OfferStatus
  <2>2. \A r \in Requests : CopyConsented(req[r])
    BY <1>1, IdleIsFine DEF Init
  <2>3. QED BY <1>1, <2>1, <2>2 DEF Init, IInv, StatusConsented, OfferConsented
<1>2. QED BY <1>1

LEMMA StepKeeps ==
  ASSUME IInv, [Next]_vars
  PROVE  IInv'
<1>1. CASE UNCHANGED vars
  BY <1>1 DEF vars, IInv, TypeOK, StatusConsented, OfferConsented, CopyConsented
<1>2. ASSUME NEW r \in Requests, Apply(r) \/ Withdraw(r) \/ MarkScreeningOnRecruiterView(r) \/ Reject(r)
      PROVE  IInv'
  <2>1. UNCHANGED <<interviews, offer, consents>> /\ Done(r)
    BY <1>2 DEF Apply, Withdraw, MarkScreeningOnRecruiterView, Reject
  <2>2. PICK new \in {"Pending", "Screening", "Withdrawn", "Rejected"} : MoveTo(r, new)
    BY <1>2 DEF Apply, Withdraw, MarkScreeningOnRecruiterView, Reject
  <2>3. QED BY <2>1, <2>2, PlainMoveKeeps DEF IInv, TypeOK
<1>3. CASE Next
  BY <1>2, <1>3, LoadKeeps, FindInvitationKeeps, FindNoInvitationKeeps, FindOfferKeeps, AbandonKeeps,
     InviteKeeps, AcceptInterviewKeeps, RejectInterviewKeeps, SendOfferKeeps, AcceptOfferKeeps,
     RejectOfferKeeps, HireKeeps DEF Next, Step
<1>4. QED BY <1>1, <1>3

(* Every reachable state is well typed. *)
THEOREM ApplicationsTypeCorrect == Spec => []TypeOK
<1>1. IInv => TypeOK
  BY DEF IInv
<1>2. QED BY InitHolds, StepKeeps, <1>1, PTL DEF Spec

(* However many requests interleave, stages, offers and appointments follow  *)
(* the consents they need.                                                   *)
THEOREM NoStageWithoutConsent == Spec => []StagesAreConsented
<1>1. IInv => StagesAreConsented
  BY DEF IInv, StatusConsented, OfferConsented, StagesAreConsented
<1>2. QED BY InitHolds, StepKeeps, <1>1, PTL DEF Spec

-----------------------------------------------------------------------------
(* What the code does not enforce: requests for some handlers are served one *)
(* after the other, whatever the rest does, as they would be if those        *)
(* handlers locked the application.                                          *)
TakeTurns(S) ==
  \A r, s \in Requests : req[r].handler \in S /\ req[s].handler \in S => r = s

(* With one request at a time, everybody takes turns. *)
LEMMA OneAtATime ==
  ASSUME NEW r, Requests = {r}
  PROVE  \A S : TakeTurns(S)
BY DEF TakeTurns

(* Steps that look something up; the others save, or give up, and are done.  *)
Reads(r) ==
  \/ \E h \in Handlers : Load(r, h)
  \/ FindInvitation(r) \/ FindNoInvitation(r) \/ FindOffer(r)

LEMMA ReadsOrDone ==
  ASSUME NEW r \in Requests, Step(r)
  PROVE  (Reads(r) /\ UNCHANGED rows) \/ Done(r)
BY DEF Step, Reads, Load, FindInvitation, FindNoInvitation, FindOffer, Apply, Withdraw,
   MarkScreeningOnRecruiterView, InviteInterview, AcceptInterviewInvitation,
   RejectInterviewInvitation, SendOffer, AcceptOfferInvitation, RejectOfferInvitation,
   Hire, Reject, Abandon

(* Whoever is served by a handler after a step was already, or is the one    *)
(* that took the step, and read the rows that are there.                     *)
LEMMA AfterDone ==
  ASSUME IInv, NEW r \in Requests, Done(r), NEW p \in Requests, req'[p].handler # "none"
  PROVE  p # r /\ req'[p] = req[p]
BY DEF IInv, TypeOK, Done, Idle

LEMMA CopyRead ==
  ASSUME IInv, NEW r \in Requests, Reads(r), NEW p \in Requests, req'[p] # req[p]
  PROVE  /\ p = r
         /\ \/ req'[p].status = status
            \/ req'[p].handler = req[p].handler /\ req'[p].status = req[p].status
         /\ req'[p].ready =>
              /\ req'[p].handler = "Invite" => Invitations = {}
              /\ req'[p].handler \in {"AcceptInterview", "RejectInterview"} =>
                   req'[p].interview \in Invitations
              /\ req'[p].handler \in {"SendOffer", "AcceptOffer", "RejectOffer", "Hire"} =>
                   req'[p].offer = offer /\ offer \in Offers(req'[p].handler)
<1>1. req[r] \in Request /\ req \in [Requests -> Request]
  BY DEF IInv, TypeOK
<1>2. CASE \E h \in Handlers : Load(r, h)
  <2>1. PICK h \in Handlers :
          req' = [req EXCEPT ![r] = [handler |-> h, ready |-> h \notin Reading,
                                     status |-> status, interview |-> 0, offer |-> "Absent"]]
    BY <1>2 DEF Load
  <2>2. PICK q : q = [handler |-> h, ready |-> h \notin Reading,
                      status |-> status, interview |-> 0, offer |-> "Absent"]
    OBVIOUS
  <2>3. req' = [req EXCEPT ![r] = q]
    BY <2>1, <2>2
  <2>4. q.handler = h /\ q.status = status
    BY <2>2
  <2>5. q.ready => q.handler \notin Reading
    BY <2>2
  <2>6. p = r /\ req'[p] = q
    BY <1>1, <2>3
  <2>7. q.ready => q.handler \notin {"Invite", "AcceptInterview", "RejectInterview",
                                   "SendOffer", "AcceptOffer", "RejectOffer", "Hire"}
    BY <2>5, Zenon DEF Reading
  <2>8. QED BY <2>4, <2>6, <2>7
<1>3. CASE FindInvitation(r)
  <2>1. PICK i \in Invitations : req' = [req EXCEPT ![r] = [@ EXCEPT !.ready = TRUE, !.interview = i]]
    BY <1>3 DEF FindInvitation
  <2>2. req[r].handler \in {"AcceptInterview", "RejectInterview"}
    BY <1>3 DEF FindInvitation
  <2>3. QED BY <1>1, <2>1, <2>2 DEF Request
<1>4. CASE FindNoInvitation(r)
  <2>1. req' = [req EXCEPT ![r] = [@ EXCEPT !.ready = TRUE]]
    BY <1>4 DEF FindNoInvitation
  <2>2. req[r].handler = "Invite" /\ Invitations = {}
    BY <1>4 DEF FindNoInvitation, Invitable
  <2>3. QED BY <1>1, <2>1, <2>2 DEF Request
<1>5. CASE FindOffer(r)
  <2>1. req' = [req EXCEPT ![r] = [@ EXCEPT !.ready = TRUE, !.offer = offer]]
    BY <1>5 DEF FindOffer
  <2>2. /\ req[r].handler \in {"SendOffer", "AcceptOffer", "RejectOffer", "Hire"}
        /\ offer \in Offers(req[r].handler)
    BY <1>5 DEF FindOffer
  <2>3. QED BY <1>1, <2>1, <2>2 DEF Request
<1>6. QED BY <1>2, <1>3, <1>4, <1>5 DEF Reads

(* When one of those who take turns is done, nobody of them is left.         *)
LEMMA NobodyLeft ==
  ASSUME IInv, NEW S, "none" \notin S, TakeTurns(S), NEW r \in Requests, req[r].handler \in S, Done(r),
         NEW p \in Requests
  PROVE  req'[p].handler \notin S
<1>1. SUFFICES ASSUME req'[p].handler \in S  PROVE FALSE
  OBVIOUS
<1>2. p # r /\ req'[p] = req[p]
  BY <1>1, AfterDone
<1>3. QED BY <1>1, <1>2 DEF TakeTurns

-----------------------------------------------------------------------------
(* Invitations: what findPendingInterviewInvitation found missing is still   *)
(* missing.                                                                  *)
InvitesMeetNone ==
  \A r \in Requests : req[r].ready /\ req[r].handler = "Invite" => Invitations = {}

(* Answers only take invitations away, and an invitation adds one.           *)
LEMMA InvitationsMove ==
  ASSUME IInv, NEW r \in Requests, Step(r)
  PROVE  \/ Invitations' \subseteq Invitations
         \/ /\ InviteInterview(r)
            /\ Invitations = {} => \E i \in DOMAIN interviews' : Invitations' = {i}
<1>1. interviews \in Seq(InterviewStatus)
  BY DEF IInv, TypeOK
<1>2. CASE InviteInterview(r)
  <2>1. interviews' = Append(interviews, "AwaitingCandidate")
    BY <1>2 DEF InviteInterview
  <2>2. PICK n \in Nat : n = Len(interviews)
    BY <1>1
  <2>3. /\ DOMAIN interviews' = 1 .. (n + 1) /\ DOMAIN interviews = 1 .. n
        /\ interviews'[n + 1] = "AwaitingCandidate"
        /\ \A i \in 1 .. n : interviews'[i] = interviews[i]
    BY <1>1, <2>1, <2>2
  <2>4. Invitations = {} => Invitations' = {n + 1}
    BY <2>2, <2>3 DEF Invitations
  <2>5. n + 1 \in DOMAIN interviews'
    BY <2>2, <2>3
  <2>6. QED BY <1>2, <2>4, <2>5
<1>3. CASE AcceptInterviewInvitation(r) \/ RejectInterviewInvitation(r)
  <2>1. PICK s \in {"Scheduled", "Cancelled"} :
          interviews' = [interviews EXCEPT ![req[r].interview] = s]
    BY <1>3 DEF AcceptInterviewInvitation, RejectInterviewInvitation
  <2>2. QED BY <1>1, <2>1 DEF Invitations
<1>4. CASE interviews' = interviews
  BY <1>4 DEF Invitations
<1>5. QED
  BY <1>2, <1>3, <1>4 DEF Step, Load, FindInvitation, FindNoInvitation, FindOffer, Apply, Withdraw,
     MarkScreeningOnRecruiterView, SendOffer, AcceptOfferInvitation, RejectOfferInvitation,
     Hire, Reject, Abandon, rows

LEMMA InvitesStep ==
  ASSUME IInv, OnePendingInvitation, InvitesMeetNone, TakeTurns({"Invite"}), [Next]_vars
  PROVE  OnePendingInvitation' /\ InvitesMeetNone'
<1>1. CASE UNCHANGED vars
  BY <1>1 DEF vars, OnePendingInvitation, InvitesMeetNone, Invitations
<1>2. ASSUME NEW r \in Requests, Step(r)
      PROVE  OnePendingInvitation' /\ InvitesMeetNone'
  <2>1. CASE InviteInterview(r)
    <3>1. req[r].ready /\ req[r].handler = "Invite" /\ Done(r)
      BY <2>1 DEF InviteInterview, Serving
    <3>2. \A p \in Requests : req'[p].handler # "Invite"
      BY <3>1, NobodyLeft
    <3>3. Invitations = {}
      BY <3>1 DEF InvitesMeetNone
    <3>4. OnePendingInvitation'
      BY <1>2, <3>3, InvitationsMove DEF OnePendingInvitation
    <3>5. QED BY <3>2, <3>4 DEF InvitesMeetNone
  <2>2. CASE ~InviteInterview(r)
    <3>1. Invitations' \subseteq Invitations
      BY <1>2, <2>2, InvitationsMove
    <3>2. OnePendingInvitation'
      <4>1. Invitations' \subseteq DOMAIN interviews'
        BY DEF Invitations
      <4>2. QED BY <3>1, <4>1 DEF OnePendingInvitation
    <3>3. ASSUME NEW p \in Requests, req'[p].ready, req'[p].handler = "Invite"
          PROVE  Invitations' = {}
      <4>1. CASE req'[p] = req[p]
        BY <3>1, <3>3, <4>1 DEF InvitesMeetNone
      <4>2. CASE req'[p] # req[p]
        <5>1. ~Done(r)
          BY <3>3, <4>2, AfterDone
        <5>2. QED BY <1>2, <3>1, <3>3, <4>2, <5>1, ReadsOrDone, CopyRead
      <4>3. QED BY <4>1, <4>2
    <3>4. QED BY <3>2, <3>3 DEF InvitesMeetNone
  <2>3. QED BY <2>1, <2>2
<1>3. QED BY <1>1, <1>2 DEF Next

(* If invitations are written one after the other, an application never has  *)
(* two that wait for the candidate, however answers, offers, withdrawals and *)
(* new applications interleave (RcApplicationService::inviteInterview).       *)
THEOREM OneInvitationWaits == Spec /\ []TakeTurns({"Invite"}) => []OnePendingInvitation
<1>1. Init => OnePendingInvitation /\ InvitesMeetNone
  BY DEF Init, OnePendingInvitation, InvitesMeetNone, Invitations, Idle
<1>2. QED BY InitHolds, StepKeeps, InvitesStep, <1>1, PTL DEF Spec

-----------------------------------------------------------------------------
(* Offers: the offer a handler goes on with is still the one that is stored, *)
(* and whoever is about to be hired has accepted it.                         *)
OfferWriters == {"SendOffer", "AcceptOffer", "RejectOffer"}

OffersExact ==
  \A r \in Requests : req[r].ready =>
    /\ req[r].handler \in OfferWriters => req[r].offer = offer /\ offer \in Offers(req[r].handler)
    /\ req[r].handler = "Hire" => offer = "Accepted"

LEMMA OfferMoves ==
  ASSUME NEW r \in Requests, Step(r), offer' # offer
  PROVE  /\ Done(r) /\ req[r].ready /\ req[r].handler \in OfferWriters
         /\ SendOffer(r) \/ AcceptOfferInvitation(r) \/ RejectOfferInvitation(r)
BY DEF Step, Load, FindInvitation, FindNoInvitation, FindOffer, Apply, Withdraw,
   MarkScreeningOnRecruiterView, InviteInterview, AcceptInterviewInvitation,
   RejectInterviewInvitation, SendOffer, AcceptOfferInvitation, RejectOfferInvitation,
   Hire, Reject, Abandon, rows, Serving, OfferWriters

LEMMA OffersStep ==
  ASSUME IInv, OffersExact, TakeTurns(OfferWriters), [Next]_vars
  PROVE  /\ OffersExact'
         /\ offer = "Accepted" => offer' = "Accepted"
<1>1. CASE UNCHANGED vars
  BY <1>1 DEF vars, OffersExact, Offers
<1>2. ASSUME NEW r \in Requests, Step(r), offer' = offer
      PROVE  OffersExact'
  <2>1. ASSUME NEW p \in Requests, req'[p].ready, req'[p].handler \in OfferWriters \cup {"Hire"}
        PROVE  /\ req'[p].handler \in OfferWriters =>
                    req'[p].offer = offer /\ offer \in Offers(req'[p].handler)
               /\ req'[p].handler = "Hire" => offer = "Accepted"
    <3>1. CASE req'[p] = req[p]
      BY <2>1, <3>1 DEF OffersExact
    <3>2. CASE req'[p] # req[p]
      <4>1. ~Done(r)
        BY <2>1, <3>2, AfterDone DEF OfferWriters
      <4>2. Reads(r)
        BY <1>2, <4>1, ReadsOrDone
      <4>3. req'[p].offer = offer /\ offer \in Offers(req'[p].handler)
        BY <2>1, <3>2, <4>2, CopyRead DEF OfferWriters
      <4>4. QED BY <4>3 DEF Offers, Hirable, OfferWriters
    <3>3. QED BY <3>1, <3>2
  <2>2. QED BY <1>2, <2>1 DEF OffersExact, Offers
<1>3. ASSUME NEW r \in Requests, Step(r), offer' # offer
      PROVE  OffersExact' /\ offer # "Accepted"
  <2>1. /\ Done(r) /\ req[r].ready /\ req[r].handler \in OfferWriters
        /\ SendOffer(r) \/ AcceptOfferInvitation(r) \/ RejectOfferInvitation(r)
    BY <1>3, OfferMoves
  <2>2. "none" \notin OfferWriters
    BY DEF OfferWriters
  <2>3. \A p \in Requests : req'[p].handler \notin OfferWriters
    BY <2>1, <2>2, NobodyLeft
  <2>4. req[r].offer = offer /\ offer \in Offers(req[r].handler)
    BY <2>1 DEF OffersExact
  <2>5. offer # "Accepted"
    <3>1. CASE SendOffer(r) \/ RejectOfferInvitation(r)
      BY <2>4, <3>1 DEF SendOffer, RejectOfferInvitation, Serving, Offers, Sendable
    <3>2. CASE AcceptOfferInvitation(r)
      BY <2>4, <3>2 DEF AcceptOfferInvitation, Serving, Offers
    <3>3. QED BY <2>1, <3>1, <3>2
  <2>6. ASSUME NEW p \in Requests, req'[p].ready, req'[p].handler = "Hire"
        PROVE  FALSE
    <3>1. req'[p] = req[p]
      BY <2>1, <2>6, AfterDone
    <3>2. QED BY <2>5, <2>6, <3>1 DEF OffersExact
  <2>7. QED BY <2>3, <2>5, <2>6 DEF OffersExact
<1>4. QED BY <1>1, <1>2, <1>3 DEF Next

LEMMA OffersInit == Init => OffersExact
BY DEF Init, OffersExact, Idle

(* If an offer is sent and answered in turn, an accepted offer is neither    *)
(* sent again nor refused, over any number of withdrawals and applications   *)
(* (RcApplicationService::sendOffer, acceptOfferInvitation).                 *)
THEOREM AcceptedOffersStand == Spec /\ []TakeTurns(OfferWriters) => AcceptedOfferStays
<1>1. /\ IInv /\ OffersExact /\ TakeTurns(OfferWriters) /\ [Next]_vars
        => [offer = "Accepted" => offer' = "Accepted"]_offer
  BY OffersStep
<1>2. IInv /\ OffersExact /\ TakeTurns(OfferWriters) /\ [Next]_vars => OffersExact'
  BY OffersStep
<1>3. QED BY InitHolds, StepKeeps, OffersInit, <1>1, <1>2, PTL DEF Spec, AcceptedOfferStays

-----------------------------------------------------------------------------
(* The status each handler saves; AcceptOffer saves none.                    *)
Target(handler) ==
  CASE handler = "Apply" -> "Pending"
    [] handler = "Withdraw" -> "Withdrawn"
    [] handler = "Reject" -> "Rejected"
    [] handler \in {"View", "Invite", "RejectInterview"} -> "Screening"
    [] handler \in {"AcceptInterview", "RejectOffer"} -> "Interviewing"
    [] handler = "SendOffer" -> "Offering"
    [] handler = "Hire" -> "Hired"

Movers == Handlers \ {"AcceptOffer"}

(* A status changes only to what a served handler saves.                     *)
LEMMA StatusMoves ==
  ASSUME NEW r \in Requests, Step(r), status' # status
  PROVE  /\ \E h \in Movers : Serving(r, h) /\ status' = Target(h)
         /\ Done(r)
<1>1. \E h \in Movers : Serving(r, h) /\ MoveTo(r, Target(h)) /\ Done(r)
  <2>1. CASE Apply(r) \/ Withdraw(r) \/ Reject(r)
    BY <2>1 DEF Apply, Withdraw, Reject, Movers, Handlers, Target
  <2>2. CASE MarkScreeningOnRecruiterView(r) \/ InviteInterview(r) \/ RejectInterviewInvitation(r)
    BY <2>2 DEF MarkScreeningOnRecruiterView, InviteInterview, RejectInterviewInvitation,
       Movers, Handlers, Target
  <2>3. CASE AcceptInterviewInvitation(r) \/ RejectOfferInvitation(r)
    BY <2>3 DEF AcceptInterviewInvitation, RejectOfferInvitation, AfterRefusal, Movers, Handlers, Target
  <2>4. CASE SendOffer(r) \/ Hire(r)
    BY <2>4 DEF SendOffer, Hire, Movers, Handlers, Target
  <2>5. QED
    BY <2>1, <2>2, <2>3, <2>4 DEF Step, Load, FindInvitation, FindNoInvitation, FindOffer,
       AcceptOfferInvitation, Abandon, rows
<1>2. QED BY <1>1 DEF MoveTo, Saved

(* If an offer is sent and answered in turn, whoever is hired has an         *)
(* accepted offer, whatever else overlaps (RcApplicationService::hire).      *)
THEOREM HiredHaveAccepted == Spec /\ []TakeTurns(OfferWriters) => []HiredHasAcceptedOffer
<1>1. Init => HiredHasAcceptedOffer
  BY DEF Init, HiredHasAcceptedOffer
<1>2. IInv /\ OffersExact /\ HiredHasAcceptedOffer /\ TakeTurns(OfferWriters) /\ [Next]_vars
        => HiredHasAcceptedOffer'
  <2> SUFFICES ASSUME IInv, OffersExact, HiredHasAcceptedOffer, TakeTurns(OfferWriters), [Next]_vars,
                      status' = "Hired"
               PROVE  offer' = "Accepted"
    BY DEF HiredHasAcceptedOffer
  <2>1. CASE status = "Hired"
    BY <2>1, OffersStep DEF HiredHasAcceptedOffer
  <2>2. CASE status # "Hired"
    <3>1. PICK r \in Requests : Step(r)
      BY <2>2 DEF vars, Next
    <3>2. PICK h \in Movers : Serving(r, h) /\ Target(h) = "Hired"
      BY <2>2, <3>1, StatusMoves
    <3>3. h = "Hire"
      BY <3>2 DEF Target, Movers, Handlers
    <3>4. offer = "Accepted"
      BY <3>2, <3>3 DEF Serving, OffersExact
    <3>5. QED BY <3>4, OffersStep
  <2>3. QED BY <2>1, <2>2
<1>3. IInv /\ OffersExact /\ TakeTurns(OfferWriters) /\ [Next]_vars => OffersExact'
  BY OffersStep
<1>4. QED BY InitHolds, StepKeeps, OffersInit, <1>1, <1>2, <1>3, PTL DEF Spec

-----------------------------------------------------------------------------
(* Answers to an invitation: the invitation that was found is still pending. *)
InvitationAnswers == {"AcceptInterview", "RejectInterview"}

AnswersExact ==
  \A r \in Requests : req[r].ready /\ req[r].handler \in InvitationAnswers =>
    req[r].interview \in Invitations

(* A candidate who consented to an interview has one that is scheduled.      *)
ConsentIsScheduled ==
  "AcceptInterview" \in consents => \E i \in DOMAIN interviews : interviews[i] = "Scheduled"

(* Writing an invitation leaves the interviews there are.                    *)
LEMMA InvitationsKept ==
  ASSUME IInv, NEW r \in Requests, Step(r), ~AcceptInterviewInvitation(r), ~RejectInterviewInvitation(r)
  PROVE  /\ DOMAIN interviews \subseteq DOMAIN interviews'
         /\ \A i \in DOMAIN interviews : interviews'[i] = interviews[i]
         /\ "AcceptInterview" \in consents' => "AcceptInterview" \in consents
<1>1. interviews \in Seq(InterviewStatus)
  BY DEF IInv, TypeOK
<1>2. CASE InviteInterview(r)
  <2>1. interviews' = Append(interviews, "AwaitingCandidate") /\ consents' = consents
    BY <1>2 DEF InviteInterview
  <2>2. QED BY <1>1, <2>1
<1>3. CASE ~InviteInterview(r)
  <2>1. interviews' = interviews
    BY <1>3 DEF Step, Load, FindInvitation, FindNoInvitation, FindOffer, Apply, Withdraw,
       MarkScreeningOnRecruiterView, SendOffer, AcceptOfferInvitation, RejectOfferInvitation,
       Hire, Reject, Abandon, rows
  <2>2. consents' = consents \/ \E h \in {"SendOffer", "AcceptOffer"} : Record(h)
    BY <1>3 DEF Step, Load, FindInvitation, FindNoInvitation, FindOffer, Apply, Withdraw,
       MarkScreeningOnRecruiterView, SendOffer, AcceptOfferInvitation, RejectOfferInvitation,
       Hire, Reject, Abandon, rows
  <2>3. QED BY <2>1, <2>2 DEF Record
<1>4. QED BY <1>2, <1>3

LEMMA AnswersStep ==
  ASSUME IInv, AnswersExact, ConsentIsScheduled, TakeTurns(InvitationAnswers), [Next]_vars
  PROVE  AnswersExact' /\ ConsentIsScheduled'
<1>1. CASE UNCHANGED vars
  BY <1>1 DEF vars, AnswersExact, ConsentIsScheduled, Invitations
<1>2. ASSUME NEW r \in Requests, AcceptInterviewInvitation(r) \/ RejectInterviewInvitation(r)
      PROVE  AnswersExact' /\ ConsentIsScheduled'
  <2>1. Done(r) /\ req[r].ready /\ req[r].handler \in InvitationAnswers /\ "none" \notin InvitationAnswers
    BY <1>2 DEF AcceptInterviewInvitation, RejectInterviewInvitation, Serving, InvitationAnswers
  <2>2. AnswersExact'
    BY <2>1, NobodyLeft DEF AnswersExact
  <2>3. PICK i \in Invitations : i = req[r].interview
    BY <2>1 DEF AnswersExact
  <2>4. interviews \in Seq(InterviewStatus) /\ i \in DOMAIN interviews /\ interviews[i] # "Scheduled"
    BY <2>3 DEF IInv, TypeOK, Invitations
  <2>5. CASE AcceptInterviewInvitation(r)
    <3>1. i \in DOMAIN interviews' /\ interviews'[i] = "Scheduled"
      BY <2>3, <2>4, <2>5 DEF AcceptInterviewInvitation
    <3>2. QED BY <2>2, <3>1 DEF ConsentIsScheduled
  <2>6. CASE RejectInterviewInvitation(r)
    <3>1. interviews' = [interviews EXCEPT ![i] = "Cancelled"] /\ consents' = consents
      BY <2>3, <2>6 DEF RejectInterviewInvitation
    <3>2. \A j \in DOMAIN interviews : interviews[j] = "Scheduled" =>
            j \in DOMAIN interviews' /\ interviews'[j] = "Scheduled"
      BY <2>4, <3>1
    <3>3. QED BY <2>2, <3>1, <3>2 DEF ConsentIsScheduled
  <2>7. QED BY <1>2, <2>5, <2>6
<1>3. ASSUME NEW r \in Requests, Step(r), ~AcceptInterviewInvitation(r), ~RejectInterviewInvitation(r)
      PROVE  AnswersExact' /\ ConsentIsScheduled'
  <2>1. /\ DOMAIN interviews \subseteq DOMAIN interviews'
        /\ \A i \in DOMAIN interviews : interviews'[i] = interviews[i]
        /\ "AcceptInterview" \in consents' => "AcceptInterview" \in consents
    BY <1>3, InvitationsKept
  <2>2. Invitations \subseteq Invitations'
    BY <2>1 DEF Invitations
  <2>3. ConsentIsScheduled'
    BY <2>1 DEF ConsentIsScheduled
  <2>4. ASSUME NEW p \in Requests, req'[p].ready, req'[p].handler \in InvitationAnswers
        PROVE  req'[p].interview \in Invitations
    <3>1. CASE req'[p] = req[p]
      BY <2>4, <3>1 DEF AnswersExact
    <3>2. CASE req'[p] # req[p]
      <4>1. ~Done(r)
        BY <2>4, <3>2, AfterDone DEF InvitationAnswers
      <4>2. Reads(r)
        BY <1>3, <4>1, ReadsOrDone
      <4>3. QED BY <2>4, <3>2, <4>2, CopyRead DEF InvitationAnswers
    <3>3. QED BY <3>1, <3>2
  <2>5. QED BY <2>2, <2>3, <2>4 DEF AnswersExact
<1>4. QED BY <1>1, <1>2, <1>3 DEF Next

(* The offer of the offer stage is open or accepted.                         *)
OfferingHasOffer == status = "Offering" => offer \in {"Sent", "Accepted"}

LEMMA OfferingStep ==
  ASSUME IInv, OffersExact, OfferingHasOffer, TakeTurns(OfferWriters), [Next]_vars
  PROVE  OfferingHasOffer'
<1>1. SUFFICES ASSUME status' = "Offering", ~UNCHANGED <<status, offer>>
               PROVE  offer' \in {"Sent", "Accepted"}
  BY DEF OfferingHasOffer
<1>2. PICK r \in Requests : Step(r)
  BY <1>1 DEF vars, Next
<1>3. CASE offer' # offer
  <2>1. /\ req[r].ready /\ req[r].handler \in OfferWriters
        /\ SendOffer(r) \/ AcceptOfferInvitation(r) \/ RejectOfferInvitation(r)
    BY <1>2, <1>3, OfferMoves
  <2>2. CASE SendOffer(r) \/ AcceptOfferInvitation(r)
    BY <1>3, <2>2 DEF SendOffer, AcceptOfferInvitation, Saved
  <2>3. CASE RejectOfferInvitation(r)
    <3>1. req[r].status = "Offering" /\ MoveTo(r, "Interviewing")
      BY <2>3, CopyOf DEF RejectOfferInvitation, AfterRefusal, Allowed, Handlers
    <3>2. QED BY <1>1, <3>1 DEF MoveTo, Saved
  <2>4. QED BY <2>1, <2>2, <2>3
<1>4. CASE offer' = offer
  <2>1. status # "Offering"
    BY <1>1, <1>4
  <2>2. PICK h \in Movers : Serving(r, h) /\ Target(h) = "Offering"
    BY <1>1, <1>2, <2>1, StatusMoves
  <2>3. h = "SendOffer"
    BY <2>2 DEF Target, Movers, Handlers
  <2>4. SendOffer(r)
    BY <1>1, <1>2, <2>1, <2>2, <2>3 DEF Serving, Step, Load, FindInvitation, FindNoInvitation, FindOffer,
       Apply, Withdraw, MarkScreeningOnRecruiterView, InviteInterview, AcceptInterviewInvitation,
       RejectInterviewInvitation, AcceptOfferInvitation, RejectOfferInvitation, Hire, Reject, Abandon, rows
  <2>5. req[r].offer = offer /\ offer' = Saved(req[r].offer, offer, "Sent")
    BY <2>2, <2>3, <2>4 DEF SendOffer, Serving, OffersExact, OfferWriters
  <2>6. QED BY <2>5 DEF Saved
<1>5. QED BY <1>3, <1>4

(* If offers are sent and answered in turn, and invitations are answered in  *)
(* turn, the interview stage has a scheduled interview and the offer stage   *)
(* an offer; both outlive a withdrawal and a second application.             *)
THEOREM StagesHaveTheirRows ==
  Spec /\ []TakeTurns(OfferWriters) /\ []TakeTurns(InvitationAnswers) => []StageHasItsRows
<1>1. Init => AnswersExact /\ ConsentIsScheduled /\ OfferingHasOffer
  BY DEF Init, AnswersExact, Idle, ConsentIsScheduled, OfferingHasOffer
<1>2. IInv /\ ConsentIsScheduled /\ OfferingHasOffer => StageHasItsRows
  BY DEF IInv, StatusConsented, ConsentIsScheduled, OfferingHasOffer, StageHasItsRows
<1>3. IInv /\ OffersExact /\ TakeTurns(OfferWriters) /\ [Next]_vars => OffersExact'
  BY OffersStep
<1>4. QED BY InitHolds, StepKeeps, OffersInit, AnswersStep, OfferingStep, <1>1, <1>2, <1>3, PTL DEF Spec

-----------------------------------------------------------------------------
(* The status that a handler loaded is still the stored one.                 *)
StatusExact == \A r \in Requests : req[r].handler \in Movers => req[r].status = status

LEMMA MoversStep ==
  ASSUME IInv, StatusExact, TakeTurns(Movers), [Next]_vars
  PROVE  /\ StatusExact'
         /\ status' = status \/ <<status, status'>> \in Documented
<1>1. CASE UNCHANGED vars
  BY <1>1 DEF vars, StatusExact
<1>2. ASSUME NEW r \in Requests, Step(r), status' = status
      PROVE  StatusExact'
  <2>1. ASSUME NEW p \in Requests, req'[p].handler \in Movers
        PROVE  req'[p].status = status
    <3>1. CASE req'[p] = req[p]
      BY <2>1, <3>1 DEF StatusExact
    <3>2. CASE req'[p] # req[p]
      <4>1. ~Done(r)
        BY <2>1, <3>2, AfterDone DEF Movers, Handlers
      <4>2. Reads(r)
        BY <1>2, <4>1, ReadsOrDone
      <4>3. QED BY <2>1, <3>2, <4>2, CopyRead DEF StatusExact
    <3>3. QED BY <3>1, <3>2
  <2>2. QED BY <1>2, <2>1 DEF StatusExact
<1>3. ASSUME NEW r \in Requests, Step(r), status' # status
      PROVE  StatusExact' /\ <<status, status'>> \in Documented
  <2>1. PICK h \in Movers : Serving(r, h) /\ status' = Target(h) /\ Done(r)
    BY <1>3, StatusMoves
  <2>2. "none" \notin Movers /\ req[r].handler \in Movers
    BY <2>1 DEF Movers, Handlers, Serving
  <2>3. StatusExact'
    BY <2>1, <2>2, NobodyLeft DEF StatusExact
  <2>4. status \in Allowed(h)
    BY <2>1, <2>2, CopyOf DEF StatusExact, Movers
  <2>5. <<status, Target(h)>> \in Documented
    <3>1. CASE h \in {"Apply", "Withdraw", "Reject"}
      BY <2>4, <3>1 DEF Allowed, Target, Documented, Withdrawable, Open
    <3>2. CASE h \in {"View", "Invite", "RejectInterview"}
      BY <1>3, <2>1, <2>4, <3>2 DEF Allowed, Target, Documented
    <3>3. CASE h \in {"AcceptInterview", "RejectOffer", "SendOffer", "Hire"}
      BY <2>4, <3>3 DEF Allowed, Target, Documented, Offerable
    <3>4. QED BY <3>1, <3>2, <3>3 DEF Movers, Handlers
  <2>6. QED BY <2>1, <2>3, <2>5
<1>4. QED BY <1>1, <1>2, <1>3 DEF Next

(* If the handlers that save a status take turns, it moves along the         *)
(* documented diagram only; an acceptance of the offer, which saves none,    *)
(* may overlap with all of them (run application_resurrected).               *)
THEOREM FlowInTurnIsDocumented == Spec /\ []TakeTurns(Movers) => FollowsDocumentedFlow
<1>1. Init => StatusExact
  BY DEF Init, StatusExact, Idle, Movers, Handlers
<1>2. IInv /\ StatusExact /\ TakeTurns(Movers) /\ [Next]_vars
        => [(<<status, status'>> \in Documented)]_status
  BY MoversStep
<1>3. IInv /\ StatusExact /\ TakeTurns(Movers) /\ [Next]_vars => StatusExact'
  BY MoversStep
<1>4. QED BY InitHolds, StepKeeps, <1>1, <1>2, <1>3, PTL DEF Spec, FollowsDocumentedFlow
=============================================================================
