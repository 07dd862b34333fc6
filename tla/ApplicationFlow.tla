--------------------------- MODULE ApplicationFlow ---------------------------
(***************************************************************************)
(* One row of rc_applications with its interviews, its offer and its flow   *)
(* records, under the handlers of RcApplicationService.  Applications share *)
(* nothing, so one is enough.                                               *)
(*                                                                         *)
(* No handler locks a row.  A request loads the application and checks its  *)
(* status (Load), reads the interview or the offer it needs (one of the     *)
(* Find actions), and in the end saves what changed against the copies it   *)
(* holds, in one transaction; between these steps other requests run.       *)
(***************************************************************************)
EXTENDS Integers, Sequences

CONSTANTS
  Requests,       \* requests served at the same time
  MaxInterviews   \* bound: interview rows of the application

ASSUME BoundIsNatural == MaxInterviews \in Nat

VARIABLES
  status,      \* rc_applications.status, "Absent" before the first application
  interviews,  \* rc_interviews.status in the order of insertion
  offer,       \* rc_offers.status, "Absent" without a row
  consents,    \* the kinds of rc_application_flows rows that record a consent
  req          \* each request: its handler, how far it is, the copies it holds

rows == <<status, interviews, offer, consents>>
vars == <<status, interviews, offer, consents, req>>

-----------------------------------------------------------------------------
Open == {"Pending", "Screening", "Interviewing", "Offering"}

Status == Open \cup {"Hired", "Rejected", "Withdrawn", "Absent"}

InterviewStatus == {"AwaitingCandidate", "Scheduled", "Cancelled"}

OfferStatus == {"Sent", "Accepted", "Rejected", "Absent"}

Consents == {"AcceptInterview", "SendOffer", "AcceptOffer"}

Handlers == {"Apply", "Withdraw", "View", "Invite", "AcceptInterview", "RejectInterview",
             "SendOffer", "AcceptOffer", "RejectOffer", "Hire", "Reject"}

Request ==
  [handler : Handlers \cup {"none"}, ready : BOOLEAN,
   status : Status, interview : 0 .. MaxInterviews, offer : OfferStatus]

Idle == [handler |-> "none", ready |-> FALSE, status |-> "Absent", interview |-> 0, offer |-> "Absent"]

TypeOK ==
  /\ status \in Status
  /\ interviews \in Seq(InterviewStatus) /\ Len(interviews) <= MaxInterviews
  /\ offer \in OfferStatus
  /\ consents \subseteq Consents
  /\ req \in [Requests -> Request]

Init ==
  /\ status = "Absent" /\ interviews = <<>> /\ offer = "Absent" /\ consents = {}
  /\ req = [r \in Requests |-> Idle]

-----------------------------------------------------------------------------
(* Mutant of Withdrawable: whoever was hired may still withdraw. *)
WithdrawableOnceHired == Open \cup {"Hired"}

Withdrawable == Open

(* Mutant of Offerable: an offer may be sent to whoever is screened. *)
OfferableEarly == {"Screening", "Interviewing"}

Offerable == {"Interviewing"}

(* The statuses in which a handler does not refuse at once. *)
Allowed(handler) ==
  CASE handler = "Apply" -> {"Absent", "Withdrawn"}
    [] handler = "Withdraw" -> Withdrawable
    [] handler = "Reject" -> Open
    [] handler = "View" -> {"Pending"}
    [] handler = "Invite" -> {"Pending", "Screening"}
    [] handler \in {"AcceptInterview", "RejectInterview"} -> {"Screening"}
    [] handler = "SendOffer" -> Offerable
    [] handler \in {"AcceptOffer", "RejectOffer", "Hire"} -> {"Offering"}

(* The handlers that read another row before they save. *)
Reading == {"Invite", "AcceptInterview", "RejectInterview",
            "SendOffer", "AcceptOffer", "RejectOffer", "Hire"}

Load(r, handler) ==
  /\ req[r].handler = "none"
  /\ status \in Allowed(handler)
  /\ req' = [req EXCEPT ![r] = [handler |-> handler, ready |-> handler \notin Reading,
                                status |-> status, interview |-> 0, offer |-> "Absent"]]
  /\ UNCHANGED rows

Serving(r, handler) == req[r].handler = handler /\ req[r].ready

(* findPendingInterviewInvitation. *)
Invitations == {i \in DOMAIN interviews : interviews[i] = "AwaitingCandidate"}

FindInvitation(r) ==
  /\ req[r].handler \in {"AcceptInterview", "RejectInterview"} /\ ~req[r].ready
  /\ \E i \in Invitations :
       /\ \A j \in Invitations : j <= i
       /\ req' = [req EXCEPT ![r] = [@ EXCEPT !.ready = TRUE, !.interview = i]]
  /\ UNCHANGED rows

(* Mutant of Invitable: a pending invitation does not matter. *)
InvitableAgain == TRUE

Invitable == Invitations = {}

FindNoInvitation(r) ==
  /\ req[r].handler = "Invite" /\ ~req[r].ready
  /\ Invitable
  /\ req' = [req EXCEPT ![r] = [@ EXCEPT !.ready = TRUE]]
  /\ UNCHANGED rows

(* Mutant of Sendable: an accepted offer may be sent again. *)
SendableAgain == OfferStatus

(* Revoked, the other status that ends an offer, is set by hand only. *)
Sendable == OfferStatus \ {"Accepted"}

(* Mutant of Hirable: an offer that was sent is enough. *)
HirableUnanswered == {"Sent", "Accepted"}

Hirable == {"Accepted"}

(* The offer a handler goes on with. *)
Offers(handler) ==
  CASE handler = "SendOffer" -> Sendable
    [] handler \in {"AcceptOffer", "RejectOffer"} -> {"Sent"}
    [] handler = "Hire" -> Hirable

FindOffer(r) ==
  /\ req[r].handler \in {"SendOffer", "AcceptOffer", "RejectOffer", "Hire"} /\ ~req[r].ready
  /\ offer \in Offers(req[r].handler)
  /\ req' = [req EXCEPT ![r] = [@ EXCEPT !.ready = TRUE, !.offer = offer]]
  /\ UNCHANGED rows

-----------------------------------------------------------------------------
(* Eloquent's save(): an attribute equal to the loaded one is not written. *)
Saved(loaded, stored, new) == IF loaded = new THEN stored ELSE new

MoveTo(r, new) == status' = Saved(req[r].status, status, new)

Done(r) == req' = [req EXCEPT ![r] = Idle]

Record(handler) == consents' = consents \cup ({handler} \cap Consents)

(* A first application is inserted under a unique key; a second insert fails. *)
Apply(r) ==
  /\ Serving(r, "Apply")
  /\ req[r].status = "Absent" => status = "Absent"
  /\ MoveTo(r, "Pending")
  /\ UNCHANGED <<interviews, offer, consents>>
  /\ Done(r)

Withdraw(r) ==
  /\ Serving(r, "Withdraw")
  /\ MoveTo(r, "Withdrawn")
  /\ UNCHANGED <<interviews, offer, consents>>
  /\ Done(r)

MarkScreeningOnRecruiterView(r) ==
  /\ Serving(r, "View")
  /\ MoveTo(r, "Screening")
  /\ UNCHANGED <<interviews, offer, consents>>
  /\ Done(r)

InviteInterview(r) ==
  /\ Serving(r, "Invite")
  /\ Len(interviews) < MaxInterviews
  /\ interviews' = Append(interviews, "AwaitingCandidate")
  /\ MoveTo(r, "Screening")
  /\ UNCHANGED <<offer, consents>>
  /\ Done(r)

AcceptInterviewInvitation(r) ==
  /\ Serving(r, "AcceptInterview")
  /\ interviews' = [interviews EXCEPT ![req[r].interview] = "Scheduled"]
  /\ MoveTo(r, "Interviewing")
  /\ Record("AcceptInterview")
  /\ UNCHANGED offer
  /\ Done(r)

RejectInterviewInvitation(r) ==
  /\ Serving(r, "RejectInterview")
  /\ interviews' = [interviews EXCEPT ![req[r].interview] = "Cancelled"]
  /\ MoveTo(r, "Screening")
  /\ UNCHANGED <<offer, consents>>
  /\ Done(r)

(* An absent offer is inserted, once per application; another is sent anew. *)
SendOffer(r) ==
  /\ Serving(r, "SendOffer")
  /\ req[r].offer = "Absent" => offer = "Absent"
  /\ offer' = Saved(req[r].offer, offer, "Sent")
  /\ MoveTo(r, "Offering")
  /\ Record("SendOffer")
  /\ UNCHANGED interviews
  /\ Done(r)

AcceptOfferInvitation(r) ==
  /\ Serving(r, "AcceptOffer")
  /\ offer' = Saved(req[r].offer, offer, "Accepted")
  /\ Record("AcceptOffer")
  /\ UNCHANGED <<status, interviews>>
  /\ Done(r)

(* Mutant of AfterRefusal: the application stays where it is. *)
OfferingAfterRefusal == "Offering"

(* Mutant of AfterRefusal: the application is given the status of the offer. *)
RefusedAfterRefusal == "Refused"

AfterRefusal == "Interviewing"

RejectOfferInvitation(r) ==
  /\ Serving(r, "RejectOffer")
  /\ offer' = Saved(req[r].offer, offer, "Rejected")
  /\ MoveTo(r, AfterRefusal)
  /\ UNCHANGED <<interviews, consents>>
  /\ Done(r)

Hire(r) ==
  /\ Serving(r, "Hire")
  /\ MoveTo(r, "Hired")
  /\ UNCHANGED <<interviews, offer, consents>>
  /\ Done(r)

Reject(r) ==
  /\ Serving(r, "Reject")
  /\ MoveTo(r, "Rejected")
  /\ UNCHANGED <<interviews, offer, consents>>
  /\ Done(r)

(* The request is refused by what it read, fails, or its worker dies. *)
Abandon(r) ==
  /\ req[r].handler # "none"
  /\ Done(r)
  /\ UNCHANGED rows

(* One step of a request. *)
Step(r) ==
  \/ \E handler \in Handlers : Load(r, handler)
  \/ FindInvitation(r) \/ FindNoInvitation(r) \/ FindOffer(r)
  \/ Apply(r) \/ Withdraw(r) \/ MarkScreeningOnRecruiterView(r)
  \/ InviteInterview(r) \/ AcceptInterviewInvitation(r) \/ RejectInterviewInvitation(r)
  \/ SendOffer(r) \/ AcceptOfferInvitation(r) \/ RejectOfferInvitation(r)
  \/ Hire(r) \/ Reject(r)
  \/ Abandon(r)

Next == \E r \in Requests : Step(r)

Spec == Init /\ [][Next]_vars

-----------------------------------------------------------------------------
(* However requests interleave, nobody gets on without the other side: an    *)
(* interview stage, and any offer, follow an invitation that was accepted,   *)
(* the offer stage an offer that was sent, and an appointment an offer that  *)
(* was accepted, each with its flow record.                                  *)
StagesAreConsented ==
  /\ status \in {"Interviewing", "Offering", "Hired"} => "AcceptInterview" \in consents
  /\ status \in {"Offering", "Hired"} => "SendOffer" \in consents
  /\ offer # "Absent" => {"AcceptInterview", "SendOffer"} \subseteq consents
  /\ offer = "Accepted" \/ status = "Hired" => "AcceptOffer" \in consents

(* No second invitation while one waits for the candidate                    *)
(* (inviteInterview, docs/Rc/投递.md:878).                                   *)
OnePendingInvitation == Invitations = {} \/ \E i \in DOMAIN interviews : Invitations = {i}

(* A stage and the rows it is shown with agree: an interview is scheduled    *)
(* for whoever is being interviewed, and the offer of the offer stage is     *)
(* open or accepted.                                                         *)
StageHasItsRows ==
  /\ status = "Interviewing" => \E i \in DOMAIN interviews : interviews[i] = "Scheduled"
  /\ status = "Offering" => offer \in {"Sent", "Accepted"}

(* hire needs an offer the candidate has accepted (docs/Rc/投递.md:1354).     *)
HiredHasAcceptedOffer == status = "Hired" => offer = "Accepted"

(* The state diagram of docs/Rc/投递.md:1471-1493, with withdrawal (809) and  *)
(* the new application after it (778).                                       *)
Documented ==
  {<<"Absent", "Pending">>, <<"Withdrawn", "Pending">>, <<"Pending", "Screening">>,
   <<"Screening", "Interviewing">>, <<"Interviewing", "Offering">>,
   <<"Offering", "Interviewing">>, <<"Offering", "Hired">>}
    \cup (Open \X {"Rejected", "Withdrawn"})

(* A status changes along an edge of the diagram only: in particular nobody  *)
(* leaves Hired or Rejected.                                                 *)
FollowsDocumentedFlow == [][(<<status, status'>> \in Documented)]_status

(* An accepted offer is neither sent again nor refused                       *)
(* (sendOffer, docs/Rc/投递.md:1193), even in a second application.           *)
AcceptedOfferStays == [][offer = "Accepted" => offer' = "Accepted"]_offer
=============================================================================
