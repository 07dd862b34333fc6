-------------------------- MODULE InteractionRequests --------------------------
(***************************************************************************)
(* The interaction requests of a conversation (im_interaction_requests):    *)
(* the recruiter asks for the candidate's number, or for an answer to the   *)
(* invitation or the offer of the application of ApplicationFlow, and the   *)
(* candidate accepts or rejects.                                            *)
(*                                                                         *)
(* An answer is given in four parts that nothing holds together: the row is *)
(* read, the application is changed by RcApplicationService in its own      *)
(* transaction, the result is posted to the message service, and the row is *)
(* saved against the copy read first.  A failure may come between any two.  *)
(***************************************************************************)
EXTENDS ApplicationFlow

CONSTANTS
  Types,     \* the kinds of request that are made
  MaxAsks    \* bound: rows of im_interaction_requests

ASSUME TypesAssumption ==
  Types \subseteq {"ExchangeContact", "RespondInterviewInvitation", "RespondOffer"}

ASSUME MaxAsksAssumption == MaxAsks \in Nat

VARIABLES
  asks,      \* the rows of im_interaction_requests in the order of insertion
  turn,      \* each HTTP request: what it does with which row
  results    \* the result messages the message service has, by client_msg_id

chat == <<asks, turn, results>>
allVars == <<vars, chat>>

-----------------------------------------------------------------------------
Answers == {"Accepted", "Rejected"}

Ask ==
  [type : Types, status : {"Pending", "Expired"} \cup Answers,
   expires : {"never", "later", "past"}]

Turn ==
  [phase : {"none", "Insert", "Expire", "Apply", "Post", "Save"},
   type : Types \cup {"none"}, ask : 0 .. MaxAsks, answer : Answers \cup {"none"}]

NoTurn == [phase |-> "none", type |-> "none", ask |-> 0, answer |-> "none"]

ChatTypeOK ==
  /\ asks \in Seq(Ask) /\ Len(asks) <= MaxAsks
  /\ turn \in [Requests -> Turn]
  /\ results \subseteq (1 .. MaxAsks) \X Answers

IInit == Init /\ asks = <<>> /\ turn = [r \in Requests |-> NoTurn] /\ results = {}

Free(r) == turn[r].phase = "none" /\ req[r].handler = "none"

EndTurn(r) == turn' = [turn EXCEPT ![r] = NoTurn]

GoOn(r, phase) == turn' = [turn EXCEPT ![r] = [@ EXCEPT !.phase = phase]]

-----------------------------------------------------------------------------
(* existingPendingRequest: expired or not, as long as its row says pending. *)
Askable(type) == \A a \in DOMAIN asks : asks[a].type = type => asks[a].status # "Pending"

CheckNoPending(r, type) ==
  /\ Free(r)
  /\ Askable(type)
  /\ turn' = [turn EXCEPT ![r] = [NoTurn EXCEPT !.phase = "Insert", !.type = type]]
  /\ UNCHANGED <<vars, asks, results>>

(* The message that shows the request is posted after; when that fails, the *)
(* row stays.                                                               *)
Create(r) ==
  /\ turn[r].phase = "Insert"
  /\ Len(asks) < MaxAsks
  /\ \E expires \in {"never", "later"} :
       asks' = Append(asks, [type |-> turn[r].type, status |-> "Pending", expires |-> expires])
  /\ EndTurn(r)
  /\ UNCHANGED <<vars, results>>

(* Time passes expires_at. *)
Lapse(a) ==
  /\ asks[a].expires = "later"
  /\ asks' = [asks EXCEPT ![a] = [@ EXCEPT !.expires = "past"]]
  /\ UNCHANGED <<vars, turn, results>>

-----------------------------------------------------------------------------
(* What an answer calls of RcApplicationService; nothing for the number. *)
HandlerFor(type, answer) ==
  CASE type = "RespondInterviewInvitation" ->
         IF answer = "Accepted" THEN "AcceptInterview" ELSE "RejectInterview"
    [] type = "RespondOffer" ->
         IF answer = "Accepted" THEN "AcceptOffer" ELSE "RejectOffer"
    [] type = "ExchangeContact" -> "none"

(* Mutant of Answerable: an answered request may be answered again. *)
AnswerableAgain(a) == asks[a].status # "Expired"

(* Whatever is not pending is returned as it is. *)
Answerable(a) == asks[a].status = "Pending"

(* Mutant of AfterReading: the result is announced first. *)
AnnounceFirst(type) == "Post"

(* Mutant of AfterReading: the number is given without a message. *)
NumberUnannounced(type) == IF type = "ExchangeContact" THEN "Save" ELSE "Apply"

AfterReading(type) == IF type = "ExchangeContact" THEN "Post" ELSE "Apply"

Actions == {"accept", "reject"}

(* Mutant of StatusFor: the action itself is stored. *)
StatusAsSent(action) == action

StatusFor(action) == IF action = "accept" THEN "Accepted" ELSE "Rejected"

Respond(r, a, action) ==
  /\ Free(r)
  /\ Answerable(a)
  /\ turn' = [turn EXCEPT ![r] =
       [phase |-> IF asks[a].expires = "past" THEN "Expire" ELSE AfterReading(asks[a].type),
        type |-> asks[a].type, ask |-> a, answer |-> StatusFor(action)]]
  /\ UNCHANGED <<vars, asks, results>>

(* The copy was pending, so the new status is always written. *)
SaveStatus(r, new) == asks' = [asks EXCEPT ![turn[r].ask] = [@ EXCEPT !.status = new]]

SaveExpired(r) ==
  /\ turn[r].phase = "Expire"
  /\ SaveStatus(r, "Expired")
  /\ EndTurn(r)
  /\ UNCHANGED <<vars, results>>

(* The application is loaded, and the invitation or the offer looked up. *)
ReadApplication(r) ==
  /\ turn[r].phase = "Apply"
  /\ Load(r, HandlerFor(turn[r].type, turn[r].answer)) \/ FindInvitation(r) \/ FindOffer(r)
  /\ UNCHANGED chat

ApplyAnswer(r) ==
  /\ turn[r].phase = "Apply"
  /\ \/ AcceptInterviewInvitation(r) \/ RejectInterviewInvitation(r)
     \/ AcceptOfferInvitation(r) \/ RejectOfferInvitation(r)
  /\ GoOn(r, "Post")
  /\ UNCHANGED <<asks, results>>

PostResult(r) ==
  /\ turn[r].phase = "Post"
  /\ results' = results \cup {<<turn[r].ask, turn[r].answer>>}
  /\ GoOn(r, "Save")
  /\ UNCHANGED <<vars, asks>>

SaveAnswer(r) ==
  /\ turn[r].phase = "Save"
  /\ SaveStatus(r, turn[r].answer)
  /\ EndTurn(r)
  /\ UNCHANGED <<vars, results>>

(* Something refuses or fails, or the worker dies: what is committed stays. *)
BreakOff(r) ==
  /\ turn[r].phase # "none"
  /\ EndTurn(r)
  /\ Done(r)
  /\ UNCHANGED <<rows, asks, results>>

(* The requests of ApplicationFlow, which know nothing of the conversation. *)
OtherStep(r) == turn[r].phase = "none" /\ Step(r) /\ UNCHANGED chat

INext ==
  \/ \E r \in Requests :
       \/ \E type \in Types : CheckNoPending(r, type)
       \/ Create(r)
       \/ \E a \in DOMAIN asks, action \in Actions : Respond(r, a, action)
       \/ SaveExpired(r) \/ ReadApplication(r) \/ ApplyAnswer(r)
       \/ PostResult(r) \/ SaveAnswer(r) \/ BreakOff(r)
       \/ OtherStep(r)
  \/ \E a \in DOMAIN asks : Lapse(a)

ISpec == IInit /\ [][INext]_allVars

-----------------------------------------------------------------------------
(* What an acceptance stands for in the application. *)
ConsentOf(type) ==
  CASE type = "RespondInterviewInvitation" -> {"AcceptInterview"}
    [] type = "RespondOffer" -> {"AcceptOffer"}
    [] type = "ExchangeContact" -> {}

(* Nobody is told of an acceptance the application does not know: a message  *)
(* that says so follows the accepted invitation or offer                     *)
(* (respond, docs/Rc/IM会话.md:1150).                                        *)
AcceptancesAreApplied ==
  \A a \in DOMAIN asks : <<a, "Accepted">> \in results => ConsentOf(asks[a].type) \subseteq consents

(* An answered row was announced: the other side has the message of the      *)
(* answer the row holds, whatever else it was told.                          *)
AnswersArePosted ==
  \A a \in DOMAIN asks : asks[a].status \in Answers => <<a, asks[a].status>> \in results

(* An answer is given once: a row leaves pending and then stays.             *)
AnswerIsFinal ==
  [][\A a \in DOMAIN asks : asks[a].status # "Pending" => asks'[a].status = asks[a].status]_asks

(* A repeated click sends no second result (docs/Rc/IM会话.md:1152): nobody  *)
(* is told both.                                                             *)
ToldOnce == \A a \in DOMAIN asks : ~(({a} \X Answers) \subseteq results)
=============================================================================
