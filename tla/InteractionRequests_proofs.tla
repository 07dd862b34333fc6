---------------------- MODULE InteractionRequests_proofs ----------------------
(***************************************************************************)
(* For any number of overlapping requests, answers and interaction         *)
(* requests: what the conversation tells is what the application knows.     *)
(***************************************************************************)
EXTENDS InteractionRequests, ApplicationFlow_proofs, SequenceTheorems

(* What a request in the middle of an answer can rely on, t being what it   *)
(* does and q its copies of the application.                                *)
TurnFine(t, q) ==
  /\ t.phase = "Insert" => t.type \in Types
  /\ t.phase \in {"Expire", "Apply", "Post", "Save"} =>
       t.ask \in DOMAIN asks /\ asks[t.ask].type = t.type /\ t.answer \in Answers
  /\ t.phase = "Apply" => q.handler \in {"none", HandlerFor(t.type, t.answer)}
                          /\ t.type \in {"RespondInterviewInvitation", "RespondOffer"}
  /\ t.phase \in {"Post", "Save"} /\ t.answer = "Accepted" => ConsentOf(t.type) \subseteq consents
  /\ t.phase = "Save" => <<t.ask, t.answer>> \in results

(* A message is about a row there is, and its consent is recorded.           *)
ResultsFine ==
  \A x \in results :
    /\ x[1] \in DOMAIN asks
    /\ x[2] = "Accepted" => ConsentOf(asks[x[1]].type) \subseteq consents

CInv ==
  /\ IInv
  /\ ChatTypeOK
  /\ \A r \in Requests : TurnFine(turn[r], req[r])
  /\ ResultsFine
  /\ AnswersArePosted

(* A free request relies on nothing.                                         *)
LEMMA NoTurnIsFine ==
  NoTurn \in Turn /\ \A q : TurnFine(NoTurn, q) /\ TurnFine(NoTurn, q)'
BY MaxAsksAssumption DEF NoTurn, Turn, TurnFine

(* A request that changes its own turn and its own copies only, in a step    *)
(* that takes back no consent.                                               *)
LEMMA TurnReplaced ==
  ASSUME CInv, IInv', NEW r \in Requests, UNCHANGED <<asks, results>>, consents \subseteq consents',
         turn' \in [Requests -> Turn], TurnFine(turn[r], req[r])',
         \A p \in Requests \ {r} : turn'[p] = turn[p] /\ req'[p] = req[p]
  PROVE  CInv'
<1>1. ChatTypeOK' /\ ResultsFine' /\ AnswersArePosted'
  BY DEF CInv, ChatTypeOK, ResultsFine, AnswersArePosted
<1>2. ASSUME NEW p \in Requests  PROVE TurnFine(turn[p], req[p])'
  <2>1. CASE p = r
    BY <2>1
  <2>2. CASE p # r
    <3>1. turn'[p] = turn[p] /\ req'[p] = req[p] /\ TurnFine(turn[p], req[p])
      BY <2>2 DEF CInv
    <3>2. QED BY <3>1 DEF TurnFine
  <2>3. QED BY <2>1, <2>2
<1>3. QED BY <1>1, <1>2 DEF CInv

(* No step takes back a consent.                                             *)
LEMMA ConsentsGrow ==
  ASSUME NEW r \in Requests, Step(r)
  PROVE  consents \subseteq consents'
BY DEF Step, Load, FindInvitation, FindNoInvitation, FindOffer, Apply, Withdraw,
   MarkScreeningOnRecruiterView, InviteInterview, AcceptInterviewInvitation,
   RejectInterviewInvitation, SendOffer, AcceptOfferInvitation, RejectOfferInvitation,
   Hire, Reject, Abandon, Record, rows

(* A step of a request changes its own copies only.                          *)
LEMMA OwnCopies ==
  ASSUME IInv, NEW r \in Requests, Step(r), NEW p \in Requests, p # r
  PROVE  req'[p] = req[p]
<1>1. req \in [Requests -> Request]
  BY DEF IInv, TypeOK
<1>2. PICK q : req' = [req EXCEPT ![r] = q]
  BY DEF Step, Load, FindInvitation, FindNoInvitation, FindOffer, Apply, Withdraw,
     MarkScreeningOnRecruiterView, InviteInterview, AcceptInterviewInvitation,
     RejectInterviewInvitation, SendOffer, AcceptOfferInvitation, RejectOfferInvitation,
     Hire, Reject, Abandon, Done
<1>3. QED BY <1>1, <1>2

LEMMA OtherStepKeeps ==
  ASSUME CInv, NEW r \in Requests, OtherStep(r)
  PROVE  CInv'
<1>1. IInv'
  BY StepKeeps DEF OtherStep, CInv, Next
<1>2. consents \subseteq consents' /\ \A p \in Requests \ {r} : req'[p] = req[p]
  BY ConsentsGrow, OwnCopies DEF OtherStep, CInv
<1>3. turn' = turn /\ UNCHANGED <<asks, results>> /\ turn' \in [Requests -> Turn]
  BY DEF OtherStep, chat, CInv, ChatTypeOK
<1>4. TurnFine(turn[r], req[r])'
  BY <1>3 DEF TurnFine, OtherStep
<1>5. QED BY <1>1, <1>2, <1>3, <1>4, TurnReplaced

LEMMA ReadApplicationKeeps ==
  ASSUME CInv, NEW r \in Requests, ReadApplication(r)
  PROVE  CInv'
<1>1. PICK h : h = HandlerFor(turn[r].type, turn[r].answer)
  OBVIOUS
<1>2. TurnFine(turn[r], req[r]) /\ turn[r].phase = "Apply" /\ turn \in [Requests -> Turn]
  BY DEF ReadApplication, CInv, ChatTypeOK
<1>3. h \in Handlers
  BY <1>1, <1>2 DEF TurnFine, HandlerFor, Handlers, Answers
<1>4. Step(r) /\ UNCHANGED chat
  BY <1>1, <1>3 DEF ReadApplication, Step
<1>5. IInv' /\ consents \subseteq consents' /\ \A p \in Requests \ {r} : req'[p] = req[p]
  BY <1>4, StepKeeps, ConsentsGrow, OwnCopies DEF CInv, Next
<1>6. req'[r].handler = h
  <2>1. req \in [Requests -> Request] /\ req[r].handler \in {"none", h}
    BY <1>1, <1>2 DEF CInv, IInv, TypeOK, TurnFine
  <2>2. CASE Load(r, h)
    BY <2>1, <2>2 DEF Load
  <2>3. CASE FindInvitation(r) \/ FindOffer(r)
    <3>1. req[r].handler = h
      BY <2>1, <2>3 DEF FindInvitation, FindOffer
    <3>2. req'[r].handler = req[r].handler
      BY <2>1, <2>3 DEF FindInvitation, FindOffer, Request
    <3>3. QED BY <3>1, <3>2
  <2>4. QED BY <1>1, <2>2, <2>3 DEF ReadApplication
<1>7. UNCHANGED <<asks, results, turn>> /\ turn' \in [Requests -> Turn]
  BY <1>2, <1>4 DEF chat
<1>8. TurnFine(turn[r], req[r])'
  BY <1>1, <1>2, <1>6, <1>7 DEF TurnFine
<1>9. QED BY <1>5, <1>7, <1>8, TurnReplaced

LEMMA ApplyAnswerKeeps ==
  ASSUME CInv, NEW r \in Requests, ApplyAnswer(r)
  PROVE  CInv'
<1>1. TurnFine(turn[r], req[r]) /\ turn[r].phase = "Apply" /\ turn \in [Requests -> Turn]
  BY DEF ApplyAnswer, CInv, ChatTypeOK
<1>2. Step(r)
  BY DEF ApplyAnswer, Step
<1>3. IInv' /\ consents \subseteq consents' /\ \A p \in Requests \ {r} : req'[p] = req[p]
  BY <1>2, StepKeeps, ConsentsGrow, OwnCopies DEF CInv, Next
<1>4. PICK t : t = [turn[r] EXCEPT !.phase = "Post"] /\ turn' = [turn EXCEPT ![r] = t]
  BY DEF ApplyAnswer, GoOn
<1>5. t \in Turn /\ t.phase = "Post" /\ t.ask = turn[r].ask /\ t.type = turn[r].type
      /\ t.answer = turn[r].answer
  BY <1>1, <1>4 DEF Turn
<1>6. turn' \in [Requests -> Turn] /\ turn'[r] = t /\ \A p \in Requests \ {r} : turn'[p] = turn[p]
  BY <1>1, <1>4, <1>5
<1>7. UNCHANGED <<asks, results>>
  BY DEF ApplyAnswer
<1>8. t.answer = "Accepted" => ConsentOf(t.type) \subseteq consents'
  <2>1. SUFFICES ASSUME t.answer = "Accepted"  PROVE ConsentOf(t.type) \subseteq consents'
    OBVIOUS
  <2>2. CASE AcceptInterviewInvitation(r)
    BY <1>1, <1>5, <2>1, <2>2 DEF AcceptInterviewInvitation, Serving, TurnFine, HandlerFor,
       ConsentOf, Record, Consents
  <2>3. CASE AcceptOfferInvitation(r)
    BY <1>1, <1>5, <2>1, <2>3 DEF AcceptOfferInvitation, Serving, TurnFine, HandlerFor,
       ConsentOf, Record, Consents
  <2>4. CASE RejectInterviewInvitation(r) \/ RejectOfferInvitation(r)
    BY <1>1, <1>5, <2>1, <2>4 DEF RejectInterviewInvitation, RejectOfferInvitation, Serving,
       TurnFine, HandlerFor
  <2>5. QED BY <2>2, <2>3, <2>4 DEF ApplyAnswer
<1>9. TurnFine(turn[r], req[r])'
  BY <1>1, <1>5, <1>6, <1>7, <1>8 DEF TurnFine
<1>10. QED BY <1>3, <1>6, <1>7, <1>9, TurnReplaced

(* A request that is broken off, whatever it holds.                          *)
LEMMA BreakOffKeeps ==
  ASSUME CInv, NEW r \in Requests, BreakOff(r)
  PROVE  CInv'
<1>1. IInv'
  BY IdleIsFine, CopiesReplaced DEF BreakOff, Done, CInv
<1>2. turn \in [Requests -> Turn] /\ req \in [Requests -> Request]
  BY DEF CInv, ChatTypeOK, IInv, TypeOK
<1>3. turn' = [turn EXCEPT ![r] = NoTurn] /\ req' = [req EXCEPT ![r] = Idle]
      /\ UNCHANGED <<asks, results, consents>>
  BY DEF BreakOff, EndTurn, Done, rows
<1>4. turn' \in [Requests -> Turn] /\ turn'[r] = NoTurn
      /\ \A p \in Requests \ {r} : turn'[p] = turn[p] /\ req'[p] = req[p]
  BY <1>2, <1>3, NoTurnIsFine
<1>5. QED BY <1>1, <1>3, <1>4, NoTurnIsFine, TurnReplaced DEF TurnFine, NoTurn

(* A request that starts something, or reads a row that is not the           *)
(* application's.                                                            *)
LEMMA StartKeeps ==
  ASSUME CInv, NEW r \in Requests, UNCHANGED <<vars, asks, results>>, NEW t \in Turn,
         turn' = [turn EXCEPT ![r] = t], TurnFine(t, req[r])
  PROVE  CInv'
<1>1. IInv' /\ req' = req /\ consents' = consents
  BY StepKeeps DEF CInv, vars
<1>2. turn' \in [Requests -> Turn] /\ turn'[r] = t /\ \A p \in Requests \ {r} : turn'[p] = turn[p]
  BY DEF CInv, ChatTypeOK
<1>3. TurnFine(turn[r], req[r])'
  BY <1>1, <1>2 DEF TurnFine
<1>4. QED BY <1>1, <1>2, <1>3, TurnReplaced

LEMMA CheckNoPendingKeeps ==
  ASSUME CInv, NEW r \in Requests, NEW type \in Types, CheckNoPending(r, type)
  PROVE  CInv'
<1>1. PICK t : t = [NoTurn EXCEPT !.phase = "Insert", !.type = type]
  OBVIOUS
<1>2. t = [phase |-> "Insert", type |-> type, ask |-> 0, answer |-> "none"]
  BY <1>1 DEF NoTurn
<1>3. t \in Turn /\ TurnFine(t, req[r])
  BY <1>2, MaxAsksAssumption DEF Turn, TurnFine
<1>4. UNCHANGED <<vars, asks, results>> /\ turn' = [turn EXCEPT ![r] = t]
  BY <1>1 DEF CheckNoPending
<1>5. QED BY <1>3, <1>4, StartKeeps

LEMMA RespondKeeps ==
  ASSUME CInv, NEW r \in Requests, NEW a \in DOMAIN asks, NEW action \in Actions, Respond(r, a, action)
  PROVE  CInv'
<1>0. PICK answer \in Answers : answer = StatusFor(action)
  BY DEF StatusFor, Answers
<1>1. PICK t : /\ t = [phase |-> IF asks[a].expires = "past" THEN "Expire" ELSE AfterReading(asks[a].type),
                       type |-> asks[a].type, ask |-> a, answer |-> answer]
               /\ turn' = [turn EXCEPT ![r] = t]
  BY <1>0 DEF Respond
<1>2. asks[a] \in Ask /\ a \in 0 .. MaxAsks /\ req[r].handler = "none"
  BY MaxAsksAssumption DEF CInv, ChatTypeOK, Respond, Free
<1>3. t \in Turn
  BY <1>1, <1>2 DEF Turn, Ask, AfterReading
<1>4. t.phase \in {"Expire", "Post", "Apply"} /\ t.ask = a /\ t.type = asks[a].type /\ t.answer = answer
  BY <1>1 DEF AfterReading
<1>5. TurnFine(t, req[r])
  <2>1. t.phase # "Insert" /\ t.phase # "Save"
    BY <1>4
  <2>2. t.phase = "Apply" => t.type \in {"RespondInterviewInvitation", "RespondOffer"}
    BY <1>1, <1>2, TypesAssumption DEF AfterReading, Ask
  <2>3. t.phase = "Post" => t.type = "ExchangeContact"
    BY <1>1, <1>2 DEF AfterReading, Ask
  <2>4. QED BY <1>2, <1>4, <2>1, <2>2, <2>3 DEF TurnFine, ConsentOf
<1>6. QED BY <1>1, <1>3, <1>5, StartKeeps DEF Respond

LEMMA PostResultKeeps ==
  ASSUME CInv, NEW r \in Requests, PostResult(r)
  PROVE  CInv'
<1>1. TurnFine(turn[r], req[r]) /\ turn[r].phase = "Post" /\ turn \in [Requests -> Turn]
      /\ turn[r].ask \in 1 .. MaxAsks
  <2>1. TurnFine(turn[r], req[r]) /\ turn[r].phase = "Post" /\ turn \in [Requests -> Turn]
    BY DEF PostResult, CInv, ChatTypeOK
  <2>2. asks \in Seq(Ask) /\ Len(asks) <= MaxAsks
    BY DEF CInv, ChatTypeOK
  <2>3. turn[r].ask \in 1 .. Len(asks) /\ Len(asks) \in Nat
    BY <2>1, <2>2 DEF TurnFine
  <2>4. QED BY <2>1, <2>2, <2>3, MaxAsksAssumption
<1>2. PICK t : t = [turn[r] EXCEPT !.phase = "Save"] /\ turn' = [turn EXCEPT ![r] = t]
  BY DEF PostResult, GoOn
<1>3. t \in Turn /\ t.phase = "Save" /\ t.ask = turn[r].ask /\ t.type = turn[r].type
      /\ t.answer = turn[r].answer
  BY <1>1, <1>2 DEF Turn
<1>4. turn' \in [Requests -> Turn] /\ turn'[r] = t /\ \A p \in Requests \ {r} : turn'[p] = turn[p]
  BY <1>1, <1>2, <1>3
<1>5. UNCHANGED <<vars, asks>> /\ results' = results \cup {<<t.ask, t.answer>>}
  BY <1>3 DEF PostResult
<1>6. IInv'
  BY <1>5, StepKeeps DEF CInv
<1>7. ChatTypeOK'
  BY <1>1, <1>3, <1>4, <1>5 DEF CInv, ChatTypeOK, TurnFine
<1>8. ResultsFine'
  <2>1. ASSUME NEW x \in results'
        PROVE  x[1] \in DOMAIN asks /\ (x[2] = "Accepted" => ConsentOf(asks[x[1]].type) \subseteq consents)
    <3>1. CASE x \in results
      BY <3>1 DEF CInv, ResultsFine
    <3>2. CASE x = <<t.ask, t.answer>>
      BY <1>1, <1>3, <3>2 DEF TurnFine
    <3>3. QED BY <1>5, <3>1, <3>2
  <2>2. QED BY <1>5, <2>1 DEF ResultsFine, vars
<1>9. AnswersArePosted'
  BY <1>5 DEF CInv, AnswersArePosted
<1>10. ASSUME NEW p \in Requests  PROVE TurnFine(turn[p], req[p])'
  <2>1. req' = req /\ consents' = consents /\ asks' = asks /\ results \subseteq results'
        /\ <<t.ask, t.answer>> \in results'
    BY <1>5 DEF vars
  <2>2. CASE p = r
    <3>1. turn'[p] = t
      BY <1>4, <2>2
    <3>2. QED BY <1>1, <1>3, <2>1, <3>1 DEF TurnFine
  <2>3. CASE p # r
    <3>1. turn'[p] = turn[p] /\ TurnFine(turn[p], req[p])
      BY <1>4, <2>3 DEF CInv
    <3>2. QED BY <2>1, <3>1 DEF TurnFine
  <2>4. QED BY <2>2, <2>3
<1>11. QED BY <1>6, <1>7, <1>8, <1>9, <1>10 DEF CInv

(* A step that changes rows, never their kind, or adds one, and may end a    *)
(* turn.                                                                     *)
LEMMA AsksReplaced ==
  ASSUME CInv, UNCHANGED <<vars, results>>, asks' \in Seq(Ask), Len(asks') <= MaxAsks,
         DOMAIN asks \subseteq DOMAIN asks', \A a \in DOMAIN asks : asks'[a].type = asks[a].type,
         turn' \in [Requests -> Turn], \A p \in Requests : turn'[p] \in {turn[p], NoTurn},
         AnswersArePosted'
  PROVE  CInv'
<1>1. IInv' /\ ChatTypeOK' /\ req' = req /\ consents' = consents /\ results' = results
  BY StepKeeps DEF CInv, ChatTypeOK, vars
<1>2. ResultsFine'
  BY <1>1 DEF CInv, ResultsFine
<1>3. ASSUME NEW p \in Requests  PROVE TurnFine(turn[p], req[p])'
  <2>1. CASE turn'[p] = NoTurn
    BY <2>1 DEF TurnFine, NoTurn
  <2>2. CASE turn'[p] = turn[p]
    <3>1. TurnFine(turn[p], req[p])
      BY DEF CInv
    <3>2. QED BY <1>1, <2>2, <3>1 DEF TurnFine
  <2>3. QED BY <2>1, <2>2
<1>4. QED BY <1>1, <1>2, <1>3 DEF CInv

LEMMA TurnEnded ==
  ASSUME CInv, NEW r \in Requests, EndTurn(r)
  PROVE  turn' \in [Requests -> Turn] /\ \A p \in Requests : turn'[p] \in {turn[p], NoTurn}
BY NoTurnIsFine DEF CInv, ChatTypeOK, EndTurn

(* One row gets another status or another expiry.                            *)
LEMMA RowReplaced ==
  ASSUME CInv, NEW a \in DOMAIN asks, NEW new \in Ask, new.type = asks[a].type,
         asks' = [asks EXCEPT ![a] = new], UNCHANGED <<vars, results>>,
         new.status \in Answers => <<a, new.status>> \in results,
         turn' \in [Requests -> Turn], \A p \in Requests : turn'[p] \in {turn[p], NoTurn}
  PROVE  CInv'
<1>1. asks \in Seq(Ask) /\ Len(asks) <= MaxAsks /\ AnswersArePosted
  BY DEF CInv, ChatTypeOK
<1>2. asks' \in Seq(Ask) /\ Len(asks') = Len(asks) /\ DOMAIN asks' = DOMAIN asks
  BY <1>1
<1>3. asks'[a] = new /\ \A b \in DOMAIN asks \ {a} : asks'[b] = asks[b]
  BY <1>1
<1>4. AnswersArePosted'
  BY <1>1, <1>2, <1>3 DEF AnswersArePosted
<1>5. \A b \in DOMAIN asks : asks'[b].type = asks[b].type
  BY <1>3
<1>6. QED BY <1>1, <1>2, <1>4, <1>5, AsksReplaced

LEMMA LapseKeeps ==
  ASSUME CInv, NEW a \in DOMAIN asks, Lapse(a)
  PROVE  CInv'
<1>1. PICK new : new = [asks[a] EXCEPT !.expires = "past"] /\ asks' = [asks EXCEPT ![a] = new]
  BY DEF Lapse
<1>2. asks[a] \in Ask
  BY DEF CInv, ChatTypeOK
<1>3. new \in Ask /\ new.type = asks[a].type /\ new.status = asks[a].status
  BY <1>1, <1>2 DEF Ask
<1>4. new.status \in Answers => <<a, new.status>> \in results
  BY <1>3 DEF CInv, AnswersArePosted
<1>5. UNCHANGED <<vars, results>> /\ turn' = turn /\ turn \in [Requests -> Turn]
  BY DEF Lapse, CInv, ChatTypeOK
<1>6. QED BY <1>1, <1>3, <1>4, <1>5, RowReplaced

LEMMA SaveKeepsChat ==
  ASSUME CInv, NEW r \in Requests, SaveExpired(r) \/ SaveAnswer(r)
  PROVE  CInv'
<1>1. PICK s : /\ \/ turn[r].phase = "Expire" /\ s = "Expired"
                  \/ turn[r].phase = "Save" /\ s = turn[r].answer
               /\ SaveStatus(r, s) /\ EndTurn(r) /\ UNCHANGED <<vars, results>>
  BY DEF SaveExpired, SaveAnswer
<1>2. PICK a : a = turn[r].ask
  OBVIOUS
<1>3. TurnFine(turn[r], req[r])
  BY DEF CInv
<1>4. a \in DOMAIN asks /\ s \in {"Expired"} \cup Answers /\ (s \in Answers => <<a, s>> \in results)
  BY <1>1, <1>2, <1>3 DEF TurnFine, Answers
<1>5. PICK new : new = [asks[a] EXCEPT !.status = s] /\ asks' = [asks EXCEPT ![a] = new]
  BY <1>1, <1>2 DEF SaveStatus
<1>6. asks[a] \in Ask
  BY <1>4 DEF CInv, ChatTypeOK
<1>7. new \in Ask /\ new.type = asks[a].type /\ new.status = s
  BY <1>4, <1>5, <1>6 DEF Ask
<1>8. QED BY <1>1, <1>4, <1>5, <1>7, TurnEnded, RowReplaced

LEMMA CreateKeeps ==
  ASSUME CInv, NEW r \in Requests, Create(r)
  PROVE  CInv'
<1>1. PICK e \in {"never", "later"} :
        asks' = Append(asks, [type |-> turn[r].type, status |-> "Pending", expires |-> e])
  BY DEF Create
<1>2. PICK new : new = [type |-> turn[r].type, status |-> "Pending", expires |-> e]
  OBVIOUS
<1>3. turn[r].type \in Types
  BY DEF Create, CInv, TurnFine
<1>4. new \in Ask /\ new.status \notin Answers
  BY <1>2, <1>3 DEF Ask, Answers
<1>5. asks \in Seq(Ask) /\ AnswersArePosted /\ Len(asks) < MaxAsks /\ asks' = Append(asks, new)
  BY <1>1, <1>2 DEF CInv, ChatTypeOK, Create
<1>6. /\ asks' \in Seq(Ask) /\ Len(asks') = Len(asks) + 1 /\ Len(asks) \in Nat
      /\ \A a \in DOMAIN asks : asks'[a] = asks[a]
      /\ asks'[Len(asks) + 1] = new
      /\ DOMAIN asks = 1 .. Len(asks) /\ DOMAIN asks' = 1 .. Len(asks) + 1
  BY <1>4, <1>5
<1>7. UNCHANGED <<vars, results>> /\ EndTurn(r)
  BY DEF Create
<1>8. AnswersArePosted'
  <2>1. ASSUME NEW a \in DOMAIN asks', asks'[a].status \in Answers
        PROVE  <<a, asks'[a].status>> \in results
    <3>1. a \in DOMAIN asks
      BY <1>4, <1>6, <2>1
    <3>2. QED BY <1>5, <1>6, <2>1, <3>1 DEF AnswersArePosted
  <2>2. QED BY <1>7, <2>1 DEF AnswersArePosted
<1>9. DOMAIN asks \subseteq DOMAIN asks' /\ Len(asks') <= MaxAsks
  BY <1>5, <1>6, MaxAsksAssumption
<1>10. QED BY <1>6, <1>7, <1>8, <1>9, TurnEnded, AsksReplaced

-----------------------------------------------------------------------------
LEMMA ChatInit == IInit => CInv
<1>1. ASSUME IInit  PROVE CInv
  <2>1. IInv
    BY <1>1, InitHolds DEF IInit
  <2>2. ChatTypeOK
    BY <1>1, NoTurnIsFine, MaxAsksAssumption DEF IInit, ChatTypeOK
  <2>3. \A r \in Requests : TurnFine(turn[r], req[r])
    BY <1>1, NoTurnIsFine DEF IInit
  <2>4. QED BY <1>1, <2>1, <2>2, <2>3 DEF CInv, IInit, ResultsFine, AnswersArePosted
<1>2. QED BY <1>1

LEMMA ChatStep ==
  ASSUME CInv, [INext]_allVars
  PROVE  CInv'
<1>1. CASE UNCHANGED allVars
  <2>1. IInv'
    BY <1>1, StepKeeps DEF CInv, allVars
  <2>2. QED BY <1>1, <2>1 DEF allVars, vars, chat, CInv, ChatTypeOK, TurnFine, ResultsFine, AnswersArePosted
<1>2. CASE INext
  BY <1>2, CheckNoPendingKeeps, CreateKeeps, RespondKeeps, SaveKeepsChat, ReadApplicationKeeps,
     ApplyAnswerKeeps, PostResultKeeps, BreakOffKeeps, OtherStepKeeps, LapseKeeps DEF INext
<1>3. QED BY <1>1, <1>2

(* Every reachable state of the conversation is well typed.                  *)
THEOREM ConversationTypeCorrect == ISpec => [](TypeOK /\ ChatTypeOK)
<1>1. CInv => TypeOK /\ ChatTypeOK
  BY DEF CInv, IInv
<1>2. QED BY ChatInit, ChatStep, <1>1, PTL DEF ISpec

(* Answers given in the chat, overlapping and broken off anywhere, leave the *)
(* application as consented as the requests of its own handlers do.          *)
THEOREM ChatKeepsConsents == ISpec => []StagesAreConsented
<1>1. CInv => StagesAreConsented
  BY DEF CInv, IInv, StatusConsented, OfferConsented, StagesAreConsented
<1>2. QED BY ChatInit, ChatStep, <1>1, PTL DEF ISpec

(* No message tells of an acceptance the application does not know.          *)
THEOREM NoEmptyAcceptance == ISpec => []AcceptancesAreApplied
<1>1. CInv => AcceptancesAreApplied
  BY DEF CInv, ResultsFine, AcceptancesAreApplied
<1>2. QED BY ChatInit, ChatStep, <1>1, PTL DEF ISpec

(* No row holds an answer the other side was not told.                       *)
THEOREM NoSilentAnswer == ISpec => []AnswersArePosted
<1>1. CInv => AnswersArePosted
  BY DEF CInv
<1>2. QED BY ChatInit, ChatStep, <1>1, PTL DEF ISpec

-----------------------------------------------------------------------------
(* A request that serves nothing holds no copies.                            *)
NothingHeld == \A r \in Requests : req[r].handler = "none" => req[r] = Idle

LEMMA LoadHolds ==
  ASSUME CInv, NothingHeld, NEW r \in Requests, NEW h \in Handlers, Load(r, h)
  PROVE  NothingHeld'
BY DEF Load, NothingHeld, CInv, IInv, TypeOK, Handlers

LEMMA DoneHolds ==
  ASSUME CInv, NothingHeld, NEW r \in Requests, Done(r)
  PROVE  NothingHeld'
BY DEF Done, NothingHeld, CInv, IInv, TypeOK

LEMMA FindHolds ==
  ASSUME CInv, NothingHeld, NEW r \in Requests, FindInvitation(r) \/ FindNoInvitation(r) \/ FindOffer(r)
  PROVE  NothingHeld'
<1>1. req[r] \in Request /\ req[r].handler # "none"
  BY DEF FindInvitation, FindNoInvitation, FindOffer, CInv, IInv, TypeOK
<1>2. PICK q : /\ req' = [req EXCEPT ![r] = q]
               /\ \/ \E i : q = [req[r] EXCEPT !.ready = TRUE, !.interview = i]
                  \/ q = [req[r] EXCEPT !.ready = TRUE]
                  \/ q = [req[r] EXCEPT !.ready = TRUE, !.offer = offer]
  BY DEF FindInvitation, FindNoInvitation, FindOffer
<1>3. q.handler # "none"
  BY <1>1, <1>2 DEF Request
<1>4. QED BY <1>2, <1>3 DEF NothingHeld, CInv, IInv, TypeOK

LEMMA StepHolds ==
  ASSUME CInv, NothingHeld, NEW r \in Requests, Step(r)
  PROVE  NothingHeld'
<1>1. ASSUME Done(r)  PROVE NothingHeld'
  BY <1>1, DoneHolds
<1>2. QED
  BY <1>1, LoadHolds, FindHolds DEF Step, Apply, Withdraw, MarkScreeningOnRecruiterView,
     InviteInterview, AcceptInterviewInvitation, RejectInterviewInvitation, SendOffer,
     AcceptOfferInvitation, RejectOfferInvitation, Hire, Reject, Abandon

(* What an answer does to the application is what a handler does, and being  *)
(* broken off before anything is loaded does nothing to it.                  *)
LEMMA ChatIsFlow ==
  ASSUME CInv, NothingHeld, [INext]_allVars
  PROVE  NothingHeld' /\ [Next]_vars
<1>1. CASE UNCHANGED vars
  BY <1>1 DEF vars, NothingHeld
<1>2. ASSUME NEW r \in Requests, Step(r)  PROVE NothingHeld' /\ [Next]_vars
  BY <1>2, StepHolds DEF Next
<1>3. ASSUME NEW r \in Requests, ReadApplication(r)  PROVE Step(r)
  <2>1. HandlerFor(turn[r].type, turn[r].answer) \in Handlers
    BY <1>3 DEF ReadApplication, CInv, TurnFine, HandlerFor, Handlers
  <2>2. QED BY <1>3, <2>1 DEF ReadApplication, Step
<1>4. ASSUME NEW r \in Requests, ApplyAnswer(r)  PROVE Step(r)
  BY <1>4 DEF ApplyAnswer, Step
<1>5. ASSUME NEW r \in Requests, BreakOff(r)  PROVE NothingHeld' /\ [Next]_vars
  <2>1. CASE req[r].handler = "none"
    <3>1. req' = req
      BY <1>5, <2>1 DEF BreakOff, Done, NothingHeld, CInv, IInv, TypeOK
    <3>2. QED BY <1>1, <1>5, <3>1 DEF BreakOff, rows, vars
  <2>2. CASE req[r].handler # "none"
    BY <1>2, <1>5, <2>2 DEF BreakOff, Abandon, Step
  <2>3. QED BY <2>1, <2>2
<1>6. QED
  BY <1>1, <1>2, <1>3, <1>4, <1>5 DEF INext, CheckNoPending, Create, Respond, SaveExpired,
     PostResult, SaveAnswer, OtherStep, Lapse, allVars

(* The conversation does nothing to an application that the handlers of the  *)
(* application could not do by themselves: it implements ApplicationFlow.    *)
THEOREM ChatImplementsFlow == ISpec => Spec
<1>1. IInit => Init /\ NothingHeld
  BY DEF IInit, Init, NothingHeld
<1>2. QED BY ChatInit, ChatStep, ChatIsFlow, <1>1, PTL DEF ISpec, Spec

(* What is proved of the handlers of the application under the condition     *)
(* that they take turns holds of the answers in the chat, which call them.   *)
THEOREM ChatKeepsTheRows ==
  ISpec /\ []TakeTurns({"Invite"}) /\ []TakeTurns(InvitationAnswers) /\ []TakeTurns(OfferWriters)
    => [](OnePendingInvitation /\ StageHasItsRows /\ HiredHasAcceptedOffer)
BY ChatImplementsFlow, OneInvitationWaits, StagesHaveTheirRows, HiredHaveAccepted, PTL

(* So does the documented diagram, and that an accepted offer stays.         *)
THEOREM ChatFollowsTheFlow ==
  ISpec /\ []TakeTurns(Movers) /\ []TakeTurns(OfferWriters)
    => FollowsDocumentedFlow /\ AcceptedOfferStays
BY ChatImplementsFlow, FlowInTurnIsDocumented, AcceptedOffersStand, PTL

-----------------------------------------------------------------------------
(* What the code does not enforce: a row is answered by one request at a     *)
(* time, as if respond locked it.                                            *)
Answering(r) == turn[r].phase \in {"Expire", "Apply", "Post", "Save"}

OneAnswerAtATime ==
  \A r, s \in Requests : Answering(r) /\ Answering(s) /\ turn[r].ask = turn[s].ask => r = s

(* The row that is being answered is still pending.                          *)
StillPending ==
  \A r \in Requests : Answering(r) => asks[turn[r].ask].status = "Pending"

(* How a step may change the rows, the turns and the messages: nobody's turn *)
(* but that of the request that steps, and no row but the one it answers.    *)
LEMMA ChatMoves ==
  ASSUME CInv, [INext]_allVars
  PROVE  \/ /\ turn' = turn /\ results' = results
            /\ \A a \in DOMAIN asks : asks'[a].status = asks[a].status
         \/ \E r \in Requests :
              /\ \A p \in Requests : p # r => turn'[p] = turn[p]
              /\ \/ /\ ~Answering(r)' /\ results' = results
                    /\ \A a \in DOMAIN asks : asks'[a] = asks[a]
                    /\ turn[r].phase = "Save" => BreakOff(r)
                 \/ /\ ~Answering(r) /\ asks' = asks /\ results' = results
                    /\ asks[turn'[r].ask].status = "Pending" /\ turn'[r].phase # "Save"
                 \/ /\ Answering(r) /\ turn[r].phase # "Save" /\ asks' = asks /\ results' = results
                    /\ turn'[r].ask = turn[r].ask /\ turn'[r].phase # "Save"
                 \/ /\ PostResult(r)
                    /\ turn'[r].ask = turn[r].ask /\ turn'[r].answer = turn[r].answer
                    /\ turn'[r].phase = "Save"
                 \/ /\ SaveExpired(r) \/ SaveAnswer(r)
                    /\ ~Answering(r)' /\ results' = results
                    /\ \A a \in DOMAIN asks : a # turn[r].ask => asks'[a] = asks[a]
<1>1. /\ asks \in Seq(Ask) /\ turn \in [Requests -> Turn]
      /\ \A r \in Requests : turn[r] \in Turn
  BY DEF CInv, ChatTypeOK
<1>2. PICK n \in Nat : n = Len(asks) /\ DOMAIN asks = 1 .. n
  BY <1>1
<1>3. ASSUME NEW r \in Requests, EndTurn(r)
      PROVE  ~Answering(r)' /\ \A p \in Requests : p # r => turn'[p] = turn[p]
  BY <1>1, <1>3 DEF EndTurn, NoTurn, Answering
<1>4. ASSUME NEW r \in Requests, NEW phase, GoOn(r, phase)
      PROVE  /\ turn'[r].phase = phase /\ turn'[r].ask = turn[r].ask /\ turn'[r].answer = turn[r].answer
             /\ \A p \in Requests : p # r => turn'[p] = turn[p]
  BY <1>1, <1>4 DEF GoOn, Turn
<1>5. ASSUME NEW r \in Requests, NEW type \in Types, CheckNoPending(r, type)
      PROVE  /\ ~Answering(r)' /\ asks' = asks /\ results' = results /\ turn[r].phase # "Save"
             /\ \A p \in Requests : p # r => turn'[p] = turn[p]
  BY <1>1, <1>5 DEF CheckNoPending, Free, NoTurn, Answering
<1>6. ASSUME NEW r \in Requests, Create(r)
      PROVE  /\ ~Answering(r)' /\ results' = results /\ turn[r].phase # "Save"
             /\ \A p \in Requests : p # r => turn'[p] = turn[p]
             /\ \A a \in DOMAIN asks : asks'[a] = asks[a]
  <2>1. PICK new : asks' = Append(asks, new)
    BY <1>6 DEF Create
  <2>2. \A a \in DOMAIN asks : asks'[a] = asks[a]
    BY <1>1, <1>2, <2>1
  <2>3. QED BY <1>3, <1>6, <2>2 DEF Create
<1>7. ASSUME NEW r \in Requests, NEW a \in DOMAIN asks, NEW action \in Actions, Respond(r, a, action)
      PROVE  /\ ~Answering(r) /\ asks' = asks /\ results' = results
             /\ asks[turn'[r].ask].status = "Pending" /\ turn'[r].phase # "Save"
             /\ \A p \in Requests : p # r => turn'[p] = turn[p]
  BY <1>1, <1>7 DEF Respond, Free, Answering, Answerable, AfterReading
<1>8. ASSUME NEW r \in Requests, SaveExpired(r) \/ SaveAnswer(r)
      PROVE  /\ ~Answering(r)' /\ results' = results
             /\ \A p \in Requests : p # r => turn'[p] = turn[p]
             /\ \A a \in DOMAIN asks : a # turn[r].ask => asks'[a] = asks[a]
  BY <1>1, <1>3, <1>8 DEF SaveExpired, SaveAnswer, SaveStatus
<1>9. ASSUME NEW r \in Requests, ApplyAnswer(r)
      PROVE  /\ Answering(r) /\ turn[r].phase # "Save" /\ asks' = asks /\ results' = results
             /\ turn'[r].ask = turn[r].ask /\ turn'[r].phase # "Save"
             /\ \A p \in Requests : p # r => turn'[p] = turn[p]
  BY <1>4, <1>9 DEF ApplyAnswer, Answering
<1>10. ASSUME NEW r \in Requests, BreakOff(r)
       PROVE  /\ ~Answering(r)' /\ asks' = asks /\ results' = results
              /\ \A p \in Requests : p # r => turn'[p] = turn[p]
  BY <1>3, <1>10 DEF BreakOff
<1>11. ASSUME NEW a \in DOMAIN asks, Lapse(a)
       PROVE  /\ turn' = turn /\ results' = results
              /\ \A b \in DOMAIN asks : asks'[b].status = asks[b].status
  <2>1. PICK new : new = [asks[a] EXCEPT !.expires = "past"] /\ asks' = [asks EXCEPT ![a] = new]
    BY <1>11 DEF Lapse
  <2>2. asks[a] \in Ask
    BY <1>1
  <2>3. new.status = asks[a].status
    BY <2>1, <2>2 DEF Ask
  <2>4. \A b \in DOMAIN asks : asks'[b].status = asks[b].status
    BY <2>1, <2>3
  <2>5. QED BY <1>11, <2>4 DEF Lapse
<1>12. ASSUME NEW r \in Requests, PostResult(r)
       PROVE  /\ turn'[r].ask = turn[r].ask /\ turn'[r].answer = turn[r].answer
              /\ turn'[r].phase = "Save"
              /\ \A p \in Requests : p # r => turn'[p] = turn[p]
  BY <1>4, <1>12 DEF PostResult
<1>13. ASSUME NEW r \in Requests, ReadApplication(r) \/ OtherStep(r) \/ UNCHANGED allVars
       PROVE  turn' = turn /\ results' = results /\ asks' = asks
  BY <1>13 DEF ReadApplication, OtherStep, chat, allVars
<1>14. CASE UNCHANGED allVars
  BY <1>14 DEF allVars, chat
<1>15. QED
  BY <1>5, <1>6, <1>7, <1>8, <1>9, <1>10, <1>11, <1>12, <1>13, <1>14 DEF INext

(* Only the request that answers a row saves it, and then nobody else does.  *)
LEMMA AnsweredOnce ==
  ASSUME CInv, StillPending, OneAnswerAtATime, [INext]_allVars
  PROVE  /\ StillPending'
         /\ \A a \in DOMAIN asks : asks[a].status # "Pending" => asks'[a].status = asks[a].status
<1>1. \A p \in Requests : Answering(p) => turn[p].ask \in DOMAIN asks
  BY DEF CInv, TurnFine, Answering
<1>2. CASE /\ turn' = turn
           /\ \A a \in DOMAIN asks : asks'[a].status = asks[a].status
  BY <1>1, <1>2 DEF StillPending, Answering
<1>3. ASSUME NEW r \in Requests, \A p \in Requests : p # r => turn'[p] = turn[p],
             \A a \in DOMAIN asks : asks'[a] = asks[a],
             Answering(r)' => asks[turn'[r].ask].status = "Pending" /\ turn'[r].ask \in DOMAIN asks
      PROVE  StillPending'
  <2>1. ASSUME NEW p \in Requests, Answering(p)'  PROVE asks'[turn'[p].ask].status = "Pending"
    <3>1. CASE p = r
      BY <1>3, <2>1, <3>1
    <3>2. CASE p # r
      <4>1. turn'[p] = turn[p] /\ Answering(p)
        BY <1>3, <2>1, <3>2 DEF Answering
      <4>2. QED BY <1>1, <1>3, <4>1 DEF StillPending
    <3>3. QED BY <3>1, <3>2
  <2>2. QED BY <2>1 DEF StillPending
<1>4. ASSUME NEW r \in Requests, \A p \in Requests : p # r => turn'[p] = turn[p],
             SaveExpired(r) \/ SaveAnswer(r), ~Answering(r)',
             \A a \in DOMAIN asks : a # turn[r].ask => asks'[a] = asks[a]
      PROVE  /\ StillPending'
             /\ \A a \in DOMAIN asks : asks[a].status # "Pending" => asks'[a].status = asks[a].status
  <2>1. Answering(r)
    BY <1>4 DEF SaveExpired, SaveAnswer, Answering
  <2>2. ASSUME NEW p \in Requests, Answering(p)'  PROVE asks'[turn'[p].ask].status = "Pending"
    <3>1. p # r /\ turn'[p] = turn[p] /\ Answering(p)
      BY <1>4, <2>2 DEF Answering
    <3>2. turn[p].ask # turn[r].ask /\ turn[p].ask \in DOMAIN asks
      BY <1>1, <2>1, <3>1 DEF OneAnswerAtATime
    <3>3. QED BY <1>4, <3>1, <3>2 DEF StillPending
  <2>3. asks[turn[r].ask].status = "Pending"
    BY <2>1 DEF StillPending
  <2>4. QED BY <1>4, <2>2, <2>3 DEF StillPending
<1>5. ASSUME NEW r \in Requests, Answering(r)'  PROVE turn'[r].ask \in DOMAIN asks'
  <2>1. CInv'
    BY ChatStep
  <2>2. QED BY <1>5, <2>1 DEF CInv, TurnFine, Answering
<1>6. ASSUME NEW r \in Requests, Answering(r), turn'[r].ask = turn[r].ask, asks' = asks
      PROVE  asks[turn'[r].ask].status = "Pending" /\ turn'[r].ask \in DOMAIN asks
  BY <1>1, <1>6 DEF StillPending
<1>7. \A r \in Requests : PostResult(r) => Answering(r) /\ asks' = asks
  BY DEF PostResult, Answering
<1>8. QED
  BY <1>2, <1>3, <1>4, <1>5, <1>6, <1>7, ChatMoves

LEMMA PendingInit == IInit => StillPending
BY DEF IInit, StillPending, Answering, NoTurn

(* If no two requests answer the same row at once, an answer, and an expiry, *)
(* is given once, whatever overlaps besides (respond).                       *)
THEOREM AnswersAreFinal == ISpec /\ []OneAnswerAtATime => AnswerIsFinal
<1>1. CInv /\ StillPending /\ OneAnswerAtATime /\ [INext]_allVars => StillPending'
  BY AnsweredOnce
<1>2. CInv /\ StillPending /\ OneAnswerAtATime /\ [INext]_allVars =>
        [\A a \in DOMAIN asks : asks[a].status # "Pending" => asks'[a].status = asks[a].status]_asks
  BY AnsweredOnce
<1>3. QED BY ChatInit, ChatStep, PendingInit, <1>1, <1>2, PTL DEF ISpec, AnswerIsFinal

-----------------------------------------------------------------------------
(* What was told of a row is what it holds, or what the request that is      *)
(* about to save it posted.                                                  *)
ToldFine ==
  \A x \in results :
    \/ asks[x[1]].status = x[2]
    \/ \E r \in Requests : turn[r].phase = "Save" /\ turn[r].ask = x[1] /\ turn[r].answer = x[2]

(* What the code cannot promise: nobody stops between the message and the    *)
(* row (BreakOff).                                                           *)
FinishesOnceTold == \A r \in Requests : turn[r].phase = "Save" => ~BreakOff(r)

LEMMA ToldStays ==
  ASSUME CInv, StillPending, ToldFine, FinishesOnceTold \/ UNCHANGED allVars, [INext]_allVars
  PROVE  ToldFine'
<1>1. /\ asks \in Seq(Ask) /\ turn \in [Requests -> Turn]
      /\ \A x \in results : x[1] \in DOMAIN asks /\ x[2] \in Answers
  BY DEF CInv, ChatTypeOK, ResultsFine
<1>2. CASE UNCHANGED allVars
  BY <1>2 DEF ToldFine, allVars, chat
<1>3. CASE /\ turn' = turn /\ results' = results
           /\ \A a \in DOMAIN asks : asks'[a].status = asks[a].status
  BY <1>1, <1>3 DEF ToldFine
<1>4. ASSUME NEW r \in Requests, \A p \in Requests : p # r => turn'[p] = turn[p], turn[r].phase # "Save",
             results' = results, \A x \in results : asks'[x[1]].status = asks[x[1]].status
      PROVE  ToldFine'
  BY <1>4 DEF ToldFine
<1>5. ASSUME NEW r \in Requests, \A p \in Requests : p # r => turn'[p] = turn[p], PostResult(r),
             turn'[r].ask = turn[r].ask, turn'[r].answer = turn[r].answer, turn'[r].phase = "Save"
      PROVE  ToldFine'
  <2>1. asks' = asks /\ results' = results \cup {<<turn[r].ask, turn[r].answer>>} /\ turn[r].phase = "Post"
    BY <1>5 DEF PostResult
  <2>2. ASSUME NEW x \in results
        PROVE  \/ asks'[x[1]].status = x[2]
               \/ \E q \in Requests : turn'[q].phase = "Save" /\ turn'[q].ask = x[1] /\ turn'[q].answer = x[2]
    BY <1>5, <2>1 DEF ToldFine
  <2>3. QED BY <1>5, <2>1, <2>2 DEF ToldFine
<1>6. ASSUME NEW r \in Requests, \A p \in Requests : p # r => turn'[p] = turn[p],
             SaveExpired(r) \/ SaveAnswer(r), results' = results,
             \A a \in DOMAIN asks : a # turn[r].ask => asks'[a] = asks[a]
      PROVE  ToldFine'
  <2>1. /\ turn[r].ask \in DOMAIN asks /\ asks[turn[r].ask].status = "Pending"
        /\ asks[turn[r].ask] \in Ask
    <3>1. Answering(r) /\ TurnFine(turn[r], req[r])
      BY <1>6 DEF SaveExpired, SaveAnswer, Answering, CInv
    <3>2. turn[r].ask \in DOMAIN asks /\ asks[turn[r].ask].status = "Pending"
      BY <3>1 DEF StillPending, Answering, TurnFine
    <3>3. QED BY <1>1, <3>2
  <2>2. turn[r].phase = "Save" => asks'[turn[r].ask].status = turn[r].answer
    BY <1>1, <1>6, <2>1 DEF SaveExpired, SaveAnswer, SaveStatus, Ask
  <2>3. ASSUME NEW x \in results
        PROVE  \/ asks'[x[1]].status = x[2]
               \/ \E q \in Requests : turn'[q].phase = "Save" /\ turn'[q].ask = x[1] /\ turn'[q].answer = x[2]
    <3>1. CASE asks[x[1]].status = x[2]
      <4>1. x[1] # turn[r].ask
        BY <1>1, <2>1, <3>1 DEF Answers
      <4>2. QED BY <1>1, <1>6, <3>1, <4>1
    <3>2. ASSUME NEW q \in Requests, turn[q].phase = "Save", turn[q].ask = x[1], turn[q].answer = x[2]
          PROVE  \/ asks'[x[1]].status = x[2]
                 \/ turn'[q].phase = "Save" /\ turn'[q].ask = x[1] /\ turn'[q].answer = x[2]
      BY <1>6, <2>2, <3>2
    <3>3. QED BY <3>1, <3>2 DEF ToldFine
  <2>4. QED BY <1>6, <2>3 DEF ToldFine
<1>7. ASSUME NEW r \in Requests, FinishesOnceTold, turn[r].phase = "Save" => BreakOff(r)
      PROVE  turn[r].phase # "Save"
  BY <1>7 DEF FinishesOnceTold
<1>8. \A r \in Requests : ~Answering(r) => turn[r].phase # "Save"
  BY DEF Answering
<1>9. (\A a \in DOMAIN asks : asks'[a] = asks[a]) => \A x \in results : asks'[x[1]].status = asks[x[1]].status
  BY <1>1
<1>10. QED
  BY <1>2, <1>3, <1>4, <1>5, <1>6, <1>7, <1>8, <1>9, ChatMoves

(* If no two requests answer the same row at once and none breaks off        *)
(* between telling and saving, the other side is told one answer of each row *)
(* (respond, docs/Rc/IM会话.md:1152): these two are the only ways to be told  *)
(* both.                                                                     *)
THEOREM OneIsTold ==
  ISpec /\ []OneAnswerAtATime /\ [][FinishesOnceTold]_allVars => []ToldOnce
<1>1. IInit => ToldFine
  BY DEF IInit, ToldFine
<1>2. CInv /\ StillPending /\ OneAnswerAtATime /\ [INext]_allVars => StillPending'
  BY AnsweredOnce
<1>3. CInv /\ StillPending /\ ToldFine /\ [FinishesOnceTold]_allVars /\ [INext]_allVars => ToldFine'
  BY ToldStays
<1>4. ASSUME CInv, StillPending, ToldFine, OneAnswerAtATime  PROVE ToldOnce
  <2>1. SUFFICES ASSUME NEW a \in DOMAIN asks, <<a, "Accepted">> \in results, <<a, "Rejected">> \in results
                 PROVE  FALSE
    BY DEF ToldOnce, Answers
  <2>2. \A r \in Requests : turn[r].phase = "Save" /\ turn[r].ask = a => asks[a].status = "Pending"
    BY <1>4 DEF StillPending, Answering
  <2>3. \A r, s \in Requests : turn[r].phase = "Save" /\ turn[r].ask = a /\ turn[s].phase = "Save"
                               /\ turn[s].ask = a => r = s
    BY <1>4 DEF OneAnswerAtATime, Answering
  <2>4. \/ asks[a].status = "Accepted"
        \/ \E r \in Requests : turn[r].phase = "Save" /\ turn[r].ask = a /\ turn[r].answer = "Accepted"
    BY <1>4, <2>1 DEF ToldFine
  <2>5. \/ asks[a].status = "Rejected"
        \/ \E r \in Requests : turn[r].phase = "Save" /\ turn[r].ask = a /\ turn[r].answer = "Rejected"
    BY <1>4, <2>1 DEF ToldFine
  <2>6. QED BY <2>2, <2>3, <2>4, <2>5
<1>5. QED BY ChatInit, ChatStep, PendingInit, <1>1, <1>2, <1>3, <1>4, PTL DEF ISpec
=============================================================================
