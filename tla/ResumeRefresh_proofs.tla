------------------------- MODULE ResumeRefresh_proofs -------------------------
(***************************************************************************)
(* Proofs about ResumeRefresh, for any number of requests, days and units.  *)
(*                                                                         *)
(* The user's row lock lets one request in at a time; while it is inside,   *)
(* the log does not change, so what it found on the day it looked up still  *)
(* holds when it commits, and no log is of a later day, so what it inserts  *)
(* after a midnight is the first of its day.                                *)
(***************************************************************************)
EXTENDS ResumeRefresh, TLAPS

OneInside ==
  \A r, s \in Requests : req[r].phase \in Locked /\ req[s].phase \in Locked => r = s

NoLogOfTomorrow == \A l \in logs : l.day <= today

LoggedAfterLooking == \A l \in logs : l.checked <= l.day

(* What a request in the state q relies on. *)
Relies(q) ==
  /\ q.phase \in Locked => q.checked <= today /\ \A l \in logs : l.day <= q.checked
  /\ q.phase = "Pay" => FreeLogged(q.checked)
  /\ q.phase \in {"Persist", "Commit"} /\ q.free => ~FreeLogged(q.checked)
  /\ q.phase \in {"Persist", "Commit"} /\ ~q.free => FreeLogged(q.checked) /\ balance > 0
  /\ q.phase = "Commit" => q.checked <= q.day /\ q.day <= today
  /\ q.phase = "Set" /\ q.counted => FreeLogged(q.day)

IInv ==
  /\ TypeOK /\ OneInside /\ NoLogOfTomorrow /\ LoggedAfterLooking
  /\ \A r \in Requests : Relies(req[r])
  /\ SummaryIsTrue /\ PaidOnlyAfterFree

USE BoundsAssumption

-----------------------------------------------------------------------------
LEMMA IdleFacts ==
  /\ Idle \in Request /\ Relies(Idle)
  /\ Idle.phase = "idle" /\ Idle.phase \notin Locked
<1>1. Idle \in Request
  BY SMT DEF Idle, Request, Days
<1>2. Idle.phase = "idle"
  BY DEF Idle
<1> QED BY <1>1, <1>2, SMT DEF Relies, Locked, Idle

LEMMA InitIInv == Init => IInv
<1> SUFFICES ASSUME Init PROVE IInv
  OBVIOUS
<1>1. \A r \in Requests : req[r] = Idle
  BY DEF Init
<1>2. TypeOK
  BY <1>1, IdleFacts, SMT DEF Init, TypeOK, Days
<1> QED
  BY <1>1, <1>2, IdleFacts DEF IInv, Init, OneInside, NoLogOfTomorrow, LoggedAfterLooking, SummaryIsTrue,
     PaidOnlyAfterFree

(* One request moves, the log does not lose a row.                           *)
LEMMA RequestKeeps ==
  ASSUME IInv, NEW r \in Requests, NEW q \in Request, Become(r, q), Relies(q),
         q.phase \in Locked => req[r].phase \in Locked \/ ~Busy,
         UNCHANGED <<today, balance, logs>>,
         summary' \subseteq Days, SummaryIsTrue'
  PROVE  IInv'
<1> USE DEF IInv
<1>1. req' \in [Requests -> Request] /\ \A s \in Requests : req'[s] = IF s = r THEN q ELSE req[s]
  BY DEF Become, TypeOK
<1>2. TypeOK'
  BY <1>1 DEF TypeOK
<1>3. OneInside'
  BY <1>1 DEF OneInside, Busy
<1>4. (NoLogOfTomorrow /\ LoggedAfterLooking /\ PaidOnlyAfterFree)'
  BY DEF NoLogOfTomorrow, LoggedAfterLooking, PaidOnlyAfterFree, FreeLogged
<1>5. ASSUME NEW s \in Requests  PROVE Relies(req[s])'
  <2>1. CASE s = r
    <3>1. req'[s] = q
      BY <1>1, <2>1
    <3> QED BY <3>1 DEF Relies, FreeLogged
  <2>2. CASE s # r
    <3>1. req'[s] = req[s] /\ Relies(req[s])
      BY <1>1, <2>2
    <3> QED BY <3>1 DEF Relies, FreeLogged
  <2> QED BY <2>1, <2>2
<1> QED BY <1>2, <1>3, <1>4, <1>5

(* A step that leaves Redis alone as well.                                   *)
LEMMA QuietRequestKeeps ==
  ASSUME IInv, NEW r \in Requests, NEW q \in Request, Become(r, q), Relies(q),
         q.phase \in Locked => req[r].phase \in Locked \/ ~Busy,
         UNCHANGED <<today, balance, logs, summary>>
  PROVE  IInv'
<1>1. summary' \subseteq Days /\ SummaryIsTrue'
  BY DEF IInv, TypeOK, SummaryIsTrue, FreeLogged
<1> QED BY <1>1, RequestKeeps

LEMMA RequestFacts ==
  ASSUME IInv, NEW r \in Requests
  PROVE  /\ req[r] \in Request /\ Relies(req[r])
         /\ req[r].checked \in Days /\ req[r].day \in Days
         /\ req[r].free \in BOOLEAN /\ req[r].counted \in BOOLEAN
<1>1. req[r] \in Request /\ Relies(req[r])
  BY DEF IInv, TypeOK
<1> QED BY <1>1 DEF Request

-----------------------------------------------------------------------------
LEMMA IdleKeeps ==
  ASSUME IInv, NEW r \in Requests, Refuse(r) \/ Rollback(r) \/ LoseSummary(r)
  PROVE  IInv'
<1>1. Become(r, Idle) /\ UNCHANGED <<today, balance, logs, summary>>
  BY DEF Refuse, Rollback, LoseSummary
<1> QED BY <1>1, IdleFacts, QuietRequestKeeps

LEMMA LockKeeps ==
  ASSUME IInv, NEW r \in Requests, Lock(r)
  PROVE  IInv'
<1> DEFINE q == [Idle EXCEPT !.phase = "Check", !.checked = today]
<1>1. Become(r, q) /\ UNCHANGED <<today, balance, logs, summary>> /\ ~Busy
  BY DEF Lock
<1>2. today \in Days /\ "Check" \in ({"idle", "Summary", "Set"} \cup Locked)
  BY DEF IInv, TypeOK, Locked
<1>3. q \in Request
  BY <1>2, IdleFacts, Zenon DEF Request
<1>4. q.phase = "Check" /\ q.checked = today
  BY SMT DEF Idle
<1> HIDE DEF q
<1>5. Relies(q)
  <2>1. today <= today /\ \A l \in logs : l.day <= today
    BY <1>2, SMT DEF IInv, NoLogOfTomorrow, Days
  <2> QED BY <1>1, <1>4, <2>1, SMT DEF Relies, Locked
<1> QED BY <1>1, <1>3, <1>5, QuietRequestKeeps

LEMMA FindKeeps ==
  ASSUME IInv, NEW r \in Requests, FindUnused(r) \/ FindUsed(r) \/ Consume(r)
  PROVE  IInv'
<1>f. req[r] \in Request /\ Relies(req[r])
  BY RequestFacts
<1>p. {"Pay", "Persist"} \subseteq Locked /\ Locked \subseteq {"idle", "Summary", "Set"} \cup Locked
  BY DEF Locked
<1>1. CASE FindUnused(r)
  <2> DEFINE q == [req[r] EXCEPT !.phase = "Persist", !.free = TRUE]
  <2>1. Become(r, q) /\ UNCHANGED <<today, balance, logs, summary>>
        /\ req[r].phase = "Check" /\ ~FreeLogged(req[r].checked)
    BY <1>1 DEF FindUnused, UsedByLog
  <2>2. "Persist" \in ({"idle", "Summary", "Set"} \cup Locked) /\ TRUE \in BOOLEAN
    BY <1>p
  <2>3. q \in Request
    BY <1>f, <2>2, Zenon DEF Request
  <2>4. q.phase = "Persist" /\ q.free = TRUE /\ q.checked = req[r].checked
    BY <1>f, SMT DEF Request
  <2> HIDE DEF q
  <2>5. Relies(q)
    <3>1. req[r].checked <= today /\ \A l \in logs : l.day <= req[r].checked
      BY <1>f, <2>1 DEF Relies, Locked
    <3> QED BY <2>1, <2>4, <3>1 DEF Relies, FreeLogged
  <2>6. req[r].phase \in Locked
    BY <2>1 DEF Locked
  <2> QED BY <2>1, <2>3, <2>5, <2>6, QuietRequestKeeps
<1>2. CASE FindUsed(r)
  <2> DEFINE q == [req[r] EXCEPT !.phase = "Pay"]
  <2>1. Become(r, q) /\ UNCHANGED <<today, balance, logs, summary>> /\ req[r].phase = "Check"
    BY <1>2 DEF FindUsed
  <2>2. FreeLogged(req[r].checked)
    BY <1>2 DEF FindUsed, HasUsed, UsedByLog, IInv, SummaryIsTrue
  <2>3. "Pay" \in ({"idle", "Summary", "Set"} \cup Locked)
    BY <1>p
  <2>4. q \in Request
    BY <1>f, <2>3, Zenon DEF Request
  <2>5. q.phase = "Pay" /\ q.checked = req[r].checked
    BY <1>f, SMT DEF Request
  <2> HIDE DEF q
  <2>6. Relies(q)
    <3>1. req[r].checked <= today /\ \A l \in logs : l.day <= req[r].checked
      BY <1>f, <2>1 DEF Relies, Locked
    <3> QED BY <2>1, <2>2, <2>5, <3>1 DEF Relies, FreeLogged
  <2>7. req[r].phase \in Locked
    BY <2>1 DEF Locked
  <2> QED BY <2>1, <2>4, <2>6, <2>7, QuietRequestKeeps
<1>3. CASE Consume(r)
  <2> DEFINE q == [req[r] EXCEPT !.phase = "Persist", !.free = FALSE]
  <2>1. Become(r, q) /\ UNCHANGED <<today, balance, logs, summary>>
        /\ req[r].phase = "Pay" /\ balance > 0
    BY <1>3 DEF Consume, Affordable
  <2>2. "Persist" \in ({"idle", "Summary", "Set"} \cup Locked) /\ FALSE \in BOOLEAN
    BY <1>p
  <2>3. q \in Request
    BY <1>f, <2>2, Zenon DEF Request
  <2>4. q.phase = "Persist" /\ q.free = FALSE /\ q.checked = req[r].checked
    BY <1>f, SMT DEF Request
  <2> HIDE DEF q
  <2>5. Relies(q)
    <3>1. /\ req[r].checked <= today /\ \A l \in logs : l.day <= req[r].checked
          /\ FreeLogged(req[r].checked)
      BY <1>f, <2>1 DEF Relies, Locked
    <3> QED BY <2>1, <2>4, <3>1 DEF Relies, FreeLogged
  <2>6. req[r].phase \in Locked
    BY <2>1 DEF Locked
  <2> QED BY <2>1, <2>3, <2>5, <2>6, QuietRequestKeeps
<1> QED BY <1>1, <1>2, <1>3

LEMMA PersistKeeps ==
  ASSUME IInv, NEW r \in Requests, Persist(r)
  PROVE  IInv'
<1>f. req[r] \in Request /\ Relies(req[r]) /\ today \in Days
  BY RequestFacts DEF IInv, TypeOK
<1> DEFINE q == [req[r] EXCEPT !.phase = "Commit", !.day = today]
<1>1. Become(r, q) /\ UNCHANGED <<today, balance, logs, summary>> /\ req[r].phase = "Persist"
  BY DEF Persist
<1>2. "Commit" \in ({"idle", "Summary", "Set"} \cup Locked)
  BY DEF Locked
<1>3. q \in Request
  BY <1>f, <1>2, Zenon DEF Request
<1>4. q.phase = "Commit" /\ q.free = req[r].free /\ q.checked = req[r].checked
      /\ q.day = today
  BY <1>f, SMT DEF Request
<1> HIDE DEF q
<1>5. Relies(q)
  <2>1. /\ req[r].checked <= today /\ \A l \in logs : l.day <= req[r].checked
        /\ req[r].free => ~FreeLogged(req[r].checked)
        /\ ~req[r].free => FreeLogged(req[r].checked) /\ balance > 0
    BY <1>f, <1>1 DEF Relies, Locked
  <2>2. today <= today
    BY <1>f, SMT DEF Days
  <2> QED BY <1>1, <1>4, <2>1, <2>2 DEF Relies, FreeLogged
<1>6. req[r].phase \in Locked
  BY <1>1 DEF Locked
<1> QED BY <1>1, <1>3, <1>5, <1>6, QuietRequestKeeps

(* The commit adds the only log that can disturb what others rely on, and no *)
(* other request is inside.                                                  *)
LEMMA CommitKeeps ==
  ASSUME IInv, NEW r \in Requests, Commit(r)
  PROVE  IInv'
<1> USE DEF IInv
<1> DEFINE q == [req[r] EXCEPT !.phase = "Summary"]
           log == [day |-> req[r].day, checked |-> req[r].checked, free |-> req[r].free]
<1>f. /\ req[r] \in Request /\ Relies(req[r])
      /\ req[r].checked \in Days /\ req[r].day \in Days /\ req[r].free \in BOOLEAN
  BY RequestFacts
<1>1. /\ logs' = logs \cup {log} /\ req' = [req EXCEPT ![r] = q]
      /\ balance' = IF req[r].free THEN balance ELSE balance - 1
      /\ UNCHANGED <<today, summary>> /\ req[r].phase = "Commit"
  BY DEF Commit, Become
<1>2. /\ log \in Log /\ log.day = req[r].day /\ log.checked = req[r].checked
      /\ log.free = req[r].free
  BY <1>f DEF Log
<1>3. q \in Request /\ q.phase = "Summary"
  <2>1. "Summary" \in ({"idle", "Summary", "Set"} \cup Locked)
    OBVIOUS
  <2> QED BY <1>f, <2>1, Zenon DEF Request
<1> HIDE DEF q, log
<1>4. /\ req[r].free => ~FreeLogged(req[r].checked)
      /\ ~req[r].free => FreeLogged(req[r].checked) /\ balance > 0
      /\ req[r].checked <= req[r].day /\ req[r].day <= today
  BY <1>f, <1>1 DEF Relies, Locked
<1>5. balance' \in 0 .. MaxBalance
  BY <1>1, <1>4, SMT DEF TypeOK
<1>6. \A s \in Requests : req'[s] = IF s = r THEN q ELSE req[s]
  BY <1>1 DEF TypeOK
<1>7. TypeOK'
  BY <1>1, <1>2, <1>3, <1>5 DEF TypeOK
<1>8. OneInside'
  BY <1>3, <1>6 DEF OneInside, Locked
<1>9. NoLogOfTomorrow' /\ LoggedAfterLooking'
  BY <1>1, <1>2, <1>4 DEF NoLogOfTomorrow, LoggedAfterLooking
<1>10. \A d \in Days : FreeLogged(d) => FreeLogged(d)'
  BY <1>1 DEF FreeLogged
<1>11. SummaryIsTrue'
  BY <1>1, <1>10 DEF SummaryIsTrue, TypeOK
<1>12. PaidOnlyAfterFree'
  <2> SUFFICES ASSUME NEW l \in logs', ~l.free  PROVE FreeLogged(l.checked)'
    BY DEF PaidOnlyAfterFree
  <2>1. CASE l \in logs
    <3>1. FreeLogged(l.checked)
      BY <2>1 DEF PaidOnlyAfterFree
    <3> QED BY <1>1, <3>1 DEF FreeLogged
  <2>2. CASE l = log
    <3>1. FreeLogged(req[r].checked) /\ l.checked = req[r].checked
      BY <1>2, <1>4, <2>2
    <3> QED BY <1>1, <3>1 DEF FreeLogged
  <2> QED BY <1>1, <2>1, <2>2
<1>13. ASSUME NEW s \in Requests  PROVE Relies(req[s])'
  <2>1. CASE s = r
    <3>1. req'[s] = q
      BY <1>6, <2>1
    <3> QED BY <1>3, <3>1 DEF Relies, Locked
  <2>2. CASE s # r
    <3>1. req'[s] = req[s] /\ Relies(req[s])
      BY <1>6, <2>2
    <3>2. req[s].phase \notin Locked
      BY <1>1, <2>2 DEF OneInside, Locked
    <3> QED BY <1>1, <3>1, <3>2 DEF Relies, FreeLogged, Locked
  <2> QED BY <2>1, <2>2
<1> QED BY <1>7, <1>8, <1>9, <1>11, <1>12, <1>13

LEMMA SummaryKeeps ==
  ASSUME IInv, NEW r \in Requests, CountLogs(r) \/ SetSummary(r)
  PROVE  IInv'
<1>f. req[r] \in Request /\ Relies(req[r]) /\ req[r].day \in Days
  BY RequestFacts
<1>1. CASE CountLogs(r)
  <2> DEFINE c == CountsFree(req[r].day)
             q == [req[r] EXCEPT !.phase = "Set", !.counted = c]
  <2>1. Become(r, q) /\ UNCHANGED <<today, balance, logs, summary>>
    BY <1>1 DEF CountLogs
  <2>2. (c => FreeLogged(req[r].day)) /\ c \in BOOLEAN
    BY DEF CountsFree, FreeLogged
  <2> HIDE DEF c
  <2>3. "Set" \in ({"idle", "Summary", "Set"} \cup Locked)
    OBVIOUS
  <2>4. q \in Request
    BY <1>f, <2>2, <2>3, Zenon DEF Request
  <2>5. q.phase = "Set" /\ q.counted = c /\ q.day = req[r].day
    BY <1>f, Zenon DEF Request
  <2> HIDE DEF q
  <2>6. Relies(q) /\ q.phase \notin Locked
    BY <2>2, <2>5 DEF Relies, Locked
  <2> QED BY <2>1, <2>4, <2>6, QuietRequestKeeps
<1>2. CASE SetSummary(r)
  <2>1. Become(r, Idle) /\ UNCHANGED <<today, balance, logs>>
        /\ req[r].phase = "Set"
        /\ summary' = IF req[r].counted THEN summary \cup {req[r].day} ELSE summary \ {req[r].day}
    BY <1>2 DEF SetSummary
  <2>2. req[r].counted => FreeLogged(req[r].day)
    BY <1>f, <2>1 DEF Relies
  <2>3. summary' \subseteq Days
    BY <1>f, <2>1 DEF IInv, TypeOK
  <2>4. SummaryIsTrue'
    BY <2>1, <2>2 DEF IInv, SummaryIsTrue, FreeLogged
  <2> QED BY <2>1, <2>3, <2>4, IdleFacts, RequestKeeps
<1> QED BY <1>1, <1>2

(* The clock and other sources of units.                                     *)
LEMMA OutsideKeeps ==
  ASSUME IInv, Midnight \/ Grant
  PROVE  IInv'
<1> USE DEF IInv
<1>1. /\ today' \in Days /\ today <= today' /\ balance' \in 0 .. MaxBalance
      /\ balance <= balance' /\ summary' \subseteq summary /\ UNCHANGED <<logs, req>>
  BY SMT DEF Midnight, Grant, TypeOK, Days
<1>2. today \in Nat /\ today' \in Nat /\ balance \in Nat /\ balance' \in Nat
  BY <1>1, SMT DEF TypeOK, Days
<1>3. TypeOK' /\ OneInside' /\ SummaryIsTrue' /\ PaidOnlyAfterFree' /\ LoggedAfterLooking'
  BY <1>1 DEF TypeOK, OneInside, SummaryIsTrue, PaidOnlyAfterFree, LoggedAfterLooking, FreeLogged
<1>4. NoLogOfTomorrow'
  <2> SUFFICES ASSUME NEW l \in logs PROVE l.day <= today'
    BY <1>1 DEF NoLogOfTomorrow
  <2>1. l.day \in Nat /\ l.day <= today
    BY SMT DEF TypeOK, Log, Days, NoLogOfTomorrow
  <2> QED BY <1>1, <1>2, <2>1, SMT
<1>5. ASSUME NEW r \in Requests  PROVE Relies(req[r])'
  <2>1. req[r].checked \in Nat /\ req[r].day \in Nat /\ Relies(req[r])
    BY RequestFacts, SMT DEF Days
  <2>2. /\ req[r].checked <= today => req[r].checked <= today'
        /\ req[r].day <= today => req[r].day <= today'
    BY <1>1, <1>2, <2>1, SMT
  <2>3. balance > 0 => balance' > 0
    BY <1>1, <1>2, SMT
  <2> QED BY <1>1, <2>1, <2>2, <2>3 DEF Relies, FreeLogged
<1> QED BY <1>3, <1>4, <1>5

LEMMA StepIInv == IInv /\ [Next]_vars => IInv'
<1> SUFFICES ASSUME IInv, [Next]_vars PROVE IInv'
  OBVIOUS
<1>1. CASE Midnight \/ Grant
  BY <1>1, OutsideKeeps
<1>2. ASSUME NEW r \in Requests,
             \/ Lock(r) \/ FindUnused(r) \/ FindUsed(r) \/ Consume(r) \/ Refuse(r)
             \/ Persist(r) \/ Commit(r) \/ Rollback(r)
             \/ CountLogs(r) \/ SetSummary(r) \/ LoseSummary(r)
      PROVE  IInv'
  BY <1>2, LockKeeps, FindKeeps, PersistKeeps, CommitKeeps, IdleKeeps, SummaryKeeps
<1>3. CASE UNCHANGED vars
  <2>1. UNCHANGED <<today, balance, logs, summary, req>>
    BY <1>3 DEF vars
  <2> QED BY <2>1 DEF IInv, TypeOK, OneInside, NoLogOfTomorrow, LoggedAfterLooking, Relies, SummaryIsTrue,
             PaidOnlyAfterFree, FreeLogged
<1> QED BY <1>1, <1>2, <1>3 DEF Next

LEMMA Invariance == Spec => []IInv
BY InitIInv, StepIInv, PTL DEF Spec

-----------------------------------------------------------------------------
(* Every reachable state is well typed; the balance is never overdrawn.      *)
THEOREM TypeCorrect == Spec => []TypeOK
<1>1. IInv => TypeOK
  BY DEF IInv
<1> QED BY <1>1, Invariance, PTL

(* The insert of a free refresh never fails on the unique key, whatever      *)
(* requests overlap and whenever midnight falls.                             *)
THEOREM FreeNeverClashes == Spec => []PromiseIsKept
<1>1. IInv => PromiseIsKept
  <2> SUFFICES ASSUME IInv, NEW r \in Requests, req[r].phase = "Persist", req[r].free,
                      NEW l \in logs, l.free, l.day = today
               PROVE  FALSE
    BY DEF PromiseIsKept, Clash, FreeLogged
  <2>1. /\ req[r].checked \in Days /\ today \in Days
        /\ req[r].checked <= today /\ l.day <= req[r].checked
        /\ ~FreeLogged(req[r].checked)
    BY RequestFacts DEF Relies, Locked, IInv, TypeOK
  <2>2. req[r].checked = today
    BY <2>1, SMT DEF Days
  <2> QED BY <2>1, <2>2 DEF FreeLogged
<1> QED BY <1>1, Invariance, PTL

(* A summary in Redis never runs ahead of the committed log.                 *)
THEOREM SummaryIsCommitted == Spec => []SummaryIsTrue
<1>1. IInv => SummaryIsTrue
  BY DEF IInv
<1> QED BY <1>1, Invariance, PTL

(* Whoever pays had used the free refresh of the day that was looked up.     *)
THEOREM FreeComesFirst == Spec => []PaidOnlyAfterFree
<1>1. IInv => PaidOnlyAfterFree
  BY DEF IInv
<1> QED BY <1>1, Invariance, PTL

(* A free refresh commits the first free log of its day: under the row lock  *)
(* nobody gets two, not even when midnight falls between the look at the     *)
(* quota and the log, or between the log and the commit.                     *)
THEOREM OneFreeRefreshADay ==
  Spec => [][\A r \in Requests : Commit(r) /\ req[r].free => ~FreeLogged(req[r].day)]_vars
<1>1. ASSUME IInv, NEW r \in Requests, Commit(r), req[r].free  PROVE ~FreeLogged(req[r].day)
  <2>1. /\ req[r].checked \in Days /\ req[r].day \in Days /\ logs \subseteq Log
        /\ req[r].checked <= req[r].day
        /\ \A l \in logs : l.day <= req[r].checked
        /\ ~FreeLogged(req[r].checked)
    BY <1>1, RequestFacts DEF Commit, Relies, Locked, IInv, TypeOK
  <2>2. ASSUME NEW l \in logs, l.free, l.day = req[r].day  PROVE FALSE
    <3>1. l.day = req[r].checked
      BY <2>1, <2>2, SMT DEF Days
    <3> QED BY <2>1, <2>2, <3>1 DEF FreeLogged
  <2> QED BY <2>2 DEF FreeLogged
<1>2. IInv /\ [Next]_vars =>
        [\A r \in Requests : Commit(r) /\ req[r].free => ~FreeLogged(req[r].day)]_vars
  BY <1>1
<1> QED BY <1>2, Invariance, PTL DEF Spec

(* Who pays on a day whose free refresh is unused had looked up the quota of *)
(* an earlier day: a midnight inside the transaction is the only cause.      *)
THEOREM OnlyMidnightCostsTheFreeOne ==
  Spec => [](\A l \in logs : ~l.free /\ ~FreeLogged(l.day) => l.checked < l.day)
<1>1. IInv => \A l \in logs : ~l.free /\ ~FreeLogged(l.day) => l.checked < l.day
  <2> SUFFICES ASSUME IInv, NEW l \in logs, ~l.free, ~FreeLogged(l.day)  PROVE l.checked < l.day
    OBVIOUS
  <2>1. l.checked \in Days /\ l.day \in Days /\ l.checked <= l.day /\ FreeLogged(l.checked)
    BY DEF IInv, TypeOK, Log, LoggedAfterLooking, PaidOnlyAfterFree
  <2>2. l.checked # l.day
    BY <2>1
  <2> QED BY <2>1, <2>2, SMT DEF Days
<1> QED BY <1>1, Invariance, PTL
=============================================================================
