----------------------------- MODULE ResumeRefresh -----------------------------
(***************************************************************************)
(* RcResumeRefreshService: a candidate refreshes one of his resumes, once a *)
(* day for nothing and then for one unit of the asset RESUME_REFRESH.       *)
(*                                                                         *)
(* A refresh is one database transaction under the row lock of the user.    *)
(* The date is read twice in it, and what it did is summarised in Redis     *)
(* after the commit, outside the lock; the next refresh asks that summary   *)
(* first and the log only if it says nothing.                               *)
(*                                                                         *)
(* One user is modelled.  Whether the call comes from the refresh button,   *)
(* the resume form or a section of the resume only changes what surrounds   *)
(* the transaction, any of which may roll it back.  Of equal paid log rows  *)
(* one is kept.                                                             *)
(***************************************************************************)
EXTENDS Naturals

CONSTANTS
  Requests,      \* the requests that refresh a resume of the user
  MaxDay,        \* bound: calendar days
  MaxBalance     \* bound: units of RESUME_REFRESH the user holds at a time

ASSUME BoundsAssumption == MaxDay \in Nat \ {0} /\ MaxBalance \in Nat

VARIABLES
  today,         \* the date
  balance,       \* the committed balance of RESUME_REFRESH
  logs,          \* the committed rows of rc_resume_refresh_logs
  summary,       \* Redis: the days whose summary has a free_count above 0
  req            \* the requests

vars == <<today, balance, logs, summary, req>>

-----------------------------------------------------------------------------
Days == 1 .. MaxDay

(* refresh_date, quota_type, and (history) the date the quota was looked up for. *)
Log == [day : Days, checked : Days, free : BOOLEAN]

(* Inside the transaction, that is, with the user's row locked. *)
Locked == {"Check", "Pay", "Persist", "Commit"}

Request ==
  [phase : {"idle", "Summary", "Set"} \cup Locked,
   checked : Days, day : Days, free : BOOLEAN, counted : BOOLEAN]

Idle == [phase |-> "idle", checked |-> 1, day |-> 1, free |-> FALSE, counted |-> FALSE]

TypeOK ==
  /\ today \in Days /\ balance \in 0 .. MaxBalance
  /\ logs \subseteq Log /\ summary \subseteq Days
  /\ req \in [Requests -> Request]

Init ==
  /\ today = 1 /\ balance \in 0 .. MaxBalance
  /\ logs = {} /\ summary = {}
  /\ req = [r \in Requests |-> Idle]

Become(r, q) == req' = [req EXCEPT ![r] = q]

-----------------------------------------------------------------------------
(* Mutant of Busy: the user's row is not locked. *)
BusyNever == FALSE

(* The user's row is locked by a request. *)
Busy == \E r \in Requests : req[r].phase \in Locked

(* refresh: lock the user and the resume, read the date. *)
Lock(r) ==
  /\ req[r].phase = "idle" /\ ~Busy
  /\ Become(r, [Idle EXCEPT !.phase = "Check", !.checked = today])
  /\ UNCHANGED <<today, balance, logs, summary>>

FreeLogged(d) == \E l \in logs : l.free /\ l.day = d

AnyLogged(d) == \E l \in logs : l.day = d

(* Mutant of UsedByLog: a paid refresh of the day counts as the free one. *)
UsedByAnyLog(d) == AnyLogged(d)

UsedByLog(d) == FreeLogged(d)

(* hasUsedFreeRefresh: the summary is believed if it says so; if it does     *)
(* not, or is missing (never written, expired, Redis down), the log decides. *)
HasUsed(r) == req[r].checked \in summary \/ UsedByLog(req[r].checked)

FindUnused(r) ==
  /\ req[r].phase = "Check" /\ ~UsedByLog(req[r].checked)
  /\ Become(r, [req[r] EXCEPT !.phase = "Persist", !.free = TRUE])
  /\ UNCHANGED <<today, balance, logs, summary>>

FindUsed(r) ==
  /\ req[r].phase = "Check" /\ HasUsed(r)
  /\ Become(r, [req[r] EXCEPT !.phase = "Pay"])
  /\ UNCHANGED <<today, balance, logs, summary>>

(* Mutant of Affordable: an empty account pays. *)
AffordableAlways == TRUE

Affordable == balance > 0

(* consumeOnce under a fresh biz_no; its account stays locked to the commit. *)
Consume(r) ==
  /\ req[r].phase = "Pay" /\ Affordable
  /\ Become(r, [req[r] EXCEPT !.phase = "Persist", !.free = FALSE])
  /\ UNCHANGED <<today, balance, logs, summary>>

(* Nothing to pay with: the refresh is refused or left out. *)
Refuse(r) ==
  /\ req[r].phase = "Pay" /\ ~Affordable
  /\ Become(r, Idle)
  /\ UNCHANGED <<today, balance, logs, summary>>

(* The key (user_id, refresh_date, quota_key) holds the free log of today.   *)
Clash(r) == req[r].free /\ FreeLogged(today)

(* persistRefresh: the log is dated by a second look at the clock.           *)
Persist(r) ==
  /\ req[r].phase = "Persist" /\ ~Clash(r)
  /\ Become(r, [req[r] EXCEPT !.phase = "Commit", !.day = today])
  /\ UNCHANGED <<today, balance, logs, summary>>

Commit(r) ==
  /\ req[r].phase = "Commit"
  /\ logs' = logs \cup {[day |-> req[r].day, checked |-> req[r].checked, free |-> req[r].free]}
  /\ balance' = IF req[r].free THEN balance ELSE balance - 1
  /\ Become(r, [req[r] EXCEPT !.phase = "Summary"])
  /\ UNCHANGED <<today, summary>>

(* The unique key, the surroundings of the transaction or a crash end it.    *)
Rollback(r) ==
  /\ req[r].phase \in Locked
  /\ Become(r, Idle)
  /\ UNCHANGED <<today, balance, logs, summary>>

-----------------------------------------------------------------------------
(* Mutant of CountsFree: free_count counts every log of the day. *)
CountsAll(d) == AnyLogged(d)

CountsFree(d) == FreeLogged(d)

(* writeRedisSummary: the logs are counted, then the key is set, unless an   *)
(* error, which is swallowed, or the end of the process comes first.         *)
CountLogs(r) ==
  /\ req[r].phase = "Summary"
  /\ Become(r, [req[r] EXCEPT !.phase = "Set", !.counted = CountsFree(req[r].day)])
  /\ UNCHANGED <<today, balance, logs, summary>>

SetSummary(r) ==
  /\ req[r].phase = "Set"
  /\ summary' = IF req[r].counted THEN summary \cup {req[r].day} ELSE summary \ {req[r].day}
  /\ Become(r, Idle)
  /\ UNCHANGED <<today, balance, logs>>

LoseSummary(r) ==
  /\ req[r].phase \in {"Summary", "Set"}
  /\ Become(r, Idle)
  /\ UNCHANGED <<today, balance, logs, summary>>

-----------------------------------------------------------------------------
(* A key that is set during a day expires at its end.                        *)
Midnight ==
  /\ today < MaxDay
  /\ today' = today + 1
  /\ summary' = {}
  /\ UNCHANGED <<balance, logs, req>>

(* An order, a membership or the back office grants a unit.                  *)
Grant ==
  /\ balance < MaxBalance
  /\ balance' = balance + 1
  /\ UNCHANGED <<today, logs, summary, req>>

Next ==
  \/ Midnight \/ Grant
  \/ \E r \in Requests :
       \/ Lock(r) \/ FindUnused(r) \/ FindUsed(r) \/ Consume(r) \/ Refuse(r)
       \/ Persist(r) \/ Commit(r) \/ Rollback(r)
       \/ CountLogs(r) \/ SetSummary(r) \/ LoseSummary(r)

Spec == Init /\ [][Next]_vars

-----------------------------------------------------------------------------
(* A refresh that was promised to be free never meets the unique key, also   *)
(* when it was promised yesterday and is logged today.                       *)
PromiseIsKept == \A r \in Requests : req[r].phase = "Persist" => ~Clash(r)

(* Redis never says that the free refresh is used before it is: a summary    *)
(* of a refresh that was rolled back, or of a paid one only, says nothing.   *)
SummaryIsTrue == \A d \in summary : FreeLogged(d)

(* Nobody pays who still had a free refresh on the day that was looked up.   *)
PaidOnlyAfterFree == \A l \in logs : l.free \/ FreeLogged(l.checked)
=============================================================================
