---------------------------- MODULE JobPublishing ----------------------------
(***************************************************************************)
(* The jobs of one company (RcJobService, JobController) and the benefits   *)
(* their publication consumes.  create, update and publish lock the job and *)
(* book the consumption in one transaction, which does to the company's     *)
(* accounts what AssetBook says; pause, close and delete save a copy that   *)
(* was loaded before, without a lock.                                       *)
(***************************************************************************)
EXTENDS Integers, Sequences, FiniteSets, Functions

CONSTANTS
  Jobs,       \* job ids
  Types,      \* employment types
  Preferred,  \* the asset of each type that has one (resolveAssetCode)
  General,    \* the asset every job may fall back to, job_posting
  Supply,     \* what the company was granted of each asset
  Requests    \* requests served at the same time

Assets == Range(Preferred) \cup {General}

ASSUME AssetsAreWellFormed ==
  /\ Types # {}
  /\ DOMAIN Preferred \subseteq Types
  /\ General \notin Range(Preferred)
  /\ Supply \in [Assets -> Nat]
  /\ IsFiniteSet(Assets)

VARIABLES
  job,       \* rc_jobs: status, employment type, whether it is deleted
  balance,   \* rc_asset_accounts.balance of the company
  booked,    \* <<job, publication>> of each consumption: job_publish:{id}:{n}
  req        \* each pause, close, delete or publish request with its copy

vars == <<job, balance, booked, req>>

Status == {"Absent", "Draft", "Published", "Paused", "Closed", "Expired"}

Job == [status : Status, type : Types, deleted : BOOLEAN]

Operations == {"publish", "pause", "close", "delete"}

Idle == [op |-> "none"]

Loaded == [op : Operations, job : Jobs, status : Status]

TypeOK ==
  /\ job \in [Jobs -> Job]
  /\ balance \in [Assets -> Nat]
  /\ booked \subseteq Jobs \X (Nat \ {0})
  /\ req \in [Requests -> Loaded \cup {Idle}]

NoJob == [status |-> "Absent", type |-> CHOOSE t \in Types : TRUE, deleted |-> FALSE]

Init ==
  /\ job = [j \in Jobs |-> NoJob]
  /\ balance = Supply
  /\ booked = {}
  /\ req = [r \in Requests |-> Idle]

Exists(j) == job[j].status # "Absent" /\ ~job[j].deleted

-----------------------------------------------------------------------------
(* The calls of a publication: its number on the preferred asset of the type, *)
(* then on the general one.                                                  *)
Alternatives(type, biz) ==
  LET call(asset) == [account |-> asset, quantity |-> 1, biz |-> biz]
  IN  <<call(Preferred[type]), call(General)>>

Calls == {Alternatives(type, biz) : type \in DOMAIN Preferred, biz \in Jobs \X (Nat \ {0})}

Book == INSTANCE AssetBook WITH Accounts <- Assets, Grants <- {}, Consumptions <- Calls

(* Mutant of Publications: the publications of all jobs are counted. *)
PublicationsOfCompany(j) == Cardinality(booked)

(* The consumptions of a job, whatever asset they were booked on. *)
Consumptions(j) == {b \in booked : b[1] = j}

Publications(j) == Cardinality(Consumptions(j))

(* Mutant of ConsumeFor: the general asset is taken without looking at it. *)
ConsumeForUnchecked(j, type) ==
  LET biz == <<j, Publications(j) + 1>>
  IN  /\ type \in DOMAIN Preferred
      /\ booked' = booked \cup {biz}
      /\ balance' = IF balance[Preferred[type]] > 0
                     THEN [balance EXCEPT ![Preferred[type]] = @ - 1]
                     ELSE [balance EXCEPT ![General] = @ - 1]

(* Mutant of ConsumeFor: it does not return after the first consumption. *)
ConsumeForTwice(j, type) ==
  /\ type \in DOMAIN Preferred
  /\ balance[Preferred[type]] > 0 /\ balance[General] > 0
  /\ balance' = [balance EXCEPT ![Preferred[type]] = @ - 1, ![General] = @ - 1]
  /\ booked' = booked \cup {<<j, Publications(j) + 1>>}

(* consumeFor: the preferred asset, then the general one; a number that is   *)
(* already booked consumes nothing and lets the publication through.         *)
ConsumeFor(j, type) ==
  LET biz == <<j, Publications(j) + 1>>
  IN  /\ type \in DOMAIN Preferred
      /\ IF biz \in booked THEN UNCHANGED <<balance, booked>>
         ELSE Book!ConsumeFirst(Alternatives(type, biz))

(* Mutant of ShouldConsume: what was closed is published again for nothing. *)
ShouldConsumeFirst(from) == from \in {"Absent", "Draft"}

(* shouldConsumePublishingBenefit; a job that is created was nothing before. *)
ShouldConsume(from) == from \in {"Absent", "Draft", "Closed", "Expired"}

(* A change to a status, with the consumption a publication needs. *)
Charged(j, type, to) ==
  IF to = "Published" /\ ShouldConsume(job[j].status) THEN ConsumeFor(j, type)
  ELSE UNCHANGED <<balance, booked>>

-----------------------------------------------------------------------------
Create(j, type, to) ==
  /\ job[j].status = "Absent"
  /\ Charged(j, type, to)
  /\ job' = [job EXCEPT ![j] = [status |-> to, type |-> type, deleted |-> FALSE]]
  /\ UNCHANGED req

(* The payload may set any status and any type. *)
Update(j, type, to) ==
  /\ Exists(j)
  /\ Charged(j, type, to)
  /\ job' = [job EXCEPT ![j] = [status |-> to, type |-> type, deleted |-> FALSE]]
  /\ UNCHANGED req

(* findForCompany in the controller; publish refuses a published copy. *)
Load(r, op, j) ==
  /\ req[r] = Idle
  /\ Exists(j)
  /\ op = "publish" => job[j].status # "Published"
  /\ req' = [req EXCEPT ![r] = [op |-> op, job |-> j, status |-> job[j].status]]
  /\ UNCHANGED <<job, balance, booked>>

Done(r) == req' = [req EXCEPT ![r] = Idle]

(* The status is read again under the lock. *)
Publish(r) ==
  /\ req[r].op = "publish"
  /\ LET j == req[r].job IN
       /\ Exists(j)
       /\ Charged(j, job[j].type, "Published")
       /\ job' = [job EXCEPT ![j] = [@ EXCEPT !.status = "Published"]]
  /\ Done(r)

(* save() writes the status only if the copy had another. *)
SaveStatus(r, to) ==
  /\ LET j == req[r].job IN
       job' = IF req[r].status = to THEN job ELSE [job EXCEPT ![j] = [@ EXCEPT !.status = to]]
  /\ UNCHANGED <<balance, booked>>
  /\ Done(r)

Pause(r) == req[r].op = "pause" /\ SaveStatus(r, "Paused")

Close(r) == req[r].op = "close" /\ SaveStatus(r, "Closed")

Delete(r) ==
  /\ req[r].op = "delete"
  /\ LET j == req[r].job IN job' = [job EXCEPT ![j] = [@ EXCEPT !.deleted = TRUE]]
  /\ UNCHANGED <<balance, booked>>
  /\ Done(r)

(* Nothing can pay for it, the job is gone, or the worker died. *)
Abandon(r) ==
  /\ req[r] # Idle
  /\ Done(r)
  /\ UNCHANGED <<job, balance, booked>>

Next ==
  \/ \E j \in Jobs, type \in Types, to \in Status \ {"Absent"} :
       Create(j, type, to) \/ Update(j, type, to)
  \/ \E r \in Requests :
       \/ \E op \in Operations, j \in Jobs : Load(r, op, j)
       \/ Publish(r) \/ Pause(r) \/ Close(r) \/ Delete(r) \/ Abandon(r)

Spec == Init /\ [][Next]_vars

-----------------------------------------------------------------------------
(* A draft, closed or expired job that goes public is charged for in the     *)
(* same step, on a number of its own, and nothing else is ever charged for   *)
(* (RcJobService::shouldConsumePublishingBenefit, JobControllerTest.php:282).*)
PublicationsAreCharged ==
  [][\A j \in Jobs :
       (job[j].status \in {"Absent", "Draft", "Closed", "Expired"} /\ job'[j].status = "Published")
         <=> (\E b \in booked' \ booked : b[1] = j)]_vars

(* The consumptions of a job are numbered from 1 without a gap, although the *)
(* number is only a count taken when they are booked: no publication meets a *)
(* number that is taken, which would let it through unpaid.                  *)
ConsumptionsAreNumbered ==
  \A j \in Jobs : Consumptions(j) = {j} \X (1 .. Publications(j))

(* Each consumption took one unit of what the company was granted, and       *)
(* nothing was taken for a publication that failed.                          *)
ConsumptionsExplainBalance ==
  SumFunction([a \in Assets |-> Supply[a] - balance[a]]) = Cardinality(booked)

(* A public job has consumed a benefit (docs/商业化流程说明.md:39).           *)
PublishedHasConsumed ==
  \A j \in Jobs : job[j].status = "Published" => \E b \in booked : b[1] = j
=============================================================================
