------------------------------- MODULE ViewStats -------------------------------
(***************************************************************************)
(* The daily view counters of jobs (and, by the same code, of resumes).     *)
(*                                                                         *)
(* RcViewStatsService counts the views of a day, and its visitors, under   *)
(* two Redis keys that expire some days later; rc:sync-view-stats, every   *)
(* night at 00:30 for the day before or by hand for any day, queues a batch*)
(* that reads the counters of its jobs one by one and then writes the rows *)
(* of rc_job_stats_daily one by one, outside any transaction. A total shown*)
(* to the owner adds the rows of former days to the counter of today.      *)
(*                                                                         *)
(* One type of entity and one chunk per command are modelled (the others    *)
(* share nothing with it).  Of a row there is only views_total; of the      *)
(* visitors, whether their key exists, which decides if a row is written.   *)
(***************************************************************************)
EXTENDS Naturals

CONSTANTS
  Jobs,          \* the jobs that are viewed
  Batches,       \* bound: batches in the queue at one time
  KeyTtlDays,    \* rc_stats.key_ttl_days
  Tries,         \* SyncViewStatsBatchJob::$tries
  MaxDay,        \* bound: calendar days
  ViewDays,      \* bound: the days with views
  MaxViews,      \* bound: views of one job on one day
  MaxManual      \* bound: rc:sync-view-stats started by hand

ASSUME KeyTtlAssumption == KeyTtlDays \in Nat \ {0}
ASSUME TriesAssumption == Tries \in Nat \ {0}
ASSUME BoundsAssumption == MaxDay \in Nat \ {0} /\ MaxViews \in Nat /\ MaxManual \in Nat

VARIABLES
  today,         \* the date
  nightly,       \* has the sync of 00:30 been started today?
  manual,        \* how often the sync was started by hand
  early,         \* history: the days it was started for before they were over
  pv,            \* the counters in Redis, 0 without a key
  uv,            \* the jobs and dates whose visitor key is in Redis
  counted,       \* history: the views that were counted, expired keys included
  outlived,      \* history: the visitor keys that outlived their counter
  stored,        \* the jobs and dates with a row in rc_job_stats_daily
  rows,          \* views_total of these rows, 0 without a row
  batch,         \* the queued and the running batches
  failed,        \* the jobs and dates whose batch is in failed_jobs
  page           \* the total that is being, or was last, put together

redis == <<pv, uv, counted, outlived>>
table == <<stored, rows>>
vars == <<today, nightly, manual, early, redis, table, batch, failed, page>>

-----------------------------------------------------------------------------
Days == 1 .. MaxDay
Views == 0 .. MaxViews
NoViews == [j \in Jobs |-> [d \in Days |-> 0]]

Phases == {"none", "Queued", "Read", "Update", "Create"}

(* A batch: its arguments, its attempts, the jobs it has still to read (to   *)
(* write, from the one it is about to insert on), the counters it read, and  *)
(* the jobs it found something to write of.                                 *)
Batch ==
  [phase : Phases, date : Days, ids : SUBSET Jobs, attempts : 0 .. Tries,
   left : SUBSET Jobs, inserting : SUBSET Jobs, got : [Jobs -> Views],
   found : SUBSET Jobs]

NoBatch ==
  [phase |-> "none", date |-> 1, ids |-> {}, attempts |-> 0,
   left |-> {}, inserting |-> {}, got |-> [j \in Jobs |-> 0], found |-> {}]

(* A total that is being put together, day by day: `parts` are the rows it   *)
(* has summed; the counter of `day` comes last.                              *)
Page ==
  [phase : {"none", "Sum"}, job : SUBSET Jobs, day : Days, parts : [Days -> Views]]

NoPage == [phase |-> "none", job |-> {}, day |-> 1, parts |-> [d \in Days |-> 0]]

TypeOK ==
  /\ today \in Days /\ nightly \in BOOLEAN /\ manual \in 0 .. MaxManual
  /\ early \subseteq Days
  /\ pv \in [Jobs -> [Days -> Views]] /\ counted \in [Jobs -> [Days -> Views]]
  /\ uv \subseteq Jobs \X Days /\ outlived \subseteq Jobs \X Days
  /\ stored \subseteq Jobs \X Days /\ rows \in [Jobs -> [Days -> Views]]
  /\ batch \in [Batches -> Batch]
  /\ failed \subseteq Jobs \X Days
  /\ page \in Page

Init ==
  /\ today = 1 /\ nightly = TRUE /\ manual = 0 /\ early = {}
  /\ pv = NoViews /\ uv = {} /\ counted = NoViews /\ outlived = {}
  /\ stored = {} /\ rows = NoViews
  /\ batch = [b \in Batches |-> NoBatch]
  /\ failed = {}
  /\ page = NoPage

-----------------------------------------------------------------------------
(* recordView: the date is taken before the pipeline is sent, so a request  *)
(* that meets midnight counts for yesterday.  Assumption: none lasts from    *)
(* midnight to 00:30.                                                       *)
Countable(d) == d = today \/ (d + 1 = today /\ ~nightly)

(* Only a viewer who is signed in enters the visitor key.  The pipeline is   *)
(* no transaction: one that breaks off before its INCR counts nothing, one   *)
(* that breaks off before its PFADD looks like a viewer who is not.          *)
RecordView(j, d, signedIn) ==
  /\ Countable(d) /\ d \in ViewDays
  /\ counted[j][d] < MaxViews
  /\ pv' = [pv EXCEPT ![j][d] = @ + 1]
  /\ uv' = uv \cup {e \in {<<j, d>>} : signedIn}
  /\ counted' = [counted EXCEPT ![j][d] = @ + 1]
  /\ UNCHANGED <<today, nightly, manual, early, outlived, table, batch, failed, page>>

(* keyTtlSeconds: a key lives to the end of its date and key_ttl_days more.  *)
(* Seconds are truncated; the last one is taken for the day that follows.    *)
Lives(d, now) == now <= d + KeyTtlDays

Midnight ==
  /\ today < MaxDay /\ nightly
  /\ today' = today + 1
  /\ nightly' = FALSE
  /\ UNCHANGED <<manual, early, redis, table, batch, failed, page>>

(* Each key has an EXPIRE of its own, renewed by each view that touches it,  *)
(* so the two of a date end one after the other, in either order.  A key     *)
(* whose EXPIRE was lost with the connection stays.                          *)
ExpireViews(j, d) ==
  /\ pv[j][d] > 0 /\ ~Lives(d, today)
  /\ pv' = [pv EXCEPT ![j][d] = 0]
  /\ outlived' = outlived \cup ({<<j, d>>} \cap uv)
  /\ UNCHANGED <<today, nightly, manual, early, uv, counted, table, batch, failed, page>>

ExpireVisitors(j, d) ==
  /\ <<j, d>> \in uv /\ ~Lives(d, today)
  /\ uv' = uv \ {<<j, d>>}
  /\ UNCHANGED <<today, nightly, manual, early, pv, counted, outlived, table, batch, failed,
                 page>>

-----------------------------------------------------------------------------
(* SyncViewStatsCommand: the jobs with a counter of the date make a batch.  *)
Discovered(d) == {j \in Jobs : pv[j][d] > 0}

Dispatch(d) ==
  IF Discovered(d) = {}
  THEN UNCHANGED batch
  ELSE \E b \in Batches :
         /\ batch[b].phase = "none"
         /\ batch' = [batch EXCEPT ![b] =
              [NoBatch EXCEPT !.phase = "Queued", !.date = d, !.ids = Discovered(d)]]

(* Mutant of SyncedDate: the nightly run takes the day that has just begun. *)
SyncedToday(now) == now

(* The default date of the command: yesterday. *)
SyncedDate(now) == now - 1

NightlySync ==
  /\ ~nightly
  /\ nightly' = TRUE
  /\ Dispatch(SyncedDate(today))
  /\ UNCHANGED <<today, manual, early, redis, table, failed, page>>

ManualSync(d) ==
  /\ manual < MaxManual /\ d <= today
  /\ early' = early \cup {e \in {d} : Countable(e)}
  /\ manual' = manual + 1
  /\ Dispatch(d)
  /\ UNCHANGED <<today, nightly, redis, table, failed, page>>

-----------------------------------------------------------------------------
(* The queue worker takes a batch. *)
Start(b) ==
  /\ batch[b].phase = "Queued"
  /\ batch' = [batch EXCEPT ![b] = [@ EXCEPT
       !.phase = "Read", !.attempts = batch[b].attempts + 1, !.left = batch[b].ids]]
  /\ UNCHANGED <<today, nightly, manual, early, redis, table, failed, page>>

(* Mutant of ReadOf: the views are added to the row, not put in its place. *)
AddedRead(b, j) == rows[j][batch[b].date] + pv[j][batch[b].date]

ReadOf(b, j) == pv[j][batch[b].date]

(* Mutant of ToWrite: a job that was seen neither way is written as well. *)
ToWriteAll(b, j) == TRUE

(* A job without a view and without a visitor is left out. *)
ToWrite(b, j) == ReadOf(b, j) > 0 \/ <<j, batch[b].date>> \in uv

(* syncJobBatch, first loop: the counter of the next job, then its visitors. *)
(* Nothing is lost by reading both at once: a counter does not come back.    *)
Read(b) ==
  /\ batch[b].phase = "Read"
  /\ \E j \in batch[b].left :
       batch' = [batch EXCEPT ![b] = [@ EXCEPT
         !.left = batch[b].left \ {j}, !.got = [batch[b].got EXCEPT ![j] = ReadOf(b, j)],
         !.found = batch[b].found \cup {i \in {j} : ToWrite(b, i)}]]
  /\ UNCHANGED <<today, nightly, manual, early, redis, table, failed, page>>

BeginWriting(b) ==
  /\ batch[b].phase = "Read" /\ batch[b].left = {}
  /\ batch' = [batch EXCEPT ![b] = [@ EXCEPT !.phase = "Update", !.left = batch[b].found,
                                              !.found = {}]]
  /\ UNCHANGED <<today, nightly, manual, early, redis, table, failed, page>>

(* Second loop: the update sets the columns of an existing row.             *)
Update(b) ==
  /\ batch[b].phase = "Update"
  /\ \E j \in batch[b].left :
       /\ <<j, batch[b].date>> \in stored
       /\ rows' = [rows EXCEPT ![j][batch[b].date] = batch[b].got[j]]
       /\ batch' = [batch EXCEPT ![b] = [@ EXCEPT !.left = batch[b].left \ {j}]]
  /\ UNCHANGED <<today, nightly, manual, early, redis, stored, failed, page>>

(* An update that meets no row, or a row that holds the same values since    *)
(* this very second (MySQL counts changed rows), reports 0: a row is to be   *)
(* inserted.                                                                *)
UpdateNothing(b) ==
  /\ batch[b].phase = "Update"
  /\ \E j \in batch[b].left :
       /\ <<j, batch[b].date>> \in stored => rows[j][batch[b].date] = batch[b].got[j]
       /\ batch' = [batch EXCEPT ![b] = [@ EXCEPT !.phase = "Create", !.inserting = {j}]]
  /\ UNCHANGED <<today, nightly, manual, early, redis, table, failed, page>>

Create(b) ==
  /\ batch[b].phase = "Create"
  /\ \E j \in batch[b].inserting :
       /\ <<j, batch[b].date>> \notin stored
       /\ stored' = stored \cup {<<j, batch[b].date>>}
       /\ rows' = [rows EXCEPT ![j][batch[b].date] = batch[b].got[j]]
       /\ batch' = [batch EXCEPT ![b] = [@ EXCEPT
            !.phase = "Update", !.left = batch[b].left \ {j}, !.inserting = {}]]
  /\ UNCHANGED <<today, nightly, manual, early, redis, failed, page>>

Finish(b) ==
  /\ batch[b].phase = "Update" /\ batch[b].left = {}
  /\ batch' = [batch EXCEPT ![b] = NoBatch]
  /\ UNCHANGED <<today, nightly, manual, early, redis, table, failed, page>>

-----------------------------------------------------------------------------
(* Mutant of Retriable: one attempt too many. *)
RetriableOnceMore(b) == batch[b].attempts <= Tries

Retriable(b) == batch[b].attempts < Tries

(* The attempt is over and what it read is gone: the batch is queued again,  *)
(* or recorded in failed_jobs after the last one.                            *)
Fail(b) ==
  /\ IF Retriable(b)
     THEN /\ batch' = [batch EXCEPT ![b] = [@ EXCEPT
               !.phase = "Queued", !.left = {}, !.inserting = {}, !.found = {},
               !.got = [j \in Jobs |-> 0]]]
          /\ UNCHANGED failed
     ELSE /\ failed' = failed \cup (batch[b].ids \X {batch[b].date})
          /\ batch' = [batch EXCEPT ![b] = NoBatch]
  /\ UNCHANGED <<today, nightly, manual, early, redis, table, page>>

(* The insert meets the unique key (job_id, stat_date). *)
KeyClash(b) ==
  /\ batch[b].phase = "Create"
  /\ \E j \in batch[b].inserting : <<j, batch[b].date>> \in stored
  /\ Fail(b)

(* An exception, a time-out or a dead worker. *)
Abort(b) == batch[b].phase \in {"Read", "Update", "Create"} /\ Fail(b)

Work(b) ==
  \/ Start(b) \/ Read(b) \/ BeginWriting(b)
  \/ Update(b) \/ UpdateNothing(b) \/ Create(b) \/ KeyClash(b) \/ Finish(b)

-----------------------------------------------------------------------------
(* Mutant of Archived: the row of today is summed as well. *)
ArchivedAndToday(now) == {d \in Days : d <= now}

(* The rows a total sums: those before today. *)
Archived(now) == {d \in Days : d < now}

(* getTotalViewsForIds: first the rows, then the counter of the same today. *)
SumRows(j) ==
  /\ page.phase = "none"
  /\ page' = [phase |-> "Sum", job |-> {j}, day |-> today,
              parts |-> [d \in Days |-> IF d \in Archived(today) THEN rows[j][d] ELSE 0]]
  /\ UNCHANGED <<today, nightly, manual, early, redis, table, batch, failed>>

(* What the total has of day d if it is answered now. *)
Part(j, d) == page.parts[d] + (IF d = page.day THEN pv[j][d] ELSE 0)

Answer ==
  /\ page.phase = "Sum"
  /\ page' = NoPage
  /\ UNCHANGED <<today, nightly, manual, early, redis, table, batch, failed>>

Next ==
  \/ \E j \in Jobs, d \in Days :
       \/ \E signedIn \in BOOLEAN : RecordView(j, d, signedIn)
       \/ ExpireViews(j, d) \/ ExpireVisitors(j, d)
  \/ Midnight \/ NightlySync
  \/ \E d \in Days : ManualSync(d)
  \/ \E b \in Batches : Work(b) \/ Abort(b)
  \/ \E j \in Jobs : SumRows(j)
  \/ Answer

Spec == Init /\ [][Next]_vars

(* The scheduler runs every day and the queue has a worker; days pass, views *)
(* come and attempts fail at will.                                           *)
FairSpec == Spec /\ WF_vars(NightlySync) /\ \A b \in Batches : WF_vars(Work(b))

-----------------------------------------------------------------------------
(* However often a date is synchronised, retried or synchronised twice at    *)
(* once, a row never holds more views than were counted on its date.         *)
RowsWithinCounts == \A j \in Jobs, d \in Days : rows[j][d] <= counted[j][d]

(* No view is shown twice: neither a sync of the current day nor a midnight  *)
(* between the two reads makes a total hold more of a day than it had.       *)
ShownWithinCounts ==
  \A j \in page.job, d \in Days : Part(j, d) <= counted[j][d]

(* A batch that waits, or is retried, until its keys expire reads nothing    *)
(* and leaves the archived rows alone: a row with views is never emptied,    *)
(* except where the visitor key outlived the counter.  There the code finds  *)
(* visitors without views and writes their 0 over the archived number.       *)
ArchiveSurvivesExpiry ==
  [][\A j \in Jobs, d \in Days :
       rows[j][d] > 0 /\ (Lives(d, today) \/ <<j, d>> \notin outlived) => rows'[j][d] > 0]_vars

(* The views of a day that is over come into their row, or their batch is on *)
(* record as failed, unless the queue stood still until the keys expired, or *)
(* a sync was started before the day was over: that one may save what it     *)
(* read then over the row of the nightly sync.                               *)
ArchivedOrReported ==
  \A j \in Jobs, d \in Days :
    (d < today /\ ~Countable(d))
      ~> (rows[j][d] = counted[j][d] \/ <<j, d>> \in failed \/ ~Lives(d, today) \/ d \in early)
=============================================================================
