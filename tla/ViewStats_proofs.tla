--------------------------- MODULE ViewStats_proofs ---------------------------
(***************************************************************************)
(* Proofs about ViewStats, for any number of jobs, batches, attempts, days  *)
(* and views.                                                               *)
(*                                                                         *)
(* Everything rests on one chain of bounds: a counter, what a batch has     *)
(* read of it, the row it writes and the rows a total sums never exceed the *)
(* views counted, which only grow.                                          *)
(***************************************************************************)
EXTENDS ViewStats, TLAPS

(* The nightly sync is due only after a midnight. *)
SyncFollowsMidnight == nightly \/ today > 1

(* A batch that waits in the queue has an attempt left. *)
QueuedMayRun ==
  \A b \in Batches : batch[b].phase = "Queued" => batch[b].attempts < Tries

CountersCounted == \A j \in Jobs, d \in Days : pv[j][d] <= counted[j][d]

ReadsCounted ==
  \A b \in Batches, j \in Jobs : batch[b].got[j] <= counted[j][batch[b].date]

(* What a batch has found or has still to write, it has seen views of, or    *)
(* visitors whose key outlived the counter; what it has read once it does    *)
(* not read again.                                                          *)
FindsViews(q) ==
  /\ q.found \cap q.left = {} /\ (q.phase # "Read" => q.found = {})
  /\ \A j \in q.found : q.got[j] > 0 \/ <<j, q.date>> \in outlived
  /\ q.phase \in {"Update", "Create"} =>
       \A j \in q.left : q.got[j] > 0 \/ <<j, q.date>> \in outlived

WritesSeen == \A b \in Batches : FindsViews(batch[b])

(* A visitor key has its counter beside it, or has outlived it; and that     *)
(* takes the time of both to be over.                                        *)
VisitorsBesideViews ==
  \A j \in Jobs, d \in Days : <<j, d>> \in uv => pv[j][d] > 0 \/ <<j, d>> \in outlived

OutlivedExpired == \A j \in Jobs, d \in Days : <<j, d>> \in outlived => ~Lives(d, today)

RowsAreStored == \A j \in Jobs, d \in Days : rows[j][d] > 0 => <<j, d>> \in stored

(* A total has summed nothing of its own day yet. *)
SumsCounted ==
  \A j \in page.job, d \in Days :
    page.parts[d] <= counted[j][d] /\ (d >= page.day => page.parts[d] = 0)

IInv ==
  /\ TypeOK /\ SyncFollowsMidnight /\ QueuedMayRun /\ CountersCounted
  /\ ReadsCounted /\ WritesSeen /\ VisitorsBesideViews /\ OutlivedExpired
  /\ RowsAreStored /\ RowsWithinCounts /\ SumsCounted

USE KeyTtlAssumption, TriesAssumption, BoundsAssumption DEF redis, table

-----------------------------------------------------------------------------
LEMMA NoBatchIsBatch == NoBatch \in Batch
BY SMT DEF NoBatch, Batch, Phases, Days, Views

LEMMA InitIInv == Init => IInv
<1> SUFFICES ASSUME Init PROVE IInv
  OBVIOUS
<1> USE DEF Init
<1>1. /\ batch \in [Batches -> Batch]
      /\ \A b \in Batches : batch[b] = NoBatch
  BY NoBatchIsBatch
<1>2. page \in Page
  BY SMT DEF NoPage, Page, Days, Views
<1>3. NoViews \in [Jobs -> [Days -> Views]]
  BY SMT DEF NoViews, Days, Views
<1>4. TypeOK
  BY <1>1, <1>2, <1>3, SMT DEF TypeOK, Days
<1>5. /\ SyncFollowsMidnight /\ CountersCounted /\ RowsWithinCounts
      /\ VisitorsBesideViews /\ OutlivedExpired /\ RowsAreStored
  BY SMT DEF SyncFollowsMidnight, CountersCounted, RowsWithinCounts, VisitorsBesideViews,
             OutlivedExpired, RowsAreStored, NoViews, Days
<1>6. QueuedMayRun /\ ReadsCounted /\ WritesSeen
  BY <1>1, SMT DEF QueuedMayRun, ReadsCounted, WritesSeen, FindsViews, NoBatch, NoViews, Days
<1>7. SumsCounted
  BY SMT DEF SumsCounted, NoPage, Days
<1> QED
  BY <1>4, <1>5, <1>6, <1>7 DEF IInv

-----------------------------------------------------------------------------
(* A step that only moves one batch, and may write rows and failures, keeps  *)
(* the invariant if what it leaves the batch with does.                      *)
LEMMA BatchKeeps ==
  ASSUME IInv, NEW b \in Batches, NEW nb \in Batch,
         batch' = [batch EXCEPT ![b] = nb],
         nb.phase = "Queued" => nb.attempts < Tries,
         \A j \in Jobs : nb.got[j] <= counted[j][nb.date],
         FindsViews(nb),
         rows' \in [Jobs -> [Days -> Views]],
         \A j \in Jobs, d \in Days : rows'[j][d] <= counted[j][d],
         stored' \subseteq Jobs \X Days,
         \A j \in Jobs, d \in Days : rows'[j][d] > 0 => <<j, d>> \in stored',
         failed' \subseteq Jobs \X Days,
         manual' \in 0 .. MaxManual, early' \subseteq Days, nightly' \in BOOLEAN,
         nightly' \/ today > 1,
         UNCHANGED <<today, redis, page>>
  PROVE  IInv'
<1> USE DEF IInv
<1>1. TypeOK'
  BY DEF TypeOK
<1>2. \A c \in Batches : batch'[c] = IF c = b THEN nb ELSE batch[c]
  BY DEF TypeOK
<1>3. QueuedMayRun'
  BY <1>2 DEF QueuedMayRun
<1>4. ReadsCounted'
  BY <1>2 DEF ReadsCounted
<1>5. WritesSeen'
  BY <1>2 DEF WritesSeen, FindsViews
<1>6. RowsWithinCounts' /\ RowsAreStored'
  BY DEF RowsWithinCounts, RowsAreStored
<1>7. (SyncFollowsMidnight /\ CountersCounted /\ SumsCounted /\ VisitorsBesideViews
       /\ OutlivedExpired)'
  BY DEF SyncFollowsMidnight, CountersCounted, SumsCounted, VisitorsBesideViews,
         OutlivedExpired, Lives
<1> QED
  BY <1>1, <1>3, <1>4, <1>5, <1>6, <1>7

(* The same for a step that leaves rows, failures and commands alone.        *)
LEMMA QuietBatchKeeps ==
  ASSUME IInv, NEW b \in Batches, NEW nb \in Batch,
         batch' = [batch EXCEPT ![b] = nb],
         nb.phase = "Queued" => nb.attempts < Tries,
         \A j \in Jobs : nb.got[j] <= counted[j][nb.date],
         FindsViews(nb),
         UNCHANGED <<today, nightly, manual, early, redis, table, failed, page>>
  PROVE  IInv'
<1>1. /\ rows' \in [Jobs -> [Days -> Views]] /\ failed' \subseteq Jobs \X Days
      /\ stored' \subseteq Jobs \X Days
      /\ manual' \in 0 .. MaxManual /\ early' \subseteq Days /\ nightly' \in BOOLEAN
  BY DEF IInv, TypeOK
<1>2. \A j \in Jobs, d \in Days :
        rows'[j][d] <= counted[j][d] /\ (rows'[j][d] > 0 => <<j, d>> \in stored')
  BY DEF IInv, RowsWithinCounts, RowsAreStored
<1>3. nightly' \/ today > 1
  BY DEF IInv, SyncFollowsMidnight
<1> QED
  BY <1>1, <1>2, <1>3, BatchKeeps

LEMMA BatchFacts ==
  ASSUME IInv, NEW b \in Batches
  PROVE  /\ batch[b] \in Batch
         /\ batch[b].phase \in Phases /\ batch[b].date \in Days /\ batch[b].ids \subseteq Jobs
         /\ batch[b].attempts \in 0 .. Tries /\ batch[b].left \subseteq Jobs
         /\ batch[b].inserting \subseteq Jobs /\ batch[b].got \in [Jobs -> Views]
         /\ batch[b] = [phase |-> batch[b].phase, date |-> batch[b].date, ids |-> batch[b].ids,
                        attempts |-> batch[b].attempts, left |-> batch[b].left,
                        inserting |-> batch[b].inserting, got |-> batch[b].got,
                        found |-> batch[b].found]
         /\ \A j \in Jobs : batch[b].got[j] <= counted[j][batch[b].date]
         /\ batch[b].found \subseteq Jobs /\ FindsViews(batch[b])
BY DEF IInv, TypeOK, Batch, ReadsCounted, WritesSeen

(* What NoBatch leaves behind. *)
LEMMA NoBatchFacts ==
  ASSUME IInv
  PROVE  /\ NoBatch \in Batch /\ NoBatch.phase = "none"
         /\ \A j \in Jobs : NoBatch.got[j] <= counted[j][NoBatch.date]
         /\ FindsViews(NoBatch)
<1>1. 1 \in Days
  BY SMT DEF Days
<1> QED
  BY <1>1, NoBatchIsBatch, SMT DEF NoBatch, FindsViews, IInv, TypeOK, Views

-----------------------------------------------------------------------------
(* The steps of the clock, the viewers and the readers.                      *)
LEMMA RecordKeeps ==
  ASSUME IInv, NEW j \in Jobs, NEW d \in Days, NEW s \in BOOLEAN, RecordView(j, d, s)
  PROVE  IInv'
<1> USE DEF IInv, RecordView
<1>1. /\ pv' \in [Jobs -> [Days -> Views]] /\ counted' \in [Jobs -> [Days -> Views]]
      /\ \A i \in Jobs, e \in Days :
           counted[i][e] <= counted'[i][e] /\ pv'[i][e] <= counted'[i][e]
  <2>1. pv[j][d] + 1 \in Views /\ counted[j][d] + 1 \in Views
    BY SMT DEF TypeOK, CountersCounted, Views
  <2>2. pv' \in [Jobs -> [Days -> Views]] /\ counted' \in [Jobs -> [Days -> Views]]
    BY <2>1, SMT DEF TypeOK
  <2>3. \A i \in Jobs, e \in Days :
           counted[i][e] <= counted'[i][e] /\ pv'[i][e] <= counted'[i][e]
    BY SMT DEF TypeOK, CountersCounted, Views
  <2> QED BY <2>2, <2>3
<1>2. TypeOK'
  BY <1>1 DEF TypeOK
<1>3. CountersCounted'
  BY <1>1 DEF CountersCounted
<1>4. ReadsCounted'
  <2> SUFFICES ASSUME NEW b \in Batches, NEW i \in Jobs
               PROVE  batch[b].got[i] <= counted'[i][batch[b].date]
    BY DEF ReadsCounted
  <2>1. batch[b].got[i] \in Nat /\ batch[b].date \in Days
        /\ batch[b].got[i] <= counted[i][batch[b].date]
    <3>1. batch[b].got \in [Jobs -> Views] /\ batch[b].date \in Days
          /\ batch[b].got[i] <= counted[i][batch[b].date]
      BY BatchFacts
    <3> QED BY <3>1, SMT DEF Views
  <2> QED BY <1>1, <2>1, SMT DEF TypeOK, Views
<1>5. RowsWithinCounts'
  BY <1>1, SMT DEF RowsWithinCounts, TypeOK, Views
<1>6. SumsCounted'
  <2> SUFFICES ASSUME NEW i \in page.job, NEW e \in Days
               PROVE  page.parts[e] <= counted'[i][e] /\ (e >= page.day => page.parts[e] = 0)
    BY DEF SumsCounted
  <2>1. i \in Jobs /\ page.parts[e] \in Nat
    BY SMT DEF TypeOK, Page, Views
  <2> QED BY <1>1, <2>1, SMT DEF SumsCounted, TypeOK, Views
<1>7. (SyncFollowsMidnight /\ QueuedMayRun /\ WritesSeen /\ OutlivedExpired /\ RowsAreStored)'
  BY DEF SyncFollowsMidnight, QueuedMayRun, WritesSeen, FindsViews, OutlivedExpired,
         RowsAreStored, Lives
<1>8. VisitorsBesideViews'
  BY SMT DEF VisitorsBesideViews, TypeOK, Views
<1> QED BY <1>2, <1>3, <1>4, <1>5, <1>6, <1>7, <1>8

LEMMA MidnightKeeps ==
  ASSUME IInv, Midnight
  PROVE  IInv'
<1> USE DEF IInv, Midnight
<1>1. today' \in Days /\ today' > 1 /\ today' > today
  BY SMT DEF TypeOK, Days
<1>2. TypeOK'
  BY <1>1 DEF TypeOK
<1>3. SyncFollowsMidnight'
  BY <1>1 DEF SyncFollowsMidnight
<1>4. OutlivedExpired'
  BY <1>1, SMT DEF OutlivedExpired, Lives, TypeOK, Days
<1>5. (QueuedMayRun /\ CountersCounted /\ ReadsCounted /\ WritesSeen /\ VisitorsBesideViews
       /\ RowsAreStored /\ RowsWithinCounts /\ SumsCounted)'
  BY DEF QueuedMayRun, CountersCounted, ReadsCounted, WritesSeen, FindsViews,
         VisitorsBesideViews, RowsAreStored, RowsWithinCounts, SumsCounted
<1> QED BY <1>2, <1>3, <1>4, <1>5

LEMMA ExpireKeeps ==
  ASSUME IInv, NEW j \in Jobs, NEW d \in Days, ExpireViews(j, d) \/ ExpireVisitors(j, d)
  PROVE  IInv'
<1> USE DEF IInv
<1>1. /\ pv' \in [Jobs -> [Days -> Views]]
      /\ \A i \in Jobs, e \in Days : pv'[i][e] <= counted[i][e]
  <2>1. CASE ExpireViews(j, d)
    <3>1. 0 \in Views /\ 0 <= counted[j][d]
      BY SMT DEF TypeOK, Views
    <3> QED BY <2>1, <3>1 DEF ExpireViews, TypeOK, CountersCounted
  <2>2. CASE ExpireVisitors(j, d)
    BY <2>2 DEF ExpireVisitors, TypeOK, CountersCounted
  <2> QED BY <2>1, <2>2
<1>2. /\ uv' \subseteq Jobs \X Days /\ outlived' \subseteq Jobs \X Days
      /\ outlived \subseteq outlived'
      /\ UNCHANGED <<today, nightly, manual, early, counted, table, batch, failed, page>>
  BY DEF ExpireViews, ExpireVisitors, TypeOK
<1>3. TypeOK'
  BY <1>1, <1>2 DEF TypeOK
<1>4. VisitorsBesideViews'
  <2>1. CASE ExpireViews(j, d)
    BY <2>1 DEF ExpireViews, VisitorsBesideViews, TypeOK
  <2>2. CASE ExpireVisitors(j, d)
    BY <2>2 DEF ExpireVisitors, VisitorsBesideViews
  <2> QED BY <2>1, <2>2
<1>5. OutlivedExpired'
  BY DEF ExpireViews, ExpireVisitors, OutlivedExpired, Lives
<1>6. WritesSeen'
  BY <1>2 DEF WritesSeen, FindsViews
<1>7. CountersCounted'
  BY <1>1, <1>2 DEF CountersCounted
<1>8. (SyncFollowsMidnight /\ QueuedMayRun /\ ReadsCounted /\ RowsAreStored
       /\ RowsWithinCounts /\ SumsCounted)'
  BY <1>2 DEF SyncFollowsMidnight, QueuedMayRun, ReadsCounted, RowsAreStored,
              RowsWithinCounts, SumsCounted
<1> QED BY <1>3, <1>4, <1>5, <1>6, <1>7, <1>8

LEMMA TotalKeeps ==
  ASSUME IInv, (\E j \in Jobs : SumRows(j)) \/ Answer
  PROVE  IInv'
<1> USE DEF IInv
<1>1. page' \in Page /\ SumsCounted'
  <2>1. CASE Answer
    BY <2>1, SMT DEF Answer, NoPage, Page, Days, Views, SumsCounted
  <2>2. ASSUME NEW j \in Jobs, SumRows(j)
        PROVE  page' \in Page /\ SumsCounted'
    <3> USE <2>2 DEF SumRows
    <3>1. \A d \in Days : (IF d \in Archived(today) THEN rows[j][d] ELSE 0) \in Views
      BY SMT DEF TypeOK, Views
    <3>2. page' \in Page
      BY <3>1, SMT DEF Page, TypeOK
    <3>3. SumsCounted'
      BY SMT DEF SumsCounted, RowsWithinCounts, TypeOK, Archived, Days, Views
    <3> QED BY <3>2, <3>3
  <2> QED BY <2>1, <2>2
<1>2. UNCHANGED <<today, nightly, manual, early, redis, table, batch, failed>>
  BY DEF SumRows, Answer
<1>3. TypeOK'
  BY <1>1, <1>2 DEF TypeOK
<1>4. (SyncFollowsMidnight /\ QueuedMayRun /\ CountersCounted /\ ReadsCounted
       /\ WritesSeen /\ VisitorsBesideViews /\ OutlivedExpired /\ RowsAreStored
       /\ RowsWithinCounts)'
  BY <1>2 DEF SyncFollowsMidnight, QueuedMayRun, CountersCounted, ReadsCounted,
              WritesSeen, FindsViews, VisitorsBesideViews, OutlivedExpired, RowsAreStored,
              RowsWithinCounts, Lives
<1> QED BY <1>1, <1>3, <1>4

(* The command: a batch of unread jobs, or none.                             *)
LEMMA DispatchKeeps ==
  ASSUME IInv, NEW d \in Days, Dispatch(d),
         manual' \in 0 .. MaxManual, early' \subseteq Days, nightly' \in BOOLEAN,
         nightly' \/ today > 1,
         UNCHANGED <<today, redis, table, failed, page>>
  PROVE  IInv'
<1> USE DEF IInv
<1>1. CASE Discovered(d) = {}
  <2>1. UNCHANGED batch
    BY <1>1 DEF Dispatch
  <2>2. TypeOK'
    BY <2>1 DEF TypeOK
  <2> QED BY <2>1, <2>2 DEF SyncFollowsMidnight, QueuedMayRun, CountersCounted, ReadsCounted,
             WritesSeen, FindsViews, VisitorsBesideViews, OutlivedExpired, RowsAreStored,
             RowsWithinCounts, SumsCounted, Lives
<1>2. CASE Discovered(d) # {}
  <2>1. PICK b \in Batches :
          batch' = [batch EXCEPT ![b] =
            [NoBatch EXCEPT !.phase = "Queued", !.date = d, !.ids = Discovered(d)]]
    BY <1>2 DEF Dispatch
  <2> DEFINE nb == [NoBatch EXCEPT !.phase = "Queued", !.date = d, !.ids = Discovered(d)]
  <2>2. batch' = [batch EXCEPT ![b] = nb]
    BY <2>1
  <2>3. nb \in Batch
    <3>1. "Queued" \in Phases /\ Discovered(d) \in SUBSET Jobs
      BY DEF Phases, Discovered
    <3>2. NoBatch \in Batch
      BY NoBatchIsBatch
    <3> HIDE DEF NoBatch
    <3> QED BY <3>1, <3>2, Zenon DEF Batch
  <2>4. nb.phase = "Queued" /\ nb.attempts = 0 /\ nb.date = d /\ nb.got = [j \in Jobs |-> 0]
        /\ nb.found = {}
    BY SMT DEF NoBatch
  <2>5. \A j \in Jobs : nb.got[j] <= counted[j][nb.date]
    BY <2>4, SMT DEF TypeOK, Views
  <2>6. \A j \in Jobs, e \in Days :
          rows'[j][e] <= counted[j][e] /\ (rows'[j][e] > 0 => <<j, e>> \in stored')
    BY DEF RowsWithinCounts, RowsAreStored
  <2>7. rows' \in [Jobs -> [Days -> Views]] /\ failed' \subseteq Jobs \X Days
        /\ stored' \subseteq Jobs \X Days
    BY DEF TypeOK
  <2>8. nb.attempts < Tries /\ FindsViews(nb)
    BY <2>4, SMT DEF FindsViews
  <2> HIDE DEF nb
  <2> QED BY <2>2, <2>3, <2>5, <2>6, <2>7, <2>8, BatchKeeps
<1> QED BY <1>1, <1>2

LEMMA CommandKeeps ==
  ASSUME IInv, NightlySync \/ \E d \in Days : ManualSync(d)
  PROVE  IInv'
<1> USE DEF IInv
<1>1. CASE NightlySync
  <2>1. SyncedDate(today) \in Days
    BY <1>1, SMT DEF NightlySync, SyncedDate, SyncFollowsMidnight, TypeOK, Days
  <2>2. Dispatch(SyncedDate(today))
    BY <1>1 DEF NightlySync
  <2>3. /\ manual' \in 0 .. MaxManual /\ early' \subseteq Days /\ nightly' = TRUE
        /\ UNCHANGED <<today, redis, table, failed, page>>
    BY <1>1 DEF NightlySync, TypeOK
  <2>4. PICK d \in Days : d = SyncedDate(today)
    BY <2>1
  <2>5. Dispatch(d)
    BY <2>2, <2>4
  <2> QED BY <2>3, <2>5, DispatchKeeps
<1>2. ASSUME NEW d \in Days, ManualSync(d)
      PROVE  IInv'
  <2>1. manual' \in 0 .. MaxManual /\ early' \subseteq Days
    BY <1>2, SMT DEF ManualSync, TypeOK
  <2>2. nightly' \in BOOLEAN /\ (nightly' \/ today > 1)
    BY <1>2 DEF ManualSync, TypeOK, SyncFollowsMidnight
  <2> QED BY <1>2, <2>1, <2>2, DispatchKeeps DEF ManualSync
<1> QED BY <1>1, <1>2

-----------------------------------------------------------------------------
(* The steps of a batch.                                                     *)
LEMMA ReadingKeeps ==
  ASSUME IInv, NEW b \in Batches, Start(b) \/ Read(b) \/ BeginWriting(b) \/ Finish(b)
  PROVE  IInv'
<1>f. /\ batch[b] \in Batch
      /\ batch[b].phase \in Phases /\ batch[b].date \in Days /\ batch[b].ids \subseteq Jobs
      /\ batch[b].attempts \in 0 .. Tries /\ batch[b].left \subseteq Jobs
      /\ batch[b].inserting \subseteq Jobs /\ batch[b].got \in [Jobs -> Views]
      /\ \A j \in Jobs : batch[b].got[j] <= counted[j][batch[b].date]
      /\ batch[b].found \subseteq Jobs /\ FindsViews(batch[b])
  BY BatchFacts
<1>1. CASE Start(b)
  <2> DEFINE nb == [batch[b] EXCEPT !.phase = "Read", !.attempts = batch[b].attempts + 1,
                                    !.left = batch[b].ids]
  <2>1. batch' = [batch EXCEPT ![b] = nb]
    BY <1>1 DEF Start
  <2>2. batch[b].phase = "Queued" /\ batch[b].attempts < Tries
    BY <1>1 DEF Start, IInv, QueuedMayRun
  <2>3. "Read" \in Phases /\ batch[b].attempts + 1 \in 0 .. Tries
    BY <1>f, <2>2, SMT DEF Phases
  <2>4. nb \in Batch
    BY <1>f, <2>3, Zenon DEF Batch
  <2>5. nb.phase = "Read" /\ nb.got = batch[b].got /\ nb.date = batch[b].date
        /\ nb.found = batch[b].found
    BY <1>f, SMT DEF Batch
  <2> HIDE DEF nb
  <2>6. FindsViews(nb)
    BY <1>f, <2>2, <2>5 DEF FindsViews
  <2>7. UNCHANGED <<today, nightly, manual, early, redis, table, failed, page>>
    BY <1>1 DEF Start
  <2> QED BY <1>f, <2>1, <2>4, <2>5, <2>6, <2>7, QuietBatchKeeps
<1>2. CASE Read(b)
  <2>1. PICK j \in batch[b].left :
          batch' = [batch EXCEPT ![b] = [batch[b] EXCEPT
            !.left = batch[b].left \ {j},
            !.got = [batch[b].got EXCEPT ![j] = ReadOf(b, j)],
            !.found = batch[b].found \cup {i \in {j} : ToWrite(b, i)}]]
    BY <1>2 DEF Read
  <2> DEFINE g == [batch[b].got EXCEPT ![j] = ReadOf(b, j)]
             fd == batch[b].found \cup {i \in {j} : ToWrite(b, i)}
             nb == [batch[b] EXCEPT !.left = batch[b].left \ {j}, !.got = g, !.found = fd]
  <2>2. batch' = [batch EXCEPT ![b] = nb]
    BY <2>1
  <2>3. ReadOf(b, j) \in Views /\ ReadOf(b, j) <= counted[j][batch[b].date]
    BY <1>f, <2>1 DEF ReadOf, IInv, TypeOK, CountersCounted
  <2>4. /\ g \in [Jobs -> Views] /\ fd \in SUBSET Jobs
        /\ \A i \in Jobs : g[i] <= counted[i][batch[b].date]
    BY <1>f, <2>3
  <2>5. batch[b].phase = "Read"
        /\ UNCHANGED <<today, nightly, manual, early, redis, table, failed, page>>
    BY <1>2 DEF Read
  <2>6. /\ fd \cap (batch[b].left \ {j}) = {}
        /\ \A i \in fd : g[i] > 0 \/ <<i, batch[b].date>> \in outlived
    <3>1. \A i \in batch[b].found :
            i # j /\ (batch[b].got[i] > 0 \/ <<i, batch[b].date>> \in outlived)
      BY <1>f, <2>1 DEF FindsViews
    <3>2. ToWrite(b, j) => ReadOf(b, j) > 0 \/ <<j, batch[b].date>> \in outlived
      BY <1>f, <2>1 DEF ToWrite, ReadOf, IInv, VisitorsBesideViews
    <3>3. g[j] = ReadOf(b, j) /\ \A i \in Jobs : i # j => g[i] = batch[b].got[i]
      BY <1>f, <2>1
    <3> QED BY <1>f, <2>1, <3>1, <3>2, <3>3 DEF FindsViews
  <2> HIDE DEF g, fd
  <2>7. nb \in Batch
    BY <1>f, <2>4, Zenon DEF Batch
  <2>8. nb.phase = batch[b].phase /\ nb.got = g /\ nb.date = batch[b].date
        /\ nb.left = batch[b].left \ {j} /\ nb.found = fd
    BY <1>f, SMT DEF Batch
  <2> HIDE DEF nb
  <2>9. FindsViews(nb)
    BY <2>5, <2>6, <2>8 DEF FindsViews
  <2> QED BY <2>2, <2>4, <2>5, <2>7, <2>8, <2>9, QuietBatchKeeps
<1>3. CASE BeginWriting(b)
  <2> DEFINE nb == [batch[b] EXCEPT !.phase = "Update", !.left = batch[b].found, !.found = {}]
  <2>1. batch' = [batch EXCEPT ![b] = nb]
    BY <1>3 DEF BeginWriting
  <2>2. "Update" \in Phases /\ {} \in SUBSET Jobs
    BY DEF Phases
  <2>3. nb \in Batch
    BY <1>f, <2>2, Zenon DEF Batch
  <2>4. nb.phase = "Update" /\ nb.got = batch[b].got /\ nb.date = batch[b].date
        /\ nb.left = batch[b].found /\ nb.found = {}
    BY <1>f, SMT DEF Batch
  <2>5. UNCHANGED <<today, nightly, manual, early, redis, table, failed, page>>
    BY <1>3 DEF BeginWriting
  <2> HIDE DEF nb
  <2>6. FindsViews(nb)
    BY <1>f, <2>4 DEF FindsViews
  <2> QED BY <1>f, <2>1, <2>3, <2>4, <2>5, <2>6, QuietBatchKeeps
<1>4. CASE Finish(b)
  <2>1. batch' = [batch EXCEPT ![b] = NoBatch]
        /\ UNCHANGED <<today, nightly, manual, early, redis, table, failed, page>>
    BY <1>4 DEF Finish
  <2> QED BY <2>1, NoBatchFacts, QuietBatchKeeps
<1> QED BY <1>1, <1>2, <1>3, <1>4

(* A row that is written holds what the batch read.                          *)
LEMMA RowWritten ==
  ASSUME IInv, NEW b \in Batches, NEW j \in Jobs,
         rows' = [rows EXCEPT ![j][batch[b].date] = batch[b].got[j]]
  PROVE  /\ rows' \in [Jobs -> [Days -> Views]]
         /\ \A i \in Jobs, d \in Days : rows'[i][d] <= counted[i][d]
         /\ \A i \in Jobs, d \in Days :
              rows'[i][d] = IF i = j /\ d = batch[b].date THEN batch[b].got[j] ELSE rows[i][d]
<1>1. /\ batch[b].date \in Days /\ batch[b].got[j] \in Views
      /\ batch[b].got[j] <= counted[j][batch[b].date]
  BY BatchFacts
<1>2. rows \in [Jobs -> [Days -> Views]] /\ \A i \in Jobs, d \in Days : rows[i][d] <= counted[i][d]
  BY DEF IInv, TypeOK, RowsWithinCounts
<1> QED BY <1>1, <1>2

LEMMA WritingKeeps ==
  ASSUME IInv, NEW b \in Batches, Update(b) \/ UpdateNothing(b) \/ Create(b)
  PROVE  IInv'
<1>f. /\ batch[b] \in Batch
      /\ batch[b].phase \in Phases /\ batch[b].date \in Days /\ batch[b].ids \subseteq Jobs
      /\ batch[b].attempts \in 0 .. Tries /\ batch[b].left \subseteq Jobs
      /\ batch[b].inserting \subseteq Jobs /\ batch[b].got \in [Jobs -> Views]
      /\ \A j \in Jobs : batch[b].got[j] <= counted[j][batch[b].date]
      /\ batch[b].found \subseteq Jobs /\ FindsViews(batch[b])
  BY BatchFacts
<1>c. /\ failed \subseteq Jobs \X Days /\ manual \in 0 .. MaxManual /\ early \subseteq Days
      /\ stored \subseteq Jobs \X Days
      /\ nightly \in BOOLEAN /\ (nightly \/ today > 1)
      /\ \A j \in Jobs, d \in Days : rows[j][d] > 0 => <<j, d>> \in stored
  BY DEF IInv, TypeOK, SyncFollowsMidnight, RowsAreStored
<1>1. CASE Update(b)
  <2>1. PICK j \in batch[b].left :
          /\ <<j, batch[b].date>> \in stored
          /\ rows' = [rows EXCEPT ![j][batch[b].date] = batch[b].got[j]]
          /\ batch' = [batch EXCEPT ![b] = [batch[b] EXCEPT !.left = batch[b].left \ {j}]]
    BY <1>1 DEF Update
  <2> DEFINE nb == [batch[b] EXCEPT !.left = batch[b].left \ {j}]
  <2>2. nb \in Batch
    BY <1>f, SMT DEF Batch
  <2>3. nb.phase = batch[b].phase /\ nb.got = batch[b].got /\ nb.date = batch[b].date
        /\ nb.left = batch[b].left \ {j} /\ nb.found = batch[b].found
    BY <1>f, SMT DEF Batch
  <2>4. batch[b].phase = "Update"
    BY <1>1 DEF Update
  <2>5. batch' = [batch EXCEPT ![b] = nb]
        /\ UNCHANGED <<today, nightly, manual, early, redis, stored, failed, page>>
    BY <1>1, <2>1 DEF Update
  <2>6. /\ rows' \in [Jobs -> [Days -> Views]]
        /\ \A i \in Jobs, d \in Days : rows'[i][d] <= counted[i][d]
        /\ \A i \in Jobs, d \in Days : rows'[i][d] > 0 => <<i, d>> \in stored'
    <3>1. j \in Jobs
      BY <1>f, <2>1
    <3>0. rows' = [rows EXCEPT ![j][batch[b].date] = batch[b].got[j]]
      BY <2>1
    <3>2. /\ rows' \in [Jobs -> [Days -> Views]]
          /\ \A i \in Jobs, d \in Days : rows'[i][d] <= counted[i][d]
          /\ \A i \in Jobs, d \in Days :
               rows'[i][d] = IF i = j /\ d = batch[b].date THEN batch[b].got[j] ELSE rows[i][d]
      BY <3>0, <3>1, RowWritten, ZenonT(30)
    <3>3. \A i \in Jobs, d \in Days : rows'[i][d] > 0 => <<i, d>> \in stored
      BY <1>c, <2>1, <3>2
    <3> QED BY <2>5, <3>2, <3>3
  <2>7. FindsViews(nb)
    BY <1>f, <2>3, <2>4 DEF FindsViews
  <2> HIDE DEF nb
  <2> QED BY <1>f, <1>c, <2>2, <2>3, <2>4, <2>5, <2>6, <2>7, BatchKeeps
<1>2. CASE UpdateNothing(b)
  <2>1. PICK j \in batch[b].left :
          batch' = [batch EXCEPT ![b] = [batch[b] EXCEPT !.phase = "Create", !.inserting = {j}]]
    BY <1>2 DEF UpdateNothing
  <2> DEFINE nb == [batch[b] EXCEPT !.phase = "Create", !.inserting = {j}]
  <2>2. "Create" \in Phases /\ {j} \in SUBSET Jobs
    BY <1>f DEF Phases
  <2>3. nb \in Batch
    BY <1>f, <2>2, Zenon DEF Batch
  <2>4. nb.phase = "Create" /\ nb.got = batch[b].got /\ nb.date = batch[b].date
        /\ nb.left = batch[b].left /\ nb.found = batch[b].found
    BY <1>f, SMT DEF Batch
  <2>5. batch' = [batch EXCEPT ![b] = nb]
        /\ UNCHANGED <<today, nightly, manual, early, redis, table, failed, page>>
    BY <1>2, <2>1 DEF UpdateNothing
  <2>6. batch[b].phase = "Update"
    BY <1>2 DEF UpdateNothing
  <2> HIDE DEF nb
  <2>7. FindsViews(nb)
    BY <1>f, <2>4, <2>6 DEF FindsViews
  <2> QED BY <1>f, <2>3, <2>4, <2>5, <2>7, QuietBatchKeeps
<1>3. CASE Create(b)
  <2>1. PICK j \in batch[b].inserting :
          /\ stored' = stored \cup {<<j, batch[b].date>>}
          /\ rows' = [rows EXCEPT ![j][batch[b].date] = batch[b].got[j]]
          /\ batch' = [batch EXCEPT ![b] = [batch[b] EXCEPT
               !.phase = "Update", !.left = batch[b].left \ {j}, !.inserting = {}]]
    BY <1>3 DEF Create
  <2> DEFINE nb == [batch[b] EXCEPT !.phase = "Update", !.left = batch[b].left \ {j},
                                    !.inserting = {}]
  <2>2. nb \in Batch
    <3>1. "Update" \in Phases /\ (batch[b].left \ {j}) \in SUBSET Jobs /\ {} \in SUBSET Jobs
      BY <1>f DEF Phases
    <3> QED BY <1>f, <3>1, Zenon DEF Batch
  <2>3. nb.phase = "Update" /\ nb.got = batch[b].got /\ nb.date = batch[b].date
        /\ nb.left = batch[b].left \ {j} /\ nb.found = batch[b].found
    BY <1>f, SMT DEF Batch
  <2>4. batch[b].phase = "Create"
    BY <1>3 DEF Create
  <2>5. batch' = [batch EXCEPT ![b] = nb]
        /\ UNCHANGED <<today, nightly, manual, early, redis, failed, page>>
    BY <1>3, <2>1 DEF Create
  <2>6. /\ rows' \in [Jobs -> [Days -> Views]] /\ stored' \subseteq Jobs \X Days
        /\ \A i \in Jobs, d \in Days : rows'[i][d] <= counted[i][d]
        /\ \A i \in Jobs, d \in Days : rows'[i][d] > 0 => <<i, d>> \in stored'
    <3>1. j \in Jobs
      BY <1>f, <2>1
    <3>0. rows' = [rows EXCEPT ![j][batch[b].date] = batch[b].got[j]]
      BY <2>1
    <3>2. /\ rows' \in [Jobs -> [Days -> Views]]
          /\ \A i \in Jobs, d \in Days : rows'[i][d] <= counted[i][d]
          /\ \A i \in Jobs, d \in Days :
               rows'[i][d] = IF i = j /\ d = batch[b].date THEN batch[b].got[j] ELSE rows[i][d]
      BY <3>0, <3>1, RowWritten, ZenonT(30)
    <3>3. \A i \in Jobs, d \in Days : rows'[i][d] > 0 => <<i, d>> \in stored'
      BY <1>c, <2>1, <3>2
    <3>4. stored' \subseteq Jobs \X Days
      BY <1>f, <1>c, <2>1, <3>1
    <3> QED BY <3>2, <3>3, <3>4
  <2>7. FindsViews(nb)
    BY <1>f, <2>3, <2>4 DEF FindsViews
  <2> HIDE DEF nb
  <2> QED BY <1>f, <1>c, <2>2, <2>3, <2>4, <2>5, <2>6, <2>7, BatchKeeps
<1> QED BY <1>1, <1>2, <1>3

LEMMA FailKeeps ==
  ASSUME IInv, NEW b \in Batches, Fail(b)
  PROVE  IInv'
<1>f. /\ batch[b] \in Batch
      /\ batch[b].phase \in Phases /\ batch[b].date \in Days /\ batch[b].ids \subseteq Jobs
      /\ batch[b].attempts \in 0 .. Tries /\ batch[b].left \subseteq Jobs
      /\ batch[b].inserting \subseteq Jobs /\ batch[b].got \in [Jobs -> Views]
      /\ \A j \in Jobs : batch[b].got[j] <= counted[j][batch[b].date]
      /\ batch[b].found \subseteq Jobs /\ FindsViews(batch[b])
  BY BatchFacts
<1>1. CASE Retriable(b)
  <2> DEFINE g == [j \in Jobs |-> 0]
             nb == [batch[b] EXCEPT !.phase = "Queued", !.left = {}, !.inserting = {},
                                    !.found = {}, !.got = g]
  <2>1. batch' = [batch EXCEPT ![b] = nb]
        /\ UNCHANGED <<today, nightly, manual, early, redis, table, failed, page>>
    BY <1>1 DEF Fail
  <2>2. nb \in Batch
    <3>1. "Queued" \in Phases /\ {} \in SUBSET Jobs /\ g \in [Jobs -> Views]
      BY SMT DEF Phases, Views
    <3> HIDE DEF g
    <3> QED BY <1>f, <3>1, Zenon DEF Batch
  <2>3. nb.phase = "Queued" /\ nb.got = g /\ nb.date = batch[b].date
        /\ nb.attempts = batch[b].attempts /\ nb.found = {}
    BY <1>f, SMT DEF Batch
  <2>4. batch[b].attempts < Tries
    BY <1>1 DEF Retriable
  <2>5. \A j \in Jobs : g[j] <= counted[j][batch[b].date]
    <3>1. \A j \in Jobs : g[j] = 0 /\ counted[j][batch[b].date] \in Views
      BY <1>f DEF IInv, TypeOK
    <3>2. ASSUME NEW j \in Jobs  PROVE g[j] <= counted[j][batch[b].date]
      <4>1. g[j] = 0 /\ counted[j][batch[b].date] \in Views
        BY <3>1
      <4> HIDE DEF g
      <4> QED BY <4>1, SMT DEF Views
    <3> QED BY <3>2
  <2> HIDE DEF nb, g
  <2>6. FindsViews(nb)
    BY <2>3 DEF FindsViews
  <2> QED BY <2>1, <2>2, <2>3, <2>4, <2>5, <2>6, QuietBatchKeeps
<1>2. CASE ~Retriable(b)
  <2>1. /\ failed' = failed \cup (batch[b].ids \X {batch[b].date})
        /\ batch' = [batch EXCEPT ![b] = NoBatch]
        /\ UNCHANGED <<today, nightly, manual, early, redis, table, page>>
    BY <1>2 DEF Fail
  <2>2. failed' \subseteq Jobs \X Days
    BY <1>f, <2>1 DEF IInv, TypeOK
  <2>3. /\ rows \in [Jobs -> [Days -> Views]] /\ manual \in 0 .. MaxManual
        /\ stored \subseteq Jobs \X Days
        /\ early \subseteq Days /\ nightly \in BOOLEAN /\ (nightly \/ today > 1)
        /\ \A i \in Jobs, d \in Days :
             rows[i][d] <= counted[i][d] /\ (rows[i][d] > 0 => <<i, d>> \in stored)
    BY DEF IInv, TypeOK, SyncFollowsMidnight, RowsWithinCounts, RowsAreStored
  <2> QED BY <2>1, <2>2, <2>3, NoBatchFacts, BatchKeeps
<1> QED BY <1>1, <1>2

LEMMA StepIInv == IInv /\ [Next]_vars => IInv'
<1> SUFFICES ASSUME IInv, [Next]_vars PROVE IInv'
  OBVIOUS
<1>1. ASSUME NEW j \in Jobs, NEW d \in Days,
             \/ \E s \in BOOLEAN : RecordView(j, d, s)
             \/ ExpireViews(j, d) \/ ExpireVisitors(j, d)
      PROVE  IInv'
  BY <1>1, RecordKeeps, ExpireKeeps
<1>2. CASE Midnight
  BY <1>2, MidnightKeeps
<1>3. CASE NightlySync \/ \E d \in Days : ManualSync(d)
  BY <1>3, CommandKeeps
<1>4. ASSUME NEW b \in Batches, Work(b) \/ Abort(b)  PROVE IInv'
  BY <1>4, ReadingKeeps, WritingKeeps, FailKeeps DEF Work, KeyClash, Abort
<1>5. CASE (\E j \in Jobs : SumRows(j)) \/ Answer
  BY <1>5, TotalKeeps
<1>6. CASE UNCHANGED vars
  <2>1. UNCHANGED <<today, nightly, manual, early, redis, table, batch, failed, page>>
    BY <1>6 DEF vars
  <2>2. TypeOK'
    BY <2>1 DEF IInv, TypeOK
  <2> QED BY <2>1, <2>2 DEF IInv, SyncFollowsMidnight, QueuedMayRun, CountersCounted,
             ReadsCounted, WritesSeen, FindsViews, VisitorsBesideViews, OutlivedExpired,
             RowsAreStored, RowsWithinCounts, SumsCounted, Lives
<1> QED BY <1>1, <1>2, <1>3, <1>4, <1>5, <1>6 DEF Next

LEMMA Invariance == Spec => []IInv
BY InitIInv, StepIInv, PTL DEF Spec

-----------------------------------------------------------------------------
(* Every reachable state is well typed; no batch gets an attempt too many.   *)
THEOREM TypeCorrect == Spec => []TypeOK
<1>1. IInv => TypeOK
  BY DEF IInv
<1> QED BY <1>1, Invariance, PTL

(* A row of rc_job_stats_daily never exceeds the views of its date, whatever *)
(* syncs overlap, fail half-way or are repeated.                             *)
THEOREM RowsAreBounded == Spec => []RowsWithinCounts
<1>1. IInv => RowsWithinCounts
  BY DEF IInv
<1> QED BY <1>1, Invariance, PTL

(* A total never counts a view twice, also when the day that it is asked on  *)
(* has been synchronised already or ends between its two reads.              *)
THEOREM TotalsAreBounded == Spec => []ShownWithinCounts
<1>1. IInv => ShownWithinCounts
  <2> SUFFICES ASSUME IInv, NEW j \in page.job, NEW d \in Days
               PROVE  Part(j, d) <= counted[j][d]
    BY DEF ShownWithinCounts
  <2>1. /\ j \in Jobs /\ page.day \in Days /\ page.parts[d] \in Nat
        /\ pv[j][d] \in Nat /\ counted[j][d] \in Nat
    BY SMT DEF IInv, TypeOK, Page, Views
  <2>2. /\ page.parts[d] <= counted[j][d] /\ (d >= page.day => page.parts[d] = 0)
        /\ pv[j][d] <= counted[j][d]
    BY <2>1 DEF IInv, SumsCounted, CountersCounted
  <2>3. d = page.day => d >= page.day
    BY SMT DEF Days
  <2> QED BY <2>1, <2>2, <2>3, SMT DEF Part
<1> QED BY <1>1, Invariance, PTL

(* No batch, however late, empties a row that was archived before, unless    *)
(* the keys had run out and the visitor key was the one that stayed longer.  *)
THEOREM ArchiveIsKept == Spec => ArchiveSurvivesExpiry
<1>1. IInv /\ [Next]_vars =>
        [\A j \in Jobs, d \in Days :
           rows[j][d] > 0 /\ (Lives(d, today) \/ <<j, d>> \notin outlived)
             => rows'[j][d] > 0]_vars
  <2> SUFFICES ASSUME IInv, Next, NEW j \in Jobs, NEW d \in Days, rows[j][d] > 0,
                      Lives(d, today) \/ <<j, d>> \notin outlived
               PROVE  rows'[j][d] > 0
    OBVIOUS
  <2>0. <<j, d>> \notin outlived /\ <<j, d>> \in stored
    BY DEF IInv, OutlivedExpired, RowsAreStored
  <2>1. CASE UNCHANGED rows
    BY <2>1
  <2>2. ASSUME NEW b \in Batches, Update(b)  PROVE rows'[j][d] > 0
    <3>1. PICK i \in batch[b].left :
            rows' = [rows EXCEPT ![i][batch[b].date] = batch[b].got[i]]
      BY <2>2 DEF Update
    <3>2. i \in Jobs
      BY BatchFacts
    <3>3. batch[b].got[i] > 0 \/ <<i, batch[b].date>> \in outlived
      BY <2>2, BatchFacts DEF Update, FindsViews
    <3>4. batch[b].date \in Days /\ rows \in [Jobs -> [Days -> Views]]
      BY BatchFacts DEF IInv, TypeOK
    <3>5. rows'[j][d] = IF j = i /\ d = batch[b].date THEN batch[b].got[i] ELSE rows[j][d]
      BY <3>1, <3>2, <3>4, SMT
    <3> QED BY <2>0, <3>3, <3>5
  <2>3. ASSUME NEW b \in Batches, Create(b)  PROVE rows'[j][d] > 0
    <3>1. PICK i \in batch[b].inserting :
            /\ <<i, batch[b].date>> \notin stored
            /\ rows' = [rows EXCEPT ![i][batch[b].date] = batch[b].got[i]]
      BY <2>3 DEF Create
    <3>2. i \in Jobs
      BY BatchFacts
    <3>3. ~(j = i /\ d = batch[b].date)
      BY <2>0, <3>1
    <3> QED BY <3>1, <3>2, <3>3, RowWritten
  <2> QED
    BY <2>1, <2>2, <2>3 DEF Next, RecordView, ExpireViews, ExpireVisitors, Midnight,
       NightlySync, ManualSync, Work, Abort, Start, Read, BeginWriting, UpdateNothing,
       KeyClash, Fail, Finish, SumRows, Answer
<1> QED BY <1>1, Invariance, PTL DEF Spec, ArchiveSurvivesExpiry

-----------------------------------------------------------------------------
(* Views of d may still be counted, now or on the day itself.                *)
StillOpen(d) == d >= today \/ (d + 1 = today /\ ~nightly)

(* A counter is exact while views may come, and until its key expires.       *)
CountersExact ==
  \A j \in Jobs, d \in Days :
    pv[j][d] \in {0, counted[j][d]} /\ (StillOpen(d) => pv[j][d] = counted[j][d])

(* A batch in the state q of a day that was not synchronised early reads     *)
(* what no view changes any more.                                            *)
ReadsExactly(q) ==
  q.phase # "none" /\ q.date \notin early =>
    ~StillOpen(q.date) /\ \A j \in Jobs : q.got[j] \in {0, counted[j][q.date]}

(* The archived views of a day that no sync was started for before it was    *)
(* over: none yet, or all that were counted.                                 *)
ArchivedExactly ==
  \A j \in Jobs, d \in Days : d \notin early => rows[j][d] \in {0, counted[j][d]}

NotYetArchived == \A j \in Jobs, d \in Days : d \notin early /\ StillOpen(d) => rows[j][d] = 0

EInv ==
  /\ CountersExact /\ ArchivedExactly /\ NotYetArchived
  /\ \A b \in Batches : ReadsExactly(batch[b])

LEMMA InitEInv == Init => EInv
BY SMT DEF Init, EInv, CountersExact, ArchivedExactly, NotYetArchived, ReadsExactly, NoBatch, NoViews

(* A batch moves on; what it writes is what it read.                         *)
LEMMA BatchIsExact ==
  ASSUME IInv, EInv, NEW b \in Batches, NEW nb,
         batch' = [batch EXCEPT ![b] = nb],
         nb.phase # "none" =>
           /\ batch[b].phase # "none" /\ nb.date = batch[b].date
           /\ \A j \in Jobs : nb.got[j] \in {0, batch[b].got[j], counted[j][nb.date]},
         \A j \in Jobs, d \in Days :
           \/ rows'[j][d] = rows[j][d]
           \/ batch[b].phase # "none" /\ d = batch[b].date /\ rows'[j][d] = batch[b].got[j],
         UNCHANGED <<today, nightly, early, pv, counted>>
  PROVE  EInv'
<1>1. \A c \in Batches : batch'[c] = IF c = b THEN nb ELSE batch[c]
  BY DEF IInv, TypeOK
<1>2. CountersExact' /\ \A d : StillOpen(d)' <=> StillOpen(d)
  BY DEF EInv, CountersExact, StillOpen
<1>3. ReadsExactly(batch[b])
  BY DEF EInv
<1>4. \A j \in Jobs, d \in Days :
        d \notin early /\ batch[b].phase # "none" /\ d = batch[b].date =>
          ~StillOpen(d) /\ batch[b].got[j] \in {0, counted[j][d]}
  BY <1>3 DEF ReadsExactly
<1>5. ArchivedExactly'
  BY <1>4 DEF EInv, ArchivedExactly
<1>6. NotYetArchived'
  BY <1>2, <1>4 DEF EInv, NotYetArchived
<1>7. ASSUME NEW c \in Batches  PROVE ReadsExactly(batch[c])'
  <2>1. CASE c = b
    BY <1>1, <1>2, <1>3, <2>1 DEF ReadsExactly
  <2>2. CASE c # b
    BY <1>1, <1>2, <2>2 DEF EInv, ReadsExactly
  <2> QED BY <2>1, <2>2
<1> QED BY <1>2, <1>5, <1>6, <1>7 DEF EInv

LEMMA WorkIsExact ==
  ASSUME IInv, EInv, NEW b \in Batches, Work(b) \/ Abort(b)
  PROVE  EInv'
<1>f. batch[b] \in Batch /\ batch[b].date \in Days /\ batch[b].left \subseteq Jobs
      /\ batch[b].inserting \subseteq Jobs /\ batch[b].got \in [Jobs -> Views]
  BY BatchFacts
<1>g. \A j \in Jobs : pv[j][batch[b].date] \in {0, counted[j][batch[b].date]}
  BY <1>f DEF EInv, CountersExact
<1>0. ASSUME NEW nb, batch' = [batch EXCEPT ![b] = nb],
             nb.phase = "none" \/ (nb.date = batch[b].date /\ nb.got = batch[b].got),
             batch[b].phase # "none",
             UNCHANGED <<today, nightly, early, pv, counted, rows>>
      PROVE  EInv'
  BY <1>0, BatchIsExact
<1>1. CASE Start(b)
  <2> DEFINE nb == [batch[b] EXCEPT !.phase = "Read", !.attempts = batch[b].attempts + 1,
                                    !.left = batch[b].ids]
  <2>1. batch' = [batch EXCEPT ![b] = nb] /\ batch[b].phase # "none"
        /\ UNCHANGED <<today, nightly, early, pv, counted, rows>>
    BY <1>1 DEF Start
  <2>2. nb.date = batch[b].date /\ nb.got = batch[b].got
    BY <1>f DEF Batch
  <2> HIDE DEF nb
  <2> QED BY <1>0, <2>1, <2>2
<1>2. CASE Read(b)
  <2>1. PICK j \in batch[b].left :
          batch' = [batch EXCEPT ![b] = [batch[b] EXCEPT
            !.left = batch[b].left \ {j},
            !.got = [batch[b].got EXCEPT ![j] = ReadOf(b, j)],
            !.found = batch[b].found \cup {i \in {j} : ToWrite(b, i)}]]
    BY <1>2 DEF Read
  <2> DEFINE g == [batch[b].got EXCEPT ![j] = ReadOf(b, j)]
             nb == [batch[b] EXCEPT !.left = batch[b].left \ {j}, !.got = g,
                      !.found = batch[b].found \cup {i \in {j} : ToWrite(b, i)}]
  <2>2. /\ batch' = [batch EXCEPT ![b] = nb] /\ batch[b].phase # "none"
        /\ UNCHANGED <<today, nightly, early, pv, counted, rows>>
    BY <1>2, <2>1 DEF Read
  <2>3. \A i \in Jobs : g[i] \in {0, batch[b].got[i], counted[i][batch[b].date]}
    BY <1>f, <1>g, <2>1 DEF ReadOf
  <2> HIDE DEF g
  <2>4. nb.date = batch[b].date /\ nb.got = g
    BY <1>f DEF Batch
  <2> HIDE DEF nb
  <2> QED BY <2>2, <2>3, <2>4, BatchIsExact
<1>3. CASE BeginWriting(b) \/ UpdateNothing(b)
  <2>1. PICK nb : /\ batch' = [batch EXCEPT ![b] = nb]
                  /\ \/ nb = [batch[b] EXCEPT !.phase = "Update", !.left = batch[b].found,
                                              !.found = {}]
                     \/ \E j : nb = [batch[b] EXCEPT !.phase = "Create", !.inserting = {j}]
    BY <1>3 DEF BeginWriting, UpdateNothing
  <2>2. nb.date = batch[b].date /\ nb.got = batch[b].got
    BY <1>f, <2>1 DEF Batch
  <2>3. batch[b].phase # "none" /\ UNCHANGED <<today, nightly, early, pv, counted, rows>>
    BY <1>3 DEF BeginWriting, UpdateNothing
  <2> QED BY <1>0, <2>1, <2>2, <2>3
<1>4. CASE Update(b) \/ Create(b)
  <2>1. PICK nb, j :
          /\ j \in Jobs
          /\ batch' = [batch EXCEPT ![b] = nb]
          /\ \/ nb = [batch[b] EXCEPT !.left = batch[b].left \ {j}]
             \/ nb = [batch[b] EXCEPT !.phase = "Update", !.left = batch[b].left \ {j}, !.inserting = {}]
          /\ rows' = [rows EXCEPT ![j][batch[b].date] = batch[b].got[j]]
    BY <1>f, <1>4 DEF Update, Create
  <2>2. nb.date = batch[b].date /\ nb.got = batch[b].got
    BY <1>f, <2>1 DEF Batch
  <2>3. batch[b].phase # "none" /\ UNCHANGED <<today, nightly, early, pv, counted>>
    BY <1>4 DEF Update, Create
  <2>4. \A i \in Jobs, d \in Days :
          rows'[i][d] = IF i = j /\ d = batch[b].date THEN batch[b].got[j] ELSE rows[i][d]
    <3>1. j \in Jobs /\ rows' = [rows EXCEPT ![j][batch[b].date] = batch[b].got[j]]
      BY <2>1
    <3>2. ASSUME NEW i \in Jobs, NEW d \in Days
          PROVE  rows'[i][d] = IF i = j /\ d = batch[b].date THEN batch[b].got[j] ELSE rows[i][d]
      BY <3>1, RowWritten, ZenonT(30)
    <3> QED BY <3>2
  <2>5. \A i \in Jobs, d \in Days :
          \/ rows'[i][d] = rows[i][d]
          \/ batch[b].phase # "none" /\ d = batch[b].date /\ rows'[i][d] = batch[b].got[i]
    BY <2>3, <2>4
  <2>6. batch' = [batch EXCEPT ![b] = nb]
    BY <2>1
  <2> QED BY <2>2, <2>3, <2>5, <2>6, BatchIsExact
<1>5. CASE Finish(b)
  BY <1>0, <1>5, NoBatchFacts DEF Finish
<1>6. CASE KeyClash(b) \/ Abort(b)
  <2>1. PICK nb : /\ batch' = [batch EXCEPT ![b] = nb]
                  /\ \/ nb = [batch[b] EXCEPT !.phase = "Queued", !.left = {}, !.inserting = {},
                                              !.found = {}, !.got = [j \in Jobs |-> 0]]
                     \/ nb = NoBatch
    BY <1>6 DEF KeyClash, Abort, Fail
  <2>2. nb.phase = "none" \/ (nb.date = batch[b].date /\ \A j \in Jobs : nb.got[j] = 0)
    <3>1. CASE nb = NoBatch
      BY <3>1, NoBatchFacts
    <3>2. CASE nb # NoBatch
      <4>1. nb = [batch[b] EXCEPT !.phase = "Queued", !.left = {}, !.inserting = {},
                                  !.found = {}, !.got = [j \in Jobs |-> 0]]
        BY <2>1, <3>2
      <4>2. nb.date = batch[b].date /\ nb.got = [j \in Jobs |-> 0]
        BY <1>f, <4>1, SMT DEF Batch
      <4> QED BY <4>2
    <3> QED BY <3>1, <3>2
  <2>3. batch[b].phase # "none" /\ UNCHANGED <<today, nightly, early, pv, counted, rows>>
    BY <1>6 DEF KeyClash, Abort, Fail
  <2> QED BY <2>1, <2>2, <2>3, BatchIsExact
<1> QED BY <1>1, <1>2, <1>3, <1>4, <1>5, <1>6 DEF Work

(* A view meets no batch and no row of its day, unless a sync came early.    *)
LEMMA RecordIsExact ==
  ASSUME IInv, EInv, NEW j \in Jobs, NEW d \in Days, NEW s \in BOOLEAN, RecordView(j, d, s)
  PROVE  EInv'
<1>1. /\ \A i \in Jobs, e \in Days : <<i, e>> # <<j, d>> =>
           pv'[i][e] = pv[i][e] /\ counted'[i][e] = counted[i][e]
      /\ pv'[j][d] = pv[j][d] + 1 /\ counted'[j][d] = counted[j][d] + 1
      /\ UNCHANGED <<today, nightly, early, rows, batch>>
  BY DEF RecordView, IInv, TypeOK
<1>2. StillOpen(d)
  BY SMT DEF RecordView, Countable, StillOpen, IInv, TypeOK, Days
<1>3. \A e : StillOpen(e)' <=> StillOpen(e)
  BY <1>1 DEF StillOpen
<1>4. CountersExact'
  BY <1>1, <1>2, <1>3 DEF EInv, CountersExact
<1>5. ArchivedExactly' /\ NotYetArchived'
  BY <1>1, <1>2, <1>3 DEF EInv, ArchivedExactly, NotYetArchived
<1>6. ASSUME NEW b \in Batches  PROVE ReadsExactly(batch[b])'
  <2>1. ReadsExactly(batch[b]) /\ batch[b].date \in Days
    BY BatchFacts DEF EInv
  <2> QED BY <1>1, <1>2, <1>3, <2>1 DEF ReadsExactly
<1> QED BY <1>4, <1>5, <1>6 DEF EInv

LEMMA MidnightIsExact ==
  ASSUME IInv, EInv, Midnight
  PROVE  EInv'
<1>1. today' = today + 1 /\ nightly /\ UNCHANGED <<early, pv, counted, rows, batch>>
  BY DEF Midnight
<1>2. today \in Nat
  BY SMT DEF IInv, TypeOK, Days
<1>3. ASSUME NEW d \in Days, StillOpen(d)'  PROVE StillOpen(d)
  BY <1>1, <1>2, <1>3, SMT DEF StillOpen, Days
<1>4. CountersExact' /\ ArchivedExactly' /\ NotYetArchived'
  BY <1>1, <1>3 DEF EInv, CountersExact, ArchivedExactly, NotYetArchived
<1>5. ASSUME NEW b \in Batches  PROVE ReadsExactly(batch[b])'
  <2>1. ReadsExactly(batch[b]) /\ batch[b].date \in Days
    BY BatchFacts DEF EInv
  <2> QED BY <1>1, <1>3, <2>1 DEF ReadsExactly
<1> QED BY <1>4, <1>5 DEF EInv

(* A counter expires when no view of its day can come any more.              *)
LEMMA ExpireIsExact ==
  ASSUME IInv, EInv, NEW j \in Jobs, NEW d \in Days, ExpireViews(j, d)
  PROVE  EInv'
<1>1. /\ ~Lives(d, today) /\ UNCHANGED <<today, nightly, early, counted, rows, batch>>
      /\ \A i \in Jobs, e \in Days : pv'[i][e] = IF i = j /\ e = d THEN 0 ELSE pv[i][e]
  BY DEF ExpireViews, IInv, TypeOK
<1>2. ~StillOpen(d)
  <2>1. today \in Nat /\ KeyTtlDays \in Nat \ {0}
    BY SMT DEF IInv, TypeOK, Days
  <2> QED BY <1>1, <2>1, SMT DEF StillOpen, Lives, Days
<1>3. \A e : StillOpen(e)' <=> StillOpen(e)
  BY <1>1 DEF StillOpen
<1>4. CountersExact'
  BY <1>1, <1>2, <1>3 DEF EInv, CountersExact
<1>5. ArchivedExactly' /\ NotYetArchived' /\ \A b \in Batches : ReadsExactly(batch[b])'
  BY <1>1, <1>3 DEF EInv, ArchivedExactly, NotYetArchived, ReadsExactly
<1> QED BY <1>4, <1>5 DEF EInv

(* The command: what it starts late is a batch of a day that is over.        *)
LEMMA CommandIsExact ==
  ASSUME IInv, EInv, NEW d \in Days, Dispatch(d), d \in early' \/ ~StillOpen(d)',
         early \subseteq early', nightly => nightly', UNCHANGED <<today, pv, counted, rows>>
  PROVE  EInv'
<1>1. \A e \in Days : StillOpen(e)' => StillOpen(e)
  BY DEF StillOpen
<1>2. CountersExact' /\ ArchivedExactly' /\ NotYetArchived'
  BY <1>1 DEF EInv, CountersExact, ArchivedExactly, NotYetArchived
<1>3. ASSUME NEW b \in Batches, batch'[b] = batch[b]  PROVE ReadsExactly(batch[b])'
  <2>1. ReadsExactly(batch[b]) /\ batch[b].date \in Days
    BY BatchFacts DEF EInv
  <2> QED BY <1>1, <1>3, <2>1 DEF ReadsExactly
<1>4. CASE UNCHANGED batch
  BY <1>2, <1>3, <1>4 DEF EInv
<1>5. ASSUME NEW b \in Batches,
             batch' = [batch EXCEPT ![b] =
               [NoBatch EXCEPT !.phase = "Queued", !.date = d, !.ids = Discovered(d)]]
      PROVE  EInv'
  <2>1. batch'[b].date = d /\ \A j \in Jobs : batch'[b].got[j] = 0
    BY <1>5 DEF NoBatch, IInv, TypeOK
  <2>2. ReadsExactly(batch[b])'
    BY <2>1 DEF ReadsExactly
  <2>3. \A c \in Batches : c # b => batch'[c] = batch[c]
    BY <1>5 DEF IInv, TypeOK
  <2> QED BY <1>2, <1>3, <2>2, <2>3 DEF EInv
<1> QED BY <1>4, <1>5 DEF Dispatch

LEMMA StepEInv ==
  ASSUME IInv, EInv, [Next]_vars
  PROVE  EInv'
<1>t. today \in Nat
  BY SMT DEF IInv, TypeOK, Days
<1>1. ASSUME UNCHANGED <<today, nightly, early, pv, counted, rows, batch>>  PROVE EInv'
  BY <1>1 DEF EInv, CountersExact, ArchivedExactly, NotYetArchived, ReadsExactly, StillOpen
<1>2. CASE NightlySync
  <2>1. PICK d \in Days : d = SyncedDate(today)
    BY <1>2, SMT DEF NightlySync, SyncedDate, IInv, SyncFollowsMidnight, TypeOK, Days
  <2>2. ~StillOpen(d)'
    BY <1>2, <1>t, <2>1, SMT DEF NightlySync, SyncedDate, StillOpen
  <2>3. /\ Dispatch(d) /\ nightly' = TRUE
        /\ UNCHANGED <<today, early, pv, counted, rows>>
    BY <1>2, <2>1 DEF NightlySync
  <2> QED BY <2>2, <2>3, CommandIsExact
<1>3. ASSUME NEW d \in Days, ManualSync(d)  PROVE EInv'
  <2>1. /\ Dispatch(d) /\ early \subseteq early' /\ (Countable(d) => d \in early')
        /\ UNCHANGED <<today, nightly, pv, counted, rows>> /\ d <= today
    BY <1>3 DEF ManualSync
  <2>2. ~Countable(d) => ~StillOpen(d)'
    BY <1>t, <2>1, SMT DEF Countable, StillOpen, Days
  <2> QED BY <2>1, <2>2, CommandIsExact
<1> QED
  BY <1>1, <1>2, <1>3, WorkIsExact, RecordIsExact, MidnightIsExact, ExpireIsExact
  DEF Next, vars, ExpireVisitors, SumRows, Answer

(* However batches of a day overlap, fail, repeat or outlive its counters,   *)
(* the row of a day that no sync was started for before it was over holds    *)
(* all of its views or none: an incomplete row has no other cause            *)
(* (SyncViewStatsCommand, SyncViewStatsBatchJob).                            *)
THEOREM OnlyEarlySyncsLoseViews == Spec => []ArchivedExactly
<1>1. EInv => ArchivedExactly
  BY DEF EInv
<1>2. IInv /\ EInv /\ [Next]_vars => EInv'
  BY StepEInv
<1> QED BY InitEInv, Invariance, <1>1, <1>2, PTL DEF Spec
=============================================================================
