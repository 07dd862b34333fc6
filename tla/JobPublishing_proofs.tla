------------------------ MODULE JobPublishing_proofs ------------------------
(***************************************************************************)
(* Proofs about JobPublishing.  A consumption is numbered by counting those *)
(* of its job, so that the publications of any company, with any jobs,      *)
(* requests and assets, never meet a number that is taken; what the         *)
(* accounts are short of is what was booked.                                *)
(***************************************************************************)
EXTENDS JobPublishing, FiniteSetTheorems, WellFoundedInduction, TLAPS

(* The inductive invariant: numbers are counts only of finite sets. *)
JInv ==
  /\ TypeOK
  /\ IsFiniteSet(booked)
  /\ ConsumptionsAreNumbered

(* What a consumption does to the numbers and the balances. *)
Books(j) ==
  /\ booked' = booked \cup {<<j, Publications(j) + 1>>}
  /\ balance' \in [Assets -> Nat]
  /\ \E a \in Assets : balance' = [balance EXCEPT ![a] = @ - 1]

-----------------------------------------------------------------------------
(* A count of consumptions is a natural number. *)
LEMMA CountsAreNatural ==
  ASSUME JInv, NEW j \in Jobs
  PROVE  Publications(j) \in Nat
<1>1. IsFiniteSet(Consumptions(j))
  BY FS_Subset DEF JInv, Consumptions
<1> QED
  BY <1>1, FS_CardinalityType DEF Publications

(* The next number of a job is not taken. *)
LEMMA NextNumberIsFree ==
  ASSUME JInv, NEW j \in Jobs
  PROVE  <<j, Publications(j) + 1>> \notin booked
<1>1. Publications(j) \in Nat
  BY CountsAreNatural
<1>2. Consumptions(j) = {j} \X (1 .. Publications(j))
  BY DEF JInv, ConsumptionsAreNumbered
<1> QED
  BY <1>1, <1>2 DEF Consumptions

(* So consumeFor always books it, on one of the two assets. *)
LEMMA ConsumeForBooks ==
  ASSUME JInv, NEW j \in Jobs, NEW type \in Types, ConsumeFor(j, type)
  PROVE  Books(j)
<1> DEFINE biz == <<j, Publications(j) + 1>>
           call(asset) == [account |-> asset, quantity |-> 1, biz |-> biz]
           calls == <<call(Preferred[type]), call(General)>>
<1>1. biz \notin booked
  BY NextNumberIsFree
<1>2. type \in DOMAIN Preferred /\ Book!ConsumeFirst(calls)
  BY <1>1 DEF ConsumeFor, Alternatives
<1>3. Preferred[type] \in Assets /\ General \in Assets
  BY <1>2 DEF Assets, Range
<1>4. DOMAIN calls = {1, 2}
  OBVIOUS
<1>5. PICK i \in {1, 2} :
        /\ Book!CanPay(calls[i])
        /\ balance' = [balance EXCEPT ![calls[i].account] = @ - calls[i].quantity]
        /\ booked' = booked \cup {calls[i].biz}
  BY <1>2, <1>4 DEF Book!ConsumeFirst
<1>6. calls[i].account \in Assets /\ calls[i].quantity = 1 /\ calls[i].biz = biz
  BY <1>3
<1>7. balance[calls[i].account] >= 1
  BY <1>5, <1>6 DEF Book!CanPay
<1> HIDE DEF calls
<1>8. balance' \in [Assets -> Nat]
  BY <1>5, <1>6, <1>7 DEF JInv, TypeOK
<1>9. \E a \in Assets : balance' = [balance EXCEPT ![a] = @ - 1]
  BY <1>5, <1>6
<1> QED
  BY <1>5, <1>6, <1>8, <1>9 DEF Books

(* A consumption leaves the consumptions of every job numbered. *)
LEMMA BooksKeepsNumbers ==
  ASSUME JInv, NEW j \in Jobs, Books(j)
  PROVE  IsFiniteSet(booked)' /\ ConsumptionsAreNumbered'
<1> DEFINE n == Publications(j) + 1
<1>1. Publications(j) \in Nat /\ <<j, n>> \notin booked
  BY CountsAreNatural, NextNumberIsFree
<1>2. IsFiniteSet(booked) /\ IsFiniteSet(booked')
  BY FS_AddElement DEF JInv, Books
<1>3. ASSUME NEW k \in Jobs PROVE (Consumptions(k) = {k} \X (1 .. Publications(k)))'
  <2>1. CASE k = j
    <3>1. Consumptions(j)' = Consumptions(j) \cup {<<j, n>>}
      BY DEF Books, Consumptions
    <3>2. <<j, n>> \notin Consumptions(j) /\ IsFiniteSet(Consumptions(j))
      BY <1>1, <1>2, FS_Subset DEF Consumptions
    <3>3. Publications(j)' = n
      BY <3>1, <3>2, FS_AddElement DEF Publications
    <3>4. Consumptions(j) = {j} \X (1 .. Publications(j))
      BY DEF JInv, ConsumptionsAreNumbered
    <3>5. 1 .. n = (1 .. Publications(j)) \cup {n}
      BY <1>1
    <3>6. Consumptions(j)' = {j} \X (1 .. n)
      BY <3>1, <3>4, <3>5
    <3> QED
      BY <2>1, <3>3, <3>6
  <2>2. CASE k # j
    <3>1. Consumptions(k)' = Consumptions(k)
      BY <2>2 DEF Books, Consumptions
    <3> QED
      BY <3>1 DEF JInv, ConsumptionsAreNumbered, Publications
  <2> QED
    BY <2>1, <2>2
<1> QED
  BY <1>2, <1>3 DEF ConsumptionsAreNumbered

(* A step that books nothing leaves them numbered as well. *)
LEMMA NumbersAreKept ==
  ASSUME JInv, booked' = booked
  PROVE  IsFiniteSet(booked)' /\ ConsumptionsAreNumbered'
  BY DEF JInv, ConsumptionsAreNumbered, Publications, Consumptions

-----------------------------------------------------------------------------
(* A change to a status pays for a publication, or leaves the book alone. *)
LEMMA ChargedBooks ==
  ASSUME JInv, NEW j \in Jobs, NEW type \in Types, NEW to, Charged(j, type, to)
  PROVE  IF to = "Published" /\ ShouldConsume(job[j].status) THEN Books(j)
         ELSE UNCHANGED <<balance, booked>>
  BY ConsumeForBooks DEF Charged

(* Whatever a charged change does, balances and numbers stay in order. *)
LEMMA ChargedKeepsBook ==
  ASSUME JInv, NEW j \in Jobs, NEW type \in Types, NEW to, Charged(j, type, to)
  PROVE  /\ balance' \in [Assets -> Nat]
         /\ booked' \subseteq Jobs \X (Nat \ {0})
         /\ IsFiniteSet(booked)'
         /\ ConsumptionsAreNumbered'
<1>1. CASE to = "Published" /\ ShouldConsume(job[j].status)
  <2>1. Books(j)
    BY <1>1, ChargedBooks
  <2>2. Publications(j) \in Nat
    BY CountsAreNatural
  <2> QED
    <3>1. <<j, Publications(j) + 1>> \in Jobs \X (Nat \ {0})
      BY <2>2
    <3>2. booked' \subseteq Jobs \X (Nat \ {0})
      BY <2>1, <3>1 DEF Books, JInv, TypeOK
    <3> QED
      BY <2>1, <3>2, BooksKeepsNumbers DEF Books
<1>2. CASE ~(to = "Published" /\ ShouldConsume(job[j].status))
  <2>1. UNCHANGED <<balance, booked>>
    BY <1>2, ChargedBooks
  <2> QED
    BY <2>1, NumbersAreKept DEF JInv, TypeOK
<1> QED
  BY <1>1, <1>2

(* Steps that book nothing keep the invariant if they keep the types. *)
LEMMA UnbookedStep ==
  ASSUME JInv, UNCHANGED <<balance, booked>>,
         job' \in [Jobs -> Job], req' \in [Requests -> Loaded \cup {Idle}]
  PROVE  JInv'
  BY NumbersAreKept DEF JInv, TypeOK

(* A request that holds a copy holds one of a job. *)
LEMMA ServedRequest ==
  ASSUME TypeOK, NEW r \in Requests, req[r] # Idle
  PROVE  req[r] \in Loaded /\ req[r].job \in Jobs
  BY DEF TypeOK, Loaded

LEMMA InitInv == ASSUME Init PROVE JInv
<1>1. (CHOOSE t \in Types : TRUE) \in Types
  BY AssetsAreWellFormed
<1>2. NoJob \in Job
  BY <1>1 DEF NoJob, Job, Status
<1>3. TypeOK
  BY <1>2, AssetsAreWellFormed DEF Init, TypeOK
<1>4. IsFiniteSet(booked)
  BY FS_EmptySet DEF Init
<1>5. ASSUME NEW j \in Jobs PROVE Consumptions(j) = {j} \X (1 .. Publications(j))
  <2>1. Consumptions(j) = {}
    BY DEF Init, Consumptions
  <2>2. Publications(j) = 0
    BY <2>1, FS_EmptySet DEF Publications
  <2> QED
    BY <2>1, <2>2
<1> QED
  BY <1>3, <1>4, <1>5 DEF JInv, ConsumptionsAreNumbered

LEMMA StepInv == ASSUME JInv, [Next]_vars PROVE JInv'
<1> USE DEF TypeOK
<1>1. ASSUME NEW j \in Jobs, NEW type \in Types, NEW to \in Status,
             Create(j, type, to) \/ Update(j, type, to)
      PROVE  JInv'
  <2>1. /\ Charged(j, type, to)
        /\ job' = [job EXCEPT ![j] = [status |-> to, type |-> type, deleted |-> FALSE]]
        /\ req' = req
    BY <1>1 DEF Create, Update
  <2>2. job' \in [Jobs -> Job]
    BY <2>1 DEF Job, JInv
  <2> QED
    BY <2>1, <2>2, ChargedKeepsBook DEF JInv
<1>2. ASSUME NEW r \in Requests, NEW op \in Operations, NEW j \in Jobs, Load(r, op, j)
      PROVE  JInv'
  <2>1. [op |-> op, job |-> j, status |-> job[j].status] \in Loaded
    BY DEF JInv, Loaded, Job
  <2> QED
    BY <1>2, <2>1, UnbookedStep DEF Load, JInv
<1>3. ASSUME NEW r \in Requests, Publish(r) PROVE JInv'
  <2>0. req[r] # Idle
    BY <1>3 DEF Publish, Idle
  <2>1. PICK j \in Jobs : j = req[r].job
    BY <2>0, ServedRequest DEF JInv
  <2>2. /\ Charged(j, job[j].type, "Published")
        /\ job' = [job EXCEPT ![j] = [@ EXCEPT !.status = "Published"]]
    BY <1>3, <2>1 DEF Publish
  <2>3. job[j].type \in Types /\ job' \in [Jobs -> Job]
    BY <2>2 DEF JInv, Job, Status
  <2>4. req' \in [Requests -> Loaded \cup {Idle}]
    BY <1>3 DEF Publish, Done, JInv
  <2> QED
    BY <2>2, <2>3, <2>4, ChargedKeepsBook DEF JInv
<1>4. ASSUME NEW r \in Requests, Pause(r) \/ Close(r) \/ Delete(r) PROVE JInv'
  <2>0. req[r] # Idle
    BY <1>4 DEF Pause, Close, Delete, Idle
  <2>1. PICK j \in Jobs : j = req[r].job
    BY <2>0, ServedRequest DEF JInv
  <2>2. /\ UNCHANGED <<balance, booked>>
        /\ Done(r)
        /\ \/ job' = job
           \/ \E to \in Status : job' = [job EXCEPT ![j] = [@ EXCEPT !.status = to]]
           \/ job' = [job EXCEPT ![j] = [@ EXCEPT !.deleted = TRUE]]
    BY <1>4, <2>1 DEF Pause, Close, Delete, SaveStatus, Status
  <2>3. job' \in [Jobs -> Job]
    BY <2>2 DEF JInv, Job
  <2>4. req' \in [Requests -> Loaded \cup {Idle}]
    BY <2>2 DEF Done, JInv
  <2> QED
    BY <2>2, <2>3, <2>4, UnbookedStep
<1>5. ASSUME NEW r \in Requests, Abandon(r) PROVE JInv'
  BY <1>5, UnbookedStep DEF Abandon, Done, JInv
<1>6. CASE UNCHANGED vars
  BY <1>6, UnbookedStep DEF vars, JInv
<1> QED
  BY <1>1, <1>2, <1>3, <1>4, <1>5, <1>6 DEF Next

(* Every reachable state is well typed, whatever jobs a company has: no      *)
(* publication takes an asset below zero.                                    *)
THEOREM JobsTypeCorrect == Spec => []TypeOK
<1>1. JInv => TypeOK
  BY DEF JInv
<1> QED
  BY <1>1, InitInv, StepInv, PTL DEF Spec

(* The numbers of a job's consumptions have no gap, so no publication meets  *)
(* a number that is taken (RcJobPublishingEntitlementService::consumeFor).   *)
THEOREM ConsumptionsStayNumbered == Spec => []ConsumptionsAreNumbered
<1>1. JInv => ConsumptionsAreNumbered
  BY DEF JInv
<1> QED
  BY <1>1, InitInv, StepInv, PTL DEF Spec

-----------------------------------------------------------------------------
(* The two sides of PublicationsAreCharged, for one job. *)
GoesPublic(j) ==
  /\ job[j].status \in {"Absent", "Draft", "Closed", "Expired"}
  /\ job'[j].status = "Published"

IsBooked(j) == \E b \in booked' \ booked : b[1] = j

(* A charged change of one job. *)
LEMMA ChargedExactly ==
  ASSUME JInv, NEW j \in Jobs, NEW type \in Types, NEW to, Charged(j, type, to),
         NEW k \in Jobs,
         job'[j].status = to, k # j => job'[k].status = job[k].status
  PROVE  GoesPublic(k) <=> IsBooked(k)
<1>1. CASE to = "Published" /\ ShouldConsume(job[j].status)
  <2>1. booked' \ booked = {<<j, Publications(j) + 1>>}
    BY <1>1, ChargedBooks, NextNumberIsFree DEF Books
  <2> QED
    <3>0. IsBooked(k) <=> \E b \in {<<j, Publications(j) + 1>>} : b[1] = k
      BY <2>1, Zenon DEF IsBooked
    <3>1. IsBooked(k) <=> k = j
      BY <3>0
    <3>2. GoesPublic(k) <=> k = j
      BY <1>1 DEF GoesPublic, ShouldConsume
    <3> QED
      BY <3>1, <3>2
<1>2. CASE ~(to = "Published" /\ ShouldConsume(job[j].status))
  <2>1. booked' = booked
    BY <1>2, ChargedBooks
  <2> QED
    BY <1>2, <2>1 DEF GoesPublic, IsBooked, ShouldConsume
<1> QED
  BY <1>1, <1>2

(* A step that books nothing must publish nothing that has to be paid for. *)
LEMMA UnbookedExactly ==
  ASSUME NEW k \in Jobs, booked' = booked,
         job'[k].status = job[k].status \/ job'[k].status # "Published"
  PROVE  GoesPublic(k) <=> IsBooked(k)
  BY DEF GoesPublic, IsBooked

LEMMA StepCharged ==
  ASSUME JInv, Next, NEW k \in Jobs
  PROVE  GoesPublic(k) <=> IsBooked(k)
<1> USE DEF JInv, TypeOK
<1>1. ASSUME NEW j \in Jobs, NEW type \in Types, NEW to \in Status,
             Create(j, type, to) \/ Update(j, type, to)
      PROVE  GoesPublic(k) <=> IsBooked(k)
  <2>1. /\ Charged(j, type, to)
        /\ job' = [job EXCEPT ![j] = [status |-> to, type |-> type, deleted |-> FALSE]]
    BY <1>1 DEF Create, Update
  <2>2. job'[j].status = to /\ (k # j => job'[k].status = job[k].status)
    BY <2>1
  <2> QED
    BY <2>1, <2>2, ChargedExactly
<1>2. ASSUME NEW r \in Requests, Publish(r) PROVE GoesPublic(k) <=> IsBooked(k)
  <2>0. req[r] # Idle
    BY <1>2 DEF Publish, Idle
  <2>1. PICK j \in Jobs : j = req[r].job
    BY <2>0, ServedRequest
  <2>2. /\ Charged(j, job[j].type, "Published")
        /\ job' = [job EXCEPT ![j] = [@ EXCEPT !.status = "Published"]]
    BY <1>2, <2>1 DEF Publish
  <2>3. job[j] \in Job /\ job[j].type \in Types
    BY DEF Job
  <2>4. job'[j].status = "Published" /\ (k # j => job'[k].status = job[k].status)
    BY <2>2, <2>3 DEF Job
  <2> QED
    BY <2>2, <2>3, <2>4, ChargedExactly
<1>3. ASSUME NEW r \in Requests, Pause(r) \/ Close(r) \/ Delete(r)
      PROVE  GoesPublic(k) <=> IsBooked(k)
  <2>0. req[r] # Idle
    BY <1>3 DEF Pause, Close, Delete, Idle
  <2>1. PICK j \in Jobs : j = req[r].job
    BY <2>0, ServedRequest
  <2>2. /\ booked' = booked
        /\ \/ job' = job
           \/ \E to \in {"Paused", "Closed"} : job' = [job EXCEPT ![j] = [@ EXCEPT !.status = to]]
           \/ job' = [job EXCEPT ![j] = [@ EXCEPT !.deleted = TRUE]]
    BY <1>3, <2>1 DEF Pause, Close, Delete, SaveStatus
  <2>3. job[k] \in Job /\ job[j] \in Job
    OBVIOUS
  <2>4. job'[k].status = job[k].status \/ job'[k].status # "Published"
    BY <2>2, <2>3 DEF Job
  <2> QED
    BY <2>2, <2>4, UnbookedExactly
<1>4. CASE \E r \in Requests : Abandon(r) \/ \E op \in Operations, j \in Jobs : Load(r, op, j)
  BY <1>4, UnbookedExactly DEF Abandon, Load
<1> QED
  BY <1>1, <1>2, <1>3, <1>4 DEF Next

(* Every publication that has to be paid for is charged in its own step, and *)
(* nothing else is, however pauses, closures and publications interleave     *)
(* (RcJobService::publish, update, create).                                  *)
THEOREM PublicationsAreAlwaysCharged == Spec => PublicationsAreCharged
<1>1. JInv /\ [Next]_vars =>
        [\A j \in Jobs :
           (job[j].status \in {"Absent", "Draft", "Closed", "Expired"} /\ job'[j].status = "Published")
             <=> (\E b \in booked' \ booked : b[1] = j)]_vars
  BY StepCharged DEF GoesPublic, IsBooked
<1> QED
  BY <1>1, InitInv, StepInv, PTL DEF Spec, PublicationsAreCharged

-----------------------------------------------------------------------------
(* The library adds up the values of a function in an order of its choice.   *)
(* What follows are the facts about such sums that the balances need.        *)
(*                                                                           *)
(* g is the table of the sums of f over the subsets of S. *)
Sums(f, S, g) ==
  g = [s \in SUBSET S |-> IF s = {} THEN 0
                          ELSE f[CHOOSE x \in s : TRUE] + g[s \ {CHOOSE x \in s : TRUE}]]

(* A family of subsets of a finite set has a smallest member. *)
LEMMA SmallestSubset ==
  ASSUME NEW S, IsFiniteSet(S), NEW F \in SUBSET (SUBSET S), F # {}
  PROVE  \E s \in F : \A t \in F : t \subseteq s => t = s
<1>1. IsWellFoundedOn(StrictSubsetOrdering(S), SUBSET S)
  BY FS_StrictSubsetOrderingWellFounded, FS_FiniteSubsetsOfFinite
<1>2. PICK s \in F : \A t \in F : ~(<<t, s>> \in StrictSubsetOrdering(S))
  BY <1>1, WFMin
<1>3. QED BY <1>2 DEF StrictSubsetOrdering

LEMMA SumOfNone ==
  ASSUME NEW S, NEW f, NEW g, Sums(f, S, g)
  PROVE  g[{}] = 0
<1>1. {} \in SUBSET S
  OBVIOUS
<1>2. QED BY <1>1 DEF Sums

LEMMA SumStep ==
  ASSUME NEW S, NEW f, NEW g, Sums(f, S, g), NEW s \in SUBSET S, s # {}
  PROVE  \E x \in s : x = (CHOOSE y \in s : TRUE) /\ g[s] = f[x] + g[s \ {x}]
<1>1. (CHOOSE y \in s : TRUE) \in s
  OBVIOUS
<1>2. QED BY <1>1 DEF Sums

(* Sums are determined by the summands. *)
LEMMA SumsAgree ==
  ASSUME NEW S, IsFiniteSet(S), NEW T, NEW f, NEW g, NEW h, NEW k, Sums(f, S, g), Sums(h, T, k),
         NEW s \in SUBSET (S \cap T), \A x \in s : f[x] = h[x]
  PROVE  g[s] = k[s]
<1> DEFINE Bad == {u \in SUBSET s : g[u] # k[u]}
<1>1. SUFFICES ASSUME Bad # {}  PROVE FALSE
  OBVIOUS
<1>2. Bad \in SUBSET (SUBSET S)
  OBVIOUS
<1>3. PICK u \in Bad : \A t \in Bad : t \subseteq u => t = u
  <2> HIDE DEF Bad
  <2>1. QED BY <1>1, <1>2, SmallestSubset
<1>4. u # {}
  BY <1>3, SumOfNone
<1>5. u \in SUBSET S /\ u \in SUBSET T /\ u \subseteq s
  BY <1>3
<1>6. PICK x \in u : x = (CHOOSE y \in u : TRUE) /\ g[u] = f[x] + g[u \ {x}]
  BY <1>4, <1>5, SumStep
<1>7. PICK z \in u : z = (CHOOSE y \in u : TRUE) /\ k[u] = h[z] + k[u \ {z}]
  BY <1>4, <1>5, SumStep
<1>8. u \ {x} \notin Bad
  BY <1>3
<1>9. g[u \ {x}] = k[u \ {x}]
  BY <1>8
<1>10. f[x] = h[x]
  BY <1>5
<1>11. g[u] = k[u]
  BY <1>6, <1>7, <1>9, <1>10
<1>12. QED BY <1>3, <1>11

(* The table of sums exists. *)
LEMMA SumsExist ==
  ASSUME NEW S, IsFiniteSet(S), NEW f
  PROVE  \E g : Sums(f, S, g)
<1> DEFINE Bad == {u \in SUBSET S : ~ \E g : Sums(f, u, g)}
<1>1. SUFFICES ASSUME Bad # {}  PROVE FALSE
  OBVIOUS
<1>2. Bad \in SUBSET (SUBSET S)
  OBVIOUS
<1>3. PICK T \in Bad : \A t \in Bad : t \subseteq T => t = T
  <2> HIDE DEF Bad
  <2>1. QED BY <1>1, <1>2, SmallestSubset
<1>4. ASSUME NEW s \in SUBSET T, s # T  PROVE Sums(f, s, CHOOSE g : Sums(f, s, g))
  BY <1>3, <1>4
<1> DEFINE part(s) == (CHOOSE g : Sums(f, s, g))[s]
           pick(s) == CHOOSE x \in s : TRUE
           g == [s \in SUBSET T |->
                  IF s = {} THEN 0
                  ELSE IF s = T THEN f[pick(s)] + part(s \ {pick(s)}) ELSE part(s)]
<1>5. ASSUME NEW s \in SUBSET T, s # {}, s # T
      PROVE  part(s) = f[pick(s)] + part(s \ {pick(s)})
  <2>1. PICK p : p = pick(s) /\ p \in s
    BY <1>5
  <2>2. PICK a : a = (CHOOSE h : Sums(f, s, h)) /\ Sums(f, s, a)
    BY <1>4, <1>5
  <2>3. PICK b : b = (CHOOSE h : Sums(f, s \ {p}, h)) /\ Sums(f, s \ {p}, b)
    BY <1>4, <1>5, <2>1
  <2>4. a[s] = f[p] + a[s \ {p}]
    <3>1. s \in SUBSET s /\ s # {} /\ Sums(f, s, a)
      BY <1>5, <2>2
    <3>2. PICK x \in s : x = (CHOOSE y \in s : TRUE) /\ a[s] = f[x] + a[s \ {x}]
      BY <3>1, SumStep
    <3>3. QED BY <2>1, <3>2
  <2>5. IsFiniteSet(s)
    BY FS_Subset
  <2>6. a[s \ {p}] = b[s \ {p}]
    <3>1. s \ {p} \in SUBSET (s \cap (s \ {p}))
      OBVIOUS
    <3>2. QED BY <2>2, <2>3, <2>5, <3>1, SumsAgree
  <2>7. QED BY <2>1, <2>2, <2>3, <2>4, <2>6
<1>6. part({}) = 0 \/ T = {}
  BY <1>4, SumOfNone
<1> HIDE DEF part
<1>7. ASSUME NEW s \in SUBSET T, s # {}
      PROVE  g[s] = f[pick(s)] + g[s \ {pick(s)}]
  <2>1. pick(s) \in s /\ s \ {pick(s)} \in SUBSET T /\ s \ {pick(s)} # T
    BY <1>7
  <2> HIDE DEF pick
  <2>2. g[s \ {pick(s)}] = part(s \ {pick(s)})
    BY <1>6, <1>7, <2>1
  <2>3. g[s] = f[pick(s)] + part(s \ {pick(s)})
    BY <1>5, <1>7
  <2>4. QED BY <2>2, <2>3
<1>8. g[{}] = 0
  OBVIOUS
<1>9. DOMAIN g = SUBSET T /\ g = [s \in SUBSET T |-> g[s]]
  OBVIOUS
<1> HIDE DEF g
<1>10. g = [s \in SUBSET T |-> IF s = {} THEN 0 ELSE f[pick(s)] + g[s \ {pick(s)}]]
  BY <1>7, <1>8, <1>9
<1>11. Sums(f, T, g)
  BY <1>10 DEF Sums
<1>12. QED BY <1>3, <1>11

(* The library's sum is the last entry of that table. *)
LEMMA SumInTable ==
  ASSUME NEW S, IsFiniteSet(S), NEW f, DOMAIN f = S
  PROVE  \E g : Sums(f, S, g) /\ SumFunction(f) = g[S]
<1> DEFINE g == CHOOSE h : Sums(f, S, h)
<1>1. Sums(f, S, g)
  BY SumsExist
<1>2. SumFunction(f) = g[S]
  BY DEF SumFunction, SumFunctionOnSet, FoldFunctionOnSet, MapThenFoldSet, Sums
<1>3. QED BY <1>1, <1>2

(* The sum over u may be taken from any of its elements. *)
FromAny(f, g, u) ==
  /\ g[u] \in Int
  /\ \A x \in u : g[u] = f[x] + g[u \ {x}]

(* The order in which the summands are taken does not matter. *)
LEMMA SumFromAny ==
  ASSUME NEW S, IsFiniteSet(S), NEW f \in [S -> Int], NEW g, Sums(f, S, g), NEW s \in SUBSET S
  PROVE  FromAny(f, g, s)
<1> DEFINE Fine(u) == FromAny(f, g, u)
           Bad == {u \in SUBSET S : ~Fine(u)}
<1> USE DEF FromAny
<1>1. SUFFICES ASSUME Bad # {}  PROVE FALSE
  OBVIOUS
<1>2. Bad \in SUBSET (SUBSET S)
  OBVIOUS
<1>3. PICK u \in Bad : \A t \in Bad : t \subseteq u => t = u
  <2> HIDE DEF Bad
  <2>1. QED BY <1>1, <1>2, SmallestSubset
<1>4. u \in SUBSET S /\ ~Fine(u)
  OBVIOUS
<1>5. ASSUME NEW x \in u  PROVE Fine(u \ {x})
  <2>1. u \ {x} \in SUBSET S /\ u \ {x} # u
    BY <1>4
  <2>2. QED BY <1>3, <2>1
<1>6. u # {}
  <2>1. g[{}] = 0
    BY SumOfNone
  <2>2. Fine({})
    BY <2>1
  <2>3. QED BY <1>4, <2>2
<1>7. PICK y \in u : g[u] = f[y] + g[u \ {y}]
  BY <1>4, <1>6, SumStep
<1>8. f[y] \in Int /\ g[u \ {y}] \in Int
  BY <1>4, <1>5
<1>9. ASSUME NEW x \in u, x # y  PROVE g[u] = f[x] + g[u \ {x}]
  <2>1. g[u \ {y}] = f[x] + g[(u \ {y}) \ {x}]
    BY <1>5, <1>9
  <2>2. g[u \ {x}] = f[y] + g[(u \ {x}) \ {y}]
    BY <1>5, <1>9
  <2>3. (u \ {x}) \ {y} = (u \ {y}) \ {x}
    OBVIOUS
  <2>4. g[(u \ {y}) \ {x}] \in Int /\ f[x] \in Int
    <3>1. (u \ {y}) \ {x} \in SUBSET S /\ (u \ {y}) \ {x} # u /\ (u \ {y}) \ {x} \subseteq u
      BY <1>4
    <3>2. Fine((u \ {y}) \ {x})
      BY <1>3, <3>1
    <3>3. QED BY <1>4, <3>2
  <2>5. PICK r \in Int : r = g[(u \ {y}) \ {x}]
    BY <2>4
  <2>6. g[u] = f[y] + (f[x] + r) /\ g[u \ {x}] = f[y] + r
    BY <1>7, <2>1, <2>2, <2>3, <2>5
  <2>7. f[x] \in Int /\ f[y] \in Int
    BY <1>8, <2>4
  <2>8. QED BY <2>5, <2>6, <2>7
<1>10. Fine(u)
  <2>1. g[u] \in Int
    BY <1>7, <1>8
  <2>2. QED BY <1>7, <1>9, <2>1
<1>11. QED BY <1>4, <1>10

(* One summand grows by one. *)
LEMMA SumGrows ==
  ASSUME NEW S, IsFiniteSet(S), NEW f \in [S -> Int], NEW x \in S,
         NEW h \in [S -> Int], h[x] = f[x] + 1, \A y \in S \ {x} : f[y] = h[y]
  PROVE  SumFunction(h) = SumFunction(f) + 1
<1>1. PICK g : Sums(f, S, g) /\ SumFunction(f) = g[S]
  BY SumInTable
<1>2. f[x] \in Int
  OBVIOUS
<1>3. PICK k : Sums(h, S, k) /\ SumFunction(h) = k[S]
  BY <1>2, SumInTable
<1>4. FromAny(f, g, S) /\ FromAny(f, g, S \ {x})
  BY <1>1, SumFromAny
<1>5. FromAny(h, k, S)
  BY <1>3, SumFromAny
<1>6. g[S \ {x}] = k[S \ {x}]
  <2>1. S \ {x} \in SUBSET (S \cap S)
    OBVIOUS
  <2>2. QED BY <1>1, <1>3, <2>1, SumsAgree
<1>7. g[S] = f[x] + g[S \ {x}] /\ k[S] = h[x] + k[S \ {x}] /\ g[S \ {x}] \in Int
  BY <1>4, <1>5 DEF FromAny
<1>8. QED BY <1>1, <1>2, <1>3, <1>6, <1>7

(* Nothing adds up to nothing. *)
LEMMA SumOfZeros ==
  ASSUME NEW S, IsFiniteSet(S)
  PROVE  SumFunction([x \in S |-> 0]) = 0
<1> DEFINE zero == [x \in S |-> 0]
           none == [s \in SUBSET S |-> 0]
<1>1. PICK g : Sums(zero, S, g) /\ SumFunction(zero) = g[S]
  BY SumInTable
<1>2. none = [s \in SUBSET S |-> IF s = {} THEN 0
                ELSE zero[CHOOSE x \in s : TRUE] + none[s \ {CHOOSE x \in s : TRUE}]]
  OBVIOUS
<1>3. Sums(zero, S, none)
  BY <1>2 DEF Sums
<1>4. g[S] = none[S]
  <2> HIDE DEF zero, none
  <2>1. QED BY <1>1, <1>3, SumsAgree
<1>5. QED BY <1>1, <1>4

-----------------------------------------------------------------------------
(* What was taken of each asset. *)
Taken == [a \in Assets |-> Supply[a] - balance[a]]

(* A consumption takes one unit, of one asset. *)
LEMMA BooksTakesOne ==
  ASSUME JInv, NEW j \in Jobs, Books(j)
  PROVE  /\ SumFunction(Taken)' = SumFunction(Taken) + 1
         /\ Cardinality(booked)' = Cardinality(booked) + 1
<1>1. PICK a \in Assets : balance' = [balance EXCEPT ![a] = @ - 1]
  BY DEF Books
<1>2. Supply \in [Assets -> Nat] /\ balance \in [Assets -> Nat] /\ balance' \in [Assets -> Nat]
  BY AssetsAreWellFormed DEF JInv, TypeOK, Books
<1>3. Taken \in [Assets -> Int] /\ Taken' \in [Assets -> Int]
  BY <1>2 DEF Taken
<1>4. Taken'[a] = Taken[a] + 1 /\ \A b \in Assets \ {a} : Taken[b] = Taken'[b]
  BY <1>1, <1>2 DEF Taken
<1>5. SumFunction(Taken') = SumFunction(Taken) + 1
  BY <1>3, <1>4, AssetsAreWellFormed, SumGrows
<1>6. <<j, Publications(j) + 1>> \notin booked
  BY NextNumberIsFree
<1>7. Cardinality(booked)' = Cardinality(booked) + 1
  BY <1>6, FS_AddElement DEF JInv, Books
<1> QED
  BY <1>5, <1>7

(* The balances are touched by consumptions only. *)
LEMMA StepBooks ==
  ASSUME JInv, [Next]_vars
  PROVE  UNCHANGED <<balance, booked>> \/ \E j \in Jobs : Books(j)
<1> USE DEF JInv, TypeOK
<1>1. ASSUME NEW j \in Jobs, NEW type \in Types, NEW to \in Status,
             Create(j, type, to) \/ Update(j, type, to)
      PROVE  UNCHANGED <<balance, booked>> \/ Books(j)
  <2>1. Charged(j, type, to)
    BY <1>1 DEF Create, Update
  <2> QED
    BY <2>1, ChargedBooks
<1>2. ASSUME NEW r \in Requests, Publish(r)
      PROVE  UNCHANGED <<balance, booked>> \/ \E j \in Jobs : Books(j)
  <2>1. req[r] # Idle
    BY <1>2 DEF Publish, Idle
  <2>2. PICK j \in Jobs : j = req[r].job
    BY <2>1, ServedRequest
  <2>3. Charged(j, job[j].type, "Published") /\ job[j].type \in Types
    BY <1>2, <2>2 DEF Publish, Job
  <2> QED
    BY <2>3, ChargedBooks
<1>3. ASSUME NEW r \in Requests,
             Pause(r) \/ Close(r) \/ Delete(r) \/ Abandon(r) \/ \E op \in Operations, j \in Jobs : Load(r, op, j)
      PROVE  UNCHANGED <<balance, booked>>
  BY <1>3 DEF Pause, Close, Delete, SaveStatus, Abandon, Load
<1>4. CASE UNCHANGED vars
  BY <1>4 DEF vars
<1> QED
  BY <1>1, <1>2, <1>3, <1>4 DEF Next

(* What the company's balances lost is what its publications consumed, one   *)
(* unit each, over all its assets (RcJobPublishingEntitlementService).       *)
THEOREM BalancesAreExplained == Spec => []ConsumptionsExplainBalance
<1> DEFINE Explained == JInv /\ ConsumptionsExplainBalance
<1>1. Init => ConsumptionsExplainBalance
  <2>1. ASSUME Init PROVE ConsumptionsExplainBalance
    <3>1. Taken = [a \in Assets |-> 0]
      BY <2>1, AssetsAreWellFormed DEF Init, Taken
    <3>2. SumFunction(Taken) = 0
      BY <3>1, AssetsAreWellFormed, SumOfZeros
    <3>3. Cardinality(booked) = 0
      BY <2>1, FS_EmptySet DEF Init
    <3> QED
      BY <3>2, <3>3 DEF ConsumptionsExplainBalance, Taken
  <2> QED
    BY <2>1
<1>2. Explained /\ [Next]_vars => ConsumptionsExplainBalance'
  <2> SUFFICES ASSUME Explained, [Next]_vars PROVE ConsumptionsExplainBalance'
    OBVIOUS
  <2>1. SumFunction(Taken) = Cardinality(booked)
    BY DEF ConsumptionsExplainBalance, Taken
  <2>2. SumFunction(Taken)' = Cardinality(booked)'
    <3>1. CASE UNCHANGED <<balance, booked>>
      BY <2>1, <3>1 DEF Taken
    <3>2. CASE \E j \in Jobs : Books(j)
      BY <2>1, <3>2, BooksTakesOne
    <3> QED
      BY <3>1, <3>2, StepBooks
  <2> QED
    BY <2>2 DEF ConsumptionsExplainBalance, Taken
<1> QED
  BY <1>1, <1>2, InitInv, StepInv, PTL DEF Spec

-----------------------------------------------------------------------------
(* What the code leaves open: a job that was never public may be paused. *)
PausesPublicJobs ==
  \A j \in Jobs : job'[j].status = "Paused" => job[j].status \in {"Published", "Paused"}

(* Whatever is public, or paused, was charged for. *)
PublicWasCharged ==
  \A j \in Jobs : job[j].status \in {"Published", "Paused"} => \E b \in booked : b[1] = j

(* If only public jobs are paused, a public job has always consumed a        *)
(* benefit: the missing guard of pause, and the status Paused in a payload   *)
(* of create or update, are the only ways to publish for nothing             *)
(* (RcJobService::shouldConsumePublishingBenefit, run job_free_of_charge).   *)
THEOREM OnlyPausesAreFree == Spec /\ [][PausesPublicJobs]_vars => []PublishedHasConsumed
<1>1. Init => PublicWasCharged
  BY DEF Init, NoJob, PublicWasCharged
<1>2. JInv /\ PublicWasCharged /\ [Next]_vars /\ [PausesPublicJobs]_vars => PublicWasCharged'
  <2> SUFFICES ASSUME JInv, PublicWasCharged, [Next]_vars, [PausesPublicJobs]_vars
               PROVE  PublicWasCharged'
    OBVIOUS
  <2>1. booked \subseteq booked'
    BY StepBooks DEF Books
  <2>2. ASSUME NEW j \in Jobs, job'[j].status \in {"Published", "Paused"}
        PROVE  \E b \in booked' : b[1] = j
    <3>1. CASE job[j].status \in {"Published", "Paused"}
      BY <2>1, <3>1 DEF PublicWasCharged
    <3>2. CASE job[j].status \notin {"Published", "Paused"}
      <4>1. Next /\ job'[j].status = "Published"
        BY <2>2, <3>2 DEF vars, PausesPublicJobs
      <4>2. job[j].status \in {"Absent", "Draft", "Closed", "Expired"}
        BY <3>2 DEF JInv, TypeOK, Job, Status
      <4>3. IsBooked(j)
        BY <4>1, <4>2, StepCharged DEF GoesPublic
      <4> QED
        BY <4>3 DEF IsBooked
    <3> QED
      BY <3>1, <3>2
  <2> QED
    BY <2>2 DEF PublicWasCharged
<1>3. PublicWasCharged => PublishedHasConsumed
  BY DEF PublicWasCharged, PublishedHasConsumed
<1> QED
  BY <1>1, <1>2, <1>3, InitInv, StepInv, PTL DEF Spec

-----------------------------------------------------------------------------
(* Whatever jobs do to the company's accounts is what AssetBook lets its     *)
(* callers do: one consumption per step, by one of the calls of consumeFor.  *)
THEOREM JobsKeepTheBook == Spec => [][Book!BookNext]_<<balance, booked>>
<1>1. JInv /\ [Next]_vars => [Book!BookNext]_<<balance, booked>>
  <2> SUFFICES ASSUME JInv, [Next]_vars, ~UNCHANGED <<balance, booked>>
               PROVE  Book!BookNext
    OBVIOUS
  <2>1. PICK j \in Jobs, type \in Types : ConsumeFor(j, type)
    <3>1. CASE \E j \in Jobs, type \in Types, to \in Status : Create(j, type, to) \/ Update(j, type, to)
      BY <3>1 DEF Create, Update, Charged
    <3>2. ASSUME NEW r \in Requests, Publish(r)
          PROVE  \E j \in Jobs, type \in Types : ConsumeFor(j, type)
      <4>1. req[r] # Idle
        BY <3>2 DEF Publish, Idle
      <4>2. PICK j \in Jobs : j = req[r].job
        BY <4>1, ServedRequest DEF JInv
      <4>3. Charged(j, job[j].type, "Published") /\ job[j].type \in Types
        BY <3>2, <4>2 DEF Publish, Job, JInv, TypeOK
      <4> QED
        BY <4>3 DEF Charged
    <3> QED
      BY <3>1, <3>2 DEF Next, vars, Pause, Close, Delete, SaveStatus, Abandon, Load
  <2> DEFINE biz == <<j, Publications(j) + 1>>
  <2>2. biz \notin booked
    BY NextNumberIsFree
  <2>3. type \in DOMAIN Preferred /\ Book!ConsumeFirst(Alternatives(type, biz))
    BY <2>1, <2>2 DEF ConsumeFor
  <2>4. biz \in Jobs \X (Nat \ {0})
    BY CountsAreNatural
  <2> HIDE DEF biz
  <2>5. Alternatives(type, biz) \in Calls
    BY <2>3, <2>4 DEF Calls
  <2> QED
    BY <2>3, <2>5 DEF Book!BookNext
<1> QED
  BY <1>1, InitInv, StepInv, PTL DEF Spec
=============================================================================
