-------------------------- MODULE AssetLedger_proofs --------------------------
(***************************************************************************)
(* For any accounts, callers and number of concurrent transactions: the     *)
(* ledger explains every balance and no balance is ever overdrawn.          *)
(***************************************************************************)
EXTENDS AssetLedger, TLAPS

Callers == Grants \cup Consumptions

(* Row locks exclude each other, and a locked gap is the gap of a missing    *)
(* row which nobody else can be inserting.                                   *)
Locking ==
  /\ \A t, u \in Transactions : t # u =>
       \A a \in locks[t] : a \notin locks[u] /\ a \notin gaps[u]
  /\ \A t \in Transactions : \A a \in gaps[t] : ledger[a] = <<>>

(* An uncommitted row belongs to a call that was made, its account is        *)
(* locked, and it was computed from the balance that is still committed.     *)
Written1(t, e) ==
  /\ e.account \in locks[t]
  /\ e.balance_after = balance[e.account] + e.delta
  /\ e.balance_after >= 0
  /\ \E i \in DOMAIN plan[t] :
       i < at[t] /\ plan[t][i].account = e.account /\ plan[t][i].biz = e.biz

Writing ==
  \A t \in Transactions :
    /\ at[t] = 0 => plan[t] = None /\ writes[t] = {}
    /\ at[t] # 0 => plan[t] \in Callers
    /\ \A e \in writes[t] : Written1(t, e)
    /\ \A e, f \in writes[t] : e.account = f.account => e = f
    /\ plan[t] \in Consumptions /\ writes[t] # {} => at[t] > Len(plan[t])

IInv == TypeOK /\ Locking /\ Writing /\ LedgerExplainsBalance /\ NeverOverdrawn

(* The call a transaction is at. *)
LEMMA CurrentCall ==
  ASSUME IInv, NEW t \in Transactions, Running(t)
  PROVE  /\ plan[t] \in Callers /\ plan[t] \in Seq(Call) /\ at[t] \in 1 .. Len(plan[t])
         /\ Current(t) = plan[t][at[t]]
         /\ Current(t) \in Call
         /\ Current(t).account \in Accounts /\ Current(t).biz \in BizNos
         /\ Current(t).quantity \in Nat \ {0}
<1>1. plan[t] \in Callers /\ at[t] \in Nat /\ at[t] # 0 /\ at[t] <= Len(plan[t])
  BY DEF IInv, Writing, TypeOK, Running
<1>2. plan[t] \in Seq(Call)
  BY <1>1, CallsAreWellFormed DEF Callers
<1>3. at[t] \in 1 .. Len(plan[t])
  BY <1>1, <1>2
<1>4. plan[t][at[t]] \in Call
  BY <1>2, <1>3
<1>5. QED BY <1>1, <1>2, <1>3, <1>4 DEF Current, Call

(* Steps that leave balances, ledgers and writes alone keep the invariant if *)
(* they keep the discipline of locks and go on to a later call.              *)
LEMMA SameBooks ==
  ASSUME IInv, TypeOK', Locking', UNCHANGED <<balance, ledger, writes>>,
         \A t \in Transactions :
           /\ writes[t] # {} =>
                /\ locks[t] \subseteq locks'[t] /\ plan'[t] = plan[t] /\ at[t] <= at'[t]
           /\ at'[t] = 0 => plan'[t] = None /\ writes[t] = {}
           /\ at'[t] # 0 => plan'[t] \in Callers
  PROVE  IInv'
<1>1. LedgerExplainsBalance' /\ NeverOverdrawn'
  BY DEF IInv, LedgerExplainsBalance, NeverOverdrawn
<1>2. ASSUME NEW t \in Transactions, NEW e \in writes[t]
      PROVE  Written1(t, e)'
  <2>1. Written1(t, e)
    BY <1>2 DEF IInv, Writing
  <2>2. locks[t] \subseteq locks'[t] /\ plan'[t] = plan[t] /\ at[t] <= at'[t]
    BY <1>2
  <2>3. at[t] \in Nat /\ at'[t] \in Nat /\ plan[t] \in Callers
    BY <1>2 DEF IInv, TypeOK, Writing
  <2>4. PICK i \in DOMAIN plan[t] :
          i < at[t] /\ plan[t][i].account = e.account /\ plan[t][i].biz = e.biz
    BY <2>1 DEF Written1
  <2>5. i \in Nat
    BY <2>3, CallsAreWellFormed DEF Callers
  <2>6. i < at'[t]
    BY <2>2, <2>3, <2>4, <2>5
  <2>7. QED BY <2>1, <2>2, <2>4, <2>6 DEF Written1
<1>3. ASSUME NEW t \in Transactions, plan'[t] \in Consumptions, writes'[t] # {}
      PROVE  at'[t] > Len(plan'[t])
  <2>1. writes[t] # {} /\ plan'[t] = plan[t] /\ at[t] <= at'[t]
    BY <1>3
  <2>2. at[t] > Len(plan[t]) /\ plan[t] \in Seq(Call) /\ at[t] \in Nat /\ at'[t] \in Nat
    BY <1>3, <2>1, CallsAreWellFormed DEF IInv, Writing, TypeOK
  <2>3. QED BY <2>1, <2>2
<1>4. Writing'
  BY <1>2, <1>3 DEF IInv, Writing
<1>5. QED BY <1>1, <1>4 DEF IInv

LEMMA BeginKeeps ==
  ASSUME IInv, NEW t \in Transactions, NEW calls \in Callers, Begin(t, calls)
  PROVE  IInv'
<1>1. UNCHANGED <<balance, ledger, locks, gaps, writes>> /\ at[t] = 0
  BY DEF Begin
<1>2. TypeOK'
  BY DEF Begin, IInv, TypeOK, Callers, Booked
<1>3. Locking'
  BY <1>1 DEF IInv, Locking
<1>4. ASSUME NEW u \in Transactions
      PROVE  /\ writes[u] # {} => plan'[u] = plan[u] /\ at[u] <= at'[u]
             /\ at'[u] = 0 => plan'[u] = None /\ writes[u] = {}
             /\ at'[u] # 0 => plan'[u] \in Callers
  <2>1. CASE u = t
    BY <2>1 DEF Begin, IInv, TypeOK, Writing
  <2>2. CASE u # t
    <3>1. at'[u] = at[u] /\ plan'[u] = plan[u] /\ at[u] \in Nat
      BY <2>2 DEF Begin, IInv, TypeOK
    <3>2. QED BY <3>1 DEF IInv, Writing
  <2>3. QED BY <2>1, <2>2
<1>5. QED BY <1>1, <1>2, <1>3, <1>4, SameBooks

LEMMA LockAccountKeeps ==
  ASSUME IInv, NEW t \in Transactions, LockAccount(t)
  PROVE  IInv'
<1> DEFINE a == Current(t).account
<1>1. a \in Accounts /\ UNCHANGED <<balance, ledger, plan, at, view, writes>>
  BY CurrentCall DEF LockAccount
<1>2. \A u \in Transactions : u # t => a \notin locks[u]
  BY DEF LockAccount, Lockable, Others
<1>3. CASE Opened(a)
  <2>1. locks' = [locks EXCEPT ![t] = locks[t] \cup {a}] /\ gaps' = gaps
    BY <1>3 DEF LockAccount
  <2>2. ledger[a] # <<>>
    BY <1>3 DEF Opened
  <2> HIDE DEF a
  <2>3. TypeOK'
    BY <1>1, <2>1 DEF IInv, TypeOK
  <2>4. Locking'
    BY <1>1, <1>2, <2>1, <2>2 DEF IInv, TypeOK, Locking
  <2>5. \A u \in Transactions : locks[u] \subseteq locks'[u]
    BY <2>1 DEF IInv, TypeOK
  <2>6. QED BY <1>1, <2>3, <2>4, <2>5, SameBooks DEF IInv, Writing, TypeOK
<1>4. CASE ~Opened(a)
  <2>1. gaps' = [gaps EXCEPT ![t] = gaps[t] \cup {a}] /\ locks' = locks
    BY <1>4 DEF LockAccount
  <2>2. ledger[a] = <<>>
    BY <1>4 DEF Opened
  <2> HIDE DEF a
  <2>3. TypeOK'
    BY <1>1, <2>1 DEF IInv, TypeOK
  <2>4. Locking'
    BY <1>1, <1>2, <2>1, <2>2 DEF IInv, TypeOK, Locking
  <2>5. QED BY <1>1, <2>1, <2>3, <2>4, SameBooks DEF IInv, Writing, TypeOK
<1>5. QED BY <1>3, <1>4

LEMMA TryNextKeeps ==
  ASSUME IInv, NEW t \in Transactions, TryNext(t)
  PROVE  IInv'
<1>1. /\ UNCHANGED <<balance, ledger, plan, view, gaps, writes>>
      /\ locks' = locks /\ at[t] \in Nat /\ at[t] # 0
      /\ at' = [at EXCEPT ![t] = at[t] + 1]
  BY DEF TryNext, KeptLocks, Consuming, Running, IInv, TypeOK
<1>2. TypeOK'
  BY <1>1 DEF IInv, TypeOK
<1>3. Locking'
  BY <1>1 DEF IInv, Locking
<1>4. \A u \in Transactions : at[u] \in Nat /\ at[u] <= at'[u] /\ (at'[u] = 0 => at[u] = 0)
  BY <1>1 DEF IInv, TypeOK
<1>5. QED BY <1>1, <1>2, <1>3, <1>4, SameBooks DEF IInv, Writing

LEMMA SkipKeeps ==
  ASSUME IInv, NEW t \in Transactions, Skip(t)
  PROVE  IInv'
<1>1. at[t] \in 1 .. Len(plan[t]) /\ plan[t] \in Seq(Call)
  BY CurrentCall DEF Skip
<1>2. UNCHANGED <<balance, ledger, plan, view, locks, gaps, writes>>
  BY DEF Skip
<1>a. PICK k \in {at[t] + 1, Len(plan[t]) + 1} : at' = [at EXCEPT ![t] = k]
  BY DEF Skip
<1>b. k \in Nat /\ at[t] < k
  BY <1>1, <1>a
<1>3. TypeOK'
  BY <1>2, <1>a, <1>b DEF IInv, TypeOK
<1>4. Locking'
  BY <1>2 DEF IInv, Locking
<1>5. \A u \in Transactions : at[u] \in Nat /\ at[u] <= at'[u] /\ (at'[u] = 0 <=> at[u] = 0)
  BY <1>1, <1>a, <1>b DEF IInv, TypeOK
<1>6. QED BY <1>2, <1>3, <1>4, <1>5, SameBooks DEF IInv, Writing

(* The account of the current call has no uncommitted row of this            *)
(* transaction.                                                              *)
LEMMA NotWrittenYet ==
  ASSUME IInv, NEW t \in Transactions, Running(t)
  PROVE  \A e \in writes[t] : e.account # Current(t).account
<1>1. /\ plan[t] \in Callers /\ plan[t] \in Seq(Call) /\ at[t] \in 1 .. Len(plan[t])
      /\ Current(t) = plan[t][at[t]]
  BY CurrentCall
<1>2. CASE plan[t] \in Consumptions
  <2>1. ~(at[t] > Len(plan[t]))
    BY <1>1
  <2>2. QED BY <1>2, <2>1 DEF IInv, Writing
<1>3. CASE plan[t] \in Grants
  <2>1. ASSUME NEW e \in writes[t]  PROVE e.account # Current(t).account
    <3>1. PICK i \in DOMAIN plan[t] : i < at[t] /\ plan[t][i].account = e.account
      BY DEF IInv, Writing, Written1
    <3>2. i # at[t] /\ at[t] \in DOMAIN plan[t]
      BY <1>1, <3>1
    <3>3. plan[t][i].account # plan[t][at[t]].account
      BY <1>3, <3>2, CallsAreWellFormed
    <3>4. QED BY <1>1, <3>1, <3>3
  <2>2. QED BY <2>1
<1>4. QED BY <1>1, <1>2, <1>3 DEF Callers

(* grantOnce and consumeOnce write one row in the same way. *)
LEMMA OneMoreWrite ==
  ASSUME IInv, NEW t \in Transactions, Running(t), NEW delta \in Int,
         NEW k \in Nat, k > at[t], plan[t] \in Consumptions => k > Len(plan[t]),
         UNCHANGED <<balance, ledger, plan, view, gaps>>,
         writes' = [writes EXCEPT ![t] = Written(t, delta)],
         locks' = [locks EXCEPT ![t] = locks[t] \cup {Current(t).account}],
         at' = [at EXCEPT ![t] = k],
         \A u \in Transactions : u # t =>
           Current(t).account \notin locks[u] /\ Current(t).account \notin gaps[u],
         balance[Current(t).account] + delta >= 0
  PROVE  IInv'
<1> DEFINE a == Current(t).account
           b == Current(t).biz
           e == [account |-> a, biz |-> b, delta |-> delta, balance_after |-> balance[a] + delta]
<1>1. /\ a \in Accounts /\ b \in BizNos /\ at[t] \in 1 .. Len(plan[t])
      /\ plan[t] \in Seq(Call) /\ plan[t] \in Callers
      /\ plan[t][at[t]].account = a /\ plan[t][at[t]].biz = b
  BY CurrentCall
<1>2. writes' = [writes EXCEPT ![t] = writes[t] \cup {e}] /\ e \in Entry
  BY <1>1 DEF Written, IInv, TypeOK, Entry
<1>3. \A f \in writes[t] : f.account # a
  BY NotWrittenYet
<1>4. LedgerExplainsBalance' /\ NeverOverdrawn'
  BY DEF IInv, LedgerExplainsBalance, NeverOverdrawn
<1>5. locks' = [locks EXCEPT ![t] = locks[t] \cup {a}]
      /\ \A u \in Transactions : u # t => a \notin locks[u] /\ a \notin gaps[u]
  OBVIOUS
<1>6. e.account = a /\ e.biz = b /\ e.balance_after = balance[e.account] + e.delta /\ e.balance_after >= 0
  OBVIOUS
<1> HIDE DEF a, b, e
<1>7. TypeOK'
  BY <1>1, <1>2, <1>5 DEF IInv, TypeOK
<1>8. Locking'
  BY <1>1, <1>5 DEF IInv, TypeOK, Locking
<1>9. ASSUME NEW u \in Transactions, NEW f \in writes'[u]  PROVE Written1(u, f)'
  <2>1. CASE u = t /\ f = e
    <3>1. e.account \in locks'[t]
      BY <1>5, <1>6 DEF IInv, TypeOK
    <3>2. at'[t] = k /\ at[t] < k /\ at[t] \in DOMAIN plan[t]
      BY <1>1 DEF IInv, TypeOK
    <3>3. QED BY <1>1, <1>6, <2>1, <3>1, <3>2 DEF Written1
  <2>2. CASE ~(u = t /\ f = e)
    <3>1. f \in writes[u]
      BY <1>2, <2>2 DEF IInv, TypeOK
    <3>2. Written1(u, f)
      BY <3>1 DEF IInv, Writing
    <3>3. locks[u] \subseteq locks'[u] /\ at[u] \in Nat /\ at'[u] \in Nat /\ at[u] <= at'[u]
      BY <1>1, <1>5 DEF IInv, TypeOK
    <3>4. plan[u] \in Callers
      BY <3>1 DEF IInv, Writing, TypeOK
    <3>5. \A i \in DOMAIN plan[u] : i \in Nat
      BY <3>4, CallsAreWellFormed DEF Callers
    <3>6. QED BY <3>2, <3>3, <3>5 DEF Written1
  <2>3. QED BY <2>1, <2>2
<1>10. ASSUME NEW u \in Transactions
       PROVE  /\ at'[u] = 0 => plan'[u] = None /\ writes'[u] = {}
              /\ at'[u] # 0 => plan'[u] \in Callers
              /\ \A f, g \in writes'[u] : f.account = g.account => f = g
              /\ plan'[u] \in Consumptions /\ writes'[u] # {} => at'[u] > Len(plan'[u])
  <2>1. CASE u = t
    <3>1. at'[t] = k /\ k # 0 /\ plan'[t] = plan[t] /\ writes'[t] = writes[t] \cup {e}
      BY <1>1, <1>2 DEF IInv, TypeOK
    <3>2. QED BY <1>1, <1>3, <1>6, <2>1, <3>1 DEF IInv, Writing
  <2>2. CASE u # t
    <3>1. at'[u] = at[u] /\ plan'[u] = plan[u] /\ writes'[u] = writes[u]
      BY <1>2, <2>2 DEF IInv, TypeOK
    <3>2. QED BY <3>1 DEF IInv, Writing
  <2>3. QED BY <2>1, <2>2
<1>11. Writing'
  BY <1>9, <1>10 DEF Writing
<1>12. QED BY <1>4, <1>7, <1>8, <1>11 DEF IInv

LEMMA GrantKeeps ==
  ASSUME IInv, NEW t \in Transactions, Grant(t)
  PROVE  IInv'
<1> DEFINE a == Current(t).account
<1>1. /\ Running(t) /\ plan[t] \in Grants /\ a \in Accounts
      /\ Current(t).quantity \in Nat \ {0} /\ at[t] \in Nat /\ balance[a] \in Int
  BY CurrentCall DEF Grant, Granting, IInv, TypeOK
<1>2. \A u \in Transactions : u # t => a \notin locks[u] /\ a \notin gaps[u]
  BY DEF Grant, Holds, Others, IInv, Locking
<1>3. balance[a] >= 0
  BY <1>1 DEF IInv, NeverOverdrawn
<1>4. balance[a] + Current(t).quantity >= 0 /\ at[t] + 1 \in Nat /\ at[t] + 1 > at[t]
  BY <1>1, <1>3
<1>5. plan[t] \notin Consumptions
  BY <1>1, CallsAreWellFormed
<1>6. /\ Current(t).quantity \in Int
      /\ UNCHANGED <<balance, ledger, plan, view, gaps>>
      /\ writes' = [writes EXCEPT ![t] = Written(t, Current(t).quantity)]
      /\ locks' = [locks EXCEPT ![t] = locks[t] \cup {a}]
      /\ at' = [at EXCEPT ![t] = at[t] + 1]
  BY <1>1 DEF Grant
<1>7. QED BY <1>1, <1>2, <1>4, <1>5, <1>6, OneMoreWrite

LEMMA ConsumeKeeps ==
  ASSUME IInv, NEW t \in Transactions, Consume(t)
  PROVE  IInv'
<1> DEFINE a == Current(t).account
           q == Current(t).quantity
<1>1. /\ Running(t) /\ a \in Accounts /\ q \in Nat \ {0} /\ balance[a] \in Int
      /\ plan[t] \in Seq(Call) /\ at[t] \in 1 .. Len(plan[t])
  BY CurrentCall DEF Consume, Consuming, IInv, TypeOK
<1>2. a \in locks[t]
  BY DEF Consume, Sufficient, Opened, Holds, IInv, Locking
<1>3. \A u \in Transactions : u # t => a \notin locks[u] /\ a \notin gaps[u]
  BY <1>2 DEF IInv, Locking
<1>4. -q \in Int /\ balance[a] + (-q) >= 0
  BY <1>1 DEF Consume, Sufficient
<1>5. Len(plan[t]) + 1 \in Nat /\ Len(plan[t]) + 1 > at[t] /\ Len(plan[t]) + 1 > Len(plan[t])
  BY <1>1
<1>6. locks' = [locks EXCEPT ![t] = locks[t] \cup {a}]
  BY <1>2 DEF Consume, IInv, TypeOK
<1>7. QED BY <1>1, <1>3, <1>4, <1>5, <1>6, OneMoreWrite DEF Consume

(* Closing a transaction: the others keep their locks and their calls. *)
LEMMA ClosedKeeps ==
  ASSUME IInv, NEW t \in Transactions, Closed(t),
         \A u \in Transactions : u # t => \A f \in writes[u] : balance'[f.account] = balance[f.account],
         \A u \in Transactions : u # t => \A a \in gaps[u] : ledger'[a] = ledger[a],
         balance' \in [Accounts -> Int], ledger' \in [Accounts -> Seq(Entry)],
         LedgerExplainsBalance', NeverOverdrawn'
  PROVE  IInv'
<1>1. /\ plan'[t] = None /\ at'[t] = 0 /\ locks'[t] = {} /\ gaps'[t] = {} /\ writes'[t] = {}
      /\ \A u \in Transactions : u # t =>
           /\ plan'[u] = plan[u] /\ at'[u] = at[u] /\ locks'[u] = locks[u]
           /\ gaps'[u] = gaps[u] /\ writes'[u] = writes[u]
  BY DEF Closed, IInv, TypeOK
<1>2. TypeOK'
  BY DEF Closed, IInv, TypeOK
<1>a. ASSUME NEW u \in Transactions, NEW v \in Transactions, u # v, NEW a \in locks'[u]
      PROVE  a \notin locks'[v] /\ a \notin gaps'[v]
  <2>1. u # t /\ a \in locks[u] /\ locks'[v] \subseteq locks[v] /\ gaps'[v] \subseteq gaps[v]
    BY <1>1
  <2>2. QED BY <1>a, <2>1 DEF IInv, Locking
<1>b. ASSUME NEW u \in Transactions, NEW a \in gaps'[u]
      PROVE  ledger'[a] = <<>>
  <2>1. u # t /\ a \in gaps[u]
    BY <1>1
  <2>2. ledger'[a] = ledger[a]
    BY <2>1
  <2>3. QED BY <2>1, <2>2 DEF IInv, Locking
<1>3. Locking'
  BY <1>a, <1>b DEF Locking
<1>4. ASSUME NEW u \in Transactions, NEW f \in writes'[u]  PROVE Written1(u, f)'
  <2>1. u # t /\ f \in writes[u] /\ balance'[f.account] = balance[f.account]
    BY <1>1
  <2>2. Written1(u, f)
    BY <2>1 DEF IInv, Writing
  <2>3. QED BY <1>1, <2>1, <2>2 DEF Written1
<1>5. Writing'
  BY <1>1, <1>4 DEF IInv, Writing
<1>6. QED BY <1>2, <1>3, <1>5 DEF IInv

LEMMA RollbackKeeps ==
  ASSUME IInv, NEW t \in Transactions, Rollback(t)
  PROVE  IInv'
<1>1. UNCHANGED <<balance, ledger>> /\ Closed(t)
  BY DEF Rollback, RolledBack
<1>2. LedgerExplainsBalance' /\ NeverOverdrawn'
  BY <1>1 DEF IInv, LedgerExplainsBalance, NeverOverdrawn
<1>3. balance' \in [Accounts -> Int] /\ ledger' \in [Accounts -> Seq(Entry)]
  BY <1>1 DEF IInv, TypeOK
<1>4. QED BY <1>1, <1>2, <1>3, ClosedKeeps

(* What a commit does to an account: nothing, or one row and the balance it  *)
(* leaves.                                                                   *)
LEMMA CommittedAccount ==
  ASSUME IInv, NEW t \in Transactions, Commit(t), NEW a \in Accounts
  PROVE  \/ /\ balance'[a] = balance[a] /\ ledger'[a] = ledger[a]
            /\ WriteTo(t, a) = {}
         \/ \E e \in Entry :
              /\ e.balance_after = balance[a] + e.delta /\ e.balance_after >= 0
              /\ balance'[a] = e.balance_after /\ ledger'[a] = Append(ledger[a], e)
              /\ a \in locks[t]
<1>1. CASE WriteTo(t, a) = {}
  BY <1>1 DEF Commit, Applied
<1>2. CASE WriteTo(t, a) # {}
  <2> DEFINE e == CHOOSE f \in WriteTo(t, a) : TRUE
  <2>1. e \in WriteTo(t, a)
    BY <1>2
  <2>2. balance'[a] = e.balance_after /\ ledger'[a] = Append(ledger[a], e)
    BY <1>2 DEF Commit, Applied
  <2> HIDE DEF e
  <2>3. e \in writes[t] /\ e.account = a
    BY <2>1 DEF WriteTo
  <2>4. e \in Entry /\ Written1(t, e)
    BY <2>3 DEF IInv, TypeOK, Writing
  <2>5. QED BY <2>2, <2>3, <2>4 DEF Written1
<1>3. QED BY <1>1, <1>2

LEMMA CommitKeeps ==
  ASSUME IInv, NEW t \in Transactions, Commit(t)
  PROVE  IInv'
<1>1. Closed(t) /\ balance' = [a \in Accounts |-> balance'[a]] /\ ledger' = [a \in Accounts |-> ledger'[a]]
  BY DEF Commit, Applied
<1>2. balance \in [Accounts -> Int] /\ ledger \in [Accounts -> Seq(Entry)]
  BY DEF IInv, TypeOK
<1>3. ASSUME NEW a \in Accounts
      PROVE  balance'[a] \in Int /\ ledger'[a] \in Seq(Entry)
  <2>1. CASE balance'[a] = balance[a] /\ ledger'[a] = ledger[a]
    BY <1>2, <2>1
  <2>2. ASSUME NEW e \in Entry, balance'[a] = e.balance_after, ledger'[a] = Append(ledger[a], e)
        PROVE  balance'[a] \in Int /\ ledger'[a] \in Seq(Entry)
    <3>1. e.balance_after \in Int
      BY DEF Entry
    <3>2. ledger[a] \in Seq(Entry)
      BY <1>2
    <3>3. Append(ledger[a], e) \in Seq(Entry)
      BY <3>2
    <3>4. QED BY <2>2, <3>1, <3>3
  <2>3. QED BY <2>1, <2>2, CommittedAccount
<1>4. balance' \in [Accounts -> Int] /\ ledger' \in [Accounts -> Seq(Entry)]
  BY <1>1, <1>3
<1>5. ASSUME NEW a \in Accounts
      PROVE  /\ balance'[a] >= 0
             /\ \A i \in DOMAIN ledger'[a] :
                  /\ ledger'[a][i].balance_after >= 0
                  /\ ledger'[a][i].balance_after =
                       (IF i = 1 THEN 0 ELSE ledger'[a][i - 1].balance_after) + ledger'[a][i].delta
             /\ balance'[a] = IF Len(ledger'[a]) + 1 = 1 THEN 0
                              ELSE ledger'[a][Len(ledger'[a])].balance_after
  <2>1. /\ balance[a] >= 0
        /\ \A i \in DOMAIN ledger[a] :
             /\ ledger[a][i].balance_after >= 0
             /\ ledger[a][i].balance_after =
                  (IF i = 1 THEN 0 ELSE ledger[a][i - 1].balance_after) + ledger[a][i].delta
        /\ balance[a] = IF Len(ledger[a]) + 1 = 1 THEN 0 ELSE ledger[a][Len(ledger[a])].balance_after
        /\ ledger[a] \in Seq(Entry) /\ balance[a] \in Int
    BY <1>2 DEF IInv, LedgerExplainsBalance, NeverOverdrawn
  <2>2. CASE balance'[a] = balance[a] /\ ledger'[a] = ledger[a]
    BY <2>1, <2>2
  <2>3. ASSUME NEW e \in Entry,
               e.balance_after = balance[a] + e.delta, e.balance_after >= 0,
               balance'[a] = e.balance_after, ledger'[a] = Append(ledger[a], e)
        PROVE  <1>5!2
    <3> DEFINE n == Len(ledger[a])
    <3>1. /\ n \in Nat /\ Len(ledger'[a]) = n + 1 /\ ledger'[a][n + 1] = e
          /\ \A i \in 1 .. n : ledger'[a][i] = ledger[a][i]
          /\ DOMAIN ledger'[a] = 1 .. n + 1 /\ DOMAIN ledger[a] = 1 .. n
      BY <2>1, <2>3
    <3> HIDE DEF n
    <3>2. QED BY <2>1, <2>3, <3>1
  <2>4. QED BY <2>2, <2>3, CommittedAccount
<1>6. LedgerExplainsBalance' /\ NeverOverdrawn'
  BY <1>5 DEF LedgerExplainsBalance, NeverOverdrawn
<1>7. ASSUME NEW u \in Transactions, u # t, NEW f \in writes[u]
      PROVE  balance'[f.account] = balance[f.account]
  <2>1. f.account \in Accounts /\ f.account \in locks[u]
    BY DEF IInv, TypeOK, Writing, Written1, Entry
  <2>2. f.account \notin locks[t]
    BY <1>7, <2>1 DEF IInv, Locking
  <2>3. QED BY <2>1, <2>2, CommittedAccount
<1>8. ASSUME NEW u \in Transactions, u # t, NEW a \in gaps[u]
      PROVE  ledger'[a] = ledger[a]
  <2>1. a \in Accounts /\ a \notin locks[t]
    BY <1>8 DEF IInv, TypeOK, Locking
  <2>2. QED BY <2>1, CommittedAccount
<1>9. QED BY <1>1, <1>4, <1>6, <1>7, <1>8, ClosedKeeps

LEMMA StepKeeps ==
  ASSUME IInv, [Next]_vars
  PROVE  IInv'
<1>1. CASE UNCHANGED vars
  BY <1>1 DEF vars, IInv, TypeOK, Locking, Writing, Written1, LedgerExplainsBalance, NeverOverdrawn
<1>2. CASE Next
  BY <1>2, BeginKeeps, LockAccountKeeps, GrantKeeps, ConsumeKeeps, TryNextKeeps, SkipKeeps,
     CommitKeeps, RollbackKeeps DEF Next, Callers
<1>3. QED BY <1>1, <1>2

LEMMA InitHolds == Init => IInv
BY DEF Init, IInv, TypeOK, Locking, Writing, LedgerExplainsBalance, NeverOverdrawn

LEMMA Inductive == Spec => []IInv
BY InitHolds, StepKeeps, PTL DEF Spec

-----------------------------------------------------------------------------
(* Batches: what a granting transaction has passed by is booked in the view  *)
(* it reads from, or is among the rows it will commit.                       *)
Numbers(t) == {e.biz : e \in writes[t]}

Passed(t) ==
  plan[t] \in Grants =>
    \A i \in DOMAIN plan[t] : i < at[t] => plan[t][i].biz \in view[t] \cup Numbers(t)

Viewed == \A t \in Transactions : view[t] \subseteq Booked /\ Passed(t)

BInv == Viewed /\ BatchesAreWhole

LEMMA BookedType == ASSUME TypeOK PROVE Booked \subseteq BizNos
BY DEF Booked

LEMMA SameBooked == ASSUME UNCHANGED ledger PROVE Booked' = Booked
BY DEF Booked

(* A commit books exactly the numbers of the rows it wrote. *)
LEMMA CommitBooks ==
  ASSUME IInv, NEW t \in Transactions, Commit(t)
  PROVE  Booked' = Booked \cup Numbers(t)
<1>1. ASSUME NEW a \in Accounts
      PROVE  \/ WriteTo(t, a) = {} /\ ledger'[a] = ledger[a]
             \/ \E e \in WriteTo(t, a) : WriteTo(t, a) = {e} /\ ledger'[a] = Append(ledger[a], e)
  <2>1. CASE WriteTo(t, a) = {}
    BY <2>1 DEF Commit, Applied
  <2>2. CASE WriteTo(t, a) # {}
    <3> DEFINE e == CHOOSE f \in WriteTo(t, a) : TRUE
    <3>1. e \in WriteTo(t, a) /\ ledger'[a] = Append(ledger[a], e)
      BY <2>2 DEF Commit, Applied
    <3> HIDE DEF e
    <3>2. \A f \in WriteTo(t, a) : f = e
      BY <3>1 DEF WriteTo, IInv, Writing
    <3>3. QED BY <3>1, <3>2
  <2>3. QED BY <2>1, <2>2
<1>2. ASSUME NEW a \in Accounts, NEW e \in Entry, ledger'[a] = Append(ledger[a], e)
      PROVE  /\ \A i \in DOMAIN ledger[a] : i \in DOMAIN ledger'[a] /\ ledger'[a][i] = ledger[a][i]
             /\ \E i \in DOMAIN ledger'[a] : ledger'[a][i] = e
             /\ \A i \in DOMAIN ledger'[a] : i \in DOMAIN ledger[a] \/ ledger'[a][i] = e
  <2>1. ledger[a] \in Seq(Entry)
    BY DEF IInv, TypeOK
  <2> DEFINE n == Len(ledger[a])
  <2>2. /\ n \in Nat /\ DOMAIN ledger'[a] = 1 .. n + 1 /\ ledger'[a][n + 1] = e
        /\ DOMAIN ledger[a] = 1 .. n /\ \A i \in 1 .. n : ledger'[a][i] = ledger[a][i]
    BY <1>2, <2>1
  <2> HIDE DEF n
  <2>3. QED BY <2>2
<1>3. \A e \in writes[t] : e \in Entry /\ e.account \in Accounts
  BY DEF IInv, TypeOK, Entry
<1>4. ASSUME NEW b \in Booked'  PROVE b \in Booked \cup Numbers(t)
  <2>1. PICK a \in Accounts : \E i \in DOMAIN ledger'[a] : ledger'[a][i].biz = b
    BY DEF Booked
  <2>2. PICK i \in DOMAIN ledger'[a] : ledger'[a][i].biz = b
    BY <2>1
  <2>3. b \in BizNos
    BY DEF Booked
  <2>4. CASE ledger'[a] = ledger[a]
    BY <2>2, <2>3, <2>4 DEF Booked
  <2>5. ASSUME NEW e \in WriteTo(t, a), ledger'[a] = Append(ledger[a], e)
        PROVE  b \in Booked \cup Numbers(t)
    <3>1. e \in writes[t] /\ e \in Entry
      BY <1>3 DEF WriteTo
    <3>2. (i \in DOMAIN ledger[a] /\ ledger'[a][i] = ledger[a][i]) \/ ledger'[a][i] = e
      BY <1>2, <2>5, <3>1
    <3>3. QED BY <2>2, <2>3, <3>1, <3>2 DEF Booked, Numbers
  <2>6. QED BY <1>1, <2>4, <2>5
<1>5. ASSUME NEW b \in Booked  PROVE b \in Booked'
  <2>1. PICK a \in Accounts : \E i \in DOMAIN ledger[a] : ledger[a][i].biz = b
    BY DEF Booked
  <2>2. PICK i \in DOMAIN ledger[a] : ledger[a][i].biz = b
    BY <2>1
  <2>3. i \in DOMAIN ledger'[a] /\ ledger'[a][i] = ledger[a][i]
    BY <1>1, <1>2, <1>3 DEF WriteTo
  <2>4. QED BY <2>2, <2>3 DEF Booked
<1>6. ASSUME NEW e \in writes[t]  PROVE e.biz \in Booked'
  <2> DEFINE a == e.account
  <2>1. a \in Accounts /\ e \in WriteTo(t, a) /\ e \in Entry /\ e.biz \in BizNos
    BY <1>3 DEF WriteTo, Entry
  <2>2. ledger'[a] = Append(ledger[a], e)
    BY <1>1, <2>1
  <2>3. \E i \in DOMAIN ledger'[a] : ledger'[a][i] = e
    BY <1>2, <2>1, <2>2
  <2>4. QED BY <2>1, <2>3 DEF Booked
<1>7. QED BY <1>4, <1>5, <1>6 DEF Numbers

(* A step that books nothing keeps the invariant if each granting            *)
(* transaction only passes a number it sees or writes.                       *)
LEMMA NothingBooked ==
  ASSUME IInv, BInv, UNCHANGED ledger, NEW t \in Transactions,
         \A u \in Transactions : u # t =>
           plan'[u] = plan[u] /\ at'[u] = at[u] /\ view'[u] = view[u] /\ writes'[u] = writes[u],
         view'[t] \subseteq Booked, Passed(t)'
  PROVE  BInv'
<1>1. Booked' = Booked
  BY SameBooked
<1>2. ASSUME NEW u \in Transactions, u # t  PROVE view'[u] \subseteq Booked' /\ Passed(u)'
  <2>1. view[u] \subseteq Booked /\ Passed(u)
    BY DEF BInv, Viewed
  <2>2. plan'[u] = plan[u] /\ at'[u] = at[u] /\ view'[u] = view[u] /\ writes'[u] = writes[u]
    BY <1>2
  <2>3. QED BY <1>1, <2>1, <2>2 DEF Passed, Numbers
<1>3. Viewed'
  BY <1>1, <1>2 DEF Viewed
<1>4. BatchesAreWhole'
  BY <1>1 DEF BInv, BatchesAreWhole
<1>5. QED BY <1>3, <1>4 DEF BInv

(* Going on by one call, past a number that is seen or written. *)
LEMMA PassesOne ==
  ASSUME IInv, BInv, NEW t \in Transactions, Running(t), plan'[t] = plan[t],
         view'[t] = view[t], at'[t] = at[t] + 1, Numbers(t) \subseteq Numbers(t)',
         Current(t).biz \in view[t] \cup Numbers(t)'
  PROVE  Passed(t)'
<1>1. plan[t] \in Seq(Call) /\ at[t] \in 1 .. Len(plan[t]) /\ Current(t) = plan[t][at[t]]
  BY CurrentCall
<1>2. Passed(t)
  BY DEF BInv, Viewed
<1>3. ASSUME plan[t] \in Grants, NEW i \in DOMAIN plan[t], i < at[t] + 1
      PROVE  plan[t][i].biz \in view[t] \cup Numbers(t)'
  <2>1. CASE i = at[t]
    BY <1>1, <2>1
  <2>2. CASE i # at[t]
    <3>1. i < at[t]
      BY <1>1, <1>3, <2>2
    <3>2. QED BY <1>2, <1>3, <3>1 DEF Passed
  <2>3. QED BY <2>1, <2>2
<1>4. QED BY <1>3 DEF Passed

LEMMA CommitKeepsBatches ==
  ASSUME IInv, BInv, NEW t \in Transactions, Commit(t)
  PROVE  BInv'
<1>1. Booked' = Booked \cup Numbers(t)
  BY CommitBooks
<1>2. /\ plan'[t] = None /\ view'[t] = {}
      /\ \A u \in Transactions : u # t =>
           plan'[u] = plan[u] /\ at'[u] = at[u] /\ view'[u] = view[u] /\ writes'[u] = writes[u]
  BY DEF Commit, Closed, IInv, TypeOK
<1>3. ASSUME NEW u \in Transactions  PROVE view'[u] \subseteq Booked' /\ Passed(u)'
  <2>1. CASE u = t
    BY <1>2, <2>1, CallsAreWellFormed DEF Passed
  <2>2. CASE u # t
    <3>1. view[u] \subseteq Booked /\ Passed(u)
      BY DEF BInv, Viewed
    <3>2. plan'[u] = plan[u] /\ at'[u] = at[u] /\ view'[u] = view[u] /\ writes'[u] = writes[u]
      BY <1>2, <2>2
    <3>3. QED BY <1>1, <3>1, <3>2 DEF Passed, Numbers
  <2>3. QED BY <2>1, <2>2
<1>4. ASSUME NEW calls \in Grants, NEW i \in DOMAIN calls, NEW j \in DOMAIN calls,
             calls[i].biz \in Booked'
      PROVE  calls[j].biz \in Booked'
  <2>1. CASE calls[i].biz \in Booked
    BY <1>1, <2>1 DEF BInv, BatchesAreWhole
  <2>2. CASE calls[i].biz \in Numbers(t)
    <3>1. PICK e \in writes[t] : e.biz = calls[i].biz
      BY <2>2 DEF Numbers
    <3>2. PICK k \in DOMAIN plan[t] : plan[t][k].biz = calls[i].biz
      BY <3>1 DEF IInv, Writing, Written1
    <3>3. at[t] # 0 /\ at[t] > Len(plan[t]) /\ at[t] \in Nat
      BY DEF Commit, IInv, TypeOK
    <3>4. plan[t] \in Callers
      BY <3>3 DEF IInv, Writing
    <3>5. plan[t] = calls
      BY <3>2, <3>4, BatchesAreDisjoint DEF Callers
    <3>6. j < at[t]
      <4>1. calls \in Seq(Call)
        BY CallsAreWellFormed
      <4>2. j \in 1 .. Len(calls) /\ Len(calls) \in Nat
        BY <4>1
      <4>3. QED BY <3>3, <3>5, <4>2
    <3>7. calls[j].biz \in view[t] \cup Numbers(t) /\ view[t] \subseteq Booked
      BY <3>5, <3>6 DEF BInv, Viewed, Passed
    <3>8. QED BY <1>1, <3>7
  <2>3. QED BY <1>1, <1>4, <2>1, <2>2
<1>5. QED BY <1>3, <1>4 DEF BInv, Viewed, BatchesAreWhole

LEMMA StepKeepsBatches ==
  ASSUME IInv, BInv, [Next]_vars
  PROVE  BInv'
<1>1. CASE UNCHANGED vars
  BY <1>1 DEF vars, BInv, Viewed, Passed, Numbers, BatchesAreWhole, Booked
<1>2. ASSUME NEW t \in Transactions, NEW calls \in Callers, Begin(t, calls)
      PROVE  BInv'
  <2>1. /\ plan'[t] = calls /\ at'[t] = 1 /\ view'[t] = Booked /\ UNCHANGED <<ledger, writes>>
        /\ \A u \in Transactions : u # t =>
             plan'[u] = plan[u] /\ at'[u] = at[u] /\ view'[u] = view[u]
    BY <1>2, BookedType DEF Begin, IInv, TypeOK
  <2>2. \A i \in DOMAIN calls : ~(i < 1)
    BY CallsAreWellFormed DEF Callers
  <2>3. Passed(t)'
    BY <2>1, <2>2 DEF Passed
  <2>4. QED BY <2>1, <2>3, NothingBooked
<1>3. ASSUME NEW t \in Transactions, LockAccount(t)
      PROVE  BInv'
  <2>1. UNCHANGED <<ledger, plan, at, view, writes>>
    BY <1>3 DEF LockAccount
  <2>2. Passed(t)' /\ view'[t] \subseteq Booked
    BY <2>1 DEF BInv, Viewed, Passed, Numbers
  <2>3. QED BY <2>1, <2>2, NothingBooked
<1>4. ASSUME NEW t \in Transactions, Grant(t)
      PROVE  BInv'
  <2>1. /\ UNCHANGED <<ledger, plan, view>> /\ at'[t] = at[t] + 1
        /\ writes'[t] = Written(t, Current(t).quantity)
        /\ \A u \in Transactions : u # t => at'[u] = at[u] /\ writes'[u] = writes[u]
    BY <1>4 DEF Grant, IInv, TypeOK
  <2>a. PICK e : e.biz = Current(t).biz /\ writes'[t] = writes[t] \cup {e}
    BY <2>1 DEF Written
  <2>2. Numbers(t)' = Numbers(t) \cup {Current(t).biz}
    BY <2>a DEF Numbers
  <2>3. Running(t) /\ view[t] \subseteq Booked
    BY <1>4 DEF Grant, Granting, BInv, Viewed
  <2>4. Passed(t)'
    BY <2>1, <2>2, <2>3, PassesOne
  <2>5. QED BY <2>1, <2>3, <2>4, NothingBooked
<1>5. ASSUME NEW t \in Transactions, Consume(t) \/ TryNext(t)
      PROVE  BInv'
  <2>1. /\ UNCHANGED <<ledger, plan, view>> /\ plan[t] \in Consumptions
        /\ \A u \in Transactions : u # t => at'[u] = at[u] /\ writes'[u] = writes[u]
    BY <1>5 DEF Consume, TryNext, Consuming, IInv, TypeOK
  <2>2. Passed(t)' /\ view'[t] \subseteq Booked
    BY <2>1, CallsAreWellFormed DEF BInv, Viewed, Passed
  <2>3. QED BY <2>1, <2>2, NothingBooked
<1>6. ASSUME NEW t \in Transactions, Skip(t)
      PROVE  BInv'
  <2>1. /\ UNCHANGED <<ledger, plan, view, writes>> /\ Current(t).biz \in view[t] /\ Running(t)
        /\ \A u \in Transactions : u # t => at'[u] = at[u]
    BY <1>6 DEF Skip, IInv, TypeOK
  <2>2. CASE plan[t] \in Grants
    <3>1. at'[t] = at[t] + 1
      BY <1>6, <2>2, CallsAreWellFormed DEF Skip, Granting, Consuming, IInv, TypeOK
    <3>2. Passed(t)'
      BY <2>1, <3>1, PassesOne DEF Numbers
    <3>3. QED BY <2>1, <3>2, NothingBooked DEF BInv, Viewed
  <2>3. CASE plan[t] \notin Grants
    BY <2>1, <2>3, NothingBooked DEF BInv, Viewed, Passed
  <2>4. QED BY <2>2, <2>3
<1>7. ASSUME NEW t \in Transactions, Rollback(t)
      PROVE  BInv'
  <2>1. /\ UNCHANGED ledger /\ plan'[t] = None /\ view'[t] = {}
        /\ \A u \in Transactions : u # t =>
             plan'[u] = plan[u] /\ at'[u] = at[u] /\ view'[u] = view[u] /\ writes'[u] = writes[u]
    BY <1>7 DEF Rollback, RolledBack, Closed, IInv, TypeOK
  <2>2. Passed(t)'
    BY <2>1, CallsAreWellFormed DEF Passed
  <2>3. QED BY <2>1, <2>2, NothingBooked
<1>8. QED BY <1>1, <1>2, <1>3, <1>4, <1>5, <1>6, <1>7, CommitKeepsBatches DEF Next, Callers

LEMMA BatchesInitially == Init => BInv
<1>1. ASSUME Init  PROVE Booked = {}
  BY <1>1 DEF Init, Booked
<1>2. QED BY <1>1, CallsAreWellFormed DEF Init, BInv, Viewed, Passed, BatchesAreWhole

(* Every reachable state is well typed. *)
THEOREM LedgerTypeCorrect == Spec => []TypeOK
BY Inductive, PTL DEF IInv

(* No interleaving of grants and consumptions, with any failures, loses an   *)
(* update: the rows of an account always add up to its balance.              *)
THEOREM LedgerAlwaysExplainsBalance == Spec => []LedgerExplainsBalance
BY Inductive, PTL DEF IInv

(* No interleaving of consumptions overdraws an account.                     *)
THEOREM AccountsAreNeverOverdrawn == Spec => []NeverOverdrawn
BY Inductive, PTL DEF IInv

(* The grants of a batch are booked together or not at all, whatever other   *)
(* transactions do and wherever one fails.                                   *)
THEOREM BatchesAreBookedWhole == Spec => []BatchesAreWhole
<1>1. IInv /\ BInv /\ [Next]_vars => (IInv /\ BInv)'
  BY StepKeeps, StepKeepsBatches
<1>2. IInv /\ BInv => BatchesAreWhole
  BY DEF BInv
<1>3. QED BY InitHolds, BatchesInitially, <1>1, <1>2, PTL DEF Spec

-----------------------------------------------------------------------------
(* A number is booked once: on one account, in one row.                      *)
BookedOnce ==
  \A a, c \in Accounts : \A i \in DOMAIN ledger[a], j \in DOMAIN ledger[c] :
    ledger[a][i].biz = ledger[c][j].biz => a = c /\ i = j

(* What a transaction has written and not committed is nobody else's and not *)
(* booked.                                                                   *)
OwnNumbers ==
  \A t \in Transactions : \A e \in writes[t] :
    /\ e.biz \notin Booked
    /\ \A u \in Transactions : \A f \in writes[u] : e.biz = f.biz => t = u /\ e = f

UInv == BookedOnce /\ OwnNumbers

LEMMA FewerWrites ==
  ASSUME UInv, UNCHANGED ledger, \A t \in Transactions : writes'[t] \subseteq writes[t]
  PROVE  UInv'
<1>1. Booked' = Booked
  BY SameBooked
<1>2. QED BY <1>1 DEF UInv, BookedOnce, OwnNumbers

(* A call of a transaction has no number that it wrote before.               *)
LEMMA NumberNotWrittenYet ==
  ASSUME IInv, NEW t \in Transactions, Running(t)
  PROVE  \A e \in writes[t] : e.biz # Current(t).biz
<1>1. /\ plan[t] \in Callers /\ plan[t] \in Seq(Call) /\ at[t] \in 1 .. Len(plan[t])
      /\ Current(t) = plan[t][at[t]]
  BY CurrentCall
<1>2. CASE plan[t] \in Consumptions
  <2>1. ~(at[t] > Len(plan[t]))
    BY <1>1
  <2>2. QED BY <1>2, <2>1 DEF IInv, Writing
<1>3. ASSUME plan[t] \in Grants, NEW e \in writes[t]  PROVE e.biz # Current(t).biz
  <2>1. PICK i \in DOMAIN plan[t] : i < at[t] /\ plan[t][i].biz = e.biz
    BY DEF IInv, Writing, Written1
  <2>2. i # at[t] /\ at[t] \in DOMAIN plan[t]
    BY <1>1, <2>1
  <2>3. plan[t][i].biz # plan[t][at[t]].biz
    BY <1>3, <2>2, CallsAreWellFormed
  <2>4. QED BY <1>1, <2>1, <2>3
<1>4. QED BY <1>1, <1>2, <1>3 DEF Callers

LEMMA WriteKeepsNumbers ==
  ASSUME IInv, UInv, NEW t \in Transactions, Grant(t) \/ Consume(t)
  PROVE  UInv'
<1>1. PICK e : e.biz = Current(t).biz /\ writes' = [writes EXCEPT ![t] = writes[t] \cup {e}]
  BY DEF Grant, Consume, Written
<1>2. Running(t) /\ UNCHANGED ledger /\ Insertable(t, e.biz)
  BY <1>1 DEF Grant, Consume, Granting, Consuming
<1>3. e.biz \notin Booked /\ \A u \in Transactions : \A f \in writes[u] : f.biz # e.biz
  BY <1>1, <1>2, NumberNotWrittenYet DEF Insertable, Others
<1>4. Booked' = Booked
  BY <1>2, SameBooked
<1>5. \A u \in Transactions : \A f \in writes'[u] : f \in writes[u] \/ (u = t /\ f = e)
  BY <1>1 DEF IInv, TypeOK
<1>6. OwnNumbers'
  BY <1>3, <1>4, <1>5 DEF UInv, OwnNumbers
<1>7. QED BY <1>2, <1>6 DEF UInv, BookedOnce

(* A commit appends to an account at most the row that was written for it.   *)
LEMMA CommittedRows ==
  ASSUME IInv, NEW t \in Transactions, Commit(t), NEW a \in Accounts, NEW i \in DOMAIN ledger'[a]
  PROVE  \/ i \in DOMAIN ledger[a] /\ ledger'[a][i] = ledger[a][i]
         \/ i = Len(ledger[a]) + 1 /\ ledger'[a][i] \in writes[t] /\ ledger'[a][i].account = a
<1>1. CASE WriteTo(t, a) = {}
  BY <1>1 DEF Commit, Applied
<1>2. CASE WriteTo(t, a) # {}
  <2>1. PICK e \in WriteTo(t, a) : ledger'[a] = Append(ledger[a], e)
    BY <1>2 DEF Commit, Applied
  <2>2. e \in writes[t] /\ e.account = a /\ e \in Entry /\ ledger[a] \in Seq(Entry)
    BY DEF WriteTo, IInv, TypeOK
  <2> DEFINE n == Len(ledger[a])
  <2>3. /\ n \in Nat /\ DOMAIN ledger'[a] = 1 .. n + 1 /\ ledger'[a][n + 1] = e
        /\ DOMAIN ledger[a] = 1 .. n /\ \A k \in 1 .. n : ledger'[a][k] = ledger[a][k]
    BY <2>1, <2>2
  <2>4. i \in 1 .. n \/ i = n + 1
    BY <2>3
  <2>5. QED BY <2>2, <2>3, <2>4
<1>3. QED BY <1>1, <1>2

LEMMA CommitKeepsNumbers ==
  ASSUME IInv, UInv, NEW t \in Transactions, Commit(t)
  PROVE  UInv'
<1>1. writes'[t] = {} /\ \A u \in Transactions : u # t => writes'[u] = writes[u]
  BY DEF Commit, Closed, IInv, TypeOK
<1>2. Booked' = Booked \cup Numbers(t)
  BY CommitBooks
<1>3. OwnNumbers'
  BY <1>1, <1>2 DEF UInv, OwnNumbers, Numbers
<1>4. ASSUME NEW a \in Accounts, NEW i \in DOMAIN ledger[a]  PROVE ledger[a][i].biz \in Booked
  <2>1. ledger[a] \in Seq(Entry)
    BY DEF IInv, TypeOK
  <2>2. ledger[a][i] \in Entry
    BY <1>4, <2>1
  <2>3. ledger[a][i].biz \in BizNos
    BY <2>2 DEF Entry
  <2>4. QED BY <1>4, <2>3 DEF Booked
<1>5. ASSUME NEW a \in Accounts, NEW c \in Accounts, NEW i \in DOMAIN ledger'[a], NEW j \in DOMAIN ledger'[c],
             ledger'[a][i].biz = ledger'[c][j].biz
      PROVE  a = c /\ i = j
  <2>1. \/ i \in DOMAIN ledger[a] /\ ledger'[a][i] = ledger[a][i]
        \/ i = Len(ledger[a]) + 1 /\ ledger'[a][i] \in writes[t] /\ ledger'[a][i].account = a
    BY CommittedRows
  <2>2. \/ j \in DOMAIN ledger[c] /\ ledger'[c][j] = ledger[c][j]
        \/ j = Len(ledger[c]) + 1 /\ ledger'[c][j] \in writes[t] /\ ledger'[c][j].account = c
    BY CommittedRows
  <2>3. \A e \in writes[t] : e.biz \notin Booked /\ \A f \in writes[t] : e.biz = f.biz => e = f
    BY DEF UInv, OwnNumbers
  <2>4. CASE i \in DOMAIN ledger[a] /\ ledger'[a][i] = ledger[a][i]
    <3>1. ledger'[a][i].biz \in Booked
      BY <1>4, <2>4
    <3>2. j \in DOMAIN ledger[c] /\ ledger'[c][j] = ledger[c][j]
      BY <1>5, <2>2, <2>3, <3>1
    <3>3. QED BY <1>5, <2>4, <3>2 DEF UInv, BookedOnce
  <2>5. CASE i = Len(ledger[a]) + 1 /\ ledger'[a][i] \in writes[t] /\ ledger'[a][i].account = a
    <3>1. ledger'[a][i].biz \notin Booked
      BY <2>3, <2>5
    <3>2. ~(j \in DOMAIN ledger[c] /\ ledger'[c][j] = ledger[c][j])
      BY <1>4, <1>5, <3>1
    <3>3. QED BY <1>5, <2>2, <2>3, <2>5, <3>2
  <2>6. QED BY <2>1, <2>4, <2>5
<1>6. QED BY <1>3, <1>5 DEF UInv, BookedOnce

LEMMA StepKeepsNumbers ==
  ASSUME IInv, UInv, [Next]_vars
  PROVE  UInv'
<1>1. CASE UNCHANGED vars
  BY <1>1, FewerWrites DEF vars
<1>2. ASSUME NEW t \in Transactions, NEW calls \in Callers,
             Begin(t, calls)
      PROVE  UInv'
  BY <1>2, FewerWrites DEF Begin, LockAccount, TryNext, Skip
<1>3. ASSUME NEW t \in Transactions, LockAccount(t) \/ TryNext(t) \/ Skip(t)
      PROVE  UInv'
  BY <1>3, FewerWrites DEF LockAccount, TryNext, Skip
<1>4. ASSUME NEW t \in Transactions, Rollback(t)  PROVE UInv'
  <2>1. UNCHANGED ledger /\ \A u \in Transactions : writes'[u] \subseteq writes[u]
    BY <1>4 DEF Rollback, RolledBack, Closed, IInv, TypeOK
  <2>2. QED BY <2>1, FewerWrites
<1>5. QED BY <1>1, <1>2, <1>3, <1>4, WriteKeepsNumbers, CommitKeepsNumbers DEF Next, Callers

LEMMA NumbersInitially == Init => UInv
BY DEF Init, UInv, BookedOnce, OwnNumbers

(* However callers overlap, wait, repeat or fail, a biz_no has one row in    *)
(* the whole ledger: no grant and no consumption is ever booked twice        *)
(* (RcAssetService::grantOnce, consumeOnce).                                 *)
THEOREM NumbersAreBookedOnce == Spec => []BookedOnce
<1>1. UInv => BookedOnce
  BY DEF UInv
<1>2. IInv /\ UInv /\ [Next]_vars => UInv'
  BY StepKeepsNumbers
<1>3. QED BY Inductive, NumbersInitially, <1>1, <1>2, PTL DEF Spec

-----------------------------------------------------------------------------
(* The refinement of AssetBook.  What a transaction has written belongs to  *)
(* its calls, and what a consumption has passed over still cannot pay, since *)
(* its row or its gap is locked.                                            *)
IsOf(e, call, delta) == e.account = call.account /\ e.biz = call.biz /\ e.delta = delta

Refused(t, j) ==
  /\ Holds(t, plan[t][j].account)
  /\ balance[plan[t][j].account] < plan[t][j].quantity

GrantWritten(t) ==
  plan[t] \in Grants =>
    \A e \in writes[t] : \E i \in DOMAIN plan[t] : IsOf(e, plan[t][i], plan[t][i].quantity)

ConsumptionWritten(t) ==
  plan[t] \in Consumptions =>
    \/ writes[t] = {} /\ (Running(t) => \A j \in DOMAIN plan[t] : j < at[t] => Refused(t, j))
    \/ \E i \in DOMAIN plan[t], e \in Entry :
         /\ writes[t] = {e}
         /\ IsOf(e, plan[t][i], -plan[t][i].quantity)
         /\ \A j \in DOMAIN plan[t] : j < i => Refused(t, j)

Backed(t) == GrantWritten(t) /\ ConsumptionWritten(t)

RInv == \A t \in Transactions : Backed(t)

(* A transaction that goes no further stays backed while nobody changes the *)
(* balance of what it holds.                                                *)
LEMMA StaysBacked ==
  ASSUME IInv, NEW t \in Transactions, Backed(t),
         plan'[t] = plan[t], at'[t] = at[t], writes'[t] = writes[t],
         locks[t] \subseteq locks'[t], gaps[t] \subseteq gaps'[t],
         \A a \in Accounts : Holds(t, a) => balance'[a] = balance[a]
  PROVE  Backed(t)'
<1>1. ASSUME NEW j \in DOMAIN plan[t], plan[t] \in Consumptions, Refused(t, j)
      PROVE  Refused(t, j)'
  <2>1. plan[t][j] \in Call
    BY <1>1, CallsAreWellFormed
  <2>2. plan[t][j].account \in Accounts
    BY <2>1 DEF Call
  <2>3. QED BY <1>1, <2>2 DEF Refused, Holds
<1>2. Running(t)' <=> Running(t)
  BY DEF Running
<1>3. ConsumptionWritten(t)'
  BY <1>1, <1>2 DEF Backed, ConsumptionWritten
<1>4. GrantWritten(t)'
  BY DEF Backed, GrantWritten
<1>5. QED BY <1>3, <1>4 DEF Backed

(* A transaction that closes. *)
LEMMA ClosedIsBacked ==
  ASSUME IInv, RInv, NEW t \in Transactions, Closed(t),
         \A u \in Transactions : u # t =>
           \A a \in Accounts : Holds(u, a) => balance'[a] = balance[a]
  PROVE  \A u \in Transactions : Backed(u)'
<1>1. /\ plan'[t] = None
      /\ \A u \in Transactions : u # t =>
           /\ plan'[u] = plan[u] /\ at'[u] = at[u] /\ writes'[u] = writes[u]
           /\ locks'[u] = locks[u] /\ gaps'[u] = gaps[u]
  BY DEF Closed, IInv, TypeOK
<1>2. Backed(t)'
  BY <1>1, CallsAreWellFormed DEF Backed, GrantWritten, ConsumptionWritten
<1>3. ASSUME NEW u \in Transactions, u # t  PROVE Backed(u)'
  BY <1>1, <1>3, StaysBacked DEF RInv
<1>4. QED BY <1>2, <1>3

LEMMA CommitKeepsBacked ==
  ASSUME IInv, RInv, NEW t \in Transactions, Commit(t)
  PROVE  RInv'
<1>1. ASSUME NEW u \in Transactions, u # t, NEW a \in Accounts, Holds(u, a)
      PROVE  balance'[a] = balance[a]
  <2>1. a \notin locks[t]
    BY <1>1 DEF Holds, IInv, Locking
  <2>2. QED BY <2>1, CommittedAccount
<1>2. \A u \in Transactions : Backed(u)'
  BY <1>1, ClosedIsBacked DEF Commit
<1>3. QED BY <1>2 DEF RInv

LEMMA RollbackKeepsBacked ==
  ASSUME IInv, RInv, NEW t \in Transactions, Rollback(t)
  PROVE  RInv'
<1>1. UNCHANGED <<balance, ledger>> /\ Closed(t)
  BY DEF Rollback, RolledBack
<1>2. \A u \in Transactions : Backed(u)'
  BY <1>1, ClosedIsBacked
<1>3. QED BY <1>2 DEF RInv

(* The steps that end nothing: only their own transaction has to be looked  *)
(* at.                                                                      *)
LEMMA OpenStepKeepsBacked ==
  ASSUME IInv, RInv, NEW t \in Transactions, UNCHANGED <<balance, ledger>>,
         \A u \in Transactions : u # t =>
           /\ plan'[u] = plan[u] /\ at'[u] = at[u] /\ writes'[u] = writes[u]
           /\ locks'[u] = locks[u] /\ gaps'[u] = gaps[u],
         Backed(t)'
  PROVE  RInv'
<1>1. ASSUME NEW u \in Transactions, u # t  PROVE Backed(u)'
  BY <1>1, StaysBacked DEF RInv
<1>2. QED BY <1>1 DEF RInv

LEMMA BeginKeepsBacked ==
  ASSUME IInv, RInv, NEW t \in Transactions, NEW calls \in Callers, Begin(t, calls)
  PROVE  RInv'
<1>1. /\ UNCHANGED <<balance, ledger, locks, gaps, writes>> /\ writes[t] = {}
      /\ plan'[t] = calls /\ at'[t] = 1
      /\ \A u \in Transactions : u # t => plan'[u] = plan[u] /\ at'[u] = at[u]
  BY DEF Begin, IInv, TypeOK, Writing
<1>2. \A j \in DOMAIN calls : ~(j < 1)
  BY CallsAreWellFormed DEF Callers
<1>3. Backed(t)'
  BY <1>1, <1>2 DEF Backed, GrantWritten, ConsumptionWritten
<1>4. QED BY <1>1, <1>3, OpenStepKeepsBacked

LEMMA LockAccountKeepsBacked ==
  ASSUME IInv, RInv, NEW t \in Transactions, LockAccount(t)
  PROVE  RInv'
<1>1. /\ UNCHANGED <<balance, ledger, plan, at, writes>>
      /\ \A u \in Transactions : /\ locks[u] \subseteq locks'[u] /\ gaps[u] \subseteq gaps'[u]
                                 /\ u # t => locks'[u] = locks[u] /\ gaps'[u] = gaps[u]
  BY DEF LockAccount, IInv, TypeOK
<1>2. Backed(t)'
  BY <1>1, StaysBacked DEF RInv
<1>3. QED BY <1>1, <1>2, OpenStepKeepsBacked

LEMMA GrantKeepsBacked ==
  ASSUME IInv, RInv, NEW t \in Transactions, Grant(t)
  PROVE  RInv'
<1> DEFINE call == Current(t)
           e == [account |-> call.account, biz |-> call.biz, delta |-> call.quantity,
                 balance_after |-> balance[call.account] + call.quantity]
<1>1. /\ Running(t) /\ plan[t] \in Grants /\ plan[t] \notin Consumptions
      /\ UNCHANGED <<balance, ledger, plan, gaps>> /\ Insertable(t, call.biz)
      /\ writes' = [writes EXCEPT ![t] = writes[t] \cup {e}]
  BY CallsAreWellFormed DEF Grant, Granting, Written
<1>2. plan[t] \in Seq(Call) /\ at[t] \in 1 .. Len(plan[t]) /\ call = plan[t][at[t]]
  BY <1>1, CurrentCall
<1>3. at[t] \in DOMAIN plan[t] /\ IsOf(e, plan[t][at[t]], plan[t][at[t]].quantity) /\ e.biz = call.biz
  BY <1>2 DEF IsOf
<1> HIDE DEF e
<1>4. writes'[t] = writes[t] \cup {e} /\ GrantWritten(t)
  BY <1>1 DEF IInv, TypeOK, RInv, Backed
<1>5. Backed(t)'
  BY <1>1, <1>3, <1>4 DEF Backed, GrantWritten, ConsumptionWritten
<1>6. \A u \in Transactions : u # t =>
        locks'[u] = locks[u] /\ at'[u] = at[u] /\ writes'[u] = writes[u]
  BY DEF Grant, IInv, TypeOK
<1>7. QED BY <1>1, <1>5, <1>6, OpenStepKeepsBacked

LEMMA ConsumeKeepsBacked ==
  ASSUME IInv, RInv, NEW t \in Transactions, Consume(t)
  PROVE  RInv'
<1> DEFINE call == Current(t)
           e == [account |-> call.account, biz |-> call.biz, delta |-> -call.quantity,
                 balance_after |-> balance[call.account] + (-call.quantity)]
<1>1. /\ Running(t) /\ plan[t] \in Consumptions /\ plan[t] \notin Grants
      /\ UNCHANGED <<balance, ledger, plan, locks, gaps>> /\ Insertable(t, call.biz)
      /\ writes' = [writes EXCEPT ![t] = writes[t] \cup {e}]
  BY CallsAreWellFormed DEF Consume, Consuming, Written
<1>2. /\ plan[t] \in Seq(Call) /\ at[t] \in 1 .. Len(plan[t]) /\ call = plan[t][at[t]]
      /\ call.account \in Accounts /\ call.biz \in BizNos /\ call.quantity \in Nat
  BY <1>1, CurrentCall
<1>3. at[t] \in DOMAIN plan[t] /\ IsOf(e, plan[t][at[t]], -plan[t][at[t]].quantity) /\ e.biz = call.biz
  BY <1>2 DEF IsOf
<1>4. e \in Entry
  BY <1>2 DEF Entry, IInv, TypeOK
<1> HIDE DEF e
<1>5. writes[t] = {}
  <2>1. ~(at[t] > Len(plan[t]))
    BY <1>2
  <2>2. QED BY <1>1, <2>1 DEF IInv, Writing
<1>6. writes'[t] = {e}
  BY <1>1, <1>5 DEF IInv, TypeOK
<1>7. \A j \in DOMAIN plan[t] : j < at[t] => Refused(t, j)
  BY <1>1, <1>5 DEF RInv, Backed, ConsumptionWritten
<1>8. \A j \in DOMAIN plan[t] : Refused(t, j)' <=> Refused(t, j)
  BY <1>1 DEF Refused, Holds
<1>9. Backed(t)'
  BY <1>1, <1>3, <1>4, <1>6, <1>7, <1>8 DEF Backed, GrantWritten, ConsumptionWritten
<1>10. \A u \in Transactions : u # t => at'[u] = at[u] /\ writes'[u] = writes[u]
  BY DEF Consume, IInv, TypeOK
<1>11. QED BY <1>1, <1>9, <1>10, OpenStepKeepsBacked

(* A missing account has nothing to pay with. *)
LEMMA MissingIsEmpty ==
  ASSUME IInv, NEW a \in Accounts, ~Opened(a)
  PROVE  balance[a] = 0
BY DEF IInv, LedgerExplainsBalance, Opened

LEMMA TryNextKeepsBacked ==
  ASSUME IInv, RInv, NEW t \in Transactions, TryNext(t)
  PROVE  RInv'
<1>1. /\ Running(t) /\ plan[t] \in Consumptions /\ plan[t] \notin Grants
      /\ UNCHANGED <<balance, ledger, plan, locks, gaps, writes>>
      /\ Holds(t, Current(t).account) /\ ~Sufficient(t)
      /\ at' = [at EXCEPT ![t] = at[t] + 1]
  BY CallsAreWellFormed DEF TryNext, Consuming, KeptLocks, IInv, TypeOK
<1>2. /\ plan[t] \in Seq(Call) /\ at[t] \in 1 .. Len(plan[t]) /\ Current(t) = plan[t][at[t]]
      /\ Current(t).account \in Accounts /\ Current(t).quantity \in Nat \ {0}
  BY <1>1, CurrentCall
<1>3. balance[Current(t).account] < Current(t).quantity
  <2>1. balance[Current(t).account] \in Int
    BY <1>2 DEF IInv, TypeOK
  <2>2. CASE ~Opened(Current(t).account)
    BY <1>2, <2>2, MissingIsEmpty
  <2>3. CASE Opened(Current(t).account)
    BY <1>1, <1>2, <2>1, <2>3 DEF Sufficient
  <2>4. QED BY <2>2, <2>3
<1>4. Refused(t, at[t])
  BY <1>1, <1>2, <1>3 DEF Refused
<1>5. writes[t] = {}
  <2>1. ~(at[t] > Len(plan[t]))
    BY <1>2
  <2>2. QED BY <1>1, <2>1 DEF IInv, Writing
<1>6. ASSUME NEW j \in DOMAIN plan[t], j < at[t] + 1  PROVE Refused(t, j)'
  <2>1. Refused(t, j)
    <3>1. CASE j = at[t]
      BY <1>4, <3>1
    <3>2. CASE j # at[t]
      <4>1. j < at[t]
        BY <1>2, <1>6, <3>2
      <4>2. QED BY <1>1, <1>5, <4>1 DEF RInv, Backed, ConsumptionWritten
    <3>3. QED BY <3>1, <3>2
  <2>2. QED BY <1>1, <2>1 DEF Refused, Holds
<1>7. at'[t] = at[t] + 1 /\ \A u \in Transactions : u # t => at'[u] = at[u]
  BY <1>1 DEF IInv, TypeOK
<1>8. Backed(t)'
  BY <1>1, <1>5, <1>6, <1>7 DEF Backed, GrantWritten, ConsumptionWritten
<1>9. QED BY <1>1, <1>7, <1>8, OpenStepKeepsBacked

LEMMA SkipKeepsBacked ==
  ASSUME IInv, RInv, NEW t \in Transactions, Skip(t)
  PROVE  RInv'
<1>1. /\ Running(t) /\ UNCHANGED <<balance, ledger, plan, locks, gaps, writes>>
      /\ \A u \in Transactions : u # t => at'[u] = at[u]
  BY DEF Skip, IInv, TypeOK
<1>2. plan[t] \in Seq(Call) /\ at[t] \in 1 .. Len(plan[t])
  BY <1>1, CurrentCall
<1>3. CASE plan[t] \in Grants
  <2>1. plan[t] \notin Consumptions
    BY <1>3, CallsAreWellFormed
  <2>2. Backed(t)'
    BY <1>1, <1>3, <2>1 DEF RInv, Backed, GrantWritten, ConsumptionWritten
  <2>3. QED BY <1>1, <2>2, OpenStepKeepsBacked
<1>4. CASE plan[t] \notin Grants
  <2>1. at'[t] = Len(plan[t]) + 1
    BY <1>4 DEF Skip, Granting, IInv, TypeOK
  <2>2. ~Running(t)' /\ writes[t] = {}
    BY <1>1, <1>2, <1>4, <2>1, CurrentCall DEF Running, IInv, Writing, Callers
  <2>3. Backed(t)'
    BY <1>1, <1>4, <2>2 DEF Backed, GrantWritten, ConsumptionWritten
  <2>4. QED BY <1>1, <2>3, OpenStepKeepsBacked
<1>5. QED BY <1>3, <1>4

LEMMA StepKeepsBacked ==
  ASSUME IInv, RInv, [Next]_vars
  PROVE  RInv'
<1>1. CASE UNCHANGED vars
  <2>1. ASSUME NEW t \in Transactions  PROVE Backed(t)'
    BY <1>1, StaysBacked DEF vars, RInv
  <2>2. QED BY <2>1 DEF RInv
<1>2. CASE Next
  BY <1>2, BeginKeepsBacked, LockAccountKeepsBacked, GrantKeepsBacked, ConsumeKeepsBacked,
     TryNextKeepsBacked, SkipKeepsBacked, CommitKeepsBacked, RollbackKeepsBacked DEF Next, Callers
<1>3. QED BY <1>1, <1>2

LEMMA CommittedBalance ==
  ASSUME IInv, NEW t \in Transactions, Commit(t), NEW a \in Accounts
  PROVE  \/ WriteTo(t, a) = {} /\ balance'[a] = balance[a]
         \/ \E e \in writes[t] : e.account = a /\ balance'[a] = balance[a] + e.delta
<1>1. CASE WriteTo(t, a) = {}
  BY <1>1 DEF Commit, Applied
<1>2. CASE WriteTo(t, a) # {}
  <2> DEFINE e == CHOOSE f \in WriteTo(t, a) : TRUE
  <2>1. e \in WriteTo(t, a)
    BY <1>2
  <2>2. balance'[a] = e.balance_after
    BY <1>2 DEF Commit, Applied
  <2> HIDE DEF e
  <2>3. e \in writes[t] /\ e.account = a
    BY <2>1 DEF WriteTo
  <2>4. e.balance_after = balance[a] + e.delta
    BY <2>3 DEF IInv, Writing, Written1
  <2>5. QED BY <2>2, <2>3, <2>4
<1>3. QED BY <1>1, <1>2

LEMMA GrantsImplement ==
  ASSUME IInv, BInv, UInv, RInv, NEW t \in Transactions, Commit(t), plan[t] \in Grants
  PROVE  Book!GrantAll(plan[t])
<1> DEFINE calls == plan[t]
<1>1. /\ calls \in Seq(Call) /\ at[t] \in Nat /\ at[t] > Len(calls)
      /\ \A i \in DOMAIN calls : calls[i] \in Call /\ i < at[t]
  <2>1. calls \in Seq(Call) /\ at[t] \in Nat /\ at[t] > Len(calls)
    BY CallsAreWellFormed DEF Commit, IInv, TypeOK
  <2>2. \A i \in DOMAIN calls : i \in Nat /\ i <= Len(calls) /\ calls[i] \in Call
    BY <2>1
  <2>3. QED BY <2>1, <2>2
<1>2. \A i, j \in DOMAIN calls :
        i # j => calls[i].account # calls[j].account /\ calls[i].biz # calls[j].biz
  BY CallsAreWellFormed
<1>3. \A i \in DOMAIN calls : calls[i].biz \in Booked \cup Numbers(t)
  BY <1>1 DEF BInv, Viewed, Passed
<1>4. \A e \in writes[t] :
        /\ e.biz \notin Booked
        /\ \E i \in DOMAIN calls : IsOf(e, calls[i], calls[i].quantity)
  BY DEF UInv, OwnNumbers, RInv, Backed, GrantWritten
<1>5. Booked' = Booked \cup {calls[i].biz : i \in DOMAIN calls}
  <2>1. Booked' = Booked \cup Numbers(t)
    BY CommitBooks
  <2>2. \A b \in Numbers(t) : b \in {calls[i].biz : i \in DOMAIN calls}
    BY <1>4 DEF Numbers, IsOf
  <2>3. QED BY <1>3, <2>1, <2>2
<1> HIDE DEF calls
<1>6. ASSUME NEW a \in Accounts
      PROVE  balance'[a] = IF Book!Added(calls, a) = {} THEN balance[a]
                           ELSE balance[a] + calls[CHOOSE i \in Book!Added(calls, a) : TRUE].quantity
  <2>1. CASE WriteTo(t, a) = {} /\ balance'[a] = balance[a]
    <3>1. ASSUME NEW i \in DOMAIN calls, calls[i].account = a, calls[i].biz \notin Booked
          PROVE  FALSE
      <4>1. PICK e \in writes[t] : e.biz = calls[i].biz
        BY <1>3, <3>1 DEF Numbers
      <4>2. e.account = a
        BY <1>2, <1>4, <3>1, <4>1 DEF IsOf
      <4>3. QED BY <2>1, <4>1, <4>2 DEF WriteTo
    <3>2. Book!Added(calls, a) = {}
      BY <3>1 DEF Book!Added
    <3>3. QED BY <2>1, <3>2
  <2>2. ASSUME NEW e \in writes[t], e.account = a, balance'[a] = balance[a] + e.delta
        PROVE  <1>6!2
    <3>1. PICK i \in DOMAIN calls : IsOf(e, calls[i], calls[i].quantity)
      BY <1>4
    <3>2. Book!Added(calls, a) = {i}
      BY <1>2, <1>4, <2>2, <3>1 DEF Book!Added, IsOf
    <3>3. balance'[a] = balance[a] + calls[i].quantity
      BY <2>2, <3>1 DEF IsOf
    <3>4. QED BY <3>2, <3>3
  <2>3. QED BY <2>1, <2>2, CommittedBalance
<1>7. balance' = [a \in Accounts |-> balance'[a]]
  BY DEF Commit, Applied
<1>8. balance' = [a \in Accounts |->
         IF Book!Added(calls, a) = {} THEN balance[a]
         ELSE balance[a] + calls[CHOOSE i \in Book!Added(calls, a) : TRUE].quantity]
  BY <1>6, <1>7
<1>9. QED BY <1>5, <1>8 DEF Book!GrantAll, calls

LEMMA ConsumptionsImplement ==
  ASSUME IInv, UInv, RInv, NEW t \in Transactions, Commit(t), plan[t] \in Consumptions
  PROVE  Book!ConsumeFirst(plan[t]) \/ UNCHANGED <<balance, Booked>>
<1> DEFINE calls == plan[t]
<1>1. balance' = [a \in Accounts |-> balance'[a]] /\ balance \in [Accounts -> Int]
  BY DEF Commit, Applied, IInv, TypeOK
<1>2. CASE writes[t] = {}
  <2>1. Booked' = Booked
    BY <1>2, CommitBooks DEF Numbers
  <2>2. \A a \in Accounts : balance'[a] = balance[a]
    BY <1>2, CommittedBalance
  <2>3. QED BY <1>1, <2>1, <2>2
<1>3. CASE writes[t] # {}
  <2>1. PICK i \in DOMAIN calls, e \in Entry :
          /\ writes[t] = {e}
          /\ IsOf(e, calls[i], -calls[i].quantity)
          /\ \A j \in DOMAIN calls : j < i => Refused(t, j)
    BY <1>3 DEF RInv, Backed, ConsumptionWritten
  <2>2. /\ calls \in Seq(Call)
        /\ \A j \in DOMAIN calls : calls[j].account \in Accounts /\ calls[j].quantity \in Nat
    <3>1. calls \in Seq(Call)
      BY CallsAreWellFormed
    <3>2. \A j \in DOMAIN calls : calls[j] \in Call
      BY <3>1
    <3>3. QED BY <3>1, <3>2 DEF Call
  <2>3. calls[i].biz \notin Booked /\ Booked' = Booked \cup {calls[i].biz}
    BY <2>1, CommitBooks DEF UInv, OwnNumbers, Numbers, IsOf
  <2>4. Book!CanPay(calls[i])
    <3>1. Written1(t, e)
      BY <2>1 DEF IInv, Writing
    <3>2. balance[calls[i].account] + (-calls[i].quantity) >= 0
      BY <2>1, <3>1 DEF Written1, IsOf
    <3>3. QED BY <1>1, <2>2, <3>2 DEF Book!CanPay
  <2>5. \A j \in DOMAIN calls : j < i => ~Book!CanPay(calls[j])
    BY <1>1, <2>1, <2>2 DEF Refused, Book!CanPay
  <2>6. balance' = [balance EXCEPT ![calls[i].account] = @ - calls[i].quantity]
    <3>1. ASSUME NEW a \in Accounts
          PROVE  balance'[a] = IF a = calls[i].account THEN balance[a] - calls[i].quantity
                               ELSE balance[a]
      <4>1. CASE a = calls[i].account
        <5>1. e \in WriteTo(t, a)
          BY <2>1, <4>1 DEF WriteTo, IsOf
        <5>2. balance'[a] = balance[a] + (-calls[i].quantity)
          BY <2>1, <5>1, CommittedBalance DEF IsOf
        <5>3. QED BY <1>1, <2>2, <4>1, <5>2
      <4>2. CASE a # calls[i].account
        BY <2>1, <4>2, CommittedBalance DEF IsOf
      <4>3. QED BY <4>1, <4>2
    <3>2. QED BY <1>1, <2>2, <3>1
  <2>7. QED BY <2>3, <2>4, <2>5, <2>6 DEF Book!ConsumeFirst
<1>4. QED BY <1>2, <1>3

(* A transaction does at its commit what AssetBook allows, and nothing      *)
(* before: locks, views, waits, retries and failures are invisible to the   *)
(* callers of grantOnce and consumeOnce.                                    *)
THEOREM LedgerImplementsBook == Spec => ImplementsBook
<1>1. ASSUME Init  PROVE Book!BookInit /\ \A t \in Transactions : Backed(t)
  <2>1. Booked = {}
    BY <1>1 DEF Init, Booked
  <2>2. QED
    BY <1>1, <2>1, CallsAreWellFormed
    DEF Init, Book!BookInit, Backed, GrantWritten, ConsumptionWritten
<1>2. ASSUME IInv, BInv, UInv, RInv, [Next]_vars
      PROVE  [Book!BookNext]_Book!bookVars
  <2>1. ASSUME NEW t \in Transactions, Commit(t)
        PROVE  [Book!BookNext]_Book!bookVars
    <3>1. plan[t] \in Callers
      BY <1>2, <2>1 DEF Commit, IInv, Writing
    <3>2. CASE plan[t] \in Grants
      BY <1>2, <2>1, <3>2, GrantsImplement DEF Book!BookNext
    <3>3. CASE plan[t] \in Consumptions
      BY <1>2, <2>1, <3>3, ConsumptionsImplement DEF Book!BookNext, Book!bookVars
    <3>4. QED BY <3>1, <3>2, <3>3 DEF Callers
  <2>2. CASE UNCHANGED <<balance, ledger>>
    BY <2>2, SameBooked DEF Book!bookVars
  <2>3. QED
    BY <1>2, <2>1, <2>2
    DEF Next, vars, Begin, LockAccount, Grant, Consume, TryNext, Skip, Rollback, RolledBack
<1>3. IInv /\ BInv /\ UInv /\ RInv /\ [Next]_vars => (IInv /\ BInv /\ UInv /\ RInv)'
  BY StepKeeps, StepKeepsBatches, StepKeepsNumbers, StepKeepsBacked
<1>4. Init => Book!BookInit /\ RInv
  BY <1>1 DEF RInv
<1>5. IInv /\ BInv /\ UInv /\ RInv /\ [Next]_vars => [Book!BookNext]_Book!bookVars
  BY <1>2
<1>6. QED
  BY InitHolds, BatchesInitially, NumbersInitially, <1>3, <1>4, <1>5, PTL DEF Spec, ImplementsBook, Book!BookSpec
=============================================================================
