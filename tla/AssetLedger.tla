----------------------------- MODULE AssetLedger -----------------------------
(***************************************************************************)
(* RcAssetService::grantOnce and consumeOnce as they run: inside the        *)
(* database transaction of their caller, one statement at a time, on InnoDB *)
(* at REPEATABLE READ.                                                      *)
(*                                                                         *)
(* A caller is a transaction with a list of calls: a batch of grants (the   *)
(* payment notification, a product or asset given by an administrator, the  *)
(* approval of a company) or one consumption with alternatives (publishing  *)
(* a job) or without (refreshing a resume).  Its plain reads see the        *)
(* database as it was at its first one; its locking reads see what is       *)
(* committed.  What it writes is seen by nobody until it commits.           *)
(***************************************************************************)
EXTENDS Integers, Sequences

CONSTANTS
  Accounts,      \* (owner, asset code) pairs: the unique key of rc_asset_accounts
  BizNos,        \* biz_no values
  Grants,        \* the batches of grants
  Consumptions,  \* the consumptions, each a sequence of alternatives
  Transactions,  \* database transactions that may be open at the same time
  None           \* no list of calls

Call == [account : Accounts, quantity : Nat \ {0}, biz : BizNos]

(* Grants of a batch are grouped by asset code; alternatives have one biz_no. *)
ASSUME CallsAreWellFormed ==
  /\ Grants \cup Consumptions \subseteq Seq(Call)
  /\ <<>> \notin Grants \cup Consumptions
  /\ \A c \in Grants : \A i, j \in DOMAIN c :
       i # j => c[i].account # c[j].account /\ c[i].biz # c[j].biz
  /\ \A c \in Consumptions : \A i, j \in DOMAIN c :
       /\ c[i].biz = c[j].biz
       /\ i # j => c[i].account # c[j].account
  /\ Grants \cap Consumptions = {}
  /\ None \notin Grants \cup Consumptions

(* A biz_no carries the key of its order, product, approval or publication. *)
ASSUME BatchesAreDisjoint ==
  \A c \in Grants, d \in Grants \cup Consumptions : c # d =>
    \A i \in DOMAIN c, j \in DOMAIN d : c[i].biz # d[j].biz

VARIABLES
  balance,   \* rc_asset_accounts.balance, committed
  ledger,    \* rc_asset_ledgers of each account, committed, by id
  plan,      \* the calls of each open transaction
  at,        \* the call it is at, 0 when the transaction is not open
  view,      \* the biz_no its plain reads see
  locks,     \* the account rows it has locked or inserted
  gaps,      \* the missing account rows it has tried to lock
  writes     \* its uncommitted ledger rows, each with its account's new balance

vars == <<balance, ledger, plan, at, view, locks, gaps, writes>>

-----------------------------------------------------------------------------
Entry == [account : Accounts, biz : BizNos, delta : Int, balance_after : Int]

TypeOK ==
  /\ balance \in [Accounts -> Int]
  /\ ledger \in [Accounts -> Seq(Entry)]
  /\ plan \in [Transactions -> Grants \cup Consumptions \cup {None}]
  /\ at \in [Transactions -> Nat]
  /\ view \in [Transactions -> SUBSET BizNos]
  /\ locks \in [Transactions -> SUBSET Accounts]
  /\ gaps \in [Transactions -> SUBSET Accounts]
  /\ writes \in [Transactions -> SUBSET Entry]

Init ==
  /\ balance = [a \in Accounts |-> 0]
  /\ ledger = [a \in Accounts |-> <<>>]
  /\ plan = [t \in Transactions |-> None]
  /\ at = [t \in Transactions |-> 0]
  /\ view = [t \in Transactions |-> {}]
  /\ locks = [t \in Transactions |-> {}]
  /\ gaps = [t \in Transactions |-> {}]
  /\ writes = [t \in Transactions |-> {}]

(* An account row is inserted together with its first ledger row. *)
Opened(a) == ledger[a] # <<>>

Booked == {b \in BizNos : \E a \in Accounts : \E i \in DOMAIN ledger[a] : ledger[a][i].biz = b}

Current(t) == plan[t][at[t]]

Running(t) == at[t] # 0 /\ at[t] <= Len(plan[t])

Granting(t) == Running(t) /\ plan[t] \in Grants

Consuming(t) == Running(t) /\ plan[t] \in Consumptions

Holds(t, a) == a \in locks[t] \cup gaps[t]

Others(t) == Transactions \ {t}

-----------------------------------------------------------------------------
(* A caller opens its transaction and, before it locks an account, reads     *)
(* something: order items, asset definitions, the ledger.                    *)
Begin(t, calls) ==
  /\ at[t] = 0
  /\ plan' = [plan EXCEPT ![t] = calls]
  /\ at' = [at EXCEPT ![t] = 1]
  /\ view' = [view EXCEPT ![t] = Booked]
  /\ UNCHANGED <<balance, ledger, locks, gaps, writes>>

(* lockForUpdate()->first(): waits for whoever has locked or inserted the   *)
(* row; a row that is missing leaves a lock on its gap, which others may    *)
(* hold too.                                                                *)
(* Mutant of Lockable: the row is read without lockForUpdate. *)
LockableByAll(t, a) == TRUE

Lockable(t, a) == \A u \in Others(t) : a \notin locks[u]

LockAccount(t) ==
  LET a == Current(t).account IN
  /\ Running(t)
  /\ plan[t] \in Grants => Current(t).biz \notin view[t]
  /\ ~Holds(t, a)
  /\ Lockable(t, a)
  /\ IF Opened(a)
     THEN locks' = [locks EXCEPT ![t] = locks[t] \cup {a}] /\ UNCHANGED gaps
     ELSE gaps' = [gaps EXCEPT ![t] = gaps[t] \cup {a}] /\ UNCHANGED locks
  /\ UNCHANGED <<balance, ledger, plan, at, view, writes>>

(* The unique index on biz_no: a committed duplicate is an error, one that   *)
(* is not committed yet is waited for.                                       *)
Insertable(t, b) ==
  /\ b \notin Booked
  /\ \A u \in Others(t) : \A e \in writes[u] : e.biz # b

(* Mutant of Written: the row is booked under the code of its account. *)
WrittenUnderAccount(t, delta) ==
  LET call == Current(t) IN
  writes[t] \cup {[account |-> call.account, biz |-> call.account, delta |-> delta,
                   balance_after |-> balance[call.account] + delta]}

Written(t, delta) ==
  LET call == Current(t) IN
  writes[t] \cup {[account |-> call.account, biz |-> call.biz, delta |-> delta,
                   balance_after |-> balance[call.account] + delta]}

(* grantOnce after its lock: a missing account is inserted, which waits for  *)
(* every other lock on its gap.                                              *)
Grant(t) ==
  LET a == Current(t).account IN
  /\ Granting(t)
  /\ Current(t).biz \notin view[t]
  /\ Holds(t, a)
  /\ a \in gaps[t] => \A u \in Others(t) : a \notin gaps[u]
  /\ Insertable(t, Current(t).biz)
  /\ writes' = [writes EXCEPT ![t] = Written(t, Current(t).quantity)]
  /\ locks' = [locks EXCEPT ![t] = locks[t] \cup {a}]
  /\ at' = [at EXCEPT ![t] = at[t] + 1]
  /\ UNCHANGED <<balance, ledger, plan, view, gaps>>

(* Mutant of Sufficient: any balance will do. *)
SufficientIfOpened(t) == Opened(Current(t).account)

(* The account of the current alternative exists and can pay for it. *)
Sufficient(t) ==
  /\ Opened(Current(t).account)
  /\ balance[Current(t).account] >= Current(t).quantity

(* consumeOnce after its lock; no further alternative is tried. *)
Consume(t) ==
  /\ Consuming(t)
  /\ Holds(t, Current(t).account)
  /\ Current(t).biz \notin view[t]
  /\ Sufficient(t)
  /\ Insertable(t, Current(t).biz)
  /\ writes' = [writes EXCEPT ![t] = Written(t, -Current(t).quantity)]
  /\ at' = [at EXCEPT ![t] = Len(plan[t]) + 1]
  /\ UNCHANGED <<balance, ledger, plan, view, locks, gaps>>

(* Mutant of KeptLocks: the savepoint releases the lock. *)
ReleasedLocks(t) == locks[t] \ {Current(t).account}

(* InsufficientBalanceException with an alternative left: the nested         *)
(* transaction is rolled back to its savepoint, which keeps its locks.       *)
KeptLocks(t) == locks[t]

TryNext(t) ==
  /\ Consuming(t)
  /\ at[t] < Len(plan[t])
  /\ Holds(t, Current(t).account)
  /\ Current(t).biz \notin view[t]
  /\ ~Sufficient(t)
  /\ at' = [at EXCEPT ![t] = at[t] + 1]
  /\ locks' = [locks EXCEPT ![t] = KeptLocks(t)]
  /\ UNCHANGED <<balance, ledger, plan, view, gaps, writes>>

(* The biz_no was booked before: the call returns false. *)
Skip(t) ==
  /\ Running(t)
  /\ Current(t).biz \in view[t]
  /\ \/ Granting(t) /\ at' = [at EXCEPT ![t] = at[t] + 1]
     \/ /\ Consuming(t) /\ Holds(t, Current(t).account)
        /\ at' = [at EXCEPT ![t] = Len(plan[t]) + 1]
  /\ UNCHANGED <<balance, ledger, plan, view, locks, gaps, writes>>

-----------------------------------------------------------------------------
Closed(t) ==
  /\ plan' = [plan EXCEPT ![t] = None]
  /\ at' = [at EXCEPT ![t] = 0]
  /\ view' = [view EXCEPT ![t] = {}]
  /\ locks' = [locks EXCEPT ![t] = {}]
  /\ gaps' = [gaps EXCEPT ![t] = {}]
  /\ writes' = [writes EXCEPT ![t] = {}]

WriteTo(t, a) == {e \in writes[t] : e.account = a}

(* What a transaction that commits writes: absolute balances and the rows    *)
(* that explain them.                                                        *)
Applied(t) ==
  /\ balance' = [a \in Accounts |->
       IF WriteTo(t, a) = {} THEN balance[a]
       ELSE (CHOOSE e \in WriteTo(t, a) : TRUE).balance_after]
  /\ ledger' = [a \in Accounts |->
       IF WriteTo(t, a) = {} THEN ledger[a]
       ELSE Append(ledger[a], CHOOSE e \in WriteTo(t, a) : TRUE)]

Commit(t) ==
  /\ at[t] # 0 /\ at[t] > Len(plan[t])
  /\ Applied(t)
  /\ Closed(t)

(* Mutant of RolledBack: every call commits on its own. *)
RolledBackInPart(t) == Applied(t)

(* What a transaction that fails leaves behind. *)
RolledBack(t) == UNCHANGED <<balance, ledger>>

(* It fails: the last alternative is insufficient, a biz_no is a duplicate   *)
(* its view did not show, it is the victim of a deadlock, waited too long    *)
(* for a lock, or its worker died.                                           *)
Rollback(t) ==
  /\ at[t] # 0
  /\ RolledBack(t)
  /\ Closed(t)

Next ==
  \E t \in Transactions :
    \/ \E calls \in Grants \cup Consumptions : Begin(t, calls)
    \/ LockAccount(t)
    \/ Grant(t)
    \/ Consume(t)
    \/ TryNext(t)
    \/ Skip(t)
    \/ Commit(t)
    \/ Rollback(t)

Spec == Init /\ [][Next]_vars

-----------------------------------------------------------------------------
(* Every change of a balance has its ledger row: each row carries the        *)
(* balance the previous one left, and the last one the balance of the        *)
(* account, so no update is lost between transactions.                       *)
LedgerExplainsBalance ==
  \A a \in Accounts :
    LET rows == ledger[a]
        before(i) == IF i = 1 THEN 0 ELSE rows[i - 1].balance_after
    IN  /\ \A i \in DOMAIN rows : rows[i].balance_after = before(i) + rows[i].delta
        /\ balance[a] = before(Len(rows) + 1)

(* Nothing is consumed that was not granted. *)
NeverOverdrawn ==
  \A a \in Accounts :
    /\ balance[a] >= 0
    /\ \A i \in DOMAIN ledger[a] : ledger[a][i].balance_after >= 0

(* The grants of one order, product or approval are booked together or not   *)
(* at all, whatever other transactions book or how they fail.                *)
BatchesAreWhole ==
  \A calls \in Grants : \A i, j \in DOMAIN calls :
    calls[i].biz \in Booked => calls[j].biz \in Booked

Book == INSTANCE AssetBook WITH booked <- Booked

(* A transaction does at its commit what AssetBook allows, or nothing.       *)
ImplementsBook == Book!BookSpec
=============================================================================
