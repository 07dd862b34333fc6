------------------------------ MODULE AssetBook ------------------------------
(***************************************************************************)
(* What RcAssetService promises its callers, without rows, locks and        *)
(* transactions: a batch of grants is booked as a whole, leaving out what   *)
(* was booked before; a consumption is booked once, on the first of its     *)
(* alternatives that can pay for it; nothing else changes a balance.        *)
(***************************************************************************)
EXTENDS Integers, Sequences

CONSTANTS
  Accounts,      \* (owner, asset code) pairs
  Grants,        \* the batches callers grant: sequences of calls
  Consumptions   \* what callers consume: sequences of alternative calls

VARIABLES
  balance,   \* what each account can still pay for
  booked     \* the numbers (biz_no) of what was granted or consumed

bookVars == <<balance, booked>>

Added(calls, a) == {i \in DOMAIN calls : calls[i].account = a /\ calls[i].biz \notin booked}

BookInit ==
  /\ balance = [a \in Accounts |-> 0]
  /\ booked = {}

(* The accounts of a batch are distinct, so at most one call adds to each. *)
GrantAll(calls) ==
  /\ balance' = [a \in Accounts |->
       IF Added(calls, a) = {} THEN balance[a]
       ELSE balance[a] + calls[CHOOSE i \in Added(calls, a) : TRUE].quantity]
  /\ booked' = booked \cup {calls[i].biz : i \in DOMAIN calls}

CanPay(call) == balance[call.account] >= call.quantity

ConsumeFirst(calls) ==
  \E i \in DOMAIN calls :
    /\ calls[i].biz \notin booked
    /\ CanPay(calls[i])
    /\ \A j \in DOMAIN calls : j < i => ~CanPay(calls[j])
    /\ balance' = [balance EXCEPT ![calls[i].account] = @ - calls[i].quantity]
    /\ booked' = booked \cup {calls[i].biz}

BookNext ==
  \/ \E calls \in Grants : GrantAll(calls)
  \/ \E calls \in Consumptions : ConsumeFirst(calls)

BookSpec == BookInit /\ [][BookNext]_bookVars
=============================================================================
