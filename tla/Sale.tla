-------------------------------- MODULE Sale --------------------------------
(***************************************************************************)
(* What the order subsystem promises a payer, with neither requests,        *)
(* payment transactions nor notifications: a product is on offer to a payer *)
(* through one order at a time, an offer lapses or is settled, and an order *)
(* delivers exactly what was bought in the very step that settles it.       *)
(***************************************************************************)
EXTENDS Naturals

CONSTANTS Orders, Products, Assets, Entitlements, None

VARIABLES
  phase,      \* absent, open, lapsed or paid
  product,    \* what each order is for
  delivered   \* how often each asset of an order was granted

saleVars == <<phase, product, delivered>>

SaleInit ==
  /\ phase = [o \in Orders |-> "absent"]
  /\ product = [o \in Orders |-> None]
  /\ delivered = [o \in Orders |-> [a \in Assets |-> 0]]

OpenFor(k) == {o \in Orders : phase[o] = "open" /\ product[o] = k}

Delivery(k) == [a \in Assets |-> IF a \in Entitlements[k] THEN 1 ELSE 0]

(* A new order takes the place of every open one for its product. *)
Offer(o, k) ==
  /\ phase[o] = "absent"
  /\ phase' = [x \in Orders |-> IF x = o THEN "open"
                                ELSE IF x \in OpenFor(k) THEN "lapsed" ELSE phase[x]]
  /\ product' = [product EXCEPT ![o] = k]
  /\ UNCHANGED delivered

LapseAll(S) ==
  /\ S # {}
  /\ \A o \in S : phase[o] = "open"
  /\ phase' = [o \in Orders |-> IF o \in S THEN "lapsed" ELSE phase[o]]
  /\ UNCHANGED <<product, delivered>>

(* Payment may arrive after the offer lapsed. *)
Settle(o) ==
  /\ phase[o] \in {"open", "lapsed"}
  /\ phase' = [phase EXCEPT ![o] = "paid"]
  /\ delivered' = [delivered EXCEPT ![o] = Delivery(product[o])]
  /\ UNCHANGED product

Give(o, k) ==
  /\ phase[o] = "absent"
  /\ phase' = [phase EXCEPT ![o] = "paid"]
  /\ product' = [product EXCEPT ![o] = k]
  /\ delivered' = [delivered EXCEPT ![o] = Delivery(k)]

SaleNext ==
  \/ \E o \in Orders, k \in Products : Offer(o, k) \/ Give(o, k)
  \/ \E S \in SUBSET Orders : LapseAll(S)
  \/ \E o \in Orders : Settle(o)

SaleSpec == SaleInit /\ [][SaleNext]_saleVars
=============================================================================
