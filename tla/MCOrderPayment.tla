--------------------------- MODULE MCOrderPayment ---------------------------
(* Small instances of OrderPayment for TLC. *)
EXTENDS OrderPayment

CONSTANTS card, ghost, refresh, missing, app, h5, ali, wechat, alipay

(* Two products: one that can be granted, one whose snapshot names an asset *)
(* without a definition.                                                    *)
MCEntitlements == [k \in Products |-> IF k = card THEN {refresh} ELSE {refresh, missing}]

MCChannelOf == [m \in Methods |-> IF m = ali THEN alipay ELSE wechat]

=============================================================================
