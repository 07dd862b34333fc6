---------------------------- MODULE MCAssetLedger ----------------------------
(* Small instances of AssetLedger for TLC: the accounts of one company. *)
EXTENDS AssetLedger, TLC

CONSTANTS full, campus, general, approval1, approval2, order1, order2, gift, job1, job2, job3

On(a, q, b) == [account |-> a, quantity |-> q, biz |-> b]

(* The approval benefit; an order whose snapshot lists the same assets the   *)
(* other way round; an asset given by an administrator.                      *)
MCGrants ==
  {<<On(general, 2, approval1), On(campus, 1, approval2)>>,
   <<On(campus, 1, order1), On(general, 1, order2)>>,
   <<On(full, 1, gift)>>}

(* The first publications of two campus jobs and of a full-time job. *)
MCConsumptions ==
  {<<On(campus, 1, job1), On(general, 1, job1)>>,
   <<On(campus, 1, job2), On(general, 1, job2)>>,
   <<On(full, 1, job3), On(general, 1, job3)>>}

=============================================================================
