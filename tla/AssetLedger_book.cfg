\* Three accounts, three batches, three consumptions, two open transactions.
CONSTANTS
  full = full
  campus = campus
  general = general
  approval1 = approval1
  approval2 = approval2
  order1 = order1
  order2 = order2
  gift = gift
  job1 = job1
  job2 = job2
  job3 = job3
  Accounts = {full, campus, general}
  BizNos = {approval1, approval2, order1, order2, gift, job1, job2, job3}
  Grants <- MCGrants
  Consumptions <- MCConsumptions
  Transactions = {t1, t2}
  None = None
SPECIFICATION Spec
INVARIANTS
  TypeOK
  LedgerExplainsBalance
  NeverOverdrawn
  BatchesAreWhole
PROPERTIES
  ImplementsBook
