\* The views of one day over the three that follow: a nightly and a manual sync
\* that may overlap, while the keys live and when they expire.
CONSTANTS
  Jobs = {j1}
  Batches = {b1, b2}
  KeyTtlDays = 2
  Tries = 2
  MaxDay = 4
  ViewDays = {1}
  MaxViews = 2
  MaxManual = 1
SPECIFICATION FairSpec
\* The calendar ends.
CHECK_DEADLOCK FALSE
INVARIANTS
  TypeOK
  RowsWithinCounts
  ShownWithinCounts
PROPERTIES
  ArchiveSurvivesExpiry
  ArchivedOrReported
