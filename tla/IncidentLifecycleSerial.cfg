SPECIFICATION Spec
CONSTANTS
  Txns = {t1, t2, t3, t4}
  v1 = v1
  v2 = v2
  Values = {v1, v2}
  InitialValue = v1
  Absent = Absent
  Asks <- SerialAsks
  NoTxn = NoTxn
  MaxOpen = 1
SYMMETRY Symmetry
INVARIANT VersionCountsMutations
INVARIANT TimelineTellsFields
PROPERTY OnlyLegalPaths
PROPERTY NoLostUpdate
CHECK_DEADLOCK FALSE
