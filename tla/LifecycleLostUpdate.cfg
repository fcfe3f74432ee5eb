SPECIFICATION Spec
CONSTANTS
  Txns = {t1, t2}
  v1 = v1
  v2 = v2
  Values = {v1, v2}
  InitialValue = v1
  Absent = Absent
  Asks <- SerialAsks
  NoTxn = NoTxn
  MaxOpen = 2
PROPERTY NoLostUpdate
CHECK_DEADLOCK FALSE
