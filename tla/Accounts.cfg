SPECIFICATION Spec
CONSTANTS
  Slots = {s1, s2}
  Links = {l1, l2}
  RecoveryCodes = {c1}
  MaxTokens = 3
  MaxStep = 2
  MaxSecret = 2
  Offers <- MCOffers
  None = None
SYMMETRY Symmetry
INVARIANT OneLiveToken
INVARIANT ResetLogsOutEverywhere
INVARIANT SingleUse
INVARIANT EnforcedSecretIsProven
CHECK_DEADLOCK FALSE
