\* A twelve-digit INN with correct check digits cannot be monitored.
SPECIFICATION Spec

CONSTANT
  Stems <- MCStems

INVARIANT
  SupportedIsMonitored

CHECK_DEADLOCK FALSE
