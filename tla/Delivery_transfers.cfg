CONSTANTS
  Client = {c1, c2}
  Transfer = {1, 2}
  NoTransfer = NoTransfer
  MaxGen = 2
SYMMETRY Interchangeable
SPECIFICATION Spec
INVARIANTS DeliveryTypeOK PartsAgree NeverOvercounted
PROPERTY SweepSparesTransfers
CHECK_DEADLOCK FALSE
