SPECIFICATION MCSpec
CONSTANTS
  Mailboxes = {0, 1, 2}
  SeqnumModulus = 3
  MaxDue = 1
  MaxHeartbeats = 4
INVARIANTS
  NoSilentGap
  FlagsOnBusStay
