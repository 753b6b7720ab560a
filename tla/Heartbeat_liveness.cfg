SPECIFICATION FairSpec
CONSTANTS
  Mailboxes = {0, 1}
  SeqnumModulus = 2
  MaxDue = 1
INVARIANTS
  FlagsAreFresh
PROPERTIES
  FlagIsReported
