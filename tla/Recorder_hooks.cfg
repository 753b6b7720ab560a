SPECIFICATION FairSpec
CONSTANTS
  Tasks = {"Tmr Svc", "CAN1", "CLI", "TzCtrl"}
  Prio <- MCPrio
  Loggers = {"CAN1"}
  Shell = "CLI"
  TzCtrl = "TzCtrl"
  Timer = "Tmr Svc"
  MaxStops = 2
INVARIANTS
  TypeOK
  CheckedPrintsSucceed
  NestingIsBounded
PROPERTIES
  RedStaysLit
  HookReachesHalt
CHECK_DEADLOCK FALSE
