SPECIFICATION Spec
CONSTANTS
  BusFrames <- ExtendedBus
  DoWork0Id = 1
  NoId = 0
  DoWork0Length = 8
  FifoDepth = 2
  FrameBytes = 8
  PrefixBytes = 4
  RxMsgbufSize = 24
  WorkQueueLength = 1
  WorkPeriod = 2
  MaxBusFrames = 3
INVARIANTS
  Worker0FrameIsStandard
\* The bus falls silent after MaxBusFrames, and a failed assertion halts.
CHECK_DEADLOCK FALSE
