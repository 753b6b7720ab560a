SPECIFICATION Spec
CONSTANTS
  BusFrames <- MCBusFrames
  DoWork0Id = 1
  NoId = 0
  DoWork0Length = 8
  FifoDepth = 2
  FrameBytes = 8
  PrefixBytes = 4
  RxMsgbufSize = 24
  WorkQueueLength = 1
  WorkPeriod = 2
  MaxBusFrames = 2
  QueueLength = 2
  MaxCount = 2
  SeqnumModulus = 2
  Buffers = {b1}
  NoBuffer = NoBuffer
INVARIANTS
  QueueServedWhenIdle
