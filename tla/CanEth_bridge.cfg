SPECIFICATION FairSpec
CONSTANTS
  QueueLength = 3
  MaxCount = 2
  SeqnumModulus = 3
  Buffers = {b1, b2}
  NoBuffer = NoBuffer
  MaxArrivals = 5
INVARIANTS
  TypeOK
  WakeFindsFrame
  BufferHasRoom
  FullQueueHasWakeup
  BufferOwnership
  NoSilentLoss
PROPERTIES
  SeqnumGapIsReported
  BacklogNeverShrinks
  ImplementsFrameForwarder
  BufferedFramesLeave
  FullQueueDrains
