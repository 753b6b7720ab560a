---------------------------- MODULE GatewayProofs ----------------------------
(***************************************************************************)
(* Theorems about Gateway, for every bus, every size and every number of   *)
(* frames.  The whole is shown to implement each of its two parts, so that *)
(* what is proved of a part holds in the whole; the properties of the      *)
(* whole path then follow from those of the parts and from what ties the   *)
(* frames of the one to the frames of the other.                           *)
(***************************************************************************)
EXTENDS Gateway, SharedLemmas, SequenceTheorems, TLAPS

\* What is proved of the parts, with the constants and variables of Gateway
Can1Facts == INSTANCE Can1Proofs
CanEthFacts == INSTANCE CanEthProofs WITH MaxArrivals <- MaxBusFrames

\* Can1 of Gateway and the Can1 the facts are about are one and the same.
LEMMA SameCan1 ==
  /\ Can1Facts!Spec <=> Can1!Spec
  /\ Can1Facts!TypeOK <=> Can1!TypeOK
  /\ Can1Facts!NoSilentLoss <=> Can1!NoSilentLoss
  /\ Can1Facts!ForwardedAsOnBus <=> Can1!ForwardedAsOnBus
  /\ Can1Facts!WorkersGetTheirFrames <=> Can1!WorkersGetTheirFrames
  /\ Can1Facts!AssertsHold <=> Can1!AssertsHold
BY DEF Can1!Spec, Can1Facts!Spec, Can1!Init, Can1Facts!Init, Can1!ZeroFrame,
       Can1Facts!ZeroFrame, Can1!vars, Can1Facts!vars, Can1!Next,
       Can1Facts!Next, Can1!Halt, Can1Facts!Halt, Can1!FrameOnBus,
       Can1Facts!FrameOnBus, Can1!Can1PendingCb, Can1Facts!Can1PendingCb,
       Can1!Task, Can1Facts!Task, Can1!Worker0Takes, Can1Facts!Worker0Takes,
       Can1!Worker1Takes, Can1Facts!Worker1Takes, Can1!Receive,
       Can1Facts!Receive, Can1!Forward, Can1Facts!Forward, Can1!Dispatch,
       Can1Facts!Dispatch, Can1!Skip, Can1Facts!Skip, Can1!DoWork0,
       Can1Facts!DoWork0, Can1!DoWork0Asserts, Can1Facts!DoWork0Asserts,
       Can1!UnpackAsserts, Can1Facts!UnpackAsserts, Can1!DoWork1,
       Can1Facts!DoWork1, Can1!Stored, Can1Facts!Stored, Can1!HalRxMessage,
       Can1Facts!HalRxMessage, Can1!MsgbufHasRoom, Can1Facts!MsgbufHasRoom,
       Can1!CanEthFrame, Can1Facts!CanEthFrame, Can1!IsDoWork0,
       Can1Facts!IsDoWork0, Can1!AssertFails, Can1Facts!AssertFails,
       Can1!Offered, Can1Facts!Offered, Can1!WorkFrameIsStandard,
       Can1Facts!WorkFrameIsStandard, Can1!UnpackFails, Can1Facts!UnpackFails,
       Can1!IsWorker1Turn, Can1Facts!IsWorker1Turn, Can1!isr_vars,
       Can1Facts!isr_vars, Can1!task_vars, Can1Facts!task_vars,
       Can1!work_vars, Can1Facts!work_vars, Can1!halt_vars,
       Can1Facts!halt_vars, Can1!bus_vars, Can1Facts!bus_vars, Can1!TypeOK,
       Can1Facts!TypeOK, Can1!Frame, Can1Facts!Frame, Can1!Ids, Can1Facts!Ids,
       Can1!AssertionTexts, Can1Facts!AssertionTexts, Can1!NoSilentLoss,
       Can1Facts!NoSilentLoss, Can1!ForwardedAsOnBus,
       Can1Facts!ForwardedAsOnBus, Can1!Pipeline, Can1Facts!Pipeline,
       Can1!Serials, Can1Facts!Serials, Can1!WorkersGetTheirFrames,
       Can1Facts!WorkersGetTheirFrames, Can1!AssertsHold,
       Can1Facts!AssertsHold, Can1!FollowsDbc, Can1Facts!FollowsDbc

\* So are CanEth of Gateway and that of its facts.
LEMMA SameCanEth ==
  /\ CanEthFacts!Spec <=> CanEth!Spec
  /\ CanEthFacts!TypeOK <=> CanEth!TypeOK
  /\ CanEthFacts!WakeFindsFrame <=> CanEth!WakeFindsFrame
  /\ CanEthFacts!BufferHasRoom <=> CanEth!BufferHasRoom
  /\ CanEthFacts!FullQueueHasWakeup <=> CanEth!FullQueueHasWakeup
  /\ CanEthFacts!BufferOwnership <=> CanEth!BufferOwnership
  /\ CanEthFacts!NoSilentLoss <=> CanEth!NoSilentLoss
  /\ CanEthFacts!InOrder <=> CanEth!InOrder
  /\ CanEthFacts!DatagramCountInRange <=> CanEth!DatagramCountInRange
BY DEF CanEth!Spec, CanEthFacts!Spec, CanEth!Init, CanEthFacts!Init,
       CanEth!vars, CanEthFacts!vars, CanEth!Next, CanEthFacts!Next,
       CanEth!FrameArrives, CanEthFacts!FrameArrives, CanEth!EnqueueRxFrame,
       CanEthFacts!EnqueueRxFrame, CanEth!DropWhileDown,
       CanEthFacts!DropWhileDown, CanEth!QueueSend, CanEthFacts!QueueSend,
       CanEth!QueueSent, CanEthFacts!QueueSent, CanEth!QueueSendFails,
       CanEthFacts!QueueSendFails, CanEth!NotifyCanEth,
       CanEthFacts!NotifyCanEth, CanEth!Notified, CanEthFacts!Notified,
       CanEth!FlushTimerCb, CanEthFacts!FlushTimerCb, CanEth!Task,
       CanEthFacts!Task, CanEth!NetworkSeenUp, CanEthFacts!NetworkSeenUp,
       CanEth!GetUdpBuffer, CanEthFacts!GetUdpBuffer, CanEth!NotifyWait,
       CanEthFacts!NotifyWait, CanEth!ClearedOnExit,
       CanEthFacts!ClearedOnExit, CanEth!ReceiveFrame,
       CanEthFacts!ReceiveFrame, CanEth!KeepBuffering,
       CanEthFacts!KeepBuffering, CanEth!SendSucceeds,
       CanEthFacts!SendSucceeds, CanEth!SendFails, CanEthFacts!SendFails,
       CanEth!SendTo, CanEthFacts!SendTo, CanEth!MustSend,
       CanEthFacts!MustSend, CanEth!ReadyToSend, CanEthFacts!ReadyToSend,
       CanEth!NextSeqnum, CanEthFacts!NextSeqnum, CanEth!FramesAfterSend,
       CanEthFacts!FramesAfterSend, CanEth!IpStack, CanEthFacts!IpStack,
       CanEth!NetworkChanges, CanEthFacts!NetworkChanges, CanEth!StackTakes,
       CanEthFacts!StackTakes, CanEth!StackReleases,
       CanEthFacts!StackReleases, CanEth!Bits, CanEthFacts!Bits,
       CanEth!producer_vars, CanEthFacts!producer_vars, CanEth!task_vars,
       CanEthFacts!task_vars, CanEth!stack_vars, CanEthFacts!stack_vars,
       CanEth!sent_vars, CanEthFacts!sent_vars, CanEth!TypeOK,
       CanEthFacts!TypeOK, CanEth!Frames, CanEthFacts!Frames, CanEth!Wakeups,
       CanEthFacts!Wakeups, CanEth!WakeFindsFrame, CanEthFacts!WakeFindsFrame,
       CanEth!BufferHasRoom, CanEthFacts!BufferHasRoom,
       CanEth!FullQueueHasWakeup, CanEthFacts!FullQueueHasWakeup,
       CanEth!BufferOwnership, CanEthFacts!BufferOwnership,
       CanEth!NoSilentLoss, CanEthFacts!NoSilentLoss, CanEth!InOrder,
       CanEthFacts!InOrder, CanEth!Pipeline, CanEthFacts!Pipeline,
       CanEth!DatagramCountInRange, CanEthFacts!DatagramCountInRange

-----------------------------------------------------------------------------
(* The whole implements its parts.                                         *)

\* A task that is about to forward a frame has failed no assertion.
TaskRuns == can1_pc = "forward" => assert_failed = "none"

\* The steps of Gateway that leave Can1 alone
BesideCan1 == \/ ReturnToCan1 \/ CanEthTaskStep \/ TimerStep \/ IpStackStep
              \/ UNCHANGED vars

LEMMA BesideCan1Step == BesideCan1 => UNCHANGED can1_vars
BY DEF BesideCan1, ReturnToCan1, CanEthTaskStep, TimerStep, IpStackStep, vars

LEMMA TaskRunsStep == TaskRuns /\ [Next]_vars => TaskRuns'
<1> SUFFICES ASSUME TaskRuns, [Next]_vars PROVE TaskRuns'
  OBVIOUS
<1>1. CASE BesideCan1
  BY <1>1, BesideCan1Step DEF TaskRuns, can1_vars
<1>2. CASE ForwardToCanEth
  BY <1>2 DEF TaskRuns, ForwardToCanEth, Can1!Forward
<1>3. CASE Can1TaskStep
  BY <1>3 DEF TaskRuns, Can1TaskStep, Can1!Receive, Can1!Dispatch, Can1!Skip,
     Can1!DoWork0, Can1!DoWork0Asserts, Can1!UnpackAsserts, Can1!DoWork1,
     Can1!AssertFails, Can1!halt_vars, Can1!task_vars
<1>4. CASE Can1EnvStep
  BY <1>4 DEF TaskRuns, Can1EnvStep, Can1!Halt, Can1!FrameOnBus,
     Can1!Can1PendingCb, Can1!Worker0Takes, Can1!Worker1Takes,
     Can1!halt_vars, Can1!task_vars
<1> QED
  BY <1>1, <1>2, <1>3, <1>4 DEF Next, BesideCan1

\* Every step of the whole is one of Can1 or leaves Can1 alone.
LEMMA Can1Step == TaskRuns /\ [Next]_vars => [Can1!Next]_(Can1!vars)
<1> SUFFICES ASSUME TaskRuns, [Next]_vars PROVE [Can1!Next]_(Can1!vars)
  OBVIOUS
<1>1. CASE BesideCan1
  BY <1>1, BesideCan1Step DEF can1_vars, Can1!vars, Can1!isr_vars,
     Can1!task_vars, Can1!work_vars, Can1!halt_vars, Can1!bus_vars
<1>2. CASE ~halted /\ ForwardToCanEth
  <2>1. can1_pc = "forward" /\ Can1!Forward
    BY <1>2 DEF ForwardToCanEth, Can1!Forward
  <2>2. Can1!Task
    BY <2>1 DEF TaskRuns, Can1!Task
  <2> QED
    BY <1>2, <2>2 DEF Can1!Next
<1>3. CASE ~halted /\ Can1TaskStep
  BY <1>3 DEF Can1TaskStep, Can1!Next, Can1!Task
<1>4. CASE ~halted /\ Can1EnvStep
  BY <1>4 DEF Can1EnvStep, Can1!Next
<1> QED
  BY <1>1, <1>2, <1>3, <1>4 DEF Next, BesideCan1

\* Every step of the whole is one of CanEth or leaves CanEth alone.
LEMMA CanEthStep == [Next]_vars => [CanEth!Next]_(CanEth!vars)
<1>1. CASE UNCHANGED caneth_vars
  BY <1>1 DEF caneth_vars, CanEth!vars, CanEth!producer_vars, CanEth!task_vars,
     CanEth!stack_vars, CanEth!sent_vars
<1>2. CASE \/ CanEth!FrameArrives \/ CanEth!NotifyCanEth \/ CanEth!Task
           \/ CanEth!FlushTimerCb \/ CanEth!IpStack
  BY <1>2 DEF CanEth!Next
<1> QED
  BY <1>1, <1>2 DEF Next, ForwardToCanEth, ReturnToCan1, Can1TaskStep,
     Can1EnvStep, CanEthTaskStep, TimerStep, IpStackStep, vars

\* Projected on the variables of Can1, the whole behaves as Can1: the wait for
\* the bridge and the priorities only take behaviours away.
THEOREM ImplementsCan1 == Spec => Can1!Spec
<1>1. Init => Can1!Init /\ TaskRuns
  BY DEF Init, Can1!Init, TaskRuns
<1> QED
  BY <1>1, TaskRunsStep, Can1Step, PTL DEF Spec, Can1!Spec

\* Projected on the variables of CanEth, the whole behaves as CanEth.
THEOREM ImplementsCanEth == Spec => CanEth!Spec
<1>1. Init => CanEth!Init
  BY DEF Init
<1> QED
  BY <1>1, CanEthStep, PTL DEF Spec, CanEth!Spec

\* The frames that reach the workers are theirs and no assertion fails on a bus
\* that follows the dbc, with the bridge in between as well.
THEOREM Can1Holds ==
  Spec => [](/\ Can1!TypeOK
             /\ Can1!NoSilentLoss
             /\ Can1!ForwardedAsOnBus
             /\ Can1!WorkersGetTheirFrames
             /\ Can1!AssertsHold)
<1>1. Can1Facts!BusFramesAssumption /\ Can1Facts!SizesAssumption
  BY PartsAssumption
<1>2. Can1Facts!Spec => /\ []Can1Facts!TypeOK
                        /\ []Can1Facts!NoSilentLoss
                        /\ []Can1Facts!ForwardedAsOnBus
                        /\ []Can1Facts!WorkersGetTheirFrames
                        /\ []Can1Facts!AssertsHold
  BY <1>1, Can1Facts!TypeCorrect, Can1Facts!LossesAreReported,
     Can1Facts!ForwardedInOrder, Can1Facts!WorkIsOnlyWork,
     Can1Facts!DbcFailsNoAssertion
<1> QED
  BY <1>2, ImplementsCan1, SameCan1, PTL

\* What is proved of the bridge holds with the CAN1 task as its one caller.
THEOREM CanEthHolds ==
  Spec => [](/\ CanEth!TypeOK
             /\ CanEth!WakeFindsFrame
             /\ CanEth!BufferHasRoom
             /\ CanEth!FullQueueHasWakeup
             /\ CanEth!BufferOwnership
             /\ CanEth!NoSilentLoss
             /\ CanEth!InOrder
             /\ CanEth!DatagramCountInRange)
<1>1. /\ CanEthFacts!QueueLengthAssumption /\ CanEthFacts!MaxCountAssumption
      /\ CanEthFacts!SeqnumModulusAssumption /\ CanEthFacts!BuffersAssumption
      /\ CanEthFacts!MaxArrivalsAssumption
  BY PartsAssumption
<1>2. CanEthFacts!Spec => /\ []CanEthFacts!TypeOK
                          /\ []CanEthFacts!WakeFindsFrame
                          /\ []CanEthFacts!BufferHasRoom
                          /\ []CanEthFacts!FullQueueHasWakeup
                          /\ []CanEthFacts!BufferOwnership
                          /\ []CanEthFacts!NoSilentLoss
                          /\ []CanEthFacts!InOrder
                          /\ []CanEthFacts!DatagramCountInRange
  BY <1>1, CanEthFacts!TypeCorrect, CanEthFacts!EveryWakeHasAFrame,
     CanEthFacts!ReceiveHasRoom, CanEthFacts!FullQueueNeverWedges,
     CanEthFacts!BuffersAreOwned, CanEthFacts!LossesAreReported,
     CanEthFacts!OrderIsKept, CanEthFacts!DatagramsInRange
<1> QED
  BY <1>2, ImplementsCanEth, SameCanEth, PTL

\* And so is the line the two implement.
LEMMA SameForwarder ==
  CanEthFacts!ImplementsFrameForwarder <=> CanEth!ImplementsFrameForwarder
BY DEF CanEth!ImplementsFrameForwarder, CanEthFacts!ImplementsFrameForwarder,
       CanEth!Bridge!Spec, CanEthFacts!Bridge!Spec, CanEth!Bridge!Init,
       CanEthFacts!Bridge!Init, CanEth!Bridge!Next, CanEthFacts!Bridge!Next,
       CanEth!Bridge!Accept, CanEthFacts!Bridge!Accept, CanEth!Bridge!Refuse,
       CanEthFacts!Bridge!Refuse, CanEth!Bridge!Leave, CanEthFacts!Bridge!Leave,
       CanEth!Bridge!Deliver, CanEthFacts!Bridge!Deliver, CanEth!Bridge!Lose,
       CanEthFacts!Bridge!Lose, CanEth!Bridge!vars, CanEthFacts!Bridge!vars,
       CanEth!Frames, CanEthFacts!Frames

\* The whole implements the lossy first-in first-out line of FrameForwarder:
\* what the bridge promises survives its composition with reception.
THEOREM GatewayForwards == Spec => CanEth!ImplementsFrameForwarder
<1>1. /\ CanEthFacts!QueueLengthAssumption /\ CanEthFacts!MaxCountAssumption
      /\ CanEthFacts!SeqnumModulusAssumption /\ CanEthFacts!BuffersAssumption
      /\ CanEthFacts!MaxArrivalsAssumption
  BY PartsAssumption
<1>2. CanEthFacts!Spec => CanEthFacts!ImplementsFrameForwarder
  BY <1>1, CanEthFacts!BridgeRefinement
<1> QED
  BY <1>2, ImplementsCanEth, SameCanEth, SameForwarder, PTL

\* What the two say of steps is one and the same, too.
LEMMA SameSteps ==
  /\ CanEthFacts!SeqnumGapIsReported <=> CanEth!SeqnumGapIsReported
  /\ CanEthFacts!BacklogNeverShrinks <=> CanEth!BacklogNeverShrinks
  /\ CanEthFacts!BacklogIsBounded <=> CanEth!BacklogIsBounded
BY DEF CanEth!SeqnumGapIsReported, CanEthFacts!SeqnumGapIsReported,
       CanEth!BacklogNeverShrinks, CanEthFacts!BacklogNeverShrinks,
       CanEth!BacklogIsBounded, CanEthFacts!BacklogIsBounded,
       CanEth!Backlog, CanEthFacts!Backlog,
       CanEth!Wakeups, CanEthFacts!Wakeups,
       CanEth!vars, CanEthFacts!vars,
       CanEth!producer_vars, CanEthFacts!producer_vars,
       CanEth!task_vars, CanEthFacts!task_vars,
       CanEth!stack_vars, CanEthFacts!stack_vars,
       CanEth!sent_vars, CanEthFacts!sent_vars

\* With the CAN1 task as the producer, too, the receiver of the datagrams
\* misses a number only after a reported loss.
THEOREM GatewayGapsAreReported == Spec => CanEth!SeqnumGapIsReported
<1>1. /\ CanEthFacts!QueueLengthAssumption /\ CanEthFacts!MaxCountAssumption
      /\ CanEthFacts!SeqnumModulusAssumption /\ CanEthFacts!BuffersAssumption
      /\ CanEthFacts!MaxArrivalsAssumption
  BY PartsAssumption
<1>2. CanEthFacts!Spec => CanEthFacts!SeqnumGapIsReported
  BY <1>1, CanEthFacts!GapsAreReported
<1> QED
  BY <1>2, ImplementsCanEth, SameCanEth, SameSteps, PTL

\* The priorities of the whole do not help: frames whose notifications
\* coalesced stay behind here as well, up to one less than the queue has
\* places (the run gateway_recency shows how the first does).
THEOREM GatewayBacklogStays ==
  Spec => CanEth!BacklogNeverShrinks /\ []CanEth!BacklogIsBounded
<1>1. /\ CanEthFacts!QueueLengthAssumption /\ CanEthFacts!MaxCountAssumption
      /\ CanEthFacts!SeqnumModulusAssumption /\ CanEthFacts!BuffersAssumption
      /\ CanEthFacts!MaxArrivalsAssumption
  BY PartsAssumption
<1>2. CanEthFacts!Spec =>
        CanEthFacts!BacklogNeverShrinks /\ []CanEthFacts!BacklogIsBounded
  BY <1>1, CanEthFacts!BacklogStays
<1> QED
  BY <1>2, ImplementsCanEth, SameCanEth, SameSteps, PTL

-----------------------------------------------------------------------------
(* What ties the frames of CanEth to those of Can1                         *)

\* The arrivals at the bridge are the frames the CAN1 task forwarded, and if
\* the network was up for all of them they were offered one after the other.
ArrivalInv == /\ arrivals = Len(forwarded)
              /\ Len(offered) <= arrivals
              /\ Len(offered) = arrivals => offered = [i \in 1..arrivals |-> i]

\* The steps of Gateway that are no call of the bridge
NoCall == \/ ReturnToCan1 \/ Can1TaskStep \/ Can1EnvStep \/ CanEthTaskStep
          \/ TimerStep \/ IpStackStep \/ UNCHANGED vars

LEMMA NoCallStep == NoCall => UNCHANGED <<forwarded, arrivals, offered>>
<1>1. CASE ReturnToCan1 \/ TimerStep \/ IpStackStep \/ UNCHANGED vars
  BY <1>1 DEF ReturnToCan1, TimerStep, IpStackStep, vars, can1_vars,
     caneth_vars, CanEth!NotifyCanEth, CanEth!FlushTimerCb, CanEth!IpStack,
     CanEth!NetworkChanges, CanEth!StackTakes, CanEth!StackReleases,
     CanEth!producer_vars
<1>2. CASE CanEthTaskStep
  BY <1>2 DEF CanEthTaskStep, can1_vars, CanEth!Task, CanEth!NetworkSeenUp,
     CanEth!GetUdpBuffer, CanEth!NotifyWait, CanEth!ReceiveFrame,
     CanEth!KeepBuffering, CanEth!SendSucceeds, CanEth!SendFails,
     CanEth!SendTo, CanEth!producer_vars
<1>3. CASE Can1TaskStep
  BY <1>3 DEF Can1TaskStep, caneth_vars, Can1!Receive, Can1!Dispatch,
     Can1!Skip, Can1!DoWork0, Can1!DoWork0Asserts, Can1!UnpackAsserts,
     Can1!DoWork1, Can1!AssertFails
<1>4. CASE Can1EnvStep
  BY <1>4 DEF Can1EnvStep, caneth_vars, Can1!Halt, Can1!FrameOnBus,
     Can1!Can1PendingCb, Can1!Worker0Takes, Can1!Worker1Takes
<1> QED
  BY <1>1, <1>2, <1>3, <1>4 DEF NoCall

\* Counting on by one
LEMMA CountOn ==
  ASSUME NEW n \in Nat
  PROVE  Append([i \in 1..n |-> i], n + 1) = [i \in 1..(n + 1) |-> i]
OBVIOUS

LEMMA CallStep ==
  ASSUME Can1!TypeOK, CanEth!TypeOK, ArrivalInv, ForwardToCanEth
  PROVE  ArrivalInv'
<1>1. /\ Len(forwarded') = Len(forwarded) + 1
      /\ Len(forwarded) \in Nat
  <2>1. forwarded' = Append(forwarded, Can1!CanEthFrame(rx_frame))
    BY DEF ForwardToCanEth, Can1!Forward
  <2>2. PICK F : forwarded \in Seq(F)
    BY DEF Can1!TypeOK
  <2>3. forwarded \in Seq(F \union {Can1!CanEthFrame(rx_frame)})
    BY <2>2, SeqMonotonic
  <2> HIDE DEF Can1!CanEthFrame
  <2> QED
    BY <2>1, <2>3, AppendProperties, LenProperties
<1>2. arrivals' = arrivals + 1 /\ arrivals = Len(forwarded)
  BY DEF ForwardToCanEth, CanEth!FrameArrives, ArrivalInv
<1>3. offered \in Seq(Nat)
  <2>1. CanEth!Frames \subseteq Nat
    BY DEF CanEth!Frames
  <2> QED
    BY <2>1, SeqMonotonic DEF CanEth!TypeOK
<1>4. Len(offered) \in Nat
  BY <1>3, LenProperties
<1>5. CASE UNCHANGED offered
  BY <1>1, <1>2, <1>4, <1>5 DEF ArrivalInv
<1>6. CASE offered' = Append(offered, arrivals + 1)
  <2>1. Len(offered') = Len(offered) + 1
    BY <1>1, <1>2, <1>3, <1>6, AppendProperties
  <2>2. ASSUME Len(offered') = arrivals'
        PROVE  offered' = [i \in 1..arrivals' |-> i]
    <3>1. offered = [i \in 1..arrivals |-> i]
      BY <1>1, <1>2, <1>4, <2>1, <2>2 DEF ArrivalInv
    <3> QED
      BY <1>1, <1>2, <1>6, <3>1, CountOn
  <2> QED
    BY <1>1, <1>2, <1>4, <2>1, <2>2 DEF ArrivalInv
<1> QED
  BY <1>5, <1>6 DEF ForwardToCanEth, CanEth!FrameArrives,
     CanEth!EnqueueRxFrame, CanEth!DropWhileDown, CanEth!QueueSend,
     CanEth!QueueSendFails

LEMMA ArrivalInvariant == Spec => []ArrivalInv
<1>1. Init => ArrivalInv
  BY DEF Init, Can1!Init, CanEth!Init, ArrivalInv
<1>2. ASSUME Can1!TypeOK, CanEth!TypeOK, ArrivalInv, [Next]_vars
      PROVE  ArrivalInv'
  <2>1. CASE NoCall
    BY <1>2, <2>1, NoCallStep DEF ArrivalInv
  <2>2. CASE ForwardToCanEth
    BY <1>2, <2>2, CallStep
  <2> QED
    BY <1>2, <2>1, <2>2 DEF Next, NoCall
<1> QED
  BY <1>1, <1>2, Can1Holds, CanEthHolds, PTL DEF Spec

-----------------------------------------------------------------------------
(* The path                                                                *)

\* The part of the path that Can1 and the whole have in common
Ahead == (IF can1_pc = "forward" THEN <<rx_frame.serial>> ELSE <<>>)
         \o Can1!Serials(rx_msgbuf) \o rx_fifo

\* Every frame in the bridge is one that was forwarded.
BridgeInv == /\ CanEth!Pipeline \in Seq(Nat)
             /\ \A i \in 1..Len(CanEth!Pipeline) :
                  CanEth!Pipeline[i] \in 1..Len(forwarded)

LEMMA BridgeInvariant == Spec => []BridgeInv
<1>1. /\ CanEthFacts!QueueLengthAssumption /\ CanEthFacts!MaxCountAssumption
      /\ CanEthFacts!SeqnumModulusAssumption /\ CanEthFacts!BuffersAssumption
      /\ CanEthFacts!MaxArrivalsAssumption
  BY PartsAssumption
<1>2. CanEthFacts!Spec => []CanEthFacts!OrderInv
  BY <1>1, CanEthFacts!OrderInvariant
<1>3. ASSUME CanEthFacts!OrderInv, CanEth!TypeOK, ArrivalInv
      PROVE  BridgeInv
  <2>1. /\ delivered \in Seq(CanEth!Frames)
        /\ buffered_frames \in Seq(CanEth!Frames)
        /\ can_frame_queue \in Seq(CanEth!Frames)
    BY <1>3 DEF CanEth!TypeOK
  <2>2. CanEth!Pipeline \in Seq(CanEth!Frames)
    BY <2>1, ConcatProperties DEF CanEth!Pipeline
  <2>3. ASSUME NEW i \in 1..Len(CanEth!Pipeline)
        PROVE  CanEth!Pipeline[i] \in 1..Len(forwarded)
    <3>1. CanEth!Pipeline[i] \in CanEth!Frames
      BY <2>2, ElementOfSeq
    <3>2. CanEth!Pipeline[i] <= arrivals
      BY <1>3 DEF CanEthFacts!OrderInv, CanEthFacts!Pipeline, CanEth!Pipeline
    <3> QED
      BY <1>3, <3>1, <3>2 DEF CanEth!Frames, ArrivalInv
  <2>4. CanEth!Frames \subseteq Nat
    BY DEF CanEth!Frames
  <2> QED
    BY <2>2, <2>3, <2>4, SeqMonotonic DEF BridgeInv
<1> QED
  BY <1>2, <1>3, ArrivalInvariant, CanEthHolds, ImplementsCanEth, SameCanEth,
     PTL

\* What is on its way is what the bridge holds of the frames forwarded, then
\* what Can1 has still to forward.
LEMMA PathParts ==
  ASSUME Can1!TypeOK, BridgeInv
  PROVE  /\ Can1!Serials(forwarded) \in Seq(Nat) /\ Ahead \in Seq(Nat)
         /\ Bridged \in Seq(Nat)
         /\ Can1!Pipeline = Can1!Serials(forwarded) \o Ahead
         /\ Path = Bridged \o Ahead
         /\ Len(Can1!Serials(forwarded)) = Len(forwarded)
         /\ Len(Bridged) = Len(CanEth!Pipeline)
         /\ \A i \in 1..Len(CanEth!Pipeline) :
              Bridged[i] = Can1!Serials(forwarded)[CanEth!Pipeline[i]]
<1> DEFINE front == Can1!Serials(forwarded)
           hands == IF can1_pc = "forward" THEN <<rx_frame.serial>> ELSE <<>>
           buffer == Can1!Serials(rx_msgbuf)
           way == CanEth!Pipeline
<1>1. Can1Facts!BusFramesAssumption /\ Can1Facts!SizesAssumption
  BY PartsAssumption
<1>2. /\ front = Can1Facts!Serials(forwarded)
      /\ buffer = Can1Facts!Serials(rx_msgbuf)
      /\ hands = Can1Facts!InHands
  BY DEF Can1!Serials, Can1Facts!Serials, Can1Facts!InHands
<1>3. /\ front \in Seq(Nat) /\ hands \in Seq(Nat) /\ buffer \in Seq(Nat)
      /\ rx_fifo \in Seq(Nat)
  BY <1>1, <1>2, Can1Facts!Parts, SameCan1
<1>4. /\ Len(front) = Len(forwarded)
      /\ \A i \in 1..Len(forwarded) :
           front[i] = forwarded[i].serial /\ front[i] \in Nat
  <2>1. /\ DOMAIN front = 1..Len(front) /\ DOMAIN front = 1..Len(forwarded)
        /\ Len(front) \in Nat /\ Len(forwarded) \in Nat
    BY <1>3, LenProperties DEF Can1!Serials, Can1!TypeOK
  <2>2. Len(front) = Len(forwarded)
    BY <2>1
  <2>3. \A i \in 1..Len(front) : front[i] \in Nat
    BY <1>3, ElementOfSeq
  <2> QED
    BY <2>2, <2>3 DEF Can1!Serials
<1>5. way \in Seq(Nat) /\ \A i \in 1..Len(way) : way[i] \in 1..Len(forwarded)
  BY DEF BridgeInv
<1> HIDE DEF front, hands, buffer, way
<1>6. /\ Bridged \in Seq(Nat) /\ Len(Bridged) = Len(way)
      /\ \A i \in 1..Len(way) : Bridged[i] = front[way[i]]
  <2>1. Len(way) \in Nat
    BY <1>5, LenProperties
  <2>2. Bridged = [i \in 1..Len(way) |-> forwarded[way[i]].serial]
    BY DEF Bridged, way
  <2>3. \A i \in 1..Len(way) : /\ forwarded[way[i]].serial = front[way[i]]
                               /\ forwarded[way[i]].serial \in Nat
    BY <1>4, <1>5
  <2>4. Bridged \in [1..Len(way) -> Nat]
    BY <2>2, <2>3
  <2>5. Bridged \in Seq(Nat)
    BY <2>1, <2>4, SeqDef
  <2>6. 1..Len(Bridged) = 1..Len(way) /\ Len(Bridged) \in Nat
    BY <2>4, <2>5, LenProperties
  <2>7. Len(Bridged) = Len(way)
    BY <2>1, <2>6
  <2> QED
    BY <2>2, <2>3, <2>5, <2>7
<1>7. Ahead = (hands \o buffer) \o rx_fifo /\ hands \o buffer \in Seq(Nat)
  BY <1>3, ConcatProperties DEF Ahead, hands, buffer
<1>8. Ahead \in Seq(Nat)
  BY <1>3, <1>7, ConcatProperties
<1>9. ASSUME NEW s \in Seq(Nat)
      PROVE  ((s \o hands) \o buffer) \o rx_fifo = s \o Ahead
  <2>1. (s \o hands) \o buffer = s \o (hands \o buffer)
    BY ONLY <1>3, <1>9, Regroup, Zenon
  <2>2. (s \o (hands \o buffer)) \o rx_fifo
          = s \o ((hands \o buffer) \o rx_fifo)
    <3> DEFINE held == hands \o buffer
    <3>1. held \in Seq(Nat)
      BY <1>7
    <3>2. s \in Seq(Nat) /\ rx_fifo \in Seq(Nat)
      BY <1>3, <1>9
    <3> HIDE DEF held
    <3>3. (s \o held) \o rx_fifo = s \o (held \o rx_fifo)
      BY ONLY <3>1, <3>2, Regroup, Zenon
    <3> QED
      BY <3>3 DEF held
  <2> QED
    BY ONLY <1>7, <2>1, <2>2, Zenon
<1>10. Can1!Pipeline = front \o Ahead
  BY <1>3, <1>9 DEF Can1!Pipeline, front, hands, buffer
<1>11. Path = Bridged \o Ahead
  BY <1>6, <1>9 DEF Path, hands, buffer
<1> QED
  BY <1>3, <1>4, <1>6, <1>8, <1>10, <1>11 DEF front, way

\* From the bus to the datagram frames keep their order, whatever is lost, and
\* none is sent twice: the bridge hands over a selection of the forwarded
\* frames in order, and those are a selection of the bus in order.
THEOREM EndToEndOrderIsKept == Spec => []EndToEndOrder
<1>1. ASSUME Can1!TypeOK, BridgeInv, CanEth!InOrder, Can1!ForwardedAsOnBus
      PROVE  EndToEndOrder
  <2>1. /\ Can1!Serials(forwarded) \in Seq(Nat) /\ Ahead \in Seq(Nat)
        /\ Bridged \in Seq(Nat)
        /\ Can1!Pipeline = Can1!Serials(forwarded) \o Ahead
        /\ Path = Bridged \o Ahead
        /\ Len(Can1!Serials(forwarded)) = Len(forwarded)
        /\ Len(Bridged) = Len(CanEth!Pipeline)
        /\ \A i \in 1..Len(CanEth!Pipeline) :
             Bridged[i] = Can1!Serials(forwarded)[CanEth!Pipeline[i]]
    BY <1>1, PathParts
  <2>2. /\ CanEth!Pipeline \in Seq(Nat)
        /\ \A i \in 1..Len(CanEth!Pipeline) :
             CanEth!Pipeline[i] \in 1..Len(Can1!Serials(forwarded))
    BY <1>1, <2>1 DEF BridgeInv
  <2>3. \A i, j \in 1..Len(CanEth!Pipeline) :
          i < j => CanEth!Pipeline[i] < CanEth!Pipeline[j]
    BY <1>1 DEF CanEth!InOrder
  <2>4. \A i, j \in 1..Len(Can1!Serials(forwarded) \o Ahead) :
          i < j => (Can1!Serials(forwarded) \o Ahead)[i]
                     < (Can1!Serials(forwarded) \o Ahead)[j]
    BY <1>1, <2>1 DEF Can1!ForwardedAsOnBus
  <2>5. \A i, j \in 1..Len(Bridged \o Ahead) :
          i < j => (Bridged \o Ahead)[i] < (Bridged \o Ahead)[j]
    <3> DEFINE front == Can1!Serials(forwarded)
               way == CanEth!Pipeline
    <3>1. \A i \in 1..Len(way) :
            way[i] \in 1..Len(front) /\ Bridged[i] = front[way[i]]
      BY <2>1, <2>2
    <3>2. /\ front \in Seq(Nat) /\ Ahead \in Seq(Nat) /\ way \in Seq(Nat)
          /\ Bridged \in Seq(Nat) /\ Len(Bridged) = Len(way)
      BY <2>1, <2>2
    <3>3. /\ \A i, j \in 1..Len(way) : i < j => way[i] < way[j]
          /\ \A i, j \in 1..Len(front \o Ahead) :
               i < j => (front \o Ahead)[i] < (front \o Ahead)[j]
      BY <2>3, <2>4
    <3> HIDE DEF front, way
    <3> QED
      BY ONLY <3>1, <3>2, <3>3, SelectFront, Zenon
  <2> QED
    BY <2>1, <2>5 DEF EndToEndOrder
<1> QED
  BY <1>1, BridgeInvariant, Can1Holds, CanEthHolds, PTL

\* From the bus to the datagram no frame is lost without a flag, unless the
\* network was down or the controller overran: without a flag the bridge holds
\* what it was offered, which is what was forwarded, one by one.
THEOREM EndToEndLossesAreReported == Spec => []EndToEndNoSilentLoss
<1>1. ASSUME Can1!TypeOK, CanEth!TypeOK, BridgeInv, ArrivalInv,
             CanEth!NoSilentLoss, Can1!NoSilentLoss,
             ~overrun, ~DroppedWhileDown, ~can1_error, ~caneth_error
      PROVE  Path = [i \in 1..Len(bus_log) |-> i]
  <2>1. /\ Can1!Serials(forwarded) \in Seq(Nat) /\ Bridged \in Seq(Nat)
        /\ Can1!Pipeline = Can1!Serials(forwarded) \o Ahead
        /\ Path = Bridged \o Ahead
        /\ Len(Can1!Serials(forwarded)) = Len(forwarded)
        /\ Len(Bridged) = Len(CanEth!Pipeline)
        /\ \A i \in 1..Len(CanEth!Pipeline) :
             Bridged[i] = Can1!Serials(forwarded)[CanEth!Pipeline[i]]
    BY <1>1, PathParts
  <2>2. CanEth!Pipeline = offered
    BY <1>1 DEF CanEth!NoSilentLoss
  <2>3. Len(offered) = Len(forwarded)
    <3>1. Len(offered) \in Nat
      BY <1>1, LenProperties DEF CanEth!TypeOK
    <3>2. arrivals = Len(forwarded) /\ arrivals \in Int
      BY <1>1 DEF ArrivalInv, CanEth!TypeOK
    <3> QED
      BY <1>1, <3>1, <3>2 DEF ArrivalInv, DroppedWhileDown
  <2>4. \A i \in 1..Len(forwarded) : CanEth!Pipeline[i] = i
    BY <1>1, <2>2, <2>3 DEF ArrivalInv
  <2>5. Bridged = Can1!Serials(forwarded)
    <3> DEFINE front == Can1!Serials(forwarded)
               way == CanEth!Pipeline
    <3>1. /\ front \in Seq(Nat) /\ Bridged \in Seq(Nat) /\ way \in Seq(Nat)
          /\ Len(Bridged) = Len(way) /\ Len(way) = Len(front)
      BY <1>1, <2>1, <2>2, <2>3 DEF BridgeInv
    <3>2. /\ \A i \in 1..Len(way) : Bridged[i] = front[way[i]]
          /\ \A i \in 1..Len(front) : way[i] = i
      BY <2>1, <2>4
    <3> HIDE DEF front, way
    <3>3. Bridged = front
      BY ONLY <3>1, <3>2, SelectAll, Zenon
    <3> QED
      BY <3>3 DEF front
  <2> QED
    BY <1>1, <2>1, <2>5 DEF Can1!NoSilentLoss
<1>2. ASSUME Can1!TypeOK, CanEth!TypeOK, BridgeInv, ArrivalInv,
             CanEth!NoSilentLoss, Can1!NoSilentLoss
      PROVE  EndToEndNoSilentLoss
  BY <1>1, <1>2 DEF EndToEndNoSilentLoss
<1> QED
  BY <1>2, BridgeInvariant, ArrivalInvariant, Can1Holds, CanEthHolds, PTL
=============================================================================
