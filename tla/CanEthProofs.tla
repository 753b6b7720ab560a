---------------------------- MODULE CanEthProofs ----------------------------
(***************************************************************************)
(* Theorems about CanEth, for every queue length, datagram size, set of    *)
(* network buffers and number of arrivals.                                 *)
(***************************************************************************)
EXTENDS CanEth, SharedLemmas, SequenceTheorems, TLAPS

(***************************************************************************)
(* Types and buffer ownership.  Neither is inductive alone: that the stack *)
(* is only ever given a descriptor (TypeOK) follows from the task owning   *)
(* one whenever it sends (BufferOwnership).                                *)
(***************************************************************************)
TypeInv == TypeOK /\ BufferOwnership

USE DEF producer_vars, task_vars, stack_vars, sent_vars

LEMMA TypeInvInit == Init => TypeInv
<1> SUFFICES ASSUME Init PROVE TypeInv
  OBVIOUS
<1>1. BufferOwnership
  BY DEF Init, BufferOwnership
<1>2. TypeOK
  <2>1. 0 \in 0..(SeqnumModulus - 1) /\ 0 \in 0..MaxCount /\ 0 \in 0..MaxArrivals
    BY SeqnumModulusAssumption, MaxCountAssumption, MaxArrivalsAssumption
  <2>2. <<>> \in Seq(Frames) /\ 0 <= QueueLength /\ 0 <= MaxCount
    BY QueueLengthAssumption, MaxCountAssumption
  <2>3. QED
    BY <2>1, <2>2 DEF Init, TypeOK, Bits
<1>3. QED
  BY <1>1, <1>2 DEF TypeInv

LEMMA TypeInvStep == TypeInv /\ [Next]_vars => TypeInv'
<1> USE QueueLengthAssumption, MaxCountAssumption, SeqnumModulusAssumption,
        MaxArrivalsAssumption, BuffersAssumption
<1> SUFFICES ASSUME TypeInv, [Next]_vars PROVE TypeInv'
  OBVIOUS
<1> USE DEF TypeInv, TypeOK, BufferOwnership, Bits, Frames
<1>1. CASE FrameArrives
  <2>1. arrivals + 1 \in Frames
    BY <1>1 DEF FrameArrives
  <2>2. CASE DropWhileDown
    BY <1>1, <2>1, <2>2 DEF FrameArrives, EnqueueRxFrame, DropWhileDown
  <2>3. CASE QueueSend(arrivals + 1)
    <3>1. /\ can_frame_queue' \in Seq(Frames)
          /\ Len(can_frame_queue') = Len(can_frame_queue) + 1
          /\ offered' \in Seq(Frames)
      BY <2>1, <2>3 DEF QueueSend, QueueSent
    <3>2. Len(can_frame_queue') <= QueueLength
      BY <3>1, <2>3 DEF QueueSend
    <3>3. arrivals' \in 0..MaxArrivals
      BY <1>1 DEF FrameArrives
    <3>4. QED
      BY <1>1, <2>3, <3>1, <3>2, <3>3
         DEF FrameArrives, EnqueueRxFrame, QueueSend
  <2>4. CASE QueueSendFails(arrivals + 1)
    BY <1>1, <2>1, <2>4 DEF FrameArrives, EnqueueRxFrame, QueueSendFails
  <2>5. QED
    BY <1>1, <2>2, <2>3, <2>4 DEF FrameArrives, EnqueueRxFrame
<1>2. CASE NotifyCanEth
  BY <1>2 DEF NotifyCanEth, Notified
<1>3. CASE FlushTimerCb
  BY <1>3 DEF FlushTimerCb
<1>4. CASE NetworkSeenUp
  BY <1>4 DEF NetworkSeenUp
<1>5. CASE GetUdpBuffer
  BY <1>5 DEF GetUdpBuffer
<1>6. CASE NotifyWait
  BY <1>6 DEF NotifyWait, ClearedOnExit
<1>7. CASE ReceiveFrame
  <2>1. CASE can_frame_queue = <<>>
    BY <1>7, <2>1 DEF ReceiveFrame
  <2>2. CASE can_frame_queue # <<>>
    <3>1. /\ can_frame_queue' \in Seq(Frames)
          /\ Len(can_frame_queue') = Len(can_frame_queue) - 1
          /\ Len(can_frame_queue) \in Nat
          /\ Head(can_frame_queue) \in Frames
      <4>1. can_frame_queue' = Tail(can_frame_queue)
        BY <1>7, <2>2 DEF ReceiveFrame
      <4>2. QED
        BY <4>1, <2>2, HeadTailProperties, LenProperties
    <3>2. /\ buffered_frames' \in Seq(Frames)
          /\ Len(buffered_frames') = Len(buffered_frames) + 1
      <4>1. buffered_frames' = Append(buffered_frames, Head(can_frame_queue))
        BY <1>7, <2>2 DEF ReceiveFrame
      <4>2. QED
        BY <4>1, <3>1, AppendProperties
    <3>3. /\ Len(can_frame_queue') <= QueueLength
          /\ Len(buffered_frames') <= MaxCount
      <4>1. Len(buffered_frames) \in Nat /\ Len(buffered_frames) < MaxCount
        BY <1>7, LenProperties DEF ReceiveFrame
      <4>2. Len(buffered_frames') <= MaxCount
        BY <4>1, <3>2
      <4>3. Len(can_frame_queue) <= QueueLength
        OBVIOUS
      <4>4. QED
        BY <4>2, <4>3, <3>1
    <3>4. QED
      BY <1>7, <3>1, <3>2, <3>3 DEF ReceiveFrame
  <2>3. QED
    BY <2>1, <2>2
<1>8. CASE KeepBuffering
  BY <1>8 DEF KeepBuffering
<1>9. CASE SendSucceeds
  BY <1>9, SMTT(60) DEF SendSucceeds, SendTo, NextSeqnum, FramesAfterSend
<1>10. CASE SendFails
  BY <1>10, SMTT(60) DEF SendFails, SendTo, NextSeqnum, FramesAfterSend
<1>11. CASE NetworkChanges
  BY <1>11 DEF NetworkChanges
<1>12. CASE \E b \in Buffers : StackTakes(b)
  BY <1>12 DEF StackTakes
<1>13. CASE \E b \in Buffers : StackReleases(b)
  BY <1>13 DEF StackReleases
<1>14. CASE UNCHANGED vars
  BY <1>14 DEF vars
<1>15. QED
  BY <1>1, <1>2, <1>3, <1>4, <1>5, <1>6, <1>7, <1>8, <1>9, <1>10, <1>11,
     <1>12, <1>13, <1>14 DEF Next, Task, IpStack

\* Every reachable state is well typed, and every network buffer has exactly
\* one owner: the free list, the stack or the task.
THEOREM TypeCorrect == Spec => []TypeOK
<1>1. TypeInv => TypeOK
  BY DEF TypeInv
<1>2. QED
  BY <1>1, TypeInvInit, TypeInvStep, PTL DEF Spec

\* The task never writes in a UDP buffer it handed over or released, and no
\* buffer is leaked, whatever results sendto returns.
THEOREM BuffersAreOwned == Spec => []BufferOwnership
<1>1. TypeInv => BufferOwnership
  BY DEF TypeInv
<1>2. QED
  BY <1>1, TypeInvInit, TypeInvStep, PTL DEF Spec

-----------------------------------------------------------------------------
(***************************************************************************)
(* Wakeups.  A wakeup moves from the enqueuer to the notification bit and  *)
(* from there to the task, and ends with the receive of one frame; two     *)
(* meet only in the bit, where one of them disappears.  So there are never *)
(* more wakeups than queued frames, and always fewer frames without one    *)
(* than the queue has places.                                              *)
(***************************************************************************)
WakeupInv == /\ Wakeups <= Len(can_frame_queue)
             /\ Len(can_frame_queue) < QueueLength + Wakeups

LEMMA WakeupInvInit == Init => WakeupInv
BY QueueLengthAssumption DEF Init, WakeupInv, Wakeups

\* A wakeup is born with a frame, vanishes in a bit that is another, or ends
\* with the receive of a frame.
LEMMA WakeupStep ==
  ASSUME TypeOK, WakeupInv, [Next]_vars
  PROVE  \/ /\ Len(can_frame_queue') = Len(can_frame_queue)
            /\ Wakeups' = Wakeups
         \/ /\ Len(can_frame_queue') = Len(can_frame_queue) + 1
            /\ Wakeups' = Wakeups + 1
         \/ /\ Len(can_frame_queue') = Len(can_frame_queue)
            /\ Wakeups' = Wakeups - 1 /\ Wakeups >= 2
         \/ /\ Len(can_frame_queue') = Len(can_frame_queue) - 1
            /\ Wakeups' = Wakeups - 1
<1> DEFINE Step == \/ /\ Len(can_frame_queue') = Len(can_frame_queue)
                      /\ Wakeups' = Wakeups
                   \/ /\ Len(can_frame_queue') = Len(can_frame_queue) + 1
                      /\ Wakeups' = Wakeups + 1
                   \/ /\ Len(can_frame_queue') = Len(can_frame_queue)
                      /\ Wakeups' = Wakeups - 1 /\ Wakeups >= 2
                   \/ /\ Len(can_frame_queue') = Len(can_frame_queue) - 1
                      /\ Wakeups' = Wakeups - 1
<1> SUFFICES Step
  OBVIOUS
<1>1. Len(can_frame_queue) \in Nat
  BY LenProperties DEF TypeOK
<1>2. CASE FrameArrives
  <2>1. CASE DropWhileDown \/ QueueSendFails(arrivals + 1)
    BY <1>2, <2>1 DEF FrameArrives, EnqueueRxFrame, DropWhileDown,
                      QueueSendFails, Wakeups
  <2>2. CASE QueueSend(arrivals + 1)
    <3>1. Len(can_frame_queue') = Len(can_frame_queue) + 1
      <4>1. arrivals + 1 \in Frames
        BY <1>2, MaxArrivalsAssumption DEF FrameArrives, TypeOK, Frames
      <4>2. can_frame_queue' = Append(can_frame_queue, arrivals + 1)
        BY <2>2 DEF QueueSend, QueueSent
      <4>3. QED
        BY <4>1, <4>2, AppendProperties DEF TypeOK
    <3>2. Wakeups' = Wakeups + 1
      BY <1>2, <2>2 DEF FrameArrives, EnqueueRxFrame, QueueSend, Wakeups
    <3>3. QED
      BY <3>1, <3>2
  <2>3. QED
    BY <1>2, <2>1, <2>2 DEF FrameArrives, EnqueueRxFrame
<1>3. CASE NotifyCanEth
  BY <1>1, <1>3 DEF NotifyCanEth, Notified, Wakeups
<1>4. CASE FlushTimerCb
  BY <1>4 DEF FlushTimerCb, Wakeups
<1>5. CASE NetworkSeenUp
  BY <1>5 DEF NetworkSeenUp, Wakeups
<1>6. CASE GetUdpBuffer
  BY <1>6 DEF GetUdpBuffer, Wakeups
<1>7. CASE NotifyWait
  BY <1>7 DEF NotifyWait, ClearedOnExit, Bits, Wakeups
<1>8. CASE ReceiveFrame
  <2>1. can_frame_queue # <<>>
    BY <1>1, <1>8 DEF ReceiveFrame, WakeupInv, Wakeups
  <2>2. Len(can_frame_queue') = Len(can_frame_queue) - 1
    <3>1. can_frame_queue' = Tail(can_frame_queue)
      BY <1>8, <2>1 DEF ReceiveFrame
    <3>2. QED
      BY <2>1, <3>1, HeadTailProperties DEF TypeOK
  <2>3. Wakeups' = Wakeups - 1
    BY <1>8 DEF ReceiveFrame, Wakeups
  <2>4. QED
    BY <2>2, <2>3
<1>9. CASE KeepBuffering
  BY <1>9 DEF KeepBuffering, Wakeups
<1>10. CASE SendSucceeds \/ SendFails
  BY <1>10 DEF SendSucceeds, SendFails, SendTo, Wakeups
<1>11. CASE IpStack
  BY <1>11 DEF IpStack, NetworkChanges, StackTakes, StackReleases, Wakeups
<1>12. CASE UNCHANGED vars
  BY <1>12 DEF vars, Wakeups
<1>13. QED
  BY <1>2, <1>3, <1>4, <1>5, <1>6, <1>7, <1>8, <1>9, <1>10, <1>11, <1>12
     DEF Next, Task

LEMMA WakeupInvStep == TypeOK /\ WakeupInv /\ [Next]_vars => WakeupInv'
<1> SUFFICES ASSUME TypeOK, WakeupInv, [Next]_vars PROVE WakeupInv'
  OBVIOUS
<1>1. /\ Len(can_frame_queue) \in Nat
      /\ Len(can_frame_queue) <= QueueLength
      /\ QueueLength \in Nat \ {0}
  BY QueueLengthAssumption, LenProperties DEF TypeOK
<1>2. Wakeups \in Nat
  BY DEF Wakeups
<1> QED
  BY <1>1, <1>2, WakeupStep DEF WakeupInv

LEMMA WakeupInvariant == Spec => []WakeupInv
<1>1. Spec => []TypeOK
  BY TypeCorrect
<1>2. QED
  BY <1>1, WakeupInvInit, WakeupInvStep, PTL DEF Spec

\* The task's receive always finds a frame, whatever notifications coalesced.
THEOREM EveryWakeHasAFrame == Spec => []WakeFindsFrame
<1>1. WakeupInv => WakeFindsFrame
  BY DEF WakeupInv, Wakeups, WakeFindsFrame
<1>2. QED
  BY <1>1, WakeupInvariant, PTL

\* A full queue always has a wakeup on its way: the bridge never wedges.
THEOREM FullQueueNeverWedges == Spec => []FullQueueHasWakeup
<1>1. TypeOK /\ WakeupInv => FullQueueHasWakeup
  BY QueueLengthAssumption DEF TypeOK, WakeupInv, Wakeups, FullQueueHasWakeup
<1>2. QED
  BY <1>1, TypeCorrect, WakeupInvariant, PTL

\* What coalesced notifications leave behind stays behind: the number of
\* queued frames for which no wakeup is on its way never falls, and it stays
\* below the length of the queue.
THEOREM BacklogStays == Spec => BacklogNeverShrinks /\ []BacklogIsBounded
<1>1. ASSUME TypeOK, WakeupInv, [Next]_vars
      PROVE  Len(can_frame_queue') + Wakeups >= Len(can_frame_queue) + Wakeups'
  <2>1. Len(can_frame_queue) \in Nat /\ Wakeups \in Nat
    BY <1>1, LenProperties DEF TypeOK, Wakeups
  <2> QED
    BY <1>1, <2>1, WakeupStep
<1>2. TypeOK /\ WakeupInv => BacklogIsBounded
  <2> SUFFICES ASSUME TypeOK, WakeupInv PROVE BacklogIsBounded
    OBVIOUS
  <2>1. /\ Len(can_frame_queue) \in Nat /\ Wakeups \in Nat
        /\ QueueLength \in Nat
    BY QueueLengthAssumption, LenProperties DEF TypeOK, Wakeups
  <2> QED
    BY <2>1 DEF WakeupInv, BacklogIsBounded, Backlog
<1>3. TypeOK /\ WakeupInv /\ [Next]_vars => [Backlog' >= Backlog]_vars
  <2> SUFFICES ASSUME TypeOK, WakeupInv, [Next]_vars PROVE Backlog' >= Backlog
    OBVIOUS
  <2>1. /\ Len(can_frame_queue) \in Nat /\ Wakeups \in Nat
        /\ Len(can_frame_queue') \in Int /\ Wakeups' \in Nat
    BY WakeupStep, LenProperties DEF TypeOK, Wakeups
  <2> QED
    BY <1>1, <2>1 DEF Backlog
<1> QED
  BY <1>2, <1>3, TypeCorrect, WakeupInvariant, PTL DEF Spec, BacklogNeverShrinks

-----------------------------------------------------------------------------
(***************************************************************************)
(* Room in the UDP buffer.  The task waits only with a buffer that is not  *)
(* full, because a full one is sent before the next wait.                  *)
(***************************************************************************)
RoomInv == /\ task_pc \in {"wait", "receive"} => Len(buffered_frames) < MaxCount
           /\ task_pc \in {"network", "get_buffer"} => buffered_frames = <<>>

LEMMA RoomInvInit == Init => RoomInv
BY DEF Init, RoomInv

LEMMA RoomInvStep == TypeOK /\ RoomInv /\ [Next]_vars => RoomInv'
<1> SUFFICES ASSUME TypeOK, RoomInv, [Next]_vars PROVE RoomInv'
  OBVIOUS
<1> USE DEF RoomInv
<1>1. /\ Len(buffered_frames) \in Nat
      /\ Len(buffered_frames) <= MaxCount
      /\ MaxCount \in Nat \ {0}
  BY MaxCountAssumption, LenProperties DEF TypeOK
<1>2. CASE FrameArrives
  BY <1>2 DEF FrameArrives, EnqueueRxFrame
<1>3. CASE NotifyCanEth \/ FlushTimerCb
  BY <1>3 DEF NotifyCanEth, FlushTimerCb
<1>4. CASE NetworkSeenUp
  BY <1>4 DEF NetworkSeenUp
<1>5. CASE GetUdpBuffer
  BY <1>1, <1>5 DEF GetUdpBuffer
<1>6. CASE NotifyWait
  BY <1>6 DEF NotifyWait
<1>7. CASE ReceiveFrame
  BY <1>7 DEF ReceiveFrame
<1>8. CASE KeepBuffering
  BY <1>1, <1>8 DEF KeepBuffering, MustSend, ReadyToSend
<1>9. CASE SendSucceeds \/ SendFails
  BY <1>9 DEF SendSucceeds, SendFails, SendTo, FramesAfterSend
<1>10. CASE IpStack
  BY <1>10 DEF IpStack, NetworkChanges, StackTakes, StackReleases
<1>11. CASE UNCHANGED vars
  BY <1>11 DEF vars
<1>12. QED
  BY <1>2, <1>3, <1>4, <1>5, <1>6, <1>7, <1>8, <1>9, <1>10, <1>11
     DEF Next, Task

LEMMA RoomInvariant == Spec => []RoomInv
<1>1. Spec => []TypeOK
  BY TypeCorrect
<1>2. QED
  BY <1>1, RoomInvInit, RoomInvStep, PTL DEF Spec

\* The configASSERT before the receive never fails.
THEOREM ReceiveHasRoom == Spec => []BufferHasRoom
<1>1. RoomInv => BufferHasRoom
  BY DEF RoomInv, BufferHasRoom
<1>2. QED
  BY <1>1, RoomInvariant, PTL

-----------------------------------------------------------------------------
(* Facts about sequences that the moves of frames rest on.                 *)

\* Dropping the first part of a concatenation leaves the second.
LEMMA DropFirstPart ==
  ASSUME NEW S, NEW s \in Seq(S), NEW t \in Seq(S)
  PROVE  SubSeq(s \o t, Len(s) + 1, Len(s \o t)) = t
<1>1. /\ Len(s) \in Nat /\ Len(t) \in Nat
      /\ Len(s \o t) = Len(s) + Len(t)
  BY LenProperties, ConcatProperties
<1>2. CASE t = <<>>
  <2>1. Len(t) = 0
    BY <1>2
  <2>2. QED
    BY <1>1, <1>2, <2>1, SubSeqEmpty
<1>3. CASE t # <<>>
  <2>1. Len(t) > 0
    BY <1>1, <1>3, EmptySeq
  <2>2. /\ Len(s) + 1 \in (Len(s) + 1)..(Len(s) + Len(t))
        /\ Len(s) + Len(t) \in (Len(s) + 1)..(Len(s) + Len(t))
        /\ (Len(s) + 1) - Len(s) = 1
        /\ (Len(s) + Len(t)) - Len(s) = Len(t)
    BY <1>1, <2>1
  <2>3. SubSeq(s \o t, Len(s) + 1, Len(s) + Len(t)) = SubSeq(t, 1, Len(t))
    BY <2>2, SubSeqOfConcat2
  <2>4. QED
    BY <1>1, <2>3, SubSeqFull
<1>4. QED
  BY <1>2, <1>3

\* The first part of a concatenation is its prefix of that length.
LEMMA KeepFirstPart ==
  ASSUME NEW S, NEW s \in Seq(S), NEW t \in Seq(S), s # <<>>
  PROVE  SubSeq(s \o t, 1, Len(s)) = s
<1>1. Len(s) \in Nat \ {0}
  BY EmptySeq
<1>2. SubSeq(s \o t, 1, Len(s)) = SubSeq(s, 1, Len(s))
  BY <1>1, SubSeqOfConcat1
<1>3. QED
  BY <1>2, SubSeqFull

-----------------------------------------------------------------------------
(* What each step does to the frames in the bridge.                        *)

InFlight == buffered_frames \o can_frame_queue

\* An accepted frame joins the end of the line.
LEMMA EnterStep ==
  ASSUME TypeOK, FrameArrives, QueueSend(arrivals + 1)
  PROVE  /\ arrivals + 1 \in Frames
         /\ Len(InFlight) < QueueLength + MaxCount
         /\ InFlight' = Append(InFlight, arrivals + 1)
         /\ Pipeline' = Append(Pipeline, arrivals + 1)
         /\ offered' = Append(offered, arrivals + 1)
         /\ UNCHANGED <<delivered, caneth_error>>
<1>1. arrivals + 1 \in Frames
  BY MaxArrivalsAssumption DEF FrameArrives, TypeOK, Frames
<1>2. /\ can_frame_queue' = Append(can_frame_queue, arrivals + 1)
      /\ offered' = Append(offered, arrivals + 1)
      /\ UNCHANGED <<delivered, caneth_error, buffered_frames>>
  BY DEF FrameArrives, EnqueueRxFrame, QueueSend, QueueSent
<1>3. delivered \o buffered_frames \in Seq(Frames)
  BY ConcatProperties DEF TypeOK
<1>4. /\ InFlight' = Append(InFlight, arrivals + 1)
      /\ Pipeline' = Append(Pipeline, arrivals + 1)
  <2>1. buffered_frames \in Seq(Frames) /\ can_frame_queue \in Seq(Frames)
    BY DEF TypeOK
  <2>2. buffered_frames \o Append(can_frame_queue, arrivals + 1)
          = Append(buffered_frames \o can_frame_queue, arrivals + 1)
    BY ONLY <1>1, <2>1, AppendToConcat
  <2>3. (delivered \o buffered_frames) \o Append(can_frame_queue, arrivals + 1)
          = Append((delivered \o buffered_frames) \o can_frame_queue, arrivals + 1)
    BY ONLY <1>1, <1>3, <2>1, AppendToConcat
  <2>4. QED
    BY <1>2, <2>2, <2>3 DEF InFlight, Pipeline
<1>5. Len(InFlight) < QueueLength + MaxCount
  <2>1. Len(InFlight) = Len(buffered_frames) + Len(can_frame_queue)
    BY ConcatProperties DEF TypeOK, InFlight
  <2>2. /\ Len(buffered_frames) \in Nat
        /\ Len(can_frame_queue) \in Nat
        /\ Len(buffered_frames) <= MaxCount
        /\ Len(can_frame_queue) < QueueLength
    BY LenProperties DEF TypeOK, QueueSend
  <2>3. QED
    BY <2>1, <2>2, QueueLengthAssumption, MaxCountAssumption
<1>6. QED
  BY <1>1, <1>2, <1>4, <1>5

\* The move of a frame from the queue to the UDP buffer is invisible.
LEMMA MoveStep ==
  ASSUME TypeOK, ReceiveFrame
  PROVE  /\ InFlight' = InFlight
         /\ Pipeline' = Pipeline
         /\ UNCHANGED <<delivered, offered, caneth_error>>
<1>1. UNCHANGED <<delivered, offered, caneth_error>>
  BY DEF ReceiveFrame
<1>2. CASE can_frame_queue = <<>>
  BY <1>1, <1>2 DEF ReceiveFrame, InFlight, Pipeline
<1>3. CASE can_frame_queue # <<>>
  <2>0. /\ delivered \in Seq(Frames) /\ buffered_frames \in Seq(Frames)
        /\ can_frame_queue \in Seq(Frames)
    BY DEF TypeOK
  <2>1. /\ buffered_frames' = Append(buffered_frames, Head(can_frame_queue))
        /\ can_frame_queue' = Tail(can_frame_queue)
    BY <1>3 DEF ReceiveFrame
  <2>2. Head(can_frame_queue) \in Frames /\ Tail(can_frame_queue) \in Seq(Frames)
    BY <1>3, HeadTailProperties DEF TypeOK
  <2>3. delivered \o buffered_frames \in Seq(Frames)
    BY ConcatProperties DEF TypeOK
  <2>4. InFlight' = InFlight
    BY <1>3, <2>1, MoveHead DEF TypeOK, InFlight
  <2>5. delivered \o Append(buffered_frames, Head(can_frame_queue))
          = Append(delivered \o buffered_frames, Head(can_frame_queue))
    BY <2>0, <2>2, AppendToConcat
  <2>6. Append(delivered \o buffered_frames, Head(can_frame_queue))
          \o Tail(can_frame_queue)
            = (delivered \o buffered_frames) \o can_frame_queue
    BY <1>3, <2>0, <2>3, MoveHead
  <2>7. Pipeline' = Pipeline
    BY <1>1, <2>1, <2>5, <2>6 DEF Pipeline
  <2>8. QED
    BY <1>1, <2>4, <2>7
<1>4. QED
  BY <1>2, <1>3

\* A datagram takes the frames of the UDP buffer, the oldest ones, away.
LEMMA SendStep ==
  ASSUME TypeOK, SendTo
  PROVE  /\ Len(buffered_frames) \in 1..MaxCount
         /\ Len(buffered_frames) <= Len(InFlight)
         /\ InFlight' = SubSeq(InFlight, Len(buffered_frames) + 1, Len(InFlight))
         /\ buffered_frames = SubSeq(InFlight, 1, Len(buffered_frames))
         /\ InFlight' = can_frame_queue
         /\ UNCHANGED <<offered, can_frame_queue>>
         /\ buffered_frames' = <<>>
<1>1. /\ buffered_frames # <<>>
      /\ buffered_frames' = <<>>
      /\ UNCHANGED <<offered, can_frame_queue>>
  BY DEF SendTo, MustSend, FramesAfterSend
<1>2. /\ Len(buffered_frames) \in Nat \ {0}
      /\ Len(buffered_frames) <= MaxCount
      /\ Len(can_frame_queue) \in Nat
  BY <1>1, EmptySeq, LenProperties DEF TypeOK
<1>3. Len(InFlight) = Len(buffered_frames) + Len(can_frame_queue)
  BY ConcatProperties DEF TypeOK, InFlight
<1>4. InFlight' = can_frame_queue
  BY <1>1, ConcatEmptySeq DEF TypeOK, InFlight
<1>5. SubSeq(InFlight, Len(buffered_frames) + 1, Len(InFlight)) = can_frame_queue
  BY DropFirstPart DEF TypeOK, InFlight
<1>6. SubSeq(InFlight, 1, Len(buffered_frames)) = buffered_frames
  BY <1>1, KeepFirstPart DEF TypeOK, InFlight
<1>7. QED
  BY <1>1, <1>2, <1>3, <1>4, <1>5, <1>6, MaxCountAssumption

-----------------------------------------------------------------------------
(* No frame disappears unreported.                                         *)

LEMMA NoSilentLossStep ==
  TypeOK /\ NoSilentLoss /\ [Next]_vars => NoSilentLoss'
<1> SUFFICES ASSUME TypeOK, NoSilentLoss, [Next]_vars PROVE NoSilentLoss'
  OBVIOUS
<1>1. CASE FrameArrives
  <2>1. CASE QueueSend(arrivals + 1)
    BY <1>1, <2>1, EnterStep DEF NoSilentLoss
  <2>2. CASE QueueSendFails(arrivals + 1)
    BY <2>2 DEF QueueSendFails, NoSilentLoss
  <2>3. CASE DropWhileDown
    BY <1>1, <2>3 DEF FrameArrives, EnqueueRxFrame, DropWhileDown,
                      NoSilentLoss, Pipeline
  <2>4. QED
    BY <1>1, <2>1, <2>2, <2>3 DEF FrameArrives, EnqueueRxFrame
<1>2. CASE ReceiveFrame
  BY <1>2, MoveStep DEF NoSilentLoss
<1>3. CASE SendSucceeds
  <2>1. /\ SendTo
        /\ delivered' = delivered \o buffered_frames
        /\ UNCHANGED caneth_error
    BY <1>3 DEF SendSucceeds
  <2>2. /\ buffered_frames' = <<>>
        /\ UNCHANGED <<can_frame_queue, offered>>
    BY <2>1, SendStep
  <2>3. delivered \o buffered_frames \in Seq(Frames)
    BY ConcatProperties DEF TypeOK
  <2>4. Pipeline' = Pipeline
    BY <2>1, <2>2, <2>3, ConcatEmptySeq DEF Pipeline
  <2>5. QED
    BY <2>1, <2>2, <2>4 DEF NoSilentLoss
<1>4. CASE SendFails
  BY <1>4 DEF SendFails, NoSilentLoss
<1>5. CASE NotifyCanEth \/ FlushTimerCb \/ NetworkSeenUp \/ GetUdpBuffer
           \/ NotifyWait \/ KeepBuffering \/ IpStack \/ UNCHANGED vars
  <2>1. UNCHANGED <<delivered, buffered_frames, can_frame_queue, offered,
                    caneth_error>>
    BY <1>5 DEF NotifyCanEth, FlushTimerCb, NetworkSeenUp, GetUdpBuffer,
                NotifyWait, KeepBuffering, IpStack, NetworkChanges, StackTakes,
                StackReleases, vars
  <2>2. QED
    BY <2>1 DEF NoSilentLoss, Pipeline
<1>6. QED
  BY <1>1, <1>2, <1>3, <1>4, <1>5 DEF Next, Task

\* Unless the caneth error flag is raised, every frame offered while the
\* network was up is in the bridge or was handed to the stack, in its order.
THEOREM LossesAreReported == Spec => []NoSilentLoss
<1>1. Init => NoSilentLoss
  BY DEF Init, NoSilentLoss, Pipeline
<1>2. QED
  BY <1>1, TypeCorrect, NoSilentLossStep, PTL DEF Spec

-----------------------------------------------------------------------------
(* Refinement                                                              *)

LEMMA BridgeStep == TypeOK /\ [Next]_vars => [Bridge!Next]_(Bridge!vars)
<1> SUFFICES ASSUME TypeOK, [Next]_vars
             PROVE  Bridge!Next \/ UNCHANGED <<offered, InFlight, delivered, caneth_error>>
  BY DEF Bridge!vars, InFlight
<1>1. CASE FrameArrives
  <2>1. CASE QueueSend(arrivals + 1)
    BY <1>1, <2>1, EnterStep DEF Bridge!Next, Bridge!Accept, InFlight
  <2>2. CASE QueueSendFails(arrivals + 1)
    <3>1. arrivals + 1 \in Frames
      BY <1>1, MaxArrivalsAssumption DEF FrameArrives, TypeOK, Frames
    <3>2. Bridge!Refuse(arrivals + 1)
      BY <1>1, <2>2 DEF FrameArrives, EnqueueRxFrame, QueueSendFails,
                        Bridge!Refuse
    <3>3. QED
      BY <3>1, <3>2 DEF Bridge!Next
  <2>3. CASE DropWhileDown
    BY <1>1, <2>3 DEF FrameArrives, EnqueueRxFrame, DropWhileDown, InFlight
  <2>4. QED
    BY <1>1, <2>1, <2>2, <2>3 DEF FrameArrives, EnqueueRxFrame
<1>2. CASE ReceiveFrame
  BY <1>2, MoveStep
<1>3. CASE SendSucceeds
  <2>1. SendTo
    BY <1>3 DEF SendSucceeds
  <2>2. Bridge!Deliver(Len(buffered_frames))
    BY <1>3, <2>1, SendStep
       DEF SendSucceeds, Bridge!Deliver, Bridge!Leave, InFlight
  <2>3. QED
    BY <2>1, <2>2, SendStep DEF Bridge!Next
<1>4. CASE SendFails
  <2>1. SendTo
    BY <1>4 DEF SendFails
  <2>2. Bridge!Lose(Len(buffered_frames))
    BY <1>4, <2>1, SendStep
       DEF SendFails, Bridge!Lose, Bridge!Leave, InFlight
  <2>3. QED
    BY <2>1, <2>2, SendStep DEF Bridge!Next
<1>5. CASE NotifyCanEth \/ FlushTimerCb \/ NetworkSeenUp \/ GetUdpBuffer
           \/ NotifyWait \/ KeepBuffering \/ IpStack \/ UNCHANGED vars
  BY <1>5 DEF NotifyCanEth, FlushTimerCb, NetworkSeenUp, GetUdpBuffer,
              NotifyWait, KeepBuffering, IpStack, NetworkChanges, StackTakes,
              StackReleases, vars, InFlight
<1>6. QED
  BY <1>1, <1>2, <1>3, <1>4, <1>5 DEF Next, Task

\* The bridge implements the lossy first-in first-out line.
THEOREM BridgeRefinement == Spec => ImplementsFrameForwarder
<1>1. Init => Bridge!Init
  BY DEF Init, Bridge!Init
<1>2. QED
  BY <1>1, TypeCorrect, BridgeStep, PTL
     DEF Spec, ImplementsFrameForwarder, Bridge!Spec

-----------------------------------------------------------------------------
(* Order                                                                   *)

\* The steps that move no frame and number no datagram
Aside == \/ NotifyCanEth \/ FlushTimerCb \/ NetworkSeenUp \/ GetUdpBuffer
         \/ NotifyWait \/ KeepBuffering \/ IpStack \/ UNCHANGED vars

LEMMA AsideStep ==
  ASSUME Aside
  PROVE  UNCHANGED <<delivered, buffered_frames, can_frame_queue, arrivals,
                     last_datagram, udp_seqnum, caneth_error>>
BY DEF Aside, NotifyCanEth, FlushTimerCb, NetworkSeenUp, GetUdpBuffer,
       NotifyWait, KeepBuffering, IpStack, NetworkChanges, StackTakes,
       StackReleases, vars

\* The frames in the bridge are in the order of their arrivals, and all of
\* them have arrived.
OrderInv == /\ InOrder
            /\ \A i \in 1..Len(Pipeline) : Pipeline[i] <= arrivals

LEMMA OrderStep == TypeOK /\ OrderInv /\ [Next]_vars => OrderInv'
<1> SUFFICES ASSUME TypeOK, OrderInv, [Next]_vars PROVE OrderInv'
  OBVIOUS
<1>1. /\ delivered \in Seq(Frames) /\ buffered_frames \in Seq(Frames)
      /\ can_frame_queue \in Seq(Frames)
      /\ delivered \o buffered_frames \in Seq(Frames)
      /\ Pipeline \in Seq(Frames) /\ Len(Pipeline) \in Nat
      /\ \A i \in 1..Len(Pipeline) : Pipeline[i] \in Frames
  <2>1. /\ delivered \in Seq(Frames) /\ buffered_frames \in Seq(Frames)
        /\ can_frame_queue \in Seq(Frames)
    BY DEF TypeOK
  <2>2. delivered \o buffered_frames \in Seq(Frames)
    BY <2>1, ConcatProperties
  <2>3. Pipeline \in Seq(Frames)
    BY <2>1, <2>2, ConcatProperties DEF Pipeline
  <2> QED
    BY <2>1, <2>2, <2>3, LenProperties, ElementOfSeq
<1>2. Frames \subseteq Nat /\ arrivals \in Nat
  BY MaxArrivalsAssumption DEF Frames, TypeOK
<1>a. /\ Len(Pipeline) \in Nat
      /\ \A i \in 1..Len(Pipeline) : Pipeline[i] \in Nat
      /\ \A i \in 1..Len(Pipeline) : Pipeline[i] <= arrivals
      /\ \A i, j \in 1..Len(Pipeline) : i < j => Pipeline[i] < Pipeline[j]
  <2>1. \A i \in 1..Len(Pipeline) : Pipeline[i] \in Nat
    BY <1>1, <1>2
  <2> QED
    BY <1>1, <2>1 DEF OrderInv, InOrder
<1>3. CASE FrameArrives
  <2>1. arrivals' = arrivals + 1
    BY <1>3 DEF FrameArrives
  <2>2. CASE QueueSend(arrivals + 1)
    <3>1. Pipeline' = Append(Pipeline, arrivals + 1) /\ arrivals + 1 \in Frames
      BY <1>3, <2>2, EnterStep
    <3>2. /\ \A i, j \in 1..Len(Pipeline') : i < j => Pipeline'[i] < Pipeline'[j]
          /\ \A i \in 1..Len(Pipeline') : Pipeline'[i] <= arrivals + 1
      BY <1>1, <1>2, <1>a, <3>1, AppendNext
    <3> QED
      BY <2>1, <3>2 DEF OrderInv, InOrder
  <2>3. CASE UNCHANGED Pipeline
    <3>1. \A i \in 1..Len(Pipeline) : Pipeline[i] <= arrivals + 1
      BY <1>a, <1>2
    <3> QED
      BY <2>1, <2>3, <3>1 DEF OrderInv, InOrder
  <2>4. CASE QueueSendFails(arrivals + 1) \/ DropWhileDown
    BY <1>3, <2>3, <2>4 DEF FrameArrives, EnqueueRxFrame, QueueSendFails,
                            DropWhileDown, Pipeline
  <2> QED
    BY <1>3, <2>2, <2>4 DEF FrameArrives, EnqueueRxFrame
<1>4. CASE UNCHANGED <<Pipeline, arrivals>>
  BY <1>4 DEF OrderInv, InOrder
<1>5. CASE ReceiveFrame
  BY <1>4, <1>5, MoveStep DEF ReceiveFrame
<1>6. CASE SendSucceeds
  <2>1. /\ delivered' = delivered \o buffered_frames
        /\ buffered_frames' = <<>>
        /\ UNCHANGED <<can_frame_queue, arrivals>>
    BY <1>6 DEF SendSucceeds, SendTo, FramesAfterSend
  <2>2. Pipeline' = Pipeline
    BY <1>1, <2>1, ConcatEmptySeq DEF Pipeline
  <2> QED
    BY <1>4, <2>1, <2>2
<1>7. CASE SendFails
  <2>1. /\ buffered_frames' = <<>>
        /\ UNCHANGED <<delivered, can_frame_queue, arrivals>>
    BY <1>7 DEF SendFails, SendTo, FramesAfterSend
  <2>2. Pipeline' = delivered \o can_frame_queue
    BY <1>1, <2>1, ConcatEmptySeq DEF Pipeline
  <2>3. /\ \A i, j \in 1..Len(Pipeline') : i < j => Pipeline'[i] < Pipeline'[j]
        /\ \A i \in 1..Len(Pipeline') : Pipeline'[i] <= arrivals
    <3> DEFINE left == delivered \o can_frame_queue
    <3>1. /\ \A i, j \in 1..Len(delivered \o buffered_frames \o can_frame_queue) :
               i < j => (delivered \o buffered_frames \o can_frame_queue)[i]
                          < (delivered \o buffered_frames \o can_frame_queue)[j]
          /\ \A i \in 1..Len(delivered \o buffered_frames \o can_frame_queue) :
               (delivered \o buffered_frames \o can_frame_queue)[i] <= arrivals
      BY DEF OrderInv, InOrder, Pipeline
    <3>2. /\ \A i, j \in 1..Len(left) : i < j => left[i] < left[j]
          /\ \A i \in 1..Len(left) : left[i] <= arrivals
      BY ONLY <1>1, <1>2, <3>1, CutMiddle
    <3>3. Pipeline' = left
      BY <2>2
    <3> HIDE DEF left
    <3> QED
      BY <3>2, <3>3
  <2> QED
    BY <2>1, <2>3 DEF OrderInv, InOrder
<1>8. CASE Aside
  BY <1>4, <1>8, AsideStep DEF Pipeline
<1> QED
  BY <1>3, <1>5, <1>6, <1>7, <1>8 DEF Next, Task, Aside

LEMMA OrderInvariant == Spec => []OrderInv
<1>1. Init => OrderInv
  BY DEF Init, OrderInv, InOrder, Pipeline
<1> QED
  BY <1>1, OrderStep, TypeCorrect, PTL DEF Spec

\* Frames are handed over in the order they arrived in and none twice, even
\* after losses.
THEOREM OrderIsKept == Spec => []InOrder
<1>1. OrderInv => InOrder
  BY DEF OrderInv
<1> QED
  BY <1>1, OrderInvariant, PTL

-----------------------------------------------------------------------------
(* Datagrams                                                               *)

\* No datagram is empty or overfull.
THEOREM DatagramsInRange == Spec => []DatagramCountInRange
<1>1. Init => DatagramCountInRange
  BY DEF Init, DatagramCountInRange
<1>2. TypeOK /\ DatagramCountInRange /\ [Next]_vars => DatagramCountInRange'
  <2> SUFFICES ASSUME TypeOK, DatagramCountInRange, [Next]_vars
               PROVE  DatagramCountInRange'
    OBVIOUS
  <2>1. CASE SendSucceeds
    BY <2>1, SendStep DEF SendSucceeds, DatagramCountInRange
  <2>2. CASE UNCHANGED <<delivered, last_datagram>>
    BY <2>2 DEF DatagramCountInRange
  <2> QED
    BY <2>1, <2>2, AsideStep DEF Next, Task, Aside, FrameArrives,
       EnqueueRxFrame, DropWhileDown, QueueSend, QueueSendFails, ReceiveFrame,
       SendFails
<1> QED
  BY <1>1, <1>2, TypeCorrect, PTL DEF Spec

\* Until an error is reported, the last datagram has the last number.
SeqnumInv == ~caneth_error => udp_seqnum = last_datagram.seqnum

\* The receiver of the datagrams misses a number only after a reported loss.
THEOREM GapsAreReported == Spec => SeqnumGapIsReported
<1>1. Init => SeqnumInv
  BY DEF Init, SeqnumInv
<1>2. ASSUME [Next]_vars
      PROVE  \/ SendSucceeds
             \/ caneth_error'
             \/ UNCHANGED <<last_datagram, udp_seqnum, caneth_error>>
  BY <1>2, AsideStep DEF Next, Task, Aside, FrameArrives, EnqueueRxFrame,
     DropWhileDown, QueueSend, QueueSendFails, ReceiveFrame, SendFails
<1>3. SeqnumInv /\ [Next]_vars => SeqnumInv'
  BY <1>2 DEF SeqnumInv, SendSucceeds
<1>4. ASSUME [Next]_vars
      PROVE  SendSucceeds \/ UNCHANGED last_datagram
  BY <1>4, AsideStep DEF Next, Task, Aside, FrameArrives, EnqueueRxFrame,
     DropWhileDown, QueueSend, QueueSendFails, ReceiveFrame, SendFails
<1>5. SeqnumInv /\ [Next]_vars =>
        [last_datagram' # last_datagram =>
           \/ caneth_error
           \/ last_datagram'.seqnum
                = (last_datagram.seqnum + 1) % SeqnumModulus]_vars
  BY <1>4 DEF SeqnumInv, SendSucceeds, SendTo, NextSeqnum
<1> QED
  BY <1>1, <1>3, <1>5, PTL DEF Spec, SeqnumGapIsReported
=============================================================================
