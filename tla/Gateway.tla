------------------------------ MODULE Gateway ------------------------------
(***************************************************************************)
(* The whole path of a frame from the CAN1 bus to a UDP datagram: Can1 and *)
(* CanEth in one system, under the scheduler's fixed priorities.           *)
(*                                                                         *)
(* Can1's Forward and CanEth's FrameArrives are the two sides of one call: *)
(* the CAN1 task goes on to dispatch the frame only when the call has made *)
(* its notification and returned.  CAN_ETH has a lower priority, so it     *)
(* runs only while the CAN1 task is blocked in xMessageBufferReceive.  The *)
(* timer service task has a higher one and may run at any time, and so may *)
(* the interrupt; the tasks of the IP stack are left free.                 *)
(***************************************************************************)
EXTENDS Naturals, Sequences

CONSTANTS BusFrames, DoWork0Id, NoId, DoWork0Length, FifoDepth, FrameBytes,
          PrefixBytes, RxMsgbufSize, WorkQueueLength, WorkPeriod, MaxBusFrames
CONSTANTS QueueLength, MaxCount, SeqnumModulus, Buffers, NoBuffer

\* The variables of Can1
VARIABLES rx_fifo, isr_frame, rx_msgbuf, can1_pc, rx_frame, worker0_queue,
          worker1_queue, can1_error, assert_failed, halted, bus_log, overrun,
          forwarded

\* The variables of CanEth
VARIABLES network_up, can_frame_queue, notify_value, enqueuer, task_pc,
          notif_bits, buffered_frames, udp_seqnum, udp_buffer, free_buffers,
          stack_buffers, caneth_error, arrivals, offered, delivered,
          last_datagram

Can1 == INSTANCE Can1
CanEth == INSTANCE CanEth WITH MaxArrivals <- MaxBusFrames

can1_vars == <<rx_fifo, isr_frame, rx_msgbuf, can1_pc, rx_frame, worker0_queue,
               worker1_queue, can1_error, assert_failed, halted, bus_log,
               overrun, forwarded>>
caneth_vars == <<network_up, can_frame_queue, notify_value, enqueuer, task_pc,
                 notif_bits, buffered_frames, udp_seqnum, udp_buffer,
                 free_buffers, stack_buffers, caneth_error, arrivals, offered,
                 delivered, last_datagram>>
vars == <<can1_vars, caneth_vars>>

\* What Can1 and CanEth assume of their constants
ASSUME PartsAssumption ==
  /\ Can1!BusFramesAssumption /\ Can1!SizesAssumption
  /\ CanEth!QueueLengthAssumption /\ CanEth!MaxCountAssumption
  /\ CanEth!SeqnumModulusAssumption /\ CanEth!BuffersAssumption
  /\ CanEth!MaxArrivalsAssumption

Init == Can1!Init /\ CanEth!Init

-----------------------------------------------------------------------------
\* task_caneth_enqueue_rx_frame, called by the CAN1 task for every frame
ForwardToCanEth == Can1!Forward /\ CanEth!FrameArrives

\* The notification, after which the call returns
ReturnToCan1 == CanEth!NotifyCanEth /\ UNCHANGED can1_vars

\* The other steps of the CAN1 task, none of them within the call
Can1TaskStep == /\ enqueuer = "idle" /\ assert_failed = "none"
                /\ Can1!Receive \/ Can1!Dispatch
                /\ UNCHANGED caneth_vars

\* The bus, the interrupt, the workers and the end of vAssertCalled
Can1EnvStep == /\ \/ Can1!Halt
                  \/ \E f \in BusFrames : Can1!FrameOnBus(f)
                  \/ Can1!Can1PendingCb
                  \/ Can1!Worker0Takes \/ Can1!Worker1Takes
               /\ UNCHANGED caneth_vars

\* The CAN1 task, of priority 3, is blocked only here.
Can1Blocked == can1_pc = "receive" /\ rx_msgbuf = <<>>

\* The CAN_ETH task, of priority 2
CanEthTaskStep == Can1Blocked /\ CanEth!Task /\ UNCHANGED can1_vars

\* The timer service task, of priority 4
TimerStep == CanEth!FlushTimerCb /\ UNCHANGED can1_vars

IpStackStep == CanEth!IpStack /\ UNCHANGED can1_vars

\* Once interrupts are disabled for good, nothing runs.
Next == /\ ~halted
        /\ \/ ForwardToCanEth \/ ReturnToCan1 \/ Can1TaskStep \/ Can1EnvStep
           \/ CanEthTaskStep \/ TimerStep \/ IpStackStep

Spec == Init /\ [][Next]_vars

-----------------------------------------------------------------------------
(* Properties                                                              *)

\* The serials on the bus of the frames past the call: sent, in the UDP
\* buffer, in the CAN_ETH queue.
Bridged == [i \in 1..Len(CanEth!Pipeline) |->
              forwarded[CanEth!Pipeline[i]].serial]

\* All frames on the path, oldest first.
Path == Bridged
        \o (IF can1_pc = "forward" THEN <<rx_frame.serial>> ELSE <<>>)
        \o Can1!Serials(rx_msgbuf)
        \o rx_fifo

\* The frames lost by design or by the controller leave no flag.
DroppedWhileDown == Len(offered) < Len(forwarded)

\* From the bus to the datagram: as long as neither error flag is raised, the
\* network was up for every frame and the controller overwrote none, every
\* frame of the bus is in a datagram or on its way there, in bus order.
EndToEndNoSilentLoss ==
  \/ overrun \/ DroppedWhileDown \/ can1_error \/ caneth_error
  \/ Path = [i \in 1..Len(bus_log) |-> i]

\* Whatever was lost on the way and wherever, the frames that arrive are in
\* bus order, and none arrives twice.
EndToEndOrder == \A i, j \in 1..Len(Path) : i < j => Path[i] < Path[j]

\* task_caneth.c:153 takes for granted that a notification stands for a frame
\* and a frame for a notification, and task_caneth.c:179 favors recency: when
\* the CAN_ETH task has served every notification and waits, no frame is left
\* to grow old in its queue.
QueueServedWhenIdle == CanEth!QueueServedWhenIdle
=============================================================================
