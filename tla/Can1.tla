-------------------------------- MODULE Can1 --------------------------------
(***************************************************************************)
(* Reception on CAN1, src/src/task_can1.c, with the front ends of the two  *)
(* workers, src/src/task_worker0.c and src/src/task_worker1.c.             *)
(*                                                                         *)
(* The controller stores frames in a FIFO of three mailboxes.  The RX0     *)
(* interrupt reads one frame into a static frame buffer and sends a copy   *)
(* through a message buffer to the CAN1 task, which forwards every frame   *)
(* to CAN_ETH and dispatches the DoWork0 frames to the workers' queues.    *)
(*                                                                         *)
(* The `serial' of a frame is its place in bus_log; no code reads it.      *)
(***************************************************************************)
EXTENDS Naturals, Sequences

CONSTANTS BusFrames,      \* the frames other nodes may send: [ide, id, dlc, counter]
          DoWork0Id,      \* CANPROTO_DO_WORK0_FRAME_ID
          NoId,           \* the zeroed StdId and ExtId of the static frame
          DoWork0Length,  \* CANPROTO_DO_WORK0_LENGTH, 8
          FifoDepth,      \* receive mailboxes of FIFO 0
          FrameBytes,     \* sizeof(can_rx_frame_s)
          PrefixBytes,    \* the length a message buffer stores with a message
          RxMsgbufSize,   \* RX_MSGBUF_SIZE
          WorkQueueLength,\* CAN_FRAME_QUEUE_LENGTH of either worker
          WorkPeriod,     \* the 10 of counter % 10
          MaxBusFrames    \* bound of the model: frames on the bus

ASSUME BusFramesAssumption ==
  \A f \in BusFrames : /\ f.ide \in {"std", "ext"}
                       /\ f.dlc \in 0..8
                       /\ f.counter \in 0..255
ASSUME SizesAssumption ==
  /\ {FifoDepth, FrameBytes, WorkQueueLength, WorkPeriod} \subseteq Nat \ {0}
  /\ {DoWork0Length, PrefixBytes, RxMsgbufSize, MaxBusFrames} \subseteq Nat

VARIABLES
  rx_fifo,        \* serials in the controller's FIFO 0
  isr_frame,      \* the static rx_frame of can1_pending_cb
  rx_msgbuf,      \* g_rx_msgbuf, a sequence of frames
  can1_pc,        \* where can1_task is
  rx_frame,       \* its local of the same name
  worker0_queue,  \* the queue of task_worker0.c
  worker1_queue,  \* the queue of task_worker1.c
  can1_error,     \* the status flag
  assert_failed,  \* "none", or the configASSERT of the CAN1 task that failed
  halted,         \* vAssertCalled disabled interrupts
  bus_log,        \* history: the frames sent on the bus
  overrun,        \* history: the controller overwrote a frame
  forwarded       \* history: what task_caneth_enqueue_rx_frame was given

isr_vars == <<rx_fifo, isr_frame, can1_error>>
task_vars == <<can1_pc, rx_frame>>
work_vars == <<worker0_queue, worker1_queue>>
halt_vars == <<assert_failed, halted>>
bus_vars == <<bus_log, overrun>>
vars == <<isr_vars, rx_msgbuf, task_vars, work_vars, halt_vars, bus_vars,
          forwarded>>

ZeroFrame == [serial |-> 0, ide |-> "std", std_id |-> NoId, ext_id |-> NoId,
              dlc |-> 0, counter |-> 0]

Init == /\ rx_fifo = <<>>
        /\ isr_frame = ZeroFrame
        /\ rx_msgbuf = <<>>
        /\ can1_pc = "receive"
        /\ rx_frame = ZeroFrame
        /\ worker0_queue = <<>>
        /\ worker1_queue = <<>>
        /\ can1_error = FALSE
        /\ assert_failed = "none"
        /\ halted = FALSE
        /\ bus_log = <<>>
        /\ overrun = FALSE
        /\ forwarded = <<>>

-----------------------------------------------------------------------------
(* The controller: the filter accepts every frame, and a full FIFO that is *)
(* not locked has its last mailbox overwritten without an interrupt.       *)

Stored(serial) == IF Len(rx_fifo) < FifoDepth
                    THEN Append(rx_fifo, serial)
                    ELSE [rx_fifo EXCEPT ![FifoDepth] = serial]

FrameOnBus(f) == /\ Len(bus_log) < MaxBusFrames
                 /\ bus_log' = Append(bus_log, f)
                 /\ rx_fifo' = Stored(Len(bus_log) + 1)
                 /\ overrun' = (overrun \/ Len(rx_fifo) = FifoDepth)
                 /\ UNCHANGED <<isr_frame, can1_error, rx_msgbuf, task_vars,
                                work_vars, halt_vars, forwarded>>

-----------------------------------------------------------------------------
(* The RX0 interrupt                                                       *)

\* HAL_CAN_GetRxMessage writes one of StdId and ExtId and leaves the other as
\* the frame before left it in the static buffer.
HalRxMessage(serial) ==
  LET f == bus_log[serial]
  IN  [serial |-> serial, ide |-> f.ide, dlc |-> f.dlc, counter |-> f.counter,
       std_id |-> IF f.ide = "std" THEN f.id ELSE isr_frame.std_id,
       ext_id |-> IF f.ide = "ext" THEN f.id ELSE isr_frame.ext_id]

\* A message needs room for its length as well as for its bytes.
MsgbufHasRoomOffByOne ==  \* mutation
  Len(rx_msgbuf) * (FrameBytes + PrefixBytes) <= RxMsgbufSize
MsgbufHasRoom ==
  (Len(rx_msgbuf) + 1) * (FrameBytes + PrefixBytes) <= RxMsgbufSize

\* Mutation: a full message buffer is not reported.
Can1PendingCbSilently ==
  /\ rx_fifo # <<>>
  /\ isr_frame' = HalRxMessage(Head(rx_fifo))
  /\ rx_fifo' = Tail(rx_fifo)
  /\ rx_msgbuf' = IF MsgbufHasRoom THEN Append(rx_msgbuf, isr_frame')
                                   ELSE rx_msgbuf
  /\ UNCHANGED <<can1_error, task_vars, work_vars, halt_vars, bus_vars,
                 forwarded>>

\* One call of can1_pending_cb per interrupt.  The interrupt is raised only
\* while the FIFO holds a frame and nobody else empties it, so that
\* HAL_CAN_GetRxMessage does not fail; can1_error_cb is never called, as no
\* error interrupt is activated.  That the recorder fails to log the
\* interrupt, which CAN1_RX0_IRQHandler asserts, is left out.
Can1PendingCb ==
  /\ rx_fifo # <<>>
  /\ isr_frame' = HalRxMessage(Head(rx_fifo))
  /\ rx_fifo' = Tail(rx_fifo)
  /\ IF MsgbufHasRoom
       THEN rx_msgbuf' = Append(rx_msgbuf, isr_frame') /\ UNCHANGED can1_error
       ELSE can1_error' = TRUE /\ UNCHANGED rx_msgbuf
  /\ UNCHANGED <<task_vars, work_vars, halt_vars, bus_vars, forwarded>>

-----------------------------------------------------------------------------
(* can1_task                                                               *)

Receive == /\ can1_pc = "receive"
           /\ rx_msgbuf # <<>>
           /\ rx_frame' = Head(rx_msgbuf)
           /\ rx_msgbuf' = Tail(rx_msgbuf)
           /\ can1_pc' = "forward"
           /\ UNCHANGED <<isr_vars, work_vars, halt_vars, bus_vars,
                          forwarded>>

\* What task_caneth_enqueue_rx_frame makes of a frame.
CanEthFrameByStdId(f) == [serial |-> f.serial, id |-> f.std_id,  \* mutation
                          count |-> f.dlc, ext_flag |-> f.ide = "ext"]
CanEthFrame(f) == [serial |-> f.serial,
                   id |-> IF f.ide = "std" THEN f.std_id ELSE f.ext_id,
                   count |-> f.dlc,
                   ext_flag |-> f.ide = "ext"]

\* The call of task_caneth_enqueue_rx_frame, whatever becomes of the frame.
Forward == /\ can1_pc = "forward"
           /\ forwarded' = Append(forwarded, CanEthFrame(rx_frame))
           /\ can1_pc' = "dispatch"
           /\ UNCHANGED <<isr_vars, rx_msgbuf, rx_frame, work_vars,
                          halt_vars, bus_vars>>

\* Only the StdId is compared: a stale one passes.
IsDoWork0(f) == f.std_id = DoWork0Id

Skip == /\ can1_pc = "dispatch"
        /\ ~IsDoWork0(rx_frame)
        /\ can1_pc' = "receive"
        /\ UNCHANGED <<isr_vars, rx_msgbuf, rx_frame, work_vars, halt_vars,
                       bus_vars, forwarded>>

\* A configASSERT that fails calls vAssertCalled, which does not return.
AssertFails(where) == /\ assert_failed' = where
                      /\ UNCHANGED <<isr_vars, rx_msgbuf, task_vars, work_vars,
                                     halted, bus_vars, forwarded>>

\* vAssertCalled logs with interrupts enabled, then disables them and spins.
Halt == /\ assert_failed # "none"
        /\ halted' = TRUE
        /\ UNCHANGED <<isr_vars, rx_msgbuf, task_vars, work_vars,
                       assert_failed, bus_vars, forwarded>>

\* The non-blocking xQueueSend of a worker: a full queue drops the frame with
\* a log message and no flag.
Offered(queue) == IF Len(queue) < WorkQueueLength THEN Append(queue, rx_frame)
                                                  ELSE queue

\* The assertion of task_worker0_do_work and task_worker1_do_work
WorkFrameAnyIde(f) == TRUE  \* mutation
WorkFrameIsStandard(f) == f.ide = "std"

\* task_worker0_do_work
DoWork0 == /\ can1_pc = "dispatch"
           /\ IsDoWork0(rx_frame)
           /\ WorkFrameIsStandard(rx_frame)
           /\ worker0_queue' = Offered(worker0_queue)
           /\ can1_pc' = "unpack"
           /\ UNCHANGED <<isr_vars, rx_msgbuf, rx_frame, worker1_queue,
                          halt_vars, bus_vars, forwarded>>

DoWork0Asserts == /\ can1_pc = "dispatch"
                  /\ IsDoWork0(rx_frame)
                  /\ ~WorkFrameIsStandard(rx_frame)
                  /\ AssertFails("frame_is_standard")

\* canproto_do_work0_unpack returns -EINVAL for a short frame.
UnpackFailsAtLength(f) == f.dlc <= DoWork0Length  \* mutation
UnpackFails(f) == f.dlc < DoWork0Length

UnpackAsserts == /\ can1_pc = "unpack"
                 /\ UnpackFails(rx_frame)
                 /\ AssertFails("unpack_succeeded")

\* do_work0.counter % 10 == 0
IsWorker1Turn(f) == f.counter % WorkPeriod = 0

\* task_worker1_do_work, for one frame in WorkPeriod; the frame has passed the
\* same assertions in DoWork0.
DoWork1 == /\ can1_pc = "unpack"
           /\ ~UnpackFails(rx_frame)
           /\ worker1_queue' = IF IsWorker1Turn(rx_frame)
                                 THEN Offered(worker1_queue)
                                 ELSE worker1_queue
           /\ can1_pc' = "receive"
           /\ UNCHANGED <<isr_vars, rx_msgbuf, rx_frame, worker0_queue,
                          halt_vars, bus_vars, forwarded>>

-----------------------------------------------------------------------------
(* worker_task: takes a frame and burns CPU time without looking at it.    *)

Worker0Takes == /\ worker0_queue # <<>>
                /\ worker0_queue' = Tail(worker0_queue)
                /\ UNCHANGED <<isr_vars, rx_msgbuf, task_vars, worker1_queue,
                               halt_vars, bus_vars, forwarded>>

Worker1Takes == /\ worker1_queue # <<>>
                /\ worker1_queue' = Tail(worker1_queue)
                /\ UNCHANGED <<isr_vars, rx_msgbuf, task_vars, worker0_queue,
                               halt_vars, bus_vars, forwarded>>

\* What the task does with a frame after forwarding it.
Dispatch == \/ Skip \/ DoWork0 \/ DoWork0Asserts
            \/ UnpackAsserts \/ DoWork1

Task == assert_failed = "none" /\ (Receive \/ Forward \/ Dispatch)

Next == /\ ~halted
        /\ \/ Halt
           \/ \E f \in BusFrames : FrameOnBus(f)
           \/ Can1PendingCb
           \/ Task
           \/ Worker0Takes
           \/ Worker1Takes

Spec == Init /\ [][Next]_vars

-----------------------------------------------------------------------------
(* Properties                                                              *)

Ids == {NoId} \union {f.id : f \in BusFrames}
Frame == [serial : 0..MaxBusFrames, ide : {"std", "ext"}, std_id : Ids,
          ext_id : Ids, dlc : 0..8, counter : 0..255]
\* IDE == CAN_ID_STD of task_worker0.c:44 and ret == 0 of task_can1.c:171
AssertionTexts == {"frame_is_standard", "unpack_succeeded"}

\* Every variable keeps its type; the FIFO, the message buffer and the queues
\* stay within their sizes.
TypeOK == /\ rx_fifo \in Seq(1..MaxBusFrames) /\ Len(rx_fifo) <= FifoDepth
          /\ isr_frame \in Frame
          /\ rx_msgbuf \in Seq(Frame)
          /\ Len(rx_msgbuf) * (FrameBytes + PrefixBytes) <= RxMsgbufSize
          /\ can1_pc \in {"receive", "forward", "dispatch", "unpack"}
          /\ rx_frame \in Frame
          /\ worker0_queue \in Seq(Frame)
          /\ Len(worker0_queue) <= WorkQueueLength
          /\ worker1_queue \in Seq(Frame)
          /\ Len(worker1_queue) <= WorkQueueLength
          /\ can1_error \in BOOLEAN
          /\ assert_failed \in {"none"} \union AssertionTexts
          /\ halted \in BOOLEAN
          /\ bus_log \in Seq(BusFrames) /\ Len(bus_log) <= MaxBusFrames
          /\ overrun \in BOOLEAN
          /\ forwarded \in Seq([serial : 1..MaxBusFrames, id : Ids,
                                count : 0..8, ext_flag : BOOLEAN])

Serials(frames) == [i \in 1..Len(frames) |-> frames[i].serial]

\* The serials past the controller, oldest first: forwarded, in the task's
\* hands, in the message buffer, in the FIFO.
Pipeline == Serials(forwarded)
            \o (IF can1_pc = "forward" THEN <<rx_frame.serial>> ELSE <<>>)
            \o Serials(rx_msgbuf)
            \o rx_fifo

\* Unless the controller overwrote a frame, every frame of the bus is
\* forwarded or on its way, in bus order, or the can1 error flag is raised:
\* the interrupt never drops one without the flag.
NoSilentLoss == overrun \/ can1_error \/ Pipeline = [i \in 1..Len(bus_log) |-> i]

\* Whatever was lost, frames are forwarded in bus order and never twice, and
\* a forwarded frame carries the identifier, length and format it had on the
\* bus, although the static buffer of the interrupt keeps the other
\* identifier of an earlier frame (caneth.h:33-37).
ForwardedAsOnBus ==
  /\ \A i, j \in 1..Len(Pipeline) : i < j => Pipeline[i] < Pipeline[j]
  /\ \A i \in 1..Len(forwarded) :
       LET sent == bus_log[forwarded[i].serial]
       IN  /\ forwarded[i].id = sent.id
           /\ forwarded[i].count = sent.dlc
           /\ forwarded[i].ext_flag = (sent.ide = "ext")

\* The workers get DoWork0 frames of the bus only, worker 1 only those whose
\* turn it is: a stale identifier never passes for one.
WorkersGetTheirFrames ==
  LET sent(queue, i) == bus_log[queue[i].serial]
      IsWork(f) == f.ide = "std" /\ f.id = DoWork0Id
  IN  /\ \A i \in 1..Len(worker0_queue) : IsWork(sent(worker0_queue, i))
      /\ \A i \in 1..Len(worker1_queue) :
           /\ IsWork(sent(worker1_queue, i))
           /\ sent(worker1_queue, i).counter % WorkPeriod = 0

\* On a bus that follows dbc/canproto.dbc (standard identifiers, DoWork0 of 8
\* bytes) no assertion on a received frame fails, however frames bunch up.
FollowsDbc == \A i \in 1..Len(bus_log) :
                /\ bus_log[i].ide = "std"
                /\ bus_log[i].id = DoWork0Id => bus_log[i].dlc = DoWork0Length
AssertsHold == FollowsDbc => assert_failed = "none"

\* task_worker0.c:44, configASSERT(frame->header.IDE == CAN_ID_STD)
Worker0FrameIsStandard == assert_failed # "frame_is_standard"
=============================================================================
