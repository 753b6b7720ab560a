------------------------------- MODULE CanEth -------------------------------
(***************************************************************************)
(* The CAN-to-Ethernet bridge, src/src/task_caneth.c.                      *)
(*                                                                         *)
(* CAN1's task calls task_caneth_enqueue_rx_frame, which appends a frame   *)
(* to the FreeRTOS queue g_can_frame_queue and then sets the QUEUE bit of  *)
(* the CAN_ETH task's notification value; the flush timer sets the FLUSH   *)
(* bit every 100 ms.  The CAN_ETH task waits for a bit, moves at most one  *)
(* frame per wakeup from the queue to the UDP buffer it owns, and hands    *)
(* the buffer to the IP stack when it is full or a flush was requested.    *)
(*                                                                         *)
(* A frame is named by the number of its arrival; its content is copied    *)
(* unchanged from one stage to the next and appears in Gateway only.  The  *)
(* steps of the enqueuer, the task, the timer and the IP stack interleave  *)
(* freely, which covers every assignment of priorities.                    *)
(***************************************************************************)
EXTENDS Naturals, Sequences, FiniteSets

CONSTANTS QueueLength,    \* CAN_FRAME_QUEUE_LENGTH
          MaxCount,       \* CANETH_MAX_COUNT
          SeqnumModulus,  \* 2^16: udp_seqnum is a uint16_t
          Buffers,        \* the IP stack's network buffer descriptors
          NoBuffer,       \* the value of udp_buffer before the first one
          MaxArrivals     \* bound of the model: calls of the enqueuer

ASSUME QueueLengthAssumption == QueueLength \in Nat \ {0}
ASSUME MaxCountAssumption == MaxCount \in Nat \ {0}
ASSUME SeqnumModulusAssumption == SeqnumModulus \in Nat \ {0, 1}
ASSUME BuffersAssumption == NoBuffer \notin Buffers
ASSUME MaxArrivalsAssumption == MaxArrivals \in Nat

VARIABLES
  network_up,       \* FreeRTOS_IsNetworkUp()
  can_frame_queue,  \* g_can_frame_queue
  notify_value,     \* the set bits of g_caneth_task's notification value
  enqueuer,         \* where the caller of task_caneth_enqueue_rx_frame is
  task_pc,          \* where caneth_task is
  notif_bits,       \* its local of the same name
  buffered_frames,  \* the frames written in the UDP buffer
  udp_seqnum,       \* its local of the same name
  udp_buffer,       \* its pointer: kept, dangling, after the hand-over
  free_buffers,     \* descriptors in the IP stack's free list
  stack_buffers,    \* descriptors the IP stack or the driver is using
  caneth_error,     \* the status flag
  arrivals,         \* history: number of calls of the enqueuer
  offered,          \* history: the frames offered while the network is up
  delivered,        \* history: the frames handed to the IP stack
  last_datagram     \* history: the header of the last datagram handed over

producer_vars == <<enqueuer, arrivals, offered>>
task_vars == <<task_pc, notif_bits, buffered_frames, udp_seqnum, udp_buffer>>
stack_vars == <<free_buffers, stack_buffers>>
sent_vars == <<delivered, last_datagram>>
vars == <<network_up, can_frame_queue, notify_value, caneth_error,
          producer_vars, task_vars, stack_vars, sent_vars>>

Bits == {"queue", "flush"}

Init == /\ network_up = FALSE
        /\ can_frame_queue = <<>>
        /\ notify_value = {}
        /\ enqueuer = "idle"
        /\ task_pc = "network"
        /\ notif_bits = {}
        /\ buffered_frames = <<>>
        /\ udp_seqnum = 0
        /\ udp_buffer = NoBuffer
        /\ free_buffers = Buffers
        /\ stack_buffers = {}
        /\ caneth_error = FALSE
        /\ arrivals = 0
        /\ offered = <<>>
        /\ delivered = <<>>
        /\ last_datagram = [seqnum |-> 0, count |-> 0]

-----------------------------------------------------------------------------
(* The caller of task_caneth_enqueue_rx_frame: CAN1's task.                *)

\* Network down: the frame is dropped, by design without a report.
DropWhileDown == /\ ~network_up
                 /\ UNCHANGED <<can_frame_queue, enqueuer, offered,
                                caneth_error>>

\* xQueueSend puts the frame at the back.
QueueSent(f) == Append(can_frame_queue, f)

\* xQueueSend succeeds; xTaskNotify is the caller's next step.
QueueSend(f) == /\ network_up
                /\ Len(can_frame_queue) < QueueLength
                /\ can_frame_queue' = QueueSent(f)
                /\ offered' = Append(offered, f)
                /\ enqueuer' = "notify"
                /\ UNCHANGED caneth_error

\* xQueueSend fails: the frame is dropped and the error flag raised.
QueueSendFails(f) == /\ network_up
                     /\ Len(can_frame_queue) = QueueLength
                     /\ caneth_error' = TRUE
                     /\ offered' = Append(offered, f)
                     /\ UNCHANGED <<can_frame_queue, enqueuer>>

EnqueueRxFrame(f) == /\ enqueuer = "idle"
                     /\ DropWhileDown \/ QueueSend(f) \/ QueueSendFails(f)
                     /\ UNCHANGED <<network_up, notify_value, task_vars,
                                    stack_vars, sent_vars>>

\* A frame arrives: it gets the next number.
FrameArrives == /\ arrivals < MaxArrivals
                /\ arrivals' = arrivals + 1
                /\ EnqueueRxFrame(arrivals + 1)

\* Every accepted frame is notified, whatever the queue held before it.
NotifiedIfWasEmpty == IF Len(can_frame_queue) = 1 THEN {"queue"} ELSE {}  \* mutation
Notified == {"queue"}

\* xTaskNotify(g_caneth_task, QUEUE_EVENT_BIT, eSetBits)
NotifyCanEth == /\ enqueuer = "notify"
                /\ enqueuer' = "idle"
                /\ notify_value' = notify_value \union Notified
                /\ UNCHANGED <<network_up, can_frame_queue, caneth_error,
                               arrivals, offered, task_vars, stack_vars,
                               sent_vars>>

\* flush_timer_cb, run by the timer service task on every period
FlushTimerCb == /\ notify_value' = notify_value \union {"flush"}
                /\ UNCHANGED <<network_up, can_frame_queue, caneth_error,
                               producer_vars, task_vars, stack_vars,
                               sent_vars>>

-----------------------------------------------------------------------------
(* caneth_task                                                             *)

\* The poll of FreeRTOS_IsNetworkUp ends; the socket is created.
NetworkSeenUp == /\ task_pc = "network"
                 /\ network_up
                 /\ task_pc' = "get_buffer"
                 /\ UNCHANGED <<network_up, can_frame_queue, notify_value,
                                notif_bits, buffered_frames, udp_seqnum,
                                udp_buffer, caneth_error, producer_vars,
                                stack_vars, sent_vars>>

\* FreeRTOS_GetUDPPayloadBuffer returns a buffer; the loop around it repeats
\* the call for as long as it returns NULL.
GetUdpBuffer == /\ task_pc = "get_buffer"
                /\ \E b \in free_buffers : /\ udp_buffer' = b
                                           /\ free_buffers' = free_buffers \ {b}
                /\ task_pc' = "wait"
                /\ UNCHANGED <<network_up, can_frame_queue, notify_value,
                               notif_bits, buffered_frames, udp_seqnum,
                               stack_buffers, caneth_error, producer_vars,
                               sent_vars>>

\* ALL_EVENTS: the bits that xTaskNotifyWait clears on exit
ClearedOnExitFlushOnly == {"flush"}  \* mutation
ClearedOnExit == Bits

\* xTaskNotifyWait returns with the pending bits and clears them.
NotifyWait == /\ task_pc = "wait"
              /\ notify_value # {}
              /\ notif_bits' = notify_value
              /\ notify_value' = notify_value \ ClearedOnExit
              /\ task_pc' = IF "queue" \in notify_value THEN "receive"
                                                        ELSE "check"
              /\ UNCHANGED <<network_up, can_frame_queue, buffered_frames,
                             udp_seqnum, udp_buffer, caneth_error,
                             producer_vars, stack_vars, sent_vars>>

\* The non-blocking xQueueReceive writes one frame, if there is one, in the
\* slot after the last.
ReceiveFrame ==
  /\ task_pc = "receive"
  /\ Len(buffered_frames) < MaxCount  \* configASSERT: see BufferHasRoom
  /\ IF can_frame_queue = <<>>
       THEN UNCHANGED <<can_frame_queue, buffered_frames>>
       ELSE /\ buffered_frames' = Append(buffered_frames, Head(can_frame_queue))
            /\ can_frame_queue' = Tail(can_frame_queue)
  /\ task_pc' = "check"
  /\ UNCHANGED <<network_up, notify_value, notif_bits, udp_seqnum, udp_buffer,
                 caneth_error, producer_vars, stack_vars, sent_vars>>

ReadyToSendOnFlush == "flush" \in notif_bits  \* mutation
ReadyToSendWhenFull == Len(buffered_frames) = MaxCount  \* mutation
ReadyToSend == Len(buffered_frames) = MaxCount \/ "flush" \in notif_bits

MustSend == ReadyToSend /\ buffered_frames # <<>>

\* Nothing to send yet: back to xTaskNotifyWait.
KeepBuffering == /\ task_pc = "check"
                 /\ ~MustSend
                 /\ task_pc' = "wait"
                 /\ UNCHANGED <<network_up, can_frame_queue, notify_value,
                                notif_bits, buffered_frames, udp_seqnum,
                                udp_buffer, caneth_error, producer_vars,
                                stack_vars, sent_vars>>

\* udp_seqnum += 1 in 16 bits
NextSeqnumNoWrap == udp_seqnum + 1  \* mutation
NextSeqnum == (udp_seqnum + 1) % SeqnumModulus

\* buffered_frames = 0, sent or not
FramesKeptAfterSend == buffered_frames  \* mutation
FramesAfterSend == <<>>

\* What a call of FreeRTOS_sendto does whatever its result: the header takes
\* the next sequence number, and the buffered frames are gone.
SendTo == /\ task_pc = "check"
          /\ MustSend
          /\ udp_seqnum' = NextSeqnum
          /\ buffered_frames' = FramesAfterSend
          /\ task_pc' = "get_buffer"
          /\ UNCHANGED <<network_up, can_frame_queue, notify_value, notif_bits,
                         udp_buffer, producer_vars>>

\* sendto succeeds: the IP stack owns the zero-copy buffer from now on.
SendSucceeds == /\ SendTo
                /\ stack_buffers' = stack_buffers \union {udp_buffer}
                /\ delivered' = delivered \o buffered_frames
                /\ last_datagram' = [seqnum |-> udp_seqnum',
                                     count |-> Len(buffered_frames)]
                /\ UNCHANGED <<free_buffers, caneth_error>>

\* Mutations: the failed buffer is leaked; the failure is not reported.
SendFailsLeaking == /\ SendTo
                    /\ caneth_error' = TRUE
                    /\ UNCHANGED <<stack_vars, sent_vars>>
SendFailsSilently == /\ SendTo
                     /\ free_buffers' = free_buffers \union {udp_buffer}
                     /\ UNCHANGED <<stack_buffers, sent_vars, caneth_error>>

\* sendto fails: the task releases the buffer and raises the error flag.
SendFails == /\ SendTo
             /\ free_buffers' = free_buffers \union {udp_buffer}
             /\ caneth_error' = TRUE
             /\ UNCHANGED <<stack_buffers, sent_vars>>

-----------------------------------------------------------------------------
(* The IP stack: the network goes up and down, buffers are taken for       *)
(* received packets and released when a packet has been processed or sent. *)

NetworkChanges == /\ network_up' = ~network_up
                  /\ UNCHANGED <<can_frame_queue, notify_value, caneth_error,
                                 producer_vars, task_vars, stack_vars,
                                 sent_vars>>

StackTakes(b) == /\ b \in free_buffers
                 /\ free_buffers' = free_buffers \ {b}
                 /\ stack_buffers' = stack_buffers \union {b}
                 /\ UNCHANGED <<network_up, can_frame_queue, notify_value,
                                caneth_error, producer_vars, task_vars,
                                sent_vars>>

StackReleases(b) == /\ b \in stack_buffers
                    /\ stack_buffers' = stack_buffers \ {b}
                    /\ free_buffers' = free_buffers \union {b}
                    /\ UNCHANGED <<network_up, can_frame_queue, notify_value,
                                   caneth_error, producer_vars, task_vars,
                                   sent_vars>>

-----------------------------------------------------------------------------
Task == \/ NetworkSeenUp \/ GetUdpBuffer
        \/ NotifyWait \/ ReceiveFrame \/ KeepBuffering
        \/ SendSucceeds \/ SendFails

IpStack == \/ NetworkChanges
           \/ \E b \in Buffers : StackTakes(b) \/ StackReleases(b)

Next == FrameArrives \/ NotifyCanEth \/ FlushTimerCb \/ Task \/ IpStack

Spec == Init /\ [][Next]_vars

\* The scheduler runs every ready task and the timer keeps its period; the
\* stack finishes with every buffer it uses, and a task that waits for a
\* buffer while buffers keep being freed gets one in the end.
Fairness == /\ WF_vars(NotifyCanEth)
            /\ WF_vars(FlushTimerCb)
            /\ WF_vars(Task)
            /\ SF_vars(GetUdpBuffer)
            /\ \A b \in Buffers : WF_vars(StackReleases(b))

FairSpec == Spec /\ Fairness

-----------------------------------------------------------------------------
(* Properties                                                              *)

Frames == 1..MaxArrivals

\* Every variable keeps its type; the sequence number stays a uint16_t and
\* no queue or buffer grows past its length.
TypeOK == /\ network_up \in BOOLEAN
          /\ can_frame_queue \in Seq(Frames)
          /\ Len(can_frame_queue) <= QueueLength
          /\ notify_value \in SUBSET Bits
          /\ enqueuer \in {"idle", "notify"}
          /\ task_pc \in {"network", "get_buffer", "wait", "receive", "check"}
          /\ notif_bits \in SUBSET Bits
          /\ buffered_frames \in Seq(Frames)
          /\ Len(buffered_frames) <= MaxCount
          /\ udp_seqnum \in 0..(SeqnumModulus - 1)
          /\ udp_buffer \in Buffers \union {NoBuffer}
          /\ free_buffers \in SUBSET Buffers
          /\ stack_buffers \in SUBSET Buffers
          /\ caneth_error \in BOOLEAN
          /\ arrivals \in 0..MaxArrivals
          /\ offered \in Seq(Frames)
          /\ delivered \in Seq(Frames)
          /\ last_datagram \in [seqnum : 0..(SeqnumModulus - 1),
                                count : 0..MaxCount]

\* The wakeups owed to the task: the bit that is set, the notification its
\* sender is about to make, the bit the task has taken and not acted on.
Wakeups == (IF "queue" \in notify_value THEN 1 ELSE 0)
           + (IF enqueuer = "notify" THEN 1 ELSE 0)
           + (IF task_pc = "receive" THEN 1 ELSE 0)

\* task_caneth.c:153, "Should always happen since we we're woken up via
\* notification": the non-blocking receive always finds a frame, although
\* notifications coalesce and the bits are cleared all at once.
WakeFindsFrame == task_pc = "receive" => can_frame_queue # <<>>

\* The configASSERT of task_caneth.c:149: whatever bits coalesced, the task
\* never comes to the receive with a UDP buffer that is already full.
BufferHasRoom == task_pc = "receive" => Len(buffered_frames) < MaxCount

\* Coalesced notifications never leave the bridge wedged: a full queue,
\* which refuses every further frame, always has a wakeup on its way.
FullQueueHasWakeup == Len(can_frame_queue) = QueueLength => Wakeups > 0

\* The queued frames that no wakeup is on its way for
Backlog == Len(can_frame_queue) - Wakeups

\* What coalesced notifications leave behind stays behind: no step makes the
\* backlog smaller (task_caneth.c:150-159 takes one frame per wakeup), so that
\* from then on every frame waits for the wakeups of as many later ones.
BacklogNeverShrinks == [][Backlog' >= Backlog]_vars

\* ... but one place of the queue is always left for a frame with a wakeup.
BacklogIsBounded == Backlog \in 0..(QueueLength - 1)

\* Zero-copy ownership: the task writes only in a buffer that neither the
\* free list nor the stack has, and a buffer it gave up (sent, or released
\* after a failed sendto) is never lost.
BufferOwnership ==
  /\ free_buffers \intersect stack_buffers = {}
  /\ IF task_pc \in {"wait", "receive", "check"}
       THEN /\ udp_buffer \in Buffers \ (free_buffers \union stack_buffers)
            /\ free_buffers \union stack_buffers = Buffers \ {udp_buffer}
       ELSE free_buffers \union stack_buffers = Buffers

\* The frames past the entry of the bridge, oldest first.
Pipeline == delivered \o buffered_frames \o can_frame_queue

\* Until the caneth error flag is raised, every frame offered while the
\* network was up is in the queue, in the UDP buffer or was handed to the
\* stack, in its order: nothing is refused or dropped without the flag.
NoSilentLoss == ~caneth_error => Pipeline = offered

\* Even after losses frames are handed over in the order they arrived in and
\* none twice.
InOrder == \A i, j \in 1..Len(Pipeline) : i < j => Pipeline[i] < Pipeline[j]

\* caneth.h:27, "Number of CAN frames in the UDP message (1-16)": a flush
\* never sends an empty datagram, coalescing never an overfull one.
DatagramCountInRange == delivered # <<>> => last_datagram.count \in 1..MaxCount

\* What the receiver of the datagrams may conclude from udp_seqnum: it skips
\* a value only if a datagram was lost with the error flag raised.
SeqnumGapIsReported ==
  [][last_datagram' # last_datagram =>
       \/ caneth_error
       \/ last_datagram'.seqnum = (last_datagram.seqnum + 1) % SeqnumModulus]_vars

\* A frame written in the UDP buffer is sent or reported lost: the flush
\* timer gets it out however few frames follow it.
BufferedFramesLeave == (buffered_frames # <<>>) ~> (buffered_frames = <<>>)

\* Once the task has seen the network up, a full queue is not full for ever.
FullQueueDrains ==
  (task_pc # "network" /\ Len(can_frame_queue) = QueueLength)
    ~> (Len(can_frame_queue) < QueueLength)

\* The bridge is a lossy first-in first-out line of QueueLength + MaxCount
\* frames that reports each loss.
Bridge == INSTANCE FrameForwarder
            WITH Capacity <- QueueLength + MaxCount,
                 MaxBatch <- MaxCount,
                 pending <- buffered_frames \o can_frame_queue,
                 error <- caneth_error
ImplementsFrameForwarder == Bridge!Spec

\* task_caneth.c:179, "Favor recency": once the task has served every
\* notification and waits, no frame is left to grow old in the queue.
QueueServedWhenIdle ==
  task_pc = "wait" /\ Wakeups = 0 => can_frame_queue = <<>>
=============================================================================
