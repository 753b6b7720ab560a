----------------------------- MODULE Can1Proofs -----------------------------
(***************************************************************************)
(* What holds of Can1 for every set of frames the other nodes may send and *)
(* every size of the FIFO, the message buffer and the queues.              *)
(***************************************************************************)
EXTENDS Can1, SharedLemmas, SequenceTheorems, TLAPS

USE DEF isr_vars, task_vars, work_vars, halt_vars, bus_vars

-----------------------------------------------------------------------------
(* Types and contents.  Neither is inductive alone: that only frames with  *)
(* a place on the bus are forwarded is known from what they carry.         *)

\* The frame is as it was on the bus, but for the identifier that its format
\* does not use.
AsOnBus(f) ==
  /\ f.serial \in 1..Len(bus_log)
  /\ f.ide = bus_log[f.serial].ide
  /\ f.dlc = bus_log[f.serial].dlc
  /\ f.counter = bus_log[f.serial].counter
  /\ f.ide = "std" => f.std_id = bus_log[f.serial].id
  /\ f.ide = "ext" => f.ext_id = bus_log[f.serial].id

\* It is a DoWork0 frame that task_worker0_do_work accepted.
IsWork(f) == AsOnBus(f) /\ f.ide = "std" /\ f.std_id = DoWork0Id

\* CAN_ETH was given what was on the bus.
Carries(c) ==
  /\ c.serial \in 1..Len(bus_log)
  /\ c.id = bus_log[c.serial].id
  /\ c.count = bus_log[c.serial].dlc
  /\ c.ext_flag = (bus_log[c.serial].ide = "ext")

ContentInv ==
  /\ \A i \in 1..Len(rx_fifo) : rx_fifo[i] \in 1..Len(bus_log)
  /\ \A i \in 1..Len(rx_msgbuf) : AsOnBus(rx_msgbuf[i])
  /\ can1_pc # "receive" => AsOnBus(rx_frame)
  /\ can1_pc = "unpack" => IsWork(rx_frame)
  /\ \A i \in 1..Len(worker0_queue) : IsWork(worker0_queue[i])
  /\ \A i \in 1..Len(worker1_queue) :
       IsWork(worker1_queue[i]) /\ IsWorker1Turn(worker1_queue[i])
  /\ \A i \in 1..Len(forwarded) : Carries(forwarded[i])
  /\ AssertsHold

TypeInv == TypeOK /\ ContentInv

LEMMA Sizes ==
  /\ FifoDepth \in Nat /\ FifoDepth >= 1
  /\ FrameBytes \in Nat /\ PrefixBytes \in Nat /\ RxMsgbufSize \in Nat
  /\ WorkQueueLength \in Nat /\ DoWork0Length \in Nat /\ MaxBusFrames \in Nat
BY SizesAssumption

LEMMA TypeInvInit == Init => TypeInv
<1> SUFFICES ASSUME Init PROVE TypeInv
  OBVIOUS
<1>1. /\ rx_fifo = <<>> /\ rx_msgbuf = <<>> /\ worker0_queue = <<>>
      /\ worker1_queue = <<>> /\ bus_log = <<>> /\ forwarded = <<>>
  BY DEF Init
<1>2. ZeroFrame \in Frame
  BY Sizes DEF ZeroFrame, Frame, Ids
<1>3. Len(rx_msgbuf) * (FrameBytes + PrefixBytes) <= RxMsgbufSize
  BY <1>1, Sizes
<1>4. TypeOK
  <2>1. /\ rx_fifo \in Seq(1..MaxBusFrames) /\ rx_msgbuf \in Seq(Frame)
        /\ worker0_queue \in Seq(Frame) /\ worker1_queue \in Seq(Frame)
        /\ bus_log \in Seq(BusFrames)
        /\ forwarded \in Seq([serial : 1..MaxBusFrames, id : Ids,
                              count : 0..8, ext_flag : BOOLEAN])
    BY <1>1, EmptySeq
  <2>2. /\ Len(rx_fifo) <= FifoDepth /\ Len(worker0_queue) <= WorkQueueLength
        /\ Len(worker1_queue) <= WorkQueueLength
        /\ Len(bus_log) <= MaxBusFrames
    BY <1>1, Sizes
  <2>3. isr_frame \in Frame /\ rx_frame \in Frame
    BY <1>2 DEF Init
  <2> QED
    BY <1>3, <2>1, <2>2, <2>3 DEF Init, TypeOK
<1>5. ContentInv
  BY <1>1 DEF Init, ContentInv, AssertsHold
<1> QED
  BY <1>4, <1>5 DEF TypeInv

\* What is in the system stays as it was on the bus: the log only grows.
LEMMA LogGrows ==
  ASSUME TypeOK, NEW f \in BusFrames, FrameOnBus(f)
  PROVE  /\ bus_log' \in Seq(BusFrames)
         /\ Len(bus_log) \in Nat /\ Len(bus_log') = Len(bus_log) + 1
         /\ \A i \in 1..Len(bus_log) : bus_log'[i] = bus_log[i]
         /\ Len(bus_log') <= MaxBusFrames
<1>1. bus_log \in Seq(BusFrames) /\ bus_log' = Append(bus_log, f)
      /\ Len(bus_log) < MaxBusFrames
  BY DEF TypeOK, FrameOnBus
<1>2. Len(bus_log) \in Nat
  BY <1>1, LenProperties
<1> QED
  BY <1>1, <1>2, AppendProperties, Sizes

LEMMA FrameOnBusStep ==
  ASSUME TypeInv, NEW f \in BusFrames, FrameOnBus(f)
  PROVE  TypeInv'
<1>1. TypeOK /\ ContentInv
  BY DEF TypeInv
<1>2. /\ bus_log' \in Seq(BusFrames)
      /\ Len(bus_log) \in Nat /\ Len(bus_log') = Len(bus_log) + 1
      /\ \A i \in 1..Len(bus_log) : bus_log'[i] = bus_log[i]
      /\ Len(bus_log') <= MaxBusFrames
  BY <1>1, LogGrows
<1>3. UNCHANGED <<isr_frame, can1_error, rx_msgbuf, can1_pc, rx_frame,
                  worker0_queue, worker1_queue, assert_failed, halted,
                  forwarded>>
  BY DEF FrameOnBus
<1>4. /\ rx_fifo' \in Seq(1..MaxBusFrames)
      /\ Len(rx_fifo') <= FifoDepth
      /\ \A i \in 1..Len(rx_fifo') : rx_fifo'[i] \in 1..Len(bus_log')
  <2> DEFINE n == Len(bus_log) + 1
  <2>1. n \in 1..MaxBusFrames /\ n \in 1..Len(bus_log')
    BY <1>2, Sizes
  <2>2. /\ rx_fifo \in Seq(1..MaxBusFrames) /\ Len(rx_fifo) <= FifoDepth
        /\ Len(rx_fifo) \in Nat
        /\ \A i \in 1..Len(rx_fifo) : rx_fifo[i] \in 1..Len(bus_log')
    BY <1>1, <1>2, LenProperties DEF TypeOK, ContentInv
  <2>3. CASE Len(rx_fifo) < FifoDepth
    <3>1. rx_fifo' = Append(rx_fifo, n)
      BY <2>3 DEF FrameOnBus, Stored
    <3> QED
      BY <2>1, <2>2, <2>3, <3>1, AppendProperties, Sizes
  <2>4. CASE ~(Len(rx_fifo) < FifoDepth)
    <3>1. rx_fifo' = [rx_fifo EXCEPT ![FifoDepth] = n]
      BY <2>4 DEF FrameOnBus, Stored
    <3>2. FifoDepth \in 1..Len(rx_fifo)
      BY <2>2, <2>4, Sizes
    <3> QED
      BY <2>1, <2>2, <3>1, <3>2, ExceptSeq
  <2> QED
    BY <2>3, <2>4
<1>5. TypeOK'
  <2>1. overrun' \in BOOLEAN
    BY <1>1 DEF FrameOnBus, TypeOK
  <2> QED
    BY <1>1, <1>2, <1>3, <1>4, <2>1 DEF TypeOK
<1>6. ContentInv'
  <2>1. \A g : AsOnBus(g) => AsOnBus(g)'
    BY <1>2 DEF AsOnBus
  <2>2. \A g : IsWork(g) => IsWork(g)'
    BY <2>1 DEF IsWork
  <2>3. \A c : Carries(c) => Carries(c)'
    BY <1>2 DEF Carries
  <2>4. AssertsHold'
    <3>1. FollowsDbc' => FollowsDbc
      BY <1>2 DEF FollowsDbc
    <3> QED
      BY <1>1, <1>3, <3>1 DEF ContentInv, AssertsHold
  <2>5. /\ \A i \in 1..Len(rx_msgbuf') : AsOnBus(rx_msgbuf[i])'
        /\ can1_pc' # "receive" => AsOnBus(rx_frame)'
        /\ can1_pc' = "unpack" => IsWork(rx_frame)'
    BY <1>1, <1>3, <2>1, <2>2 DEF ContentInv
  <2>6. /\ \A i \in 1..Len(worker0_queue') : IsWork(worker0_queue[i])'
        /\ \A i \in 1..Len(worker1_queue') :
             IsWork(worker1_queue[i])' /\ IsWorker1Turn(worker1_queue[i])'
    BY <1>1, <1>3, <2>2 DEF ContentInv, IsWorker1Turn
  <2>7. \A i \in 1..Len(forwarded') : Carries(forwarded[i])'
    BY <1>1, <1>3, <2>3 DEF ContentInv
  <2> QED
    BY <1>4, <2>4, <2>5, <2>6, <2>7 DEF ContentInv
<1> QED
  BY <1>5, <1>6 DEF TypeInv

\* Room for a message is room for its prefix, and taking one makes room.
LEMMA MsgbufTake ==
  ASSUME TypeOK, rx_msgbuf # <<>>
  PROVE  /\ Tail(rx_msgbuf) \in Seq(Frame)
         /\ Head(rx_msgbuf) \in Frame /\ Head(rx_msgbuf) = rx_msgbuf[1]
         /\ Len(rx_msgbuf) \in Nat \ {0}
         /\ Len(Tail(rx_msgbuf)) = Len(rx_msgbuf) - 1
         /\ \A i \in 1..Len(Tail(rx_msgbuf)) :
              Tail(rx_msgbuf)[i] = rx_msgbuf[i + 1]
         /\ Len(Tail(rx_msgbuf)) * (FrameBytes + PrefixBytes) <= RxMsgbufSize
<1> DEFINE n == Len(rx_msgbuf)
           b == FrameBytes + PrefixBytes
<1>1. /\ rx_msgbuf \in Seq(Frame) /\ n * b <= RxMsgbufSize
      /\ b \in Nat /\ RxMsgbufSize \in Nat
  BY Sizes DEF TypeOK
<1>2. n \in Nat \ {0} /\ Head(rx_msgbuf) = rx_msgbuf[1]
  BY <1>1, EmptySeq
<1>3. (n - 1) * b <= RxMsgbufSize
  <2> HIDE DEF n, b
  <2>1. n * b = (n - 1) * b + b
    BY <1>1, <1>2
  <2>2. (n - 1) * b \in Nat
    BY <1>1, <1>2
  <2> QED
    BY <1>1, <2>1, <2>2
<1> QED
  BY <1>1, <1>2, <1>3, HeadTailProperties

\* The interrupt makes a frame that is as it was on the bus.
LEMMA HalRxMessageType ==
  ASSUME TypeInv, rx_fifo # <<>>
  PROVE  /\ HalRxMessage(Head(rx_fifo)) \in Frame
         /\ AsOnBus(HalRxMessage(Head(rx_fifo)))
         /\ HalRxMessage(Head(rx_fifo)).serial = Head(rx_fifo)
         /\ Tail(rx_fifo) \in Seq(1..MaxBusFrames)
         /\ Len(rx_fifo) \in Nat \ {0}
         /\ Len(Tail(rx_fifo)) = Len(rx_fifo) - 1
         /\ \A i \in 1..Len(Tail(rx_fifo)) : Tail(rx_fifo)[i] = rx_fifo[i + 1]
<1>1. /\ rx_fifo \in Seq(1..MaxBusFrames) /\ bus_log \in Seq(BusFrames)
      /\ isr_frame \in Frame
  BY DEF TypeInv, TypeOK
<1>2. Len(rx_fifo) \in Nat \ {0} /\ Head(rx_fifo) = rx_fifo[1]
  BY <1>1, EmptySeq
<1>3. /\ Head(rx_fifo) \in 1..Len(bus_log)
      /\ Head(rx_fifo) \in 1..MaxBusFrames
  <2>1. 1 \in 1..Len(rx_fifo)
    BY <1>2
  <2>2. rx_fifo[1] \in 1..MaxBusFrames
    BY <1>1, <2>1, ElementOfSeq
  <2>3. rx_fifo[1] \in 1..Len(bus_log)
    BY <2>1 DEF TypeInv, ContentInv
  <2> QED
    BY <1>2, <2>2, <2>3
<1>4. bus_log[Head(rx_fifo)] \in BusFrames
  BY <1>1, <1>3, ElementOfSeq
<1> DEFINE f == bus_log[Head(rx_fifo)]
<1>5. /\ f.ide \in {"std", "ext"} /\ f.dlc \in 0..8 /\ f.counter \in 0..255
      /\ f.id \in Ids
  BY <1>4, BusFramesAssumption DEF Ids
<1>6. isr_frame.std_id \in Ids /\ isr_frame.ext_id \in Ids
  BY <1>1 DEF Frame
<1>7. HalRxMessage(Head(rx_fifo)) \in Frame
  BY <1>3, <1>5, <1>6, Sizes DEF HalRxMessage, Frame
<1>8. AsOnBus(HalRxMessage(Head(rx_fifo)))
  BY <1>3, <1>5 DEF HalRxMessage, AsOnBus
<1>9. HalRxMessage(Head(rx_fifo)).serial = Head(rx_fifo)
  BY DEF HalRxMessage
<1> QED
  BY <1>1, <1>2, <1>7, <1>8, <1>9, HeadTailProperties

\* The contents of all that a step leaves alone stay as they are.
LEMMA Kept ==
  ASSUME ContentInv, UNCHANGED bus_log
  PROVE  /\ \A g : AsOnBus(g) => AsOnBus(g)'
         /\ \A g : IsWork(g) => IsWork(g)'
         /\ \A c : Carries(c) => Carries(c)'
         /\ UNCHANGED assert_failed => AssertsHold'
BY DEF AsOnBus, IsWork, Carries, ContentInv, AssertsHold, FollowsDbc

LEMMA Can1PendingCbStep == TypeInv /\ Can1PendingCb => TypeInv'
<1> SUFFICES ASSUME TypeInv, Can1PendingCb PROVE TypeInv'
  OBVIOUS
<1> DEFINE h == HalRxMessage(Head(rx_fifo))
<1>1. TypeOK /\ ContentInv
  BY DEF TypeInv
<1>2. /\ rx_fifo # <<>> /\ isr_frame' = h /\ rx_fifo' = Tail(rx_fifo)
      /\ UNCHANGED <<can1_pc, rx_frame, worker0_queue, worker1_queue,
                     assert_failed, halted, bus_log, overrun, forwarded>>
  BY DEF Can1PendingCb
<1>3. /\ h \in Frame /\ AsOnBus(h)
      /\ rx_fifo' \in Seq(1..MaxBusFrames)
      /\ Len(rx_fifo) \in Nat \ {0}
      /\ Len(rx_fifo') = Len(rx_fifo) - 1
      /\ \A i \in 1..Len(rx_fifo') : rx_fifo'[i] = rx_fifo[i + 1]
  BY <1>2, HalRxMessageType
<1> HIDE DEF h
<1>4. /\ rx_msgbuf' \in Seq(Frame)
      /\ Len(rx_msgbuf') * (FrameBytes + PrefixBytes) <= RxMsgbufSize
      /\ \A i \in 1..Len(rx_msgbuf') : AsOnBus(rx_msgbuf'[i])
      /\ can1_error' \in BOOLEAN
  <2>1. /\ rx_msgbuf \in Seq(Frame) /\ can1_error \in BOOLEAN
        /\ Len(rx_msgbuf) * (FrameBytes + PrefixBytes) <= RxMsgbufSize
        /\ \A i \in 1..Len(rx_msgbuf) : AsOnBus(rx_msgbuf[i])
        /\ Len(rx_msgbuf) \in Nat
    BY <1>1, LenProperties DEF TypeOK, ContentInv
  <2>2. CASE MsgbufHasRoom
    <3>1. rx_msgbuf' = Append(rx_msgbuf, h) /\ UNCHANGED can1_error
      BY <1>2, <2>2 DEF Can1PendingCb
    <3>2. /\ rx_msgbuf' \in Seq(Frame)
          /\ Len(rx_msgbuf') = Len(rx_msgbuf) + 1
          /\ \A i \in 1..Len(rx_msgbuf) : rx_msgbuf'[i] = rx_msgbuf[i]
          /\ rx_msgbuf'[Len(rx_msgbuf) + 1] = h
      BY <1>3, <2>1, <3>1, AppendProperties
    <3>3. Len(rx_msgbuf') * (FrameBytes + PrefixBytes) <= RxMsgbufSize
      BY <2>2, <3>2 DEF MsgbufHasRoom
    <3>4. \A i \in 1..Len(rx_msgbuf') : AsOnBus(rx_msgbuf'[i])
      <4> SUFFICES ASSUME NEW i \in 1..Len(rx_msgbuf')
                   PROVE  AsOnBus(rx_msgbuf'[i])
        OBVIOUS
      <4>1. CASE i = Len(rx_msgbuf) + 1
        BY <1>3, <3>2, <4>1
      <4>2. CASE i \in 1..Len(rx_msgbuf)
        BY <2>1, <3>2, <4>2
      <4> QED
        BY <2>1, <3>2, <4>1, <4>2
    <3> QED
      BY <2>1, <3>1, <3>2, <3>3, <3>4
  <2>3. CASE ~MsgbufHasRoom
    BY <2>1, <2>3 DEF Can1PendingCb
  <2> QED
    BY <2>2, <2>3
<1>5. TypeOK'
  <2>1. Len(rx_fifo') <= FifoDepth
    BY <1>1, <1>3, Sizes DEF TypeOK
  <2> QED
    BY <1>1, <1>2, <1>3, <1>4, <2>1 DEF TypeOK
<1>6. ContentInv'
  <2>1. \A i \in 1..Len(rx_fifo') : rx_fifo'[i] \in 1..Len(bus_log')
    BY <1>1, <1>2, <1>3 DEF ContentInv
  <2>2. \A i \in 1..Len(rx_msgbuf') : AsOnBus(rx_msgbuf[i])'
    BY <1>1, <1>2, <1>4, Kept
  <2>3. /\ can1_pc' # "receive" => AsOnBus(rx_frame)'
        /\ can1_pc' = "unpack" => IsWork(rx_frame)'
    BY <1>1, <1>2, Kept DEF ContentInv
  <2>4. /\ \A i \in 1..Len(worker0_queue') : IsWork(worker0_queue[i])'
        /\ \A i \in 1..Len(worker1_queue') :
             IsWork(worker1_queue[i])' /\ IsWorker1Turn(worker1_queue[i])'
    BY <1>1, <1>2, Kept DEF ContentInv, IsWorker1Turn
  <2>5. \A i \in 1..Len(forwarded') : Carries(forwarded[i])'
    BY <1>1, <1>2, Kept DEF ContentInv
  <2>6. AssertsHold'
    BY <1>1, <1>2, Kept
  <2> QED
    BY <2>1, <2>2, <2>3, <2>4, <2>5, <2>6 DEF ContentInv
<1> QED
  BY <1>5, <1>6 DEF TypeInv

\* The message at the head of the buffer becomes rx_frame.
LEMMA ReceiveStep == TypeInv /\ Receive => TypeInv'
<1> SUFFICES ASSUME TypeInv, Receive PROVE TypeInv'
  OBVIOUS
<1>1. TypeOK /\ ContentInv
  BY DEF TypeInv
<1>2. /\ rx_msgbuf # <<>> /\ rx_frame' = Head(rx_msgbuf)
      /\ rx_msgbuf' = Tail(rx_msgbuf) /\ can1_pc' = "forward"
      /\ UNCHANGED <<rx_fifo, isr_frame, can1_error, worker0_queue,
                     worker1_queue, assert_failed, halted, bus_log, overrun,
                     forwarded>>
  BY DEF Receive
<1>3. /\ rx_msgbuf' \in Seq(Frame)
      /\ rx_frame' \in Frame /\ rx_frame' = rx_msgbuf[1]
      /\ Len(rx_msgbuf) \in Nat \ {0}
      /\ Len(rx_msgbuf') = Len(rx_msgbuf) - 1
      /\ \A i \in 1..Len(rx_msgbuf') : rx_msgbuf'[i] = rx_msgbuf[i + 1]
      /\ Len(rx_msgbuf') * (FrameBytes + PrefixBytes) <= RxMsgbufSize
  BY <1>1, <1>2, MsgbufTake
<1>4. TypeOK'
  BY <1>1, <1>2, <1>3 DEF TypeOK
<1>5. ContentInv'
  <2>1. \A i \in 1..Len(rx_msgbuf') : AsOnBus(rx_msgbuf[i])'
    <3>1. \A i \in 1..Len(rx_msgbuf') : AsOnBus(rx_msgbuf'[i])
      BY SMTT(60), <1>1, <1>3 DEF ContentInv
    <3> QED
      BY <1>1, <1>2, <3>1, Kept
  <2>2. AsOnBus(rx_frame)'
    <3>1. AsOnBus(rx_frame')
      BY <1>1, <1>3 DEF ContentInv
    <3> QED
      BY <1>1, <1>2, <3>1, Kept
  <2>3. /\ \A i \in 1..Len(rx_fifo') : rx_fifo'[i] \in 1..Len(bus_log')
        /\ \A i \in 1..Len(worker0_queue') : IsWork(worker0_queue[i])'
        /\ \A i \in 1..Len(worker1_queue') :
             IsWork(worker1_queue[i])' /\ IsWorker1Turn(worker1_queue[i])'
        /\ \A i \in 1..Len(forwarded') : Carries(forwarded[i])'
    BY <1>1, <1>2, Kept DEF ContentInv, IsWorker1Turn
  <2> QED
    BY <1>1, <1>2, <2>1, <2>2, <2>3, Kept DEF ContentInv
<1> QED
  BY <1>4, <1>5 DEF TypeInv

\* CAN_ETH is given a frame with a place on the bus.
LEMMA CanEthFrameType ==
  ASSUME TypeInv, can1_pc = "forward"
  PROVE  CanEthFrame(rx_frame) \in [serial : 1..MaxBusFrames, id : Ids,
                                    count : 0..8, ext_flag : BOOLEAN]
<1>1. AsOnBus(rx_frame) /\ rx_frame \in Frame
  BY DEF TypeInv, ContentInv, TypeOK
<1>2. rx_frame.serial \in 1..MaxBusFrames
  BY <1>1, Sizes DEF TypeInv, AsOnBus, TypeOK, Frame
<1>3. /\ rx_frame.std_id \in Ids /\ rx_frame.ext_id \in Ids
      /\ rx_frame.dlc \in 0..8
  BY <1>1 DEF Frame
<1> QED
  BY <1>2, <1>3 DEF CanEthFrame

\* CAN_ETH is given what rx_frame holds.
LEMMA ForwardStep == TypeInv /\ Forward => TypeInv'
<1> SUFFICES ASSUME TypeInv, Forward PROVE TypeInv'
  OBVIOUS
<1> DEFINE c == CanEthFrame(rx_frame)
<1>1. TypeOK /\ ContentInv
  BY DEF TypeInv
<1>2. /\ can1_pc = "forward" /\ forwarded' = Append(forwarded, c)
      /\ can1_pc' = "dispatch"
      /\ UNCHANGED <<rx_fifo, isr_frame, can1_error, rx_msgbuf, rx_frame,
                     worker0_queue, worker1_queue, assert_failed, halted,
                     bus_log, overrun>>
  BY DEF Forward
<1>3. AsOnBus(rx_frame) /\ rx_frame \in Frame
  BY <1>1, <1>2 DEF ContentInv, TypeOK
<1>4. Carries(c)
  <2>1. rx_frame.ide \in {"std", "ext"}
    BY <1>3 DEF Frame
  <2> QED
    BY <1>3, <2>1 DEF AsOnBus, Carries, CanEthFrame
<1>5. c \in [serial : 1..MaxBusFrames, id : Ids, count : 0..8,
            ext_flag : BOOLEAN]
  BY <1>2, CanEthFrameType
<1> HIDE DEF c
<1>6. /\ forwarded' \in Seq([serial : 1..MaxBusFrames, id : Ids,
                             count : 0..8, ext_flag : BOOLEAN])
      /\ Len(forwarded) \in Nat
      /\ Len(forwarded') = Len(forwarded) + 1
      /\ \A i \in 1..Len(forwarded) : forwarded'[i] = forwarded[i]
      /\ forwarded'[Len(forwarded) + 1] = c
  BY <1>1, <1>2, <1>5, AppendProperties, LenProperties DEF TypeOK
<1>7. TypeOK'
  BY <1>1, <1>2, <1>6 DEF TypeOK
<1>8. ContentInv'
  <2>1. \A i \in 1..Len(forwarded') : Carries(forwarded[i])'
    <3> SUFFICES ASSUME NEW i \in 1..Len(forwarded')
                 PROVE  Carries(forwarded'[i])
      BY <1>1, <1>2, Kept
    <3>1. CASE i = Len(forwarded) + 1
      BY <1>4, <1>6, <3>1
    <3>2. CASE i \in 1..Len(forwarded)
      BY <1>1, <1>6, <3>2 DEF ContentInv
    <3> QED
      BY <1>6, <3>1, <3>2
  <2>2. /\ \A i \in 1..Len(rx_fifo') : rx_fifo'[i] \in 1..Len(bus_log')
        /\ \A i \in 1..Len(rx_msgbuf') : AsOnBus(rx_msgbuf[i])'
        /\ AsOnBus(rx_frame)'
        /\ \A i \in 1..Len(worker0_queue') : IsWork(worker0_queue[i])'
        /\ \A i \in 1..Len(worker1_queue') :
             IsWork(worker1_queue[i])' /\ IsWorker1Turn(worker1_queue[i])'
    BY <1>1, <1>2, <1>3, Kept DEF ContentInv, IsWorker1Turn
  <2> QED
    BY <1>1, <1>2, <2>1, <2>2, Kept DEF ContentInv
<1> QED
  BY <1>7, <1>8 DEF TypeInv

\* A worker is offered the frame in the task's hands.
LEMMA OfferedType ==
  ASSUME TypeOK, NEW queue \in Seq(Frame), Len(queue) <= WorkQueueLength,
         NEW added, added = Offered(queue)
  PROVE  /\ added \in Seq(Frame) /\ Len(added) <= WorkQueueLength
         /\ \A i \in 1..Len(added) :
              \/ added[i] = rx_frame
              \/ i \in 1..Len(queue) /\ added[i] = queue[i]
<1>1. rx_frame \in Frame /\ Len(queue) \in Nat
  BY LenProperties DEF TypeOK
<1>2. CASE Len(queue) < WorkQueueLength
  <2>1. added = Append(queue, rx_frame)
    BY <1>2 DEF Offered
  <2>2. /\ added \in Seq(Frame) /\ Len(added) = Len(queue) + 1
        /\ \A i \in 1..Len(queue) : added[i] = queue[i]
        /\ added[Len(queue) + 1] = rx_frame
    BY <1>1, <2>1, AppendProperties
  <2> QED
    BY <1>1, <1>2, <2>2, Sizes
<1>3. CASE ~(Len(queue) < WorkQueueLength)
  BY <1>3 DEF Offered
<1> QED
  BY <1>2, <1>3

\* A worker takes a frame.
LEMMA TakenType ==
  ASSUME NEW queue \in Seq(Frame), Len(queue) <= WorkQueueLength, queue # <<>>,
         NEW left, left = Tail(queue)
  PROVE  /\ left \in Seq(Frame) /\ Len(left) <= WorkQueueLength
         /\ \A i \in 1..Len(left) :
              i + 1 \in 1..Len(queue) /\ left[i] = queue[i + 1]
<1>1. Len(queue) \in Nat \ {0}
  BY EmptySeq
<1> QED
  BY <1>1, HeadTailProperties, Sizes

\* A worker's step leaves what the interrupt and the task have.
LEMMA WorkStep ==
  ASSUME TypeInv,
         UNCHANGED <<rx_fifo, isr_frame, can1_error, rx_msgbuf, rx_frame,
                     halted, bus_log, overrun, forwarded>>,
         /\ worker0_queue' \in Seq(Frame)
         /\ Len(worker0_queue') <= WorkQueueLength
         /\ \A i \in 1..Len(worker0_queue') : IsWork(worker0_queue'[i]),
         /\ worker1_queue' \in Seq(Frame)
         /\ Len(worker1_queue') <= WorkQueueLength
         /\ \A i \in 1..Len(worker1_queue') :
              IsWork(worker1_queue'[i]) /\ IsWorker1Turn(worker1_queue'[i]),
         can1_pc' \in {"receive", "forward", "dispatch", "unpack"},
         can1_pc' # "receive" => can1_pc # "receive",
         can1_pc' = "unpack" => IsWork(rx_frame),
         assert_failed' \in {"none"} \union AssertionTexts, AssertsHold'
  PROVE  TypeInv'
<1>1. TypeOK /\ ContentInv
  BY DEF TypeInv
<1>2. TypeOK'
  BY <1>1 DEF TypeOK
<1>3. /\ \A i \in 1..Len(worker0_queue') : IsWork(worker0_queue[i])'
      /\ \A i \in 1..Len(worker1_queue') :
           IsWork(worker1_queue[i])' /\ IsWorker1Turn(worker1_queue[i])'
  BY <1>1, Kept DEF IsWorker1Turn
<1>4. /\ \A i \in 1..Len(rx_fifo') : rx_fifo'[i] \in 1..Len(bus_log')
      /\ \A i \in 1..Len(rx_msgbuf') : AsOnBus(rx_msgbuf[i])'
      /\ can1_pc' # "receive" => AsOnBus(rx_frame)'
      /\ can1_pc' = "unpack" => IsWork(rx_frame)'
      /\ \A i \in 1..Len(forwarded') : Carries(forwarded[i])'
  BY <1>1, Kept DEF ContentInv
<1> QED
  BY <1>2, <1>3, <1>4 DEF TypeInv, ContentInv

\* The other steps of the task and of the workers.
LEMMA SkipStep == TypeInv /\ Skip => TypeInv'
<1> SUFFICES ASSUME TypeInv, Skip PROVE TypeInv'
  OBVIOUS
<1>1. TypeOK /\ ContentInv
  BY DEF TypeInv
<1>2. /\ can1_pc = "dispatch" /\ can1_pc' = "receive"
      /\ UNCHANGED <<rx_fifo, isr_frame, can1_error, rx_msgbuf, rx_frame,
                     worker0_queue, worker1_queue, assert_failed, halted,
                     bus_log, overrun, forwarded>>
  BY DEF Skip
<1>3. AssertsHold'
  BY <1>1, <1>2, Kept
<1> QED
  BY <1>1, <1>2, <1>3, WorkStep DEF TypeOK, ContentInv

LEMMA DoWork0Step == TypeInv /\ DoWork0 => TypeInv'
<1> SUFFICES ASSUME TypeInv, DoWork0 PROVE TypeInv'
  OBVIOUS
<1>1. TypeOK /\ ContentInv
  BY DEF TypeInv
<1>2. /\ can1_pc = "dispatch" /\ can1_pc' = "unpack"
      /\ worker0_queue' = Offered(worker0_queue)
      /\ UNCHANGED <<rx_fifo, isr_frame, can1_error, rx_msgbuf, rx_frame,
                     worker1_queue, assert_failed, halted, bus_log, overrun,
                     forwarded>>
  BY DEF DoWork0
<1>3. IsWork(rx_frame)
  BY <1>1, <1>2 DEF ContentInv, DoWork0, IsDoWork0, WorkFrameIsStandard, IsWork
<1>4. /\ worker0_queue' \in Seq(Frame)
      /\ Len(worker0_queue') <= WorkQueueLength
      /\ \A i \in 1..Len(worker0_queue') :
           \/ worker0_queue'[i] = rx_frame
           \/ /\ i \in 1..Len(worker0_queue)
              /\ worker0_queue'[i] = worker0_queue[i]
  <2>1. worker0_queue \in Seq(Frame) /\ Len(worker0_queue) <= WorkQueueLength
    BY <1>1 DEF TypeOK
  <2> QED
    BY <1>1, <1>2, <2>1, OfferedType
<1>5. \A i \in 1..Len(worker0_queue') : IsWork(worker0_queue'[i])
  BY <1>1, <1>3, <1>4 DEF ContentInv
<1>6. AssertsHold'
  BY <1>1, <1>2, Kept
<1> QED
  BY <1>1, <1>2, <1>3, <1>4, <1>5, <1>6, WorkStep DEF TypeOK, ContentInv

LEMMA DoWork1Step == TypeInv /\ DoWork1 => TypeInv'
<1> SUFFICES ASSUME TypeInv, DoWork1 PROVE TypeInv'
  OBVIOUS
<1>1. TypeOK /\ ContentInv
  BY DEF TypeInv
<1>2. /\ can1_pc = "unpack" /\ can1_pc' = "receive"
      /\ worker1_queue' = IF IsWorker1Turn(rx_frame)
                            THEN Offered(worker1_queue)
                            ELSE worker1_queue
      /\ UNCHANGED <<rx_fifo, isr_frame, can1_error, rx_msgbuf, rx_frame,
                     worker0_queue, assert_failed, halted, bus_log, overrun,
                     forwarded>>
  BY DEF DoWork1
<1>3. /\ IsWork(rx_frame)
      /\ worker1_queue \in Seq(Frame) /\ Len(worker1_queue) <= WorkQueueLength
      /\ \A i \in 1..Len(worker1_queue) :
           IsWork(worker1_queue[i]) /\ IsWorker1Turn(worker1_queue[i])
  BY <1>1, <1>2 DEF ContentInv, TypeOK
<1>4. /\ worker1_queue' \in Seq(Frame)
      /\ Len(worker1_queue') <= WorkQueueLength
      /\ \A i \in 1..Len(worker1_queue') :
           IsWork(worker1_queue'[i]) /\ IsWorker1Turn(worker1_queue'[i])
  <2>1. CASE IsWorker1Turn(rx_frame)
    <3>1. /\ worker1_queue' \in Seq(Frame)
          /\ Len(worker1_queue') <= WorkQueueLength
          /\ \A i \in 1..Len(worker1_queue') :
               \/ worker1_queue'[i] = rx_frame
               \/ /\ i \in 1..Len(worker1_queue)
                  /\ worker1_queue'[i] = worker1_queue[i]
      BY <1>1, <1>2, <1>3, <2>1, OfferedType
    <3> QED
      BY <1>3, <2>1, <3>1
  <2>2. CASE ~IsWorker1Turn(rx_frame)
    BY <1>2, <1>3, <2>2
  <2> QED
    BY <2>1, <2>2
<1>5. AssertsHold'
  BY <1>1, <1>2, Kept
<1> QED
  BY <1>1, <1>2, <1>3, <1>4, <1>5, WorkStep DEF TypeOK, ContentInv

\* An assertion fails on a frame that canproto.dbc does not describe.
LEMMA AssertionStep ==
  TypeInv /\ (DoWork0Asserts \/ UnpackAsserts) => TypeInv'
<1> SUFFICES ASSUME TypeInv, DoWork0Asserts \/ UnpackAsserts PROVE TypeInv'
  OBVIOUS
<1>1. TypeOK /\ ContentInv
  BY DEF TypeInv
<1>2. /\ can1_pc # "receive"
      /\ assert_failed' \in {"none"} \union AssertionTexts
      /\ UNCHANGED <<rx_fifo, isr_frame, can1_error, rx_msgbuf, can1_pc,
                     rx_frame, worker0_queue, worker1_queue, halted, bus_log,
                     overrun, forwarded>>
  BY DEF DoWork0Asserts, UnpackAsserts, AssertFails, AssertionTexts
<1>3. AsOnBus(rx_frame) /\ bus_log \in Seq(BusFrames)
  BY <1>1, <1>2 DEF ContentInv, TypeOK
<1>4. ~FollowsDbc
  <2>1. CASE DoWork0Asserts
    <3>1. rx_frame.ide # "std"
      BY <2>1 DEF DoWork0Asserts, WorkFrameIsStandard
    <3> QED
      BY <1>3, <3>1 DEF AsOnBus, FollowsDbc
  <2>2. CASE UnpackAsserts
    <3>1. rx_frame.dlc < DoWork0Length /\ IsWork(rx_frame)
      BY <1>1, <2>2 DEF UnpackAsserts, UnpackFails, ContentInv
    <3>2. rx_frame.dlc \in Nat
      <4>1. rx_frame \in Frame
        BY <1>1 DEF TypeOK
      <4> QED
        BY <4>1 DEF Frame
    <3>3. /\ bus_log[rx_frame.serial].id = DoWork0Id
          /\ bus_log[rx_frame.serial].dlc < DoWork0Length
          /\ bus_log[rx_frame.serial].dlc # DoWork0Length
      BY <3>1, <3>2, Sizes DEF IsWork, AsOnBus
    <3> QED
      BY <1>3, <3>3 DEF AsOnBus, FollowsDbc
  <2> QED
    BY <2>1, <2>2
<1>5. AssertsHold'
  BY <1>2, <1>4 DEF AssertsHold, FollowsDbc
<1> QED
  BY <1>1, <1>2, <1>5, WorkStep DEF TypeOK, ContentInv

\* A worker's queue gets shorter.
LEMMA WorkerTakesStep ==
  TypeInv /\ (Worker0Takes \/ Worker1Takes) => TypeInv'
<1> SUFFICES ASSUME TypeInv, Worker0Takes \/ Worker1Takes PROVE TypeInv'
  OBVIOUS
<1>1. /\ ContentInv
      /\ worker0_queue \in Seq(Frame) /\ Len(worker0_queue) <= WorkQueueLength
      /\ worker1_queue \in Seq(Frame) /\ Len(worker1_queue) <= WorkQueueLength
      /\ can1_pc \in {"receive", "forward", "dispatch", "unpack"}
      /\ assert_failed \in {"none"} \union AssertionTexts
  BY DEF TypeInv, TypeOK
<1>2. /\ \A i \in 1..Len(worker0_queue) : IsWork(worker0_queue[i])
      /\ \A i \in 1..Len(worker1_queue) :
           IsWork(worker1_queue[i]) /\ IsWorker1Turn(worker1_queue[i])
      /\ can1_pc = "unpack" => IsWork(rx_frame)
  BY <1>1 DEF ContentInv
<1>3. UNCHANGED <<rx_fifo, isr_frame, can1_error, rx_msgbuf, can1_pc,
                  rx_frame, assert_failed, halted, bus_log, overrun,
                  forwarded>>
  BY DEF Worker0Takes, Worker1Takes
<1>4. AssertsHold'
  BY <1>1, <1>3, Kept
<1>5. CASE Worker0Takes
  <2>1. /\ worker0_queue # <<>> /\ worker0_queue' = Tail(worker0_queue)
        /\ UNCHANGED worker1_queue
    BY <1>5 DEF Worker0Takes
  <2>2. /\ worker0_queue' \in Seq(Frame)
        /\ Len(worker0_queue') <= WorkQueueLength
        /\ \A i \in 1..Len(worker0_queue') :
             /\ i + 1 \in 1..Len(worker0_queue)
             /\ worker0_queue'[i] = worker0_queue[i + 1]
    BY <1>1, <2>1, TakenType
  <2>3. \A i \in 1..Len(worker0_queue') : IsWork(worker0_queue'[i])
    BY <1>2, <2>2
  <2> QED
    BY <1>1, <1>2, <1>3, <1>4, <2>1, <2>2, <2>3, WorkStep
<1>6. CASE Worker1Takes
  <2>1. /\ worker1_queue # <<>> /\ worker1_queue' = Tail(worker1_queue)
        /\ UNCHANGED worker0_queue
    BY <1>6 DEF Worker1Takes
  <2>2. /\ worker1_queue' \in Seq(Frame)
        /\ Len(worker1_queue') <= WorkQueueLength
        /\ \A i \in 1..Len(worker1_queue') :
             /\ i + 1 \in 1..Len(worker1_queue)
             /\ worker1_queue'[i] = worker1_queue[i + 1]
    BY <1>1, <2>1, TakenType
  <2>3. \A i \in 1..Len(worker1_queue') :
          IsWork(worker1_queue'[i]) /\ IsWorker1Turn(worker1_queue'[i])
    BY <1>2, <2>2
  <2> QED
    BY <1>1, <1>2, <1>3, <1>4, <2>1, <2>2, <2>3, WorkStep
<1> QED
  BY <1>5, <1>6

LEMMA TypeInvStep == TypeInv /\ [Next]_vars => TypeInv'
<1> SUFFICES ASSUME TypeInv, [Next]_vars PROVE TypeInv'
  OBVIOUS
<1>1. ASSUME NEW f \in BusFrames, FrameOnBus(f) PROVE TypeInv'
  BY <1>1, FrameOnBusStep
<1>2. CASE Can1PendingCb
  BY <1>2, Can1PendingCbStep
<1>3. CASE Receive
  BY <1>3, ReceiveStep
<1>4. CASE Forward
  BY <1>4, ForwardStep
<1>5. CASE Skip
  BY <1>5, SkipStep
<1>6. CASE DoWork0
  BY <1>6, DoWork0Step
<1>7. CASE DoWork0Asserts \/ UnpackAsserts
  BY <1>7, AssertionStep
<1>8. CASE DoWork1
  BY <1>8, DoWork1Step
<1>9. CASE Worker0Takes \/ Worker1Takes
  BY <1>9, WorkerTakesStep
<1>10. CASE Halt
  <2>1. /\ TypeOK /\ ContentInv
        /\ halted' \in BOOLEAN
        /\ UNCHANGED <<rx_fifo, isr_frame, can1_error, rx_msgbuf, can1_pc,
                       rx_frame, worker0_queue, worker1_queue, assert_failed,
                       bus_log, overrun, forwarded>>
    BY <1>10 DEF Halt, TypeInv
  <2>2. TypeOK'
    BY <2>1 DEF TypeOK
  <2>3. ContentInv'
    BY <2>1 DEF ContentInv, AsOnBus, IsWork, Carries, AssertsHold, FollowsDbc,
                IsWorker1Turn
  <2> QED
    BY <2>2, <2>3 DEF TypeInv
<1>11. CASE UNCHANGED vars
  <2>1. TypeOK'
    BY <1>11 DEF vars, TypeInv, TypeOK
  <2>2. ContentInv'
    BY <1>11 DEF vars, TypeInv, ContentInv, AsOnBus, IsWork, Carries,
                 AssertsHold, FollowsDbc, IsWorker1Turn
  <2> QED
    BY <2>1, <2>2 DEF TypeInv
<1> QED
  BY <1>1, <1>2, <1>3, <1>4, <1>5, <1>6, <1>7, <1>8, <1>9, <1>10, <1>11
     DEF Next, Task, Dispatch

LEMMA TypeInvariant == Spec => []TypeInv
<1>1. TypeInv /\ [Next]_vars => TypeInv'
  BY TypeInvStep
<1> QED
  BY TypeInvInit, <1>1, PTL DEF Spec

\* Every variable keeps its type whatever the other nodes send, and the FIFO,
\* the message buffer and the workers' queues stay within their sizes.
THEOREM TypeCorrect == Spec => []TypeOK
<1>1. TypeInv => TypeOK
  BY DEF TypeInv
<1> QED
  BY TypeInvariant, <1>1, PTL

\* However many extended frames follow a DoWork0 frame through the static
\* buffer of the interrupt, a worker's queue holds DoWork0 frames only, and
\* that of worker 1 only those whose turn it is.
THEOREM WorkIsOnlyWork == Spec => []WorkersGetTheirFrames
<1>1. TypeInv => WorkersGetTheirFrames
  <2> SUFFICES ASSUME TypeInv PROVE WorkersGetTheirFrames
    OBVIOUS
  <2>1. /\ \A i \in 1..Len(worker0_queue) : IsWork(worker0_queue[i])
        /\ \A i \in 1..Len(worker1_queue) :
             IsWork(worker1_queue[i]) /\ IsWorker1Turn(worker1_queue[i])
    BY DEF TypeInv, ContentInv
  <2>2. ASSUME NEW f, IsWork(f)
        PROVE  /\ bus_log[f.serial].ide = "std"
               /\ bus_log[f.serial].id = DoWork0Id
               /\ bus_log[f.serial].counter = f.counter
    BY <2>2 DEF IsWork, AsOnBus
  <2> QED
    BY <2>1, <2>2 DEF WorkersGetTheirFrames, IsWorker1Turn
<1> QED
  BY TypeInvariant, <1>1, PTL

\* As long as the bus carries what canproto.dbc describes, no frame fails an
\* assertion of the CAN1 task, whatever arrives when.
THEOREM DbcFailsNoAssertion == Spec => []AssertsHold
<1>1. TypeInv => AssertsHold
  BY DEF TypeInv, ContentInv
<1> QED
  BY TypeInvariant, <1>1, PTL

-----------------------------------------------------------------------------
(* The way of the frames.                                                  *)

\* The serials in the task's hands, and those past the FIFO
InHands == IF can1_pc = "forward" THEN <<rx_frame.serial>> ELSE <<>>
PastFifo == Serials(forwarded) \o InHands \o Serials(rx_msgbuf)

\* The serials of a sequence of frames are a sequence of numbers that grows
\* and shrinks with it.
LEMMA SerialsProperties ==
  ASSUME NEW F, \A f \in F : f.serial \in Nat, NEW s \in Seq(F)
  PROVE  /\ Serials(s) \in Seq(Nat)
         /\ Len(Serials(s)) = Len(s)
         /\ \A i \in 1..Len(s) : Serials(s)[i] = s[i].serial
<1>1. Len(s) \in Nat /\ \A i \in 1..Len(s) : s[i].serial \in Nat
  BY LenProperties, ElementOfSeq
<1>2. Serials(s) \in [1..Len(s) -> Nat]
  BY <1>1 DEF Serials
<1>3. Serials(s) \in Seq(Nat)
  BY <1>1, <1>2, SeqDef
<1>4. DOMAIN Serials(s) = 1..Len(s) /\ DOMAIN Serials(s) = 1..Len(Serials(s))
  BY <1>2, <1>3, LenProperties
<1>5. Len(Serials(s)) \in Nat
  BY <1>3, LenProperties
<1>6. Len(Serials(s)) = Len(s)
  BY <1>1, <1>4, <1>5
<1> QED
  BY <1>3, <1>6 DEF Serials

LEMMA SerialsAppend ==
  ASSUME NEW F, \A f \in F : f.serial \in Nat, NEW s \in Seq(F), NEW f \in F
  PROVE  Serials(Append(s, f)) = Append(Serials(s), f.serial)
<1> DEFINE new == Append(s, f)
           old == Serials(s)
<1>1. /\ new \in Seq(F) /\ Len(new) = Len(s) + 1 /\ Len(s) \in Nat
      /\ \A i \in 1..Len(s) : new[i] = s[i]
      /\ new[Len(s) + 1] = f
  BY AppendProperties, LenProperties
<1>2. /\ old \in Seq(Nat) /\ Len(old) = Len(s)
      /\ \A i \in 1..Len(s) : old[i] = s[i].serial
  BY SerialsProperties
<1>3. /\ Serials(new) \in Seq(Nat) /\ Len(Serials(new)) = Len(s) + 1
      /\ \A i \in 1..(Len(s) + 1) : Serials(new)[i] = new[i].serial
  <2> HIDE DEF new
  <2> QED
    BY <1>1, SerialsProperties
<1> HIDE DEF new, old
<1>4. /\ Append(old, f.serial) \in Seq(Nat)
      /\ Len(Append(old, f.serial)) = Len(s) + 1
      /\ \A i \in 1..Len(s) : Append(old, f.serial)[i] = old[i]
      /\ Append(old, f.serial)[Len(s) + 1] = f.serial
  BY <1>2, AppendProperties
<1>5. ASSUME NEW i \in 1..(Len(s) + 1)
      PROVE  Serials(new)[i] = Append(old, f.serial)[i]
  <2>1. CASE i \in 1..Len(s)
    BY <1>1, <1>2, <1>3, <1>4, <2>1
  <2>2. CASE i = Len(s) + 1
    BY <1>1, <1>3, <1>4, <2>2
  <2>3. i \in 1..Len(s) \/ i = Len(s) + 1
    <3>1. Len(s) \in Nat
      BY <1>1
    <3> QED
      BY ONLY <3>1, i \in 1..(Len(s) + 1)
  <2> QED
    BY ONLY <2>1, <2>2, <2>3
<1>6. Serials(new) = Append(old, f.serial)
  BY <1>3, <1>4, <1>5, SeqEqual
<1> QED
  BY <1>6 DEF new, old

LEMMA SerialsTail ==
  ASSUME NEW F, \A f \in F : f.serial \in Nat, NEW s \in Seq(F), s # <<>>
  PROVE  /\ Serials(Tail(s)) = Tail(Serials(s))
         /\ Head(s).serial = Head(Serials(s))
         /\ Serials(s) # <<>>
<1> DEFINE new == Tail(s)
           old == Serials(s)
<1>1. /\ new \in Seq(F) /\ Len(new) = Len(s) - 1 /\ Len(s) \in Nat \ {0}
      /\ \A i \in 1..Len(new) : new[i] = s[i + 1]
      /\ Head(s) = s[1]
  BY HeadTailProperties, EmptySeq
<1>2. /\ old \in Seq(Nat) /\ Len(old) = Len(s)
      /\ \A i \in 1..Len(s) : old[i] = s[i].serial
  BY SerialsProperties
<1>3. /\ Serials(new) \in Seq(Nat) /\ Len(Serials(new)) = Len(new)
      /\ \A i \in 1..Len(new) : Serials(new)[i] = new[i].serial
  <2> HIDE DEF new
  <2> QED
    BY <1>1, SerialsProperties
<1> HIDE DEF new, old
<1>4. old # <<>>
  BY <1>1, <1>2, EmptySeq
<1>5. /\ Tail(old) \in Seq(Nat) /\ Len(Tail(old)) = Len(s) - 1
      /\ \A i \in 1..Len(Tail(old)) : Tail(old)[i] = old[i + 1]
      /\ Head(old) = old[1]
  BY <1>2, <1>4, HeadTailProperties
<1>6. Len(Serials(new)) = Len(Tail(old))
  BY <1>1, <1>3, <1>5
<1>7. ASSUME NEW i \in 1..Len(Serials(new))
      PROVE  Serials(new)[i] = Tail(old)[i]
  <2>1. /\ i \in 1..Len(new) /\ i \in 1..Len(Tail(old))
        /\ i + 1 \in 1..Len(s)
    <3>1. Len(Serials(new)) = Len(s) - 1 /\ Len(s) \in Nat
      BY <1>1, <1>3
    <3>2. Len(new) = Len(s) - 1 /\ Len(Tail(old)) = Len(s) - 1
      BY <1>1, <1>5
    <3> QED
      BY ONLY <3>1, <3>2, i \in 1..Len(Serials(new))
  <2>2. Serials(new)[i] = s[i + 1].serial
    BY <1>1, <1>3, <2>1
  <2>3. Tail(old)[i] = s[i + 1].serial
    BY <1>2, <1>5, <2>1
  <2> QED
    BY <2>2, <2>3
<1>8. Serials(new) = Tail(old)
  BY <1>3, <1>5, <1>6, <1>7, SeqEqual
<1>9. Head(s).serial = Head(old)
  BY <1>1, <1>2, <1>5
<1> QED
  BY <1>4, <1>8, <1>9 DEF new, old

\* What the way is made of.
LEMMA Parts ==
  ASSUME TypeOK
  PROVE  /\ \A f \in Frame : f.serial \in Nat
         /\ \A f \in [serial : 1..MaxBusFrames, id : Ids, count : 0..8,
                      ext_flag : BOOLEAN] : f.serial \in Nat
         /\ rx_fifo \in Seq(Nat) /\ Serials(forwarded) \in Seq(Nat)
         /\ InHands \in Seq(Nat) /\ Serials(rx_msgbuf) \in Seq(Nat)
         /\ Serials(forwarded) \o InHands \in Seq(Nat)
         /\ PastFifo \in Seq(Nat) /\ Pipeline \in Seq(Nat)
         /\ Pipeline = PastFifo \o rx_fifo
<1>1. /\ \A f \in Frame : f.serial \in Nat
      /\ \A f \in [serial : 1..MaxBusFrames, id : Ids, count : 0..8,
                   ext_flag : BOOLEAN] : f.serial \in Nat
  BY Sizes DEF Frame
<1>2. /\ forwarded \in Seq([serial : 1..MaxBusFrames, id : Ids, count : 0..8,
                            ext_flag : BOOLEAN])
      /\ rx_msgbuf \in Seq(Frame) /\ rx_frame \in Frame
      /\ rx_fifo \in Seq(1..MaxBusFrames)
  BY DEF TypeOK
<1>3. Serials(forwarded) \in Seq(Nat) /\ Serials(rx_msgbuf) \in Seq(Nat)
  BY <1>1, <1>2, SerialsProperties
<1>4. rx_fifo \in Seq(Nat)
  <2>1. 1..MaxBusFrames \subseteq Nat
    BY Sizes
  <2> QED
    BY <1>2, <2>1, SeqMonotonic
<1>5. InHands \in Seq(Nat)
  <2>1. rx_frame.serial \in Nat
    BY <1>1, <1>2
  <2>2. <<rx_frame.serial>> \in Seq(Nat) /\ <<>> \in Seq(Nat)
    BY <2>1
  <2> QED
    BY <2>2 DEF InHands
<1>6. Serials(forwarded) \o InHands \in Seq(Nat)
  BY <1>3, <1>5, ConcatProperties
<1>7. PastFifo \in Seq(Nat)
  BY <1>3, <1>6, ConcatProperties DEF PastFifo
<1>8. Pipeline = PastFifo \o rx_fifo
  BY DEF Pipeline, PastFifo, InHands
<1>9. Pipeline \in Seq(Nat)
  BY <1>4, <1>7, <1>8, ConcatProperties
<1> QED
  BY <1>1, <1>3, <1>4, <1>5, <1>6, <1>7, <1>8, <1>9

\* Counting on by one
LEMMA CountOn ==
  ASSUME NEW n \in Nat, NEW m, m = n + 1
  PROVE  Append([i \in 1..n |-> i], m) = [i \in 1..m |-> i]
<1> DEFINE old == [i \in 1..n |-> i]
           new == [i \in 1..m |-> i]
<1>1. old \in [1..n -> Nat] /\ new \in [1..m -> Nat] /\ m \in Nat
  OBVIOUS
<1>2. old \in Seq(Nat) /\ new \in Seq(Nat)
  <2> HIDE DEF old, new
  <2> QED
    BY <1>1, SeqDef
<1>3. Len(old) = n /\ Len(new) = m
  OBVIOUS
<1>4. /\ \A i \in 1..n : old[i] = i
      /\ \A i \in 1..m : new[i] = i
  OBVIOUS
<1> HIDE DEF old, new
<1>5. /\ Append(old, m) \in Seq(Nat) /\ Len(Append(old, m)) = n + 1
      /\ \A i \in 1..n : Append(old, m)[i] = old[i]
      /\ Append(old, m)[n + 1] = m
  BY <1>1, <1>2, <1>3, AppendProperties
<1>6. ASSUME NEW i \in 1..(n + 1) PROVE Append(old, m)[i] = new[i]
  <2>1. i \in 1..n \/ i = n + 1
    OBVIOUS
  <2> QED
    BY <1>4, <1>5, <2>1
<1>7. Append(old, m) = new
  BY <1>2, <1>3, <1>5, <1>6, SeqEqual
<1> QED
  BY <1>7 DEF old, new

\* A frame of the bus enters the FIFO behind all others, or takes the place of
\* the last of them.
LEMMA ArriveStep ==
  ASSUME TypeOK, NEW f \in BusFrames, FrameOnBus(f)
  PROVE  /\ Len(bus_log) \in Nat /\ Len(bus_log') = Len(bus_log) + 1
         /\ \/ Pipeline' = Append(Pipeline, Len(bus_log) + 1)
            \/ /\ overrun' /\ rx_fifo # <<>>
               /\ Pipeline' = PastFifo \o [rx_fifo EXCEPT
                                             ![Len(rx_fifo)] = Len(bus_log) + 1]
         /\ UNCHANGED can1_error /\ (overrun => overrun')
<1> DEFINE n == Len(bus_log) + 1
<1>1. Len(bus_log) \in Nat /\ Len(bus_log') = Len(bus_log) + 1
  BY LogGrows
<1>2. /\ PastFifo' = PastFifo /\ Pipeline' = PastFifo \o rx_fifo'
      /\ UNCHANGED can1_error /\ (overrun => overrun')
  <2>1. UNCHANGED <<forwarded, can1_pc, rx_frame, rx_msgbuf>>
    BY DEF FrameOnBus
  <2>2. PastFifo' = PastFifo
    BY <2>1 DEF PastFifo, InHands, Serials
  <2>3. Pipeline' = PastFifo' \o rx_fifo'
    BY DEF Pipeline, PastFifo, InHands
  <2> QED
    BY <2>2, <2>3 DEF FrameOnBus
<1>3. /\ rx_fifo \in Seq(Nat) /\ PastFifo \in Seq(Nat)
      /\ Pipeline = PastFifo \o rx_fifo
      /\ Len(rx_fifo) \in Nat /\ Len(rx_fifo) <= FifoDepth
  BY Parts, LenProperties DEF TypeOK
<1>4. CASE Len(rx_fifo) < FifoDepth
  <2>1. rx_fifo' = Append(rx_fifo, n)
    BY <1>4 DEF FrameOnBus, Stored
  <2>2. n \in Nat
    BY <1>1
  <2>3. Pipeline' = Append(Pipeline, n)
    <3> HIDE DEF n
    <3> QED
      BY <1>2, <1>3, <2>1, <2>2, AppendToConcat
  <2> QED
    BY <1>1, <1>2, <2>3
<1>5. CASE ~(Len(rx_fifo) < FifoDepth)
  <2>1. Len(rx_fifo) = FifoDepth /\ Len(rx_fifo) # 0
    BY <1>3, <1>5, Sizes
  <2>2. rx_fifo # <<>>
    BY <2>1
  <2>3. overrun' /\ rx_fifo' = [rx_fifo EXCEPT ![Len(rx_fifo)] = n]
    BY <1>5, <2>1 DEF FrameOnBus, Stored
  <2> QED
    BY <1>1, <1>2, <2>2, <2>3
<1> QED
  BY <1>4, <1>5

\* The interrupt moves a frame from the FIFO to the message buffer, or takes
\* it out and raises the flag.
LEMMA InterruptStep ==
  ASSUME TypeInv, Can1PendingCb
  PROVE  /\ \/ Pipeline' = Pipeline
            \/ /\ can1_error' /\ rx_fifo # <<>>
               /\ Pipeline' = PastFifo \o Tail(rx_fifo)
         /\ UNCHANGED <<overrun, bus_log>> /\ (can1_error => can1_error')
<1>1. /\ rx_fifo # <<>> /\ rx_fifo' = Tail(rx_fifo)
      /\ UNCHANGED <<forwarded, can1_pc, rx_frame, overrun, bus_log>>
  BY DEF Can1PendingCb
<1>2. TypeOK /\ \A g \in Frame : g.serial \in Nat
  BY Parts DEF TypeInv
<1>3. /\ rx_fifo \in Seq(Nat) /\ PastFifo \in Seq(Nat)
      /\ Serials(forwarded) \o InHands \in Seq(Nat)
      /\ Serials(rx_msgbuf) \in Seq(Nat)
      /\ Pipeline = PastFifo \o rx_fifo /\ rx_msgbuf \in Seq(Frame)
  BY <1>2, Parts DEF TypeOK
<1>4. Pipeline' = Serials(forwarded) \o InHands \o Serials(rx_msgbuf')
                    \o Tail(rx_fifo)
  <2>1. InHands' = InHands /\ Serials(forwarded)' = Serials(forwarded)
    BY <1>1 DEF InHands, Serials
  <2>2. Pipeline' = (Serials(forwarded) \o InHands \o Serials(rx_msgbuf)
                       \o rx_fifo)'
    BY DEF Pipeline, InHands
  <2>3. Serials(rx_msgbuf)' = Serials(rx_msgbuf')
    BY DEF Serials
  <2> QED
    BY <1>1, <2>1, <2>2, <2>3
<1>5. CASE MsgbufHasRoom
  <2>1. rx_msgbuf' = Append(rx_msgbuf, HalRxMessage(Head(rx_fifo)))
        /\ UNCHANGED can1_error
    BY <1>5 DEF Can1PendingCb
  <2>2. /\ HalRxMessage(Head(rx_fifo)) \in Frame
        /\ HalRxMessage(Head(rx_fifo)).serial = Head(rx_fifo)
    BY <1>1, HalRxMessageType
  <2>3. Serials(rx_msgbuf') = Append(Serials(rx_msgbuf), Head(rx_fifo))
    <3>1. Serials(Append(rx_msgbuf, HalRxMessage(Head(rx_fifo))))
            = Append(Serials(rx_msgbuf), HalRxMessage(Head(rx_fifo)).serial)
      BY <1>2, <1>3, <2>2, SerialsAppend
    <3> QED
      BY <2>1, <2>2, <3>1
  <2>4. Head(rx_fifo) \in Nat
    BY <1>1, <1>3, HeadTailProperties
  <2>5. Serials(forwarded) \o InHands \o Serials(rx_msgbuf')
          = Append(PastFifo, Head(rx_fifo))
    <3> DEFINE front == Serials(forwarded) \o InHands
               back == Serials(rx_msgbuf)
    <3>1. front \in Seq(Nat) /\ back \in Seq(Nat)
      BY <1>3
    <3>2. PastFifo = front \o back
      BY DEF PastFifo
    <3> HIDE DEF front, back
    <3>3. front \o Append(back, Head(rx_fifo))
            = Append(front \o back, Head(rx_fifo))
      BY <2>4, <3>1, AppendToConcat
    <3> QED
      BY <2>3, <3>2, <3>3 DEF front, back
  <2>6. Append(PastFifo, Head(rx_fifo)) \o Tail(rx_fifo) = PastFifo \o rx_fifo
    BY <1>1, <1>3, MoveHead
  <2>7. Pipeline' = Pipeline
    BY <1>3, <1>4, <2>5, <2>6
  <2> QED
    BY <1>1, <2>1, <2>7
<1>6. CASE ~MsgbufHasRoom
  <2>1. rx_msgbuf' = rx_msgbuf /\ can1_error' = TRUE
    BY <1>6 DEF Can1PendingCb
  <2>2. Pipeline' = PastFifo \o Tail(rx_fifo)
    BY <1>4, <2>1 DEF PastFifo
  <2> QED
    BY <1>1, <2>1, <2>2
<1> QED
  BY <1>5, <1>6

\* The task only moves a frame on.
LEMMA TaskMoves ==
  ASSUME TypeInv, Receive \/ Forward
  PROVE  Pipeline' = Pipeline /\ UNCHANGED <<overrun, bus_log, can1_error>>
<1>1. /\ UNCHANGED <<overrun, bus_log, can1_error, rx_fifo>>
      /\ rx_msgbuf \in Seq(Frame) /\ rx_frame \in Frame
      /\ forwarded \in Seq([serial : 1..MaxBusFrames, id : Ids, count : 0..8,
                            ext_flag : BOOLEAN])
  BY DEF Receive, Forward, TypeInv, TypeOK
<1>2. /\ \A g \in Frame : g.serial \in Nat
      /\ \A g \in [serial : 1..MaxBusFrames, id : Ids, count : 0..8,
                   ext_flag : BOOLEAN] : g.serial \in Nat
      /\ Serials(forwarded) \in Seq(Nat) /\ Serials(rx_msgbuf) \in Seq(Nat)
  BY Parts DEF TypeInv
<1>3. Pipeline' = (Serials(forwarded) \o InHands \o Serials(rx_msgbuf)
                     \o rx_fifo)'
  BY DEF Pipeline, InHands
<1>4. Pipeline = Serials(forwarded) \o InHands \o Serials(rx_msgbuf) \o rx_fifo
  BY DEF Pipeline, InHands
<1>5. CASE Receive
  <2>1. /\ InHands = <<>> /\ InHands' = <<Head(rx_msgbuf).serial>>
        /\ rx_msgbuf # <<>> /\ rx_msgbuf' = Tail(rx_msgbuf)
        /\ UNCHANGED forwarded
    BY <1>5 DEF Receive, InHands
  <2>2. /\ Serials(rx_msgbuf)' = Tail(Serials(rx_msgbuf))
        /\ InHands' = <<Head(Serials(rx_msgbuf))>>
        /\ Serials(rx_msgbuf) # <<>>
    <3>1. /\ Serials(Tail(rx_msgbuf)) = Tail(Serials(rx_msgbuf))
          /\ Head(rx_msgbuf).serial = Head(Serials(rx_msgbuf))
          /\ Serials(rx_msgbuf) # <<>>
      BY <1>1, <1>2, <2>1, SerialsTail
    <3>2. Serials(rx_msgbuf)' = Serials(Tail(rx_msgbuf))
      BY <2>1 DEF Serials
    <3> QED
      BY <2>1, <3>1, <3>2
  <2>3. Head(Serials(rx_msgbuf)) \in Nat
    BY <1>2, <2>2, HeadTailProperties
  <2>4. Serials(forwarded) \o <<Head(Serials(rx_msgbuf))>>
          = Append(Serials(forwarded), Head(Serials(rx_msgbuf)))
    BY <1>2, <2>3, AppendIsConcat
  <2>5. Append(Serials(forwarded), Head(Serials(rx_msgbuf)))
          \o Tail(Serials(rx_msgbuf)) = Serials(forwarded) \o Serials(rx_msgbuf)
    BY <1>2, <2>2, MoveHead
  <2>6. Serials(forwarded) \o InHands = Serials(forwarded)
    BY <1>2, <2>1, ConcatEmptySeq
  <2>7. Serials(forwarded)' = Serials(forwarded)
    BY <2>1 DEF Serials
  <2>8. Pipeline' = Pipeline
    BY <1>1, <1>3, <1>4, <2>2, <2>4, <2>5, <2>6, <2>7
  <2> QED
    BY <1>1, <2>8
<1>6. CASE Forward
  <2>1. /\ InHands = <<rx_frame.serial>> /\ InHands' = <<>>
        /\ forwarded' = Append(forwarded, CanEthFrame(rx_frame))
        /\ UNCHANGED rx_msgbuf
    BY <1>6 DEF Forward, InHands
  <2>2. Serials(forwarded)' = Append(Serials(forwarded), rx_frame.serial)
    <3>1. /\ CanEthFrame(rx_frame)
               \in [serial : 1..MaxBusFrames, id : Ids, count : 0..8,
                    ext_flag : BOOLEAN]
          /\ CanEthFrame(rx_frame).serial = rx_frame.serial
      BY <1>6, CanEthFrameType DEF Forward, CanEthFrame
    <3>2. Serials(Append(forwarded, CanEthFrame(rx_frame)))
            = Append(Serials(forwarded), CanEthFrame(rx_frame).serial)
      BY <1>1, <1>2, <3>1, SerialsAppend
    <3>3. Serials(forwarded)'
            = Serials(Append(forwarded, CanEthFrame(rx_frame)))
      BY <2>1 DEF Serials
    <3> QED
      BY <3>1, <3>2, <3>3
  <2>3. rx_frame.serial \in Nat
    BY <1>1, <1>2
  <2>4. Append(Serials(forwarded), rx_frame.serial)
          = Serials(forwarded) \o <<rx_frame.serial>>
    BY <1>2, <2>3, AppendIsConcat
  <2>5. Append(Serials(forwarded), rx_frame.serial) \o <<>>
          = Append(Serials(forwarded), rx_frame.serial)
    <3>1. Append(Serials(forwarded), rx_frame.serial) \in Seq(Nat)
      BY <1>2, <2>3, AppendProperties
    <3> QED
      BY <3>1, ConcatEmptySeq
  <2>6. Serials(rx_msgbuf)' = Serials(rx_msgbuf)
    BY <2>1 DEF Serials
  <2>7. Pipeline' = Pipeline
    BY <1>1, <1>3, <1>4, <2>1, <2>2, <2>4, <2>5, <2>6
  <2> QED
    BY <1>1, <2>7
<1> QED
  BY <1>5, <1>6

\* No other step moves a frame.
Aside == \/ Skip \/ DoWork0 \/ DoWork0Asserts \/ UnpackAsserts \/ DoWork1
         \/ Worker0Takes \/ Worker1Takes \/ Halt \/ UNCHANGED vars

LEMMA AsideStep ==
  ASSUME Aside
  PROVE  UNCHANGED <<Pipeline, overrun, bus_log, can1_error, forwarded>>
<1>1. /\ UNCHANGED <<overrun, bus_log, can1_error, forwarded, rx_msgbuf,
                     rx_fifo, rx_frame>>
      /\ (can1_pc = "forward") = (can1_pc' = "forward")
  BY DEF Aside, Skip, DoWork0, DoWork0Asserts, UnpackAsserts, AssertFails,
         DoWork1, Worker0Takes, Worker1Takes, Halt, vars
<1>2. UNCHANGED <<Serials(forwarded), InHands, Serials(rx_msgbuf)>>
  BY <1>1 DEF Serials, InHands
<1> QED
  BY <1>1, <1>2 DEF Pipeline, InHands

\* The steps of the pipeline, all together
LEMMA Steps ==
  ASSUME TypeInv, [Next]_vars
  PROVE  \/ \E f \in BusFrames : FrameOnBus(f)
         \/ Can1PendingCb
         \/ Receive \/ Forward
         \/ Aside
BY DEF Next, Task, Dispatch, Aside

\* Unless the controller overwrote a frame or the can1 error flag is raised,
\* every frame of the bus was forwarded or is on its way, in its place.
THEOREM LossesAreReported == Spec => []NoSilentLoss
<1>1. Init => NoSilentLoss
  <2> SUFFICES ASSUME Init PROVE NoSilentLoss
    OBVIOUS
  <2>1. /\ forwarded = <<>> /\ rx_msgbuf = <<>> /\ rx_fifo = <<>>
        /\ bus_log = <<>> /\ can1_pc # "forward"
    BY DEF Init
  <2>2. Pipeline = <<>> /\ [i \in 1..Len(bus_log) |-> i] = <<>>
    BY <2>1 DEF Pipeline, Serials
  <2> QED
    BY <2>2 DEF NoSilentLoss
<1>2. TypeInv /\ NoSilentLoss /\ [Next]_vars => NoSilentLoss'
  <2> SUFFICES ASSUME TypeInv, NoSilentLoss, [Next]_vars PROVE NoSilentLoss'
    OBVIOUS
  <2>1. CASE \E f \in BusFrames : FrameOnBus(f)
    <3>1. /\ Len(bus_log) \in Nat /\ Len(bus_log') = Len(bus_log) + 1
          /\ \/ Pipeline' = Append(Pipeline, Len(bus_log) + 1)
             \/ overrun'
          /\ UNCHANGED can1_error /\ (overrun => overrun')
      BY <2>1, ArriveStep DEF TypeInv
    <3>2. SUFFICES ASSUME ~overrun', ~can1_error'
                   PROVE  Pipeline' = [i \in 1..Len(bus_log') |-> i]
      BY DEF NoSilentLoss
    <3>3. /\ Pipeline = [i \in 1..Len(bus_log) |-> i]
          /\ Pipeline' = Append(Pipeline, Len(bus_log) + 1)
      BY <3>1, <3>2 DEF NoSilentLoss
    <3> QED
      BY <3>1, <3>3, CountOn
  <2>2. CASE Can1PendingCb
    BY <2>2, InterruptStep DEF NoSilentLoss
  <2>3. CASE Receive \/ Forward
    BY <2>3, TaskMoves DEF NoSilentLoss
  <2>4. CASE Aside
    BY <2>4, AsideStep DEF NoSilentLoss
  <2> QED
    BY <2>1, <2>2, <2>3, <2>4, Steps
<1> QED
  BY <1>1, <1>2, TypeInvariant, PTL DEF Spec

\* The serials on their way are in the order of the bus, and of the bus.
OrderInv ==
  /\ \A i, j \in 1..Len(Pipeline) : i < j => Pipeline[i] < Pipeline[j]
  /\ \A i \in 1..Len(Pipeline) : Pipeline[i] <= Len(bus_log)

LEMMA OrderStep == TypeInv /\ OrderInv /\ [Next]_vars => OrderInv'
<1> SUFFICES ASSUME TypeInv, OrderInv, [Next]_vars PROVE OrderInv'
  OBVIOUS
<1>1. /\ Pipeline = PastFifo \o rx_fifo
      /\ PastFifo \in Seq(Nat) /\ rx_fifo \in Seq(Nat)
      /\ Pipeline \in Seq(Nat)
  BY Parts DEF TypeInv
<1>2. Len(bus_log) \in Nat
  BY LenProperties DEF TypeInv, TypeOK
<1>3. /\ \A i, j \in 1..Len(PastFifo \o rx_fifo) :
           i < j => (PastFifo \o rx_fifo)[i] < (PastFifo \o rx_fifo)[j]
      /\ \A i \in 1..Len(PastFifo \o rx_fifo) :
           (PastFifo \o rx_fifo)[i] <= Len(bus_log)
  BY <1>1 DEF OrderInv
<1>4. CASE \E f \in BusFrames : FrameOnBus(f)
  <2> DEFINE n == Len(bus_log)
  <2>1. /\ Len(bus_log') = n + 1
        /\ \/ Pipeline' = Append(Pipeline, n + 1)
           \/ /\ rx_fifo # <<>>
              /\ Pipeline' = PastFifo \o [rx_fifo EXCEPT ![Len(rx_fifo)] = n + 1]
    BY <1>4, ArriveStep DEF TypeInv
  <2>2. n \in Nat /\ n + 1 \in Nat /\ n < n + 1
    BY <1>2
  <2>3. CASE Pipeline' = Append(Pipeline, n + 1)
    <3> DEFINE new == Append(Pipeline, n + 1)
    <3>1. /\ \A i, j \in 1..Len(Pipeline) : i < j => Pipeline[i] < Pipeline[j]
          /\ \A i \in 1..Len(Pipeline) : Pipeline[i] <= n
      BY DEF OrderInv
    <3> HIDE DEF n
    <3>2. /\ \A i, j \in 1..Len(new) : i < j => new[i] < new[j]
          /\ \A i \in 1..Len(new) : new[i] <= n + 1
      BY ONLY <1>1, <2>2, <3>1, AppendNext
    <3> HIDE DEF new
    <3>3. Pipeline' = new
      BY <2>3 DEF new
    <3> QED
      BY <2>1, <3>2, <3>3 DEF OrderInv
  <2>4. CASE /\ rx_fifo # <<>>
             /\ Pipeline' = PastFifo \o [rx_fifo EXCEPT ![Len(rx_fifo)] = n + 1]
    <3> DEFINE e == n + 1
               new == PastFifo \o [rx_fifo EXCEPT ![Len(rx_fifo)] = e]
    <3>1. e \in Nat /\ n < e
      BY <2>2
    <3>2. Pipeline' = new /\ Len(bus_log') = e
      BY <2>1, <2>4
    <3> HIDE DEF e
    <3>3. /\ \A i, j \in 1..Len(new) : i < j => new[i] < new[j]
          /\ \A i \in 1..Len(new) : new[i] <= e
      BY ONLY <1>1, <1>3, <2>2, <2>4, <3>1, ReplaceLast
    <3> HIDE DEF new
    <3> QED
      BY <3>2, <3>3 DEF OrderInv
  <2> QED
    BY <2>1, <2>3, <2>4
<1>5. CASE UNCHANGED <<Pipeline, bus_log>>
  BY <1>5 DEF OrderInv
<1>6. CASE Can1PendingCb
  <2>1. CASE Pipeline' = Pipeline
    BY <1>5, <1>6, <2>1, InterruptStep
  <2>2. CASE rx_fifo # <<>> /\ Pipeline' = PastFifo \o Tail(rx_fifo)
    <3> DEFINE left == PastFifo \o Tail(rx_fifo)
    <3>1. Head(rx_fifo) \in Nat /\ Tail(rx_fifo) \in Seq(Nat)
      BY <1>1, <2>2, HeadTailProperties
    <3>2. <<Head(rx_fifo)>> \in Seq(Nat)
      BY <3>1
    <3>3. PastFifo \o <<Head(rx_fifo)>> \o Tail(rx_fifo) = PastFifo \o rx_fifo
      <4>1. Append(PastFifo, Head(rx_fifo)) = PastFifo \o <<Head(rx_fifo)>>
        BY <1>1, <3>1, AppendIsConcat
      <4>2. Append(PastFifo, Head(rx_fifo)) \o Tail(rx_fifo)
              = PastFifo \o rx_fifo
        BY <1>1, <2>2, MoveHead
      <4> QED
        BY <4>1, <4>2
    <3>4. /\ \A i, j \in 1..Len(PastFifo \o <<Head(rx_fifo)>> \o Tail(rx_fifo)) :
               i < j => (PastFifo \o <<Head(rx_fifo)>> \o Tail(rx_fifo))[i]
                          < (PastFifo \o <<Head(rx_fifo)>> \o Tail(rx_fifo))[j]
          /\ \A i \in 1..Len(PastFifo \o <<Head(rx_fifo)>> \o Tail(rx_fifo)) :
               (PastFifo \o <<Head(rx_fifo)>> \o Tail(rx_fifo))[i] <= Len(bus_log)
      BY ONLY <1>3, <3>3
    <3>5. Nat \subseteq Nat
      OBVIOUS
    <3>6. /\ \A i, j \in 1..Len(left) : i < j => left[i] < left[j]
          /\ \A i \in 1..Len(left) : left[i] <= Len(bus_log)
      BY ONLY <1>1, <1>2, <3>1, <3>2, <3>4, <3>5, CutMiddle
    <3>7. Pipeline' = left /\ UNCHANGED bus_log
      BY <1>6, <2>2, InterruptStep
    <3> HIDE DEF left
    <3> QED
      BY <3>6, <3>7 DEF OrderInv
  <2> QED
    BY <1>6, <2>1, <2>2, InterruptStep
<1>7. CASE Receive \/ Forward
  BY <1>5, <1>7, TaskMoves
<1>8. CASE Aside
  BY <1>5, <1>8, AsideStep
<1> QED
  BY <1>4, <1>6, <1>7, <1>8, Steps

\* Whatever is overwritten or dropped, frames are forwarded in bus order, none
\* twice, and with the identifier, length and format they had on the bus.
THEOREM ForwardedInOrder == Spec => []ForwardedAsOnBus
<1>1. Init => OrderInv
  <2> SUFFICES ASSUME Init PROVE OrderInv
    OBVIOUS
  <2>1. /\ forwarded = <<>> /\ rx_msgbuf = <<>> /\ rx_fifo = <<>>
        /\ can1_pc # "forward"
    BY DEF Init
  <2>2. Pipeline = <<>>
    BY <2>1 DEF Pipeline, Serials
  <2> QED
    BY <2>2 DEF OrderInv
<1>2. TypeInv /\ OrderInv => ForwardedAsOnBus
  <2> SUFFICES ASSUME TypeInv, OrderInv PROVE ForwardedAsOnBus
    OBVIOUS
  <2>1. \A i \in 1..Len(forwarded) : Carries(forwarded[i])
    BY DEF TypeInv, ContentInv
  <2>2. \A i, j \in 1..Len(Pipeline) : i < j => Pipeline[i] < Pipeline[j]
    BY DEF OrderInv
  <2> QED
    BY <2>1, <2>2 DEF ForwardedAsOnBus, Carries
<1> QED
  BY <1>1, <1>2, OrderStep, TypeInvariant, PTL DEF Spec
=============================================================================
