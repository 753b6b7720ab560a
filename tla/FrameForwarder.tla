--------------------------- MODULE FrameForwarder ---------------------------
(***************************************************************************)
(* What the CAN-to-Ethernet bridge promises, without its queue, its        *)
(* notifications, its UDP buffer or its task: an offered frame is refused  *)
(* or waits in one first-in first-out line, leaves it from the front in    *)
(* datagrams of at most MaxBatch frames, and is refused or lost only with  *)
(* `error' raised.  CanEth is shown to implement this module.              *)
(***************************************************************************)
EXTENDS Naturals, Sequences

CONSTANTS Frames,    \* the frames there are
          Capacity,  \* frames the bridge can hold at once
          MaxBatch   \* frames one datagram can carry

VARIABLES offered,    \* every frame offered while the bridge is open, in order
          pending,    \* the frames taken and not yet sent or lost
          delivered,  \* every frame ever sent, in order
          error       \* the sticky error flag

vars == <<offered, pending, delivered, error>>

Init == /\ offered = <<>>
        /\ pending = <<>>
        /\ delivered = <<>>
        /\ error = FALSE

\* A frame enters the line.
Accept(f) == /\ Len(pending) < Capacity
             /\ offered' = Append(offered, f)
             /\ pending' = Append(pending, f)
             /\ UNCHANGED <<delivered, error>>

\* A frame is refused, and the refusal is reported.
Refuse(f) == /\ offered' = Append(offered, f)
             /\ error' = TRUE
             /\ UNCHANGED <<pending, delivered>>

\* The n oldest frames leave the line.
Leave(n) == /\ n \in 1..MaxBatch
            /\ n <= Len(pending)
            /\ pending' = SubSeq(pending, n + 1, Len(pending))
            /\ UNCHANGED offered

\* The n oldest frames are sent as one datagram.
Deliver(n) == /\ Leave(n)
              /\ delivered' = delivered \o SubSeq(pending, 1, n)
              /\ UNCHANGED error

\* The n oldest frames are dropped, and the loss is reported.
Lose(n) == /\ Leave(n)
           /\ error' = TRUE
           /\ UNCHANGED delivered

Next == \/ \E f \in Frames : Accept(f) \/ Refuse(f)
        \/ \E n \in 1..MaxBatch : Deliver(n) \/ Lose(n)

Spec == Init /\ [][Next]_vars
=============================================================================
