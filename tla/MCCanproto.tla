----------------------------- MODULE MCCanproto -----------------------------
(***************************************************************************)
(* CanprotoLink on all flags, in range and out, and words around every     *)
(* byte boundary, with the C helpers restated with Bitwise.                *)
(***************************************************************************)
EXTENDS CanprotoLink, Bitwise

(* The helpers of canproto.c:35-81 with the operators of C                 *)

ShiftLeft(v, n, width) == (v * 2^n) % 2^width

PackLeftShift(v, n, mask) == ShiftLeft(v, n, 8) & mask
PackRightShift(v, n, mask) == (shiftR(v, n) % 256) & mask
UnpackLeftShiftU16(v, n, mask) == ShiftLeft(v & mask, n, 16)
UnpackRightShift(v, n, mask) == shiftR(v & mask, n)

\* The bytes on the wire
PackedAsInC ==
  stage # "pack" /\ size >= 8 =>
    LET b == packed.dst
    IN  /\ packed.ret = 8
        /\ b[0] = PackLeftShift(msg.seqnum, 0, 255)
        /\ b[1] = PackRightShift(msg.seqnum, 8, 255)
        /\ b[2] = (PackLeftShift(msg.can1_error, 0, 1)
                   | PackLeftShift(msg.can2_error, 1, 2))
                  | (PackLeftShift(msg.caneth_error, 2, 4)
                     | PackLeftShift(msg.shell_error, 3, 8))
        /\ b[3] = 0 /\ b[4] = 0 /\ b[5] = 0
        /\ b[6] = PackRightShift(msg.hw_timestamp, 8, 255)
        /\ b[7] = PackLeftShift(msg.hw_timestamp, 0, 255)

\* What the receiver reads out of them
UnpackedAsInC ==
  stage = "done" /\ size >= 8 =>
    LET b == packed.dst
        m == unpacked.dst
    IN  /\ unpacked.ret = 0
        /\ m.seqnum = UnpackRightShift(b[0], 0, 255)
                      | UnpackLeftShiftU16(b[1], 8, 255)
        /\ m.can1_error = UnpackRightShift(b[2], 0, 1)
        /\ m.can2_error = UnpackRightShift(b[2], 1, 2)
        /\ m.caneth_error = UnpackRightShift(b[2], 2, 4)
        /\ m.shell_error = UnpackRightShift(b[2], 3, 8)
        /\ m.hw_timestamp = UnpackLeftShiftU16(b[6], 8, 255)
                            | UnpackRightShift(b[7], 0, 255)

\* The one byte of DoWork0 in use
DoWork0AsInC ==
  \A counter \in FlagBytes :
    DoWork0Pack(OldBytes, [counter |-> counter], 8).dst[0]
      = PackLeftShift(counter, 0, 255)

\* What is packed and unpacked is what the shifts and masks of canproto.c
\* compute, field by field, for every structure a caller can pass, and the
\* reserved bits are zero whatever the buffer held before.
BytesAsInC == PackedAsInC /\ UnpackedAsInC /\ DoWork0AsInC
=============================================================================
