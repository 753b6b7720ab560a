------------------------------ MODULE Canproto ------------------------------
(***************************************************************************)
(* The message packing of src/generated/canproto.c, generated from         *)
(* src/dbc/canproto.dbc.  A byte array is a function from 0..7 to 0..255.  *)
(* The C helpers shift and mask; here each is written by what it computes: *)
(* (uint8_t)(v << 0) & 0xff is v % 256, (uint8_t)(v >> 8) & 0xff the next  *)
(* byte, and a one-bit mask takes the bit at its place.                    *)
(* MCCanproto compares them with the shifts and masks.                     *)
(***************************************************************************)
EXTENDS Integers

Uint8 == 0..255
UINT16_MAX == 65535
Uint16 == 0..UINT16_MAX
Bytes == [0..7 -> Uint8]

EINVAL == 22
HEARTBEAT_LENGTH == 8
DO_WORK0_LENGTH == 8

Heartbeat == [seqnum : Uint16, can1_error : Uint8, can2_error : Uint8,
              caneth_error : Uint8, shell_error : Uint8, hw_timestamp : Uint16]
DoWork0 == [counter : Uint8]

-----------------------------------------------------------------------------
(* pack_left_shift and pack_right_shift                                    *)

\* Bit 0 of v moved to the place of the one-bit mask 1 << k:
\* pack_left_shift_u8(v, k, mask)
PackBit(v, mask) == (v % 2) * mask

\* pack_left_shift_u16(v, 0, 0xff) and pack_right_shift_u16(v, 8, 0xff)
PackLowSwapped(v) == v \div 256  \* mutation
PackLow(v) == v % 256
PackHigh(v) == v \div 256

(* unpack_left_shift and unpack_right_shift                                *)

\* The bit of b at the place of the mask 1 << k:
\* unpack_right_shift_u8(b, k, mask)
UnpackBitUnmasked(b, mask) == b \div mask  \* mutation
UnpackBit(b, mask) == (b \div mask) % 2

\* unpack_right_shift_u16(low, 0, 0xff) | unpack_left_shift_u16(high, 8, 0xff)
UnpackWord(low, high) == low + 256 * high

-----------------------------------------------------------------------------
(* Heartbeat: seqnum little-endian in bytes 0 and 1, the flags in the low  *)
(* bits of byte 2, hw_timestamp big-endian in bytes 6 and 7.               *)

FlagByte(m) == PackBit(m.can1_error, 1) + PackBit(m.can2_error, 2)
               + PackBit(m.caneth_error, 4) + PackBit(m.shell_error, 8)

HeartbeatBytes(m) == [i \in 0..7 |->
                        CASE i = 0 -> PackLow(m.seqnum)
                          [] i = 1 -> PackHigh(m.seqnum)
                          [] i = 2 -> FlagByte(m)
                          [] i = 6 -> PackHigh(m.hw_timestamp)
                          [] i = 7 -> PackLow(m.hw_timestamp)
                          [] OTHER -> 0]

\* What a call returns and what the destination holds afterwards; a buffer
\* that is too small is refused and left alone.
HeartbeatPack(dst, m, size) ==
  IF size < HEARTBEAT_LENGTH
    THEN [ret |-> -EINVAL, dst |-> dst]
    ELSE [ret |-> HEARTBEAT_LENGTH, dst |-> HeartbeatBytes(m)]

HeartbeatFrom(b) == [seqnum       |-> UnpackWord(b[0], b[1]),
                     can1_error   |-> UnpackBit(b[2], 1),
                     can2_error   |-> UnpackBit(b[2], 2),
                     caneth_error |-> UnpackBit(b[2], 4),
                     shell_error  |-> UnpackBit(b[2], 8),
                     hw_timestamp |-> UnpackWord(b[7], b[6])]

HeartbeatUnpack(dst, b, size) ==
  IF size < HEARTBEAT_LENGTH
    THEN [ret |-> -EINVAL, dst |-> dst]
    ELSE [ret |-> 0, dst |-> HeartbeatFrom(b)]

\* The conjunction of the canproto_heartbeat_<signal>_is_in_range
HeartbeatIsInRange(m) == /\ m.can1_error <= 1
                         /\ m.can2_error <= 1
                         /\ m.caneth_error <= 1
                         /\ m.shell_error <= 1

\* Both init functions return -1 for a null pointer; each caller passes the
\* address of a local variable.
HeartbeatInit == [seqnum |-> 0, can1_error |-> 0, can2_error |-> 0,
                  caneth_error |-> 0, shell_error |-> 0, hw_timestamp |-> 0]

-----------------------------------------------------------------------------
(* DoWork0: one counter in byte 0                                          *)

DoWork0Bytes(m) == [i \in 0..7 |-> IF i = 0 THEN m.counter ELSE 0]

DoWork0Pack(dst, m, size) ==
  IF size < DO_WORK0_LENGTH
    THEN [ret |-> -EINVAL, dst |-> dst]
    ELSE [ret |-> DO_WORK0_LENGTH, dst |-> DoWork0Bytes(m)]

DoWork0From(b) == [counter |-> b[0]]

DoWork0Unpack(dst, b, size) ==
  IF size < DO_WORK0_LENGTH
    THEN [ret |-> -EINVAL, dst |-> dst]
    ELSE [ret |-> 0, dst |-> DoWork0From(b)]

DoWork0Init == [counter |-> 0]
=============================================================================
