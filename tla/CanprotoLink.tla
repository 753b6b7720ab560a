---------------------------- MODULE CanprotoLink ----------------------------
(***************************************************************************)
(* A sender packs a message with Canproto in a buffer that holds other     *)
(* bytes, and a receiver unpacks it: what arrives of any structure that a  *)
(* caller can pass, in range or not, and in buffers of any size.           *)
(***************************************************************************)
EXTENDS Canproto

CONSTANTS Words,     \* values of the 16-bit signals
          FlagBytes, \* values of the flag members of the C structure
          Sizes      \* buffer sizes

ASSUME WordsAssumption == Words \subseteq Uint16
ASSUME FlagBytesAssumption == FlagBytes \subseteq Uint8
ASSUME SizesAssumption == Sizes \subseteq Nat

VARIABLES stage, msg, size, packed, unpacked

link_vars == <<stage, msg, size, packed, unpacked>>

OldBytes == [i \in 0..7 |-> 170]
Unset == [HeartbeatInit EXCEPT !.seqnum = 99]

Messages == [seqnum : Words, can1_error : FlagBytes, can2_error : FlagBytes,
             caneth_error : FlagBytes, shell_error : FlagBytes,
             hw_timestamp : Words]

LinkInit == /\ stage = "pack"
            /\ msg \in Messages
            /\ size \in Sizes
            /\ packed = [ret |-> 0, dst |-> OldBytes]
            /\ unpacked = [ret |-> 0, dst |-> Unset]

Pack == /\ stage = "pack"
        /\ packed' = HeartbeatPack(packed.dst, msg, size)
        /\ stage' = "unpack"
        /\ UNCHANGED <<msg, size, unpacked>>

Unpack == /\ stage = "unpack"
          /\ unpacked' = HeartbeatUnpack(unpacked.dst, packed.dst, size)
          /\ stage' = "done"
          /\ UNCHANGED <<msg, size, packed>>

LinkNext == Pack \/ Unpack

LinkSpec == LinkInit /\ [][LinkNext]_link_vars

-----------------------------------------------------------------------------
\* A structure with the low bit of each of its flags
LowBits(m) == [seqnum       |-> m.seqnum,
               can1_error   |-> m.can1_error % 2,
               can2_error   |-> m.can2_error % 2,
               caneth_error |-> m.caneth_error % 2,
               shell_error  |-> m.shell_error % 2,
               hw_timestamp |-> m.hw_timestamp]

\* A heartbeat
HeartbeatRoundTrip ==
  stage = "done" =>
    IF size < HEARTBEAT_LENGTH
      THEN /\ packed = [ret |-> -EINVAL, dst |-> OldBytes]
           /\ unpacked = [ret |-> -EINVAL, dst |-> Unset]
      ELSE /\ packed.ret = HEARTBEAT_LENGTH
           /\ unpacked = [ret |-> 0, dst |-> LowBits(msg)]
           /\ HeartbeatIsInRange(unpacked.dst)
           /\ HeartbeatIsInRange(msg) => unpacked.dst = msg

\* A DoWork0 frame
DoWork0RoundTrip ==
  \A counter \in FlagBytes :
    LET frame == DoWork0Pack(OldBytes, [counter |-> counter], DO_WORK0_LENGTH)
    IN  DoWork0Unpack(DoWork0Init, frame.dst, size)
          = IF size < DO_WORK0_LENGTH
              THEN [ret |-> -EINVAL, dst |-> DoWork0Init]
              ELSE [ret |-> 0, dst |-> [counter |-> counter]]

\* A message in range arrives as it was sent; of a flag member that is out of
\* range the low bit arrives.  With a buffer that is too small nothing does:
\* the receiver refuses a frame that is too short (task_can1.c:170).
RoundTrip == HeartbeatRoundTrip /\ DoWork0RoundTrip
=============================================================================
