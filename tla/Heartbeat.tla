----------------------------- MODULE Heartbeat -----------------------------
(***************************************************************************)
(* The heartbeat on CAN2, src/src/task_can2.c, and the status flags it     *)
(* reports, src/src/status_flags.c.                                        *)
(*                                                                         *)
(* Every 50 ms the CAN2 task reads the four sticky error flags one after   *)
(* the other, while interrupts and other tasks raise them, and gives the   *)
(* heartbeat to one of the controller's three transmit mailboxes.  The bus *)
(* may take any time to take a message: all heartbeats have one identifier,*)
(* and of equal identifiers the controller sends the lowest mailbox first. *)
(***************************************************************************)
EXTENDS Naturals, FiniteSets

CONSTANTS Mailboxes,      \* the numbers of the transmit mailboxes
          SeqnumModulus,  \* 2^16: hb_msg.seqnum is a uint16_t
          MaxDue          \* bound of the model: periods the task may lag behind

ASSUME MailboxesAssumption == Mailboxes \subseteq Nat /\ IsFiniteSet(Mailboxes)
ASSUME SeqnumModulusAssumption == SeqnumModulus \in Nat \ {0, 1}
ASSUME MaxDueAssumption == MaxDue \in Nat \ {0}

VARIABLES flags,        \* the flags of status_flags.c that are set
          can2_pc,      \* the flag can2_task reads next, or where else it is
          due,          \* periods elapsed and not yet served by xTaskDelayUntil
          hb_msg,       \* can2_task's local: [seqnum, flags]
          mailbox,      \* in each mailbox, the set of its one message or of none
          flags_at_wake,\* history: the flags set when the task woke up
          on_bus        \* history: the last heartbeat on the bus

vars == <<flags, can2_pc, due, hb_msg, mailbox, flags_at_wake, on_bus>>

Flags == {"can1", "can2", "caneth", "shell"}
ZeroMessage == [seqnum |-> 0, flags |-> {}]

\* The order in which can2_task reads the flags
NextReadSkipsShell == [can1 |-> "can2", can2 |-> "caneth",  \* mutation
                       caneth |-> "add", shell |-> "add"]
NextRead == [can1 |-> "can2", can2 |-> "caneth", caneth |-> "shell",
             shell |-> "add"]

Init == /\ flags = {}
        /\ can2_pc = "delay"
        /\ due = 0
        /\ hb_msg = ZeroMessage
        /\ mailbox = [m \in Mailboxes |-> {}]
        /\ flags_at_wake = {}
        /\ on_bus = ZeroMessage

-----------------------------------------------------------------------------
(* status_flags.c: Atomic_OR_u32 from tasks and interrupts.  The flag can2 *)
(* is raised by can2_task alone: can2_error_cb is registered, but neither  *)
(* the error interrupts nor a handler for them is enabled.                 *)

Raise(f) == flags' = flags \union {f}

RaisedElsewhere(f) == /\ Raise(f)
                      /\ UNCHANGED <<can2_pc, due, hb_msg, mailbox,
                                     flags_at_wake, on_bus>>

PeriodElapses == /\ due < MaxDue
                 /\ due' = due + 1
                 /\ UNCHANGED <<flags, can2_pc, hb_msg, mailbox, flags_at_wake,
                                on_bus>>

-----------------------------------------------------------------------------
(* can2_task                                                               *)

NextSeqnum == (hb_msg.seqnum + 1) % SeqnumModulus

\* xTaskDelayUntil returns, at once when the task is behind.
DelayUntil == /\ can2_pc = "delay"
              /\ due > 0
              /\ due' = due - 1
              /\ hb_msg' = [hb_msg EXCEPT !.seqnum = NextSeqnum]
              /\ flags_at_wake' = flags
              /\ can2_pc' = "can1"
              /\ UNCHANGED <<flags, mailbox, on_bus>>

\* Mutation: the getter clears what it returns.
ReadFlagClearing(f) ==
  /\ can2_pc = f
  /\ hb_msg' = [hb_msg EXCEPT !.flags = (@ \ {f}) \union (flags \intersect {f})]
  /\ flags' = flags \ {f}
  /\ can2_pc' = NextRead[f]
  /\ UNCHANGED <<due, mailbox, flags_at_wake, on_bus>>

\* hb_msg.<f>_error = status_flags_get_<f>_error()
ReadFlag(f) ==
  /\ can2_pc = f
  /\ hb_msg' = [hb_msg EXCEPT !.flags = (@ \ {f}) \union (flags \intersect {f})]
  /\ can2_pc' = NextRead[f]
  /\ UNCHANGED <<flags, due, mailbox, flags_at_wake, on_bus>>

FreeMailboxes == {m \in Mailboxes : mailbox[m] = {}}

\* HAL_CAN_AddTxMessage takes one of the free mailboxes.
AddTxMessage == /\ can2_pc = "add"
                /\ \E m \in FreeMailboxes :
                     mailbox' = [mailbox EXCEPT ![m] = {hb_msg}]
                /\ can2_pc' = "delay"
                /\ UNCHANGED <<flags, due, hb_msg, flags_at_wake, on_bus>>

\* Mutation: a heartbeat without a mailbox is dropped unreported.
AddTxFailsSilently == /\ can2_pc = "add"
                      /\ FreeMailboxes = {}
                      /\ can2_pc' = "delay"
                      /\ UNCHANGED <<flags, due, hb_msg, mailbox, flags_at_wake,
                                     on_bus>>

\* No mailbox is free: the heartbeat is dropped and the flag raised.
AddTxFails == /\ can2_pc = "add"
              /\ FreeMailboxes = {}
              /\ Raise("can2")
              /\ can2_pc' = "delay"
              /\ UNCHANGED <<due, hb_msg, mailbox, flags_at_wake, on_bus>>

-----------------------------------------------------------------------------
\* The controller gets its lowest pending mailbox on the bus.
BusTakes(m) == /\ \A n \in Mailboxes : n < m => mailbox[n] = {}
               /\ on_bus' \in mailbox[m]
               /\ mailbox' = [mailbox EXCEPT ![m] = {}]
               /\ UNCHANGED <<flags, can2_pc, due, hb_msg, flags_at_wake>>

Task == \/ DelayUntil \/ \E f \in Flags : ReadFlag(f)
        \/ AddTxMessage \/ AddTxFails

Cpu == Task \/ PeriodElapses \/ \E f \in Flags \ {"can2"} : RaisedElsewhere(f)

Bus == \E m \in Mailboxes : BusTakes(m)

Next == Cpu \/ Bus

Spec == Init /\ [][Next]_vars

\* The tick goes on, the task of the highest priority runs, and other nodes
\* acknowledge: the bus takes a pending message in the end.
Fairness == WF_vars(PeriodElapses) /\ WF_vars(Task) /\ WF_vars(Bus)

FairSpec == Spec /\ Fairness

-----------------------------------------------------------------------------
(* Properties                                                              *)

Message == [seqnum : 0..(SeqnumModulus - 1), flags : SUBSET Flags]

\* Every variable keeps its type; seqnum wraps in 16 bits.
TypeOK == /\ flags \in SUBSET Flags
          /\ can2_pc \in Flags \union {"delay", "add"}
          /\ due \in 0..MaxDue
          /\ hb_msg \in Message
          /\ mailbox \in [Mailboxes -> SUBSET Message]
          /\ flags_at_wake \in SUBSET Flags
          /\ on_bus \in Message

\* The heartbeat given to the controller reports every flag that was set when
\* the task woke up and none that is not set, although the flags are read one
\* by one and may change between the reads.
FlagsAreFresh == can2_pc = "add" => /\ flags_at_wake \subseteq hb_msg.flags
                                    /\ hb_msg.flags \subseteq flags

\* A flag that is raised is seen on the bus, whatever heartbeats are dropped
\* for want of a mailbox and whatever order the mailboxes empty in.
FlagIsReported == \A f \in Flags : (f \in flags) ~> (f \in on_bus.flags)
=============================================================================
