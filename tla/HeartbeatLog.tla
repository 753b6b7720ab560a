---------------------------- MODULE HeartbeatLog ----------------------------
(***************************************************************************)
(* Heartbeat with histories that tell the heartbeats apart: seqnum comes   *)
(* round, the number of a heartbeat does not.  No step of Heartbeat is     *)
(* left out or bounded.                                                    *)
(***************************************************************************)
EXTENDS Heartbeat, Sequences

VARIABLES made,    \* how many heartbeats can2_task has begun
          number,  \* which of them is in each mailbox, 0 for none
          sent     \* those on the bus, in bus order: [number, heartbeat]

log_vars == <<vars, made, number, sent>>

LogInit == /\ Init
           /\ made = 0
           /\ number = [m \in Mailboxes |-> 0]
           /\ sent = <<>>

\* The task wakes up for the next heartbeat.
LogsWakeup == DelayUntil /\ made' = made + 1 /\ UNCHANGED <<number, sent>>

\* A mailbox takes the present heartbeat.
LogsAdd == /\ AddTxMessage
           /\ number' = [m \in Mailboxes |->
                           IF mailbox'[m] = mailbox[m] THEN number[m] ELSE made]
           /\ UNCHANGED <<made, sent>>

\* The bus takes what is in a mailbox.
LogsBus(m) == /\ BusTakes(m)
              /\ sent' = Append(sent, [number    |-> number[m],
                                       heartbeat |-> on_bus'])
              /\ number' = [number EXCEPT ![m] = 0]
              /\ UNCHANGED made

Unlogged == \/ \E f \in Flags : ReadFlag(f)
            \/ AddTxFails \/ PeriodElapses
            \/ \E f \in Flags \ {"can2"} : RaisedElsewhere(f)

LogNext == \/ LogsWakeup \/ LogsAdd \/ \E m \in Mailboxes : LogsBus(m)
           \/ Unlogged /\ UNCHANGED <<made, number, sent>>

LogSpec == LogInit /\ [][LogNext]_log_vars

-----------------------------------------------------------------------------
(* Properties                                                              *)

NumbersSent == {sent[i].number : i \in 1..Len(sent)}
NumbersPending == {number[m] : m \in Mailboxes} \ {0}
InTheMaking == IF can2_pc = "delay" THEN {} ELSE {made}

\* A heartbeat on the bus has the seqnum that belongs to its number, and none
\* is there twice; every heartbeat made so far is on the bus, in a mailbox or
\* in the making, unless the can2 flag is raised: a receiver that misses a
\* seqnum will be told why, in each of its rounds.
NoSilentGap ==
  /\ \A i, j \in 1..Len(sent) :
       /\ sent[i].heartbeat.seqnum = sent[i].number % SeqnumModulus
       /\ sent[i].number = sent[j].number => i = j
  /\ \/ "can2" \in flags
     \/ NumbersSent \union NumbersPending \union InTheMaking = 1..made

\* Whatever order the mailboxes empty in, a later heartbeat never takes back a
\* flag that an earlier one reported (status_flags.c has no reset).
FlagsOnBusStay ==
  \A i, j \in 1..Len(sent) :
    sent[i].number < sent[j].number =>
      sent[i].heartbeat.flags \subseteq sent[j].heartbeat.flags
=============================================================================
