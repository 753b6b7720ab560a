-------------------------- MODULE HeartbeatProofs --------------------------
(***************************************************************************)
(* The heartbeat from the flags to the bytes on the bus: what holds of     *)
(* Heartbeat for any number of mailboxes, any width of the sequence number *)
(* and any lag of the task, and of Canproto for every message and buffer.  *)
(***************************************************************************)
EXTENDS HeartbeatLog, CanprotoLink, SequenceTheorems, TLAPS

-----------------------------------------------------------------------------
(* Type correctness                                                        *)

LEMMA ZeroMessageType == ZeroMessage \in Message
BY SeqnumModulusAssumption DEF ZeroMessage, Message

LEMMA NextSeqnumType == hb_msg \in Message => NextSeqnum \in 0..(SeqnumModulus - 1)
BY SeqnumModulusAssumption DEF Message, NextSeqnum

LEMMA NextReadType == \A f \in Flags : NextRead[f] \in Flags \union {"add"}
BY DEF Flags, NextRead

\* Every variable keeps its type; seqnum wraps in its width.
THEOREM TypeCorrect == Spec => []TypeOK
<1>1. Init => TypeOK
  BY ZeroMessageType, MaxDueAssumption DEF Init, TypeOK, Flags
<1>2. TypeOK /\ [Next]_vars => TypeOK'
  <2> SUFFICES ASSUME TypeOK, [Next]_vars PROVE TypeOK'
    OBVIOUS
  <2> USE DEF TypeOK
  <2>1. CASE DelayUntil
    <3>1. due' \in 0..MaxDue
      BY <2>1, MaxDueAssumption DEF DelayUntil
    <3>2. hb_msg' \in Message
      BY <2>1, NextSeqnumType DEF DelayUntil, Message
    <3> QED
      BY <2>1, <3>1, <3>2 DEF DelayUntil, Flags
  <2>2. ASSUME NEW f \in Flags, ReadFlag(f) PROVE TypeOK'
    <3>1. hb_msg' \in Message
      BY <2>2 DEF ReadFlag, Message
    <3> QED
      BY <2>2, <3>1, NextReadType DEF ReadFlag
  <2>3. CASE AddTxMessage
    BY <2>3 DEF AddTxMessage, FreeMailboxes
  <2>4. CASE AddTxFails
    BY <2>4 DEF AddTxFails, Raise, Flags
  <2>5. CASE PeriodElapses
    <3>1. due' \in 0..MaxDue
      BY <2>5, MaxDueAssumption DEF PeriodElapses
    <3> QED
      BY <2>5, <3>1 DEF PeriodElapses
  <2>6. ASSUME NEW f \in Flags, RaisedElsewhere(f) PROVE TypeOK'
    BY <2>6 DEF RaisedElsewhere, Raise
  <2>7. ASSUME NEW m \in Mailboxes, BusTakes(m) PROVE TypeOK'
    BY <2>7 DEF BusTakes
  <2>8. CASE UNCHANGED vars
    BY <2>8 DEF vars
  <2> QED
    BY <2>1, <2>2, <2>3, <2>4, <2>5, <2>6, <2>7, <2>8
       DEF Next, Cpu, Task, Bus
<1> QED
  BY <1>1, <1>2, PTL DEF Spec

-----------------------------------------------------------------------------
(* The snapshot of the flags                                               *)

\* No step of any task or interrupt clears a flag.
LEMMA FlagsStay == TypeOK /\ [Next]_vars => flags \subseteq flags'
BY DEF TypeOK, Next, Cpu, Task, Bus, DelayUntil, ReadFlag, AddTxMessage,
       AddTxFails, PeriodElapses, RaisedElsewhere, Raise, BusTakes, vars

\* The flags that can2_task has still to read for this heartbeat
Unread == CASE can2_pc = "can2"   -> {"can2", "caneth", "shell"}
            [] can2_pc = "caneth" -> {"caneth", "shell"}
            [] can2_pc = "shell"  -> {"shell"}
            [] can2_pc = "add"    -> {}
            [] OTHER              -> Flags

\* What was set when the task woke up is in the heartbeat as far as it has
\* been read, and since no flag is ever cleared, what is in the heartbeat is
\* set, even what the heartbeat before left in it.
SnapshotInv == /\ flags_at_wake \ Unread \subseteq hb_msg.flags
               /\ hb_msg.flags \subseteq flags
               /\ flags_at_wake \subseteq flags

LEMMA SnapshotStep == TypeOK /\ SnapshotInv /\ [Next]_vars => SnapshotInv'
<1> SUFFICES ASSUME TypeOK, SnapshotInv, [Next]_vars PROVE SnapshotInv'
  OBVIOUS
<1>1. flags \subseteq flags'
  BY FlagsStay
<1>2. hb_msg \in Message /\ flags_at_wake \subseteq Flags
  BY DEF TypeOK
<1>3. CASE DelayUntil
  <2>1. Unread' = Flags
    BY <1>3 DEF DelayUntil, Unread
  <2>2. flags_at_wake' = flags /\ hb_msg'.flags = hb_msg.flags /\ flags' = flags
    BY <1>2, <1>3 DEF DelayUntil, Message
  <2> QED
    BY <2>1, <2>2 DEF SnapshotInv, TypeOK
<1>4. ASSUME NEW f \in Flags, ReadFlag(f) PROVE SnapshotInv'
  <2>1. /\ hb_msg'.flags = (hb_msg.flags \ {f}) \union (flags \intersect {f})
        /\ UNCHANGED <<flags, flags_at_wake>>
    BY <1>2, <1>4 DEF ReadFlag, Message
  <2>2. Unread \ {f} \subseteq Unread'
    BY <1>4 DEF ReadFlag, Unread, Flags, NextRead
  <2> QED
    BY <2>1, <2>2 DEF SnapshotInv
<1>5. CASE AddTxMessage \/ AddTxFails
  <2>1. Unread' = Flags
    BY <1>5 DEF AddTxMessage, AddTxFails, Unread
  <2>2. UNCHANGED <<hb_msg, flags_at_wake>>
    BY <1>5 DEF AddTxMessage, AddTxFails
  <2> QED
    BY <1>1, <1>2, <2>1, <2>2 DEF SnapshotInv
<1>6. CASE UNCHANGED <<can2_pc, hb_msg, flags_at_wake>>
  BY <1>1, <1>6 DEF SnapshotInv, Unread
<1>7. ASSUME NEW m \in Mailboxes, BusTakes(m)
      PROVE  UNCHANGED <<can2_pc, hb_msg, flags_at_wake>>
  BY <1>7 DEF BusTakes
<1>8. CASE UNCHANGED vars
  BY <1>6, <1>8 DEF vars
<1> QED
  BY <1>3, <1>4, <1>5, <1>6, <1>7, <1>8
     DEF Next, Cpu, Task, Bus, PeriodElapses, RaisedElsewhere

LEMMA SnapshotHolds == Spec => []SnapshotInv
<1>1. Init => SnapshotInv
  BY DEF Init, SnapshotInv, ZeroMessage
<1> QED
  BY <1>1, SnapshotStep, TypeCorrect, PTL DEF Spec

\* A heartbeat reports every flag that was set when the task woke up and none
\* that is not set, however the reads interleave with those who raise flags.
THEOREM SnapshotIsTrue == Spec => []FlagsAreFresh
<1>1. SnapshotInv => FlagsAreFresh
  BY DEF SnapshotInv, FlagsAreFresh, Unread
<1> QED
  BY <1>1, SnapshotHolds, PTL

-----------------------------------------------------------------------------
(* The sequence numbers                                                    *)

\* A number is a multiple of the modulus and its remainder.
LEMMA Division ==
  ASSUME NEW a \in Nat
  PROVE  \E q \in Nat : /\ a = q * SeqnumModulus + (a % SeqnumModulus)
                        /\ a % SeqnumModulus \in 0..(SeqnumModulus - 1)
<1>1. SeqnumModulus \in Nat /\ SeqnumModulus > 1
  BY SeqnumModulusAssumption
<1>2. PICK q \in Nat : q = a \div SeqnumModulus
  BY <1>1
<1>3. a % SeqnumModulus \in 0..(SeqnumModulus - 1)
  BY <1>1
<1>4. PICK r \in Nat : r = a % SeqnumModulus
  BY <1>1, <1>3
<1>5. a = q * SeqnumModulus + r
  BY <1>1, <1>2, <1>4
<1> QED
  BY <1>3, <1>4, <1>5

\* Counting commutes with the wrap.
LEMMA NextRemainder ==
  ASSUME NEW n \in Nat
  PROVE  ((n % SeqnumModulus) + 1) % SeqnumModulus = (n + 1) % SeqnumModulus
<1> DEFINE M == SeqnumModulus
           a == n % M
           b == (n + 1) % M
<1>1. M \in Nat /\ M > 1
  BY SeqnumModulusAssumption
<1>2. PICK q \in Nat : n = q * M + a /\ a \in 0..(M - 1)
  BY Division
<1>3. PICK r \in Nat : n + 1 = r * M + b /\ b \in 0..(M - 1)
  BY Division
<1> DEFINE k == r - q
<1> HIDE DEF M, a, b
<1>4. k \in Int /\ k * M = r * M - q * M
  BY <1>1
<1>5. k * M = a + 1 - b
  BY <1>1, <1>2, <1>3, <1>4
<1>6. k = 0 \/ k = 1
  <2> HIDE DEF k
  <2>1. k >= 2 => k * M >= 2 * M
    BY <1>1, <1>4
  <2>2. k <= -1 => k * M <= -M
    BY <1>1, <1>4
  <2> QED
    BY <1>1, <1>2, <1>3, <1>4, <1>5, <2>1, <2>2
<1>7. (a + 1) % M = b
  <2>1. CASE k = 0
    <3>1. a + 1 = b
      BY <1>1, <1>2, <1>3, <1>5, <2>1
    <3> QED
      BY <1>1, <1>3, <3>1
  <2>2. CASE k = 1
    <3>1. a + 1 = M /\ b = 0
      BY <1>1, <1>2, <1>3, <1>5, <2>2
    <3> QED
      BY <1>1, <3>1
  <2> QED
    BY <1>6, <2>1, <2>2
<1> QED
  BY <1>7 DEF M, a, b

-----------------------------------------------------------------------------
(* The log of the bus                                                      *)

Entry == [number : Nat, heartbeat : Message]

\* The heartbeats that have left the task and are not lost
Placed == {e \in Entry :
             \/ \E i \in 1..Len(sent) : e = sent[i]
             \/ \E m \in Mailboxes :
                  e.number = number[m] /\ e.heartbeat \in mailbox[m]}

LogType == /\ made \in Nat
           /\ number \in [Mailboxes -> Nat]
           /\ sent \in Seq(Entry)
           /\ hb_msg.seqnum = made % SeqnumModulus

\* A mailbox with a number has one heartbeat, one without has none.
Mailed == \A m \in Mailboxes :
            \/ number[m] = 0 /\ mailbox[m] = {}
            \/ number[m] # 0 /\ \E h \in Message : mailbox[m] = {h}

\* No number is in two places.
OncePlaced ==
  /\ \A i, j \in 1..Len(sent) : sent[i].number = sent[j].number => i = j
  /\ \A m, p \in Mailboxes : number[m] = number[p] /\ number[m] # 0 => m = p
  /\ \A i \in 1..Len(sent), m \in Mailboxes : sent[i].number # number[m]

\* What has left the task has a number up to the present one, but for the one
\* in the making, and the seqnum that belongs to it.
Numbered ==
  /\ can2_pc # "delay" => made # 0
  /\ \A e \in Placed : /\ e.number \in 1..made
                       /\ e.number \notin InTheMaking
                       /\ e.heartbeat.seqnum = e.number % SeqnumModulus

\* A number is left out only under the flag.
Complete ==
  \/ "can2" \in flags
  \/ \A n \in 1..made : n \in InTheMaking \/ \E e \in Placed : n = e.number

\* The flags of hb_msg only grow, and a later heartbeat has more of them.
Growing ==
  /\ \A e \in Placed : e.heartbeat.flags \subseteq hb_msg.flags
  /\ \A e, f \in Placed : e.number < f.number =>
       e.heartbeat.flags \subseteq f.heartbeat.flags

LogInv == LogType /\ Mailed /\ OncePlaced /\ Numbered /\ Complete /\ Growing

\* A step that moves no heartbeat only has to keep what is said of the task.
LEMMA NothingMoves ==
  ASSUME UNCHANGED <<mailbox, number, sent>>
  PROVE  Placed' = Placed /\ (Mailed => Mailed') /\ (OncePlaced => OncePlaced')
BY DEF Placed, Mailed, OncePlaced

\* The flags of hb_msg grow: a flag that was read as set is still set when it
\* is read again.
LEMMA MessageGrows ==
  ASSUME TypeOK, SnapshotInv, NEW f \in Flags, ReadFlag(f)
  PROVE  /\ hb_msg.flags \subseteq hb_msg'.flags
         /\ hb_msg'.seqnum = hb_msg.seqnum
BY DEF TypeOK, Message, SnapshotInv, ReadFlag

LEMMA LogsWakeupStep ==
  ASSUME TypeOK, LogInv, LogsWakeup
  PROVE  LogInv'
<1>1. /\ can2_pc = "delay" /\ can2_pc' = "can1" /\ flags' = flags
      /\ made \in Nat /\ made' = made + 1
      /\ UNCHANGED <<mailbox, number, sent>>
  BY DEF LogInv, LogType, LogsWakeup, DelayUntil
<1>2. hb_msg'.seqnum = NextSeqnum /\ hb_msg'.flags = hb_msg.flags
  BY DEF TypeOK, Message, LogsWakeup, DelayUntil
<1>3. NextSeqnum = made' % SeqnumModulus
  BY <1>1, NextRemainder DEF LogInv, LogType, NextSeqnum
<1>4. Placed' = Placed /\ Mailed' /\ OncePlaced'
  BY <1>1, NothingMoves DEF LogInv
<1>5. InTheMaking = {} /\ InTheMaking' = {made + 1}
  BY <1>1 DEF InTheMaking
<1>6. LogType'
  BY <1>1, <1>2, <1>3 DEF LogInv, LogType
<1>7. Numbered'
  BY <1>1, <1>4, <1>5 DEF LogInv, Numbered
<1>8. Complete'
  <2>1. \A n \in 1..(made + 1) : n \in 1..made \/ n = made + 1
    BY <1>1
  <2> QED
    BY <1>1, <1>4, <1>5, <2>1 DEF LogInv, Complete
<1>9. Growing'
  BY <1>2, <1>4 DEF LogInv, Growing
<1> QED
  BY <1>4, <1>6, <1>7, <1>8, <1>9 DEF LogInv

LEMMA LogsAddStep ==
  ASSUME TypeOK, LogInv, LogsAdd
  PROVE  LogInv'
<1>1. /\ can2_pc = "add" /\ can2_pc' = "delay" /\ made \in Nat
      /\ number \in [Mailboxes -> Nat] /\ sent \in Seq(Entry)
      /\ mailbox \in [Mailboxes -> SUBSET Message] /\ hb_msg \in Message
      /\ UNCHANGED <<flags, hb_msg, made, sent>>
  BY DEF TypeOK, LogInv, LogType, LogsAdd, AddTxMessage
<1>2. PICK m \in Mailboxes : /\ mailbox[m] = {}
                             /\ mailbox' = [mailbox EXCEPT ![m] = {hb_msg}]
  BY DEF LogsAdd, AddTxMessage, FreeMailboxes
<1>3. /\ mailbox'[m] = {hb_msg}
      /\ \A p \in Mailboxes \ {m} : mailbox'[p] = mailbox[p]
  BY <1>1, <1>2
<1>4. /\ number[m] = 0 /\ number'[m] = made
      /\ \A p \in Mailboxes \ {m} : number'[p] = number[p]
      /\ number' \in [Mailboxes -> Nat]
  BY <1>1, <1>2, <1>3 DEF LogInv, Mailed, LogsAdd
<1>5. made # 0 /\ InTheMaking = {made} /\ InTheMaking' = {}
  BY <1>1 DEF LogInv, Numbered, InTheMaking
<1> DEFINE new == [number |-> made, heartbeat |-> hb_msg]
<1>6. Placed' = Placed \union {new}
  <2>1. new \in Entry
    BY <1>1 DEF Entry
  <2>2. ASSUME NEW e \in Entry
        PROVE  e = new <=> e.number = made /\ e.heartbeat = hb_msg
    BY <2>2 DEF Entry
  <2> HIDE DEF new
  <2>3. \A e : e \in Placed' <=> e \in Placed \/ e = new
    BY <1>1, <1>2, <1>3, <1>4, <2>1, <2>2 DEF Placed
  <2> QED
    BY <2>3
<1>7. \A e \in Placed : e.number \in 1..made /\ e.number # made
  BY <1>5 DEF LogInv, Numbered
<1>8. /\ \A i \in 1..Len(sent) : sent[i].number # made
      /\ \A p \in Mailboxes : number[p] # made
  <2>1. \A i \in 1..Len(sent) : sent[i] \in Placed
    BY <1>1 DEF Placed
  <2>2. ASSUME NEW p \in Mailboxes, number[p] # 0
        PROVE  number[p] # made
    <3>1. PICK h \in Message : mailbox[p] = {h}
      BY <2>2 DEF LogInv, Mailed
    <3>2. [number |-> number[p], heartbeat |-> h] \in Placed
      BY <1>1, <3>1 DEF Placed, Entry
    <3> QED
      BY <1>7, <3>2
  <2> QED
    BY <1>5, <1>7, <2>1, <2>2
<1>9. LogType' /\ Mailed'
  BY <1>1, <1>3, <1>4, <1>5 DEF LogInv, LogType, Mailed
<1>10. OncePlaced'
  BY <1>1, <1>4, <1>8 DEF LogInv, OncePlaced
<1>11. Numbered'
  <2>1. hb_msg.seqnum = made % SeqnumModulus /\ made \in 1..made
    BY <1>1, <1>5 DEF LogInv, LogType
  <2> QED
    BY <1>1, <1>5, <1>6, <2>1 DEF LogInv, Numbered
<1>12. Complete'
  <2>1. new \in Placed' /\ new.number = made
    BY <1>6
  <2>2. \A e \in Placed : e \in Placed'
    BY <1>6
  <2> HIDE DEF new
  <2> QED
    BY <1>1, <1>5, <2>1, <2>2 DEF LogInv, Complete
<1>13. Growing'
  <2>1. \A e \in Placed : ~(made < e.number)
    BY <1>1, <1>7
  <2> QED
    BY <1>1, <1>6, <2>1 DEF LogInv, Growing
<1> QED
  BY <1>9, <1>10, <1>11, <1>12, <1>13 DEF LogInv

LEMMA LogsBusStep ==
  ASSUME TypeOK, LogInv, NEW m \in Mailboxes, LogsBus(m)
  PROVE  LogInv'
<1> DEFINE h == on_bus'
           new == [number |-> number[m], heartbeat |-> h]
<1>1. /\ made \in Nat /\ number \in [Mailboxes -> Nat]
      /\ sent \in Seq(Entry) /\ Len(sent) \in Nat
      /\ mailbox \in [Mailboxes -> SUBSET Message]
      /\ UNCHANGED <<flags, can2_pc, hb_msg, made>>
  BY LenProperties DEF TypeOK, LogInv, LogType, LogsBus, BusTakes
<1>2. /\ h \in mailbox[m]
      /\ mailbox' = [mailbox EXCEPT ![m] = {}]
      /\ number' = [number EXCEPT ![m] = 0]
      /\ sent' = Append(sent, new)
  BY DEF LogsBus, BusTakes
<1>3. new \in Entry
  BY <1>1, <1>2 DEF Entry
<1>4. new.number = number[m] /\ new.heartbeat = h
  OBVIOUS
<1>5. \A e \in Entry : e.number = number[m] /\ e.heartbeat = h => e = new
  BY DEF Entry
<1> HIDE DEF h, new
<1>6. number[m] # 0 /\ mailbox[m] = {h}
  BY <1>2 DEF LogInv, Mailed
<1>7. /\ mailbox'[m] = {} /\ number'[m] = 0
      /\ \A p \in Mailboxes \ {m} : /\ mailbox'[p] = mailbox[p]
                                    /\ number'[p] = number[p]
      /\ number' \in [Mailboxes -> Nat]
  BY <1>1, <1>2
<1>8. /\ sent' \in Seq(Entry) /\ Len(sent') = Len(sent) + 1
      /\ \A i \in 1..Len(sent) : sent'[i] = sent[i]
      /\ sent'[Len(sent) + 1] = new
  BY <1>1, <1>2, <1>3, AppendProperties
<1>9. \A i \in 1..Len(sent') : \/ i \in 1..Len(sent) /\ sent'[i] = sent[i]
                               \/ i = Len(sent) + 1 /\ sent'[i] = new
  BY <1>1, <1>8
<1>10. Placed' = Placed
  <2>1. ASSUME NEW e \in Placed'
        PROVE  e \in Placed
    BY <1>1, <1>2, <1>4, <1>7, <1>9, <2>1 DEF Placed
  <2>2. ASSUME NEW e \in Placed
        PROVE  e \in Placed'
    <3>1. CASE \E i \in 1..Len(sent) : e = sent[i]
      BY <1>1, <1>8, <2>2, <3>1 DEF Placed
    <3>2. CASE \E p \in Mailboxes \ {m} :
                 e.number = number[p] /\ e.heartbeat \in mailbox[p]
      BY <1>7, <2>2, <3>2 DEF Placed
    <3>3. CASE e.number = number[m] /\ e.heartbeat \in mailbox[m]
      <4>1. e = new
        BY <1>5, <1>6, <2>2, <3>3 DEF Placed
      <4>2. Len(sent) + 1 \in 1..Len(sent')
        BY <1>1, <1>8
      <4> QED
        BY <1>3, <1>8, <4>1, <4>2 DEF Placed
    <3> QED
      BY <2>2, <3>1, <3>2, <3>3 DEF Placed
  <2> QED
    BY <2>1, <2>2
<1>11. LogType' /\ Mailed'
  BY <1>1, <1>7, <1>8 DEF LogInv, LogType, Mailed
<1>12. OncePlaced'
  <2>1. \A i, j \in 1..Len(sent') : sent'[i].number = sent'[j].number => i = j
    BY <1>4, <1>9 DEF LogInv, OncePlaced
  <2>2. \A p, q \in Mailboxes :
          number'[p] = number'[q] /\ number'[p] # 0 => p = q
    BY <1>7 DEF LogInv, OncePlaced
  <2>3. \A i \in 1..Len(sent'), p \in Mailboxes : sent'[i].number # number'[p]
    <3> SUFFICES ASSUME NEW i \in 1..Len(sent'), NEW p \in Mailboxes
                 PROVE  sent'[i].number # number'[p]
      OBVIOUS
    <3>1. sent'[i] \in Placed
      BY <1>8, <1>10 DEF Placed
    <3>2. sent'[i].number # 0
      BY <3>1 DEF LogInv, Numbered
    <3> QED
      BY <1>4, <1>6, <1>7, <1>9, <3>2 DEF LogInv, OncePlaced
  <2> QED
    BY <2>1, <2>2, <2>3 DEF OncePlaced
<1>13. InTheMaking' = InTheMaking
  BY <1>1 DEF InTheMaking
<1> QED
  BY <1>1, <1>10, <1>11, <1>12, <1>13
     DEF LogInv, Numbered, Complete, Growing

LEMMA UnloggedStep ==
  ASSUME TypeOK, SnapshotInv, LogInv,
         Unlogged \/ UNCHANGED vars, UNCHANGED <<made, number, sent>>
  PROVE  LogInv'
<1>1. mailbox' = mailbox
  BY DEF Unlogged, ReadFlag, AddTxFails, PeriodElapses, RaisedElsewhere, vars
<1>2. Placed' = Placed /\ Mailed' /\ OncePlaced'
  BY <1>1, NothingMoves DEF LogInv
<1>3. CASE /\ flags \subseteq flags'
           /\ hb_msg'.seqnum = hb_msg.seqnum
           /\ hb_msg.flags \subseteq hb_msg'.flags
           /\ InTheMaking' = InTheMaking
           /\ can2_pc = "delay" => can2_pc' = "delay"
  BY <1>2, <1>3 DEF LogInv, LogType, Numbered, Complete, Growing
<1>4. ASSUME NEW f \in Flags, ReadFlag(f)
      PROVE  LogInv'
  <2>1. can2_pc # "delay" /\ can2_pc' # "delay" /\ flags' = flags
    BY <1>4 DEF ReadFlag, Flags, NextRead
  <2> QED
    BY <1>3, <1>4, <2>1, MessageGrows DEF InTheMaking
<1>5. CASE AddTxFails
  <2>1. /\ can2_pc = "add" /\ can2_pc' = "delay" /\ hb_msg' = hb_msg
        /\ "can2" \in flags' /\ InTheMaking' = {}
    BY <1>5 DEF AddTxFails, Raise, InTheMaking
  <2> QED
    BY <1>2, <2>1 DEF LogInv, LogType, Numbered, Complete, Growing
<1>6. ASSUME UNCHANGED <<can2_pc, hb_msg>>, flags \subseteq flags'
      PROVE  LogInv'
  BY <1>3, <1>6 DEF InTheMaking
<1>7. CASE PeriodElapses
  BY <1>6, <1>7 DEF PeriodElapses
<1>8. ASSUME NEW f \in Flags, RaisedElsewhere(f)
      PROVE  LogInv'
  BY <1>6, <1>8 DEF RaisedElsewhere, Raise
<1>9. CASE UNCHANGED vars
  BY <1>6, <1>9 DEF vars
<1> QED
  BY <1>4, <1>5, <1>7, <1>8, <1>9 DEF Unlogged

\* The steps that are logged are steps of the heartbeat, and its snapshots are
\* true in the log as well.
LEMMA LoggedSteps == LogSpec => [](TypeOK /\ SnapshotInv)
<1>1. LogInit => Init
  BY DEF LogInit
<1>2. [LogNext]_log_vars => [Next]_vars
  BY DEF LogNext, LogsWakeup, LogsAdd, LogsBus, Unlogged, log_vars,
         Next, Cpu, Task, Bus
<1>3. LogSpec => Spec
  BY <1>1, <1>2, PTL DEF LogSpec, Spec
<1> QED
  BY <1>3, TypeCorrect, SnapshotHolds, PTL

LEMMA LogInvariant == LogSpec => []LogInv
<1>1. LogInit => LogInv
  <2> SUFFICES ASSUME LogInit PROVE LogInv
    OBVIOUS
  <2>1. /\ sent = <<>> /\ Len(sent) = 0 /\ sent \in Seq(Entry)
        /\ made = 0 /\ hb_msg.seqnum = 0 /\ can2_pc = "delay"
        /\ \A m \in Mailboxes : mailbox[m] = {} /\ number[m] = 0
        /\ number \in [Mailboxes -> Nat]
    BY DEF LogInit, Init, ZeroMessage
  <2>2. Placed = {}
    BY <2>1 DEF Placed
  <2>3. 0 % SeqnumModulus = 0
    BY SeqnumModulusAssumption
  <2> QED
    BY <2>1, <2>2, <2>3
       DEF LogInv, LogType, Mailed, OncePlaced, Numbered, Complete, Growing
<1>2. TypeOK /\ SnapshotInv /\ LogInv /\ [LogNext]_log_vars => LogInv'
  BY LogsWakeupStep, LogsAddStep, LogsBusStep, UnloggedStep
     DEF LogNext, log_vars
<1> QED
  BY <1>1, <1>2, LoggedSteps, PTL DEF LogSpec

\* What has been placed is on the bus or in a mailbox.
LEMMA PlacesOf ==
  ASSUME LogInv
  PROVE  /\ \A i \in 1..Len(sent) : sent[i] \in Placed
         /\ {e.number : e \in Placed} = NumbersSent \union NumbersPending
<1>1. \A i \in 1..Len(sent) : sent[i] \in Placed
  BY DEF LogInv, LogType, Placed
<1>2. ASSUME NEW e \in Placed
      PROVE  e.number \in NumbersSent \union NumbersPending
  BY <1>2 DEF LogInv, Mailed, Placed, NumbersSent, NumbersPending
<1>3. ASSUME NEW m \in Mailboxes, number[m] # 0
      PROVE  \E e \in Placed : e.number = number[m]
  <2>1. PICK h \in Message : mailbox[m] = {h}
    BY <1>3 DEF LogInv, Mailed
  <2>2. [number |-> number[m], heartbeat |-> h] \in Placed
    BY <2>1 DEF LogInv, LogType, Placed, Entry
  <2> QED
    BY <2>2
<1>4. ASSUME NEW n \in NumbersSent \union NumbersPending
      PROVE  \E e \in Placed : e.number = n
  BY <1>1, <1>3, <1>4 DEF NumbersSent, NumbersPending
<1> QED
  BY <1>1, <1>2, <1>4

\* None is missing and none is on the bus twice, unless the flag says so: for
\* any number of mailboxes, any speed of the bus, and however often the
\* sequence number comes round.
THEOREM GapsAreFlagged == LogSpec => []NoSilentGap
<1>1. ASSUME LogInv
      PROVE  NoSilentGap
  <2>1. \A i \in 1..Len(sent) : sent[i] \in Placed
    BY <1>1, PlacesOf
  <2>2. \A i, j \in 1..Len(sent) :
          /\ sent[i].heartbeat.seqnum = sent[i].number % SeqnumModulus
          /\ sent[i].number = sent[j].number => i = j
    BY <1>1, <2>1 DEF LogInv, Numbered, OncePlaced
  <2>3. ASSUME "can2" \notin flags
        PROVE  NumbersSent \union NumbersPending \union InTheMaking = 1..made
    <3>1. {e.number : e \in Placed} = NumbersSent \union NumbersPending
      BY <1>1, PlacesOf
    <3>2. InTheMaking \subseteq 1..made
      BY <1>1 DEF LogInv, LogType, Numbered, InTheMaking
    <3>3. \A e \in Placed : e.number \in 1..made
      BY <1>1 DEF LogInv, Numbered
    <3>4. \A n \in 1..made : n \in InTheMaking \/ \E e \in Placed : n = e.number
      BY <1>1, <2>3 DEF LogInv, Complete
    <3> QED
      BY <3>1, <3>2, <3>3, <3>4
  <2> QED
    BY <2>2, <2>3 DEF NoSilentGap
<1> QED
  BY <1>1, LogInvariant, PTL

\* A receiver that puts the heartbeats in the order of their numbers never
\* sees a flag taken back, whatever order the mailboxes emptied in.
THEOREM FlagsStayOnBus == LogSpec => []FlagsOnBusStay
<1>1. LogInv => FlagsOnBusStay
  BY PlacesOf DEF LogInv, Growing, FlagsOnBusStay
<1> QED
  BY <1>1, LogInvariant, PTL

-----------------------------------------------------------------------------
(* Packing and unpacking                                                   *)

LEMMA Uint16MaxType == UINT16_MAX \in Nat
BY SMTT(60) DEF UINT16_MAX

\* A word is put together again from its two bytes.
LEMMA WordBytes ==
  ASSUME NEW w \in Uint16
  PROVE  /\ PackLow(w) \in Uint8
         /\ PackHigh(w) \in Uint8
         /\ UnpackWord(PackLow(w), PackHigh(w)) = w
BY SMTT(60) DEF Uint8, Uint16, UINT16_MAX, PackLow, PackHigh, UnpackWord

\* Of the four flags that are put together in one byte each comes out again.
LEMMA FlagBits ==
  ASSUME NEW m \in Heartbeat
  PROVE  /\ FlagByte(m) \in Uint8
         /\ UnpackBit(FlagByte(m), 1) = m.can1_error % 2
         /\ UnpackBit(FlagByte(m), 2) = m.can2_error % 2
         /\ UnpackBit(FlagByte(m), 4) = m.caneth_error % 2
         /\ UnpackBit(FlagByte(m), 8) = m.shell_error % 2
<1>1. /\ m.can1_error % 2 \in 0..1 /\ m.can2_error % 2 \in 0..1
      /\ m.caneth_error % 2 \in 0..1 /\ m.shell_error % 2 \in 0..1
  BY DEF Uint8, Heartbeat
<1>2. \A f1, f2, f3, f4 \in 0..1 :
        LET byte == f1 * 1 + f2 * 2 + f3 * 4 + f4 * 8
        IN  /\ byte \in Uint8
            /\ (byte \div 1) % 2 = f1 /\ (byte \div 2) % 2 = f2
            /\ (byte \div 4) % 2 = f3 /\ (byte \div 8) % 2 = f4
  BY DEF Uint8
<1> QED
  BY ONLY <1>1, <1>2 DEF PackBit, UnpackBit, FlagByte

\* What is packed fits its eight bytes, and bytes 3 to 5 are zero.
LEMMA HeartbeatBytesType ==
  ASSUME NEW m \in Heartbeat
  PROVE  /\ HeartbeatBytes(m) \in Bytes
         /\ \A i \in 3..5 : HeartbeatBytes(m)[i] = 0
<1>1. m.seqnum \in Uint16 /\ m.hw_timestamp \in Uint16
  BY DEF Heartbeat
<1>2. FlagByte(m) \in Uint8
  BY FlagBits
<1>3. /\ PackLow(m.seqnum) \in Uint8 /\ PackHigh(m.seqnum) \in Uint8
      /\ PackLow(m.hw_timestamp) \in Uint8 /\ PackHigh(m.hw_timestamp) \in Uint8
  BY <1>1, WordBytes
<1>4. 0 \in Uint8
  BY DEF Uint8
<1>5. ASSUME NEW i \in 0..7 PROVE HeartbeatBytes(m)[i] \in Uint8
  BY <1>2, <1>3, <1>4 DEF HeartbeatBytes
<1>6. QED
  BY <1>5 DEF HeartbeatBytes, Bytes

\* What the receiver reads is the words, and of each flag the low bit.
LEMMA ReadBack ==
  ASSUME NEW m \in Heartbeat
  PROVE  HeartbeatFrom(HeartbeatBytes(m)) = LowBits(m)
<1> DEFINE b == HeartbeatBytes(m)
<1>1. /\ b[0] = PackLow(m.seqnum) /\ b[1] = PackHigh(m.seqnum)
      /\ b[2] = FlagByte(m)
      /\ b[7] = PackLow(m.hw_timestamp) /\ b[6] = PackHigh(m.hw_timestamp)
  BY DEF HeartbeatBytes
<1>2. /\ m.seqnum \in Uint16 /\ m.hw_timestamp \in Uint16
      /\ m.can1_error \in Uint8 /\ m.can2_error \in Uint8
      /\ m.caneth_error \in Uint8 /\ m.shell_error \in Uint8
  BY DEF Heartbeat
<1> HIDE DEF b
<1>3. /\ UnpackWord(b[0], b[1]) = m.seqnum
      /\ UnpackWord(b[7], b[6]) = m.hw_timestamp
  BY <1>1, <1>2, WordBytes
<1>4. /\ UnpackBit(b[2], 1) = m.can1_error % 2
      /\ UnpackBit(b[2], 2) = m.can2_error % 2
      /\ UnpackBit(b[2], 4) = m.caneth_error % 2
      /\ UnpackBit(b[2], 8) = m.shell_error % 2
  BY <1>1, FlagBits
<1>5. HeartbeatFrom(b) = LowBits(m)
  BY <1>3, <1>4 DEF HeartbeatFrom, LowBits
<1> QED
  BY <1>5 DEF b

\* A heartbeat in range is its own low bits, and low bits are in range.
LEMMA InRange ==
  ASSUME NEW m \in Heartbeat
  PROVE  /\ HeartbeatIsInRange(LowBits(m))
         /\ HeartbeatIsInRange(m) => LowBits(m) = m
<1>1. /\ m.can1_error \in Uint8 /\ m.can2_error \in Uint8
      /\ m.caneth_error \in Uint8 /\ m.shell_error \in Uint8
  BY DEF Heartbeat
<1>2. \A f \in Uint8 : f % 2 <= 1 /\ (f <= 1 => f % 2 = f)
  BY DEF Uint8
<1>3. /\ LowBits(m).can1_error = m.can1_error % 2
      /\ LowBits(m).can2_error = m.can2_error % 2
      /\ LowBits(m).caneth_error = m.caneth_error % 2
      /\ LowBits(m).shell_error = m.shell_error % 2
  BY DEF LowBits, Heartbeat
<1>4. HeartbeatIsInRange(LowBits(m))
  BY <1>1, <1>2, <1>3 DEF HeartbeatIsInRange
<1>5. ASSUME HeartbeatIsInRange(m)
      PROVE  LowBits(m) = m
  <2>1. /\ m.can1_error % 2 = m.can1_error /\ m.can2_error % 2 = m.can2_error
        /\ m.caneth_error % 2 = m.caneth_error
        /\ m.shell_error % 2 = m.shell_error
    BY <1>1, <1>2, <1>5 DEF HeartbeatIsInRange
  <2> QED
    BY <2>1 DEF LowBits, Heartbeat
<1> QED
  BY <1>4, <1>5

\* A heartbeat in range that is packed in a buffer of at least 8 bytes and
\* unpacked from it is the heartbeat that was sent (task_can2.c:133 on one
\* end, a receiver with the generated code on the other).
THEOREM HeartbeatArrives ==
  ASSUME NEW m \in Heartbeat, HeartbeatIsInRange(m),
         NEW old \in Bytes, NEW dst \in Heartbeat,
         NEW room \in Nat, room >= HEARTBEAT_LENGTH
  PROVE  /\ HeartbeatPack(old, m, room).ret = HEARTBEAT_LENGTH
         /\ HeartbeatUnpack(dst, HeartbeatPack(old, m, room).dst, room)
              = [ret |-> 0, dst |-> m]
<1>1. HeartbeatPack(old, m, room)
        = [ret |-> HEARTBEAT_LENGTH, dst |-> HeartbeatBytes(m)]
  BY DEF HeartbeatPack, HEARTBEAT_LENGTH
<1>2. HeartbeatUnpack(dst, HeartbeatBytes(m), room)
        = [ret |-> 0, dst |-> HeartbeatFrom(HeartbeatBytes(m))]
  BY DEF HeartbeatUnpack, HEARTBEAT_LENGTH
<1> QED
  BY <1>1, <1>2, ReadBack, InRange

\* Every DoWork0 frame of 8 bytes or more carries its counter to can1_task,
\* whose assertion on the result of the unpack then holds.
THEOREM DoWork0Arrives ==
  ASSUME NEW m \in DoWork0, NEW old \in Bytes, NEW dst \in DoWork0,
         NEW room \in Nat, room >= DO_WORK0_LENGTH
  PROVE  DoWork0Unpack(dst, DoWork0Pack(old, m, room).dst, room)
           = [ret |-> 0, dst |-> m]
BY DEF DoWork0Unpack, DoWork0Pack, DoWork0From, DoWork0Bytes, DoWork0,
       DO_WORK0_LENGTH

-----------------------------------------------------------------------------
(* The link                                                                *)

\* Where the message is at each stage
LinkInv ==
  /\ msg \in Heartbeat /\ size \in Nat
  /\ stage \in {"pack", "unpack", "done"}
  /\ stage = "pack" => packed = [ret |-> 0, dst |-> OldBytes]
  /\ stage # "pack" => packed = HeartbeatPack(OldBytes, msg, size)
  /\ stage # "done" => unpacked = [ret |-> 0, dst |-> Unset]
  /\ stage = "done" => unpacked = HeartbeatUnpack(Unset, packed.dst, size)

LEMMA LinkInvariant == LinkSpec => []LinkInv
<1>1. LinkInit => LinkInv
  <2> SUFFICES ASSUME LinkInit PROVE LinkInv
    OBVIOUS
  <2>1. msg \in Heartbeat /\ size \in Nat
    BY WordsAssumption, FlagBytesAssumption, SizesAssumption
       DEF LinkInit, Messages, Heartbeat
  <2> QED
    BY <2>1 DEF LinkInit, LinkInv
<1>2. LinkInv /\ [LinkNext]_link_vars => LinkInv'
  <2> SUFFICES ASSUME LinkInv, [LinkNext]_link_vars PROVE LinkInv'
    OBVIOUS
  <2>1. CASE Pack
    BY <2>1 DEF Pack, LinkInv
  <2>2. CASE Unpack
    BY <2>2 DEF Unpack, LinkInv
  <2>3. CASE UNCHANGED link_vars
    BY <2>3 DEF link_vars, LinkInv
  <2> QED
    BY <2>1, <2>2, <2>3 DEF LinkNext
<1> QED
  BY <1>1, <1>2, PTL DEF LinkSpec

\* Whatever the structure, whatever the buffer held and however long it is, the
\* receiver has the words, of each flag the low bit, and all of a message in
\* range; and nothing from a buffer that is too small.
THEOREM LinkRoundTrip == LinkSpec => []RoundTrip
<1>1. LinkInv => HeartbeatRoundTrip
  <2> SUFFICES ASSUME LinkInv, stage = "done" PROVE HeartbeatRoundTrip
    BY DEF HeartbeatRoundTrip
  <2>1. /\ msg \in Heartbeat /\ size \in Nat
        /\ packed = HeartbeatPack(OldBytes, msg, size)
        /\ unpacked = HeartbeatUnpack(Unset, packed.dst, size)
    BY DEF LinkInv
  <2>2. CASE size < HEARTBEAT_LENGTH
    BY <2>1, <2>2 DEF HeartbeatRoundTrip, HeartbeatPack, HeartbeatUnpack
  <2>3. CASE ~(size < HEARTBEAT_LENGTH)
    <3>1. packed = [ret |-> HEARTBEAT_LENGTH, dst |-> HeartbeatBytes(msg)]
      BY <2>1, <2>3 DEF HeartbeatPack
    <3>2. unpacked = [ret |-> 0, dst |-> LowBits(msg)]
      BY <2>1, <2>3, <3>1, ReadBack DEF HeartbeatUnpack
    <3> QED
      BY <2>1, <2>3, <3>1, <3>2, InRange DEF HeartbeatRoundTrip
  <2> QED
    BY <2>2, <2>3
<1>2. LinkInv => DoWork0RoundTrip
  BY DEF LinkInv, DoWork0RoundTrip, DoWork0Pack, DoWork0Unpack, DoWork0From,
         DoWork0Bytes, DO_WORK0_LENGTH
<1> QED
  BY <1>1, <1>2, LinkInvariant, PTL DEF RoundTrip

-----------------------------------------------------------------------------
(* From the flags to the receiver                                          *)

Bit(f, h) == IF f \in h.flags THEN 1 ELSE 0

\* hb_msg of Heartbeat as the structure that can2_task packs
CStruct(h) == [seqnum       |-> h.seqnum,
               can1_error   |-> Bit("can1", h),
               can2_error   |-> Bit("can2", h),
               caneth_error |-> Bit("caneth", h),
               shell_error  |-> Bit("shell", h),
               hw_timestamp |-> 0]

FlagsIn(c) == {f \in Flags : \/ f = "can1" /\ c.can1_error = 1
                             \/ f = "can2" /\ c.can2_error = 1
                             \/ f = "caneth" /\ c.caneth_error = 1
                             \/ f = "shell" /\ c.shell_error = 1}

\* What a receiver unpacks from the bytes that were packed, the last two of
\* which the controller overwrites with its time stamp (TransmitGlobalTime)
ReadFromBus ==
  \A wire \in Bytes :
    (\A i \in 0..5 : wire[i] = HeartbeatBytes(CStruct(on_bus))[i]) =>
      LET got == HeartbeatUnpack(HeartbeatInit, wire, HEARTBEAT_LENGTH)
      IN  /\ got.ret = 0
          /\ got.dst.seqnum = on_bus.seqnum
          /\ FlagsIn(got.dst) = on_bus.flags

LEMMA HeartbeatReadable ==
  ASSUME NEW h, h.seqnum \in Uint16, h.flags \subseteq Flags,
         NEW wire \in Bytes,
         \A i \in 0..5 : wire[i] = HeartbeatBytes(CStruct(h))[i]
  PROVE  LET got == HeartbeatUnpack(HeartbeatInit, wire, HEARTBEAT_LENGTH)
         IN  /\ got.ret = 0
             /\ got.dst.seqnum = h.seqnum
             /\ FlagsIn(got.dst) = h.flags
<1>1. ASSUME NEW f
      PROVE  /\ Bit(f, h) \in Uint8 /\ Bit(f, h) % 2 = Bit(f, h)
             /\ Bit(f, h) = 1 <=> f \in h.flags
  BY DEF Bit, Uint8
<1>2. CStruct(h) \in Heartbeat
  <2>1. 0 \in Uint16
    BY Uint16MaxType DEF Uint16
  <2> QED
    BY ONLY <1>1, <2>1, h.seqnum \in Uint16 DEF CStruct, Heartbeat
<1>3. /\ LowBits(CStruct(h)).seqnum = h.seqnum
      /\ LowBits(CStruct(h)).can1_error = Bit("can1", h)
      /\ LowBits(CStruct(h)).can2_error = Bit("can2", h)
      /\ LowBits(CStruct(h)).caneth_error = Bit("caneth", h)
      /\ LowBits(CStruct(h)).shell_error = Bit("shell", h)
  BY ONLY <1>1 DEF LowBits, CStruct
<1> DEFINE c == CStruct(h)
           r == HeartbeatFrom(wire)
<1>4. HeartbeatFrom(HeartbeatBytes(c)) = LowBits(c)
  BY ONLY <1>2, ReadBack
<1>5. /\ wire[0] = HeartbeatBytes(c)[0] /\ wire[1] = HeartbeatBytes(c)[1]
      /\ wire[2] = HeartbeatBytes(c)[2]
  BY \A i \in 0..5 : wire[i] = HeartbeatBytes(CStruct(h))[i]
<1> HIDE DEF c
<1>6. /\ r.seqnum = LowBits(c).seqnum
      /\ r.can1_error = LowBits(c).can1_error
      /\ r.can2_error = LowBits(c).can2_error
      /\ r.caneth_error = LowBits(c).caneth_error
      /\ r.shell_error = LowBits(c).shell_error
  BY ONLY <1>4, <1>5 DEF HeartbeatFrom, LowBits
<1>7. HeartbeatUnpack(HeartbeatInit, wire, HEARTBEAT_LENGTH) = [ret |-> 0, dst |-> r]
  BY ONLY DEF HeartbeatUnpack, HEARTBEAT_LENGTH
<1> HIDE DEF r
<1>8. /\ r.seqnum = h.seqnum
      /\ r.can1_error = Bit("can1", h) /\ r.can2_error = Bit("can2", h)
      /\ r.caneth_error = Bit("caneth", h) /\ r.shell_error = Bit("shell", h)
  BY ONLY <1>3, <1>6 DEF c
<1>9. FlagsIn(r) = h.flags
  BY ONLY <1>1, <1>8, h.flags \subseteq Flags DEF FlagsIn, Flags
<1> QED
  BY ONLY <1>7, <1>8, <1>9

\* With the 16-bit number of the code, whoever unpacks a heartbeat on the bus
\* has its number and its flags, whatever time stamp the controller wrote.
THEOREM ReceiverReadsFlags ==
  ASSUME SeqnumModulus <= UINT16_MAX + 1
  PROVE  Spec => []ReadFromBus
<1>1. ASSUME NEW h \in Message
      PROVE  h.seqnum \in Uint16 /\ h.flags \subseteq Flags
  <2>1. h.seqnum \in 0..(SeqnumModulus - 1) /\ h.flags \subseteq Flags
    BY DEF Message
  <2> QED
    BY <2>1, SeqnumModulusAssumption, Uint16MaxType DEF Uint16
<1>2. TypeOK => ReadFromBus
  <2> SUFFICES ASSUME on_bus \in Message PROVE ReadFromBus
    BY DEF TypeOK
  <2> QED
    BY <1>1, HeartbeatReadable DEF ReadFromBus
<1> QED
  BY <1>2, TypeCorrect, PTL
=============================================================================
