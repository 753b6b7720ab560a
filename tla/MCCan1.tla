------------------------------- MODULE MCCan1 -------------------------------
(***************************************************************************)
(* Small buses for Can1: identifiers 1 (DoWork0), 2 and 3, counters 0..3   *)
(* with a worker 1 turn every second one.                                  *)
(***************************************************************************)
EXTENDS Can1

Work(counter) == [ide |-> "std", id |-> 1, dlc |-> 8, counter |-> counter]
Standard == [ide |-> "std", id |-> 2, dlc |-> 3, counter |-> 0]
Extended == [ide |-> "ext", id |-> 3, dlc |-> 8, counter |-> 0]
ShortWork == [ide |-> "std", id |-> 1, dlc |-> 4, counter |-> 0]

\* What the nodes of dbc/canproto.dbc send.
DbcBus == {Work(0), Work(1), Standard}

\* The same with a node that uses extended identifiers, as CAN-ETH provides
\* for, and one that sends a DoWork0 frame that is too short.
ExtendedBus == DbcBus \union {Extended}
AnyBus == ExtendedBus \union {ShortWork}
=============================================================================
