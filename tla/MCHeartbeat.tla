---------------------------- MODULE MCHeartbeat ----------------------------
(***************************************************************************)
(* HeartbeatLog with a bound on the heartbeats, past the first round of    *)
(* their seqnum.                                                           *)
(***************************************************************************)
EXTENDS HeartbeatLog

CONSTANT MaxHeartbeats  \* bound of the model

ASSUME MaxHeartbeatsAssumption == MaxHeartbeats \in Nat

MCNext == LogNext /\ made' <= MaxHeartbeats

MCSpec == LogInit /\ [][MCNext]_log_vars
=============================================================================
