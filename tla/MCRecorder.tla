----------------------------- MODULE MCRecorder -----------------------------
(* The tasks of the runs of Recorder, with the priorities of the code      *)
EXTENDS Recorder

MCPrio == [t \in Tasks |-> CASE t = "Tmr Svc" -> 4
                             [] t = "CAN1"    -> 3
                             [] t = "CAN_ETH" -> 2
                             [] OTHER         -> 1]
=============================================================================
