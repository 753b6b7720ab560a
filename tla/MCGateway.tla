----------------------------- MODULE MCGateway -----------------------------
(***************************************************************************)
(* A small instance of Gateway: one identifier for work, one for the rest. *)
(***************************************************************************)
EXTENDS Gateway

MCBusFrames == {[ide |-> "std", id |-> 1, dlc |-> 8, counter |-> 0],
                [ide |-> "std", id |-> 2, dlc |-> 3, counter |-> 0]}
=============================================================================
