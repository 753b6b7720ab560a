------------------------------ MODULE MCShell ------------------------------
(* The memory after the input buffer, for the runs of Shell                *)
EXTENDS Shell

MCBeyond == {<<>>, <<" ">>, <<" ", "start">>}
=============================================================================
