------------------------------ MODULE MCInitDb ------------------------------
(***************************************************************************)
(* Two seeded states, one only an operator adds, two windows.              *)
(***************************************************************************)
EXTENDS InitDb

MCSeeded == {"US", "FL"}
MCStates == MCSeeded \cup {"TX"}

=============================================================================
