------------------------------ MODULE MCDncList ------------------------------
(***************************************************************************)
(* A stream with a repeated number and subscriber numbers with leading     *)
(* zeros, of which two distinct numbers are wanted.                        *)
(***************************************************************************)
EXTENDS DncList

MCStream == <<<<305, 200, 120>>, <<305, 200, 120>>, <<212, 555, 7>>, <<415, 991, 3000>>>>

=============================================================================
