------------------------------ MODULE MC_Gnss ------------------------------
(* A few sentences and shell commands against the receiver's thread.         *)
EXTENDS Gnss
=============================================================================
