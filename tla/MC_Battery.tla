----------------------------- MODULE MC_Battery -----------------------------
(* A small instance of Battery for TLC.                                    *)
EXTENDS Battery
=============================================================================
