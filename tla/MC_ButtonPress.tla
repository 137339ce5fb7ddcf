--------------------------- MODULE MC_ButtonPress ---------------------------
(* A small instance of ButtonPress for TLC.                                *)
EXTENDS ButtonPress
=============================================================================
