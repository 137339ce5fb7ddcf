----------------------------- MODULE MC_BleDemo -----------------------------
(* A small instance of BleDemo for TLC.                                    *)
EXTENDS BleDemo
=============================================================================
