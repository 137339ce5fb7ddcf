---------------------------- MODULE MC_MurataDfu ----------------------------
(* A small instance of MurataDfu for TLC.                                  *)
EXTENDS MurataDfu, TLC

CONSTANTS A, B, C, D, v1, v2, v3

\* Four chunks, two chunks, two full chunks, a single chunk.
MCSize == (A :> 3073) @@ (B :> 1500) @@ (C :> 2048) @@ (D :> 1000)

MCTarget == (A :> v2) @@ (B :> v1) @@ (C :> v2) @@ (D :> v1)
=============================================================================
