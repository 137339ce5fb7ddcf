---------------------------- MODULE MC_Rs9116Dfu ----------------------------
(* A small instance of Rs9116Dfu for TLC.                                  *)
EXTENDS Rs9116Dfu, TLC

CONSTANTS A, B, C, D, E

\* Four chunks, two chunks, two full chunks, a single chunk, two chunks.
MCSize == (A :> 12289) @@ (B :> 8000) @@ (C :> 8192) @@ (D :> 4000) @@ (E :> 8000)

\* The file of E was cut short in its first chunk.
MCFileLen == [MCSize EXCEPT ![E] = 3000]
=============================================================================
