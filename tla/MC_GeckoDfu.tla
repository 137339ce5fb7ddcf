---------------------------- MODULE MC_GeckoDfu ----------------------------
(* Small instances of GeckoDfu for TLC.                                    *)
EXTENDS GeckoDfu

CONSTANTS A, L, X

\* A has two chunks, the last of a single byte; L has three and is longer than a slot;
\* the digest of X is not published.
MCSize == [img \in Images |-> CASE img = A -> 2049 [] img = L -> 4097
                                   [] img = X -> 2050]
=============================================================================
