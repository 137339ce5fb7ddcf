-------------------------- MODULE MC_HttpDownload --------------------------
(* A small instance of HttpDownload for TLC.                               *)
EXTENDS HttpDownload, TLC

CONSTANTS bin, sha

\* An image of three units and its digest of one.
MCLength == (bin :> 3) @@ (sha :> 1)

\* The target has both files.
MCLists == {<<bin, sha>>}
=============================================================================
