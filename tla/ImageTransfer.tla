--------------------------- MODULE ImageTransfer ---------------------------
(***************************************************************************)
(* What every firmware writer of the SDK promises: an image that was cut   *)
(* into `total` chunks is handed over in order, each chunk once, and the   *)
(* transfer is declared complete only with the hand-over of the last one.  *)
(* A transfer may be abandoned at any point and then starts over.          *)
(*                                                                         *)
(* The writers for the MCU (GeckoDfu), the modem (MurataDfu) and the WiFi  *)
(* coprocessor (Rs9116Dfu) are checked against this module.                *)
(***************************************************************************)
EXTENDS Naturals

VARIABLES
    phase,   \* "idle", "sending" or "done"
    total,   \* number of chunks of the image being transferred
    sent     \* number of chunks handed over so far

xferVars == <<phase, total, sent>>

XferInit == phase = "idle" /\ total = 0 /\ sent = 0

\* The writer has sized and checked an image and starts with its first chunk.
Begin ==
    /\ phase = "idle"
    /\ phase' = "sending"
    /\ total' \in Nat \ {0}
    /\ sent' = 0

\* The next chunk is handed over.
Deliver ==
    /\ phase = "sending"
    /\ sent + 1 <= total
    /\ sent' = sent + 1
    /\ UNCHANGED <<phase, total>>

\* The last chunk is handed over and the transfer is declared complete.
Finish ==
    /\ phase = "sending"
    /\ sent + 1 = total
    /\ sent' = total
    /\ phase' = "done"
    /\ UNCHANGED total

\* A failure, a restart of the writer, or the end of a completed transfer.
Leave ==
    /\ phase # "idle"
    /\ phase' = "idle"
    /\ total' = 0
    /\ sent' = 0

XferNext == Begin \/ Deliver \/ Finish \/ Leave

XferSpec == XferInit /\ [][XferNext]_xferVars

=============================================================================
