-------------------------- MODULE MC_KermitSession --------------------------
(***************************************************************************)
(* Instance of KermitSession for TLC: three files, one of them empty, and  *)
(* the ways to send and to receive them between which the choice matters.  *)
(***************************************************************************)
EXTENDS KermitSession

MCLength == <<5, 0, 1>>
MCOldFile == <<NoFile, <<0, 0>>, NoFile>>

Sending(first, files, attrs, whole, keeps) ==
    [first |-> first, files |-> files, attrs |-> attrs, whole |-> whole,
     binary |-> TRUE, keep |-> keeps]

Receiving(attrs, cancel, binary) ==
    [attrs |-> attrs, cancel |-> cancel, binary |-> binary, keep |-> FALSE]

MCSendings == {Sending("S", 1, FALSE, TRUE, FALSE), Sending("S", 1, TRUE, FALSE, FALSE),
               Sending("S", 2, FALSE, TRUE, FALSE), Sending("I", 1, FALSE, TRUE, TRUE)}

MCReceivings == {Receiving(FALSE, <<>>, TRUE), Receiving(TRUE, X, FALSE),
                 Receiving(FALSE, Z, TRUE)}

=============================================================================
