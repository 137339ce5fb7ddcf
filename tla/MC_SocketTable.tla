--------------------------- MODULE MC_SocketTable ---------------------------
(* A small instance of SocketTable for TLC.                                *)
EXTENDS SocketTable

\* One socket of each protocol, on both interfaces and of both families.
MCKinds == {[proto |-> "tcp",  v6 |-> FALSE, dev |-> 1],
            [proto |-> "tls",  v6 |-> TRUE,  dev |-> 2],
            [proto |-> "udp",  v6 |-> FALSE, dev |-> 2],
            [proto |-> "dtls", v6 |-> FALSE, dev |-> 1]}
=============================================================================
