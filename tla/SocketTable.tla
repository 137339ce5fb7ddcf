---------------------------- MODULE SocketTable -----------------------------
(***************************************************************************)
(* The sockets of the shell (tmo_shell/src/tmo_shell.c): tmo tcp and       *)
(* tmo udp create, connect and close sockets, which the table socks        *)
(* records, and move bulk data and text messages through them.  A command  *)
(* names a socket by its descriptor and looks its record up.               *)
(*                                                                         *)
(* The descriptors are those of the whole system: the web demo thread      *)
(* opens and closes some of its own while the shell is at work.  A command *)
(* that only reports an error changes nothing and is a stuttering step, as *)
(* is the listing of the table; the single sends and receives are left out.*)
(***************************************************************************)
EXTENDS Integers, Sequences, FiniteSets

CONSTANTS
    MaxSockRec,    \* MAX_SOCK_REC
    MaxFds,        \* CONFIG_POSIX_MAX_FDS
    Kinds,         \* the sockets users create: protocol, family, interface
    XferSize,      \* XFER_SIZE
    MaxFragment,   \* the 1500 of sock_mxfragment
    FragmentArgs,  \* arguments of tmo tcp xfersz, 0 for one that is no number
    Sizes,         \* sizes of bulk transfers
    MaxLost        \* bound on the closes that fail

Protos == {"tcp", "tls", "udp", "dtls"}
Flags == Protos \cup {"open", "connected", "v6"}
Recs == 0 .. MaxSockRec - 1
Fds == 0 .. MaxFds - 1
Ifaces == 1 .. 2

ASSUME ConstAssumption ==
    /\ MaxFds \in Nat \ {0} /\ MaxSockRec \in Nat
    /\ MaxFds <= MaxSockRec /\ 2 < MaxSockRec
    /\ Kinds \subseteq [proto : Protos, v6 : BOOLEAN, dev : Ifaces]
    /\ XferSize \in Nat /\ MaxFragment \in Nat \ {0}
    /\ FragmentArgs \subseteq Nat /\ Sizes \subseteq Nat /\ MaxLost \in Nat

VARIABLES
    socks,         \* the table of sockets
    fds,           \* fds[sd]: the socket behind a descriptor
    max_fragment,
    xfer,          \* the bulk transfer under way
    moved,         \* moved[i]: place in mxfer_buf of the i-th unit to cross the socket
    lost,          \* ghost: closes that failed and yet released the descriptor
    strayed        \* ghost: whether the last step called the driver for another
                   \* thread's descriptor: for a text message ("sms") or else ("socket")

vars == <<socks, fds, max_fragment, xfer, moved, lost, strayed>>

Closed == [owner |-> "none"]
Socket(k) == [owner |-> "shell", kind |-> k, connected |-> FALSE]
OtherSocket == [owner |-> "other"]

\* A command calls the driver for the descriptor sd.
CallFor(by, sd) == strayed' = IF fds[sd].owner = "other" THEN by ELSE "none"
NoCall == strayed' = "none"

NoXfer == [op |-> "none", sd |-> 0, size |-> 0, total |-> 0, again |-> FALSE,
           eof |-> FALSE, phase |-> "idle"]

Init ==
    /\ socks = [i \in Recs |-> [sd |-> 0, dev |-> 0, flags |-> {}]]
    /\ fds = [sd \in Fds |-> Closed]
    /\ max_fragment = IF MaxFragment < 1000 THEN MaxFragment ELSE 1000
    /\ xfer = NoXfer /\ moved = <<>>
    /\ lost = 0 /\ strayed = "none"

Idle == xfer.phase = "idle"

-----------------------------------------------------------------------------
(* Descriptors and records                                                 *)

Least(S) == CHOOSE i \in S : \A j \in S : i <= j

\* The lowest free descriptor is taken.
Opens(sd, socket) ==
    /\ \E d \in Fds : fds[d] = Closed
    /\ sd = Least({d \in Fds : fds[d] = Closed})
    /\ fds' = [fds EXCEPT ![sd] = socket]

FreeRecs == {i \in Recs : "open" \notin socks[i].flags}

\* Faulty variant: the flags of the socket before are kept.
F_NewFlags(k, old) == old \cup {k.proto, "open"} \cup (IF k.v6 THEN {"v6"} ELSE {})

\* The flags of a new record; those of the socket before are gone.
NewFlags(k, old) == {k.proto, "open"} \cup (IF k.v6 THEN {"v6"} ELSE {})

\* The first free record is used; if there is none the socket stays unrecorded.
Recorded(sd, k) ==
    IF FreeRecs = {} THEN socks
    ELSE LET i == Least(FreeRecs) IN
         [socks EXCEPT ![i] = [sd |-> sd, dev |-> k.dev,
                               flags |-> NewFlags(k, socks[i].flags)]]

\* Faulty variant: closed records are found too.
F_Matches(sd) == {i \in Recs : socks[i].sd = sd}

\* The records a command for sd would accept; it takes the first.
Matches(sd) == {i \in Recs : socks[i].sd = sd /\ "open" \in socks[i].flags}
sock_idx(sd) == Least(Matches(sd))

-----------------------------------------------------------------------------
(* Creating, connecting and closing                                        *)

PlainCreate(k) ==
    /\ Idle
    /\ \E sd \in Fds : Opens(sd, Socket(k)) /\ socks' = Recorded(sd, k)
    /\ NoCall
    /\ UNCHANGED <<max_fragment, xfer, moved, lost>>

\* The protocol flag is set again after the socket options, in the record idx
\* stands for: the number of the interface if no record was free.
SecureCreate(k) ==
    LET idx == IF FreeRecs = {} THEN k.dev ELSE Least(FreeRecs) IN
    /\ Idle
    /\ \E sd \in Fds :
        /\ Opens(sd, Socket(k))
        /\ socks' = [Recorded(sd, k) EXCEPT ![idx].flags = @ \cup {k.proto}]
    /\ NoCall
    /\ UNCHANGED <<max_fragment, xfer, moved, lost>>

tcp_create_core(k) == k.proto = "tcp" /\ PlainCreate(k)
udp_create_core(k) == k.proto = "udp" /\ PlainCreate(k)
tcp_create_tls_core(k) == k.proto = "tls" /\ SecureCreate(k)
udp_create_dtls_core(k) == k.proto = "dtls" /\ SecureCreate(k)

\* The connection is made, by address or by name.
sock_connect(sd) ==
    /\ Idle /\ Matches(sd) # {} /\ fds[sd] # Closed
    /\ fds' = IF fds[sd] = OtherSocket THEN fds ELSE [fds EXCEPT ![sd].connected = TRUE]
    /\ socks' = [socks EXCEPT ![sock_idx(sd)].flags = @ \cup {"connected"}]
    /\ CallFor("socket", sd)
    /\ UNCHANGED <<max_fragment, xfer, moved, lost>>

\* Only the open flag is cleared.
AfterClose(flags) == flags \ {"open"}

sock_close(sd) ==
    /\ Idle /\ Matches(sd) # {} /\ fds[sd] # Closed
    /\ fds' = [fds EXCEPT ![sd] = Closed]
    /\ socks' = [socks EXCEPT ![sock_idx(sd)].flags = AfterClose(@)]
    /\ CallFor("socket", sd)
    /\ UNCHANGED <<max_fragment, xfer, moved, lost>>

\* "Close failed": the record stays, although the descriptor is gone.
CloseFails(sd) ==
    /\ Idle /\ Matches(sd) # {} /\ fds[sd] # Closed
    /\ fds' = [fds EXCEPT ![sd] = Closed]
    /\ lost < MaxLost /\ lost' = lost + 1
    /\ CallFor("socket", sd)
    /\ UNCHANGED <<socks, max_fragment, xfer, moved>>

\* The descriptor a text message command hands to the driver: the index of the
\* record, not the descriptor in it.
SmsDescriptor(sd) == sock_idx(sd)

\* Text messages change nothing but what the driver does with them.  There may be
\* no descriptor of that number.
TextMessage(sd) ==
    /\ Idle /\ Matches(sd) # {}
    /\ IF SmsDescriptor(sd) \in Fds THEN CallFor("sms", SmsDescriptor(sd)) ELSE NoCall
    /\ UNCHANGED <<socks, fds, max_fragment, xfer, moved, lost>>

sock_sendsms(sd) == TextMessage(sd)
sock_recvsms(sd) == TextMessage(sd)

\* The web demo thread opens and closes a socket.
OtherOpens ==
    /\ \A sd \in Fds : fds[sd].owner # "other"
    /\ \E sd \in Fds : Opens(sd, OtherSocket)
    /\ NoCall
    /\ UNCHANGED <<socks, max_fragment, xfer, moved, lost>>

OtherCloses(sd) ==
    /\ fds[sd].owner = "other"
    /\ fds' = [fds EXCEPT ![sd] = Closed]
    /\ NoCall
    /\ UNCHANGED <<socks, max_fragment, xfer, moved, lost>>

-----------------------------------------------------------------------------
(* Bulk transfers                                                          *)

AtMost(a, b) == IF a < b THEN a ELSE b

\* An argument that is no number is reported, but only after it was used.
Fragment(arg) == LET f == AtMost(MaxFragment, arg) IN IF f < 1 THEN 1 ELSE f

sock_mxfragment(arg) ==
    /\ Idle
    /\ max_fragment' = Fragment(arg)
    /\ NoCall
    /\ UNCHANGED <<socks, fds, xfer, moved, lost>>

\* Bound of the model: bulk transfers, which leave the table alone, are started
\* only while no close has failed.
BulkBound == lost = 0

Bulk(op, sd, size) ==
    /\ Idle /\ Matches(sd) # {} /\ BulkBound
    /\ xfer' = [NoXfer EXCEPT !.op = op, !.sd = sd, !.size = AtMost(size, XferSize),
                              !.again = TRUE, !.phase = "loop"]
    /\ moved' = <<>>
    /\ NoCall
    /\ UNCHANGED <<socks, fds, max_fragment, lost>>

sock_sendb(sd, size) == Bulk("sendb", sd, size)
sock_recvb(sd, size) == Bulk("recvb", sd, size)

InLoop(op) == xfer.phase = "loop" /\ xfer.op = op
GoesOn == xfer.total < xfer.size \/ xfer.size = 0

\* What one call of zsock_send or zsock_recv is asked for.
Asked == AtMost(xfer.size - xfer.total, max_fragment)

\* Faulty variant: a short send or receive is taken for a full one.
F_Advance(n) == xfer.total + Asked

Advance(n) == xfer.total + n

\* n units cross the socket, from or to where total points.
Crossing(n) ==
    /\ GoesOn /\ fds[xfer.sd] # Closed
    /\ moved' = moved \o [i \in 1 .. n |-> xfer.total + i]
    /\ CallFor("socket", xfer.sd)
    /\ UNCHANGED <<socks, fds, max_fragment, lost>>

\* At least one unit is accepted, unless none was offered.
SendPart(n) ==
    /\ InLoop("sendb")
    /\ n \in 0 .. Asked /\ (n = 0 => Asked = 0)
    /\ Crossing(n)
    /\ xfer' = [xfer EXCEPT !.total = Advance(n)]

\* Nothing is received when nothing was asked for or the peer has closed.
RecvPart(n) ==
    /\ InLoop("recvb")
    /\ n \in 0 .. Asked /\ (xfer.eof => n = 0)
    /\ Crossing(n)
    /\ xfer' = [xfer EXCEPT !.total = Advance(n), !.again = TRUE,
                            !.eof = @ \/ (n = 0 /\ Asked > 0)]

\* Faulty variant: the wait is repeated.
F_Waited == TRUE

Waited == FALSE

CanWait == xfer.total > 0 /\ xfer.total < xfer.size /\ xfer.again

\* Nothing there: half a second is waited, once, if something was there before.
RecvAgain ==
    /\ InLoop("recvb") /\ GoesOn /\ ~xfer.eof
    /\ CanWait
    /\ CallFor("socket", xfer.sd)
    /\ xfer' = [xfer EXCEPT !.phase = "sleep"]
    /\ UNCHANGED <<socks, fds, max_fragment, moved, lost>>

\* The half second is over.
Wakes ==
    /\ xfer.phase = "sleep"
    /\ xfer' = [xfer EXCEPT !.again = Waited, !.phase = "loop"]
    /\ NoCall
    /\ UNCHANGED <<socks, fds, max_fragment, moved, lost>>

Ends(phase) ==
    /\ xfer' = [xfer EXCEPT !.phase = phase]
    /\ UNCHANGED <<socks, fds, max_fragment, moved, lost>>

\* "send failed", "recv failed", or the receiver has waited enough.
BulkFails == xfer.phase = "loop" /\ GoesOn /\ CallFor("socket", xfer.sd) /\ Ends("failed")

BulkComplete == xfer.phase = "loop" /\ ~GoesOn /\ NoCall /\ Ends("complete")

BulkReturns ==
    /\ xfer.phase \in {"failed", "complete"}
    /\ xfer' = NoXfer /\ moved' = <<>>
    /\ NoCall
    /\ UNCHANGED <<socks, fds, max_fragment, lost>>

-----------------------------------------------------------------------------
Create ==
    \E k \in Kinds :
        \/ tcp_create_core(k) \/ tcp_create_tls_core(k)
        \/ udp_create_core(k) \/ udp_create_dtls_core(k)

Use ==
    \E sd \in Fds :
        \/ sock_connect(sd) \/ sock_close(sd) \/ CloseFails(sd)
        \/ sock_sendsms(sd) \/ sock_recvsms(sd)
        \/ \E size \in Sizes : sock_sendb(sd, size) \/ sock_recvb(sd, size)

Other == OtherOpens \/ (\E sd \in Fds : OtherCloses(sd))

Transfer ==
    \/ \E n \in 0 .. XferSize : SendPart(n) \/ RecvPart(n)
    \/ RecvAgain \/ Wakes \/ BulkFails \/ BulkComplete \/ BulkReturns

Next ==
    \/ Create \/ Use \/ Other \/ Transfer
    \/ \E arg \in FragmentArgs : sock_mxfragment(arg)

Spec == Init /\ [][Next]_vars

\* The shell thread is scheduled, and its socket calls return.
FairSpec == Spec /\ WF_vars(Transfer)

-----------------------------------------------------------------------------
(* Properties                                                              *)

\* The values the variables range over.
TypeOK ==
    /\ socks \in [Recs -> [sd : Fds, dev : {0} \cup Ifaces, flags : SUBSET Flags]]
    /\ fds \in [Fds -> {Closed, OtherSocket} \cup
                       [owner : {"shell"}, kind : Kinds, connected : BOOLEAN]]
    /\ max_fragment \in 1 .. MaxFragment
    /\ xfer \in [op : {"none", "sendb", "recvb"}, sd : Fds, size : 0 .. XferSize,
                 total : 0 .. XferSize, again : BOOLEAN, eof : BOOLEAN,
                 phase : {"idle", "loop", "sleep", "failed", "complete"}]
    /\ moved \in Seq(Nat)
    /\ lost \in 0 .. MaxLost
    /\ strayed \in {"none", "sms", "socket"}

\* What an open record says: protocol, family, interface and whether the socket has
\* been connected.
Describes(rec) ==
    LET s == fds[rec.sd] IN
    /\ s.owner = "shell"
    /\ rec.dev = s.kind.dev
    /\ rec.flags = {"open", s.kind.proto}
                   \cup (IF s.kind.v6 THEN {"v6"} ELSE {})
                   \cup (IF s.connected THEN {"connected"} ELSE {})

\* Every socket the shell has open is in exactly one record, so that it can be
\* used and closed.  A close that fails and yet releases its descriptor costs a
\* record for good, but the sockets of the shell stay within its reach as long
\* as there are as many records more than descriptors.  An open record describes its
\* socket, with nothing in it of the socket that had the record before.
OneRecord ==
    /\ TypeOK
    /\ \A sd \in Fds : fds[sd].owner = "shell" =>
          /\ lost = 0 => \E i \in Recs : Matches(sd) = {i}
          /\ MaxFds + lost <= MaxSockRec => Matches(sd) # {}
    /\ lost = 0 => \A i \in Recs : "open" \in socks[i].flags => Describes(socks[i])

\* No command but those for text messages calls the driver for a socket of another
\* thread, although the descriptors are shared and reused, and although a bulk
\* transfer goes on while the other thread opens and closes its own.  A close that
\* failed leaves a record for a descriptor that may become another thread's; the
\* text message commands reach one without that.
OthersUntouched ==
    lost = 0 => strayed # "socket"

\* However a bulk transfer is cut into pieces, every unit crosses the socket once
\* and in order, and all of them have when the command ends without an error.
BulkInOrder ==
    /\ moved = [i \in 1 .. xfer.total |-> i]
    /\ xfer.total <= xfer.size
    /\ xfer.phase = "complete" => xfer.total = xfer.size

\* A bulk transfer ends, unless its size is zero or the peer closes the
\* connection half-way: the loops do not look for either.
BulkEnds == (xfer.phase = "loop") ~> (Idle \/ xfer.eof \/ xfer.size = 0)

\* "<socket> <phone number> <message>": the message goes through the socket that
\* is named.
SmsThroughSocket ==
    \A sd \in Fds : fds[sd].owner = "shell" /\ Matches(sd) # {} =>
        SmsDescriptor(sd) = sd

=============================================================================
