--------------------------- MODULE MqttPublisher ---------------------------
(***************************************************************************)
(* The MQTT publisher (samples/mqtt_publisher_aws/src/main.c): it resolves *)
(* the broker, connects, and as long as the connection lasts goes round a  *)
(* ping and a message of each of two qualities of service, handling what   *)
(* the broker sends while it sleeps in between; then it disconnects and    *)
(* begins again after a pause.                                             *)
(*                                                                         *)
(* The MQTT library (external) runs in the same thread: the callback is    *)
(* called from its functions.  A failed write, and a read of a connection  *)
(* that the broker has closed, close the socket and report a disconnection *)
(* before they return the error.                                           *)
(***************************************************************************)
EXTENDS Integers, Sequences, SequencesExt

CONSTANTS
    MaxIterations,   \* CONFIG_NET_SAMPLE_APP_MAX_ITERATIONS
    ConnectTries,    \* APP_CONNECT_TRIES
    Cap,             \* bound for the packets the broker has under way
    MaxFaults        \* bound for what goes wrong at the broker and the network

ASSUME MqttAssumption ==
    /\ MaxIterations \in Nat /\ ConnectTries \in Nat \ {0} /\ Cap \in Nat \ {0}
    /\ MaxFaults \in Nat

VARIABLES
    pc,              \* where the thread is
    tries, i,        \* its counters of attempts and of rounds
    phase,           \* which of the three process_mqtt_and_sleep it is in
    connected, nfds,
    lib,             \* the client of the library: "idle", "opened", "connected"
    sockets,         \* sockets the application has open
    up,              \* whether the broker can be reached
    peer,            \* the broker's end of the connection is open
    greeted,         \* it has a CONNECT to answer
    inbox,           \* packets under way to the client
    received,        \* ghost: the messages the broker got in this connection
    faults

locals == <<tries, i, phase>>
session == <<connected, nfds, lib, sockets>>
broker == <<peer, greeted, inbox, received>>
world == <<up, faults>>
vars == <<pc, locals, session, broker, world>>

Init ==
    /\ pc = "resolve" /\ tries = 0 /\ i = 0 /\ phase = 1
    /\ connected = FALSE /\ nfds = 0 /\ lib = "idle" /\ sockets = 0
    /\ up = FALSE /\ peer = FALSE /\ greeted = FALSE
    /\ inbox = << >> /\ received = << >> /\ faults = 0

\* Something goes wrong that need not: so often and no more.
Fault == faults < MaxFaults /\ faults' = faults + 1

-----------------------------------------------------------------------------
(* The library and its callback                                            *)

\* clear_fds
clear_fds == 0

\* The socket is closed and mqtt_evt_handler gets MQTT_EVT_DISCONNECT.
Disconnected ==
    /\ lib' = "idle" /\ sockets' = sockets - 1
    /\ connected' = FALSE /\ nfds' = clear_fds
    /\ peer' = FALSE /\ greeted' = FALSE /\ inbox' = << >>
    /\ UNCHANGED received

\* A packet is written, which the library refuses to do without a connection.  What is
\* written into a broken connection is lost, and so is all that follows.
Sends(message) ==
    /\ lib = "connected"
    /\ IF peer /\ up
       THEN /\ inbox' = IF Len(inbox) < Cap /\ message # "q0" THEN Append(inbox, "ack") ELSE inbox
            /\ received' = IF message = "ping" THEN received ELSE Append(received, message)
            /\ UNCHANGED peer
       ELSE peer' = FALSE /\ UNCHANGED <<inbox, received>>
    /\ UNCHANGED <<session, greeted>>

SendFails ==
    \/ lib = "connected" /\ ~(peer /\ up) /\ Disconnected
    \/ lib # "connected" /\ UNCHANGED <<session, broker>>

\* mqtt_input with a packet: of the answers only CONNACK matters to the application,
\* which answers the PUBREC of a message it never sends.
Handle(packet) ==
    /\ connected' = (connected \/ packet = "connack")
    /\ lib' = IF packet = "connack" THEN "connected" ELSE lib
    /\ inbox' = Tail(inbox)
    /\ UNCHANGED <<nfds, sockets, peer, greeted, received>>

\* A refused connection, and one that ends, are reported as errors.
InputFails == (inbox # << >> /\ Head(inbox) = "refused") \/ (inbox = << >> /\ ~peer)

-----------------------------------------------------------------------------
(* start_app and try_to_connect                                            *)

Goto(from, to) == pc = from /\ pc' = to

\* get_mqtt_broker_addrinfo: tried every 15 s, once and for all connections.
Resolve ==
    /\ up /\ Goto("resolve", "try") /\ tries' = 0
    /\ UNCHANGED <<i, phase, session, broker, world>>

\* mqtt_connect fails without an event, and the next attempt comes after a pause.
ConnectFails ==
    /\ Goto("try", "try") /\ tries < ConnectTries /\ ~connected /\ ~up
    /\ tries' = tries + 1
    /\ UNCHANGED <<i, phase, session, broker, world>>

\* client_init forgets the socket of an earlier attempt; mqtt_connect opens another.
ConnectSent ==
    /\ Goto("try", "await") /\ tries < ConnectTries /\ ~connected /\ up
    /\ tries' = tries + 1
    /\ lib' = "opened" /\ sockets' = sockets + 1 /\ nfds' = 1
    /\ peer' = TRUE /\ greeted' = TRUE /\ inbox' = << >> /\ received' = << >>
    /\ UNCHANGED <<i, phase, connected, world>>

\* Faulty variant: an attempt that was not answered is left as it is.
F_Abort == UNCHANGED <<session, broker>>

\* mqtt_abort: the client is disconnected, if it is not already.
Abort == Disconnected

\* wait and mqtt_input; without a CONNACK in time the attempt is given up.
Await ==
    /\ pc = "await"
    /\ pc' = "try"
    /\ \/ inbox # << >> /\ ~InputFails /\ Handle(Head(inbox)) /\ UNCHANGED faults
       \/ InputFails /\ Disconnected /\ UNCHANGED faults
       \/ inbox = << >> /\ peer /\ Abort /\ IF up THEN Fault ELSE UNCHANGED faults
    /\ UNCHANGED <<locals, up>>

\* try_to_connect ends.
Tried ==
    /\ pc = "try" /\ (connected \/ tries = ConnectTries)
    /\ pc' = IF connected THEN "loop" ELSE "pause"
    /\ i' = 0
    /\ UNCHANGED <<tries, phase, session, broker, world>>

-----------------------------------------------------------------------------
(* publisher                                                               *)

\* The next step of the round: a ping and then each of the messages; an error ends
\* the loop, and so does a publication the library refuses.
Step(from, message, p) ==
    /\ pc = from
    /\ phase' = p
    /\ \/ Sends(message) /\ pc' = "sleep"
       \/ SendFails /\ pc' = "leave"

Ping ==
    /\ i < MaxIterations /\ connected
    /\ i' = i + 1
    /\ Step("loop", "ping", 1)
    /\ UNCHANGED <<tries, world>>

\* The message published after the p-th sleep.
Message(p) == IF p = 1 THEN "q0" ELSE "q1"

publish ==
    /\ phase < 3 /\ Step("publish", Message(phase), phase + 1)
    /\ UNCHANGED <<tries, i, world>>

\* process_mqtt_and_sleep: what comes in is handled, a ping of the library keeps the
\* connection alive, and an error ends the loop of the publisher.
SleepInput ==
    /\ pc = "sleep" /\ connected
    /\ \/ inbox # << >> /\ Handle(Head(inbox)) /\ UNCHANGED pc
       \/ InputFails /\ Disconnected /\ pc' = "leave"
    /\ UNCHANGED <<locals, world>>

mqtt_live ==
    /\ pc = "sleep" /\ connected
    /\ \/ Sends("ping") /\ UNCHANGED pc
       \/ SendFails /\ pc' = "leave"
    /\ UNCHANGED <<locals, world>>

\* Faulty variant: a round is over after its first message.
F_NextRound == phase = 2

\* All three sleeps of the round are over.
NextRound == phase = 3

\* The time is over, with the connection or without it.
Awake ==
    /\ pc = "sleep"
    /\ pc' = IF NextRound THEN "loop" ELSE "publish"
    /\ UNCHANGED <<locals, session, broker, world>>

\* The loop ends: the connection is lost, or all iterations are made.
LoopEnds ==
    /\ ~(i < MaxIterations /\ connected) /\ Goto("loop", "leave")
    /\ UNCHANGED <<locals, session, broker, world>>

\* mqtt_disconnect: the connection is closed, if there is one.
Leave ==
    /\ Goto("leave", "pause")
    /\ IF lib = "connected" THEN Disconnected ELSE UNCHANGED <<session, broker>>
    /\ UNCHANGED <<locals, world>>

\* Faulty variant: the connection counts from the start of the program.
F_Again == UNCHANGED tries

\* try_to_connect begins with no tries made.
Again == tries' = 0

\* The next connection, 5 s later.
Pause ==
    /\ Goto("pause", "try") /\ Again
    /\ UNCHANGED <<i, phase, session, broker, world>>

App ==
    \/ Resolve \/ ConnectFails \/ ConnectSent \/ Await \/ Tried
    \/ Ping \/ publish \/ SleepInput \/ mqtt_live \/ Awake
    \/ LoopEnds \/ Leave \/ Pause

-----------------------------------------------------------------------------
(* The broker and the network                                              *)

\* CONNACK, which may refuse the connection.
Answer ==
    /\ up /\ peer /\ greeted /\ greeted' = FALSE
    /\ \/ inbox' = Append(inbox, "connack") /\ UNCHANGED faults
       \/ inbox' = Append(inbox, "refused") /\ Fault
    /\ UNCHANGED <<pc, locals, session, up, peer, received>>

Close ==
    /\ peer /\ peer' = FALSE /\ Fault
    /\ UNCHANGED <<pc, locals, session, up, greeted, inbox, received>>

NetworkUp ==
    /\ ~up /\ up' = TRUE
    /\ UNCHANGED <<pc, locals, session, broker, faults>>

NetworkDown ==
    /\ up /\ up' = FALSE /\ Fault
    /\ UNCHANGED <<pc, locals, session, broker>>

Next == App \/ Answer \/ Close \/ NetworkUp \/ NetworkDown
Spec == Init /\ [][Next]_vars

\* The thread runs and its sleeps end; a broker that can be reached answers, and the
\* network comes back.
FairSpec ==
    Spec /\ WF_vars(App) /\ WF_vars(Awake) /\ WF_vars(Answer) /\ WF_vars(NetworkUp)

-----------------------------------------------------------------------------
TypeOK ==
    /\ pc \in {"resolve", "try", "await", "loop", "sleep", "publish", "leave", "pause"}
    /\ tries \in 0 .. ConnectTries /\ i \in 0 .. MaxIterations /\ phase \in 1 .. 3
    /\ connected \in BOOLEAN /\ nfds \in {0, 1}
    /\ lib \in {"idle", "opened", "connected"} /\ sockets \in {0, 1}
    /\ up \in BOOLEAN /\ peer \in BOOLEAN /\ greeted \in BOOLEAN
    /\ inbox \in SeqOf({"connack", "refused", "ack"}, Cap) /\ faults \in 0 .. MaxFaults
    /\ Range(received) \subseteq {"q0", "q1"}

\* The flag of the application and the descriptor it polls are those of the library:
\* wherever the connection is lost, in a call that writes or in one that reads, the
\* loop sees it, polls no closed descriptor, and a new attempt finds the socket of
\* the one before it closed.
SessionTrue ==
    /\ TypeOK
    /\ connected <=> lib = "connected"
    /\ nfds = sockets
    /\ sockets = IF lib = "idle" THEN 0 ELSE 1

\* What the broker gets in a connection are whole rounds of the two messages that
\* publisher sends, of quality 0 and 1, in order and with nothing left out, except for
\* the last round, which may lack its end.  README.rst:268-287 of the sample lists a
\* third one of quality 2, which is never sent; and with MaxIterations = 0, which is
\* "forever" in Kconfig:12, no round is begun.
PublishesInOrder ==
    /\ Len(received) <= 2 * MaxIterations
    /\ \A k \in DOMAIN received : received[k] = Message(IF k % 2 = 1 THEN 1 ELSE 2)

\* However often the connection is refused or lost, the program connects again, and
\* a later round reaches the broker whole.
Recovers == []<>(lib = "connected" /\ Len(received) >= 2) /\ []<>(received = << >>)
=============================================================================
