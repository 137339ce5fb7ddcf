------------------------- MODULE MqttPublisherProofs ------------------------
(***************************************************************************)
(* Proofs about the MQTT publisher (MqttPublisher), for any number of      *)
(* rounds, attempts, packets under way and faults: the application's view  *)
(* of the connection is the library's, and what the broker gets are whole  *)
(* rounds in order.                                                        *)
(*                                                                         *)
(* The argument: where the thread is tells how far the connection is, and  *)
(* what can be under way in it: nothing before the broker has answered,    *)
(* its answer alone while the thread awaits it, acknowledgements later.    *)
(* And while the broker's end is open, where the thread is in its round    *)
(* tells how many messages the broker has.  A pass of the main loop comes  *)
(* nearer to its end with every step of the thread.                        *)
(***************************************************************************)
EXTENDS MqttPublisher, SequenceTheorems, TLAPS

Rounds == {"loop", "sleep", "publish"}

\* How far the connection is by where the thread is.
Progress ==
    /\ pc = "await" <=> lib = "opened"
    /\ pc \in {"resolve", "pause"} => lib = "idle"

\* What is under way, and what the broker has to answer, by how far the connection is.
UnderWay ==
    /\ inbox \in Seq({"connack", "refused", "ack"}) /\ Len(inbox) <= Cap
    /\ lib = "idle" => ~peer /\ ~greeted /\ inbox = << >>
    /\ lib = "opened" => inbox \in {<< >>, <<"connack">>, <<"refused">>}
    /\ lib = "connected" => ~greeted /\ \A k \in 1 .. Len(inbox) : inbox[k] = "ack"
    /\ greeted => inbox = << >>

\* The messages the broker has when nothing was lost: two a round, which the
\* thread has finished when it is at the head of the loop.
Sent == IF pc = "loop" THEN 2 * i ELSE 2 * (i - 1) + phase - 1

\* While the broker's end is open it has all that were sent.
Position ==
    /\ received \in Seq({"q0", "q1"})
    /\ pc \in {"sleep", "publish"} => i >= 1
    /\ pc = "publish" => phase < 3
    /\ pc \in Rounds /\ peer => Len(received) = Sent
    /\ pc = "await" => received = << >>
    /\ pc = "try" /\ connected => received = << >>

\* The parts of SessionTrue: the types of all but the sequences, and the session.
Scalars ==
    /\ pc \in {"resolve", "try", "await", "loop", "sleep", "publish", "leave", "pause"}
    /\ tries \in 0 .. ConnectTries /\ i \in 0 .. MaxIterations /\ phase \in 1 .. 3
    /\ connected \in BOOLEAN /\ nfds \in {0, 1}
    /\ lib \in {"idle", "opened", "connected"} /\ sockets \in {0, 1}
    /\ up \in BOOLEAN /\ peer \in BOOLEAN /\ greeted \in BOOLEAN /\ faults \in 0 .. MaxFaults

Session ==
    /\ connected <=> lib = "connected"
    /\ nfds = sockets
    /\ sockets = IF lib = "idle" THEN 0 ELSE 1

\* The inductive invariant.
IInv ==
    Scalars /\ Session /\ Progress /\ UnderWay /\ Position /\ PublishesInOrder

-----------------------------------------------------------------------------
(* The library                                                             *)

\* Packets, few enough, are the sequences the types speak of.
LEMMA SequencesOfTypes ==
    ASSUME NEW P, NEW n \in Nat, NEW s \in Seq(P), Len(s) <= n
    PROVE  s \in SeqOf(P, n) /\ Range(s) \subseteq P
  <1>1. s \in [1 .. Len(s) -> P] /\ Len(s) \in 0 .. n
    BY LenProperties
  <1>2. s \in SeqOf(P, n)
    BY <1>1 DEF SeqOf
  <1>3. Range(s) \subseteq P
    BY <1>1 DEF Range
  <1> QED
    BY <1>2, <1>3

\* The session, with nothing under way and the broker's end closed.
LEMMA DisconnectedKeeps ==
    ASSUME IInv, lib # "idle", Disconnected
    PROVE  /\ lib' = "idle" /\ nfds' = 0 /\ sockets' = 0
           /\ connected' \in BOOLEAN /\ ~connected' /\ peer' \in BOOLEAN /\ ~peer'
           /\ greeted' \in BOOLEAN /\ received' = received
           /\ Session' /\ UnderWay'
  <1>1. lib' = "idle" /\ nfds' = 0 /\ sockets' = 0 /\ ~connected' /\ ~peer' /\ ~greeted'
        /\ connected' \in BOOLEAN /\ peer' \in BOOLEAN /\ greeted' \in BOOLEAN
    <2>1. lib' = "idle" /\ nfds' = 0 /\ sockets' = sockets - 1
      BY DEF Disconnected, clear_fds
    <2>2. sockets = 1
      BY DEF IInv, Session
    <2>3. connected' = FALSE /\ peer' = FALSE /\ greeted' = FALSE
      BY DEF Disconnected
    <2>4. connected' \in BOOLEAN /\ peer' \in BOOLEAN /\ greeted' \in BOOLEAN
      BY <2>3
    <2>5. ~connected' /\ ~peer' /\ ~greeted'
      BY <2>3
    <2> QED
      BY <2>1, <2>2, <2>4, <2>5
  <1>2. inbox' = << >> /\ received' = received
    BY DEF Disconnected
  <1>3. Session'
    BY <1>1 DEF Session
  <1>4. UnderWay'
    BY <1>1, <1>2, MqttAssumption DEF UnderWay
  <1> QED
    BY <1>1, <1>2, <1>3, <1>4

\* A packet sent, into an open connection or a broken one.
LEMMA SendsKeeps ==
    ASSUME IInv, NEW message \in {"ping", "q0", "q1"}, Sends(message)
    PROVE  /\ lib = "connected" /\ UNCHANGED session /\ greeted' = greeted
           /\ peer' \in BOOLEAN /\ (peer' => peer)
           /\ received' = IF peer' /\ message # "ping" THEN Append(received, message) ELSE received
           /\ UnderWay'
  <1>1. lib = "connected" /\ UNCHANGED session /\ greeted' = greeted /\ ~greeted
    BY DEF IInv, UnderWay, Sends
  <1>2. peer' \in BOOLEAN /\ (peer' => peer)
    BY DEF IInv, Scalars, Sends
  <1>3. received' = IF peer' /\ message # "ping" THEN Append(received, message) ELSE received
    BY DEF Sends
  <1>4. inbox \in Seq({"connack", "refused", "ack"}) /\ Len(inbox) <= Cap
        /\ \A k \in 1 .. Len(inbox) : inbox[k] = "ack"
    BY <1>1 DEF IInv, UnderWay
  <1>5. inbox' \in Seq({"connack", "refused", "ack"}) /\ Len(inbox') <= Cap
        /\ \A k \in 1 .. Len(inbox') : inbox'[k] = "ack"
    <2>1. CASE inbox' = inbox
      BY <1>4, <2>1
    <2>2. CASE inbox' = Append(inbox, "ack") /\ Len(inbox) < Cap
      <3>1. /\ inbox' \in Seq({"connack", "refused", "ack"}) /\ Len(inbox') = Len(inbox) + 1
            /\ \A k \in 1 .. Len(inbox) : inbox'[k] = inbox[k]
            /\ inbox'[Len(inbox) + 1] = "ack"
        BY <1>4, <2>2, AppendProperties
      <3> QED
        BY <1>4, <2>2, <3>1, MqttAssumption
    <2> QED
      BY <2>1, <2>2 DEF Sends
  <1>6. UnderWay'
    BY <1>1, <1>5 DEF UnderWay, session
  <1> QED
    BY <1>1, <1>2, <1>3, <1>6

\* A write that fails leaves no connection.
LEMMA SendFailsKeeps ==
    ASSUME IInv, SendFails, lib # "opened"
    PROVE  /\ lib' = "idle" /\ nfds' \in {0, 1} /\ sockets' \in {0, 1}
           /\ connected' \in BOOLEAN /\ peer' \in BOOLEAN /\ greeted' \in BOOLEAN
           /\ received' = received /\ Session' /\ UnderWay'
  <1>1. CASE lib = "connected" /\ Disconnected
    BY <1>1, DisconnectedKeeps
  <1>2. CASE lib # "connected" /\ UNCHANGED <<session, broker>>
    BY <1>2 DEF IInv, Scalars, Session, UnderWay, session, broker
  <1> QED
    BY <1>1, <1>2 DEF SendFails

\* A packet handled, after which there is a connection.
LEMMA HandleKeeps ==
    ASSUME IInv, lib # "idle", inbox # << >>, lib = "opened" => Head(inbox) # "refused",
           Handle(Head(inbox))
    PROVE  /\ lib' = "connected" /\ connected' \in BOOLEAN /\ connected'
           /\ UNCHANGED <<nfds, sockets, peer, greeted, received>>
           /\ Session' /\ UnderWay'
  <1>1. UNCHANGED <<nfds, sockets, peer, greeted, received>> /\ inbox' = Tail(inbox)
        /\ connected' \in BOOLEAN
    BY DEF Handle
  <1>2. inbox \in Seq({"connack", "refused", "ack"}) /\ Len(inbox) <= Cap /\ Len(inbox) # 0
        /\ ~greeted
    BY DEF IInv, UnderWay
  <1>3. CASE lib = "opened"
    <2>1. inbox = <<"connack">>
      BY <1>3 DEF IInv, UnderWay
    <2>2. lib' = "connected" /\ connected' /\ inbox' = << >>
      <3>1. Head(inbox) = "connack" /\ Tail(inbox) = << >>
        BY <2>1
      <3>2. lib' = "connected" /\ connected'
        BY <3>1, Zenon DEF Handle
      <3> QED
        BY <1>1, <3>1, <3>2
    <2> QED
      BY <1>1, <1>2, <1>3, <2>2, MqttAssumption DEF IInv, Session, UnderWay
  <1>4. CASE lib = "connected"
    <2>1. \A k \in 1 .. Len(inbox) : inbox[k] = "ack"
      BY <1>4 DEF IInv, UnderWay
    <2>2. Head(inbox) = "ack" /\ inbox' \in Seq({"connack", "refused", "ack"})
          /\ Len(inbox') = Len(inbox) - 1 /\ \A k \in 1 .. Len(inbox') : inbox'[k] = inbox[k + 1]
      BY <1>1, <1>2, <2>1
    <2>3. lib' = "connected" /\ connected'
      BY <1>4, <2>2 DEF Handle, IInv, Session
    <2>4. \A k \in 1 .. Len(inbox') : inbox'[k] = "ack"
      BY <1>2, <2>1, <2>2
    <2>5. Session'
      BY <1>1, <1>4, <2>3 DEF IInv, Session
    <2>6. UnderWay'
      <3>1. ~greeted'
        BY <1>1, <1>2
      <3>2. Len(inbox') <= Cap
        BY <1>2, <2>2, MqttAssumption
      <3> QED
        BY <2>2, <2>3, <2>4, <3>1, <3>2 DEF UnderWay
    <2> QED
      BY <1>1, <2>3, <2>5, <2>6
  <1> QED
    BY <1>1, <1>3, <1>4 DEF IInv, Scalars

-----------------------------------------------------------------------------
(* The steps                                                               *)

\* What a step has to keep.
Kept == Scalars' /\ Session' /\ Progress' /\ UnderWay' /\ Position' /\ PublishesInOrder'

\* A thread that is not at work on messages says nothing of their number.
LEMMA Elsewhere ==
    ASSUME IInv, received' = received, pc' \in {"resolve", "pause", "leave"} 
    PROVE  Position' /\ PublishesInOrder'
  BY DEF IInv, Position, Rounds, PublishesInOrder

\* The network, the broker and the library's own counters are disturbed at most.
LEMMA PositionUndisturbed ==
    ASSUME IInv, UNCHANGED <<pc, locals, received, connected>>, peer' => peer
    PROVE  Position' /\ PublishesInOrder'
  BY DEF IInv, Position, Sent, Rounds, PublishesInOrder, locals

LEMMA ResolveStep == IInv /\ Resolve => Kept
  <1> SUFFICES ASSUME IInv, Resolve PROVE Kept
    OBVIOUS
  <1>1. Scalars'
    BY MqttAssumption DEF IInv, Scalars, Resolve, Goto, session, broker, world
  <1>2. Session' /\ UnderWay'
    BY DEF IInv, Session, UnderWay, Resolve, session, broker
  <1>3. lib = "idle" /\ ~connected /\ pc' = "try" /\ UNCHANGED <<lib, connected>>
    BY DEF IInv, Session, Progress, Resolve, Goto, session
  <1>4. Progress'
    BY <1>3 DEF Progress
  <1>5. Position' /\ PublishesInOrder'
    BY <1>3 DEF IInv, Position, Rounds, PublishesInOrder, Resolve, broker
  <1> QED
    BY <1>1, <1>2, <1>4, <1>5 DEF Kept

LEMMA ConnectStep == IInv /\ (ConnectFails \/ ConnectSent) => Kept
  <1>1. ASSUME IInv, ConnectFails PROVE Kept
    <2>1. Scalars'
      BY <1>1, MqttAssumption DEF IInv, Scalars, ConnectFails, Goto, session, broker, world
    <2>2. Session' /\ UnderWay' /\ Progress'
      BY <1>1 DEF IInv, Session, UnderWay, Progress, ConnectFails, Goto, session, broker
    <2>3. Position' /\ PublishesInOrder'
      BY <1>1 DEF IInv, Position, Rounds, PublishesInOrder, ConnectFails, Goto, session, broker
    <2> QED
      BY <2>1, <2>2, <2>3 DEF Kept
  <1>2. ASSUME IInv, ConnectSent PROVE Kept
    <2>1. lib = "idle" /\ ~connected
      BY <1>2 DEF IInv, Scalars, Session, Progress, ConnectSent, Goto
    <2>2. /\ pc' = "await" /\ tries' = tries + 1 /\ tries < ConnectTries
          /\ lib' = "opened" /\ sockets' = 1 /\ nfds' = 1
          /\ UNCHANGED <<i, phase, connected, up, faults>>
      BY <1>2, <2>1 DEF IInv, Session, ConnectSent, Goto, world
    <2>3. peer' \in BOOLEAN /\ greeted' \in BOOLEAN
      BY <1>2 DEF ConnectSent
    <2>4. inbox' = << >> /\ received' = << >>
      BY <1>2 DEF ConnectSent
    <2>5. Scalars'
      <3>1. connected' \in BOOLEAN /\ up' \in BOOLEAN /\ faults' \in 0 .. MaxFaults
        BY <1>2, <2>2 DEF IInv, Scalars
      <3> QED
        BY <1>2, <2>2, <2>3, <3>1, MqttAssumption DEF IInv, Scalars
    <2>6. Session' /\ Progress'
      BY <2>1, <2>2 DEF Session, Progress
    <2>7. UnderWay'
      BY <2>2, <2>4, MqttAssumption DEF UnderWay
    <2>8. Position' /\ PublishesInOrder'
      BY <2>2, <2>4, MqttAssumption DEF Position, Rounds, PublishesInOrder
    <2> QED
      BY <2>5, <2>6, <2>7, <2>8 DEF Kept
  <1> QED
    BY <1>1, <1>2

LEMMA AwaitStep == IInv /\ Await => Kept
  <1> SUFFICES ASSUME IInv, Await PROVE Kept
    OBVIOUS
  <1>1. /\ pc' = "try" /\ lib = "opened" /\ received = << >>
        /\ UNCHANGED <<tries, i, phase, up>>
    BY DEF IInv, Progress, Position, Await, locals
  <1>2. faults' \in 0 .. MaxFaults
    BY MqttAssumption DEF IInv, Scalars, Await, Fault
  <1>3. /\ lib' \in {"idle", "connected"} /\ connected' \in BOOLEAN
        /\ nfds' \in {0, 1} /\ sockets' \in {0, 1} /\ peer' \in BOOLEAN
        /\ greeted' \in BOOLEAN /\ received' = received /\ Session' /\ UnderWay'
    <2>1. CASE inbox # << >> /\ ~InputFails /\ Handle(Head(inbox))
      <3>1. Head(inbox) # "refused"
        BY <2>1 DEF InputFails
      <3> QED
        BY <1>1, <2>1, <3>1, HandleKeeps DEF IInv, Scalars
    <2>2. CASE Disconnected
      BY <1>1, <2>2, DisconnectedKeeps
    <2> QED
      BY <2>1, <2>2 DEF Await, Abort
  <1>4. Scalars'
    BY <1>1, <1>2, <1>3 DEF IInv, Scalars
  <1>5. Progress'
    BY <1>1, <1>3 DEF Progress
  <1>6. Position' /\ PublishesInOrder'
    BY <1>1, <1>3 DEF IInv, Position, Rounds, PublishesInOrder
  <1> QED
    BY <1>3, <1>4, <1>5, <1>6 DEF Kept

LEMMA TriedStep == IInv /\ Tried => Kept
  <1> SUFFICES ASSUME IInv, Tried PROVE Kept
    OBVIOUS
  <1>1. /\ pc = "try" /\ i' = 0 /\ UNCHANGED <<tries, phase, session, broker, world>>
        /\ pc' = (IF connected THEN "loop" ELSE "pause")
    BY DEF Tried
  <1>2. Scalars'
    BY <1>1, MqttAssumption DEF IInv, Scalars, session, broker, world
  <1>3. Session' /\ UnderWay'
    BY <1>1 DEF IInv, Session, UnderWay, session, broker
  <1>4. Progress'
    BY <1>1 DEF IInv, Scalars, Session, Progress, session
  <1>5. Position' /\ PublishesInOrder'
    <2>1. connected => received = << >>
      BY <1>1 DEF IInv, Position
    <2> QED
      BY <1>1, <2>1 DEF IInv, Position, Sent, Rounds, PublishesInOrder, session, broker
  <1> QED
    BY <1>2, <1>3, <1>4, <1>5 DEF Kept

\* The loop of the publisher is left.
LEMMA LeavingKeeps ==
    ASSUME IInv, pc \in Rounds, pc' = "leave",
           tries' \in 0 .. ConnectTries, i' \in 0 .. MaxIterations, phase' \in 1 .. 3,
           up' \in BOOLEAN, faults' \in 0 .. MaxFaults,
           lib' # "opened", lib' \in {"idle", "connected"}, nfds' \in {0, 1}, sockets' \in {0, 1},
           connected' \in BOOLEAN, peer' \in BOOLEAN, greeted' \in BOOLEAN,
           received' = received, Session', UnderWay'
    PROVE  Kept
  <1>1. Scalars'
    BY DEF Scalars
  <1>2. Progress'
    BY DEF Progress
  <1> QED
    BY <1>1, <1>2, Elsewhere DEF Kept

\* In a round, the connection is made or already lost.
LEMMA InRound == IInv /\ pc \in Rounds => lib # "opened"
  BY DEF IInv, Progress, Rounds

LEMMA PingStep == IInv /\ Ping => Kept
  <1> SUFFICES ASSUME IInv, Ping PROVE Kept
    OBVIOUS
  <1>1. /\ pc = "loop" /\ i < MaxIterations /\ i' = i + 1 /\ phase' = 1
        /\ UNCHANGED <<tries, up, faults>> /\ lib # "opened"
    BY InRound DEF Ping, Step, world, Rounds
  <1>2. /\ i' \in 0 .. MaxIterations /\ tries' \in 0 .. ConnectTries
        /\ up' \in BOOLEAN /\ faults' \in 0 .. MaxFaults
    BY <1>1, MqttAssumption DEF IInv, Scalars
  <1>3. CASE SendFails /\ pc' = "leave"
    BY <1>1, <1>2, <1>3, SendFailsKeeps, LeavingKeeps DEF Rounds
  <1>4. CASE Sends("ping") /\ pc' = "sleep"
    <2>1. /\ lib = "connected" /\ UNCHANGED session /\ greeted' = greeted
          /\ peer' \in BOOLEAN /\ (peer' => peer) /\ received' = received /\ UnderWay'
      BY <1>4, SendsKeeps
    <2>2. Scalars' /\ Session'
      BY <1>1, <1>2, <1>4, <2>1 DEF IInv, Scalars, Session, session
    <2>3. Progress'
      BY <1>4, <2>1 DEF Progress, session
    <2>4. Position' /\ PublishesInOrder'
      BY <1>1, <1>4, <2>1, MqttAssumption
         DEF IInv, Scalars, Position, Sent, Rounds, PublishesInOrder
    <2> QED
      BY <2>1, <2>2, <2>3, <2>4 DEF Kept
  <1> QED
    BY <1>3, <1>4 DEF Ping, Step

\* The message published next has its place in the order.
LEMMA publishStep == IInv /\ publish => Kept
  <1> SUFFICES ASSUME IInv, publish PROVE Kept
    OBVIOUS
  <1> DEFINE message == Message(phase)
  <1>1. /\ pc = "publish" /\ phase \in {1, 2} /\ phase' = phase + 1
        /\ UNCHANGED <<tries, i, up, faults>> /\ lib # "opened"
        /\ i \in 1 .. MaxIterations /\ MaxIterations \in Nat
    BY InRound, MqttAssumption DEF IInv, Scalars, Position, publish, Step, world, Rounds
  <1>2. /\ i' \in 0 .. MaxIterations /\ tries' \in 0 .. ConnectTries /\ phase' \in 1 .. 3
        /\ up' \in BOOLEAN /\ faults' \in 0 .. MaxFaults
    BY <1>1 DEF IInv, Scalars
  <1>3. message \in {"q0", "q1"}
    BY DEF Message
  <1>4. CASE SendFails /\ pc' = "leave"
    BY <1>1, <1>2, <1>4, SendFailsKeeps, LeavingKeeps DEF Rounds
  <1>5. CASE Sends(message) /\ pc' = "sleep"
    <2>1. /\ lib = "connected" /\ UNCHANGED session /\ greeted' = greeted
          /\ peer' \in BOOLEAN /\ (peer' => peer)
          /\ received' = (IF peer' THEN Append(received, message) ELSE received)
          /\ UnderWay'
      BY <1>3, <1>5, SendsKeeps
    <2>2. Scalars' /\ Session'
      BY <1>1, <1>2, <1>5, <2>1 DEF IInv, Scalars, Session, session
    <2>3. Progress'
      BY <1>5, <2>1 DEF Progress, session
    <2>4. CASE ~peer'
      <3>1. Position' /\ PublishesInOrder'
        BY <1>1, <1>5, <2>1, <2>4 DEF IInv, Position, Rounds, PublishesInOrder
      <3> QED
        BY <2>1, <2>2, <2>3, <3>1 DEF Kept
    <2>5. CASE peer'
      <3>1. /\ received \in Seq({"q0", "q1"}) /\ Len(received) = 2 * (i - 1) + phase - 1
            /\ \A k \in DOMAIN received :
                  received[k] = Message(IF k % 2 = 1 THEN 1 ELSE 2)
        BY <1>1, <2>1, <2>5 DEF IInv, Position, Sent, Rounds, PublishesInOrder
      <3>2. /\ received' \in Seq({"q0", "q1"}) /\ Len(received') = Len(received) + 1
            /\ \A k \in 1 .. Len(received) : received'[k] = received[k]
            /\ received'[Len(received) + 1] = message
        BY <1>3, <2>1, <2>5, <3>1, AppendProperties
      <3>3. Position'
        BY <1>1, <1>5, <3>1, <3>2 DEF Position, Sent, Rounds
      <3>4. Len(received') = 2 * (i - 1) + phase /\ Len(received') <= 2 * MaxIterations
        BY <1>1, <3>1, <3>2
      <3>5. (Len(received') % 2 = 1) <=> (phase = 1)
        BY <1>1, <3>4
      <3>6. \A k \in DOMAIN received' : received'[k] = Message(IF k % 2 = 1 THEN 1 ELSE 2)
        <4> SUFFICES ASSUME NEW k \in DOMAIN received'
                     PROVE  received'[k] = Message(IF k % 2 = 1 THEN 1 ELSE 2)
          OBVIOUS
        <4>1. k \in 1 .. Len(received) \/ k = Len(received')
          BY <3>1, <3>2, LenProperties
        <4>2. CASE k \in 1 .. Len(received)
          BY <3>1, <3>2, <4>2, LenProperties
        <4>3. CASE k = Len(received')
          BY <1>1, <3>2, <3>5, <4>3
        <4> QED
          BY <4>1, <4>2, <4>3
      <3> QED
        BY <2>1, <2>2, <2>3, <3>3, <3>4, <3>6 DEF Kept, PublishesInOrder
    <2> QED
      BY <2>1, <2>2, <2>3, <2>4, <2>5 DEF Kept
  <1> QED
    BY <1>4, <1>5 DEF publish, Step

LEMMA SleepStep == IInv /\ (SleepInput \/ mqtt_live) => Kept
  <1> SUFFICES ASSUME IInv, SleepInput \/ mqtt_live PROVE Kept
    OBVIOUS
  <1>1. /\ pc = "sleep" /\ pc \in Rounds /\ lib = "connected"
        /\ UNCHANGED <<tries, i, phase, up, faults>>
    BY DEF IInv, Session, SleepInput, mqtt_live, locals, world, Rounds
  <1>2. /\ tries' \in 0 .. ConnectTries /\ i' \in 0 .. MaxIterations /\ phase' \in 1 .. 3
        /\ up' \in BOOLEAN /\ faults' \in 0 .. MaxFaults
    BY <1>1 DEF IInv, Scalars
  <1>3. CASE Disconnected /\ pc' = "leave"
    BY <1>1, <1>2, <1>3, DisconnectedKeeps, LeavingKeeps
  <1>4. CASE SendFails /\ pc' = "leave"
    BY <1>1, <1>2, <1>4, SendFailsKeeps, LeavingKeeps
  <1>5. CASE inbox # << >> /\ Handle(Head(inbox)) /\ pc' = pc
    <2>1. /\ lib' = "connected" /\ connected' \in BOOLEAN
          /\ UNCHANGED <<nfds, sockets, peer, greeted, received>>
          /\ Session' /\ UnderWay'
      BY <1>1, <1>5, HandleKeeps
    <2>2. Scalars'
      BY <1>1, <1>2, <1>5, <2>1 DEF IInv, Scalars
    <2>3. Progress'
      BY <1>1, <1>5, <2>1 DEF Progress
    <2>4. Position' /\ PublishesInOrder'
      BY <1>1, <1>5, <2>1 DEF IInv, Position, Sent, Rounds, PublishesInOrder
    <2> QED
      BY <2>1, <2>2, <2>3, <2>4 DEF Kept
  <1>6. CASE Sends("ping") /\ pc' = pc
    <2>1. /\ UNCHANGED session /\ greeted' = greeted /\ peer' \in BOOLEAN /\ (peer' => peer)
          /\ received' = received /\ UnderWay'
      BY <1>6, SendsKeeps
    <2>2. Scalars' /\ Session' /\ Progress'
      BY <1>1, <1>2, <1>6, <2>1 DEF IInv, Scalars, Session, Progress, session
    <2>3. Position' /\ PublishesInOrder'
      BY <1>1, <1>6, <2>1 DEF IInv, Position, Sent, Rounds, PublishesInOrder
    <2> QED
      BY <2>1, <2>2, <2>3 DEF Kept
  <1> QED
    BY <1>3, <1>4, <1>5, <1>6 DEF SleepInput, mqtt_live

\* The steps of the thread that leave the connection as it is.
LEMMA QuietStep == IInv /\ (Awake \/ LoopEnds \/ Pause) => Kept
  <1> SUFFICES ASSUME IInv, Awake \/ LoopEnds \/ Pause PROVE Kept
    OBVIOUS
  <1>1. UNCHANGED <<i, phase, session, broker, world>>
    BY DEF Awake, LoopEnds, Pause, locals
  <1>2. Scalars'
    <2>1. tries' \in 0 .. ConnectTries
      BY MqttAssumption DEF IInv, Scalars, Awake, LoopEnds, Pause, Again, locals
    <2>2. pc' \in {"loop", "publish", "leave", "try"}
      BY DEF Awake, LoopEnds, Pause, Goto
    <2> QED
      BY <1>1, <2>1, <2>2 DEF IInv, Scalars, session, broker, world
  <1>3. Session' /\ UnderWay'
    BY <1>1 DEF IInv, Session, UnderWay, session, broker
  <1>4. Progress'
    BY <1>1 DEF IInv, Progress, Awake, LoopEnds, Pause, Goto, session
  <1>5. Position' /\ PublishesInOrder'
    <2>1. CASE Awake
      BY <1>1, <2>1 DEF IInv, Scalars, Position, Sent, Rounds, PublishesInOrder, Awake,
                        NextRound, locals, session, broker
    <2>2. CASE LoopEnds
      BY <1>1, <2>2, Elsewhere DEF LoopEnds, Goto, broker
    <2>3. CASE Pause
      <3>1. ~connected' /\ pc' = "try" /\ received' = received
        BY <1>1, <2>3 DEF IInv, Session, Progress, Pause, Goto, session, broker
      <3> QED
        BY <3>1 DEF IInv, Position, Rounds, PublishesInOrder
    <2> QED
      BY <2>1, <2>2, <2>3
  <1> QED
    BY <1>2, <1>3, <1>4, <1>5 DEF Kept

LEMMA LeaveStep == IInv /\ Leave => Kept
  <1> SUFFICES ASSUME IInv, Leave PROVE Kept
    OBVIOUS
  <1>1. pc = "leave" /\ pc' = "pause" /\ UNCHANGED <<tries, i, phase, up, faults>>
    BY DEF Leave, Goto, locals, world
  <1>2. /\ lib' = "idle" /\ nfds' \in {0, 1} /\ sockets' \in {0, 1}
        /\ connected' \in BOOLEAN /\ peer' \in BOOLEAN /\ greeted' \in BOOLEAN
        /\ received' = received /\ Session' /\ UnderWay'
    <2>1. CASE lib = "connected" /\ Disconnected
      BY <2>1, DisconnectedKeeps
    <2>2. CASE lib # "connected" /\ UNCHANGED <<session, broker>>
      <3>1. lib = "idle"
        BY <1>1, <2>2 DEF IInv, Scalars, Progress
      <3> QED
        BY <2>2, <3>1 DEF IInv, Scalars, Session, UnderWay, session, broker
    <2> QED
      BY <2>1, <2>2 DEF Leave
  <1>3. Scalars' /\ Progress'
    BY <1>1, <1>2 DEF IInv, Scalars, Progress
  <1> QED
    BY <1>1, <1>2, <1>3, Elsewhere DEF Kept

LEMMA BrokerStep == IInv /\ (Answer \/ Close) => Kept
  <1>1. ASSUME IInv, Answer PROVE Kept
    <2>1. lib = "opened" /\ inbox = << >>
      BY <1>1 DEF IInv, Scalars, UnderWay, Answer
    <2>2. greeted' = FALSE /\ UNCHANGED <<pc, locals, session, up, peer, received>>
      BY <1>1 DEF Answer
    <2>3. greeted' \in BOOLEAN /\ ~greeted'
      BY <2>2
    <2>4. faults' \in 0 .. MaxFaults
      BY <1>1, MqttAssumption DEF IInv, Scalars, Answer, Fault
    <2>5. inbox' \in {<<"connack">>, <<"refused">>}
      BY <1>1, <2>1 DEF Answer
    <2>6. UnderWay'
      <3>1. inbox' \in Seq({"connack", "refused", "ack"}) /\ Len(inbox') = 1
        <4>1. /\ <<"connack">> \in Seq({"connack", "refused", "ack"})
              /\ <<"refused">> \in Seq({"connack", "refused", "ack"})
              /\ Len(<<"connack">>) = 1 /\ Len(<<"refused">>) = 1
          OBVIOUS
        <4> QED
          BY <2>5, <4>1
      <3> QED
        BY <2>1, <2>2, <2>3, <2>5, <3>1, MqttAssumption DEF UnderWay, session
    <2>7. Scalars'
      BY <1>1, <2>2, <2>3, <2>4 DEF IInv, Scalars, session, locals
    <2>8. Session' /\ Progress'
      BY <1>1, <2>2 DEF IInv, Session, Progress, session
    <2> QED
      BY <1>1, <2>2, <2>6, <2>7, <2>8, PositionUndisturbed DEF Kept, session
  <1>2. ASSUME IInv, Close PROVE Kept
    <2>1. UNCHANGED <<pc, locals, session, up, greeted, inbox, received>>
      BY <1>2 DEF Close
    <2>2. peer' \in BOOLEAN /\ ~peer'
      BY <1>2 DEF Close
    <2>3. faults' \in 0 .. MaxFaults
      BY <1>2, MqttAssumption DEF IInv, Scalars, Close, Fault
    <2>4. Scalars'
      BY <1>2, <2>1, <2>2, <2>3 DEF IInv, Scalars, session, locals
    <2>5. Session' /\ Progress'
      BY <1>2, <2>1 DEF IInv, Session, Progress, session
    <2>6. UnderWay'
      BY <1>2, <2>1, <2>2 DEF IInv, UnderWay, session
    <2> QED
      BY <1>2, <2>1, <2>2, <2>4, <2>5, <2>6, PositionUndisturbed DEF Kept, session
  <1> QED
    BY <1>1, <1>2

LEMMA NetworkStep == IInv /\ (NetworkUp \/ NetworkDown \/ UNCHANGED vars) => Kept
  <1> SUFFICES ASSUME IInv, NetworkUp \/ NetworkDown \/ UNCHANGED vars PROVE Kept
    OBVIOUS
  <1>1. UNCHANGED <<pc, locals, session, broker>>
    BY DEF NetworkUp, NetworkDown, vars
  <1>2. up' \in BOOLEAN
    <2>1. IInv => up \in BOOLEAN
      BY DEF IInv, Scalars
    <2> QED
      BY <2>1 DEF NetworkUp, NetworkDown, vars, world
  <1>3. faults' \in 0 .. MaxFaults
    BY MqttAssumption DEF IInv, Scalars, NetworkUp, NetworkDown, Fault, vars, world
  <1>4. Scalars' /\ Session' /\ Progress'
    BY <1>1, <1>2, <1>3 DEF IInv, Scalars, Session, Progress, locals, session, broker
  <1>5. UnderWay'
    BY <1>1 DEF IInv, UnderWay, session, broker
  <1> QED
    BY <1>1, <1>4, <1>5, PositionUndisturbed DEF Kept, session, broker

-----------------------------------------------------------------------------
(* The theorems                                                            *)

\* The inductive invariant holds in every run of the publisher.
THEOREM PublisherInvariant == Spec => []IInv
  <1>1. Init => IInv
    <2> SUFFICES ASSUME Init PROVE IInv
      OBVIOUS
    <2>1. Scalars /\ Session /\ Progress
      <3>1. /\ connected \in BOOLEAN /\ up \in BOOLEAN /\ peer \in BOOLEAN
            /\ greeted \in BOOLEAN /\ ~connected
        BY DEF Init
      <3>2. /\ pc = "resolve" /\ tries = 0 /\ i = 0 /\ phase = 1 /\ nfds = 0 /\ lib = "idle"
            /\ sockets = 0 /\ faults = 0
        BY DEF Init
      <3> QED
        BY <3>1, <3>2, MqttAssumption DEF Scalars, Session, Progress
    <2>2. UnderWay /\ Position /\ PublishesInOrder
      BY MqttAssumption DEF Init, UnderWay, Position, Rounds, PublishesInOrder
    <2> QED
      BY <2>1, <2>2 DEF IInv
  <1>2. IInv /\ [Next]_vars => IInv'
    <2>1. IInv /\ [Next]_vars => Kept
      BY ResolveStep, ConnectStep, AwaitStep, TriedStep, PingStep, publishStep, SleepStep,
         QuietStep, LeaveStep, BrokerStep, NetworkStep
         DEF Next, App
    <2> QED
      BY <2>1 DEF Kept, IInv
  <1> QED
    BY <1>1, <1>2, PTL DEF Spec

\* Wherever the connection is lost, the application's view of it is the library's: the
\* flag, the descriptor it polls and the sockets it has open.
THEOREM ApplicationKnowsSession == Spec => []SessionTrue
  <1>1. IInv => SessionTrue
    <2> SUFFICES ASSUME IInv PROVE SessionTrue
      OBVIOUS
    <2>1. inbox \in SeqOf({"connack", "refused", "ack"}, Cap)
      BY SequencesOfTypes, MqttAssumption DEF IInv, UnderWay
    <2>2. Range(received) \subseteq {"q0", "q1"}
      <3>1. received \in Seq({"q0", "q1"}) /\ Len(received) \in Nat
        BY LenProperties DEF IInv, Position
      <3>2. Len(received) <= Len(received)
        BY <3>1
      <3> QED
        BY <3>1, <3>2, SequencesOfTypes, Zenon
    <2> QED
      BY <2>1, <2>2 DEF IInv, Scalars, Session, SessionTrue, TypeOK
  <1> QED
    BY <1>1, PublisherInvariant, PTL

\* What the broker gets in a connection are whole rounds in order, except that the last
\* round may lack its end.
THEOREM BrokerGetsWholeRounds == Spec => []PublishesInOrder
  <1> QED
    BY PublisherInvariant, PTL DEF IInv

-----------------------------------------------------------------------------
(* The passes of the application                                           *)

\* What is left of the rounds of a connection: seven steps each.
RoundsLeft == 7 * (MaxIterations - i) + 2

\* What is left of a pass of the application, from one pause to the next: two steps for
\* each attempt to connect, the rounds, and the rest of the round that is under way.
PassLeft ==
    CASE pc = "try" -> 2 * (ConnectTries - tries) + 7 * MaxIterations + 4
      [] pc = "await" -> 2 * (ConnectTries - tries) + 7 * MaxIterations + 5
      [] pc = "loop" -> RoundsLeft
      [] pc = "sleep" -> RoundsLeft + 2 * (4 - phase)
      [] pc = "publish" -> RoundsLeft + 2 * (4 - phase) - 1
      [] pc = "leave" -> 1
      [] OTHER -> 0

\* Until the pause every step leaves the application where it is, handling what came
\* in during a sleep, or brings it nearer to the pause, whatever the broker and the
\* network do: attempts and rounds are counted, and nothing takes a count back.
PassAdvances ==
    [][pc \notin {"resolve", "pause"} =>
           /\ PassLeft \in Nat
           /\ UNCHANGED <<pc, locals>> \/ PassLeft' < PassLeft]_vars

\* No pass of try_to_connect and publisher goes on for ever: what remains of the returns
\* Recovers counts on is that the sleeps end and the thread runs.
THEOREM PassesEnd == Spec => PassAdvances
  <1> DEFINE Advances ==
        pc \notin {"resolve", "pause"} =>
            /\ PassLeft \in Nat
            /\ UNCHANGED <<pc, locals>> \/ PassLeft' < PassLeft
  <1>1. IInv /\ [Next]_vars => [Advances]_vars
    <2> SUFFICES ASSUME IInv, Next, pc \notin {"resolve", "pause"}
                 PROVE  /\ PassLeft \in Nat
                        /\ UNCHANGED <<pc, locals>> \/ PassLeft' < PassLeft
      OBVIOUS
    <2>1. /\ pc \in {"try", "await", "loop", "sleep", "publish", "leave"}
          /\ tries \in 0 .. ConnectTries /\ i \in 0 .. MaxIterations /\ phase \in 1 .. 3
          /\ pc = "publish" => phase < 3
          /\ MaxIterations \in Nat /\ ConnectTries \in Nat
      BY MqttAssumption DEF IInv, Scalars, Position
    <2>2. PassLeft \in Nat
      BY <2>1 DEF PassLeft, RoundsLeft
    <2>3. CASE Resolve \/ Pause
      BY <2>3 DEF Resolve, Pause, Goto
    <2>4. CASE ConnectFails \/ ConnectSent
      <3>1. /\ pc = "try" /\ pc' \in {"try", "await"} /\ tries < ConnectTries
            /\ tries' = tries + 1
        BY <2>4 DEF ConnectFails, ConnectSent, Goto
      <3> QED
        BY <2>1, <2>2, <3>1 DEF PassLeft
    <2>5. CASE Await
      <3>1. pc = "await" /\ pc' = "try" /\ tries' = tries
        BY <2>5 DEF Await, locals
      <3> QED
        BY <2>1, <2>2, <3>1 DEF PassLeft
    <2>6. CASE Tried
      <3>1. pc = "try" /\ pc' \in {"loop", "pause"} /\ i' = 0
        BY <2>6 DEF Tried
      <3> QED
        BY <2>1, <2>2, <3>1 DEF PassLeft, RoundsLeft
    <2>7. CASE Ping
      <3>1. /\ pc = "loop" /\ pc' \in {"sleep", "leave"} /\ i < MaxIterations /\ i' = i + 1
            /\ phase' = 1
        BY <2>7 DEF Ping, Step
      <3> QED
        BY <2>1, <2>2, <3>1 DEF PassLeft, RoundsLeft
    <2>8. CASE publish
      <3>1. /\ pc = "publish" /\ pc' \in {"sleep", "leave"} /\ i' = i /\ phase' = phase + 1
        BY <2>8 DEF publish, Step
      <3> QED
        BY <2>1, <2>2, <3>1 DEF PassLeft, RoundsLeft
    <2>9. CASE SleepInput \/ mqtt_live
      <3>1. UNCHANGED locals /\ pc = "sleep" /\ (pc' = pc \/ pc' = "leave")
        BY <2>9 DEF SleepInput, mqtt_live
      <3>2. CASE pc' = "leave"
        BY <2>1, <2>2, <3>1, <3>2 DEF PassLeft, RoundsLeft
      <3> QED
        BY <2>2, <3>1, <3>2
    <2>10. CASE Awake
      <3>1. /\ pc = "sleep" /\ i' = i /\ phase' = phase
            /\ IF phase = 3 THEN pc' = "loop" ELSE pc' = "publish"
        BY <2>10 DEF Awake, NextRound, locals
      <3> QED
        BY <2>1, <2>2, <3>1 DEF PassLeft, RoundsLeft
    <2>11. CASE LoopEnds
      <3>1. pc = "loop" /\ pc' = "leave"
        BY <2>11 DEF LoopEnds, Goto
      <3> QED
        BY <2>1, <2>2, <3>1 DEF PassLeft, RoundsLeft
    <2>12. CASE Leave
      <3>1. pc = "leave" /\ pc' = "pause"
        BY <2>12 DEF Leave, Goto
      <3> QED
        BY <2>2, <3>1 DEF PassLeft
    <2>13. CASE Answer \/ Close \/ NetworkUp \/ NetworkDown
      BY <2>2, <2>13 DEF Answer, Close, NetworkUp, NetworkDown
    <2> QED
      BY <2>3, <2>4, <2>5, <2>6, <2>7, <2>8, <2>9, <2>10, <2>11, <2>12, <2>13 DEF Next, App
  <1> QED
    BY <1>1, PublisherInvariant, PTL DEF PassAdvances, Spec
=============================================================================
